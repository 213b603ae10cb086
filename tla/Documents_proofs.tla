----------------------- MODULE Documents_proofs -----------------------
(***************************************************************************)
(* What TLAPS proves of Documents, for every set of sessions and processes *)
(* and every value of the bounds.                                          *)
(***************************************************************************)
EXTENDS Documents, TLAPS

ExportPcs == {"x_clear", "x_put", "x_check", "x_mark", "x_fail"}
RepublishPcs == {"r_off", "r_put", "r_check", "r_on", "r_end"}
EnsurePcs == {"e_load", "e_warn", "e_done"}

\* A process at pc works under the publish lock.
HoldsAt(pc, then) == \/ pc \in ExportPcs \cup RepublishPcs \cup EnsurePcs
                     \/ pc \in {"x_lock", "r_lock"} /\ then \in {"e_warn", "e_done"}
Holds(p) == HoldsAt(proc[p].pc, proc[p].then)

\* The lock is its holder's, an inner entry is known as one, and an export and a
\* republishing return to one of their callers.
CallOK(pc, then, nest) ==
    /\ pc \in ExportPcs \cup RepublishPcs => (nest <=> then \in {"e_warn", "e_done"})
    /\ pc \in ExportPcs \cup {"x_lock"} => then \in {"b_warn", "e_warn"}
    /\ pc \in RepublishPcs \cup {"r_lock"} => then \in {"b_stamp", "g_stamp", "e_done"}

LockInv ==
    \A p \in Procs : /\ lock = p <=> Holds(p)
                     /\ CallOK(proc[p].pc, proc[p].then, proc[p].nest)

\* The objects p has put since it took the lock, and the keys it keeps off the
\* marker meanwhile.
Copied(p, f) ==
    \/ proc[p].pc = "x_put" /\ \E j \in 1 .. Len(Exported) : j < proc[p].i /\ f = Exported[j]
    \/ proc[p].pc = "x_check" /\ \E j \in 1 .. Len(Exported) : j <= proc[p].i /\ f = Exported[j]
    \/ proc[p].pc = "x_mark"
    \/ proc[p].pc \in {"r_check", "r_on"} /\ f = proc[p].f

Unlisted(p, f) ==
    \/ proc[p].pc \in {"x_put", "x_check", "x_mark"}
    \/ proc[p].pc \in {"r_put", "r_check", "r_on"} /\ f = proc[p].f

CopyInv ==
    \A p \in Procs, f \in Files :
        /\ Copied(p, f) => Whole(bucket[f])
        /\ Unlisted(p, f) => f \notin marker.keys

\* A child that has not written its documents yet has been counted.
Started == \A p \in Procs : proc[p].pc \in {"b_json", "b_md", "b_meta"} => builds # 0

\* Process p builds and has not yet recorded how its export went.
Early(p) == \/ proc[p].pc \in {"b_json", "b_md", "b_meta", "b_warn"}
            \/ proc[p].pc \in ExportPcs \cup {"x_lock"} /\ proc[p].then = "b_warn"

\* It still writes its documents.
Writes == {"b_json", "b_md", "b_meta"}

\* One build at a time, with the status of its session's meta.json; the files of
\* a session are its own and of one build.
BuilderOK(p) ==
    /\ proc[p].pc \in Writes => meta[proc[p].s].status = "running"
    /\ Early(p) /\ proc[p].pc \notin Writes => meta[proc[p].s].status = "done"
    /\ proc[p].pc = "b_json" => \A f \in Files : local[proc[p].s][f] = None
    /\ proc[p].pc = "b_md" => local[proc[p].s]["json"][2] = builds
    /\ proc[p].pc = "b_meta" => local[proc[p].s]["md"] # None

SessionOK(s) ==
    /\ \A f \in Files : local[s][f] # None => local[s][f][1] = s
    /\ local[s]["md"] # None => local[s]["json"][2] = local[s]["md"][2]
    /\ meta[s].status = "done" => local[s]["md"] # None

BuildInv ==
    /\ \A p, q \in Procs : Building(p) /\ Building(q) => p = q
    /\ \A p \in Procs : BuilderOK(p)
    /\ \A s \in Sessions : SessionOK(s)

\* The session of its last build's export, whose outcome is recorded.
Quiet(s) == /\ s \notin killed /\ meta[s].status = "done"
            /\ \A p \in Procs : Early(p) => proc[p].s # s

\* No object of session s that is listed, or about to be, is older than build n.
AtLeast(s, f, n) ==
    /\ f \in marker.keys /\ bucket[f][1] = s => bucket[f][2] >= n
    /\ \A p \in Procs : proc[p].s = s /\ Copied(p, f) => bucket[f][2] >= n

ExportInv ==
    /\ \A p \in Procs, f \in Files :
        /\ Copied(p, f) => bucket[f][1] = proc[p].s
        /\ Early(p) /\ Copied(p, f) => bucket[f][2] >= local[proc[p].s][f][2]
    /\ \A s \in Sessions, f \in Files :
        Quiet(s) /\ ~meta[s].warn => AtLeast(s, f, local[s][f][2])

\* A GET that has found no warning.
Passed(p) == \/ proc[p].pc \in {"look", "look2", "ensure", "e_lock"} \cup EnsurePcs
             \/ proc[p].then \in {"e_warn", "e_done"}

\* What a GET is owed stays true of the session's files and of what it may find
\* listed.
Owed(p) ==
    LET s == proc[p].s f == proc[p].f n == proc[p].floor IN
    /\ \A q \in Procs : Early(q) => proc[q].s # s
    /\ local[s][f][2] >= n
    /\ ~meta[s].warn \/ Passed(p) => AtLeast(s, f, n)
    /\ proc[p].pc = "object" /\ bucket[f][1] = s => bucket[f][2] >= n

ReaderInv == \A p \in Procs : proc[p].pc # "idle" /\ proc[p].floor > 0 => Owed(p)

\* A built document is neither missing nor cut short.
LEMMA ContentsWhole ==
    ASSUME NEW c \in Contents
    PROVE  Whole(c) /\ c # None /\ c[1] \in Sessions /\ c[2] \in 1 .. MaxBuilds
  BY DocumentsAssumption DEF Contents, Whole, None, Torn

\* The two exported documents, by name and by their place in the list.
LEMMA FilesKnown ==
    /\ Files = {"json", "md"} /\ Len(Exported) \in Nat \ {0}
    /\ \A i \in 1 .. Len(Exported) : Exported[i] \in Files
  <1>1. Files = {"json", "md"} /\ Len(Exported) \in Nat
    BY DocumentsAssumption
  <1>2. \A i \in 1 .. Len(Exported) : Exported[i] \in Files
    BY DEF Files
  <1>3. Len(Exported) # 0
    <2>1. PICK i \in 1 .. Len(Exported) : Exported[i] = "json"
      BY <1>1 DEF Files
    <2> QED
      BY <1>1, <2>1
  <1> QED
    BY <1>1, <1>2, <1>3


(***************************************************************************)
(* What a step does to the processes.                                      *)
(***************************************************************************)

\* Only p moves, within the types.
Only(p) == proc' \in [Procs -> Process] /\ \A q \in Procs \ {p} : proc'[q] = proc[q]

\* Process p goes on with its request at pc c.
To(p, c, t, n, i) ==
    /\ Only(p)
    /\ proc'[p].pc = c /\ proc'[p].then = t /\ proc'[p].nest = n /\ proc'[p].i = i
    /\ proc'[p].s = proc[p].s /\ proc'[p].f = proc[p].f /\ proc'[p].floor = proc[p].floor

\* A process is typed field by field.
LEMMA ProcFields ==
    ASSUME TypeOK, NEW p \in Procs
    PROVE  /\ proc[p].pc \in States /\ proc[p].s \in Sessions \cup {NoSession}
           /\ proc[p].f \in Files /\ proc[p].i \in 1 .. Len(Exported)
           /\ proc[p].then \in Thens /\ proc[p].nest \in BOOLEAN
           /\ proc[p].floor \in 0 .. MaxBuilds
           /\ proc[p].pc # "idle" => proc[p].s \in Sessions
  BY DEF TypeOK, Process

\* A jump leaves the caller, the nesting and the index as they are.
LEMMA GotoTo ==
    ASSUME TypeOK, NEW p \in Procs, NEW c \in States, Goto(p, c)
    PROVE  To(p, c, proc[p].then, proc[p].nest, proc[p].i)
  BY DEF TypeOK, Process, Goto, To, Only

\* Entering the publish lock records whether the entry is an inner one.
LEMMA NestTo ==
    ASSUME TypeOK, NEW p \in Procs, NEW c \in States, NEW n \in BOOLEAN,
           proc' = [proc EXCEPT ![p].pc = c, ![p].nest = n]
    PROVE  To(p, c, proc[p].then, n, proc[p].i)
  <1> DEFINE old == proc[p]
             new == [old EXCEPT !.pc = c, !.nest = n]
  <1>1. old \in Process
    BY DEF TypeOK
  <1>2. new \in Process
    BY <1>1 DEF Process
  <1>3. /\ new.pc = c /\ new.s = old.s /\ new.f = old.f /\ new.floor = old.floor
        /\ new.then = old.then /\ new.nest = n /\ new.i = old.i
    BY <1>1 DEF Process
  <1>4. proc' = [proc EXCEPT ![p] = new]
    BY DEF TypeOK
  <1>5. proc'[p] = new /\ Only(p)
    BY <1>2, <1>4 DEF TypeOK, Only
  <1> QED
    BY <1>3, <1>5 DEF To

\* An export goes on to a document of the list.
LEMMA IndexTo ==
    ASSUME TypeOK, NEW p \in Procs, NEW c \in States, NEW i \in 1 .. Len(Exported),
           proc' = [proc EXCEPT ![p].pc = c, ![p].i = i]
    PROVE  To(p, c, proc[p].then, proc[p].nest, i)
  <1> DEFINE old == proc[p]
             new == [old EXCEPT !.pc = c, !.i = i]
  <1>1. old \in Process
    BY DEF TypeOK
  <1>2. new \in Process
    BY <1>1 DEF Process
  <1>3. /\ new.pc = c /\ new.s = old.s /\ new.f = old.f /\ new.floor = old.floor
        /\ new.then = old.then /\ new.nest = old.nest /\ new.i = i
    BY <1>1 DEF Process
  <1>4. proc' = [proc EXCEPT ![p] = new]
    BY DEF TypeOK
  <1>5. proc'[p] = new /\ Only(p)
    BY <1>2, <1>4 DEF TypeOK, Only
  <1> QED
    BY <1>3, <1>5 DEF To

\* A call records where it returns to.
LEMMA ThenTo ==
    ASSUME TypeOK, NEW p \in Procs, NEW c \in States, NEW t \in Thens,
           proc' = [proc EXCEPT ![p].pc = c, ![p].then = t]
    PROVE  To(p, c, t, proc[p].nest, proc[p].i)
  <1> DEFINE old == proc[p]
             new == [old EXCEPT !.pc = c, !.then = t]
  <1>1. old \in Process
    BY DEF TypeOK
  <1>2. new \in Process
    BY <1>1 DEF Process
  <1>3. /\ new.pc = c /\ new.s = old.s /\ new.f = old.f /\ new.floor = old.floor
        /\ new.then = t /\ new.nest = old.nest /\ new.i = old.i
    BY <1>1 DEF Process
  <1>4. proc' = [proc EXCEPT ![p] = new]
    BY DEF TypeOK
  <1>5. proc'[p] = new /\ Only(p)
    BY <1>2, <1>4 DEF TypeOK, Only
  <1> QED
    BY <1>3, <1>5 DEF To

\* A process with no request is a process.
LEMMA IdleType == Idle \in Process
  BY FilesKnown, DocumentsAssumption DEF Idle, Process, States, Thens, NoSession

\* A finished request leaves its process idle and no other changed.
LEMMA FinishOnly ==
    ASSUME TypeOK, NEW p \in Procs, Finish(p)
    PROVE  Only(p) /\ proc'[p] = Idle
  BY IdleType DEF TypeOK, Finish, Only

(***************************************************************************)
(* The kinds of step, as the invariants see them.                          *)
(***************************************************************************)

\* Only the holder of the lock has copied objects and taken keys off the marker.
LEMMA CopierHolds ==
    ASSUME LockInv, NEW p \in Procs, NEW f, Copied(p, f) \/ Unlisted(p, f)
    PROVE  lock = p
  BY DEF LockInv, Holds, HoldsAt, Copied, Unlisted, ExportPcs, RepublishPcs

\* The lock follows the one process that moves.
LEMMA LockStep ==
    ASSUME TypeOK, LockInv, NEW p \in Procs, Only(p),
           CallOK(proc'[p].pc, proc'[p].then, proc'[p].nest),
           lock' = p <=> HoldsAt(proc'[p].pc, proc'[p].then),
           lock' = lock \/ (lock \in {NoProc, p} /\ lock' \in {NoProc, p})
    PROVE  LockInv'
  <1> SUFFICES ASSUME NEW q \in Procs
               PROVE  /\ lock' = q <=> HoldsAt(proc'[q].pc, proc'[q].then)
                      /\ CallOK(proc'[q].pc, proc'[q].then, proc'[q].nest)
    BY DEF LockInv, Holds, HoldsAt, CallOK
  <1>1. CASE q = p
    BY <1>1
  <1>2. CASE q # p
    BY <1>2, DocumentsAssumption DEF Only, LockInv, Holds
  <1> QED
    BY <1>1, <1>2

\* No object changes, nothing new is listed and p has copied nothing new.
Shrinks(p) ==
    /\ Only(p) /\ bucket' = bucket /\ marker'.keys \subseteq marker.keys
    /\ \A f \in Files : /\ Copied(p, f)' => Copied(p, f)
                        /\ Unlisted(p, f)' => f \notin marker'.keys

\* p puts the object g, which it keeps off the marker.
Puts(p, g) ==
    /\ Only(p) /\ marker' = marker /\ Unlisted(p, g) /\ g \in Files
    /\ local[proc[p].s][g] # None
    /\ \E c \in {local[proc[p].s][g], bucket[g], Torn} :
          /\ bucket' = [bucket EXCEPT ![g] = c]
          /\ Copied(p, g)' => c = local[proc[p].s][g]
    /\ \A f \in Files : /\ f # g /\ Copied(p, f)' => Copied(p, f)
                        /\ Unlisted(p, f)' => Unlisted(p, f)

\* p lists what it has copied, and has then nothing left to list.
Lists(p) ==
    /\ Only(p) /\ bucket' = bucket /\ lock = p
    /\ \A f \in Files : f \in marker'.keys => f \in marker.keys \/ Copied(p, f)
    /\ \A f \in Files : ~Copied(p, f)' /\ ~Unlisted(p, f)'

\* What a process has copied, keeps off the marker, builds or has passed is its own
\* state.
LEMMA OthersSame ==
    ASSUME NEW p, Only(p), NEW q \in Procs, q # p, NEW f
    PROVE  /\ Copied(q, f)' <=> Copied(q, f)
           /\ Unlisted(q, f)' <=> Unlisted(q, f)
           /\ Early(q)' <=> Early(q)
           /\ Building(q)' <=> Building(q)
           /\ Passed(q)' <=> Passed(q)
  BY DEF Only, Copied, Unlisted, Early, Building, Passed

\* A step that writes no object and adds no key keeps every listed object whole.
LEMMA CopyShrinks ==
    ASSUME TypeOK, CopyInv, MarkerHonest, NEW p \in Procs, Shrinks(p)
    PROVE  CopyInv' /\ MarkerHonest'
  <1>0. Only(p)
    BY DEF Shrinks
  <1>1. MarkerHonest'
    BY DEF Shrinks, MarkerHonest, Whole
  <1>2. ASSUME NEW q \in Procs, NEW f \in Files
        PROVE  (Copied(q, f)' => Whole(bucket[f])') /\ (Unlisted(q, f)' => f \notin marker'.keys)
    <2>1. CASE q = p
      BY <2>1 DEF Shrinks, CopyInv, Whole
    <2>2. CASE q # p
      BY <1>0, <2>2, OthersSame DEF Shrinks, CopyInv, Whole
    <2> QED
      BY <2>1, <2>2
  <1>3. CopyInv'
    BY <1>2 DEF CopyInv
  <1> QED
    BY <1>1, <1>3

\* Neither does a put: its key is off the marker, and only the lock's holder copies.
LEMMA CopyPuts ==
    ASSUME TypeOK, LockInv, CopyInv, MarkerHonest, NEW p \in Procs, NEW g, Puts(p, g),
           proc[p].s \in Sessions
    PROVE  CopyInv' /\ MarkerHonest'
  <1>0. Only(p) /\ g \in Files /\ lock = p /\ marker' = marker
    BY CopierHolds DEF Puts
  <1>1. /\ bucket'[g] = local[proc[p].s][g] \/ ~Copied(p, g)'
        /\ \A f \in Files \ {g} : bucket'[f] = bucket[f]
    BY DEF Puts, TypeOK
  <1>2. Whole(local[proc[p].s][g])
    BY <1>0, ContentsWhole DEF TypeOK, Puts
  <1>3. g \notin marker.keys
    BY <1>0 DEF Puts, CopyInv
  <1>4. MarkerHonest'
    BY <1>0, <1>1, <1>3 DEF MarkerHonest, Whole, TypeOK
  <1>5. ASSUME NEW q \in Procs, NEW f \in Files
        PROVE  (Copied(q, f)' => Whole(bucket[f])') /\ (Unlisted(q, f)' => f \notin marker'.keys)
    <2>1. CASE q = p
      BY <1>0, <1>1, <1>2, <2>1 DEF Puts, CopyInv, Whole
    <2>2. CASE q # p
      BY <1>0, <2>2, OthersSame, CopierHolds
    <2> QED
      BY <2>1, <2>2
  <1>6. CopyInv'
    BY <1>5 DEF CopyInv
  <1> QED
    BY <1>4, <1>6

\* A marker that gains the keys of objects this holder has put lists whole objects.
LEMMA CopyLists ==
    ASSUME TypeOK, TypeOK', LockInv, CopyInv, MarkerHonest, NEW p \in Procs, Lists(p)
    PROVE  CopyInv' /\ MarkerHonest'
  <1>0. Only(p) /\ lock = p /\ bucket' = bucket
    BY DEF Lists
  <1>1. marker'.keys \subseteq Files
    BY DEF TypeOK
  <1>2. MarkerHonest'
    BY <1>0, <1>1 DEF Lists, MarkerHonest, CopyInv, Whole
  <1>3. ASSUME NEW q \in Procs, NEW f \in Files
        PROVE  ~Copied(q, f)' /\ ~Unlisted(q, f)'
    <2>1. CASE q = p
      BY <2>1 DEF Lists
    <2>2. CASE q # p
      BY <1>0, <2>2, OthersSame, CopierHolds
    <2> QED
      BY <2>1, <2>2
  <1>4. CopyInv'
    BY <1>3 DEF CopyInv
  <1> QED
    BY <1>2, <1>4

\* A file that is there stays there, with the number of its build.
Numbers ==
    /\ local' \in [Sessions -> [Files -> Contents \cup {None}]]
    /\ \A s \in Sessions, f \in Files :
        /\ local[s][f] # None => local'[s][f] # None /\ local'[s][f][2] = local[s][f][2]
        /\ local'[s][f] # local[s][f] =>
             /\ local'[s][f][1] = s /\ f = "md"
             /\ local'[s][f][2] = local[s]["json"][2] /\ local[s]["json"] # None

\* p goes on with, ends or begins what it does for a session, and no build begins.
Goes(p) ==
    /\ Only(p) /\ Numbers /\ builds' = builds /\ killed \subseteq killed'
    /\ \/ proc'[p].pc = "idle"
       \/ /\ proc[p].pc # "idle" /\ proc'[p].s = proc[p].s /\ proc'[p].f = proc[p].f
          /\ proc'[p].floor = proc[p].floor
       \/ /\ proc[p].pc = "idle" /\ \A f \in Files : ~Copied(p, f)'
          /\ proc'[p].floor > 0 => Owed(p)'
    /\ Early(p)' => Early(p)
    /\ Building(p)' => \A q \in Procs \ {p} : ~Building(q)
    /\ proc'[p].pc \notin Writes /\ (proc[p].pc \in Writes => proc'[p].pc = "idle")
    /\ \A s \in Sessions :
        /\ \/ meta'[s].status = meta[s].status
           \/ meta'[s].status # "done" /\ Building(p) /\ proc'[p].pc = "idle"
        /\ ~meta'[s].warn => ~meta[s].warn

\* A build that ends has recorded a failed export, has listed all it copied, or
\* is cut off and known to be.
Reports(p) ==
    Early(p) /\ ~Early(p)' =>
        \/ meta'[proc[p].s].warn \/ proc[p].s \in killed' \/ meta'[proc[p].s].status # "done"
        \/ Lists(p) /\ \A f \in Files : Copied(p, f)

\* A step that writes no document keeps the builds' numbers.
LEMMA NumbersSame ==
    ASSUME TypeOK, local' = local
    PROVE  Numbers
  BY DEF TypeOK, Numbers

\* A child that has not recorded its export is building.
LEMMA EarlyBuilds ==
    ASSUME NEW p, Early(p)
    PROVE  Building(p) /\ proc[p].pc # "idle"
  BY DEF Early, Building, ExportPcs

\* A step that starts no build and writes no document keeps one build at a time.
LEMMA BuildGoes ==
    ASSUME TypeOK, BuildInv, NEW p \in Procs, Goes(p)
    PROVE  BuildInv'
  <1>0. Only(p) /\ Numbers /\ builds' = builds
    BY DEF Goes
  <1>1. ASSUME NEW q \in Procs, NEW r \in Procs, Building(q)', Building(r)' PROVE q = r
    <2>1. CASE q # p /\ r # p
      BY <1>0, <1>1, <2>1, OthersSame DEF BuildInv
    <2>2. CASE q = p \/ r = p
      BY <1>0, <1>1, <2>2, OthersSame DEF Goes
    <2> QED
      BY <2>1, <2>2
  <1>2. ASSUME NEW q \in Procs PROVE BuilderOK(q)'
    <2>0. CASE ~Early(q)'
      BY <2>0 DEF BuilderOK, Early, Writes
    <2>1. CASE Early(q)'
      <3>0. /\ Early(q) /\ Building(q) /\ proc[q].pc # "idle" /\ proc'[q].pc # "idle"
            /\ proc[q].s \in Sessions
        <4>1. Early(q)
          BY <1>0, <2>1, OthersSame DEF Goes
        <4>2. proc'[q].pc # "idle"
          BY <2>1 DEF Early, ExportPcs
        <4> QED
          BY <4>1, <4>2, EarlyBuilds, ProcFields
      <3>1. PICK s \in Sessions : s = proc[q].s /\ s = proc'[q].s
        BY <1>0, <3>0 DEF Goes, Only
      <3>2. proc'[q].pc \in Writes \/ proc[q].pc \in Writes => proc'[q].pc = proc[q].pc
        BY <1>0, <3>0 DEF Goes, Only
      <3>3. meta'[s].status = meta[s].status
        BY <1>0, <3>0 DEF Goes, BuildInv
      <3>4. BuilderOK(q)
        BY DEF BuildInv
      <3>5. /\ proc'[q].pc \in Writes => meta'[s].status = "running"
            /\ proc'[q].pc \notin Writes => meta'[s].status = "done"
        BY <2>1, <3>0, <3>1, <3>2, <3>3, <3>4 DEF BuilderOK
      <3>6. proc'[q].pc = "b_json" => \A f \in Files : local'[s][f] = None
        BY <1>0, <3>1, <3>2, <3>4, FilesKnown DEF BuilderOK, Numbers, Writes
      <3>7. proc'[q].pc = "b_md" => local'[s]["json"][2] = builds'
        BY <1>0, <3>1, <3>2, <3>4, FilesKnown DEF BuilderOK, Numbers, Writes
      <3>8. proc'[q].pc = "b_meta" => local'[s]["md"] # None
        BY <1>0, <3>1, <3>2, <3>4, FilesKnown DEF BuilderOK, Numbers, Writes
      <3> QED
        BY <3>1, <3>5, <3>6, <3>7, <3>8 DEF BuilderOK
    <2> QED
      BY <2>0, <2>1
  <1>3. ASSUME NEW s \in Sessions PROVE SessionOK(s)'
    BY <1>0, FilesKnown DEF Numbers, BuildInv, SessionOK, Goes, TypeOK
  <1> QED
    BY <1>1, <1>2, <1>3 DEF BuildInv

\* No session loses its warning, and one becomes quiet only when its build reports.
LEMMA QuietGoes ==
    ASSUME TypeOK, NEW p \in Procs, Goes(p), NEW s \in Sessions, Quiet(s)'
    PROVE  Quiet(s) \/ (Early(p) /\ ~Early(p)' /\ proc[p].s = s)
  <1>1. ASSUME NEW q \in Procs, Early(q), ~(q = p /\ ~Early(p)')
        PROVE  Early(q)' /\ proc'[q].s = proc[q].s
    <2>1. Early(q)'
      BY <1>1, OthersSame DEF Goes
    <2>2. proc'[q].pc # "idle" /\ proc[q].pc # "idle"
      BY <1>1, <2>1 DEF Early, ExportPcs
    <2> QED
      BY <2>1, <2>2 DEF Goes, Only
  <1> QED
    BY <1>1 DEF Quiet, Goes

\* What is listed or about to be is at least of build n, after a step as before.
LEMMA AtLeastShrinks ==
    ASSUME NEW p \in Procs, Shrinks(p), NEW f \in Files, NEW s \in Sessions, NEW n,
           AtLeast(s, f, n), proc'[p].s = s /\ Copied(p, f)' => proc[p].s = s
    PROVE  /\ f \in marker'.keys /\ bucket'[f][1] = s => bucket'[f][2] >= n
           /\ \A q \in Procs : proc'[q].s = s /\ Copied(q, f)' => bucket'[f][2] >= n
  <1>1. ASSUME NEW q \in Procs, proc'[q].s = s, Copied(q, f)' PROVE proc[q].s = s /\ Copied(q, f)
    <2>1. CASE q = p
      BY <1>1, <2>1 DEF Shrinks
    <2>2. CASE q # p
      BY <1>1, <2>2, OthersSame DEF Shrinks, Only
    <2> QED
      BY <2>1, <2>2
  <1> QED
    BY <1>1 DEF Shrinks, AtLeast

\* A put of a document at least as new as n leaves no listed object older than n.
LEMMA AtLeastPuts ==
    ASSUME TypeOK, LockInv, CopyInv, NEW p \in Procs, NEW g, Puts(p, g), proc[p].s \in Sessions,
           NEW f \in Files, NEW s \in Sessions, NEW n,
           AtLeast(s, f, n), proc'[p].s = proc[p].s,
           proc[p].s = s /\ f = g => local[s][f][2] >= n
    PROVE  /\ f \in marker'.keys /\ bucket'[f][1] = s => bucket'[f][2] >= n
           /\ \A q \in Procs : proc'[q].s = s /\ Copied(q, f)' => bucket'[f][2] >= n
  <1>0. Only(p) /\ g \in Files /\ lock = p /\ marker' = marker /\ g \notin marker.keys
    BY CopierHolds DEF Puts, CopyInv
  <1>1. /\ bucket'[g] = local[proc[p].s][g] \/ ~Copied(p, g)'
        /\ f # g => bucket'[f] = bucket[f]
    BY DEF Puts, TypeOK
  <1>2. ASSUME NEW q \in Procs, proc'[q].s = s, Copied(q, f)' PROVE bucket'[f][2] >= n
    <2>1. q = p
      BY <1>0, <1>2, OthersSame, CopierHolds
    <2>2. CASE f = g
      BY <1>1, <1>2, <2>1, <2>2
    <2>3. CASE f # g
      BY <1>1, <1>2, <2>1, <2>3 DEF Puts, AtLeast
    <2> QED
      BY <2>2, <2>3
  <1> QED
    BY <1>0, <1>1, <1>2 DEF AtLeast

\* Listing what the holder has put leaves no listed object of s older than n.
LEMMA AtLeastLists ==
    ASSUME LockInv, ExportInv, NEW p \in Procs, Lists(p),
           NEW f \in Files, NEW s \in Sessions, NEW n, AtLeast(s, f, n)
    PROVE  /\ f \in marker'.keys /\ bucket'[f][1] = s => bucket'[f][2] >= n
           /\ \A q \in Procs : proc'[q].s = s /\ Copied(q, f)' => bucket'[f][2] >= n
  <1>1. ASSUME NEW q \in Procs PROVE ~Copied(q, f)'
    <2>1. CASE q = p
      BY <2>1 DEF Lists
    <2>2. CASE q # p
      BY <2>2, OthersSame, CopierHolds DEF Lists
    <2> QED
      BY <2>1, <2>2
  <1> QED
    BY <1>1 DEF Lists, AtLeast, ExportInv

\* One of the three kinds of step.
Copies(p) == Shrinks(p) \/ Lists(p) \/ \E g \in Files : Puts(p, g)

\* No copying step makes a listed object of s older than n, if the session's own
\* document is not.
LEMMA AtLeastStep ==
    ASSUME TypeOK, LockInv, CopyInv, ExportInv, NEW p \in Procs, Goes(p), Copies(p),
           NEW f \in Files, NEW s \in Sessions, NEW n, AtLeast(s, f, n), local[s][f][2] >= n
    PROVE  /\ f \in marker'.keys /\ bucket'[f][1] = s => bucket'[f][2] >= n
           /\ \A q \in Procs : proc'[q].s = s /\ Copied(q, f)' => bucket'[f][2] >= n
  <1>1. Copied(p, f)' => proc'[p].s = proc[p].s
    BY DEF Copied, Goes
  <1>2. CASE Shrinks(p)
    BY <1>1, <1>2, AtLeastShrinks DEF Goes
  <1>3. CASE Lists(p)
    BY <1>3, AtLeastLists
  <1>4. ASSUME NEW g \in Files, Puts(p, g)
        PROVE  /\ f \in marker'.keys /\ bucket'[f][1] = s => bucket'[f][2] >= n
               /\ \A q \in Procs : proc'[q].s = s /\ Copied(q, f)' => bucket'[f][2] >= n
    <2>1. proc[p].pc # "idle" /\ proc[p].s \in Sessions
      BY <1>4, ProcFields DEF Puts, Unlisted
    <2>2. CASE proc'[p].pc # "idle"
      BY <1>4, <2>1, <2>2, AtLeastPuts DEF Goes
    <2>3. CASE proc'[p].pc = "idle"
      <3>1. ~Copied(p, f)'
        BY <2>3 DEF Copied
      <3>2. lock = p /\ marker' = marker /\ g \notin marker.keys /\ Only(p)
        BY <1>4, CopierHolds DEF Puts, CopyInv
      <3>3. f # g => bucket'[f] = bucket[f]
        BY <1>4 DEF Puts, TypeOK
      <3>4. \A q \in Procs : ~Copied(q, f)'
        BY <3>1, <3>2, OthersSame, CopierHolds
      <3> QED
        BY <3>2, <3>3, <3>4 DEF AtLeast
    <2> QED
      BY <2>2, <2>3
  <1> QED
    BY <1>2, <1>3, <1>4 DEF Copies

\* A step that copies, or that records its export truthfully, keeps a session without
\* a warning listed at its last build.
LEMMA ExportStep ==
    ASSUME TypeOK, LockInv, CopyInv, BuildInv, ExportInv, NEW p \in Procs, Goes(p), Copies(p),
           Reports(p)
    PROVE  ExportInv'
  <1>0. Only(p) /\ Numbers
    BY DEF Goes
  <1>1. ASSUME NEW q \in Procs, NEW f \in Files, Copied(q, f)'
        PROVE  /\ bucket'[f][1] = proc'[q].s
               /\ Early(q)' => bucket'[f][2] >= local'[proc'[q].s][f][2]
    <2> DEFINE s == proc[q].s
    <2>1. /\ proc'[q].pc # "idle" /\ proc'[q].s = s /\ s \in Sessions /\ proc[q].pc # "idle"
          /\ Early(q)' => Early(q)
      <3>1. proc'[q].pc # "idle"
        BY <1>1 DEF Copied
      <3>2. proc'[q].s = s /\ proc[q].pc # "idle" /\ (Early(q)' => Early(q))
        BY <1>1, <3>1, <1>0, OthersSame DEF Only, Goes
      <3> QED
        BY <3>1, <3>2, ProcFields
    <2>2. Early(q) => local[s][f] # None /\ local'[s][f][2] = local[s][f][2]
      <3>1. HAVE Early(q)
      <3>2. proc'[q].pc \notin Writes
        BY <1>1 DEF Copied, Writes
      <3>3. proc[q].pc \notin Writes
        BY <1>0, <2>1, <3>2 DEF Goes, Only
      <3>4. meta[s].status = "done"
        BY <3>1, <3>3 DEF BuildInv, BuilderOK
      <3>5. local[s]["md"] # None /\ local[s]["json"][2] = local[s]["md"][2]
        BY <3>4, <2>1 DEF BuildInv, SessionOK
      <3>6. local[s]["md"] \in Contents /\ local[s]["md"][2] \in 1 .. MaxBuilds
        BY <3>5, <2>1, FilesKnown, ContentsWhole DEF TypeOK
      <3>7. local[s]["json"] # None
        BY <3>5, <3>6 DEF None
      <3> QED
        BY <3>5, <3>7, <1>0, <2>1, FilesKnown DEF Numbers
    <2>3. CASE Shrinks(p) \/ (q # p /\ Copied(q, f) /\ bucket' = bucket)
      <3>1. Copied(q, f) /\ bucket' = bucket
        BY <2>3, <1>1, <1>0, OthersSame DEF Shrinks
      <3> QED
        BY <3>1, <2>1, <2>2 DEF ExportInv
    <2>4. CASE Lists(p)
      <3>1. lock = p /\ ~Copied(p, f)'
        BY <2>4 DEF Lists
      <3> QED
        BY <3>1, <1>0, <1>1, OthersSame, CopierHolds
    <2>5. ASSUME NEW g \in Files, Puts(p, g)
          PROVE  /\ bucket'[f][1] = proc'[q].s
                 /\ Early(q)' => bucket'[f][2] >= local'[proc'[q].s][f][2]
      <3>1. q = p
        BY <2>5, <1>0, <1>1, OthersSame, CopierHolds DEF Puts
      <3>2. CASE f = g
        <4>1. bucket'[f] = local[s][f] /\ local[s][f] # None
          BY <1>1, <2>5, <3>1, <3>2 DEF Puts, TypeOK
        <4>2. local[s][f][1] = s /\ local[s][f][2] \in Nat
          BY <4>1, <2>1, ContentsWhole, DocumentsAssumption DEF BuildInv, SessionOK, TypeOK
        <4> QED
          BY <4>1, <4>2, <2>1, <2>2
      <3>3. CASE f # g
        <4>1. bucket'[f] = bucket[f] /\ Copied(q, f)
          BY <1>1, <2>5, <3>1, <3>3 DEF Puts, TypeOK
        <4> QED
          BY <4>1, <2>1, <2>2 DEF ExportInv
      <3> QED
        BY <3>2, <3>3
    <2> QED
      BY <2>3, <2>4, <2>5 DEF Copies
  <1>2. ASSUME NEW s \in Sessions, NEW f \in Files, Quiet(s)', ~meta'[s].warn
        PROVE  /\ f \in marker'.keys /\ bucket'[f][1] = s => bucket'[f][2] >= local'[s][f][2]
               /\ \A q \in Procs : proc'[q].s = s /\ Copied(q, f)'
                                   => bucket'[f][2] >= local'[s][f][2]
    <2>0. ~meta[s].warn /\ meta[s].status = "done"
      BY <1>2 DEF Goes, Quiet
    <2>1. local[s]["md"] # None /\ local[s]["json"][2] = local[s]["md"][2]
      BY <2>0 DEF BuildInv, SessionOK
    <2>2. local[s]["md"] \in Contents /\ local[s]["md"][2] \in 1 .. MaxBuilds
      BY <2>1, FilesKnown, ContentsWhole DEF TypeOK
    <2>3. local[s]["json"] # None
      BY <2>1, <2>2 DEF None
    <2>4. local'[s][f][2] = local[s][f][2] /\ local[s][f][2] \in Nat
      BY <2>1, <2>2, <2>3, <1>0, FilesKnown, DocumentsAssumption DEF Numbers
    <2>5. CASE Quiet(s)
      <3>1. AtLeast(s, f, local[s][f][2])
        BY <2>0, <2>5 DEF ExportInv
      <3>2. local[s][f][2] >= local[s][f][2]
        BY <2>4
      <3> QED
        BY <2>4, <3>1, <3>2, AtLeastStep
    <2>6. CASE Early(p) /\ ~Early(p)' /\ proc[p].s = s
      <3>1. Lists(p) /\ Copied(p, f)
        BY <1>2, <2>6 DEF Reports, Quiet
      <3>2. bucket'[f][2] >= local[s][f][2]
        BY <2>6, <3>1 DEF ExportInv, Lists
      <3> QED
        BY <2>4, <3>2
    <2> QED
      BY <1>2, <2>5, <2>6, QuietGoes
  <1> QED
    BY <1>1, <1>2 DEF ExportInv, AtLeast, Quiet, Early

\* A step that lets a GET pass only where it finds no warning keeps what GETs are owed.
LEMMA ReaderStep ==
    ASSUME TypeOK, LockInv, CopyInv, BuildInv, ExportInv, ReaderInv,
           NEW p \in Procs, Goes(p), Copies(p),
           proc[p].pc # "idle" /\ Passed(p)' => Passed(p) \/ ~meta[proc[p].s].warn,
           proc'[p].pc = "object" => Passed(p) /\ proc[p].f \in marker.keys /\ bucket' = bucket
    PROVE  ReaderInv'
  <1>0. Only(p) /\ Numbers
    BY DEF Goes
  <1> SUFFICES ASSUME NEW q \in Procs, proc'[q].pc # "idle", proc'[q].floor > 0
               PROVE  Owed(q)'
    BY DEF ReaderInv
  <1>b. CASE q = p /\ proc[p].pc = "idle"
    BY <1>b DEF Goes
  <1> SUFFICES ASSUME ~(q = p /\ proc[p].pc = "idle") PROVE Owed(q)'
    BY <1>b
  <1>1. /\ proc[q].pc # "idle" /\ proc'[q].s = proc[q].s /\ proc'[q].f = proc[q].f
        /\ proc'[q].floor = proc[q].floor
        /\ Passed(q)' => Passed(q) \/ ~meta[proc[q].s].warn
        /\ proc'[q].pc = "object" /\ q # p => proc[q].pc = "object"
    BY <1>0, OthersSame DEF Goes, Only
  <1>2. PICK s \in Sessions, f \in Files, n \in Nat \ {0} :
            s = proc[q].s /\ f = proc[q].f /\ n = proc[q].floor
    BY <1>1, ProcFields, DocumentsAssumption
  <1>3. Owed(q)
    BY <1>1 DEF ReaderInv
  <1>4. ASSUME NEW r \in Procs, Early(r)' PROVE proc'[r].s # s
    <2>1. Early(r) /\ proc'[r].pc # "idle"
      BY <1>4, <1>0, OthersSame DEF Goes, Early, ExportPcs
    <2>2. proc'[r].s = proc[r].s
      BY <2>1, <1>0, EarlyBuilds DEF Goes, Only
    <2> QED
      BY <2>1, <2>2, <1>2, <1>3 DEF Owed
  <1>5. local[s][f] # None /\ local[s][f][2] >= n
    BY <1>2, <1>3 DEF Owed, None
  <1>6. local'[s][f][2] >= n
    BY <1>0, <1>2, <1>5 DEF Numbers
  <1>7. ASSUME ~meta'[s].warn \/ Passed(q)'
        PROVE  /\ f \in marker'.keys /\ bucket'[f][1] = s => bucket'[f][2] >= n
               /\ \A r \in Procs : proc'[r].s = s /\ Copied(r, f)' => bucket'[f][2] >= n
    <2>1. AtLeast(s, f, n)
      BY <1>1, <1>2, <1>3, <1>7 DEF Owed, Goes
    <2> QED
      BY <1>5, <2>1, AtLeastStep
  <1>8. ASSUME proc'[q].pc = "object", bucket'[f][1] = s PROVE bucket'[f][2] >= n
    <2>1. CASE q = p
      <3>1. Passed(p) /\ f \in marker.keys /\ bucket' = bucket
        BY <2>1, <1>2, <1>8
      <3>2. AtLeast(s, f, n)
        BY <3>1, <2>1, <1>2, <1>3 DEF Owed
      <3> QED
        BY <3>1, <3>2, <1>8 DEF AtLeast
    <2>2. CASE q # p /\ bucket'[f] = bucket[f]
      BY <2>2, <1>1, <1>2, <1>3, <1>8 DEF Owed
    <2>3. CASE q # p /\ bucket'[f] # bucket[f]
      <3>1. PICK g \in Files : Puts(p, g)
        BY <2>3 DEF Copies, Shrinks, Lists
      <3>2. g = f /\ (bucket'[f] = local[proc[p].s][f] \/ bucket'[f] = Torn)
        BY <2>3, <3>1, <1>2 DEF Puts, TypeOK
      <3>3. bucket'[f] # Torn
        BY <1>2, <1>8, DocumentsAssumption DEF Torn
      <3>4. proc[p].s \in Sessions /\ local[proc[p].s][f] # None
        BY <3>1, <3>2, ProcFields DEF Puts, Unlisted
      <3>5. proc[p].s = s
        BY <3>2, <3>3, <3>4, <1>8, <1>2 DEF BuildInv, SessionOK
      <3> QED
        BY <3>2, <3>3, <3>5, <1>5
    <2> QED
      BY <2>1, <2>2, <2>3
  <1> QED
    BY <1>1, <1>2, <1>4, <1>6, <1>7, <1>8 DEF Owed, AtLeast

(***************************************************************************)
(* The inductive invariant, and what an ordinary step owes it.             *)
(***************************************************************************)
IInv == TypeOK /\ Started /\ LockInv /\ CopyInv /\ MarkerHonest
        /\ BuildInv /\ ExportInv /\ ReaderInv

\* TypeOK without the processes.
SharedType ==
    /\ local \in [Sessions -> [Files -> Contents \cup {None}]]
    /\ meta \in [Sessions -> [status : {"none", "running", "done", "failed"}, warn : BOOLEAN]]
    /\ stamp \in [Sessions -> 0 .. MaxRenderer]
    /\ bucket \in [Files -> Contents \cup {None, Torn}]
    /\ marker \in [state : {"missing", "torn", "ok"}, keys : SUBSET Files]
    /\ lock \in Procs \cup {NoProc}
    /\ killed \subseteq Sessions
    /\ builds \in 0 .. MaxBuilds /\ faults \in 0 .. MaxFaults
    /\ kills \in 0 .. MaxKills /\ renderer \in 1 .. MaxRenderer

\* The shared state and the one process that moved are all there is to type.
LEMMA TypeStep ==
    ASSUME TypeOK, SharedType', NEW p \in Procs, Only(p),
           proc'[p].pc # "idle" => proc'[p].s \in Sessions
    PROVE  TypeOK'
  BY DEF TypeOK, SharedType, Only

\* A step that goes on with its request, copies under the lock and reports its export
\* keeps the invariant.
LEMMA GeneralStep ==
    ASSUME IInv, SharedType', NEW p \in Procs, Goes(p), Copies(p), Reports(p),
           proc'[p].pc # "idle" => proc'[p].s \in Sessions,
           CallOK(proc'[p].pc, proc'[p].then, proc'[p].nest),
           lock' = p <=> HoldsAt(proc'[p].pc, proc'[p].then),
           lock' = lock \/ (lock \in {NoProc, p} /\ lock' \in {NoProc, p}),
           proc[p].pc # "idle" /\ Passed(p)' => Passed(p) \/ ~meta[proc[p].s].warn,
           proc'[p].pc = "object" => Passed(p) /\ proc[p].f \in marker.keys /\ bucket' = bucket
    PROVE  IInv'
  <1> USE DEF IInv
  <1>0. Only(p)
    BY DEF Goes
  <1>1. TypeOK'
    BY <1>0, TypeStep
  <1>2. LockInv'
    BY <1>0, LockStep
  <1>3. CopyInv' /\ MarkerHonest'
    <2>1. ASSUME NEW g \in Files, Puts(p, g) PROVE proc[p].s \in Sessions
      BY <2>1, ProcFields DEF Puts, Unlisted
    <2> QED
      BY <1>1, <2>1, CopyShrinks, CopyPuts, CopyLists DEF Copies
  <1>4. Started'
    BY DEF Started, Goes, Only, Writes
  <1> QED
    BY <1>1, <1>2, <1>3, <1>4, BuildGoes, ExportStep, ReaderStep

\* p goes on with, or ends, what it does for its session, and no build begins,
\* reports or is cut off.
Still(p) ==
    /\ Only(p) /\ Numbers /\ builds' = builds /\ killed' = killed
    /\ proc'[p].pc # "idle" => /\ proc'[p].s = proc[p].s /\ proc'[p].f = proc[p].f
                              /\ proc'[p].floor = proc[p].floor
    /\ proc[p].pc # "idle"
    /\ Early(p)' <=> Early(p)
    /\ Building(p)' => Building(p)
    /\ proc[p].pc \notin Writes /\ proc'[p].pc \notin Writes
    /\ \A s \in Sessions : /\ meta'[s].status = meta[s].status
                           /\ ~meta'[s].warn => ~meta[s].warn

\* So does a step that leaves builds and warnings alone.
LEMMA OrdinaryStep ==
    ASSUME IInv, SharedType', NEW p \in Procs, Still(p), Copies(p),
           CallOK(proc'[p].pc, proc'[p].then, proc'[p].nest),
           lock' = p <=> HoldsAt(proc'[p].pc, proc'[p].then),
           lock' = lock \/ (lock \in {NoProc, p} /\ lock' \in {NoProc, p}),
           Passed(p)' => Passed(p) \/ ~meta[proc[p].s].warn,
           proc'[p].pc = "object" => Passed(p) /\ proc[p].f \in marker.keys /\ bucket' = bucket
    PROVE  IInv'
  <1>1. Building(p)' => \A q \in Procs \ {p} : ~Building(q)
    BY DEF Still, IInv, BuildInv
  <1>2. Goes(p) /\ Reports(p)
    BY <1>1 DEF Still, Goes, Reports
  <1>3. proc'[p].pc # "idle" => proc'[p].s \in Sessions
    BY ProcFields DEF Still, IInv
  <1> QED
    BY <1>2, <1>3, GeneralStep

\* The callers of an export and of a republishing.
LEMMA Callers ==
    ASSUME IInv, NEW p \in Procs
    PROVE  /\ CallOK(proc[p].pc, proc[p].then, proc[p].nest)
           /\ lock = p <=> HoldsAt(proc[p].pc, proc[p].then)
           /\ lock \in Procs \cup {NoProc} /\ NoProc # p
  BY DocumentsAssumption DEF IInv, LockInv, Holds, TypeOK

(***************************************************************************)
(* The bucket's calls.                                                     *)
(***************************************************************************)
\* A failed call is counted within its bound.
LEMMA CountType ==
    ASSUME TypeOK, NEW ok \in BOOLEAN, ok \/ faults < MaxFaults, Count(ok)
    PROVE  faults' \in 0 .. MaxFaults
  BY DocumentsAssumption DEF TypeOK, Count

\* Putting the marker ends in the new keys, the old ones or an unreadable marker.
LEMMA MarkerPut ==
    ASSUME TypeOK, NEW keys \in SUBSET Files, NEW r \in put_marker(keys), Count(r[1])
    PROVE  /\ r[1] \in BOOLEAN /\ faults' \in 0 .. MaxFaults
           /\ r[2] \in [state : {"missing", "torn", "ok"}, keys : SUBSET Files]
           /\ r[2].keys \in {keys, marker.keys, {}}
           /\ r[1] => r[2].keys = keys
  <1> DEFINE ok == [state |-> "ok", keys |-> keys]
             torn == [state |-> "torn", keys |-> {}]
  <1>1. /\ marker \in [state : {"missing", "torn", "ok"}, keys : SUBSET Files]
        /\ ok \in [state : {"missing", "torn", "ok"}, keys : SUBSET Files] /\ ok.keys = keys
        /\ torn \in [state : {"missing", "torn", "ok"}, keys : SUBSET Files] /\ torn.keys = {}
    BY DEF TypeOK
  <1>2. \/ r = <<TRUE, ok>>
        \/ faults < MaxFaults /\ r \in {<<FALSE, marker>>, <<FALSE, torn>>, <<FALSE, ok>>}
    BY DEF put_marker
  <1> HIDE DEF ok, torn
  <1>3. /\ r[1] \in BOOLEAN /\ r[2] \in {ok, torn, marker} /\ (r[1] => r[2] = ok)
        /\ r[1] \/ faults < MaxFaults
    <2>1. CASE r = <<TRUE, ok>>
      BY <2>1
    <2>2. CASE faults < MaxFaults /\ r = <<FALSE, marker>>
      BY <2>2
    <2>3. CASE faults < MaxFaults /\ r = <<FALSE, torn>>
      BY <2>3
    <2>4. CASE faults < MaxFaults /\ r = <<FALSE, ok>>
      BY <2>4
    <2> QED
      BY <1>2, <2>1, <2>2, <2>3, <2>4
  <1>4. faults' \in 0 .. MaxFaults
    BY <1>3, CountType
  <1> QED
    BY <1>1, <1>3, <1>4

\* Putting an object ends in the new contents, the old ones or a torn object.
LEMMA ObjectPut ==
    ASSUME TypeOK, NEW c, NEW o, NEW r \in Put(c, o), Count(r[1])
    PROVE  /\ r[1] \in BOOLEAN /\ faults' \in 0 .. MaxFaults
           /\ r[2] \in {c, o, Torn} /\ (r[1] => r[2] = c)
  <1>1. \/ r = <<TRUE, c>>
        \/ faults < MaxFaults /\ r \in {<<FALSE, o>>, <<FALSE, Torn>>, <<FALSE, c>>}
    BY DEF Put
  <1>2. /\ r[1] \in BOOLEAN /\ r[2] \in {c, o, Torn} /\ (r[1] => r[2] = c)
        /\ r[1] \/ faults < MaxFaults
    <2>1. CASE r = <<TRUE, c>>
      BY <2>1
    <2>2. CASE faults < MaxFaults /\ r = <<FALSE, o>>
      BY <2>2
    <2>3. CASE faults < MaxFaults /\ r = <<FALSE, Torn>>
      BY <2>3
    <2>4. CASE faults < MaxFaults /\ r = <<FALSE, c>>
      BY <2>4
    <2> QED
      BY <1>1, <2>1, <2>2, <2>3, <2>4
  <1> QED
    BY <1>2, CountType

\* A read that fails is counted within its bound.
LEMMA ReadCount ==
    ASSUME TypeOK, NEW r \in Reads, Count(r)
    PROVE  r \in BOOLEAN /\ faults' \in 0 .. MaxFaults
  <1>1. r \in BOOLEAN /\ (r \/ faults < MaxFaults)
    BY DEF Reads
  <1> QED
    BY <1>1, CountType

(***************************************************************************)
(* export_succeeded_book keeps the invariant.                              *)
(***************************************************************************)
\* An export waits for the publish lock.
LEMMA ExportLockInv ==
    ASSUME IInv, NEW p \in Procs, ExportLock(p)
    PROVE  IInv'
  <1>0. TypeOK /\ proc[p].pc = "x_lock" /\ lock \in {NoProc, p} /\ lock' = p
    BY DEF IInv, ExportLock, publish_lock
  <1>1. To(p, "x_clear", proc[p].then, lock = p, proc[p].i)
    BY <1>0, NestTo DEF ExportLock, publish_lock, States
  <1>2. SharedType'
    BY <1>0 DEF TypeOK, SharedType, ExportLock, files, counts
  <1>3. Still(p)
    BY <1>0, <1>1, NumbersSame
       DEF Still, To, Early, Building, Writes, ExportPcs, ExportLock, files, counts
  <1>4. Shrinks(p)
    BY <1>1 DEF Shrinks, To, Copied, Unlisted, ExportLock
  <1>5. CallOK(proc'[p].pc, proc'[p].then, proc'[p].nest) /\ HoldsAt(proc'[p].pc, proc'[p].then)
    BY <1>0, <1>1, Callers DEF To, CallOK, HoldsAt, ExportPcs, RepublishPcs, EnsurePcs
  <1>6. (Passed(p)' => Passed(p)) /\ proc'[p].pc # "object"
    BY <1>0, <1>1 DEF To, Passed, EnsurePcs
  <1> QED
    BY <1>0, <1>2, <1>3, <1>4, <1>5, <1>6, OrdinaryStep DEF Copies

\* An export first clears the marker.
LEMMA ExportClearInv ==
    ASSUME IInv, NEW p \in Procs, ExportClear(p)
    PROVE  IInv'
  <1>0. TypeOK /\ proc[p].pc = "x_clear" /\ 1 \in 1 .. Len(Exported)
    BY FilesKnown DEF IInv, ExportClear
  <1>p. PICK r \in put_marker({}) :
          /\ marker' = r[2] /\ Count(r[1])
          /\ proc' = [proc EXCEPT ![p].pc = IF r[1] THEN "x_put" ELSE "x_fail", ![p].i = 1]
    BY DEF ExportClear
  <1>q. /\ r[1] \in BOOLEAN /\ (r[1] => marker'.keys = {})
        /\ marker' \in [state : {"missing", "torn", "ok"}, keys : SUBSET Files]
        /\ marker'.keys \subseteq marker.keys
        /\ faults' \in 0 .. MaxFaults
    BY <1>0, <1>p, MarkerPut
  <1>1. PICK c \in {"x_put", "x_fail"} :
           To(p, c, proc[p].then, proc[p].nest, 1) /\ (c = "x_put" => marker'.keys = {})
    BY <1>0, <1>p, <1>q, IndexTo DEF States
  <1>2. SharedType'
    BY <1>0, <1>q DEF TypeOK, SharedType, ExportClear, files
  <1>3. Still(p)
    BY <1>0, <1>1, NumbersSame
       DEF Still, To, Early, Building, Writes, ExportPcs, ExportClear, files
  <1>4. Shrinks(p)
    <2>1. \A f \in Files : ~Copied(p, f)'
      BY <1>1 DEF To, Copied
    <2>2. \A f \in Files : Unlisted(p, f)' => f \notin marker'.keys
      BY <1>1 DEF To, Unlisted
    <2> QED
      BY <1>1, <1>q, <2>1, <2>2 DEF Shrinks, To, ExportClear
  <1>5. /\ CallOK(proc'[p].pc, proc'[p].then, proc'[p].nest) /\ HoldsAt(proc'[p].pc, proc'[p].then)
        /\ lock' = p /\ lock = p
    BY <1>0, <1>1, Callers DEF To, CallOK, HoldsAt, ExportPcs, RepublishPcs, EnsurePcs, ExportClear
  <1>6. (Passed(p)' => Passed(p)) /\ proc'[p].pc # "object"
    BY <1>0, <1>1 DEF To, Passed, EnsurePcs
  <1> QED
    BY <1>2, <1>3, <1>4, <1>5, <1>6, OrdinaryStep DEF Copies

\* Leaving the lock.
LEMMA LeaveTo ==
    ASSUME TypeOK, NEW p \in Procs, NEW c \in States, Leave(p, c)
    PROVE  /\ To(p, c, proc[p].then, FALSE, proc[p].i)
           /\ lock' = IF proc[p].nest THEN p ELSE NoProc
  BY NestTo DEF Leave

\* An export verifies what it put.
LEMMA ExportCheckInv ==
    ASSUME IInv, NEW p \in Procs, ExportCheck(p)
    PROVE  IInv'
  <1>0. TypeOK /\ proc[p].pc = "x_check"
    BY DEF IInv, ExportCheck
  <1>p. PICK same \in SizeMatches(Exported[proc[p].i], proc[p].s) :
          proc' = [proc EXCEPT ![p].pc = IF ~same THEN "x_fail"
                                         ELSE IF proc[p].i < Len(Exported) THEN "x_put" ELSE "x_mark",
                               ![p].i = IF same /\ proc[p].i < Len(Exported)
                                        THEN proc[p].i + 1 ELSE proc[p].i]
    BY DEF ExportCheck
  <1>q. proc[p].i \in 1 .. Len(Exported) /\ Len(Exported) \in Nat
    BY <1>0, ProcFields, FilesKnown
  <1>1. PICK c \in {"x_put", "x_mark", "x_fail"}, i \in 1 .. Len(Exported) :
          /\ To(p, c, proc[p].then, proc[p].nest, i)
          /\ c = "x_put" => i = proc[p].i + 1
          /\ c = "x_mark" => proc[p].i = Len(Exported)
    <2>1. CASE same /\ proc[p].i < Len(Exported)
      <3>1. proc' = [proc EXCEPT ![p].pc = "x_put", ![p].i = proc[p].i + 1]
        BY <1>p, <2>1
      <3>2. proc[p].i + 1 \in 1 .. Len(Exported)
        BY <1>q, <2>1
      <3> QED
        BY <1>0, <3>1, <3>2, IndexTo DEF States
    <2>2. CASE same /\ ~(proc[p].i < Len(Exported))
      <3>1. proc' = [proc EXCEPT ![p].pc = "x_mark", ![p].i = proc[p].i]
        BY <1>p, <2>2
      <3>2. To(p, "x_mark", proc[p].then, proc[p].nest, proc[p].i)
        BY <1>0, <1>q, <3>1, IndexTo DEF States
      <3>3. proc[p].i = Len(Exported)
        BY <1>q, <2>2
      <3> QED
        BY <1>q, <3>2, <3>3
    <2>3. CASE ~same
      <3>1. proc' = [proc EXCEPT ![p].pc = "x_fail", ![p].i = proc[p].i]
        BY <1>p, <2>3
      <3> QED
        BY <1>0, <1>q, <3>1, IndexTo DEF States
    <2> QED
      BY <2>1, <2>2, <2>3
  <1>2. SharedType'
    BY <1>0 DEF TypeOK, SharedType, ExportCheck, files, counts
  <1>3. Still(p)
    BY <1>0, <1>1, NumbersSame
       DEF Still, To, Early, Building, Writes, ExportPcs, ExportCheck, files, counts
  <1>4. Shrinks(p)
    <2>1. ASSUME NEW f \in Files, Copied(p, f)' PROVE Copied(p, f)
      <3>1. CASE c = "x_put"
        BY <1>0, <1>1, <1>q, <2>1, <3>1 DEF To, Copied
      <3>2. CASE c = "x_mark"
        <4>1. PICK j \in 1 .. Len(Exported) : f = Exported[j]
          BY DEF Files
        <4> QED
          BY <1>0, <1>1, <1>q, <3>2, <4>1 DEF Copied
      <3>3. CASE c = "x_fail"
        BY <1>1, <2>1, <3>3 DEF To, Copied
      <3> QED
        BY <3>1, <3>2, <3>3
    <2>2. \A f \in Files : Unlisted(p, f)' => f \notin marker'.keys
      BY <1>0, <1>1 DEF IInv, CopyInv, Unlisted, To, ExportCheck
    <2> QED
      BY <1>1, <2>1, <2>2 DEF Shrinks, To, ExportCheck
  <1>5. /\ CallOK(proc'[p].pc, proc'[p].then, proc'[p].nest) /\ HoldsAt(proc'[p].pc, proc'[p].then)
        /\ lock = p /\ lock' = p
    BY <1>0, <1>1, Callers DEF To, CallOK, HoldsAt, ExportPcs, RepublishPcs, EnsurePcs, ExportCheck
  <1>6. (Passed(p)' => Passed(p)) /\ proc'[p].pc # "object"
    BY <1>0, <1>1 DEF To, Passed, EnsurePcs
  <1> QED
    BY <1>0, <1>1, <1>2, <1>3, <1>4, <1>5, <1>6, OrdinaryStep DEF Copies

\* A failed export clears the marker again.
LEMMA ExportFailInv ==
    ASSUME IInv, NEW p \in Procs, ExportFail(p)
    PROVE  IInv'
  <1>0. TypeOK /\ proc[p].pc = "x_fail"
    BY DEF IInv, ExportFail
  <1>p. /\ marker' \in [state : {"missing", "torn", "ok"}, keys : SUBSET Files]
        /\ marker'.keys \subseteq marker.keys /\ faults' \in 0 .. MaxFaults
    <2>1. CASE UNCHANGED <<marker, faults>>
      BY <1>0, <2>1 DEF TypeOK
    <2>2. ASSUME NEW r \in put_marker({}), marker' = r[2], Count(r[1])
          PROVE  /\ marker' \in [state : {"missing", "torn", "ok"}, keys : SUBSET Files]
                 /\ marker'.keys \subseteq marker.keys /\ faults' \in 0 .. MaxFaults
      BY <1>0, <2>2, MarkerPut
    <2> QED
      BY <2>1, <2>2 DEF ExportFail
  <1>q. proc[p].then \in {"b_warn", "e_warn"}
    BY <1>0, Callers DEF CallOK, ExportPcs
  <1>1. /\ To(p, proc[p].then, proc[p].then, FALSE, proc[p].i)
        /\ lock' = IF proc[p].nest THEN p ELSE NoProc
    BY <1>0, <1>q, LeaveTo DEF ExportFail, States
  <1>2. SharedType'
    BY <1>0, <1>1, <1>p DEF TypeOK, SharedType, ExportFail, files
  <1>3. Still(p)
    BY <1>0, <1>1, NumbersSame, <1>q
       DEF Still, To, Early, Building, Writes, ExportPcs, ExportFail, files, counts
  <1>4. Shrinks(p)
    BY <1>0, <1>1, <1>p, <1>q DEF Shrinks, To, Copied, Unlisted, ExportFail
  <1>5. /\ CallOK(proc'[p].pc, proc'[p].then, proc'[p].nest)
        /\ lock' = p <=> HoldsAt(proc'[p].pc, proc'[p].then)
        /\ lock = p /\ lock' \in {NoProc, p}
    BY <1>0, <1>1, <1>q, Callers DEF To, CallOK, HoldsAt, ExportPcs, RepublishPcs, EnsurePcs, ExportFail
  <1>6. (Passed(p)' => Passed(p)) /\ proc'[p].pc # "object"
    BY <1>0, <1>1, <1>q DEF To, Passed, EnsurePcs
  <1> QED
    BY <1>0, <1>1, <1>2, <1>3, <1>4, <1>5, <1>6, OrdinaryStep DEF Copies

(***************************************************************************)
(* republish_file keeps the invariant.                                     *)
(***************************************************************************)
\* A republishing waits for the lock.
LEMMA RepublishLockInv ==
    ASSUME IInv, NEW p \in Procs, RepublishLock(p)
    PROVE  IInv'
  <1>0. TypeOK /\ proc[p].pc = "r_lock" /\ lock \in {NoProc, p} /\ lock' = p
    BY DEF IInv, RepublishLock, publish_lock
  <1>1. To(p, "r_off", proc[p].then, lock = p, proc[p].i)
    BY <1>0, NestTo DEF RepublishLock, publish_lock, States
  <1>2. SharedType'
    BY <1>0 DEF TypeOK, SharedType, RepublishLock, files, counts
  <1>3. Still(p)
    BY <1>0, <1>1, NumbersSame
       DEF Still, To, Early, Building, Writes, ExportPcs, RepublishLock, files, counts
  <1>4. Shrinks(p)
    BY <1>0, <1>1 DEF Shrinks, To, Copied, Unlisted, RepublishLock
  <1>5. CallOK(proc'[p].pc, proc'[p].then, proc'[p].nest) /\ HoldsAt(proc'[p].pc, proc'[p].then)
    BY <1>0, <1>1, Callers DEF To, CallOK, HoldsAt, ExportPcs, RepublishPcs, EnsurePcs
  <1>6. (Passed(p)' => Passed(p)) /\ proc'[p].pc # "object"
    BY <1>0, <1>1 DEF To, Passed, EnsurePcs
  <1> QED
    BY <1>0, <1>1, <1>2, <1>3, <1>4, <1>5, <1>6, OrdinaryStep DEF Copies

\* Marking a key: the marker is written or not, and the republishing goes on or
\* gives up and leaves the lock.
LEMMA MarkTo ==
    ASSUME TypeOK, NEW p \in Procs, NEW keys \in SUBSET Files, NEW next \in States,
           mark_published_key(p, keys, next)
    PROVE  /\ marker' \in [state : {"missing", "torn", "ok"}, keys : SUBSET Files]
           /\ marker'.keys \in {keys, marker.keys, {}} /\ faults' \in 0 .. MaxFaults
           /\ \/ /\ To(p, next, proc[p].then, proc[p].nest, proc[p].i)
                 /\ lock' = lock /\ marker'.keys = keys
              \/ /\ To(p, Failed(proc[p].then), proc[p].then, FALSE, proc[p].i)
                 /\ lock' = IF proc[p].nest THEN p ELSE NoProc
  <1>0. Failed(proc[p].then) \in States
    BY DEF Failed, States
  <1>1. CASE marker.state = "ok" /\ keys = marker.keys /\ Goto(p, next) /\ UNCHANGED <<marker, lock, faults>>
    BY <1>1, GotoTo DEF TypeOK
  <1>2. CASE \E r \in put_marker(keys) :
            /\ marker' = r[2] /\ Count(r[1])
            /\ IF r[1] THEN Goto(p, next) /\ UNCHANGED lock
                       ELSE Leave(p, Failed(proc[p].then))
    <2>1. PICK r \in put_marker(keys) :
            /\ marker' = r[2] /\ Count(r[1])
            /\ IF r[1] THEN Goto(p, next) /\ UNCHANGED lock
                       ELSE Leave(p, Failed(proc[p].then))
      BY <1>2
    <2>2. /\ r[1] \in BOOLEAN /\ faults' \in 0 .. MaxFaults
          /\ r[2] \in [state : {"missing", "torn", "ok"}, keys : SUBSET Files]
          /\ r[2].keys \in {keys, marker.keys, {}} /\ (r[1] => r[2].keys = keys)
      BY <2>1, MarkerPut
    <2>3. CASE r[1]
      BY <2>1, <2>2, <2>3, GotoTo
    <2>4. CASE ~r[1]
      BY <1>0, <2>1, <2>2, <2>4, LeaveTo
    <2> QED
      BY <2>2, <2>3, <2>4
  <1>3. CASE /\ marker.state # "ok" \/ FALSE \in Reads
             /\ Count(marker.state # "ok")
             /\ Leave(p, Failed(proc[p].then))
             /\ UNCHANGED marker
    <2>1. marker.state # "ok" \/ faults < MaxFaults
      BY <1>3 DEF Reads
    <2>2. faults' \in 0 .. MaxFaults
      BY <1>3, <2>1, CountType
    <2> QED
      BY <1>0, <1>3, <2>2, LeaveTo DEF TypeOK
  <1> QED
    BY <1>1, <1>2, <1>3 DEF mark_published_key

\* It takes the key off the marker,
LEMMA RepublishOffInv ==
    ASSUME IInv, NEW p \in Procs, RepublishOff(p)
    PROVE  IInv'
  <1>0. TypeOK /\ proc[p].pc = "r_off"
    BY DEF IInv, RepublishOff
  <1>q. /\ proc[p].then \in {"b_stamp", "g_stamp", "e_done"} /\ proc[p].f \in Files
        /\ Failed(proc[p].then) \in {"local", "b_end", "e_done"}
        /\ Failed(proc[p].then) = "e_done" <=> proc[p].then = "e_done"
        /\ Failed(proc[p].then) = "b_end" => proc[p].then = "b_stamp"
        /\ Failed(proc[p].then) \in States
    BY <1>0, Callers, ProcFields DEF CallOK, RepublishPcs, Failed, States
  <1>p. /\ marker' \in [state : {"missing", "torn", "ok"}, keys : SUBSET Files]
        /\ marker'.keys \subseteq marker.keys /\ faults' \in 0 .. MaxFaults
        /\ \/ /\ To(p, "r_put", proc[p].then, proc[p].nest, proc[p].i)
              /\ lock' = lock /\ marker'.keys = marker.keys \ {proc[p].f}
           \/ /\ To(p, Failed(proc[p].then), proc[p].then, FALSE, proc[p].i)
              /\ lock' = IF proc[p].nest THEN p ELSE NoProc
    <2>1. marker.keys \ {proc[p].f} \in SUBSET Files /\ "r_put" \in States
      BY <1>0 DEF TypeOK, States
    <2> QED
      BY <1>0, <2>1, MarkTo DEF RepublishOff
  <1>1. PICK c \in {"r_put", "local", "b_end", "e_done"}, n \in BOOLEAN :
          /\ To(p, c, proc[p].then, n, proc[p].i)
          /\ c = "r_put" => proc[p].f \notin marker'.keys
          /\ \/ c = "r_put" /\ n = proc[p].nest /\ lock' = lock
             \/ c = Failed(proc[p].then) /\ n = FALSE /\ lock' = IF proc[p].nest THEN p ELSE NoProc
    BY <1>0, <1>p, <1>q, ProcFields
  <1>2. SharedType'
    BY <1>0, <1>1, <1>p, Callers DEF TypeOK, SharedType, RepublishOff, files
  <1>3. Still(p)
    BY <1>0, <1>1, NumbersSame, <1>q
       DEF Still, To, Early, Building, Writes, ExportPcs, RepublishOff, files, counts
  <1>4. Shrinks(p)
    <2>1. \A f \in Files : ~Copied(p, f)' /\ (Unlisted(p, f)' => f \notin marker'.keys)
      BY <1>1, <1>q DEF To, Copied, Unlisted
    <2> QED
      BY <1>1, <1>p, <2>1 DEF Shrinks, To, RepublishOff
  <1>5. /\ CallOK(proc'[p].pc, proc'[p].then, proc'[p].nest)
        /\ lock' = p <=> HoldsAt(proc'[p].pc, proc'[p].then)
        /\ lock = p /\ lock' \in {NoProc, p}
    BY <1>0, <1>1, <1>q, Callers DEF To, CallOK, HoldsAt, ExportPcs, RepublishPcs, EnsurePcs, RepublishOff
  <1>6. (Passed(p)' => Passed(p)) /\ proc'[p].pc # "object"
    BY <1>0, <1>1, <1>q DEF To, Passed, EnsurePcs
  <1> QED
    BY <1>0, <1>1, <1>2, <1>3, <1>4, <1>5, <1>6, OrdinaryStep DEF Copies

\* puts the rendered document,
LEMMA RepublishPutInv ==
    ASSUME IInv, NEW p \in Procs, RepublishPut(p)
    PROVE  IInv'
  <1>0. TypeOK /\ proc[p].pc = "r_put"
    BY DEF IInv, RepublishPut
  <1>q. /\ proc[p].then \in {"b_stamp", "g_stamp", "e_done"} /\ proc[p].f \in Files
        /\ Failed(proc[p].then) \in {"local", "b_end", "e_done"}
        /\ Failed(proc[p].then) = "e_done" <=> proc[p].then = "e_done"
        /\ Failed(proc[p].then) = "b_end" => proc[p].then = "b_stamp"
        /\ Failed(proc[p].then) \in States
    BY <1>0, Callers, ProcFields DEF CallOK, RepublishPcs, Failed, States
  <1>s. proc[p].s \in Sessions
    BY <1>0, ProcFields
  <1>1. PICK c \in {"r_check", "local", "b_end", "e_done"}, n \in BOOLEAN :
          /\ To(p, c, proc[p].then, n, proc[p].i)
          /\ \/ c = "r_check" /\ n = proc[p].nest /\ lock' = lock
             \/ c = Failed(proc[p].then) /\ n = FALSE /\ lock' = IF proc[p].nest THEN p ELSE NoProc
          /\ faults' \in 0 .. MaxFaults
          /\ \/ c # "r_check" /\ bucket' = bucket
             \/ /\ local[proc[p].s][proc[p].f] # None
                /\ \E o \in {local[proc[p].s][proc[p].f], bucket[proc[p].f], Torn} :
                      /\ bucket' = [bucket EXCEPT ![proc[p].f] = o]
                      /\ c = "r_check" => o = local[proc[p].s][proc[p].f]
    <2>1. CASE local[proc[p].s][proc[p].f] = None
      <3>1. Leave(p, Failed(proc[p].then)) /\ UNCHANGED <<bucket, faults>>
        BY <2>1 DEF RepublishPut
      <3> QED
        BY <1>0, <1>q, <3>1, LeaveTo DEF TypeOK
    <2>2. CASE local[proc[p].s][proc[p].f] # None
      <3>1. PICK r \in Put(local[proc[p].s][proc[p].f], bucket[proc[p].f]) :
              /\ bucket' = [bucket EXCEPT ![proc[p].f] = r[2]] /\ Count(r[1])
              /\ IF r[1] THEN Goto(p, "r_check") /\ UNCHANGED lock
                         ELSE Leave(p, Failed(proc[p].then))
        BY <2>2 DEF RepublishPut
      <3>2. /\ r[1] \in BOOLEAN /\ faults' \in 0 .. MaxFaults
            /\ r[2] \in {local[proc[p].s][proc[p].f], bucket[proc[p].f], Torn}
            /\ r[1] => r[2] = local[proc[p].s][proc[p].f]
        BY <1>0, <3>1, ObjectPut
      <3>3. CASE r[1]
        <4>1. To(p, "r_check", proc[p].then, proc[p].nest, proc[p].i) /\ lock' = lock
          BY <1>0, <3>1, <3>3, GotoTo DEF States
        <4> QED
          BY <1>0, <2>2, <3>1, <3>2, <3>3, <4>1, ProcFields
      <3>4. CASE ~r[1]
        <4>1. /\ To(p, Failed(proc[p].then), proc[p].then, FALSE, proc[p].i)
              /\ lock' = IF proc[p].nest THEN p ELSE NoProc
          BY <1>0, <1>q, <3>1, <3>4, LeaveTo
        <4> QED
          BY <1>q, <2>2, <3>1, <3>2, <4>1
      <3> QED
        BY <3>2, <3>3, <3>4
    <2> QED
      BY <2>1, <2>2
  <1>p. bucket' \in [Files -> Contents \cup {None, Torn}]
    BY <1>0, <1>1, <1>q, <1>s DEF TypeOK
  <1>2. SharedType'
    BY <1>0, <1>1, <1>p, Callers DEF TypeOK, SharedType, RepublishPut, files
  <1>3. Still(p)
    BY <1>0, <1>1, NumbersSame, <1>q
       DEF Still, To, Early, Building, Writes, ExportPcs, RepublishPut, files, counts
  <1>4. Copies(p)
    <2>1. CASE c # "r_check" /\ bucket' = bucket
      <3>1. Shrinks(p)
        BY <1>0, <1>1, <1>q, <2>1 DEF Shrinks, To, Copied, Unlisted, RepublishPut
      <3> QED
        BY <3>1 DEF Copies
    <2>2. CASE /\ local[proc[p].s][proc[p].f] # None
               /\ \E o \in {local[proc[p].s][proc[p].f], bucket[proc[p].f], Torn} :
                     /\ bucket' = [bucket EXCEPT ![proc[p].f] = o]
                     /\ c = "r_check" => o = local[proc[p].s][proc[p].f]
      <3>1. PICK g \in Files : g = proc[p].f
        BY <1>q
      <3>2. /\ Unlisted(p, g) /\ Only(p) /\ marker' = marker
            /\ \A f \in Files : (Copied(p, f)' => f = g /\ c = "r_check") /\ (Unlisted(p, f)' => f = g)
        BY <1>0, <1>1, <1>q, <3>1 DEF To, Copied, Unlisted, RepublishPut
      <3>3. \A f \in Files : Unlisted(p, f)' => Unlisted(p, f)
        BY <3>2
      <3>4. Puts(p, g)
        BY <2>2, <3>1, <3>2, <3>3 DEF Puts
      <3> QED
        BY <3>4 DEF Copies
    <2> QED
      BY <1>1, <2>1, <2>2
  <1>5. /\ CallOK(proc'[p].pc, proc'[p].then, proc'[p].nest)
        /\ lock' = p <=> HoldsAt(proc'[p].pc, proc'[p].then)
        /\ lock = p /\ lock' \in {NoProc, p}
    BY <1>0, <1>1, <1>q, Callers DEF To, CallOK, HoldsAt, ExportPcs, RepublishPcs, EnsurePcs, RepublishPut
  <1>6. (Passed(p)' => Passed(p)) /\ proc'[p].pc # "object"
    BY <1>0, <1>1, <1>q DEF To, Passed, EnsurePcs
  <1> QED
    BY <1>0, <1>1, <1>2, <1>3, <1>4, <1>5, <1>6, OrdinaryStep DEF Copies

\* verifies it
LEMMA RepublishCheckInv ==
    ASSUME IInv, NEW p \in Procs, RepublishCheck(p)
    PROVE  IInv'
  <1>0. TypeOK /\ proc[p].pc = "r_check"
    BY DEF IInv, RepublishCheck
  <1>q. /\ proc[p].then \in {"b_stamp", "g_stamp", "e_done"} /\ proc[p].f \in Files
        /\ Failed(proc[p].then) \in {"local", "b_end", "e_done"}
        /\ Failed(proc[p].then) = "e_done" <=> proc[p].then = "e_done"
        /\ Failed(proc[p].then) = "b_end" => proc[p].then = "b_stamp"
        /\ Failed(proc[p].then) \in States
    BY <1>0, Callers, ProcFields DEF CallOK, RepublishPcs, Failed, States
  <1>1. PICK c \in {"r_on", "local", "b_end", "e_done"}, n \in BOOLEAN :
          /\ To(p, c, proc[p].then, n, proc[p].i)
          /\ \/ c = "r_on" /\ n = proc[p].nest /\ lock' = lock
             \/ c = Failed(proc[p].then) /\ n = FALSE /\ lock' = IF proc[p].nest THEN p ELSE NoProc
    <2>1. \/ Goto(p, "r_on") /\ UNCHANGED lock
          \/ Leave(p, Failed(proc[p].then))
      BY DEF RepublishCheck
    <2>2. "r_on" \in States
      BY DEF States
    <2> QED
      BY <1>0, <1>q, <2>1, <2>2, GotoTo, LeaveTo, ProcFields
  <1>2. SharedType'
    BY <1>0, <1>1, Callers DEF TypeOK, SharedType, RepublishCheck, files, counts
  <1>3. Still(p)
    BY <1>0, <1>1, NumbersSame, <1>q
       DEF Still, To, Early, Building, Writes, ExportPcs, RepublishCheck, files, counts
  <1>4. Shrinks(p)
    <2>1. \A f \in Files : Copied(p, f)' => Copied(p, f)
      BY <1>0, <1>1, <1>q DEF To, Copied
    <2>2. \A f \in Files : Unlisted(p, f)' => Unlisted(p, f)
      BY <1>0, <1>1, <1>q DEF To, Unlisted
    <2>3. \A f \in Files : Unlisted(p, f) => f \notin marker.keys
      BY DEF IInv, CopyInv
    <2> QED
      BY <1>1, <2>1, <2>2, <2>3 DEF Shrinks, To, RepublishCheck
  <1>5. /\ CallOK(proc'[p].pc, proc'[p].then, proc'[p].nest)
        /\ lock' = p <=> HoldsAt(proc'[p].pc, proc'[p].then)
        /\ lock = p /\ lock' \in {NoProc, p}
    BY <1>0, <1>1, <1>q, Callers DEF To, CallOK, HoldsAt, ExportPcs, RepublishPcs, EnsurePcs, RepublishCheck
  <1>6. (Passed(p)' => Passed(p)) /\ proc'[p].pc # "object"
    BY <1>0, <1>1, <1>q DEF To, Passed, EnsurePcs
  <1> QED
    BY <1>0, <1>1, <1>2, <1>3, <1>4, <1>5, <1>6, OrdinaryStep DEF Copies

\* and lists it again.
LEMMA RepublishOnInv ==
    ASSUME IInv, NEW p \in Procs, RepublishOn(p)
    PROVE  IInv'
  <1>0. TypeOK /\ proc[p].pc = "r_on"
    BY DEF IInv, RepublishOn
  <1>q. /\ proc[p].then \in {"b_stamp", "g_stamp", "e_done"} /\ proc[p].f \in Files
        /\ Failed(proc[p].then) \in {"local", "b_end", "e_done"}
        /\ Failed(proc[p].then) = "e_done" <=> proc[p].then = "e_done"
        /\ Failed(proc[p].then) = "b_end" => proc[p].then = "b_stamp"
        /\ Failed(proc[p].then) \in States
    BY <1>0, Callers, ProcFields DEF CallOK, RepublishPcs, Failed, States
  <1>p. /\ marker' \in [state : {"missing", "torn", "ok"}, keys : SUBSET Files]
        /\ marker'.keys \subseteq marker.keys \cup {proc[p].f} /\ faults' \in 0 .. MaxFaults
        /\ \/ /\ To(p, "r_end", proc[p].then, proc[p].nest, proc[p].i)
              /\ lock' = lock
           \/ /\ To(p, Failed(proc[p].then), proc[p].then, FALSE, proc[p].i)
              /\ lock' = IF proc[p].nest THEN p ELSE NoProc
    <2>1. marker.keys \cup {proc[p].f} \in SUBSET Files /\ "r_end" \in States
      BY <1>0, <1>q DEF TypeOK, States
    <2> QED
      BY <1>0, <2>1, MarkTo DEF RepublishOn
  <1>1. PICK c \in {"r_end", "local", "b_end", "e_done"}, n \in BOOLEAN :
          /\ To(p, c, proc[p].then, n, proc[p].i)
          /\ \/ c = "r_end" /\ n = proc[p].nest /\ lock' = lock
             \/ c = Failed(proc[p].then) /\ n = FALSE /\ lock' = IF proc[p].nest THEN p ELSE NoProc
    BY <1>0, <1>p, <1>q, ProcFields
  <1>2. SharedType'
    BY <1>0, <1>1, <1>p, Callers DEF TypeOK, SharedType, RepublishOn, files
  <1>3. Still(p)
    BY <1>0, <1>1, NumbersSame, <1>q
       DEF Still, To, Early, Building, Writes, ExportPcs, RepublishOn, files, counts
  <1>4. Lists(p)
    <2>1. \A f \in Files : ~Copied(p, f)' /\ ~Unlisted(p, f)'
      BY <1>1, <1>q DEF To, Copied, Unlisted
    <2>2. lock = p
      BY <1>0, Callers DEF HoldsAt, RepublishPcs
    <2>3. Copied(p, proc[p].f)
      BY <1>0 DEF Copied
    <2> QED
      BY <1>1, <1>p, <2>1, <2>2, <2>3 DEF Lists, To, RepublishOn
  <1>5. /\ CallOK(proc'[p].pc, proc'[p].then, proc'[p].nest)
        /\ lock' = p <=> HoldsAt(proc'[p].pc, proc'[p].then)
        /\ lock = p /\ lock' \in {NoProc, p}
    BY <1>0, <1>1, <1>q, Callers DEF To, CallOK, HoldsAt, ExportPcs, RepublishPcs, EnsurePcs, RepublishOn
  <1>6. (Passed(p)' => Passed(p)) /\ proc'[p].pc # "object"
    BY <1>0, <1>1, <1>q DEF To, Passed, EnsurePcs
  <1> QED
    BY <1>0, <1>1, <1>2, <1>3, <1>4, <1>5, <1>6, OrdinaryStep DEF Copies

\* A republishing returns to its caller.
LEMMA RepublishEndInv ==
    ASSUME IInv, NEW p \in Procs, RepublishEnd(p)
    PROVE  IInv'
  <1>0. TypeOK /\ proc[p].pc = "r_end"
    BY DEF IInv, RepublishEnd
  <1>q. /\ proc[p].then \in {"b_stamp", "g_stamp", "e_done"} /\ proc[p].f \in Files
        /\ Failed(proc[p].then) \in {"local", "b_end", "e_done"}
        /\ Failed(proc[p].then) = "e_done" <=> proc[p].then = "e_done"
        /\ Failed(proc[p].then) = "b_end" => proc[p].then = "b_stamp"
        /\ Failed(proc[p].then) \in States
    BY <1>0, Callers, ProcFields DEF CallOK, RepublishPcs, Failed, States
  <1>1. /\ To(p, proc[p].then, proc[p].then, FALSE, proc[p].i)
        /\ lock' = IF proc[p].nest THEN p ELSE NoProc
    BY <1>0, <1>q, LeaveTo DEF RepublishEnd, States
  <1>2. SharedType'
    BY <1>0, <1>1, Callers DEF TypeOK, SharedType, RepublishEnd, files, counts
  <1>3. Still(p)
    BY <1>0, <1>1, NumbersSame, <1>q
       DEF Still, To, Early, Building, Writes, ExportPcs, RepublishEnd, files, counts
  <1>4. Shrinks(p)
    BY <1>0, <1>1, <1>q DEF Shrinks, To, Copied, Unlisted, RepublishEnd
  <1>5. /\ CallOK(proc'[p].pc, proc'[p].then, proc'[p].nest)
        /\ lock' = p <=> HoldsAt(proc'[p].pc, proc'[p].then)
        /\ lock = p /\ lock' \in {NoProc, p}
    BY <1>0, <1>1, <1>q, Callers DEF To, CallOK, HoldsAt, ExportPcs, RepublishPcs, EnsurePcs, RepublishEnd
  <1>6. (Passed(p)' => Passed(p)) /\ proc'[p].pc # "object"
    BY <1>0, <1>1, <1>q DEF To, Passed, EnsurePcs
  <1> QED
    BY <1>0, <1>1, <1>2, <1>3, <1>4, <1>5, <1>6, OrdinaryStep DEF Copies

\* An export puts its next document.
LEMMA ExportPutInv ==
    ASSUME IInv, NEW p \in Procs, ExportPut(p)
    PROVE  IInv'
  <1>0. TypeOK /\ proc[p].pc = "x_put"
    BY DEF IInv, ExportPut
  <1>q. /\ proc[p].s \in Sessions /\ proc[p].i \in 1 .. Len(Exported) /\ Len(Exported) \in Nat
        /\ Exported[proc[p].i] \in Files
    BY <1>0, ProcFields, FilesKnown
  <1>1. PICK g \in Files, c \in {"x_check", "x_fail"} :
          /\ g = Exported[proc[p].i]
          /\ To(p, c, proc[p].then, proc[p].nest, proc[p].i)
          /\ faults' \in 0 .. MaxFaults
          /\ \/ c # "x_check" /\ bucket' = bucket
             \/ /\ local[proc[p].s][g] # None
                /\ \E o \in {local[proc[p].s][g], bucket[g], Torn} :
                      bucket' = [bucket EXCEPT ![g] = o] /\ (c = "x_check" => o = local[proc[p].s][g])
    <2>0. PICK g \in Files : g = Exported[proc[p].i]
      BY <1>q
    <2>1. CASE local[proc[p].s][g] = None
      <3>1. Goto(p, "x_fail") /\ UNCHANGED <<bucket, faults>>
        BY <2>0, <2>1 DEF ExportPut
      <3>2. To(p, "x_fail", proc[p].then, proc[p].nest, proc[p].i)
        BY <1>0, <3>1, GotoTo DEF States
      <3> QED
        BY <1>0, <2>0, <3>1, <3>2 DEF TypeOK
    <2>2. CASE local[proc[p].s][g] # None
      <3>1. PICK r \in Put(local[proc[p].s][g], bucket[g]) :
              /\ bucket' = [bucket EXCEPT ![g] = r[2]] /\ Count(r[1])
              /\ Goto(p, IF r[1] THEN "x_check" ELSE "x_fail")
        BY <2>0, <2>2 DEF ExportPut
      <3>2. /\ r[1] \in BOOLEAN /\ faults' \in 0 .. MaxFaults
            /\ r[2] \in {local[proc[p].s][g], bucket[g], Torn}
            /\ r[1] => r[2] = local[proc[p].s][g]
        BY <1>0, <3>1, ObjectPut
      <3>3. PICK c \in {"x_check", "x_fail"} : Goto(p, c) /\ (c = "x_check" => r[1])
        BY <3>1, <3>2
      <3>4. To(p, c, proc[p].then, proc[p].nest, proc[p].i)
        BY <1>0, <3>3, GotoTo DEF States
      <3> QED
        BY <2>0, <2>2, <3>1, <3>2, <3>3, <3>4
    <2> QED
      BY <2>1, <2>2
  <1>p. bucket' \in [Files -> Contents \cup {None, Torn}]
    BY <1>0, <1>1, <1>q DEF TypeOK
  <1>2. SharedType'
    BY <1>0, <1>1, <1>p DEF TypeOK, SharedType, ExportPut, files
  <1>3. Still(p)
    BY <1>0, <1>1, NumbersSame
       DEF Still, To, Early, Building, Writes, ExportPcs, ExportPut, files, counts
  <1>4. Copies(p)
    <2>1. CASE c # "x_check" /\ bucket' = bucket
      <3>1. Shrinks(p)
        BY <1>0, <1>1, <2>1 DEF Shrinks, To, Copied, Unlisted, ExportPut
      <3> QED
        BY <3>1 DEF Copies
    <2>2. CASE /\ local[proc[p].s][g] # None
               /\ \E o \in {local[proc[p].s][g], bucket[g], Torn} :
                     bucket' = [bucket EXCEPT ![g] = o] /\ (c = "x_check" => o = local[proc[p].s][g])
      <3>1. Unlisted(p, g) /\ Only(p) /\ marker' = marker /\ \A f \in Files : Unlisted(p, f)
        BY <1>0, <1>1 DEF To, Unlisted, ExportPut
      <3>2. Copied(p, g)' => c = "x_check"
        BY <1>1 DEF To, Copied
      <3>3. ASSUME NEW f \in Files, f # g, Copied(p, f)' PROVE Copied(p, f)
        <4>1. PICK j \in 1 .. Len(Exported) : j <= proc[p].i /\ f = Exported[j]
          BY <1>1, <3>3 DEF To, Copied
        <4>2. j < proc[p].i
          BY <1>1, <1>q, <3>3, <4>1
        <4> QED
          BY <1>0, <4>1, <4>2 DEF Copied
      <3>4. Puts(p, g)
        BY <2>2, <3>1, <3>2, <3>3 DEF Puts
      <3> QED
        BY <3>4 DEF Copies
    <2> QED
      BY <1>1, <2>1, <2>2
  <1>5. /\ CallOK(proc'[p].pc, proc'[p].then, proc'[p].nest) /\ HoldsAt(proc'[p].pc, proc'[p].then)
        /\ lock = p /\ lock' = p
    BY <1>0, <1>1, Callers DEF To, CallOK, HoldsAt, ExportPcs, RepublishPcs, EnsurePcs, ExportPut
  <1>6. (Passed(p)' => Passed(p)) /\ proc'[p].pc # "object"
    BY <1>0, <1>1 DEF To, Passed, EnsurePcs
  <1> QED
    BY <1>0, <1>1, <1>2, <1>3, <1>4, <1>5, <1>6, OrdinaryStep DEF Copies

(***************************************************************************)
(* The ordinary steps of a build and of a GET keep the invariant.          *)
(***************************************************************************)
\* The renderer stamp is committed after the republishing.
LEMMA commit_renderer_stampInv ==
    ASSUME IInv, NEW p \in Procs, commit_renderer_stamp(p)
    PROVE  IInv'
  <1>0. TypeOK /\ proc[p].pc \in {"b_stamp", "g_stamp"}
    BY DEF IInv, commit_renderer_stamp
  <1>1. PICK c \in {"b_end", "warned"} :
          To(p, c, proc[p].then, proc[p].nest, proc[p].i) /\ (c = "b_end" <=> proc[p].pc = "b_stamp")
    BY <1>0, GotoTo DEF commit_renderer_stamp, States
  <1>2. SharedType'
    BY <1>0, DocumentsAssumption DEF TypeOK, SharedType, commit_renderer_stamp, files, counts
  <1>3. Still(p)
    BY <1>0, <1>1, NumbersSame
       DEF Still, To, Early, Building, Writes, ExportPcs, commit_renderer_stamp, files, counts
  <1>4. Shrinks(p)
    BY <1>0, <1>1 DEF Shrinks, To, Copied, Unlisted, commit_renderer_stamp
  <1>5. /\ CallOK(proc'[p].pc, proc'[p].then, proc'[p].nest)
        /\ ~HoldsAt(proc'[p].pc, proc'[p].then) /\ lock # p /\ lock' = lock
    BY <1>0, <1>1, Callers DEF To, CallOK, HoldsAt, ExportPcs, RepublishPcs, EnsurePcs, commit_renderer_stamp
  <1>6. (Passed(p)' => Passed(p)) /\ proc'[p].pc # "object"
    BY <1>0, <1>1 DEF To, Passed, EnsurePcs
  <1> QED
    BY <1>0, <1>1, <1>2, <1>3, <1>4, <1>5, <1>6, OrdinaryStep DEF Copies

\* A process that ends outside the lock and outside a build.
LEMMA EndsInv ==
    ASSUME IInv, NEW p \in Procs, Only(p), proc'[p] = Idle, SharedType',
           proc[p].pc \in {"b_end", "local", "object"},
           UNCHANGED <<local, meta, bucket, marker, lock, killed, builds>>
    PROVE  IInv'
  <1>0. TypeOK
    BY DEF IInv
  <1>1. /\ proc'[p].pc = "idle" /\ proc'[p].then = "idle" /\ proc'[p].nest = FALSE
        /\ proc'[p].floor = 0
    BY DEF Idle
  <1>3. Still(p)
    BY <1>0, <1>1, NumbersSame DEF Still, Early, Building, Writes, ExportPcs
  <1>4. Shrinks(p)
    BY <1>1 DEF Shrinks, Copied, Unlisted
  <1>5. /\ CallOK(proc'[p].pc, proc'[p].then, proc'[p].nest)
        /\ ~HoldsAt(proc'[p].pc, proc'[p].then) /\ lock # p /\ lock' = lock
    BY <1>1, Callers DEF CallOK, HoldsAt, ExportPcs, RepublishPcs, EnsurePcs
  <1>6. ~Passed(p)' /\ proc'[p].pc # "object"
    BY <1>1 DEF Passed, EnsurePcs
  <1> QED
    BY <1>3, <1>4, <1>5, <1>6, OrdinaryStep DEF Copies

\* A child that is done ends.
LEMMA BuildEndInv ==
    ASSUME IInv, NEW p \in Procs, BuildEnd(p)
    PROVE  IInv'
  <1>0. TypeOK /\ proc[p].pc = "b_end"
    BY DEF IInv, BuildEnd
  <1>1. Only(p) /\ proc'[p] = Idle
    BY <1>0, FinishOnly DEF BuildEnd
  <1>2. SharedType'
    BY <1>0 DEF TypeOK, SharedType, BuildEnd, files, counts
  <1> QED
    BY <1>0, <1>1, <1>2, EndsInv DEF BuildEnd, files, counts

\* A GET is answered from the session's file.
LEMMA ReadLocalInv ==
    ASSUME IInv, NEW p \in Procs, ReadLocal(p)
    PROVE  IInv'
  <1>0. TypeOK /\ proc[p].pc = "local"
    BY DEF IInv, ReadLocal
  <1>1. Only(p) /\ proc'[p] = Idle
    BY <1>0, FinishOnly DEF ReadLocal
  <1>2. SharedType'
    BY <1>0 DEF TypeOK, SharedType, ReadLocal, files, counts
  <1> QED
    BY <1>0, <1>1, <1>2, EndsInv DEF ReadLocal, files, counts

\* refresh_context_markdown keeps the build numbers of a session's files.
LEMMA RefreshNumbers ==
    ASSUME IInv, NEW s \in Sessions, Rewrites(s), local' = Refreshed(s)
    PROVE  Numbers
  <1>0. /\ local \in [Sessions -> [Files -> Contents \cup {None}]] /\ Files = {"json", "md"}
        /\ local[s]["json"] # None /\ renderer \in 1 .. MaxRenderer
    BY FilesKnown DEF IInv, TypeOK, Rewrites
  <1>1. local[s]["json"] \in Contents /\ local[s]["json"][2] \in 1 .. MaxBuilds
    BY <1>0, ContentsWhole
  <1>2. PICK c : c = <<s, local[s]["json"][2], renderer>>
    OBVIOUS
  <1>3. c \in Contents /\ c[1] = s /\ c[2] = local[s]["json"][2] /\ c # None
    BY <1>0, <1>1, <1>2, DocumentsAssumption DEF Contents, None
  <1>4. local' = [local EXCEPT ![s]["md"] = c]
    BY <1>2 DEF Refreshed
  <1>5. local' \in [Sessions -> [Files -> Contents \cup {None}]]
    BY <1>0, <1>3, <1>4
  <1>6. /\ local'[s]["md"] = c
        /\ \A x \in Sessions, f \in Files : x # s \/ f # "md" => local'[x][f] = local[x][f]
    BY <1>0, <1>4
  <1>7. local[s]["md"] # None => local[s]["md"][2] = c[2]
    BY <1>3 DEF IInv, BuildInv, SessionOK
  <1> QED
    BY <1>0, <1>3, <1>5, <1>6, <1>7 DEF Numbers

\* A GET may first render the Markdown again.
LEMMA GetRefreshInv ==
    ASSUME IInv, NEW p \in Procs, GetRefresh(p)
    PROVE  IInv'
  <1>0. TypeOK /\ proc[p].pc = "refresh"
    BY DEF IInv, GetRefresh
  <1>q. proc[p].s \in Sessions /\ proc[p].f \in Files /\ meta[proc[p].s].warn \in BOOLEAN
    BY <1>0, ProcFields DEF TypeOK
  <1>1. PICK c \in {"r_lock", "warned"}, t \in Thens :
          /\ To(p, c, t, proc[p].nest, proc[p].i) /\ Numbers
          /\ IF c = "r_lock" THEN t = "g_stamp" ELSE t = proc[p].then
    <2>1. CASE Rewrites(proc[p].s)
      <3>1. proc' = [proc EXCEPT ![p].pc = "r_lock", ![p].then = "g_stamp"] /\ Numbers
        BY <1>q, <2>1, RefreshNumbers DEF GetRefresh
      <3>2. To(p, "r_lock", "g_stamp", proc[p].nest, proc[p].i) /\ "g_stamp" \in Thens
        BY <1>0, <3>1, ThenTo DEF States, Thens
      <3> QED
        BY <3>1, <3>2
    <2>2. CASE ~Rewrites(proc[p].s)
      <3>1. Goto(p, "warned") /\ Numbers
        BY <1>0, <2>2, NumbersSame DEF GetRefresh
      <3>2. To(p, "warned", proc[p].then, proc[p].nest, proc[p].i) /\ proc[p].then \in Thens
        BY <1>0, <3>1, GotoTo, ProcFields DEF States
      <3> QED
        BY <3>1, <3>2
    <2> QED
      BY <2>1, <2>2
  <1>2. SharedType'
    BY <1>0, <1>1 DEF TypeOK, SharedType, GetRefresh, counts, Numbers
  <1>3. Still(p)
    BY <1>0, <1>1, NumbersSame
       DEF Still, To, Early, Building, Writes, ExportPcs, GetRefresh, files, counts
  <1>4. Shrinks(p)
    BY <1>0, <1>1 DEF Shrinks, To, Copied, Unlisted, GetRefresh
  <1>5. /\ CallOK(proc'[p].pc, proc'[p].then, proc'[p].nest)
        /\ ~HoldsAt(proc'[p].pc, proc'[p].then) /\ lock # p /\ lock' = lock
    BY <1>0, <1>1, Callers DEF To, CallOK, HoldsAt, ExportPcs, RepublishPcs, EnsurePcs, GetRefresh
  <1>6. (Passed(p)' => Passed(p)) /\ proc'[p].pc # "object"
    BY <1>0, <1>1 DEF To, Passed, EnsurePcs
  <1> QED
    BY <1>0, <1>1, <1>2, <1>3, <1>4, <1>5, <1>6, OrdinaryStep DEF Copies

\* A GET of a session with a warning reads its own file.
LEMMA GetWarnedInv ==
    ASSUME IInv, NEW p \in Procs, GetWarned(p)
    PROVE  IInv'
  <1>0. TypeOK /\ proc[p].pc = "warned"
    BY DEF IInv, GetWarned
  <1>q. proc[p].s \in Sessions /\ proc[p].f \in Files /\ meta[proc[p].s].warn \in BOOLEAN
    BY <1>0, ProcFields DEF TypeOK
  <1>1. PICK c \in {"local", "look"} :
          To(p, c, proc[p].then, proc[p].nest, proc[p].i) /\ (c = "look" => ~meta[proc[p].s].warn)
    BY <1>0, GotoTo DEF GetWarned, States
  <1>2. SharedType'
    BY <1>0 DEF TypeOK, SharedType, GetWarned, files, counts
  <1>3. Still(p)
    BY <1>0, <1>1, NumbersSame
       DEF Still, To, Early, Building, Writes, ExportPcs, GetWarned, files, counts
  <1>4. Shrinks(p)
    BY <1>0, <1>1 DEF Shrinks, To, Copied, Unlisted, GetWarned
  <1>5. /\ CallOK(proc'[p].pc, proc'[p].then, proc'[p].nest)
        /\ ~HoldsAt(proc'[p].pc, proc'[p].then) /\ lock # p /\ lock' = lock
    BY <1>0, <1>1, Callers DEF To, CallOK, HoldsAt, ExportPcs, RepublishPcs, EnsurePcs, GetWarned
  <1>6. (Passed(p)' => Passed(p) \/ ~meta[proc[p].s].warn) /\ proc'[p].pc # "object"
    BY <1>0, <1>1 DEF To, Passed, EnsurePcs
  <1> QED
    BY <1>0, <1>1, <1>2, <1>3, <1>4, <1>5, <1>6, OrdinaryStep DEF Copies

\* A GET looks for its key on the marker.
LEMMA GetLookInv ==
    ASSUME IInv, NEW p \in Procs, GetLook(p)
    PROVE  IInv'
  <1>0. TypeOK /\ proc[p].pc \in {"look", "look2"}
    BY DEF IInv, GetLook
  <1>1. PICK c \in {"object", "ensure", "local"} :
          /\ To(p, c, proc[p].then, proc[p].nest, proc[p].i) /\ faults' \in 0 .. MaxFaults
          /\ c = "object" => proc[p].f \in marker.keys
    <2>1. PICK readable \in Reads :
            /\ Count(readable)
            /\ Goto(p, IF readable /\ marker_lists(p) THEN "object"
                       ELSE IF proc[p].pc = "look" THEN "ensure" ELSE "local")
      BY DEF GetLook
    <2>2. PICK c \in {"object", "ensure", "local"} :
            Goto(p, c) /\ (c = "object" => proc[p].f \in marker.keys)
      BY <2>1 DEF marker_lists
    <2> QED
      BY <1>0, <2>1, <2>2, GotoTo, ReadCount DEF States
  <1>2. SharedType'
    BY <1>0, <1>1 DEF TypeOK, SharedType, GetLook, files
  <1>3. Still(p)
    BY <1>0, <1>1, NumbersSame
       DEF Still, To, Early, Building, Writes, ExportPcs, GetLook, files, counts
  <1>4. Shrinks(p)
    BY <1>0, <1>1 DEF Shrinks, To, Copied, Unlisted, GetLook
  <1>5. /\ CallOK(proc'[p].pc, proc'[p].then, proc'[p].nest)
        /\ ~HoldsAt(proc'[p].pc, proc'[p].then) /\ lock # p /\ lock' = lock
    BY <1>0, <1>1, Callers DEF To, CallOK, HoldsAt, ExportPcs, RepublishPcs, EnsurePcs, GetLook
  <1>6. /\ Passed(p) /\ bucket' = bucket
        /\ proc'[p].pc = "object" => proc[p].f \in marker.keys
    BY <1>0, <1>1 DEF To, Passed, EnsurePcs, GetLook
  <1> QED
    BY <1>0, <1>1, <1>2, <1>3, <1>4, <1>5, <1>6, OrdinaryStep DEF Copies

\* A GET is answered from the bucket.
LEMMA ReadBucketInv ==
    ASSUME IInv, NEW p \in Procs, read_bucket_or_local(p)
    PROVE  IInv'
  <1>0. TypeOK /\ proc[p].pc = "object"
    BY DEF IInv, read_bucket_or_local
  <1>1. PICK readable \in Reads :
          /\ Count(readable)
          /\ IF readable /\ bucket[proc[p].f] # None THEN Finish(p) ELSE Goto(p, "local")
    BY DEF read_bucket_or_local
  <1>2. SharedType'
    BY <1>0, <1>1, ReadCount DEF TypeOK, SharedType, read_bucket_or_local, files
  <1>3. CASE Finish(p)
    BY <1>0, <1>2, <1>3, FinishOnly, EndsInv DEF read_bucket_or_local, files
  <1>4. CASE Goto(p, "local")
    <2>1. To(p, "local", proc[p].then, proc[p].nest, proc[p].i)
      BY <1>0, <1>4, GotoTo DEF States
    <2>2. Still(p)
      BY <1>0, <2>1, NumbersSame
         DEF Still, To, Early, Building, Writes, ExportPcs, read_bucket_or_local, files
    <2>3. Shrinks(p)
      BY <2>1 DEF Shrinks, To, Copied, Unlisted, read_bucket_or_local
    <2>4. /\ CallOK(proc'[p].pc, proc'[p].then, proc'[p].nest)
          /\ ~HoldsAt(proc'[p].pc, proc'[p].then) /\ lock # p /\ lock' = lock
      BY <1>0, <2>1, Callers
         DEF To, CallOK, HoldsAt, ExportPcs, RepublishPcs, EnsurePcs, read_bucket_or_local
    <2>5. (Passed(p)' => Passed(p)) /\ proc'[p].pc # "object"
      BY <1>0, <2>1 DEF To, Passed, EnsurePcs
    <2> QED
      BY <1>2, <2>2, <2>3, <2>4, <2>5, OrdinaryStep DEF Copies
  <1> QED
    BY <1>1, <1>3, <1>4

\* A GET that finds no key decides to export the last build.
LEMMA EnsureStartInv ==
    ASSUME IInv, NEW p \in Procs, EnsureStart(p)
    PROVE  IInv'
  <1>0. TypeOK /\ proc[p].pc = "ensure"
    BY DEF IInv, EnsureStart
  <1>1. PICK c \in {"e_lock", "look2"} : To(p, c, proc[p].then, proc[p].nest, proc[p].i)
    BY <1>0, GotoTo DEF EnsureStart, States
  <1>2. SharedType'
    BY <1>0 DEF TypeOK, SharedType, EnsureStart, files, counts
  <1>3. Still(p)
    BY <1>0, <1>1, NumbersSame
       DEF Still, To, Early, Building, Writes, ExportPcs, EnsureStart, files, counts
  <1>4. Shrinks(p)
    BY <1>0, <1>1 DEF Shrinks, To, Copied, Unlisted, EnsureStart
  <1>5. /\ CallOK(proc'[p].pc, proc'[p].then, proc'[p].nest)
        /\ ~HoldsAt(proc'[p].pc, proc'[p].then) /\ lock # p /\ lock' = lock
    BY <1>0, <1>1, Callers DEF To, CallOK, HoldsAt, ExportPcs, RepublishPcs, EnsurePcs, EnsureStart
  <1>6. (Passed(p)' => Passed(p)) /\ proc'[p].pc # "object"
    BY <1>0, <1>1 DEF To, Passed, EnsurePcs
  <1> QED
    BY <1>0, <1>1, <1>2, <1>3, <1>4, <1>5, <1>6, OrdinaryStep DEF Copies

\* It takes the lock,
LEMMA EnsureLockInv ==
    ASSUME IInv, NEW p \in Procs, EnsureLock(p)
    PROVE  IInv'
  <1>0. TypeOK /\ proc[p].pc = "e_lock" /\ lock \in {NoProc, p} /\ lock' = p
    BY DEF IInv, EnsureLock, publish_lock
  <1>1. To(p, "e_load", proc[p].then, lock = p, proc[p].i)
    BY <1>0, NestTo DEF EnsureLock, publish_lock, States
  <1>2. SharedType'
    BY <1>0 DEF TypeOK, SharedType, EnsureLock, files, counts
  <1>3. Still(p)
    BY <1>0, <1>1, NumbersSame
       DEF Still, To, Early, Building, Writes, ExportPcs, EnsureLock, files, counts
  <1>4. Shrinks(p)
    BY <1>0, <1>1 DEF Shrinks, To, Copied, Unlisted, EnsureLock
  <1>5. CallOK(proc'[p].pc, proc'[p].then, proc'[p].nest) /\ HoldsAt(proc'[p].pc, proc'[p].then)
    BY <1>0, <1>1, Callers DEF To, CallOK, HoldsAt, ExportPcs, RepublishPcs, EnsurePcs
  <1>6. (Passed(p)' => Passed(p)) /\ proc'[p].pc # "object"
    BY <1>0, <1>1 DEF To, Passed, EnsurePcs
  <1> QED
    BY <1>0, <1>1, <1>2, <1>3, <1>4, <1>5, <1>6, OrdinaryStep DEF Copies

\* loads the session's documents,
LEMMA EnsureLoadInv ==
    ASSUME IInv, NEW p \in Procs, EnsureLoad(p)
    PROVE  IInv'
  <1>0. TypeOK /\ proc[p].pc = "e_load"
    BY DEF IInv, EnsureLoad
  <1>1. PICK c \in {"e_done", "x_lock", "r_lock"}, t \in Thens :
          /\ To(p, c, t, proc[p].nest, proc[p].i) /\ faults' \in 0 .. MaxFaults
          /\ c = "e_done" => t = proc[p].then
          /\ c = "x_lock" => t = "e_warn"
          /\ c = "r_lock" => t = "e_done"
    <2>1. faults' \in 0 .. MaxFaults
      BY <1>0, ReadCount DEF EnsureLoad
    <2>2. \/ Goto(p, "e_done")
          \/ proc' = [proc EXCEPT ![p].pc = "x_lock", ![p].then = "e_warn"]
          \/ proc' = [proc EXCEPT ![p].pc = "r_lock", ![p].then = "e_done"]
      BY DEF EnsureLoad
    <2>3. /\ {"e_done", "x_lock", "r_lock"} \subseteq States
          /\ {"e_warn", "e_done", proc[p].then} \subseteq Thens
      BY <1>0, ProcFields DEF States, Thens
    <2> QED
      BY <1>0, <2>1, <2>2, <2>3, GotoTo, ThenTo
  <1>2. SharedType'
    BY <1>0, <1>1 DEF TypeOK, SharedType, EnsureLoad, files
  <1>3. Still(p)
    BY <1>0, <1>1, NumbersSame
       DEF Still, To, Early, Building, Writes, ExportPcs, EnsureLoad, files, counts
  <1>4. Shrinks(p)
    BY <1>0, <1>1 DEF Shrinks, To, Copied, Unlisted, EnsureLoad
  <1>5. /\ CallOK(proc'[p].pc, proc'[p].then, proc'[p].nest) /\ HoldsAt(proc'[p].pc, proc'[p].then)
        /\ lock = p /\ lock' = p
    BY <1>0, <1>1, Callers DEF To, CallOK, HoldsAt, ExportPcs, RepublishPcs, EnsurePcs, EnsureLoad
  <1>6. (Passed(p)' => Passed(p)) /\ proc'[p].pc # "object"
    BY <1>0, <1>1 DEF To, Passed, EnsurePcs
  <1> QED
    BY <1>0, <1>1, <1>2, <1>3, <1>4, <1>5, <1>6, OrdinaryStep DEF Copies

\* records a failure
LEMMA set_export_warningInv ==
    ASSUME IInv, NEW p \in Procs, set_export_warning(p)
    PROVE  IInv'
  <1>0. TypeOK /\ proc[p].pc = "e_warn"
    BY DEF IInv, set_export_warning
  <1>q. /\ meta' \in [Sessions -> [status : {"none", "running", "done", "failed"}, warn : BOOLEAN]]
        /\ \A s \in Sessions : meta'[s].status = meta[s].status /\ (~meta'[s].warn => ~meta[s].warn)
    <2>1. PICK x \in Sessions : x = proc[p].s
      BY <1>0, ProcFields
    <2>2. /\ meta \in [Sessions -> [status : {"none", "running", "done", "failed"}, warn : BOOLEAN]]
          /\ meta' = [meta EXCEPT ![x].warn = TRUE]
      BY <1>0, <2>1 DEF TypeOK, set_export_warning
    <2> QED
      BY <2>2
  <1>1. To(p, "e_done", proc[p].then, proc[p].nest, proc[p].i)
    BY <1>0, GotoTo DEF set_export_warning, States
  <1>2. SharedType'
    BY <1>0, <1>q DEF TypeOK, SharedType, set_export_warning, counts
  <1>3. Still(p)
    BY <1>0, <1>1, NumbersSame, <1>q
       DEF Still, To, Early, Building, Writes, ExportPcs, set_export_warning, files, counts
  <1>4. Shrinks(p)
    BY <1>0, <1>1 DEF Shrinks, To, Copied, Unlisted, set_export_warning
  <1>5. /\ CallOK(proc'[p].pc, proc'[p].then, proc'[p].nest) /\ HoldsAt(proc'[p].pc, proc'[p].then)
        /\ lock = p /\ lock' = p
    BY <1>0, <1>1, Callers DEF To, CallOK, HoldsAt, ExportPcs, RepublishPcs, EnsurePcs, set_export_warning
  <1>6. (Passed(p)' => Passed(p)) /\ proc'[p].pc # "object"
    BY <1>0, <1>1 DEF To, Passed, EnsurePcs
  <1> QED
    BY <1>0, <1>1, <1>2, <1>3, <1>4, <1>5, <1>6, OrdinaryStep DEF Copies

\* and looks again.
LEMMA EnsureDoneInv ==
    ASSUME IInv, NEW p \in Procs, EnsureDone(p)
    PROVE  IInv'
  <1>0. TypeOK /\ proc[p].pc = "e_done"
    BY DEF IInv, EnsureDone
  <1>1. To(p, "look2", proc[p].then, proc[p].nest, proc[p].i)
    BY <1>0, GotoTo DEF EnsureDone, States
  <1>2. SharedType'
    BY <1>0 DEF TypeOK, SharedType, EnsureDone, files, counts
  <1>3. Still(p)
    BY <1>0, <1>1, NumbersSame
       DEF Still, To, Early, Building, Writes, ExportPcs, EnsureDone, files, counts
  <1>4. Shrinks(p)
    BY <1>0, <1>1 DEF Shrinks, To, Copied, Unlisted, EnsureDone
  <1>5. /\ CallOK(proc'[p].pc, proc'[p].then, proc'[p].nest)
        /\ lock' = p <=> HoldsAt(proc'[p].pc, proc'[p].then)
        /\ lock = p /\ lock' \in {NoProc, p}
    BY <1>0, <1>1, Callers DEF To, CallOK, HoldsAt, ExportPcs, RepublishPcs, EnsurePcs, EnsureDone
  <1>6. (Passed(p)' => Passed(p)) /\ proc'[p].pc # "object"
    BY <1>0, <1>1 DEF To, Passed, EnsurePcs
  <1> QED
    BY <1>0, <1>1, <1>2, <1>3, <1>4, <1>5, <1>6, OrdinaryStep DEF Copies


(***************************************************************************)
(* The steps that end, cut off or begin something.                         *)
(***************************************************************************)
\* An export that put everything lists it.
LEMMA ExportMarkInv ==
    ASSUME IInv, NEW p \in Procs, ExportMark(p)
    PROVE  IInv'
  <1>0. TypeOK /\ proc[p].pc = "x_mark" /\ proc[p].s \in Sessions
    BY ProcFields DEF IInv, ExportMark
  <1>q. proc[p].then \in {"b_warn", "e_warn"} /\ (proc[p].nest <=> proc[p].then = "e_warn")
    BY <1>0, Callers DEF CallOK, ExportPcs
  <1>p. PICK r \in put_marker(Files) :
          /\ marker' = r[2] /\ Count(r[1])
          /\ IF r[1] THEN Leave(p, IF proc[p].then = "b_warn" THEN "b_end" ELSE "e_done")
                     ELSE Goto(p, "x_fail") /\ UNCHANGED lock
    BY DEF ExportMark
  <1>r. /\ r[1] \in BOOLEAN /\ faults' \in 0 .. MaxFaults
        /\ marker' \in [state : {"missing", "torn", "ok"}, keys : SUBSET Files]
    BY <1>0, <1>p, MarkerPut
  <1>1. PICK c \in {"x_fail", "b_end", "e_done"}, n \in BOOLEAN :
          /\ To(p, c, proc[p].then, n, proc[p].i)
          /\ \/ c = "x_fail" /\ n = proc[p].nest /\ lock' = lock
             \/ /\ c = (IF proc[p].then = "b_warn" THEN "b_end" ELSE "e_done") /\ n = FALSE
                /\ lock' = IF proc[p].nest THEN p ELSE NoProc
    <2>1. CASE r[1]
      <3>1. PICK c \in {"b_end", "e_done"} :
              Leave(p, c) /\ c = (IF proc[p].then = "b_warn" THEN "b_end" ELSE "e_done")
        BY <1>p, <2>1
      <3> QED
        BY <1>0, <3>1, LeaveTo DEF States
    <2>2. CASE ~r[1]
      BY <1>0, <1>p, <2>2, GotoTo, ProcFields DEF States
    <2> QED
      BY <1>r, <2>1, <2>2
  <1>2. SharedType'
    BY <1>0, <1>1, <1>r, Callers DEF TypeOK, SharedType, ExportMark, files
  <1>3. /\ CallOK(proc'[p].pc, proc'[p].then, proc'[p].nest)
        /\ lock' = p <=> HoldsAt(proc'[p].pc, proc'[p].then)
        /\ lock = p /\ lock' \in {NoProc, p}
    BY <1>0, <1>1, <1>q, Callers
       DEF To, CallOK, HoldsAt, ExportPcs, RepublishPcs, EnsurePcs
  <1>4. Lists(p) /\ \A f \in Files : Copied(p, f)
    <2>1. \A f \in Files : ~Copied(p, f)' /\ ~Unlisted(p, f)'
      BY <1>1 DEF To, Copied, Unlisted
    <2>2. \A f \in Files : Copied(p, f)
      BY <1>0 DEF Copied
    <2> QED
      BY <1>1, <1>3, <2>1, <2>2 DEF Lists, To, ExportMark
  <1>5. Goes(p)
    <2>1. Early(p)' => Early(p)
      BY <1>0, <1>1, <1>q DEF To, Early, ExportPcs
    <2>2. Building(p)' => \A q \in Procs \ {p} : ~Building(q)
      BY <1>0, <1>1, <1>q DEF To, Building, IInv, BuildInv
    <2> QED
      BY <1>0, <1>1, <2>1, <2>2, NumbersSame DEF Goes, To, Writes, ExportMark, files
  <1>6. (Passed(p)' => Passed(p)) /\ proc'[p].pc # "object" /\ proc'[p].s \in Sessions
    BY <1>0, <1>1, <1>q DEF To, Passed, EnsurePcs
  <1> QED
    BY <1>2, <1>3, <1>4, <1>5, <1>6, GeneralStep DEF Copies, Reports

\* A child records how its export went.
LEMMA append_export_warningInv ==
    ASSUME IInv, NEW p \in Procs, append_export_warning(p)
    PROVE  IInv'
  <1>0. TypeOK /\ proc[p].pc = "b_warn" /\ proc[p].s \in Sessions
    BY ProcFields DEF IInv, append_export_warning
  <1>1. To(p, "b_end", proc[p].then, proc[p].nest, proc[p].i)
    BY <1>0, GotoTo DEF append_export_warning, States
  <1>q. /\ meta' \in [Sessions -> [status : {"none", "running", "done", "failed"}, warn : BOOLEAN]]
        /\ \A s \in Sessions : meta'[s].status = meta[s].status /\ (~meta'[s].warn => ~meta[s].warn)
        /\ meta'[proc[p].s].warn
    BY <1>0 DEF TypeOK, append_export_warning
  <1>2. SharedType'
    BY <1>0, <1>q DEF TypeOK, SharedType, append_export_warning, counts
  <1>3. /\ CallOK(proc'[p].pc, proc'[p].then, proc'[p].nest)
        /\ ~HoldsAt(proc'[p].pc, proc'[p].then) /\ lock # p /\ lock' = lock
    BY <1>0, <1>1, Callers
       DEF To, CallOK, HoldsAt, ExportPcs, RepublishPcs, EnsurePcs, append_export_warning
  <1>4. Shrinks(p)
    BY <1>1 DEF Shrinks, To, Copied, Unlisted, append_export_warning
  <1>5. Goes(p)
    <2>1. Early(p)' => Early(p)
      BY <1>0 DEF Early
    <2>2. Building(p)' => \A q \in Procs \ {p} : ~Building(q)
      BY <1>0 DEF Building, IInv, BuildInv
    <2> QED
      BY <1>0, <1>1, <1>q, <2>1, <2>2, NumbersSame
         DEF Goes, To, Writes, append_export_warning, counts
  <1>6. (Passed(p)' => Passed(p)) /\ proc'[p].pc # "object" /\ proc'[p].s \in Sessions
    BY <1>0, <1>1 DEF To, Passed, EnsurePcs
  <1> QED
    BY <1>q, <1>2, <1>3, <1>4, <1>5, <1>6, GeneralStep DEF Copies, Reports

\* A process is killed with its lock.
LEMMA KillInv ==
    ASSUME IInv, NEW p \in Procs, Kill(p)
    PROVE  IInv'
  <1>0. TypeOK /\ proc[p].pc # "idle" /\ proc[p].s \in Sessions
    BY ProcFields DEF IInv, Kill
  <1>1. /\ Only(p) /\ proc'[p].pc = "idle" /\ proc'[p].then = "idle" /\ proc'[p].nest = FALSE
    BY <1>0, FinishOnly DEF Kill, Idle
  <1>q. /\ meta' \in [Sessions -> [status : {"none", "running", "done", "failed"}, warn : BOOLEAN]]
        /\ \A s \in Sessions :
             /\ meta'[s].warn = meta[s].warn
             /\ \/ meta'[s].status = meta[s].status
                \/ meta'[s].status = "failed" /\ Building(p)
        /\ Building(p) /\ meta[proc[p].s].status = "running" => meta'[proc[p].s].status # "done"
    <2>1. CASE Building(p) /\ meta[proc[p].s].status = "running"
      <3>1. meta' = [meta EXCEPT ![proc[p].s].status = "failed"]
        BY <2>1 DEF Kill
      <3> QED
        BY <1>0, <2>1, <3>1 DEF TypeOK
    <2>2. CASE ~(Building(p) /\ meta[proc[p].s].status = "running")
      <3>1. meta' = meta
        BY <2>2 DEF Kill
      <3> QED
        BY <1>0, <2>2, <3>1 DEF TypeOK
    <2> QED
      BY <2>1, <2>2
  <1>k. /\ killed \subseteq killed' /\ killed' \subseteq Sessions
        /\ Building(p) /\ meta[proc[p].s].status = "done" => proc[p].s \in killed'
    BY <1>0 DEF Kill, TypeOK
  <1>2. SharedType'
    BY <1>0, <1>q, <1>k, DocumentsAssumption DEF TypeOK, SharedType, Kill
  <1>3. /\ CallOK(proc'[p].pc, proc'[p].then, proc'[p].nest)
        /\ ~HoldsAt(proc'[p].pc, proc'[p].then) /\ lock' # p
        /\ lock' = lock \/ (lock = p /\ lock' = NoProc)
    BY <1>1, Callers DEF CallOK, HoldsAt, ExportPcs, RepublishPcs, EnsurePcs, Kill
  <1>4. Shrinks(p)
    BY <1>1 DEF Shrinks, Copied, Unlisted, Kill
  <1>5. Goes(p)
    BY <1>0, <1>1, <1>q, <1>k, NumbersSame DEF Goes, Early, Building, Writes, ExportPcs, Kill
  <1>6. Reports(p)
    <2>1. ASSUME Early(p) PROVE proc[p].s \in killed' \/ meta'[proc[p].s].status # "done"
      BY <2>1, <1>q, <1>k, EarlyBuilds DEF IInv, BuildInv, BuilderOK
    <2> QED
      BY <2>1 DEF Reports
  <1>7. ~Passed(p)'
    BY <1>1 DEF Passed, EnsurePcs
  <1> QED
    BY <1>1, <1>2, <1>3, <1>4, <1>5, <1>6, <1>7, GeneralStep DEF Copies

\* A process that begins outside a build.
LEMMA BeginsInv ==
    ASSUME IInv, SharedType', NEW p \in Procs, Only(p), proc[p].pc = "idle",
           Numbers, UNCHANGED <<meta, bucket, marker, lock, killed, builds>>,
           proc'[p].pc \in {"refresh", "warned", "r_lock"}, proc'[p].s \in Sessions,
           proc'[p].pc = "r_lock" => proc'[p].then = "b_stamp" /\ \A q \in Procs : ~Building(q),
           proc'[p].pc # "r_lock" => proc'[p].then = "idle",
           proc'[p].floor > 0 => Owed(p)'
    PROVE  IInv'
  <1>1. ~Early(p)' /\ ~Early(p)
    BY DEF Early, ExportPcs
  <1>2. Shrinks(p) /\ \A f \in Files : ~Copied(p, f)'
    BY DEF Shrinks, Copied, Unlisted
  <1>3. Building(p)' => \A q \in Procs \ {p} : ~Building(q)
    BY DEF Building
  <1>4. Goes(p) /\ Reports(p)
    BY <1>1, <1>2, <1>3 DEF Goes, Reports, Writes
  <1>5. /\ CallOK(proc'[p].pc, proc'[p].then, proc'[p].nest)
        /\ ~HoldsAt(proc'[p].pc, proc'[p].then) /\ lock # p
    BY Callers DEF CallOK, HoldsAt, ExportPcs, RepublishPcs, EnsurePcs
  <1> QED
    BY <1>2, <1>4, <1>5, GeneralStep DEF Copies

\* A POST reuses the session's documents.
LEMMA StartReuseInv ==
    ASSUME IInv, NEW p \in Procs, NEW s \in Sessions, StartReuse(p, s)
    PROVE  IInv'
  <1>0. TypeOK /\ proc[p].pc = "idle" /\ \A q \in Procs : ~Building(q)
    BY DEF IInv, StartReuse
  <1>1. PICK r : r = [Idle EXCEPT !.pc = "r_lock", !.s = s, !.f = "md", !.then = "b_stamp"]
    OBVIOUS
  <1>e. r = [pc |-> "r_lock", s |-> s, f |-> "md", i |-> 1, then |-> "b_stamp",
             nest |-> FALSE, floor |-> 0]
    BY <1>1 DEF Idle
  <1>2. r \in Process /\ r.pc = "r_lock" /\ r.then = "b_stamp" /\ r.s = s /\ r.floor = 0
    BY <1>e, FilesKnown, DocumentsAssumption DEF Process, States, Thens
  <1>3. Only(p) /\ proc'[p] = r
    BY <1>0, <1>1, <1>2 DEF Only, TypeOK, StartReuse
  <1>4. Numbers
    BY RefreshNumbers DEF StartReuse
  <1>5. SharedType'
    BY <1>0, <1>4 DEF TypeOK, SharedType, StartReuse, Numbers, counts
  <1>6. UNCHANGED <<meta, bucket, marker, lock, killed, builds>>
    BY DEF StartReuse, counts
  <1>7. /\ proc'[p].pc = "r_lock" /\ proc'[p].s \in Sessions /\ proc'[p].then = "b_stamp"
        /\ ~(proc'[p].floor > 0)
    BY <1>2, <1>3
  <1> QED
    BY <1>0, <1>3, <1>4, <1>5, <1>6, <1>7, BeginsInv

\* A GET comes.
LEMMA GetInv ==
    ASSUME IInv, NEW p \in Procs, NEW s \in Sessions, NEW f \in Files, Get(p, s, f)
    PROVE  IInv'
  <1>0. TypeOK /\ proc[p].pc = "idle" /\ local[s][f] # None
    BY DEF IInv, Get
  <1>1. local[s][f] \in Contents /\ local[s][f][2] \in 1 .. MaxBuilds
    BY <1>0, ContentsWhole DEF TypeOK
  <1>2. PICK n \in 0 .. MaxBuilds : n = Floor(s, f)
    BY <1>1, DocumentsAssumption DEF Floor
  <1>3. PICK c \in {"refresh", "warned"} : c = IF f = "md" THEN "refresh" ELSE "warned"
    OBVIOUS
  <1>4. PICK r : r = [Idle EXCEPT !.pc = c, !.s = s, !.f = f, !.floor = n]
    OBVIOUS
  <1>e. r = [pc |-> c, s |-> s, f |-> f, i |-> 1, then |-> "idle", nest |-> FALSE, floor |-> n]
    BY <1>4 DEF Idle
  <1>5. r \in Process /\ r.pc = c /\ r.then = "idle" /\ r.s = s /\ r.f = f /\ r.floor = n
    BY <1>e, FilesKnown, DocumentsAssumption DEF Process, States, Thens
  <1>6. Only(p) /\ proc'[p] = r
    BY <1>0, <1>2, <1>3, <1>4, <1>5 DEF Only, TypeOK, Get
  <1>7. Numbers /\ SharedType'
    BY <1>0, NumbersSame DEF TypeOK, SharedType, Get, files, counts
  <1>8. ASSUME n > 0 PROVE Owed(p)'
    <2>1. /\ s \notin killed /\ meta[s].status = "done" /\ n = local[s][f][2]
          /\ \A q \in Procs : ~(Building(q) /\ proc[q].s = s)
      BY <1>2, <1>8 DEF Floor
    <2>2. ASSUME NEW q \in Procs, Early(q)' PROVE proc'[q].s # s
      <3>1. q # p
        BY <2>2, <1>5, <1>6 DEF Early, ExportPcs
      <3> QED
        BY <2>1, <2>2, <3>1, <1>6, OthersSame, EarlyBuilds DEF Only
    <2>3. ~meta[s].warn => AtLeast(s, f, n)
      BY <2>1, EarlyBuilds DEF IInv, ExportInv, Quiet
    <2>4. ASSUME AtLeast(s, f, n) PROVE AtLeast(s, f, n)'
      <3>1. Shrinks(p) /\ ~Copied(p, f)'
        BY <1>5, <1>6 DEF Shrinks, Copied, Unlisted, Get
      <3> QED
        BY <2>4, <3>1, AtLeastShrinks DEF AtLeast
    <2>5. ~Passed(p)' /\ proc'[p].pc # "object"
      BY <1>5, <1>6 DEF Passed, EnsurePcs
    <2>6. /\ proc'[p].s = s /\ proc'[p].f = f /\ proc'[p].floor = n
          /\ local' = local /\ meta' = meta
      BY <1>5, <1>6 DEF Get, files
    <2>7. n >= n
      BY DocumentsAssumption
    <2> QED
      BY <2>1, <2>7, <2>2, <2>3, <2>4, <2>5, <2>6 DEF Owed, AtLeast
  <1> QED
    BY <1>0, <1>5, <1>6, <1>7, <1>8, BeginsInv DEF Get, files, counts

\* A deployment changes the renderer.
LEMMA DeployInv ==
    ASSUME IInv, Deploy
    PROVE  IInv'
  <1>1. TypeOK'
    BY DocumentsAssumption DEF IInv, TypeOK, Deploy, files
  <1>2. UNCHANGED <<local, meta, bucket, marker, lock, proc, killed, builds>>
    BY DEF Deploy, files
  <1>3. Started' /\ LockInv' /\ CopyInv' /\ MarkerHonest'
    BY <1>2 DEF IInv, Started, LockInv, Holds, CopyInv, Copied, Unlisted, MarkerHonest
  <1>4. BuildInv'
    BY <1>2 DEF IInv, BuildInv, BuilderOK, SessionOK, Building, Early
  <1>5. ExportInv' /\ ReaderInv'
    BY <1>2 DEF IInv, ExportInv, ReaderInv, Owed, AtLeast, Quiet, Early, Copied, Passed
  <1> QED
    BY <1>1, <1>3, <1>4, <1>5 DEF IInv

(***************************************************************************)
(* The steps of a build that writes its documents.                         *)
(***************************************************************************)

\* Only p moves, except that what a GET is owed may become void.
Near(p) ==
    /\ proc' \in [Procs -> Process]
    /\ \A q \in Procs \ {p} :
        /\ proc'[q].pc = proc[q].pc /\ proc'[q].s = proc[q].s /\ proc'[q].f = proc[q].f
        /\ proc'[q].i = proc[q].i /\ proc'[q].then = proc[q].then /\ proc'[q].nest = proc[q].nest
        /\ proc'[q].floor \in {0, proc[q].floor}

\* A build's step leaves what the other processes copy, build or have passed.
LEMMA NearSame ==
    ASSUME NEW p, Near(p), NEW q \in Procs, q # p, NEW f
    PROVE  /\ Copied(q, f)' <=> Copied(q, f)
           /\ Unlisted(q, f)' <=> Unlisted(q, f)
           /\ Early(q)' <=> Early(q)
           /\ Building(q)' <=> Building(q)
           /\ Passed(q)' <=> Passed(q)
           /\ Holds(q)' <=> Holds(q)
  BY DEF Near, Copied, Unlisted, Early, Building, Passed, Holds

\* What a build of session s that goes on before its export leaves alone.
WritesFor(p, s) ==
    /\ Near(p) /\ proc'[p].s = s /\ Early(p)' /\ proc'[p].pc \in Writes \cup {"x_lock"}
    /\ proc'[p].pc = "x_lock" => proc'[p].then = "b_warn"
    /\ Early(p) => proc[p].s = s
    /\ UNCHANGED <<bucket, marker, lock>> /\ lock # p
    /\ \A q \in Procs \ {p} : ~Building(q)
    /\ \A q \in Procs : proc'[q].pc # "idle" /\ proc'[q].floor > 0 => proc'[q].s # s
    /\ \A x \in Sessions \ {s} : /\ local'[x] = local[x] /\ meta'[x] = meta[x]
                                 /\ x \in killed' <=> x \in killed

\* A build's writes keep the invariant: nobody reads as done what it is replacing.
LEMMA WriteStep ==
    ASSUME IInv, SharedType', NEW p \in Procs, NEW s \in Sessions, WritesFor(p, s),
           BuilderOK(p)', SessionOK(s)', builds' # 0
    PROVE  IInv'
  <1>0. Near(p) /\ TypeOK
    BY DEF WritesFor, IInv
  <1>1. ASSUME NEW q \in Procs, q # p
        PROVE  /\ ~Building(q)' /\ ~Early(q)' /\ ~Early(q) /\ proc'[q].pc \notin Writes
    <2>1. ~Building(q) /\ ~Building(q)'
      BY <1>0, <1>1, NearSame DEF WritesFor
    <2>2. ~Early(q) /\ ~Early(q)'
      BY <1>0, <1>1, <2>1, EarlyBuilds, NearSame
    <2> QED
      BY <2>1, <2>2 DEF Early, Writes
  <1>2. \A f \in Files : ~Copied(p, f)' /\ ~Unlisted(p, f)'
    BY DEF WritesFor, Copied, Unlisted, Writes
  <1>3. TypeOK'
    BY <1>0 DEF TypeOK, SharedType, WritesFor, Near
  <1>4. LockInv'
    <2>1. ASSUME NEW q \in Procs PROVE (lock' = q <=> Holds(q)') /\ CallOK(proc[q].pc, proc[q].then, proc[q].nest)'
      <3>1. CASE q = p
        BY <3>1 DEF WritesFor, Holds, HoldsAt, CallOK, Writes, ExportPcs, RepublishPcs, EnsurePcs
      <3>2. CASE q # p
        <4>1. /\ proc'[q].pc = proc[q].pc /\ proc'[q].then = proc[q].then
              /\ proc'[q].nest = proc[q].nest /\ (Holds(q)' <=> Holds(q)) /\ lock' = lock
          <5>1. UNCHANGED lock
            BY DEF WritesFor
          <5> QED
            BY <3>2, <1>0, <5>1 DEF Near, Holds
        <4>2. (lock = q <=> Holds(q)) /\ CallOK(proc[q].pc, proc[q].then, proc[q].nest)
          BY DEF IInv, LockInv
        <4> QED
          BY <4>1, <4>2
      <3> QED
        BY <3>1, <3>2
    <2> QED
      BY <2>1 DEF LockInv
  <1>5. CopyInv' /\ MarkerHonest'
    BY <1>0, <1>2, NearSame DEF IInv, CopyInv, MarkerHonest, Whole, WritesFor
  <1>6. Started'
    BY <1>1 DEF Started, Writes
  <1>7. BuildInv'
    <2>1. ASSUME NEW q \in Procs PROVE BuilderOK(q)'
      BY <1>1 DEF BuilderOK, Writes
    <2>2. ASSUME NEW x \in Sessions PROVE SessionOK(x)'
      <3>1. CASE x # s
        BY <3>1 DEF WritesFor, IInv, BuildInv, SessionOK
      <3> QED
        BY <3>1
    <2>3. \A q, r \in Procs : Building(q)' /\ Building(r)' => q = r
      BY <1>1
    <2> QED
      BY <2>1, <2>2, <2>3 DEF BuildInv
  <1>8. ASSUME NEW x \in Sessions, NEW f \in Files, NEW n, x # s, AtLeast(x, f, n)
        PROVE  AtLeast(x, f, n)'
    <2>1. ASSUME NEW q \in Procs, proc'[q].s = x, Copied(q, f)' PROVE bucket'[f][2] >= n
      <3>1. q # p
        BY <2>1, <1>2
      <3> QED
        <4>1. proc[q].s = x
          BY <3>1, <2>1, <1>0 DEF Near
        <4>2. Copied(q, f)
          BY <3>1, <2>1, <1>0, NearSame
        <4>3. bucket' = bucket
          BY DEF WritesFor
        <4> QED
          BY <4>1, <4>2, <4>3, <1>8 DEF AtLeast
    <2> QED
      BY <2>1, <1>8 DEF AtLeast, WritesFor
  <1>9. ExportInv'
    <2>1. ASSUME NEW q \in Procs, NEW f \in Files, Copied(q, f)'
          PROVE  bucket'[f][1] = proc'[q].s /\ ~Early(q)'
      <3>1. q # p
        BY <2>1, <1>2
      <3>2. Copied(q, f) /\ proc'[q].s = proc[q].s /\ bucket' = bucket
        BY <3>1, <2>1, <1>0, NearSame DEF Near, WritesFor
      <3> QED
        BY <3>1, <3>2, <1>1 DEF IInv, ExportInv
    <2>2. ASSUME NEW x \in Sessions, NEW f \in Files, Quiet(x)', ~meta'[x].warn
          PROVE  AtLeast(x, f, local[x][f][2])'
      <3>1. x # s
        BY <2>2 DEF Quiet, WritesFor
      <3>2. PICK n : n = local[x][f][2] /\ n = local'[x][f][2]
        BY <3>1 DEF WritesFor
      <3>3. \A q \in Procs : Early(q) => proc[q].s # x
        <4>1. ASSUME Early(p) PROVE proc[p].s # x
          BY <3>1, <4>1 DEF WritesFor
        <4> QED
          BY <4>1, <1>1
      <3>4. AtLeast(x, f, n)
        BY <2>2, <3>1, <3>2, <3>3 DEF Quiet, WritesFor, IInv, ExportInv
      <3>5. AtLeast(x, f, n)'
        BY <1>8, <3>1, <3>4
      <3> QED
        BY <3>2, <3>5 DEF AtLeast
    <2> QED
      BY <2>1, <2>2 DEF ExportInv
  <1>10. ReaderInv'
    <2> SUFFICES ASSUME NEW q \in Procs, proc'[q].pc # "idle", proc'[q].floor > 0 PROVE Owed(q)'
      BY DEF ReaderInv
    <2>1. q # p /\ proc'[q].s # s
      BY DEF WritesFor
    <2>2. /\ proc[q].pc = proc'[q].pc /\ proc[q].floor = proc'[q].floor
          /\ proc[q].s = proc'[q].s /\ proc[q].f = proc'[q].f
      BY <1>0, <2>1 DEF Near
    <2>3. PICK x \in Sessions, f \in Files, n \in Nat \ {0} :
            x = proc'[q].s /\ f = proc'[q].f /\ n = proc'[q].floor
      BY <1>0, <2>2, ProcFields, DocumentsAssumption
    <2>4. Owed(q) /\ x # s
      BY <2>1, <2>2, <2>3 DEF IInv, ReaderInv
    <2>5. \A r \in Procs : Early(r)' => proc'[r].s # x
      BY <1>1, <2>4 DEF WritesFor
    <2>6. local'[x][f][2] >= n /\ meta'[x] = meta[x]
      BY <2>2, <2>3, <2>4 DEF Owed, WritesFor
    <2>7. ~meta'[x].warn \/ Passed(q)' => AtLeast(x, f, n)'
      BY <1>0, <1>8, <2>1, <2>2, <2>3, <2>4, <2>6, NearSame DEF Owed
    <2>8. proc'[q].pc = "object" /\ bucket'[f][1] = x => bucket'[f][2] >= n
      BY <2>2, <2>3, <2>4 DEF Owed, WritesFor
    <2> QED
      BY <2>3, <2>5, <2>6, <2>7, <2>8 DEF Owed, AtLeast
  <1> QED
    BY <1>3, <1>4, <1>5, <1>6, <1>7, <1>9, <1>10 DEF IInv

\* A child that writes is the only build, holds no lock, and no GET of its session
\* is owed anything.
LEMMA WritesHeld ==
    ASSUME IInv, NEW p \in Procs, proc[p].pc \in Writes, Only(p),
           proc'[p].s = proc[p].s, proc'[p].floor = proc[p].floor,
           proc'[p].pc \in Writes \cup {"x_lock"},
           proc'[p].pc = "x_lock" => proc'[p].then = "b_warn"
    PROVE  /\ Near(p) /\ Early(p)' /\ Early(p) /\ lock # p
           /\ \A q \in Procs \ {p} : ~Building(q)
           /\ \A q \in Procs : proc'[q].pc # "idle" /\ proc'[q].floor > 0
                                => proc'[q].s # proc[p].s
  <1>1. Early(p) /\ Early(p)' /\ Building(p) /\ proc[p].pc # "idle"
    BY DEF Early, Writes, Building, ExportPcs
  <1>2. Near(p)
    BY DEF Only, Near
  <1>3. lock # p
    BY Callers DEF HoldsAt, Writes, ExportPcs, RepublishPcs, EnsurePcs
  <1>4. \A q \in Procs \ {p} : ~Building(q)
    BY <1>1 DEF IInv, BuildInv
  <1>5. ASSUME NEW q \in Procs, proc'[q].pc # "idle", proc'[q].floor > 0
        PROVE  proc'[q].s # proc[p].s
    <2>1. proc[q].pc # "idle" /\ proc[q].floor > 0 /\ proc'[q].s = proc[q].s
      BY <1>1, <1>5 DEF Only
    <2> QED
      BY <1>1, <2>1 DEF IInv, ReaderInv, Owed
  <1> QED
    BY <1>1, <1>2, <1>3, <1>4, <1>5

\* The child writes the JSON document,
LEMMA BuildJsonInv ==
    ASSUME IInv, NEW p \in Procs, BuildJson(p)
    PROVE  IInv'
  <1>s. PICK s \in Sessions : s = proc[p].s
    BY ProcFields DEF IInv, BuildJson
  <1>0. /\ TypeOK /\ proc[p].pc = "b_json" /\ proc[p].s = s /\ BuilderOK(p) /\ SessionOK(s)
        /\ Early(p) /\ Building(p) /\ builds # 0
    <2>1. /\ TypeOK /\ proc[p].pc = "b_json" /\ Early(p) /\ Building(p) /\ BuilderOK(p) /\ SessionOK(s)
      BY DEF IInv, BuildJson, Early, Building, BuildInv
    <2>2. builds # 0
      BY <2>1 DEF IInv, Started
    <2> QED
      BY <1>s, <2>1, <2>2
  <1>1. To(p, "b_md", proc[p].then, proc[p].nest, proc[p].i)
    BY <1>0, GotoTo DEF BuildJson, States
  <1>2. PICK c : c = <<s, builds, 0>>
    OBVIOUS
  <1>3. c \in Contents /\ c[1] = s /\ c[2] = builds /\ c # None
    BY <1>0, <1>2, DocumentsAssumption DEF Contents, None, TypeOK
  <1>4. /\ local' \in [Sessions -> [Files -> Contents \cup {None}]]
        /\ local'[s]["json"] = c /\ local'[s]["md"] = local[s]["md"]
        /\ \A x \in Sessions \ {s} : local'[x] = local[x]
    BY <1>0, <1>2, <1>3, FilesKnown DEF TypeOK, BuildJson
  <1>5. SharedType'
    BY <1>0, <1>4 DEF TypeOK, SharedType, BuildJson, counts
  <1>6. SessionOK(s)'
    BY <1>0, <1>3, <1>4, FilesKnown DEF SessionOK, BuilderOK, Writes, BuildJson
  <1>7. BuilderOK(p)'
    BY <1>0, <1>1, <1>3, <1>4 DEF BuilderOK, To, Writes, BuildJson, counts
  <1>8. WritesFor(p, s)
    BY <1>0, <1>1, <1>4, WritesHeld DEF WritesFor, To, Writes, BuildJson, files, counts
  <1> QED
    BY <1>0, <1>5, <1>6, <1>7, <1>8, WriteStep DEF BuildJson, counts

\* renders the Markdown
LEMMA BuildMarkdownInv ==
    ASSUME IInv, NEW p \in Procs, BuildMarkdown(p)
    PROVE  IInv'
  <1>s. PICK s \in Sessions : s = proc[p].s
    BY ProcFields DEF IInv, BuildMarkdown
  <1>0. /\ TypeOK /\ proc[p].pc = "b_md" /\ proc[p].s = s /\ BuilderOK(p) /\ SessionOK(s)
        /\ Early(p) /\ Building(p) /\ builds # 0
    <2>1. /\ TypeOK /\ proc[p].pc = "b_md" /\ Early(p) /\ Building(p) /\ BuilderOK(p) /\ SessionOK(s)
      BY DEF IInv, BuildMarkdown, Early, Building, BuildInv
    <2>2. builds # 0
      BY <2>1 DEF IInv, Started
    <2> QED
      BY <1>s, <2>1, <2>2
  <1>1. To(p, "b_meta", proc[p].then, proc[p].nest, proc[p].i)
    BY <1>0, GotoTo DEF BuildMarkdown, States
  <1>2. PICK c : c = <<s, builds, renderer>>
    OBVIOUS
  <1>3. c \in Contents /\ c[1] = s /\ c[2] = builds /\ c # None
    BY <1>0, <1>2, DocumentsAssumption DEF Contents, None, TypeOK
  <1>4. /\ local' \in [Sessions -> [Files -> Contents \cup {None}]]
        /\ local'[s]["md"] = c /\ local'[s]["json"] = local[s]["json"]
        /\ \A x \in Sessions \ {s} : local'[x] = local[x]
    BY <1>0, <1>2, <1>3, FilesKnown DEF TypeOK, BuildMarkdown
  <1>5. SharedType'
    BY <1>0, <1>4, DocumentsAssumption DEF TypeOK, SharedType, BuildMarkdown, counts
  <1>6. SessionOK(s)'
    BY <1>0, <1>3, <1>4, FilesKnown DEF SessionOK, BuilderOK, Writes, BuildMarkdown
  <1>7. BuilderOK(p)'
    BY <1>0, <1>1, <1>3, <1>4 DEF BuilderOK, To, Writes, BuildMarkdown, counts
  <1>8. WritesFor(p, s)
    BY <1>0, <1>1, <1>4, WritesHeld DEF WritesFor, To, Writes, BuildMarkdown, files, counts
  <1> QED
    BY <1>0, <1>5, <1>6, <1>7, <1>8, WriteStep DEF BuildMarkdown, counts

\* and marks the job done.
LEMMA BuildMetaInv ==
    ASSUME IInv, NEW p \in Procs, BuildMeta(p)
    PROVE  IInv'
  <1>s. PICK s \in Sessions : s = proc[p].s
    BY ProcFields DEF IInv, BuildMeta
  <1>0. /\ TypeOK /\ proc[p].pc = "b_meta" /\ proc[p].s = s /\ BuilderOK(p) /\ SessionOK(s)
        /\ Early(p) /\ Building(p) /\ builds # 0
    <2>1. /\ TypeOK /\ proc[p].pc = "b_meta" /\ Early(p) /\ Building(p) /\ BuilderOK(p) /\ SessionOK(s)
      BY DEF IInv, BuildMeta, Early, Building, BuildInv
    <2>2. builds # 0
      BY <2>1 DEF IInv, Started
    <2> QED
      BY <1>s, <2>1, <2>2
  <1>1. To(p, "x_lock", "b_warn", proc[p].nest, proc[p].i)
    BY <1>0, ThenTo DEF BuildMeta, States, Thens
  <1>2. /\ meta' \in [Sessions -> [status : {"none", "running", "done", "failed"}, warn : BOOLEAN]]
        /\ meta'[s].status = "done"
        /\ \A x \in Sessions \ {s} : meta'[x] = meta[x] /\ (x \in killed' <=> x \in killed)
        /\ killed' \subseteq Sessions
    BY <1>0 DEF TypeOK, BuildMeta
  <1>5. SharedType'
    BY <1>0, <1>2 DEF TypeOK, SharedType, BuildMeta, counts
  <1>6. SessionOK(s)'
    BY <1>0, <1>2 DEF SessionOK, BuilderOK, Writes, BuildMeta
  <1>7. BuilderOK(p)'
    BY <1>0, <1>1, <1>2 DEF BuilderOK, To, Writes, BuildMeta
  <1>3. UNCHANGED <<local, bucket, marker, lock>>
    BY DEF BuildMeta
  <1>4. /\ Near(p) /\ Early(p)' /\ Early(p) /\ lock # p
        /\ \A q \in Procs \ {p} : ~Building(q)
        /\ \A q \in Procs : proc'[q].pc # "idle" /\ proc'[q].floor > 0 => proc'[q].s # s
    BY <1>0, <1>1, WritesHeld DEF To, Writes
  <1>8. WritesFor(p, s)
    BY <1>0, <1>1, <1>2, <1>3, <1>4 DEF WritesFor, To, Writes
  <1> QED
    BY <1>0, <1>5, <1>6, <1>7, <1>8, WriteStep DEF BuildMeta, counts

\* A POST starts a child that builds the session anew.
LEMMA StartBuildInv ==
    ASSUME IInv, NEW p \in Procs, NEW s \in Sessions, StartBuild(p, s)
    PROVE  IInv'
  <1>0. TypeOK /\ proc[p].pc = "idle" /\ \A q \in Procs : ~Building(q)
    BY DEF IInv, StartBuild
  <1>1. PICK r : r = [Idle EXCEPT !.pc = "b_json", !.s = s]
    OBVIOUS
  <1>2. r = [pc |-> "b_json", s |-> s, f |-> "json", i |-> 1, then |-> "idle",
             nest |-> FALSE, floor |-> 0]
    BY <1>1 DEF Idle
  <1>3. r \in Process /\ r.pc = "b_json" /\ r.then = "idle" /\ r.s = s /\ r.floor = 0
    BY <1>2, FilesKnown, DocumentsAssumption DEF Process, States, Thens
  <1>4. proc' = [q \in Procs |-> IF q = p THEN r
                                ELSE IF proc[q].s = s THEN [proc[q] EXCEPT !.floor = 0]
                                ELSE proc[q]]
    BY <1>1 DEF StartBuild
  <1>5. proc'[p] = r
    BY <1>4
  <1>6. ASSUME NEW q \in Procs, q # p
        PROVE  /\ proc'[q] \in Process
               /\ proc'[q].pc = proc[q].pc /\ proc'[q].s = proc[q].s /\ proc'[q].f = proc[q].f
               /\ proc'[q].i = proc[q].i /\ proc'[q].then = proc[q].then
               /\ proc'[q].nest = proc[q].nest /\ proc'[q].floor \in {0, proc[q].floor}
               /\ proc[q].s = s => proc'[q].floor = 0
    <2>1. proc[q] \in Process
      BY <1>0 DEF TypeOK
    <2>2. CASE proc[q].s # s
      BY <1>4, <1>6, <2>1, <2>2
    <2>3. CASE proc[q].s = s
      <3>1. proc'[q] = [proc[q] EXCEPT !.floor = 0]
        BY <1>4, <1>6, <2>3
      <3> QED
        BY <2>1, <3>1, DocumentsAssumption DEF Process
    <2> QED
      BY <2>2, <2>3
  <1>7. Near(p)
    <2>1. proc' \in [Procs -> Process]
      BY <1>3, <1>4, <1>5, <1>6
    <2> QED
      BY <2>1, <1>6 DEF Near
  <1>8. /\ local' \in [Sessions -> [Files -> Contents \cup {None}]]
        /\ \A f \in Files : local'[s][f] = None
        /\ \A x \in Sessions \ {s} : local'[x] = local[x] /\ meta'[x] = meta[x]
        /\ meta' \in [Sessions -> [status : {"none", "running", "done", "failed"}, warn : BOOLEAN]]
        /\ meta'[s].status = "running"
    BY <1>0 DEF TypeOK, StartBuild
  <1>9. SharedType' /\ builds' # 0
    BY <1>0, <1>8, DocumentsAssumption DEF TypeOK, SharedType, StartBuild
  <1>10. Early(p)' /\ ~Early(p) /\ lock # p
    BY <1>0, <1>3, <1>5, Callers
       DEF Early, ExportPcs, HoldsAt, RepublishPcs, EnsurePcs
  <1>11. SessionOK(s)' /\ BuilderOK(p)'
    BY <1>3, <1>5, <1>8, FilesKnown DEF SessionOK, BuilderOK, Writes
  <1>12. \A q \in Procs : proc'[q].pc # "idle" /\ proc'[q].floor > 0 => proc'[q].s # s
    BY <1>3, <1>5, <1>6
  <1>13. WritesFor(p, s)
    BY <1>0, <1>3, <1>5, <1>7, <1>8, <1>10, <1>12 DEF WritesFor, Writes, StartBuild
  <1> QED
    BY <1>9, <1>11, <1>13, WriteStep

(***************************************************************************)
(* The theorems.                                                           *)
(***************************************************************************)

\* The empty store satisfies the invariant.
LEMMA InitInv == Init => IInv
  <1> SUFFICES ASSUME Init PROVE IInv
    OBVIOUS
  <1>1. \A p \in Procs : proc[p] = Idle
    BY DEF Init
  <1>2. \A p \in Procs : /\ proc[p].pc = "idle" /\ proc[p].then = "idle" /\ proc[p].floor = 0
    BY <1>1 DEF Idle
  <1>3. TypeOK
    BY <1>1, <1>2, IdleType, FilesKnown, DocumentsAssumption DEF Init, TypeOK
  <1>4. LockInv
    BY <1>2, DocumentsAssumption
       DEF Init, LockInv, Holds, HoldsAt, CallOK, ExportPcs, RepublishPcs, EnsurePcs
  <1>5. Started /\ CopyInv /\ MarkerHonest /\ ReaderInv
    BY <1>2 DEF Init, Started, CopyInv, Copied, Unlisted, MarkerHonest, ReaderInv
  <1>6. \A p \in Procs : ~Early(p) /\ ~Building(p) /\ \A f \in Files : ~Copied(p, f)
    BY <1>2 DEF Early, Building, Copied, ExportPcs
  <1>7. BuildInv
    BY <1>2, <1>6, FilesKnown DEF Init, BuildInv, BuilderOK, SessionOK, Writes
  <1>8. ExportInv
    BY <1>6 DEF Init, ExportInv, Quiet
  <1> QED
    BY <1>3, <1>4, <1>5, <1>7, <1>8 DEF IInv

\* Every step keeps it.
LEMMA NextInv == IInv /\ [Next]_vars => IInv'
  <1> SUFFICES ASSUME IInv, [Next]_vars PROVE IInv'
    OBVIOUS
  <1>1. ASSUME NEW p \in Procs, Export(p) PROVE IInv'
    BY <1>1, ExportLockInv, ExportClearInv, ExportPutInv, ExportCheckInv, ExportMarkInv,
       ExportFailInv DEF Export
  <1>2. ASSUME NEW p \in Procs, Republish(p) PROVE IInv'
    BY <1>2, RepublishLockInv, RepublishOffInv, RepublishPutInv, RepublishCheckInv,
       RepublishOnInv, RepublishEndInv DEF Republish
  <1>3. ASSUME NEW p \in Procs, Build(p) PROVE IInv'
    BY <1>3, BuildJsonInv, BuildMarkdownInv, BuildMetaInv, append_export_warningInv,
       commit_renderer_stampInv, BuildEndInv DEF Build
  <1>4. ASSUME NEW p \in Procs, Read(p) PROVE IInv'
    BY <1>4, GetRefreshInv, GetWarnedInv, GetLookInv, ReadBucketInv, ReadLocalInv, EnsureStartInv,
       EnsureLockInv, EnsureLoadInv, set_export_warningInv, EnsureDoneInv DEF Read
  <1>5. CASE UNCHANGED vars
    <2>1. TypeOK' /\ Started' /\ LockInv' /\ CopyInv' /\ MarkerHonest'
      BY <1>5 DEF vars, IInv, TypeOK, Started, LockInv, Holds, CopyInv, Copied, Unlisted, MarkerHonest
    <2>2. BuildInv'
      BY <1>5 DEF vars, IInv, BuildInv, BuilderOK, SessionOK, Building, Early
    <2>3. ExportInv' /\ ReaderInv'
      BY <1>5 DEF vars, IInv, ExportInv, ReaderInv, Owed, AtLeast, Quiet, Early, Copied, Passed
    <2> QED
      BY <2>1, <2>2, <2>3 DEF IInv
  <1>6. CASE Next
    BY <1>6, <1>1, <1>2, <1>3, <1>4, KillInv, StartBuildInv, StartReuseInv, GetInv, DeployInv
       DEF Next, Step
  <1> QED
    BY <1>5, <1>6

\* The invariant holds throughout.
LEMMA Invariant == Spec => []IInv
  BY InitInv, NextInv, PTL DEF Spec

\* Types of every file, object and process.
THEOREM TypeCorrect == Spec => []TypeOK
  <1>1. IInv => TypeOK
    BY DEF IInv
  <1> QED
    BY <1>1, Invariant, PTL

\* Every object the marker lists in the bucket was put whole: the key of an object
\* is taken off (RepublishOff, ExportClear) before any put may tear it, under the publish
\* lock, whatever call fails or process is killed in between.
THEOREM MarkerAlwaysHonest == Spec => []MarkerHonest
  <1>1. IInv => MarkerHonest
    BY DEF IInv
  <1> QED
    BY <1>1, Invariant, PTL

\* A GET answered from the bucket never returns an older build of its session than the one
\* that had been finished, with its export's outcome recorded, when the GET came and that no
\* new POST overtakes (read_bucket_or_local after the checks of the warning and the marker).
THEOREM AnswersFresh == Spec => FreshAnswer
  <1>1. ASSUME IInv, [Next]_vars
        PROVE  [\A p \in Procs :
                  LET c == bucket[proc[p].f] IN
                  /\ proc[p].pc = "object" /\ proc'[p].pc = "idle" /\ kills' = kills
                  /\ c[1] = proc[p].s
                  => c[2] >= proc[p].floor]_vars
    <2> SUFFICES ASSUME NEW p \in Procs, proc[p].pc = "object", bucket[proc[p].f][1] = proc[p].s
                 PROVE  bucket[proc[p].f][2] >= proc[p].floor
      OBVIOUS
    <2>1. TypeOK /\ proc[p].f \in Files /\ proc[p].floor \in Nat /\ proc[p].s \in Sessions
      BY <1>1, ProcFields, DocumentsAssumption DEF IInv
    <2>2. CASE proc[p].floor > 0
      BY <1>1, <2>2 DEF IInv, ReaderInv, Owed
    <2>3. CASE proc[p].floor = 0
      <3>1. bucket[proc[p].f] \in Contents
        BY <2>1, DocumentsAssumption DEF TypeOK, None, Torn
      <3> QED
        BY <2>3, <3>1, ContentsWhole
    <2> QED
      BY <2>1, <2>2, <2>3
  <1> QED
    BY <1>1, Invariant, PTL DEF Spec, FreshAnswer

====
