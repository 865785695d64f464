---------------------------- MODULE DeployProofs ----------------------------
(***************************************************************************)
(* Theorems about Deploy, for any number of jobs, any set of versions and  *)
(* any mixture of good and bad binaries: the supervisor always finds a     *)
(* binary that starts, and the shell plane is free when no job is left.    *)
(***************************************************************************)
EXTENDS Deploy, TLAPS

USE DeployAssumption

-----------------------------------------------------------------------------
(* The job table.                                                          *)

Job == [kind : Kinds \cup {"none", "collect"}, want : Versions \cup {None},
        prev : Versions \cup {None}, active : Layouts, stage : Stages,
        sh : {"none", "want", "dialling", "open", "lost", "failed"}, stale : BOOLEAN]

\* A job has a session, or asks for one, exactly in the stages that need it.
Sessions(jb) == \A k \in Jobs : jb[k].sh # "none" <=> jb[k].stage \in ShellStages

Table(jb) == jb \in [Jobs -> Job] /\ Sessions(jb)

\* Two tables that differ in the state of sessions only.
SameButSessions(jb, kb) ==
    \A k \in Jobs :
        /\ jb[k].kind = kb[k].kind /\ jb[k].stage = kb[k].stage /\ jb[k].active = kb[k].active
        /\ jb[k].stale = kb[k].stale /\ jb[k].want = kb[k].want

\* Cutting the open sessions moves no job.
LEMMA CutTable ==
    ASSUME NEW jb, Table(jb)
    PROVE  Table(Cut(jb)) /\ SameButSessions(Cut(jb), jb)
<1>1. Cut(jb) \in [Jobs -> Job]
  BY DEF Table, Cut, Job
<1>2. Sessions(Cut(jb))
  BY DEF Table, Cut, Job, Sessions
<1>. QED  BY <1>1, <1>2 DEF Table, Cut, Job, SameButSessions

\* Entering a stage moves one job, to that stage.
LEMMA EnterTable ==
    ASSUME NEW jb, Table(jb), NEW j \in Jobs, NEW s \in Stages
    PROVE  LET eb == Enter(jb, j, s)
           IN  /\ Table(eb)
               /\ \A k \in Jobs \ {j} : eb[k] = jb[k]
               /\ eb[j].stage = s /\ eb[j].kind = jb[j].kind /\ eb[j].active = jb[j].active
               /\ eb[j].stale = jb[j].stale /\ eb[j].want = jb[j].want
<1>. DEFINE eb == Enter(jb, j, s)
<1>1. eb \in [Jobs -> Job]
  <2>. DEFINE rec == [jb[j] EXCEPT !.stage = s, !.sh = IF s \in ShellStages THEN "want" ELSE "none"]
  <2>1. jb \in [Jobs -> Job] /\ jb[j] \in Job  BY DEF Table
  <2>2. rec \in Job  BY <2>1 DEF Job
  <2>3. eb = [jb EXCEPT ![j] = rec]  BY <2>1 DEF Enter
  <2>. HIDE DEF rec, eb
  <2>. QED  BY <2>1, <2>2, <2>3
<1>2. eb[j] = [jb[j] EXCEPT !.stage = s, !.sh = IF s \in ShellStages THEN "want" ELSE "none"]
  BY DEF Table, Enter
<1>3. \A k \in Jobs \ {j} : eb[k] = jb[k]
  BY DEF Table, Enter
<1>4. jb[j] \in Job
  BY DEF Table
<1>. HIDE DEF eb
<1>5. /\ eb[j].stage = s /\ eb[j].kind = jb[j].kind /\ eb[j].active = jb[j].active
      /\ eb[j].stale = jb[j].stale /\ eb[j].want = jb[j].want
      /\ eb[j].sh = IF s \in ShellStages THEN "want" ELSE "none"
  BY <1>2, <1>4 DEF Job
<1>6. Sessions(eb)
  BY <1>3, <1>5 DEF Table, Sessions
<1>. QED  BY <1>1, <1>3, <1>5, <1>6 DEF Table, eb

\* Detaching a table moves no job.
LEMMA DetachTable ==
    ASSUME NEW jb, Table(jb)
    PROVE  LET db == Detached(jb)
           IN  /\ Table(db)
               /\ \A k \in Jobs :
                     /\ db[k].kind = jb[k].kind /\ db[k].stage = jb[k].stage
                     /\ db[k].active = jb[k].active /\ db[k].want = jb[k].want
                     /\ db[k].stage \in ShellStages => db[k].stale
<1>1. ASSUME NEW k \in Jobs
      PROVE  /\ Detached(jb)[k] \in Job
             /\ Detached(jb)[k].kind = jb[k].kind /\ Detached(jb)[k].stage = jb[k].stage
             /\ Detached(jb)[k].active = jb[k].active /\ Detached(jb)[k].want = jb[k].want
             /\ Detached(jb)[k].sh = jb[k].sh
             /\ jb[k].stage \in ShellStages => Detached(jb)[k].stale
  <2>. DEFINE st == jb[k].stale \/ jb[k].stage \in ShellStages
  <2>1. st \in BOOLEAN /\ (jb[k].stage \in ShellStages => st)  OBVIOUS
  <2>2. Detached(jb)[k] = [jb[k] EXCEPT !.stale = st]  BY DEF Detached
  <2>3. jb[k] \in Job  BY DEF Table
  <2>. HIDE DEF st
  <2>. QED  BY <2>1, <2>2, <2>3 DEF Job
<1>2. Detached(jb) \in [Jobs -> Job]
  BY <1>1 DEF Detached
<1>. QED  BY <1>1, <1>2 DEF Table, Sessions

\* What _release_shell_ws leaves of the table it is given.
LEMMA ReleaseTable ==
    ASSUME NEW jb, Table(jb), NEW reaches, Release(jb, reaches), shellWs \in Jobs \cup {None}
    PROVE  /\ Table(job') /\ SameButSessions(job', jb)
           /\ shellWs' = None /\ pending' = None /\ lock' = FALSE
<1>1. shellWs' = None /\ pending' = None /\ lock' = FALSE
  BY DEF Release
<1>2. CASE reaches
  BY <1>1, <1>2, CutTable DEF Release
<1>3. CASE ~reaches /\ shellWs # None /\ jb[shellWs].sh = "open"
  <2>1. job' = [jb EXCEPT ![shellWs].sh = "lost"]  BY <1>3 DEF Release
  <2>2. job' \in [Jobs -> Job]
    <3>. DEFINE rec == [jb[shellWs] EXCEPT !.sh = "lost"]
    <3>1. jb \in [Jobs -> Job] /\ jb[shellWs] \in Job /\ shellWs \in Jobs  BY <1>3 DEF Table
    <3>2. rec \in Job  BY <3>1 DEF Job
    <3>3. job' = [jb EXCEPT ![shellWs] = rec]  BY <2>1, <3>1
    <3>. HIDE DEF rec
    <3>. QED  BY <3>1, <3>2, <3>3
  <2>3. Sessions(job')  BY <1>3, <2>1 DEF Table, Job, Sessions
  <2>. QED  BY <1>1, <2>1, <2>2, <2>3 DEF Table, Job, SameButSessions
<1>4. CASE ~reaches /\ ~(shellWs # None /\ jb[shellWs].sh = "open")
  BY <1>1, <1>4 DEF Release, SameButSessions
<1>. QED  BY <1>2, <1>3, <1>4

\* The next stage is one.
LEMMA AfterStage ==
    ASSUME NEW k, NEW s \in Stages
    PROVE  After(k, s) \in Stages
BY DEF After, Stages, ShellStages

-----------------------------------------------------------------------------
(* Type correctness: the job table apart from the rest.                    *)

FlagsOK == {inProgress, wanted, lock, dial, connected} \subseteq BOOLEAN

RestOK ==
    /\ updateError \in Errors \cup {None}
    /\ {previous, row, server} \subseteq Versions \cup {None}
    /\ terminal \in {"none", "checked", "open", "gone"}
    /\ {pending, shellWs} \subseteq Jobs \cup {None}
    /\ bin \in [Layouts -> Versions \cup {None}] /\ link \in Layouts
    /\ drops \in 0..MaxDrops

LEMMA TypeSplit ==
    /\ TypeOK <=> Table(job) /\ FlagsOK /\ RestOK
    /\ TypeOK' <=> Table(job') /\ FlagsOK' /\ RestOK'
BY DEF TypeOK, Table, Sessions, Job, FlagsOK, RestOK

\* The sessions come and go; no job moves.
LEMMA SessionMoves ==
    ASSUME TypeOK,
           \/ \E j \in Jobs : Acquire(j) \/ LockTimeout(j) \/ DialTimeout(j)
           \/ ShellArrives \/ TerminalAsked \/ TerminalOpens \/ TerminalCloses
    PROVE  Table(job') /\ SameButSessions(job', job)
<1>. USE TypeSplit
<1>1. ASSUME NEW b, Table(b), SameButSessions(b, job), NEW j \in Jobs, b[j].sh # "none",
             NEW sh \in {"dialling", "open", "failed"}, job' = [b EXCEPT ![j].sh = sh]
      PROVE  Table(job') /\ SameButSessions(job', job)
  <2>. DEFINE rec == [b[j] EXCEPT !.sh = sh]
  <2>1. b \in [Jobs -> Job] /\ b[j] \in Job /\ b[j].stage \in ShellStages
    BY <1>1 DEF Table, Sessions
  <2>2. rec \in Job /\ rec.sh # "none" /\ rec.stage = b[j].stage /\ rec.kind = b[j].kind
        /\ rec.active = b[j].active /\ rec.stale = b[j].stale /\ rec.want = b[j].want
    BY <2>1 DEF Job
  <2>3. job' = [b EXCEPT ![j] = rec]  BY <1>1, <2>1
  <2>. HIDE DEF rec
  <2>5. rec.sh # "none" <=> rec.stage \in ShellStages  BY <2>1, <2>2
  <2>4. Table(job') /\ job'[j] = rec /\ \A k \in Jobs \ {j} : job'[k] = b[k]
    BY <1>1, <2>2, <2>3, <2>5 DEF Table, Sessions
  <2>. QED  BY <1>1, <2>2, <2>4 DEF SameButSessions
<1>2. SameButSessions(job, job)  BY DEF SameButSessions
<1>3. ASSUME NEW j \in Jobs, Acquire(j) PROVE Table(job') /\ SameButSessions(job', job)
  <2>1. PICK b : (b = job \/ b = Cut(job)) /\ job' = [b EXCEPT ![j].sh = "dialling"]
    BY <1>3 DEF Acquire
  <2>2. Table(b) /\ SameButSessions(b, job)  BY <1>2, <2>1, CutTable
  <2>3. b[j].sh # "none"
    BY <1>3, <2>2 DEF Acquire, Table, Sessions, SameButSessions
  <2>. QED  BY <1>1, <2>1, <2>2, <2>3
<1>4. ASSUME NEW j \in Jobs, LockTimeout(j) \/ DialTimeout(j)
      PROVE  Table(job') /\ SameButSessions(job', job)
  <2>1. job' = [job EXCEPT ![j].sh = "failed"] /\ job[j].sh # "none"
    BY <1>4 DEF LockTimeout, DialTimeout
  <2>. QED  BY <1>1, <1>2, <2>1
<1>5. CASE ShellArrives
  <2>1. \/ UNCHANGED job
        \/ /\ pending \in Jobs /\ job[pending].sh = "dialling"
           /\ job' = [job EXCEPT ![pending].sh = "open"]
    BY <1>5 DEF ShellArrives, RestOK
  <2>. QED  BY <1>1, <1>2, <2>1
<1>6. CASE TerminalAsked \/ TerminalOpens \/ TerminalCloses
  <2>1. job' = job \/ job' = Cut(job)  BY <1>6 DEF TerminalAsked, TerminalOpens, TerminalCloses
  <2>. QED  BY <1>2, <2>1, CutTable
<1>. QED  BY <1>3, <1>4, <1>5, <1>6

\* A job that waits for no session goes from one such stage to another.
LEMMA TaskMoves ==
    ASSUME TypeOK, NEW j \in Jobs,
           \/ \E v \in Releases : PostUpdate(j, v) \/ DeployAll(j, v)
           \/ PostRollback(j) \/ Begin(j) \/ FetchFails(j) \/ Confirm(j) \/ WatchTimeout(j)
    PROVE  /\ Table(job')
           /\ \A k \in Jobs \ {j} : job'[k] = job[k]
           /\ job[j].stage \notin ShellStages /\ job'[j].stage \notin ShellStages
<1>. USE TypeSplit
<1>1. job \in [Jobs -> Job] /\ job[j] \in Job  BY DEF Table
<1>2. ASSUME NEW k \in Kinds, NEW v \in Versions \cup {None}, Begins(j, k, v), job[j].stage = "none"
      PROVE  /\ Table(job') /\ \A i \in Jobs \ {j} : job'[i] = job[i]
             /\ job'[j].stage = "begin"
  <2>. DEFINE rec == [job[j] EXCEPT !.kind = k, !.want = v, !.stage = "begin"]
  <2>1. job[j].sh = "none"  BY <1>2 DEF Table, Sessions, ShellStages
  <2>2. rec \in Job /\ rec.sh = "none" /\ rec.stage = "begin"
    BY <1>1, <2>1 DEF Job, Stages, ShellStages
  <2>3. job' = [job EXCEPT ![j] = rec]  BY <1>1, <1>2 DEF Begins
  <2>4. rec.stage \notin ShellStages  BY <2>2 DEF ShellStages
  <2>. HIDE DEF rec
  <2>. QED  BY <2>2, <2>3, <2>4 DEF Table, Sessions
<1>3. ASSUME NEW s \in {"fetch", "end"}, job[j].stage \notin ShellStages,
             job' = [job EXCEPT ![j].stage = s] \/ job' = [job EXCEPT ![j].stage = s, ![j].sh = "none"]
      PROVE  /\ Table(job') /\ \A i \in Jobs \ {j} : job'[i] = job[i]
             /\ job'[j].stage = s
  <2>. DEFINE rec == [job[j] EXCEPT !.stage = s, !.sh = "none"]
  <2>1. job[j].sh = "none"  BY <1>3 DEF Table, Sessions
  <2>2. rec \in Job /\ rec.sh = "none" /\ rec.stage = s
    BY <1>1 DEF Job, Stages, ShellStages
  <2>3. job' = [job EXCEPT ![j] = rec]
    <3>1. [job[j] EXCEPT !.stage = s] = rec  BY <1>1, <2>1 DEF Job
    <3>. QED  BY <1>1, <1>3, <3>1
  <2>4. rec.stage \notin ShellStages  BY <2>2 DEF ShellStages
  <2>. HIDE DEF rec
  <2>. QED  BY <2>2, <2>3, <2>4 DEF Table, Sessions
<1>4. CASE (\E v \in Releases : PostUpdate(j, v) \/ DeployAll(j, v)) \/ PostRollback(j)
  <2>1. \E k \in Kinds, v \in Versions \cup {None} : Begins(j, k, v) /\ job[j].stage = "none"
    BY <1>4 DEF PostUpdate, DeployAll, PostRollback, RestOK
  <2>. QED  BY <1>2, <2>1 DEF ShellStages
<1>5. CASE Begin(j) \/ FetchFails(j) \/ Confirm(j) \/ WatchTimeout(j)
  <2>1. \E s \in {"fetch", "end"} : /\ job[j].stage \in {"begin", "fetch", "watch"}
                                    /\ \/ job' = [job EXCEPT ![j].stage = s]
                                       \/ job' = [job EXCEPT ![j].stage = s, ![j].sh = "none"]
    BY <1>5 DEF Begin, FetchFails, Confirm, WatchTimeout, Ends
  <2>. QED  BY <1>3, <2>1 DEF ShellStages
<1>. QED  BY <1>4, <1>5

\* The local variables of one job.
LEMMA LocalTable ==
    ASSUME NEW jb, Table(jb), NEW j \in Jobs, NEW rec \in Job,
           rec.stage = jb[j].stage, rec.sh = jb[j].sh
    PROVE  Table([jb EXCEPT ![j] = rec])
BY DEF Table, Sessions

LEMMA ActiveTable ==
    ASSUME Table(job), NEW j \in Jobs, NEW a \in Layouts
    PROVE  LET jb == [job EXCEPT ![j].active = a]
           IN  /\ Table(jb) /\ jb[j].active = a
               /\ jb[j].kind = job[j].kind /\ jb[j].stage = job[j].stage
               /\ jb[j].stale = job[j].stale /\ \A k \in Jobs \ {j} : jb[k] = job[k]
<1>. DEFINE rec == [job[j] EXCEPT !.active = a]
<1>1. job \in [Jobs -> Job] /\ job[j] \in Job  BY DEF Table
<1>2. rec \in Job /\ rec.active = a /\ rec.kind = job[j].kind /\ rec.stage = job[j].stage
      /\ rec.stale = job[j].stale /\ rec.sh = job[j].sh
  BY <1>1 DEF Job
<1>3. [job EXCEPT ![j].active = a] = [job EXCEPT ![j] = rec]  BY <1>1
<1>. HIDE DEF rec
<1>4. Table([job EXCEPT ![j] = rec])  BY <1>2, LocalTable
<1>. QED  BY <1>1, <1>2, <1>3, <1>4

LEMMA PrevTable ==
    ASSUME Table(job), NEW j \in Jobs, NEW v \in Versions \cup {None}
    PROVE  LET jb == [job EXCEPT ![j].prev = v]
           IN  /\ Table(jb) /\ jb[j].active = job[j].active
               /\ jb[j].kind = job[j].kind /\ jb[j].stage = job[j].stage
               /\ jb[j].stale = job[j].stale /\ \A k \in Jobs \ {j} : jb[k] = job[k]
<1>. DEFINE rec == [job[j] EXCEPT !.prev = v]
<1>1. job \in [Jobs -> Job] /\ job[j] \in Job  BY DEF Table
<1>2. rec \in Job /\ rec.active = job[j].active /\ rec.kind = job[j].kind
      /\ rec.stage = job[j].stage /\ rec.stale = job[j].stale /\ rec.sh = job[j].sh
  BY <1>1 DEF Job
<1>3. [job EXCEPT ![j].prev = v] = [job EXCEPT ![j] = rec]  BY <1>1
<1>. HIDE DEF rec
<1>4. Table([job EXCEPT ![j] = rec])  BY <1>2, LocalTable
<1>. QED  BY <1>1, <1>2, <1>3, <1>4

LEMMA KindTable ==
    ASSUME Table(job), NEW j \in Jobs, NEW k \in Kinds \cup {"collect"}
    PROVE  LET jb == [job EXCEPT ![j].kind = k]
           IN  /\ Table(jb) /\ jb[j].active = job[j].active
               /\ jb[j].kind = k /\ jb[j].stage = job[j].stage
               /\ jb[j].stale = job[j].stale /\ \A i \in Jobs \ {j} : jb[i] = job[i]
<1>. DEFINE rec == [job[j] EXCEPT !.kind = k]
<1>1. job \in [Jobs -> Job] /\ job[j] \in Job  BY DEF Table
<1>2. rec \in Job /\ rec.active = job[j].active /\ rec.kind = k
      /\ rec.stage = job[j].stage /\ rec.stale = job[j].stale /\ rec.sh = job[j].sh
  BY <1>1 DEF Job
<1>3. [job EXCEPT ![j].kind = k] = [job EXCEPT ![j] = rec]  BY <1>1
<1>. HIDE DEF rec
<1>4. Table([job EXCEPT ![j] = rec])  BY <1>2, LocalTable
<1>. QED  BY <1>1, <1>2, <1>3, <1>4

\* Job j is at stage s, with these locals, and no other job has moved.
At(j, s, active, stale) ==
    /\ Table(job')
    /\ job'[j].stage = s /\ job'[j].kind = job[j].kind
    /\ job'[j].active = active /\ (stale => job'[j].stale)
    /\ \A k \in Jobs \ {j} :
          /\ job'[k].stage = job[k].stage /\ job'[k].kind = job[k].kind
          /\ job'[k].active = job[k].active /\ (job[k].stale => job'[k].stale)

PlaneFree == ~lock' /\ pending' = None /\ shellWs' = None

\* The end of a session: its job enters the next stage and the plane is freed.
LEMMA LeaveTable ==
    ASSUME TypeOK, NEW j \in Jobs, NEW jb, Table(jb), jb[j].kind = job[j].kind,
           \A k \in Jobs \ {j} : jb[k] = job[k],
           NEW s \in Stages, NEW reaches, Release(Enter(jb, j, s), reaches)
    PROVE  At(j, s, jb[j].active, jb[j].stale) /\ PlaneFree
<1>. DEFINE eb == Enter(jb, j, s)
<1>1. /\ Table(eb) /\ \A k \in Jobs \ {j} : eb[k] = job[k]
      /\ eb[j].stage = s /\ eb[j].kind = job[j].kind /\ eb[j].active = jb[j].active
      /\ eb[j].stale = jb[j].stale
  BY EnterTable
<1>2. shellWs \in Jobs \cup {None}  BY TypeSplit DEF RestOK
<1>3. Release(eb, reaches)  OBVIOUS
<1>. HIDE DEF eb
<1>4. /\ Table(job') /\ SameButSessions(job', eb)
      /\ shellWs' = None /\ pending' = None /\ lock' = FALSE
  BY <1>1, <1>2, <1>3, ReleaseTable
<1>. QED  BY <1>1, <1>4 DEF At, PlaneFree, SameButSessions

\* What each use of a session does to the job table.
LEMMA StageMoves ==
    ASSUME TypeOK, NEW j \in Jobs
    PROVE  /\ Detect(j) => At(j, After(job[j].kind, "detect"), link', FALSE) /\ PlaneFree
           /\ \A s \in {"script", "debloat", "space", "collect"} :
                 Side(j, s) => At(j, After(job[j].kind, s), job[j].active, job[j].stale) /\ PlaneFree
           /\ Transfer(j) => At(j, "flip", job[j].active, job[j].stale) /\ PlaneFree
           /\ Refused(j) => At(j, "end", job[j].active, job[j].stale) /\ PlaneFree
           /\ Broken(j) =>
                 /\ PlaneFree
                 /\ At(j, IF job[j].stage \in Aborting \cup {"creds"} THEN "end"
                          ELSE After(job[j].kind, job[j].stage), job[j].active, job[j].stale)
<1>. USE TypeSplit
<1>0. Table(job) /\ link \in Layouts /\ row \in Versions \cup {None} /\ job[j].stage \in Stages
      /\ job[j].prev \in Versions \cup {None}
  BY DEF RestOK, Table, Job
<1>s. \A k : \A s \in Stages : After(k, s) \in Stages  BY AfterStage
<1>1. ASSUME Detect(j) PROVE At(j, After(job[j].kind, "detect"), link', FALSE) /\ PlaneFree
  <2>. DEFINE jb == [job EXCEPT ![j].active = link']
  <2>1. link' \in Layouts /\ After(job[j].kind, "detect") \in Stages
    BY <1>0, <1>1, <1>s DEF Detect, Layouts, Slots, Stages, ShellStages
  <2>2. /\ Table(jb) /\ jb[j].active = link' /\ jb[j].kind = job[j].kind
        /\ \A k \in Jobs \ {j} : jb[k] = job[k]
    BY <1>0, <2>1, ActiveTable
  <2>3. Release(Enter(jb, j, After(job[j].kind, "detect")), TRUE)  BY <1>1 DEF Detect
  <2>. HIDE DEF jb
  <2>4. At(j, After(job[j].kind, "detect"), jb[j].active, jb[j].stale) /\ PlaneFree
    BY <2>1, <2>2, <2>3, LeaveTable
  <2>. QED  BY <2>2, <2>4 DEF At
<1>2. ASSUME NEW s \in {"script", "debloat", "space", "collect"}, Side(j, s)
      PROVE  At(j, After(job[j].kind, s), job[j].active, job[j].stale) /\ PlaneFree
  <2>1. Release(Enter(job, j, After(job[j].kind, s)), TRUE)  BY <1>2 DEF Side
  <2>2. After(job[j].kind, s) \in Stages  BY <1>s DEF Stages, ShellStages
  <2>. QED  BY <1>0, <2>1, <2>2, LeaveTable
<1>3. ASSUME Transfer(j) PROVE At(j, "flip", job[j].active, job[j].stale) /\ PlaneFree
  <2>1. Release(Enter(job, j, "flip"), TRUE)  BY <1>3 DEF Transfer
  <2>2. "flip" \in Stages  BY DEF Stages, ShellStages
  <2>. QED  BY <1>0, <2>1, <2>2, LeaveTable
<1>4. ASSUME Refused(j) PROVE At(j, "end", job[j].active, job[j].stale) /\ PlaneFree
  <2>1. Release(Enter(job, j, "end"), TRUE)  BY <1>4 DEF Refused
  <2>2. "end" \in Stages  BY DEF Stages
  <2>. QED  BY <1>0, <2>1, <2>2, LeaveTable
<1>5. ASSUME Broken(j)
      PROVE  /\ PlaneFree
             /\ At(j, IF job[j].stage \in Aborting \cup {"creds"} THEN "end"
                      ELSE After(job[j].kind, job[j].stage), job[j].active, job[j].stale)
  <2>. DEFINE v == IF job[j].kind = "rollback" THEN row ELSE job[j].prev
              jb == [job EXCEPT ![j].prev = v]
              n == IF job[j].stage \in Aborting \cup {"creds"} THEN "end"
                   ELSE After(job[j].kind, job[j].stage)
  <2>1. n \in Stages /\ v \in Versions \cup {None}
    BY <1>0, <1>s DEF Stages
  <2>2. Release(Enter(jb, j, n), Reaches(j))
    BY <1>5 DEF Broken, Aborting
  <2>. HIDE DEF v, n
  <2>3. /\ Table(jb) /\ jb[j].active = job[j].active /\ jb[j].kind = job[j].kind
        /\ jb[j].stale = job[j].stale /\ \A k \in Jobs \ {j} : jb[k] = job[k]
    BY <1>0, <2>1, PrevTable
  <2>. HIDE DEF jb
  <2>4. At(j, n, jb[j].active, jb[j].stale) /\ PlaneFree
    BY <2>1, <2>2, <2>3, LeaveTable
  <2>. QED  BY <2>3, <2>4 DEF n
<1>. QED  BY <1>1, <1>2, <1>3, <1>4, <1>5

\* The connection goes: nobody moves, and whoever needed a session is stale.
Unlinked == \A k \in Jobs : job'[k].stage \in ShellStages => job'[k].stale

\* What the loss of the connection does to the job table.
LEMMA LossMoves ==
    ASSUME TypeOK
    PROVE  /\ \A j \in Jobs :
                 /\ SecureLink(j) => At(j, "end", job[j].active, FALSE) /\ PlaneFree /\ Unlinked
                 /\ Flip(j) => At(j, "watch", job[j].active, FALSE) /\ PlaneFree /\ Unlinked
           /\ Drop => \A j \in Jobs : At(j, job[j].stage, job[j].active, FALSE) /\ Unlinked
<1>. USE TypeSplit
<1>0. Table(job) /\ shellWs \in Jobs \cup {None} /\ row \in Versions \cup {None}
  BY DEF RestOK
<1>s. {"end", "watch"} \subseteq Stages  BY DEF Stages
<1>1. ASSUME NEW b, Table(b), NEW reaches, Release(Detached(b), reaches)
      PROVE  /\ Table(job') /\ PlaneFree /\ Unlinked
             /\ \A k \in Jobs : /\ job'[k].kind = b[k].kind /\ job'[k].stage = b[k].stage
                                /\ job'[k].active = b[k].active
                                /\ b[k].stale => job'[k].stale
  <2>. DEFINE db == Detached(b)
  <2>1. /\ Table(db)
        /\ \A k \in Jobs : /\ db[k].kind = b[k].kind /\ db[k].stage = b[k].stage
                           /\ db[k].active = b[k].active
                           /\ db[k].stage \in ShellStages => db[k].stale
    BY <1>1, DetachTable
  <2>2. \A k \in Jobs : b[k].stale => db[k].stale
    BY <1>1, Zenon DEF Detached, Table, Job
  <2>3. Release(db, reaches)  BY <1>1
  <2>. HIDE DEF db
  <2>4. /\ Table(job') /\ SameButSessions(job', db)
        /\ shellWs' = None /\ pending' = None /\ lock' = FALSE
    BY <1>0, <2>1, <2>3, ReleaseTable
  <2>. QED  BY <2>1, <2>2, <2>4 DEF PlaneFree, Unlinked, SameButSessions
<1>2. ASSUME NEW j \in Jobs, SecureLink(j)
      PROVE  At(j, "end", job[j].active, FALSE) /\ PlaneFree /\ Unlinked
  <2>. DEFINE b == Enter(job, j, "end")
  <2>1. /\ Table(b) /\ \A k \in Jobs \ {j} : b[k] = job[k]
        /\ b[j].stage = "end" /\ b[j].kind = job[j].kind /\ b[j].active = job[j].active
    BY <1>0, <1>s, EnterTable
  <2>2. Release(Detached(b), TRUE)  BY <1>2 DEF SecureLink
  <2>. HIDE DEF b
  <2>3. /\ Table(job') /\ PlaneFree /\ Unlinked
        /\ \A k \in Jobs : /\ job'[k].kind = b[k].kind /\ job'[k].stage = b[k].stage
                           /\ job'[k].active = b[k].active
                           /\ b[k].stale => job'[k].stale
    BY <1>1, <2>1, <2>2
  <2>. QED  BY <2>1, <2>3 DEF At
<1>3. ASSUME NEW j \in Jobs, Flip(j)
      PROVE  At(j, "watch", job[j].active, FALSE) /\ PlaneFree /\ Unlinked
  <2>. DEFINE v == IF job[j].kind = "rollback" THEN row ELSE job[j].prev
              pb == [job EXCEPT ![j].prev = v]
              eb == Enter(pb, j, "watch")
              b == Cut(eb)
  <2>1. v \in Versions \cup {None}  BY <1>0 DEF Table, Job
  <2>2. Release(Detached(b), FALSE)  BY <1>3 DEF Flip, Gone
  <2>. HIDE DEF v
  <2>3. /\ Table(pb) /\ pb[j].active = job[j].active /\ pb[j].kind = job[j].kind
        /\ \A k \in Jobs \ {j} : pb[k] = job[k]
    BY <1>0, <2>1, PrevTable
  <2>. HIDE DEF pb
  <2>4. /\ Table(eb) /\ \A k \in Jobs \ {j} : eb[k] = job[k]
        /\ eb[j].stage = "watch" /\ eb[j].kind = job[j].kind /\ eb[j].active = job[j].active
    BY <1>s, <2>3, EnterTable
  <2>. HIDE DEF eb
  <2>5. Table(b) /\ SameButSessions(b, eb)  BY <2>4, CutTable
  <2>. HIDE DEF b
  <2>6. /\ Table(job') /\ PlaneFree /\ Unlinked
        /\ \A k \in Jobs : /\ job'[k].kind = b[k].kind /\ job'[k].stage = b[k].stage
                           /\ job'[k].active = b[k].active
                           /\ b[k].stale => job'[k].stale
    BY <1>1, <2>2, <2>5
  <2>. QED  BY <2>4, <2>5, <2>6 DEF At, SameButSessions
<1>4. ASSUME Drop, NEW j \in Jobs PROVE At(j, job[j].stage, job[j].active, FALSE) /\ Unlinked
  <2>. DEFINE b == Cut(job)
  <2>1. Table(b) /\ SameButSessions(b, job)  BY <1>0, CutTable
  <2>2. job' = Detached(b)  BY <1>4 DEF Drop, Gone
  <2>. HIDE DEF b
  <2>3. /\ Table(job')
        /\ \A k \in Jobs : /\ job'[k].kind = b[k].kind /\ job'[k].stage = b[k].stage
                           /\ job'[k].active = b[k].active
                           /\ job'[k].stage \in ShellStages => job'[k].stale
    BY <2>1, <2>2, DetachTable
  <2>4. ASSUME NEW k \in Jobs, b[k].stale PROVE job'[k].stale
    <3>1. job'[k] = [b[k] EXCEPT !.stale = b[k].stale \/ b[k].stage \in ShellStages]
      BY <2>2 DEF Detached
    <3>2. b[k] \in Job
      BY <2>1 DEF Table
    <3>3. job'[k].stale = (b[k].stale \/ b[k].stage \in ShellStages)
      BY <3>1, <3>2 DEF Job
    <3>. QED  BY <2>4, <3>3
  <2>. QED  BY <2>1, <2>3, <2>4 DEF At, Unlinked, SameButSessions
<1>. QED  BY <1>2, <1>3, <1>4

\* Job j, of kind k now, has asked for a session at stage s; no other job has moved.
Asks(j, k, s) ==
    /\ Table(job') /\ job'[j].kind = k /\ job'[j].stage = s
    /\ \A i \in Jobs \ {j} : job'[i] = job[i]

\* A job asks for its first session.
LEMMA StartMoves ==
    ASSUME TypeOK
    PROVE  /\ \A j \in Jobs :
                 /\ Fetched(j) => Asks(j, job[j].kind, "detect")
                 /\ \A k \in Kinds : PostOther(j, k) => \E s \in {"debloat", "creds"} : Asks(j, k, s)
           /\ Register => job' = job \/ \E j \in Jobs : job[j].stage = "none" /\ Asks(j, "collect", "collect")
<1>. USE TypeSplit
<1>0. Table(job) /\ row \in Versions \cup {None}
  BY DEF RestOK
<1>s. {"detect", "debloat", "creds", "collect"} \subseteq Stages  BY DEF Stages, ShellStages
<1>1. ASSUME NEW j \in Jobs, Fetched(j) PROVE Asks(j, job[j].kind, "detect")
  <2>. DEFINE b == [job EXCEPT ![j].prev = row]
  <2>1. /\ Table(b) /\ b[j].kind = job[j].kind /\ \A k \in Jobs \ {j} : b[k] = job[k]
    BY <1>0, PrevTable
  <2>2. job' = Enter(b, j, "detect")  BY <1>1 DEF Fetched
  <2>. HIDE DEF b
  <2>. DEFINE e == Enter(b, j, "detect")
  <2>3. /\ Table(e) /\ \A k \in Jobs \ {j} : e[k] = b[k]
        /\ e[j].stage = "detect" /\ e[j].kind = b[j].kind
    BY <1>s, <2>1, EnterTable
  <2>. HIDE DEF e
  <2>4. job' = e  BY <2>2 DEF e
  <2>. QED  BY <2>1, <2>3, <2>4 DEF Asks
<1>2. ASSUME NEW j \in Jobs, NEW k \in Kinds \cup {"collect"}, NEW s \in {"debloat", "creds", "collect"},
             job' = Enter([job EXCEPT ![j].kind = k], j, s)
      PROVE  Asks(j, k, s)
  <2>. DEFINE b == [job EXCEPT ![j].kind = k]
  <2>1. /\ Table(b) /\ b[j].kind = k /\ \A i \in Jobs \ {j} : b[i] = job[i]
    BY <1>0, KindTable
  <2>2. job' = Enter(b, j, s)  BY <1>2
  <2>. HIDE DEF b
  <2>. DEFINE e == Enter(b, j, s)
  <2>0. s \in Stages  BY <1>s
  <2>3. /\ Table(e) /\ \A i \in Jobs \ {j} : e[i] = b[i]
        /\ e[j].stage = s /\ e[j].kind = b[j].kind
    BY <2>0, <2>1, EnterTable
  <2>. HIDE DEF e
  <2>4. job' = e  BY <2>2 DEF e
  <2>. QED  BY <2>1, <2>3, <2>4 DEF Asks
<1>3. ASSUME NEW j \in Jobs, NEW k \in Kinds, PostOther(j, k)
      PROVE  \E s \in {"debloat", "creds"} : Asks(j, k, s)
  <2>1. PICK s \in {"debloat", "creds"} : job' = Enter([job EXCEPT ![j].kind = k], j, s)
    BY <1>3 DEF PostOther
  <2>. QED  BY <1>2, <2>1
<1>4. ASSUME Register
      PROVE  job' = job \/ \E j \in Jobs : job[j].stage = "none" /\ Asks(j, "collect", "collect")
  <2>1. CASE UNCHANGED job  BY <2>1
  <2>2. CASE \E j \in Jobs : job[j].stage = "none" /\ job' = Enter([job EXCEPT ![j].kind = "collect"], j, "collect")
    BY <1>2, <2>2
  <2>. QED  BY <1>4, <2>1, <2>2 DEF Register
<1>. QED  BY <1>1, <1>3, <1>4

\* Every step leaves a job table.
LEMMA TableStep ==
    ASSUME TypeOK, Next
    PROVE  Table(job')
<1>. USE TypeSplit
<1>0. Table(job)  OBVIOUS
<1>1. CASE \E j \in Jobs : Acquire(j) \/ LockTimeout(j) \/ DialTimeout(j)
  BY <1>1, SessionMoves
<1>2. CASE ShellArrives \/ TerminalAsked \/ TerminalOpens \/ TerminalCloses
  BY <1>2, SessionMoves
<1>3. ASSUME NEW j \in Jobs,
             \/ \E v \in Releases : PostUpdate(j, v) \/ DeployAll(j, v)
             \/ PostRollback(j) \/ Begin(j) \/ FetchFails(j) \/ Confirm(j) \/ WatchTimeout(j)
      PROVE  Table(job')
  BY <1>3, TaskMoves
<1>4. ASSUME NEW j \in Jobs, Detect(j) \/ Transfer(j) \/ Refused(j) \/ Broken(j) PROVE Table(job')
  BY <1>4, StageMoves DEF At
<1>5. ASSUME NEW j \in Jobs, SyncStartScript(j) \/ SyncDebloat(j) \/ FreeSpace(j) \/ CollectSupervisorLog(j)
      PROVE  Table(job')
  BY <1>5, StageMoves DEF At, SyncStartScript, SyncDebloat, FreeSpace, CollectSupervisorLog
<1>6. ASSUME NEW j \in Jobs, SecureLink(j) \/ Flip(j) PROVE Table(job')
  BY <1>6, LossMoves DEF At
<1>7. CASE Drop
  <2>1. job' = Gone(job)  BY <1>7 DEF Drop
  <2>. QED  BY <1>0, <2>1, CutTable, DetachTable DEF Gone
<1>8. ASSUME NEW j \in Jobs, Fetched(j) \/ \E k \in Kinds : PostOther(j, k) PROVE Table(job')
  BY <1>8, StartMoves DEF Asks
<1>9. CASE Register
  BY <1>0, <1>9, StartMoves DEF Asks
<1>10. CASE (\E j \in Jobs : Promote(j)) \/ StartServer \/ AutoRollback
  BY <1>0, <1>10 DEF Promote, StartServer, AutoRollback
<1>. QED
  BY <1>1, <1>2, <1>3, <1>4, <1>5, <1>6, <1>7, <1>8, <1>9, <1>10
  DEF Next, JobStep, SessionStep, StageStep, SideStep, TaskStep, DeviceStep

\* Every step leaves the flags flags.
LEMMA FlagStep ==
    ASSUME FlagsOK, Next
    PROVE  FlagsOK'
<1>0. /\ inProgress \in BOOLEAN /\ wanted \in BOOLEAN /\ lock \in BOOLEAN
      /\ dial \in BOOLEAN /\ connected \in BOOLEAN
  BY DEF FlagsOK
<1>1. inProgress' \in BOOLEAN /\ wanted' \in BOOLEAN
  <2>1. ASSUME NEW j \in Jobs,
               \/ \E v \in Releases : PostUpdate(j, v) \/ DeployAll(j, v)
               \/ PostRollback(j) \/ \E k \in Kinds : PostOther(j, k)
        PROVE  inProgress' \in BOOLEAN /\ wanted' \in BOOLEAN
    BY <1>0, <2>1, Zenon DEF PostUpdate, DeployAll, PostRollback, PostOther, controller
  <2>2. ASSUME NEW j \in Jobs, TaskStep(j) PROVE inProgress' \in BOOLEAN /\ wanted' \in BOOLEAN
    BY <1>0, <2>2, Zenon DEF TaskStep, Begin, FetchFails, Fetched, Confirm, WatchTimeout, Ends
  <2>3. ASSUME NEW j \in Jobs, SessionStep(j) PROVE inProgress' \in BOOLEAN /\ wanted' \in BOOLEAN
    BY <1>0, <2>3, Zenon DEF SessionStep, Acquire, LockTimeout, DialTimeout, Broken, controller
  <2>4. ASSUME NEW j \in Jobs, StageStep(j) PROVE inProgress' \in BOOLEAN /\ wanted' \in BOOLEAN
    BY <1>0, <2>4, Zenon DEF StageStep, SideStep, Detect, SyncStartScript, SyncDebloat, FreeSpace,
                        CollectSupervisorLog, Side, SecureLink, Promote, Transfer, Flip, Refused, controller
  <2>5. CASE DeviceStep \/ TerminalAsked \/ TerminalOpens \/ TerminalCloses \/ Drop
    BY <1>0, <2>5, Zenon DEF DeviceStep, ShellArrives, StartServer, AutoRollback, Register,
                        TerminalAsked, TerminalOpens, TerminalCloses, Drop, controller
  <2>. QED  BY <2>1, <2>2, <2>3, <2>4, <2>5, Zenon DEF Next, JobStep
<1>2. lock' \in BOOLEAN /\ dial' \in BOOLEAN
  <2>1. ASSUME NEW j \in Jobs,
               \/ \E v \in Releases : PostUpdate(j, v) \/ DeployAll(j, v)
               \/ PostRollback(j) \/ (\E k \in Kinds : PostOther(j, k)) \/ TaskStep(j)
        PROVE  lock' \in BOOLEAN /\ dial' \in BOOLEAN
    BY <1>0, <2>1, Zenon DEF PostUpdate, DeployAll, PostRollback, PostOther, plane,
                        TaskStep, Begin, FetchFails, Fetched, Confirm, WatchTimeout
  <2>2. ASSUME NEW jb, NEW reaches, Release(jb, reaches) PROVE lock' \in BOOLEAN /\ dial' \in BOOLEAN
    BY <1>0, <2>2, Zenon DEF Release
  <2>3. ASSUME NEW j \in Jobs, SessionStep(j) PROVE lock' \in BOOLEAN /\ dial' \in BOOLEAN
    <3>1. CASE Broken(j)  BY <2>2, <3>1, Zenon DEF Broken
    <3>. QED  BY <1>0, <2>3, <3>1, Zenon DEF SessionStep, Acquire, LockTimeout, DialTimeout, plane
  <2>4. ASSUME NEW j \in Jobs, StageStep(j) PROVE lock' \in BOOLEAN /\ dial' \in BOOLEAN
    BY <1>0, <2>2, <2>4, Zenon DEF StageStep, SideStep, Detect, SyncStartScript, SyncDebloat, FreeSpace,
                        CollectSupervisorLog, Side, SecureLink, Promote, Transfer, Flip, Refused, plane
  <2>5. CASE DeviceStep \/ TerminalAsked \/ TerminalOpens \/ TerminalCloses \/ Drop
    BY <1>0, <2>5, Zenon DEF DeviceStep, ShellArrives, StartServer, AutoRollback, Register,
                        TerminalAsked, TerminalOpens, TerminalCloses, Drop, plane
  <2>. QED  BY <2>1, <2>3, <2>4, <2>5, Zenon DEF Next, JobStep
<1>3. connected' \in BOOLEAN
  <2>1. ASSUME NEW j \in Jobs,
               \/ \E v \in Releases : PostUpdate(j, v) \/ DeployAll(j, v)
               \/ PostRollback(j) \/ (\E k \in Kinds : PostOther(j, k)) \/ TaskStep(j)
        PROVE  connected' \in BOOLEAN
    BY <1>0, <2>1, Zenon DEF PostUpdate, DeployAll, PostRollback, PostOther, device,
                        TaskStep, Begin, FetchFails, Fetched, Confirm, WatchTimeout
  <2>3. ASSUME NEW j \in Jobs, SessionStep(j) \/ StageStep(j) PROVE connected' \in BOOLEAN
    BY <1>0, <2>3, Zenon DEF SessionStep, Acquire, LockTimeout, DialTimeout, Broken,
                        StageStep, SideStep, Detect, SyncStartScript, SyncDebloat, FreeSpace,
                        CollectSupervisorLog, Side, SecureLink, Promote, Transfer, Flip, Refused, device
  <2>5. CASE DeviceStep \/ TerminalAsked \/ TerminalOpens \/ TerminalCloses \/ Drop
    BY <1>0, <2>5, Zenon DEF DeviceStep, ShellArrives, StartServer, AutoRollback, Register,
                        TerminalAsked, TerminalOpens, TerminalCloses, Drop, device
  <2>. QED  BY <2>1, <2>3, <2>5, Zenon DEF Next, JobStep
<1>. QED  BY <1>1, <1>2, <1>3 DEF FlagsOK

\* Every step leaves the rest of the state typed.
LEMMA RestStep ==
    ASSUME TypeOK, Next
    PROVE  RestOK'
<1>. USE TypeSplit
<1>0. RestOK /\ Table(job) /\ Releases \subseteq Versions
  OBVIOUS
<1>1. ASSUME NEW jb, NEW reaches, Release(jb, reaches)
      PROVE  shellWs' = None /\ pending' = None /\ UNCHANGED terminal
  BY <1>1 DEF Release
<1>2. ASSUME NEW j \in Jobs,
             \/ \E v \in Releases : PostUpdate(j, v) \/ DeployAll(j, v)
             \/ PostRollback(j) \/ \E k \in Kinds : PostOther(j, k)
      PROVE  RestOK'
  BY <1>0, <1>2 DEF RestOK, PostUpdate, DeployAll, PostRollback, PostOther, controller, plane, device
<1>3. ASSUME NEW j \in Jobs, TaskStep(j) PROVE RestOK'
  BY <1>0, <1>3 DEF RestOK, TaskStep, Begin, FetchFails, Fetched, Confirm, WatchTimeout, Ends,
                   Errors, plane, device
<1>4. ASSUME NEW j \in Jobs, Acquire(j) \/ LockTimeout(j) \/ DialTimeout(j) PROVE RestOK'
  BY <1>0, <1>4 DEF RestOK, Acquire, LockTimeout, DialTimeout, controller, plane, device
<1>5. ASSUME NEW j \in Jobs, Broken(j) \/ Refused(j) PROVE RestOK'
  <2>1. /\ shellWs' = None /\ pending' = None /\ UNCHANGED terminal
        /\ updateError' \in {updateError, "transfer", "aborted"}
        /\ UNCHANGED <<previous, row, device>>
    BY <1>1, <1>5 DEF Broken, Refused
  <2>. QED  BY <1>0, <2>1 DEF RestOK, Errors, device
<1>6. ASSUME NEW j \in Jobs, SideStep(j) \/ Transfer(j) PROVE RestOK'
  <2>1. /\ shellWs' = None /\ pending' = None /\ UNCHANGED terminal
        /\ UNCHANGED <<controller, bin, link, server, drops>>
    BY <1>1, <1>6 DEF SideStep, SyncStartScript, SyncDebloat, FreeSpace, CollectSupervisorLog, Side,
                     SecureLink, Transfer, device
  <2>. QED  BY <1>0, <2>1 DEF RestOK, controller
<1>7. ASSUME NEW j \in Jobs, Flip(j) PROVE RestOK'
  <2>1. /\ shellWs' = None /\ pending' = None /\ UNCHANGED terminal
        /\ UNCHANGED <<controller, bin, drops>>
        /\ link' = Inactive(job[j].active) /\ server' = None
    BY <1>1, <1>7 DEF Flip
  <2>. QED  BY <1>0, <2>1 DEF RestOK, controller, Inactive, Layouts, Slots
<1>8. ASSUME NEW j \in Jobs, Detect(j) PROVE RestOK'
  <2>1. /\ shellWs' = None /\ pending' = None /\ UNCHANGED terminal
        /\ UNCHANGED <<controller, server, drops>>
        /\ bin' \in {bin, [bin EXCEPT !["server_a"] = bin["file"], !["file"] = None]}
        /\ link' \in {link, "server_a"}
    BY <1>1, <1>8 DEF Detect
  <2>. QED  BY <1>0, <2>1 DEF RestOK, controller, Layouts, Slots
<1>9. ASSUME NEW j \in Jobs, Promote(j) PROVE RestOK'
  BY <1>0, <1>9 DEF RestOK, Promote, Promoted, Table, Job, controller, plane, Inactive, Layouts, Slots
<1>10. CASE ShellArrives \/ TerminalAsked \/ TerminalOpens \/ TerminalCloses
  BY <1>0, <1>10 DEF RestOK, ShellArrives, TerminalAsked, TerminalOpens, TerminalCloses, controller, device
<1>11. CASE StartServer \/ AutoRollback \/ Register \/ Drop
  BY <1>0, <1>11 DEF RestOK, StartServer, AutoRollback, Register, Drop, Fallback, Inactive, Layouts, Slots,
                    controller, plane
<1>. QED
  BY <1>2, <1>3, <1>4, <1>5, <1>6, <1>7, <1>8, <1>9, <1>10, <1>11
  DEF Next, JobStep, SessionStep, StageStep, DeviceStep

LEMMA TypeInit == Init => TypeOK
<1>. SUFFICES ASSUME Init PROVE TypeOK
  OBVIOUS
<1>1. Idle \in Job /\ Idle.sh = "none" /\ Idle.stage \notin ShellStages
  BY DEF Idle, Job, Layouts, Stages, ShellStages
<1>2. Table(job)
  BY <1>1 DEF Init, Table, Sessions
<1>3. FlagsOK /\ Factory \in Versions /\ Older \in Versions
  BY DEF Init, FlagsOK
<1>4. RestOK
  BY <1>3 DEF Init, RestOK, Layouts, Slots
<1>. QED  BY <1>2, <1>3, <1>4, TypeSplit

\* Every job keeps to its stages and holds a session only in the stages that
\* need one, and the device and the plane stay well formed, through any run of
\* updates, rollbacks, terminals and losses (em_api.py:2749-2830).
THEOREM DeployTypes == Spec => []TypeOK
<1>1. ASSUME TypeOK, [Next]_vars PROVE TypeOK'
  <2>1. CASE Next
    BY <1>1, <2>1, TypeSplit, TableStep, FlagStep, RestStep
  <2>2. CASE UNCHANGED vars
    BY <1>1, <2>2 DEF TypeOK, vars, controller, plane, device
  <2>. QED  BY <1>1, <2>1, <2>2
<1>. QED  BY <1>1, TypeInit, PTL DEF Spec

-----------------------------------------------------------------------------
(***************************************************************************)
(* A binary that starts.  While the device runs, what its link names is    *)
(* good; a job that still reaches the device has seen the connection it    *)
(* works on, and in the stages that follow the detection it remembers the  *)
(* slot the device still runs.  So a new binary only ever lands in the     *)
(* other slot, and the link only ever moves away from a good one.          *)
(***************************************************************************)

Slotted == {"script", "debloat", "space", "transfer", "flip"}
Updating == {"begin", "fetch", "detect", "script", "space", "transfer", "flip"}

RunsGood == (server # None => bin[link] \in Good) /\ (connected => server # None)

\* What a job at stage s, of kind k, that found slot a and has a live object, relies on.
Relies(s, k, a, stale) ==
    /\ s \in Updating => k \in Updates
    /\ s \in ShellStages /\ ~stale => connected
    /\ s \in Slotted /\ k \in Updates /\ ~stale => a = link /\ link \in Slots

JobsRely == \A j \in Jobs : Relies(job[j].stage, job[j].kind, job[j].active, job[j].stale)

RunInv == Recoverable /\ RunsGood /\ JobsRely

\* Nothing that other jobs rely on changes with the connection and the link.
LEMMA OthersRely ==
    ASSUME JobsRely, NEW j \in Jobs, NEW s, NEW a, NEW stale, At(j, s, a, stale),
           UNCHANGED <<link, connected>>,
           Relies(s, job[j].kind, a, job'[j].stale)
    PROVE  JobsRely'
BY DEF JobsRely, Relies, At

\* A new firmware and a late answer about it leave what the device runs.
LEMMA PromoteKeeps ==
    ASSUME TypeOK, RunInv, NEW j \in Jobs, Promote(j)
    PROVE  RunInv'
<1>0. /\ Table(job) /\ bin \in [Layouts -> Versions \cup {None}] /\ link \in Layouts
      /\ job[j].want \in Versions \cup {None}
  BY TypeSplit DEF RestOK, Table, Job
<1>1. /\ connected /\ job[j].stage = "transfer" /\ ~job[j].stale
  BY DEF Promote, Working, Reaches
<1>2. job[j].active = link /\ link \in Slots /\ bin[link] \in Good
  BY <1>1 DEF RunInv, RunsGood, JobsRely, Relies, Slotted, Updating
<1>3. bin' = [bin EXCEPT ![Inactive(link)] = job[j].want] /\ link' = link /\ server' = server
      /\ connected' = connected /\ job' = job
  BY <1>2 DEF Promote, Promoted
<1>4. bin'[link] = bin[link]
  BY <1>0, <1>2, <1>3 DEF Inactive, Slots
<1>. QED
  BY <1>2, <1>3, <1>4 DEF RunInv, Recoverable, RunsGood, JobsRely, Relies

\* The migration moves the binary that runs, with the link.
LEMMA DetectKeeps ==
    ASSUME TypeOK, RunInv, NEW j \in Jobs, Detect(j)
    PROVE  RunInv'
<1>0. /\ Table(job) /\ bin \in [Layouts -> Versions \cup {None}] /\ link \in Layouts
  BY TypeSplit DEF RestOK
<1>1. /\ At(j, After(job[j].kind, "detect"), link', FALSE)
      /\ connected /\ UNCHANGED <<server, connected>> /\ job[j].stage = "detect"
  BY StageMoves DEF Detect, Working, Reaches
<1>2. job[j].kind \in Updates /\ bin[link] \in Good
  BY <1>1 DEF RunInv, RunsGood, JobsRely, Relies, Updating
<1>3. CASE ~Migrates(j)
  <2>1. bin' = bin /\ link' = link /\ link \in Slots
    BY <1>0, <1>3 DEF Detect, Layouts
  <2>2. After(job[j].kind, "detect") \in {"flip", "script"}
    BY DEF After
  <2>3. JobsRely'
    BY <1>1, <1>2, <2>1, <2>2 DEF RunInv, JobsRely, Relies, At
  <2>. QED  BY <1>1, <1>2, <2>1, <2>3 DEF RunInv, Recoverable, RunsGood
<1>4. CASE Migrates(j)
  <2>1. /\ link = "file" /\ link' = "server_a"
        /\ bin' = [bin EXCEPT !["server_a"] = bin["file"], !["file"] = None]
    BY <1>4 DEF Detect, Migrates
  <2>2. bin'[link'] = bin[link]
    BY <1>0, <2>1 DEF Layouts, Slots
  <2>3. After(job[j].kind, "detect") \in {"flip", "script"}
    BY DEF After
  <2>4. \A k \in Jobs : ~(job[k].stage \in Slotted /\ job[k].kind \in Updates /\ ~job[k].stale)
    BY <2>1 DEF RunInv, JobsRely, Relies, Slots
  <2>5. JobsRely'
    BY <1>1, <1>2, <2>1, <2>3, <2>4 DEF RunInv, JobsRely, Relies, At, Slots
  <2>. QED  BY <1>1, <1>2, <2>2, <2>5 DEF RunInv, Recoverable, RunsGood
<1>. QED  BY <1>3, <1>4

\* The flip leaves a good binary in the slot it comes from.
LEMMA FlipKeeps ==
    ASSUME TypeOK, RunInv, NEW j \in Jobs, Flip(j)
    PROVE  RunInv'
<1>0. /\ Table(job) /\ bin \in [Layouts -> Versions \cup {None}]
  BY TypeSplit DEF RestOK
<1>1. /\ connected /\ job[j].stage = "flip" /\ ~job[j].stale
  BY DEF Flip, Working, Reaches
<1>2. job[j].active = link /\ link \in Slots /\ bin[link] \in Good
  BY <1>1 DEF RunInv, RunsGood, JobsRely, Relies, Slotted, Updating
<1>3. bin' = bin /\ link' = Inactive(link) /\ server' = None /\ connected' = FALSE
  BY <1>2 DEF Flip
<1>4. Inactive(link') = link /\ link' \in Slots
  BY <1>2, <1>3 DEF Inactive, Slots
<1>5. Recoverable'
  BY <1>2, <1>3, <1>4 DEF Recoverable, Fallback
<1>6. At(j, "watch", job[j].active, FALSE) /\ Unlinked
  BY LossMoves
<1>7. JobsRely'
  <2>1. \A k \in Jobs : job'[k].stage \in Updating => job'[k].kind \in Updates
    BY <1>6 DEF RunInv, JobsRely, Relies, At, Updating
  <2>2. Slotted \subseteq ShellStages
    BY DEF Slotted, ShellStages
  <2>. QED  BY <1>6, <2>1, <2>2 DEF JobsRely, Relies, Unlinked
<1>. QED  BY <1>3, <1>5, <1>7 DEF RunInv, RunsGood

\* A session that ends, whatever its job did with it but promote, detect and flip.
LEMMA SessionEndKeeps ==
    ASSUME TypeOK, RunInv, NEW j \in Jobs,
           SideStep(j) \/ Transfer(j) \/ Refused(j) \/ Broken(j)
    PROVE  RunInv'
<1>0. Table(job) /\ Relies(job[j].stage, job[j].kind, job[j].active, job[j].stale)
  BY TypeSplit DEF RunInv, JobsRely
<1>1. CASE SecureLink(j)
  <2>1. connected' = FALSE /\ UNCHANGED <<bin, link, server>>
        /\ At(j, "end", job[j].active, FALSE) /\ Unlinked
    BY <1>1, LossMoves DEF SecureLink
  <2>2. \A k \in Jobs : job'[k].stage \in Updating => job'[k].kind \in Updates
    BY <2>1 DEF RunInv, JobsRely, Relies, At, Updating
  <2>3. Slotted \subseteq ShellStages
    BY DEF Slotted, ShellStages
  <2>4. JobsRely'
    BY <2>1, <2>2, <2>3 DEF JobsRely, Relies, Unlinked
  <2>. QED  BY <2>1, <2>4 DEF RunInv, Recoverable, RunsGood, Fallback
<1>2. ASSUME UNCHANGED <<bin, link, server, connected>>, NEW s,
             At(j, s, job[j].active, job[j].stale), Relies(s, job[j].kind, job[j].active, job[j].stale)
      PROVE  RunInv'
  <2>1. Relies(s, job[j].kind, job[j].active, job'[j].stale)
    BY <1>2 DEF Relies, At
  <2>2. JobsRely'
    BY <1>2, <2>1, OthersRely DEF RunInv
  <2>. QED  BY <1>2, <2>2 DEF RunInv, Recoverable, RunsGood, Fallback
<1>3. Relies("end", job[j].kind, job[j].active, job[j].stale)
  BY DEF Relies, Updating, ShellStages, Slotted
<1>4. ASSUME NEW s \in {"script", "debloat", "space", "collect"}, job[j].stage = s
      PROVE  Relies(After(job[j].kind, s), job[j].kind, job[j].active, job[j].stale)
  BY <1>0, <1>4 DEF Relies, After, Updating, ShellStages, Slotted, Updates
<1>5. ASSUME NEW s \in {"script", "debloat", "space", "collect"}, Side(j, s)
      PROVE  RunInv'
  <2>1. /\ At(j, After(job[j].kind, s), job[j].active, job[j].stale)
        /\ job[j].stage = s /\ UNCHANGED <<bin, link, server, connected>>
    BY <1>5, StageMoves DEF Side, Working, device
  <2>. QED  BY <1>2, <1>4, <2>1
<1>6. CASE Transfer(j)
  <2>1. /\ At(j, "flip", job[j].active, job[j].stale)
        /\ job[j].stage = "transfer" /\ UNCHANGED <<bin, link, server, connected>>
    BY <1>6, StageMoves DEF Transfer, Working, device
  <2>2. Relies("flip", job[j].kind, job[j].active, job[j].stale)
    BY <1>0, <2>1 DEF Relies, Updating, ShellStages, Slotted
  <2>. QED  BY <1>2, <2>1, <2>2
<1>7. CASE Refused(j)
  <2>1. /\ At(j, "end", job[j].active, job[j].stale) /\ UNCHANGED <<bin, link, server, connected>>
    BY <1>7, StageMoves DEF Refused, device
  <2>. QED  BY <1>2, <1>3, <2>1
<1>8. CASE Broken(j)
  <2>. DEFINE n == IF job[j].stage \in Aborting \cup {"creds"} THEN "end" ELSE After(job[j].kind, job[j].stage)
  <2>1. At(j, n, job[j].active, job[j].stale) /\ UNCHANGED <<bin, link, server, connected>>
    BY <1>8, StageMoves DEF Broken, device
  <2>2. job[j].stage \in ShellStages
    BY <1>0, <1>8 DEF Broken, Table, Sessions
  <2>3. Relies(n, job[j].kind, job[j].active, job[j].stale)
    <3>1. CASE job[j].stage \in Aborting \cup {"creds"}
      BY <1>3, <3>1
    <3>2. CASE job[j].stage \in {"script", "debloat", "space", "collect"}
      BY <1>4, <3>2 DEF Aborting
    <3>3. CASE job[j].stage = "flip"
      BY <3>3 DEF Relies, After, Updating, ShellStages, Slotted, Aborting
    <3>. QED  BY <2>2, <3>1, <3>2, <3>3 DEF ShellStages, Aborting
  <2>. HIDE DEF n
  <2>. QED  BY <1>2, <2>1, <2>3
<1>. QED
  BY <1>1, <1>5, <1>6, <1>7, <1>8
  DEF SideStep, SyncStartScript, SyncDebloat, FreeSpace, CollectSupervisorLog

\* A job between sessions.
LEMMA TaskKeeps ==
    ASSUME TypeOK, RunInv, NEW j \in Jobs,
           \/ \E v \in Releases : PostUpdate(j, v) \/ DeployAll(j, v)
           \/ PostRollback(j) \/ (\E k \in Kinds : PostOther(j, k)) \/ TaskStep(j)
    PROVE  RunInv'
<1>0. /\ Table(job) /\ job[j] \in Job
      /\ UNCHANGED <<bin, link, server, connected>>
  BY TypeSplit DEF Table, PostUpdate, DeployAll, PostRollback, PostOther, TaskStep, Begin, FetchFails, Fetched,
     Confirm, WatchTimeout, device
<1>1. ASSUME \A k \in Jobs \ {j} : job'[k] = job[k],
             Relies(job'[j].stage, job'[j].kind, job'[j].active, job'[j].stale)
      PROVE  RunInv'
  BY <1>0, <1>1 DEF RunInv, Recoverable, RunsGood, Fallback, JobsRely, Relies
<1>2. CASE \/ \E v \in Releases : PostUpdate(j, v) \/ DeployAll(j, v)
           \/ PostRollback(j)
  <2>1. \A k \in Jobs \ {j} : job'[k] = job[k]
    BY <1>2, TaskMoves
  <2>2. job'[j].stage = "begin" /\ job'[j].kind \in Updates
    <3>0. PICK k \in Updates : \E v : Begins(j, k, v)
      BY <1>2 DEF PostUpdate, DeployAll, PostRollback, Updates
    <3>1. PICK v : Begins(j, k, v)
      BY <3>0
    <3>2. job' = [job EXCEPT ![j] = [job[j] EXCEPT !.kind = k, !.want = v, !.stage = "begin"]]
      BY <1>0, <3>1 DEF Begins, Table
    <3>. QED  BY <1>0, <3>2 DEF Table, Job
  <2>. QED  BY <1>1, <2>1, <2>2 DEF Relies, ShellStages, Slotted
<1>3. CASE Begin(j) \/ FetchFails(j) \/ Confirm(j) \/ WatchTimeout(j)
  <2>1. \A k \in Jobs \ {j} : job'[k] = job[k]
    BY <1>3, TaskMoves
  <2>2. /\ job'[j].kind = job[j].kind
        /\ (job[j].stage = "begin" /\ job'[j].stage = "fetch") \/ job'[j].stage = "end"
    <3>1. \/ job[j].stage = "begin" /\ job' = [job EXCEPT ![j].stage = "fetch"]
          \/ job' = [job EXCEPT ![j].stage = "end", ![j].sh = "none"]
      BY <1>3 DEF Begin, FetchFails, Confirm, WatchTimeout, Ends
    <3>. QED  BY <1>0, <3>1 DEF Table, Job
  <2>3. Relies(job[j].stage, job[j].kind, job[j].active, job[j].stale)
    BY DEF RunInv, JobsRely
  <2>. QED  BY <1>1, <2>1, <2>2, <2>3 DEF Relies, ShellStages, Slotted, Updating
<1>4. CASE Fetched(j)
  <2>1. Asks(j, job[j].kind, "detect") /\ connected /\ job[j].stage = "fetch"
    BY <1>4, StartMoves DEF Fetched
  <2>2. Relies(job[j].stage, job[j].kind, job[j].active, job[j].stale)
    BY DEF RunInv, JobsRely
  <2>. QED  BY <1>0, <1>1, <2>1, <2>2 DEF Asks, Relies, Slotted, Updating
<1>5. ASSUME NEW k \in Kinds, PostOther(j, k) PROVE RunInv'
  <2>1. PICK s \in {"debloat", "creds"} : Asks(j, k, s)
    BY <1>5, StartMoves
  <2>2. connected /\ k \notin Updates
    BY <1>5 DEF PostOther
  <2>. QED  BY <1>0, <1>1, <2>1, <2>2 DEF Asks, Relies, Slotted, Updating
<1>. QED  BY <1>2, <1>3, <1>4, <1>5 DEF TaskStep

\* The device starts, falls back, registers or drops; sessions come and go.
LEMMA DeviceKeeps ==
    ASSUME TypeOK, RunInv,
           \/ \E j \in Jobs : Acquire(j) \/ LockTimeout(j) \/ DialTimeout(j)
           \/ DeviceStep \/ TerminalAsked \/ TerminalOpens \/ TerminalCloses \/ Drop
    PROVE  RunInv'
<1>0. Table(job) /\ bin \in [Layouts -> Versions \cup {None}] /\ link \in Layouts
  BY TypeSplit DEF RestOK
<1>1. CASE \/ \E j \in Jobs : Acquire(j) \/ LockTimeout(j) \/ DialTimeout(j)
           \/ ShellArrives \/ TerminalAsked \/ TerminalOpens \/ TerminalCloses
  <2>1. SameButSessions(job', job)
    BY <1>1, SessionMoves
  <2>2. UNCHANGED <<bin, link, server, connected>>
    BY <1>1 DEF Acquire, LockTimeout, DialTimeout, ShellArrives, TerminalAsked, TerminalOpens, TerminalCloses, device
  <2>. QED  BY <2>1, <2>2 DEF RunInv, Recoverable, RunsGood, Fallback, JobsRely, Relies, SameButSessions
<1>2. CASE StartServer
  BY <1>2 DEF StartServer, RunInv, Recoverable, RunsGood, Fallback, JobsRely, Relies
<1>3. CASE AutoRollback
  <2>1. /\ ~connected /\ UNCHANGED <<job, bin, server, connected>> /\ link' = Inactive(link)
        /\ bin[Inactive(link)] \in Good
    BY <1>3 DEF AutoRollback, RunInv, Recoverable, RunsGood
  <2>2. Slotted \subseteq ShellStages
    BY DEF Slotted, ShellStages
  <2>3. JobsRely'
    BY <2>1, <2>2 DEF RunInv, JobsRely, Relies
  <2>. QED  BY <2>1, <2>3 DEF RunInv, Recoverable, RunsGood
<1>4. CASE Register
  <2>1. /\ ~connected /\ connected' /\ server # None /\ UNCHANGED <<bin, link, server>>
    BY <1>4 DEF Register
  <2>2. job' = job \/ \E j \in Jobs : job[j].stage = "none" /\ Asks(j, "collect", "collect")
    BY <1>4, StartMoves
  <2>3. \A k \in Jobs : job'[k] = job[k] \/ job'[k].stage = "collect"
    BY <2>2 DEF Asks
  <2>4. JobsRely'
    BY <2>1, <2>3 DEF RunInv, JobsRely, Relies, Slotted, Updating
  <2>. QED  BY <2>1, <2>4 DEF RunInv, Recoverable, RunsGood, Fallback
<1>5. CASE Drop
  <2>1. /\ UNCHANGED <<bin, link>> /\ ~connected' /\ server' \in {server, None}
        /\ \A j \in Jobs : At(j, job[j].stage, job[j].active, FALSE) /\ Unlinked
    BY <1>5, LossMoves DEF Drop
  <2>2. Slotted \subseteq ShellStages
    BY DEF Slotted, ShellStages
  <2>3. JobsRely'
    BY <2>1, <2>2 DEF RunInv, JobsRely, Relies, At, Unlinked
  <2>. QED  BY <2>1, <2>3 DEF RunInv, Recoverable, RunsGood, Fallback
<1>. QED  BY <1>1, <1>2, <1>3, <1>4, <1>5 DEF DeviceStep

\* Whatever combination of updates, rollbacks, lost sessions and bad binaries,
\* the supervisor always finds a binary that starts, in the slot the link names
\* or in the one it falls back to (start_server.sh's auto-rollback).
THEOREM AlwaysRecoverable == Spec => []Recoverable
<1>1. Init => RunInv
  <2>. SUFFICES ASSUME Init PROVE RunInv
    OBVIOUS
  <2>1. bin[link] \in Good /\ server \in Good
    BY DEF Init, Layouts, Slots
  <2>2. \A j \in Jobs : job[j].stage = "none"
    BY DEF Init, Idle
  <2>3. server # None
    BY DEF Init
  <2>. QED  BY <2>1, <2>2, <2>3 DEF RunInv, Recoverable, RunsGood, JobsRely, Relies, ShellStages, Slotted, Updating
<1>2. ASSUME TypeOK, RunInv, [Next]_vars PROVE RunInv'
  <2>1. CASE Next
    BY <1>2, <2>1, PromoteKeeps, DetectKeeps, FlipKeeps, SessionEndKeeps, TaskKeeps, DeviceKeeps
    DEF Next, JobStep, SessionStep, StageStep
  <2>2. CASE UNCHANGED vars
    BY <1>2, <2>2 DEF RunInv, Recoverable, RunsGood, Fallback, JobsRely, Relies, vars, device
  <2>. QED  BY <1>2, <2>1, <2>2
<1>3. RunInv => Recoverable
  BY DEF RunInv
<1>. QED  BY <1>1, <1>2, <1>3, DeployTypes, PTL DEF Spec

-----------------------------------------------------------------------------
(***************************************************************************)
(* The shell plane.  An asyncio lock knows no owner and every clean-up     *)
(* unlocks it, so its holder may well be gone from it; but it is never     *)
(* held, and no future or session kept, when every job has left its        *)
(* sessions behind.                                                        *)
(***************************************************************************)

InSession(j) == job[j].stage \in ShellStages

PlaneInv ==
    /\ lock => \E j \in Jobs : InSession(j)
    /\ \A j \in Jobs : j \in {pending, shellWs} => InSession(j)

\* A step that keeps every session in its stage keeps what the plane refers to.
LEMMA PlaneFrame ==
    ASSUME PlaneInv, \A j \in Jobs : InSession(j) => InSession(j)',
           lock' => lock \/ \E j \in Jobs : InSession(j)',
           \A j \in Jobs : j \in {pending', shellWs'} => j \in {pending, shellWs} \/ InSession(j)'
    PROVE  PlaneInv'
BY DEF PlaneInv

LEMMA PlaneStep ==
    ASSUME TypeOK, PlaneInv, Next
    PROVE  PlaneInv'
<1>0. Table(job) /\ {pending, shellWs} \subseteq Jobs \cup {None}
  BY TypeSplit DEF RestOK
<1>1. CASE PlaneFree
  BY <1>1 DEF PlaneFree, PlaneInv
<1>2. ASSUME NEW j \in Jobs, Acquire(j) \/ LockTimeout(j) \/ DialTimeout(j) PROVE PlaneInv'
  <2>1. SameButSessions(job', job) /\ InSession(j)
    BY <1>0, <1>2, SessionMoves DEF Acquire, LockTimeout, DialTimeout, Table, Sessions, InSession
  <2>2. /\ lock' => lock \/ InSession(j)
        /\ pending' \in {pending, None, j} /\ shellWs' \in {shellWs, None}
    BY <1>2, <2>1 DEF Acquire, LockTimeout, DialTimeout, plane
  <2>. QED  BY <2>1, <2>2, PlaneFrame DEF SameButSessions, InSession
<1>3. CASE ShellArrives \/ TerminalAsked \/ TerminalOpens \/ TerminalCloses
  <2>1. SameButSessions(job', job)
    BY <1>3, SessionMoves
  <2>2. lock' = lock /\ pending' \in {pending, None} /\ shellWs' \in {shellWs, pending}
    BY <1>3 DEF ShellArrives, TerminalAsked, TerminalOpens, TerminalCloses
  <2>. QED  BY <2>1, <2>2, PlaneFrame DEF SameButSessions, InSession
<1>4. ASSUME NEW j \in Jobs,
             \/ \E v \in Releases : PostUpdate(j, v) \/ DeployAll(j, v)
             \/ PostRollback(j) \/ Begin(j) \/ FetchFails(j) \/ Confirm(j) \/ WatchTimeout(j)
      PROVE  PlaneInv'
  <2>1. \A k \in Jobs : InSession(k) => job'[k] = job[k]
    BY <1>4, TaskMoves DEF InSession
  <2>2. UNCHANGED <<lock, pending, shellWs>>
    BY <1>4 DEF PostUpdate, DeployAll, PostRollback, Begin, FetchFails, Confirm, WatchTimeout, plane
  <2>. QED  BY <2>1, <2>2, PlaneFrame DEF InSession
<1>5. ASSUME NEW j \in Jobs, Detect(j) \/ SideStep(j) \/ Transfer(j) \/ Flip(j) \/ Refused(j) \/ Broken(j)
      PROVE  PlaneFree
  <2>1. CASE Detect(j) \/ Transfer(j) \/ Refused(j) \/ Broken(j)
    BY <2>1, StageMoves
  <2>2. CASE SecureLink(j) \/ Flip(j)
    BY <2>2, LossMoves
  <2>3. CASE SyncStartScript(j) \/ SyncDebloat(j) \/ FreeSpace(j) \/ CollectSupervisorLog(j)
    BY <2>3, StageMoves DEF SyncStartScript, SyncDebloat, FreeSpace, CollectSupervisorLog
  <2>. QED  BY <1>5, <2>1, <2>2, <2>3 DEF SideStep
<1>6. ASSUME NEW j \in Jobs, NEW k, NEW s \in ShellStages, Asks(j, k, s), UNCHANGED <<lock, pending, shellWs>>
      PROVE  PlaneInv'
  BY <1>6, PlaneFrame DEF Asks, InSession
<1>7. {"detect", "debloat", "creds", "collect"} \subseteq ShellStages
  BY DEF ShellStages
<1>8. ASSUME NEW j \in Jobs, Fetched(j) \/ \E k \in Kinds : PostOther(j, k) PROVE PlaneInv'
  <2>1. UNCHANGED <<lock, pending, shellWs>>
    BY <1>8 DEF Fetched, PostOther, plane
  <2>2. \E k : \E s \in ShellStages : Asks(j, k, s)
    BY <1>7, <1>8, StartMoves
  <2>. QED  BY <1>6, <2>1, <2>2
<1>9. CASE Register
  <2>1. UNCHANGED <<lock, pending, shellWs>>
    BY <1>9 DEF Register, plane
  <2>2. CASE job' = job
    BY <2>1, <2>2, PlaneFrame DEF InSession
  <2>3. CASE \E j \in Jobs : Asks(j, "collect", "collect")
    BY <1>6, <1>7, <2>1, <2>3
  <2>. QED  BY <1>9, <2>2, <2>3, StartMoves
<1>10. CASE Drop
  <2>1. /\ UNCHANGED <<lock, pending, shellWs>>
        /\ \A j \in Jobs : job'[j].stage = job[j].stage
    BY <1>10, LossMoves DEF Drop, At
  <2>. QED  BY <2>1, PlaneFrame DEF InSession
<1>11. CASE (\E j \in Jobs : Promote(j)) \/ StartServer \/ AutoRollback
  <2>1. UNCHANGED <<job, lock, pending, shellWs>>
    BY <1>11 DEF Promote, StartServer, AutoRollback, plane
  <2>. QED  BY <2>1, PlaneFrame DEF InSession
<1>. QED
  BY <1>1, <1>2, <1>3, <1>4, <1>5, <1>8, <1>9, <1>10, <1>11
  DEF Next, JobStep, SessionStep, StageStep, TaskStep, DeviceStep

\* Once no job is left the shell plane is free: a lock that nobody owns would
\* refuse every later update for good (_get_device_shell_ws,
\* _release_shell_ws, em_api.py:2749-2830).
THEOREM PlaneIsFreed == Spec => []ShellPlaneFreed
<1>1. Init => PlaneInv
  BY DEF Init, PlaneInv
<1>2. ASSUME TypeOK, PlaneInv, [Next]_vars PROVE PlaneInv'
  <2>1. CASE Next
    BY <1>2, <2>1, PlaneStep
  <2>2. CASE UNCHANGED vars
    BY <1>2, <2>2 DEF PlaneInv, InSession, vars, plane
  <2>. QED  BY <1>2, <2>1, <2>2
<1>3. TypeOK /\ PlaneInv => ShellPlaneFreed
  <2>. SUFFICES ASSUME TypeOK, PlaneInv, \A j \in Jobs : job[j].stage \in {"none", "end"}
                PROVE  ~lock /\ pending = None /\ shellWs = None
    BY DEF ShellPlaneFreed
  <2>1. \A j \in Jobs : ~InSession(j)
    BY DEF InSession, ShellStages
  <2>. QED  BY <2>1, TypeSplit DEF PlaneInv, RestOK
<1>. QED  BY <1>1, <1>2, <1>3, DeployTypes, PTL DEF Spec
=============================================================================
