------------------------------- MODULE JobGroups -------------------------------
(***************************************************************************)
(* Process groups and the slots of the job table, for every number of      *)
(* processes, stages and slots and for every kind of event: a signal to    *)
(* the group of a job reaches its processes and no other, and the job that *)
(* monitorjob() waits for stays where it is.                               *)
(*                                                                         *)
(* The argument: a child is bound for one group from fork() on (aim), and  *)
(* setpgid() in the child only makes true what was bound to be.  A job has *)
(* the group its processes are bound for (Grouping); its leader was just   *)
(* forked, so that no other job and no other process can have it           *)
(* (NewGroup).  All that watchjobs(), movejob() and allocjob() do is to    *)
(* rearrange slots (Rearranged).                                           *)
(***************************************************************************)
EXTENDS JobControlProofs

-------------------------------------------------------------------------------
(* Tables with the same jobs in other slots. *)

Alike(a, b) == Same(a, b) /\ a.state = b.state

Distinct(t) ==
  \A j, k \in DOMAIN t : t[j].pgid # NoPid /\ t[j].pgid = t[k].pgid => j = k

(* The jobs of u are jobs of t; those of t that are not in a state of S    *)
(* are jobs of u.                                                          *)
Rearranged(S, t, u) ==
  /\ \A k \in DOMAIN u : u[k].pgid # NoPid => \E j \in DOMAIN t : Alike(u[k], t[j])
  /\ \A j \in DOMAIN t : t[j].pgid # NoPid /\ t[j].state \notin S =>
       \E k \in DOMAIN u : Alike(u[k], t[j])
  /\ Distinct(t) => Distinct(u)

(* Every job stays in its slot, is freed there, or the slot was free.      *)
LEMMA InPlace ==
  ASSUME NEW S, NEW t, NEW u, DOMAIN t \subseteq DOMAIN u,
         \A k \in DOMAIN u :
           \/ k \in DOMAIN t /\ Alike(u[k], t[k])
           \/ u[k].pgid = NoPid /\ (k \in DOMAIN t => t[k].pgid = NoPid \/ t[k].state \in S)
  PROVE  Rearranged(S, t, u)
<1>1. \A k \in DOMAIN u : u[k].pgid # NoPid => k \in DOMAIN t /\ Alike(u[k], t[k])
  OBVIOUS
<1>2. \A j \in DOMAIN t : t[j].pgid # NoPid /\ t[j].state \notin S => Alike(u[j], t[j])
  OBVIOUS
<1>3. Distinct(t) => Distinct(u)
  BY <1>1 DEF Distinct, Alike, Same
<1> QED BY <1>1, <1>2, <1>3 DEF Rearranged

(* Nothing changes.                                                        *)
LEMMA NotMoved ==
  ASSUME NEW S, NEW t
  PROVE  Rearranged(S, t, t)
BY InPlace DEF Alike, Same

(* One change after another.                                               *)
LEMMA MovedTwice ==
  ASSUME NEW S, NEW t, NEW u, NEW v, Rearranged(S, t, u), Rearranged(S, u, v)
  PROVE  Rearranged(S, t, v)
<1>1. \A k \in DOMAIN v : v[k].pgid # NoPid => \E j \in DOMAIN t : Alike(v[k], t[j])
  <2> SUFFICES ASSUME NEW k \in DOMAIN v, v[k].pgid # NoPid
               PROVE  \E j \in DOMAIN t : Alike(v[k], t[j])
    OBVIOUS
  <2>1. PICK i \in DOMAIN u : Alike(v[k], u[i])
    BY DEF Rearranged
  <2>2. u[i].pgid # NoPid
    BY <2>1 DEF Alike, Same
  <2>3. PICK j \in DOMAIN t : Alike(u[i], t[j])
    BY <2>2 DEF Rearranged
  <2> QED BY <2>1, <2>3 DEF Alike, Same
<1>2. \A j \in DOMAIN t : t[j].pgid # NoPid /\ t[j].state \notin S =>
        \E k \in DOMAIN v : Alike(v[k], t[j])
  <2> SUFFICES ASSUME NEW j \in DOMAIN t, t[j].pgid # NoPid, t[j].state \notin S
               PROVE  \E k \in DOMAIN v : Alike(v[k], t[j])
    OBVIOUS
  <2>1. PICK i \in DOMAIN u : Alike(u[i], t[j])
    BY DEF Rearranged
  <2>2. u[i].pgid # NoPid /\ u[i].state \notin S
    BY <2>1 DEF Alike, Same
  <2>3. PICK k \in DOMAIN v : Alike(v[k], u[i])
    BY <2>2 DEF Rearranged
  <2> QED BY <2>1, <2>3 DEF Alike, Same
<1> QED BY <1>1, <1>2 DEF Rearranged

(* watchjobs() on a slot: a job that ended is dropped if it is asked for.  *)
LEMMA WatchjobAlike ==
  ASSUME NEW slot \in Job, NEW which
  PROVE  \/ Alike(watchjob(slot, which), slot)
         \/ /\ watchjob(slot, which).pgid = NoPid
            /\ slot.state = FINISHED /\ which \in {ALL, FINISHED}
<1>1. \/ watchjob(slot, which) \in {slot, clearStatus(slot)}
      \/ /\ watchjob(slot, which) = deljob(slot)
         /\ slot.state = FINISHED /\ which \in {ALL, FINISHED}
  BY DEF watchjob, watched
<1>2. deljob(slot).pgid = NoPid
  BY DEF deljob, Job
<1>3. Alike(clearStatus(slot), slot)
  <2>1. clearStatus(slot).state = slot.state
    BY DEF clearStatus, Job
  <2> QED BY <2>1, ClearStatusSame DEF Alike
<1>4. Alike(slot, slot)
  BY DEF Alike, Same
<1> QED BY <1>1, <1>2, <1>3, <1>4

(* watchjobs() on the table.                                               *)
LEMMA WatchjobsRearranged ==
  ASSUME NEW S, NEW n \in Nat, NEW t \in Table(n), NEW which,
         which \in {ALL, FINISHED} => FINISHED \in S
  PROVE  Rearranged(S, t, watchjobs(t, which))
<1> DEFINE u == watchjobs(t, which)
<1>1. DOMAIN u = DOMAIN t
  BY DEF watchjobs
<1>2. ASSUME NEW k \in DOMAIN u
      PROVE  Alike(u[k], t[k]) \/ (u[k].pgid = NoPid /\ t[k].state \in S)
  <2>1. t[k] \in Job
    BY <1>1 DEF Table
  <2>2. u[k] = t[k] \/ u[k] = watchjob(t[k], which)
    BY <1>1 DEF watchjobs
  <2>3. Alike(t[k], t[k])
    BY DEF Alike, Same
  <2> HIDE DEF u
  <2> QED BY <2>1, <2>2, <2>3, WatchjobAlike
<1> HIDE DEF u
<1>3. Rearranged(S, t, u)
  BY <1>1, <1>2, InPlace
<1> QED BY <1>3 DEF u

(* watchjobs() in the main thread.                                         *)
LEMMA WatchThenRearranged ==
  ASSUME NEW S, NEW n \in Nat, NEW t \in Table(n), NEW which, NEW next,
         which \in {ALL, FINISHED} => FINISHED \in S,
         WatchThen(t, which, next)
  PROVE  Rearranged(S, t, jobs')
BY WatchjobsRearranged, NotMoved DEF WatchThen

(* movejob() to a free slot.                                               *)
LEMMA MovejobRearranged ==
  ASSUME NEW S, NEW n \in Nat, NEW t \in Table(n), NEW from \in 0 .. n - 1,
         NEW to \in 0 .. n - 1, from # to, t[to].pgid = NoPid
  PROVE  Rearranged(S, t, movejob(t, from, to))
<1> DEFINE u == movejob(t, from, to)
<1>1. DOMAIN u = DOMAIN t /\ DOMAIN t = 0 .. n - 1
  BY DEF movejob, Table
<1>2. /\ u[to] = t[from] /\ u[from].pgid = NoPid
      /\ \A k \in DOMAIN t : k \notin {from, to} => u[k] = t[k]
  BY <1>1 DEF movejob, ZeroJob
<1> HIDE DEF u
<1>3. \A a : Alike(a, a)
  BY DEF Alike, Same
<1>4. \A k \in DOMAIN u : u[k].pgid # NoPid => \E j \in DOMAIN t : Alike(u[k], t[j])
  BY <1>1, <1>2, <1>3
<1>5. \A j \in DOMAIN t : t[j].pgid # NoPid => \E k \in DOMAIN u : Alike(u[k], t[j])
  BY <1>1, <1>2, <1>3
<1>6. Distinct(t) => Distinct(u)
  BY <1>1, <1>2 DEF Distinct
<1>7. Rearranged(S, t, u)
  BY <1>4, <1>5, <1>6 DEF Rearranged
<1> QED BY <1>7 DEF u

(* A change that loses no job loses none that has not finished.            *)
LEMMA NoneLost ==
  ASSUME NEW S, NEW t, NEW u, Rearranged({}, t, u)
  PROVE  Rearranged(S, t, u)
BY DEF Rearranged

-------------------------------------------------------------------------------
(* The steps that rearrange the table. *)

(* The table and its first slot, in a form the lemmas can use.             *)
LEMMA TheTable ==
  ASSUME TypeOK
  PROVE  /\ njobmax \in Nat \ {0} /\ jobs \in Table(njobmax)
         /\ DOMAIN jobs = 0 .. njobmax - 1 /\ FG \in DOMAIN jobs
         /\ \A j \in DOMAIN jobs : jobs[j] \in Job
BY DEF TypeOK, TableType, Table, FG

(* The other steps do not touch it.                                        *)
LEMMA TableSteps ==
  ASSUME [Next]_vars
  PROVE  \/ jobs' = jobs
         \/ AddJob \/ AddProc \/ HandlerRecord
         \/ HandlerReturn \/ DoJobs \/ LoopEnd \/ ShutdownEnd
         \/ ResumeDone \/ GiveTerminal \/ FinishStopped \/ FinishFinished
<1>1. CASE User
  BY <1>1 DEF User, Launch, DoResume, DoKill, DoHistory, DoQuit, Wait, table
<1>2. CASE MainStep
  <2>1. CASE Fork \/ Unmask \/ ResumeCont \/ Kill \/ ShutdownJob \/ ContForeground
    BY <2>1 DEF Fork, Unmask, ResumeCont, Kill, ShutdownJob, ContForeground, table
  <2>2. CASE \/ WhileStopped \/ SleepStopped \/ WhileRunning \/ SleepRunning
             \/ Reread \/ Remask \/ FinishRunning
    BY <2>2 DEF WhileStopped, SleepStopped, WhileRunning, SleepRunning, Reread, Remask,
                FinishRunning, Wait, table
  <2> QED BY <1>2, <2>1, <2>2 DEF MainStep
<1>3. CASE HandlerStep
  BY <1>3 DEF HandlerStep, HandlerEnter, HandlerWaitpid, HandlerWaitpidNone, table
<1>4. CASE Children
  BY <1>4 DEF Children, ChildStep, ChildStart, Exit, Stop, OtherCont, OtherKill, SetModes, table
<1>5. CASE UNCHANGED vars
  BY <1>5 DEF vars, table
<1> QED BY <1>1, <1>2, <1>3, <1>4, <1>5 DEF Next

(* Reports keep the slots, but those of jobs that ended.                   *)
LEMMA ReportedTable ==
  ASSUME TypeOK, HandlerReturn \/ DoJobs \/ LoopEnd \/ ShutdownEnd
  PROVE  Rearranged({FINISHED}, jobs, jobs') /\ jobs'[FG] = jobs[FG]
<1>1. \/ \E which, next : WatchThen(jobs, which, next)
      \/ jobs' = watchjobs(jobs, FINISHED)
  BY DEF HandlerReturn, DoJobs, LoopEnd, ShutdownEnd
<1>2. Rearranged({FINISHED}, jobs, jobs')
  BY <1>1, TheTable, WatchThenRearranged, WatchjobsRearranged
<1>3. \A which : watchjobs(jobs, which)[FG] = jobs[FG]
  BY TheTable DEF watchjobs, FG, BG
<1> QED BY <1>1, <1>2, <1>3 DEF WatchThen

(* `fg' takes a job that runs to the free slot in front.                   *)
LEMMA ResumedTable ==
  ASSUME TypeOK, SlotInv(Idle), ResumeDone
  PROVE  /\ Rearranged({}, jobs, jobs')
         /\ \/ pc' # "tcsetpgrp" /\ jobs'[FG] = jobs[FG]
            \/ /\ pc' = "tcsetpgrp" /\ ~bg /\ jobs[FG].pgid = NoPid
               /\ job \in DOMAIN jobs /\ jobs[job].state = RUNNING
               /\ jobs[job].pgid # NoPid /\ Alike(jobs'[FG], jobs[job])
<1> DEFINE seen == watchjobs(jobs, RUNNING)
<1>t. /\ njobmax \in Nat \ {0} /\ jobs \in Table(njobmax)
      /\ DOMAIN jobs = 0 .. njobmax - 1 /\ FG \in DOMAIN jobs
  BY TheTable
<1>s. seen \in Table(njobmax) /\ seen[FG] = jobs[FG] /\ Rearranged({}, jobs, seen)
  <2>1. RUNNING \notin {ALL, FINISHED}
    BY DEF RUNNING, ALL, FINISHED
  <2>2. seen \in Table(njobmax) /\ Rearranged({}, jobs, seen)
    BY <1>t, <2>1, WatchjobsType, WatchjobsRearranged
  <2>3. seen[FG] = jobs[FG]
    BY <1>t DEF watchjobs, FG, BG
  <2> QED BY <2>2, <2>3
<1>1. job \in DOMAIN jobs /\ jobs[job].state = RUNNING
  <2>1. job \in Nat /\ job < njobmax
    BY DEF ResumeDone, MainAt, TypeOK, MainType, Terminal
  <2> QED BY <1>t, <2>1 DEF ResumeDone
<1>2. jobs[job].pgid # NoPid
  BY <1>1 DEF SlotInv, SlotsSound, SlotSound, FreeSlot, Idle, RUNNING, STOPPED, FINISHED
<1>3. Alike(seen[job], jobs[job])
  <2>1. seen[job] = jobs[job] \/ seen[job] = watchjob(jobs[job], RUNNING)
    BY <1>1 DEF watchjobs
  <2>2. jobs[job] \in Job
    BY <1>1, <1>t DEF Table
  <2>3. Alike(jobs[job], jobs[job])
    BY DEF Alike, Same
  <2>4. RUNNING \notin {ALL, FINISHED}
    BY DEF RUNNING, ALL, FINISHED
  <2> HIDE DEF seen
  <2> QED BY <2>1, <2>2, <2>3, <2>4, WatchjobAlike
<1>4. CASE \E next : WatchThen(jobs, RUNNING, next) /\ next # "tcsetpgrp"
  <2>1. Rearranged({}, jobs, jobs') /\ jobs'[FG] = jobs[FG]
    BY <1>4, <1>s, NotMoved DEF WatchThen
  <2>2. pc' # "tcsetpgrp"
    BY <1>4 DEF WatchThen, Goto
  <2> QED BY <2>1, <2>2
<1>5. CASE jobs' = jobs /\ pc' = "crashed"
  BY <1>5, NotMoved
<1>6. CASE ~bg /\ jobs[FG].pgid = NoPid /\ jobs' = movejob(seen, job, FG) /\ pc' = "tcsetpgrp"
  <2>1. job # FG
    BY <1>2, <1>6
  <2> HIDE DEF seen
  <2>2. Rearranged({}, seen, movejob(seen, job, FG))
    BY <1>1, <1>6, <1>s, <1>t, <2>1, MovejobRearranged
  <2>3. Rearranged({}, jobs, jobs')
    BY <1>6, <1>s, <2>2, MovedTwice
  <2>4. jobs'[FG] = seen[job]
    BY <1>6, <1>s, <1>t, <2>1 DEF movejob, Table
  <2> QED BY <1>1, <1>2, <1>3, <1>6, <2>3, <2>4
<1> QED BY <1>4, <1>5, <1>6 DEF ResumeDone, Goto

(* The job in front gets the terminal.                                     *)
LEMMA TerminalTable ==
  ASSUME TypeOK, GiveTerminal
  PROVE  Rearranged({}, jobs, jobs') /\ Alike(jobs'[FG], jobs[FG])
<1>1. jobs' = jobs
  BY DEF GiveTerminal, table
<1>2. FG \in DOMAIN jobs
  BY TheTable
<1>3. \A k \in DOMAIN jobs : Alike(jobs'[k], jobs[k])
  BY <1>1 DEF Alike, Same
<1>4. DOMAIN jobs' = DOMAIN jobs
  BY <1>1
<1> QED BY <1>2, <1>3, <1>4, InPlace

(* movejob() takes the job in front to a free slot of a table t, and is     *)
(* reported as stopped.                                                    *)
LEMMA FrontMoved ==
  ASSUME NEW n \in Nat, NEW t \in Table(n), NEW k \in 0 .. n - 1, FG \in 0 .. n - 1, k # FG,
         t[k].pgid = NoPid, WatchThen(movejob(t, FG, k), STOPPED, "unmask")
  PROVE  /\ Rearranged({}, t, jobs') /\ jobs'[FG].pgid = NoPid
         /\ Rearranged({}, t, movejob(t, FG, k))
<1> DEFINE u == movejob(t, FG, k)
<1>1. Rearranged({}, t, u)
  BY MovejobRearranged
<1>2. u \in Table(n) /\ u[FG].pgid = NoPid
  <2>1. u \in Table(n)
    BY MovejobType
  <2>2. u[FG].pgid = NoPid
    BY DEF movejob, ZeroJob, Table
  <2> QED BY <2>1, <2>2
<1> HIDE DEF u
<1>3. Rearranged({}, u, jobs')
  <2>1. STOPPED \notin {ALL, FINISHED}
    BY DEF STOPPED, ALL, FINISHED
  <2>2. WatchThen(u, STOPPED, "unmask")
    BY DEF u
  <2> QED BY <1>2, <2>1, <2>2, WatchThenRearranged
<1>4. jobs'[FG].pgid = NoPid
  <2>1. watchjobs(u, STOPPED)[FG] = u[FG]
    BY <1>2, WatchjobsType DEF FG, BG
  <2>2. WatchThen(u, STOPPED, "unmask")
    BY DEF u
  <2> QED BY <1>2, <2>1, <2>2 DEF WatchThen
<1>5. Rearranged({}, t, jobs')
  BY <1>1, <1>3, MovedTwice
<1> QED BY <1>1, <1>4, <1>5 DEF u

(* A job that stopped moves to a free slot in background.                  *)
LEMMA PutAwayTable ==
  ASSUME TypeOK, FinishStopped
  PROVE  /\ Rearranged({}, jobs, jobs')
         /\ jobs'[FG].pgid = NoPid /\ pc' \in {"unmask", "crashed"}
         /\ pc' = "crashed" => \E u : Rearranged({}, jobs, u) /\ ~watchable(u, STOPPED)
<1>t. /\ njobmax \in Nat \ {0} /\ jobs \in Table(njobmax)
      /\ DOMAIN jobs = 0 .. njobmax - 1 /\ FG \in DOMAIN jobs
  BY TheTable
<1> DEFINE k == allocjob(jobs, njobmax)
           n == IF k = njobmax THEN njobmax + 1 ELSE njobmax
           g == grown(jobs, k)
           t == [g EXCEPT ![k].state = STOPPED]
           u == movejob(t, FG, k)
<1>1. k \in 1 .. njobmax /\ (k # njobmax => jobs[k].pgid = NoPid)
  BY <1>t, AllocjobIsFree
<1>2. \/ WatchThen(u, STOPPED, "unmask") /\ t[k].pgid = NoPid
      \/ jobs' = t /\ t[k].pgid # NoPid
  BY DEF FinishStopped
<1> HIDE DEF k
<1>3. g \in Table(n) /\ (\A i \in 0 .. njobmax - 1 : g[i] = jobs[i])
      /\ (k = njobmax => g[k] = ZeroJob)
  <2>1. k \in 0 .. njobmax
    BY <1>t, <1>1
  <2> QED BY <1>t, <2>1, GrownType
<1>4. n \in Nat /\ k \in 0 .. n - 1 /\ FG \in 0 .. n - 1 /\ k # FG
      /\ DOMAIN jobs \subseteq 0 .. n - 1 /\ \A i \in 0 .. n - 1 : i = k \/ i \in DOMAIN jobs
  BY <1>t, <1>1 DEF FG
<1>5. g[k].pgid = NoPid /\ g[k] \in Job
  BY <1>1, <1>3, <1>4, <1>t DEF ZeroJob, Table
<1> HIDE DEF n, g
<1>6. /\ t \in Table(n) /\ DOMAIN t = 0 .. n - 1 /\ t[k].pgid = NoPid
      /\ \A i \in DOMAIN t : i # k => t[i] = g[i]
  <2>1. [g[k] EXCEPT !.state = STOPPED] \in Job /\ [g[k] EXCEPT !.state = STOPPED].pgid = NoPid
    BY <1>5 DEF Job, States
  <2> QED BY <1>3, <1>4, <2>1 DEF Table
<1> HIDE DEF t
<1>7. Rearranged({}, jobs, t)
  <2>1. ASSUME NEW i \in DOMAIN t
        PROVE  \/ i \in DOMAIN jobs /\ Alike(t[i], jobs[i])
               \/ t[i].pgid = NoPid /\ (i \in DOMAIN jobs => jobs[i].pgid = NoPid)
    <3>1. CASE i = k
      <4>1. i \in DOMAIN jobs => k # njobmax
        BY <1>t, <3>1
      <4> QED BY <1>1, <1>6, <3>1, <4>1
    <3>2. CASE i # k
      <4>1. i \in DOMAIN jobs /\ t[i] = jobs[i]
        BY <1>3, <1>4, <1>6, <1>t, <3>2
      <4> QED BY <4>1 DEF Alike, Same
    <3> QED BY <3>1, <3>2
  <2> QED BY <1>4, <1>6, <2>1, InPlace
<1>8. WatchThen(u, STOPPED, "unmask")
  BY <1>2, <1>6
<1>9. Rearranged({}, t, jobs') /\ jobs'[FG].pgid = NoPid /\ Rearranged({}, t, u)
  BY <1>4, <1>6, <1>8, FrontMoved
<1> HIDE DEF u
<1>10. Rearranged({}, jobs, jobs') /\ Rearranged({}, jobs, u)
  BY <1>7, <1>9, MovedTwice
<1> QED BY <1>8, <1>9, <1>10 DEF WatchThen, Goto

(* deljob() frees the slot in front, and jobs that finished are reported.  *)
LEMMA FrontDropped ==
  ASSUME TypeOK, jobs[FG].state = FINISHED,
         WatchThen([jobs EXCEPT ![FG] = deljob(@)], FINISHED, "unmask")
  PROVE  /\ Rearranged({FINISHED}, jobs, jobs')
         /\ jobs'[FG].pgid = NoPid
         /\ pc' \in {"unmask", "crashed"}
         /\ pc' = "crashed" =>
              \E u : Rearranged({FINISHED}, jobs, u) /\ ~watchable(u, FINISHED)
         /\ \A k \in DOMAIN jobs' :
              jobs'[k].pgid # NoPid => k \in DOMAIN jobs /\ jobs'[k].pgid = jobs[k].pgid
<1>t. /\ njobmax \in Nat \ {0} /\ jobs \in Table(njobmax)
      /\ DOMAIN jobs = 0 .. njobmax - 1 /\ FG \in DOMAIN jobs /\ jobs[FG] \in Job
  BY TheTable
<1> DEFINE new == deljob(jobs[FG])
           u   == [jobs EXCEPT ![FG] = new]
<1>1. WatchThen(u, FINISHED, "unmask")
  OBVIOUS
<1>2. new \in Job /\ new.pgid = NoPid
  BY <1>t, DeljobType DEF deljob, Job
<1> HIDE DEF new
<1>3. u \in Table(njobmax) /\ u[FG].pgid = NoPid /\ DOMAIN u = DOMAIN jobs
  BY <1>t, <1>2 DEF Table
<1>4. Rearranged({FINISHED}, jobs, u)
  <2>1. \A i \in DOMAIN u : i # FG => Alike(u[i], jobs[i])
    BY DEF Alike, Same
  <2> QED BY <1>3, <2>1, InPlace
<1> HIDE DEF u
<1>5. Rearranged({FINISHED}, u, jobs')
  BY <1>t, <1>1, <1>3, WatchThenRearranged
<1>6. watchjobs(u, FINISHED)[FG] = u[FG]
  BY <1>t, <1>3, WatchjobsType DEF FG, BG
<1>7. jobs'[FG].pgid = NoPid /\ pc' \in {"unmask", "crashed"}
  BY <1>1, <1>3, <1>6 DEF WatchThen, Goto
<1>8. pc' = "crashed" => ~watchable(u, FINISHED)
  BY <1>1 DEF WatchThen, Goto
<1>9. ASSUME NEW k \in DOMAIN jobs', jobs'[k].pgid # NoPid
      PROVE  k \in DOMAIN jobs /\ jobs'[k].pgid = jobs[k].pgid
  <2>1. k \in DOMAIN jobs
    BY <1>t, <1>1, <1>3 DEF WatchThen, watchjobs
  <2>2. jobs'[k] = u[k] \/ jobs'[k] = watchjob(u[k], FINISHED)
    BY <1>1, <1>3, <2>1 DEF WatchThen, watchjobs
  <2>3. u[k] \in Job
    BY <1>3, <2>1 DEF Table
  <2>4. jobs'[k].pgid = u[k].pgid
    BY <1>9, <2>2, <2>3, WatchjobAlike DEF Alike, Same
  <2>5. k # FG
    BY <1>9, <1>3, <2>4
  <2> QED BY <2>1, <2>4, <2>5 DEF u
<1>10. Rearranged({FINISHED}, jobs, jobs')
  BY <1>4, <1>5, MovedTwice
<1> QED BY <1>4, <1>7, <1>8, <1>9, <1>10

(* A job that finished in front leaves.                                    *)
LEMMA EndedTable ==
  ASSUME TypeOK, FinishFinished
  PROVE  /\ Rearranged({FINISHED}, jobs, jobs')
         /\ \/ /\ jobs[FG].state = FINISHED /\ jobs'[FG].pgid = NoPid
               /\ pc' \in {"unmask", "crashed"}
               /\ pc' = "crashed" =>
                    \E u : Rearranged({FINISHED}, jobs, u) /\ ~watchable(u, FINISHED)
               /\ \A k \in DOMAIN jobs' :
                    jobs'[k].pgid # NoPid => k \in DOMAIN jobs /\ jobs'[k].pgid = jobs[k].pgid
            \/ jobs[FG].state # FINISHED /\ jobs' = jobs /\ pc' = "aborted"
<1>1. CASE jobs[FG].state # FINISHED
  BY <1>1, NotMoved DEF FinishFinished, Goto
<1>2. CASE jobs[FG].state = FINISHED
  <2>1. WatchThen([jobs EXCEPT ![FG] = deljob(@)], FINISHED, "unmask")
    BY <1>2 DEF FinishFinished
  <2> QED BY <1>2, <2>1, FrontDropped
<1> QED BY <1>1, <1>2

(* In short: but for the launch of a job and the entry of a status, the    *)
(* table is rearranged, and no job is lost that has not finished.          *)
LEMMA TableStep ==
  ASSUME TypeOK, SlotInv(Idle), [Next]_vars
  PROVE  AddJob \/ AddProc \/ HandlerRecord \/ Rearranged({FINISHED}, jobs, jobs')
BY TableSteps, NotMoved, NoneLost, ReportedTable, ResumedTable, TerminalTable, PutAwayTable,
   EndedTable

-------------------------------------------------------------------------------
(* The steps of processes. *)

Live == {"forked", "running", "stopped"}

(* The group that a process is in, or is going to join.                    *)
aim(p) ==
  IF life[p] = "forked" THEN IF pgarg[p] = NoPid THEN p ELSE pgarg[p] ELSE group[p]

(* Whoever has not joined a group yet, or is gone, is in that of the shell. *)
GroupAtRest ==
  \A p \in Pids :
    life[p] # "clone" /\ (life[p] \in {"none", "forked", "gone"} => group[p] = Shell)

(* A process does not change the group it is bound for: it is bound from   *)
(* fork() on, and at most falls back into the shell's group as a zombie    *)
(* that failed to join its own.  A new process is on its way to the table, *)
(* or stays with the shell.                                                *)
Bound(q) ==
  /\ life[q] # "none" => life'[q] # "none"
  /\ life[q] = "gone" => life'[q] = "gone"
  /\ life[q] # "none" /\ life'[q] \in Live => life[q] \in Live /\ aim(q)' = aim(q)
  /\ life[q] # "none" /\ exists(q)' => exists(q) /\ aim(q)' \in {aim(q), Shell}
  /\ life[q] = "none" /\ exists(q)' => q = newpid' \/ aim(q)' = Shell

(* The steps that change a process at all.                                 *)
LEMMA ProcessSteps ==
  ASSUME [Next]_vars
  PROVE  \/ UNCHANGED <<life, group, pgarg>>
         \/ Fork \/ DoHistory
         \/ UNCHANGED <<group, pgarg>> /\ \E S : Continue(S)
         \/ \E p \in Pids : HandlerWaitpid(p) \/ ChildStep(p)
<1>1. CASE User
  BY <1>1 DEF User, Launch, DoResume, DoKill, DoJobs, DoQuit, Wait, UnchangedKernel, procs
<1>2. CASE MainStep
  <2>1. CASE ResumeCont \/ Kill \/ ShutdownJob \/ ContForeground
    BY <2>1 DEF ResumeCont, Kill, ShutdownJob, ContForeground, KillJob
  <2>2. CASE \/ AddJob \/ AddProc \/ Unmask \/ LoopEnd \/ ResumeDone \/ ShutdownEnd
             \/ GiveTerminal \/ Reread \/ Remask \/ FinishStopped \/ FinishFinished
             \/ FinishRunning
    BY <2>2 DEF AddJob, AddProc, Unmask, LoopEnd, ResumeDone, ShutdownEnd, GiveTerminal,
                Reread, Remask, FinishStopped, FinishFinished, FinishRunning,
                UnchangedKernel, procs
  <2>3. CASE WhileStopped \/ SleepStopped \/ WhileRunning \/ SleepRunning
    BY <2>3 DEF WhileStopped, SleepStopped, WhileRunning, SleepRunning, Wait,
                UnchangedKernel, procs
  <2> QED BY <1>2, <2>1, <2>2, <2>3 DEF MainStep
<1>3. CASE HandlerStep
  BY <1>3 DEF HandlerStep, HandlerEnter, HandlerRecord, HandlerWaitpidNone, HandlerReturn, procs
<1>4. CASE Children
  BY <1>4 DEF Children
<1>5. CASE UNCHANGED vars
  BY <1>5 DEF vars, procs
<1> QED BY <1>1, <1>2, <1>3, <1>4, <1>5 DEF Next

(* A process that is not touched.                                          *)
LEMMA BoundUntouched ==
  ASSUME GroupAtRest, NEW q \in Pids,
         life'[q] = life[q], group'[q] = group[q], pgarg'[q] = pgarg[q]
  PROVE  Bound(q)
BY DEF Bound, aim, exists, Live, GroupAtRest

(* SIGCONT.                                                                *)
LEMMA BoundContinued ==
  ASSUME TypeOK, GroupAtRest, UNCHANGED <<group, pgarg>>, NEW S, Continue(S)
  PROVE  (\A q \in Pids : Bound(q)) /\ GroupAtRest'
<1>1. \A q \in Pids : life'[q] = life[q] \/ (life[q] = "stopped" /\ life'[q] = "running")
  BY DEF Continue
<1>2. ASSUME NEW q \in Pids PROVE Bound(q)
  BY <1>1 DEF Bound, aim, exists, Live, GroupAtRest
<1>3. GroupAtRest'
  BY <1>1 DEF GroupAtRest
<1> QED BY <1>2, <1>3

(* A child.                                                                *)
LEMMA BoundChild ==
  ASSUME TypeOK, GroupAtRest, NEW p \in Pids, ChildStep(p)
  PROVE  (\A q \in Pids : Bound(q)) /\ GroupAtRest'
<1>t. /\ life \in [Pids -> Lives] /\ group \in [Pids -> Pids \cup {Shell}]
      /\ pgarg \in [Pids -> Pids \cup {NoPid, Shell}]
  BY DEF TypeOK, KernelType
<1>1. \A q \in Pids : q # p => life'[q] = life[q] /\ group'[q] = group[q] /\ pgarg'[q] = pgarg[q]
  BY <1>t DEF ChildStep, ChildStart, Exit, Stop, OtherCont, OtherKill, SetModes, Change, procs
<1>2. \/ life'[p] = life[p] /\ group'[p] = group[p] /\ pgarg'[p] = pgarg[p]
      \/ life[p] = "forked" /\ life'[p] = "running" /\ group'[p] = aim(p)
      \/ life[p] = "forked" /\ life'[p] = "zombie" /\ group'[p] = group[p]
      \/ /\ life[p] \in {"running", "stopped"} /\ life'[p] \in {"running", "stopped", "zombie"}
         /\ group'[p] = group[p]
  <2>1. CASE ChildStart(p)
    BY <1>t, <2>1 DEF ChildStart, Change, aim
  <2>2. CASE Exit(p) \/ Stop(p) \/ OtherCont(p) \/ OtherKill(p)
    BY <1>t, <2>2 DEF Exit, Stop, OtherCont, OtherKill, Change
  <2>3. CASE SetModes(p)
    BY <2>3 DEF SetModes, procs
  <2> QED BY <2>1, <2>2, <2>3 DEF ChildStep
<1>3. Bound(p)
  BY <1>2 DEF Bound, aim, exists, Live, GroupAtRest
<1>4. \A q \in Pids : Bound(q)
  BY <1>1, <1>3, BoundUntouched
<1>5. GroupAtRest'
  BY <1>1, <1>2 DEF GroupAtRest
<1> QED BY <1>4, <1>5

(* Every step.                                                             *)
LEMMA BoundStep ==
  ASSUME TypeOK, NewChild, GroupAtRest, [Next]_vars
  PROVE  (\A q \in Pids : Bound(q)) /\ GroupAtRest'
<1>t. /\ life \in [Pids -> Lives] /\ group \in [Pids -> Pids \cup {Shell}]
      /\ pgarg \in [Pids -> Pids \cup {NoPid, Shell}]
  BY DEF TypeOK, KernelType
<1>1. CASE UNCHANGED <<life, group, pgarg>>
  <2>1. \A q \in Pids : Bound(q)
    BY <1>1, BoundUntouched
  <2> QED BY <1>1, <2>1 DEF GroupAtRest
<1>2. CASE Fork
  <2>1. PICK p \in unused : life' = [life EXCEPT ![p] = "forked"]
                            /\ pgarg' = [pgarg EXCEPT ![p] = stageGroup] /\ newpid' = p
    BY <1>2 DEF Fork
  <2>2. p \in Pids /\ life[p] = "none" /\ group' = group
    BY <1>2 DEF unused, Fork
  <2>3. \A q \in Pids : q # p => life'[q] = life[q] /\ group'[q] = group[q] /\ pgarg'[q] = pgarg[q]
    BY <1>t, <2>1, <2>2
  <2>4. life'[p] = "forked"
    BY <1>t, <2>1, <2>2
  <2>5. Bound(p)
    BY <2>1, <2>2, <2>4 DEF Bound
  <2>6. \A q \in Pids : Bound(q)
    BY <2>3, <2>5, BoundUntouched
  <2>7. GroupAtRest'
    BY <2>2, <2>3, <2>4 DEF GroupAtRest
  <2> QED BY <2>6, <2>7
<1>3. CASE DoHistory
  <2>1. PICK p \in unused : life' = [life EXCEPT ![p] = "forked"]
                            /\ pgarg' = [pgarg EXCEPT ![p] = Shell]
    BY <1>3 DEF DoHistory
  <2>2. p \in Pids /\ life[p] = "none" /\ group' = group
    BY <1>3 DEF unused, DoHistory
  <2>3. \A q \in Pids : q # p => life'[q] = life[q] /\ group'[q] = group[q] /\ pgarg'[q] = pgarg[q]
    BY <1>t, <2>1, <2>2
  <2>4. life'[p] = "forked" /\ pgarg'[p] = Shell
    BY <1>t, <2>1, <2>2
  <2>5. Bound(p)
    BY <2>2, <2>4, ShellAssumption DEF Bound, aim
  <2>6. \A q \in Pids : Bound(q)
    BY <2>3, <2>5, BoundUntouched
  <2>7. GroupAtRest'
    BY <2>2, <2>3, <2>4 DEF GroupAtRest
  <2> QED BY <2>6, <2>7
<1>4. CASE UNCHANGED <<group, pgarg>> /\ \E S : Continue(S)
  BY <1>4, BoundContinued
<1>5. ASSUME NEW p \in Pids, HandlerWaitpid(p)
      PROVE  (\A q \in Pids : Bound(q)) /\ GroupAtRest'
  <2>1. /\ life' = [life EXCEPT ![p] = IF event[p] = Exited THEN "gone" ELSE @]
        /\ group' = [group EXCEPT ![p] = IF event[p] = Exited THEN Shell ELSE @]
        /\ pgarg' = pgarg
    BY <1>5 DEF HandlerWaitpid
  <2>2. \A q \in Pids : \/ life'[q] = life[q] /\ group'[q] = group[q] /\ pgarg'[q] = pgarg[q]
                        \/ life'[q] = "gone" /\ group'[q] = Shell
    BY <1>t, <2>1
  <2>3. ASSUME NEW q \in Pids, life'[q] = "gone" PROVE Bound(q)
    BY <2>3 DEF Bound, exists, Live
  <2>4. \A q \in Pids : Bound(q)
    BY <2>2, <2>3, BoundUntouched
  <2>5. GroupAtRest'
    BY <2>2 DEF GroupAtRest
  <2> QED BY <2>4, <2>5
<1> QED BY <1>1, <1>2, <1>3, <1>4, <1>5, BoundChild, ProcessSteps

-------------------------------------------------------------------------------
(* Groups and slots. *)

PgidForked(t) == \A j \in DOMAIN t : t[j].pgid # NoPid => life[t[j].pgid] # "none"

(* Who is in a slot is bound for its group, and who is bound for the group *)
(* of a slot is in the slot, or about to be.                               *)
EntriesAim(t) ==
  \A j \in DOMAIN t : \A i \in DOMAIN t[j].proc :
    life[t[j].proc[i].pid] \in Live => aim(t[j].proc[i].pid) = t[j].pgid

AimedOwned(t) ==
  \A j \in DOMAIN t : \A p \in Pids :
    t[j].pgid # NoPid /\ exists(p) /\ p # newpid /\ aim(p) = t[j].pgid =>
      \E i \in DOMAIN t[j].proc : t[j].proc[i].pid = p

Grouping(t) == Distinct(t) /\ PgidForked(t) /\ EntriesAim(t) /\ AimedOwned(t)

(* The leader of a group was forked before anybody is bound for it.        *)
AimForked == \A p \in Pids : exists(p) => aim(p) = Shell \/ life[aim(p)] # "none"

(* The job that is being launched has its leader's group, which no other   *)
(* job and no other process has, and the child that is not in the table    *)
(* yet is bound for it.                                                    *)
NewGroup ==
  /\ pc = "addjob" =>
       /\ lead = newpid
       /\ \A j \in DOMAIN jobs : jobs[j].pgid # lead
       /\ \A q \in Pids : q # newpid /\ exists(q) => aim(q) # lead
  /\ pc = "addproc" \/ (pc = "fork" /\ lead # NoPid) =>
       jobs[job].pgid = lead /\ (~bg => job = FG)
  /\ newpid # NoPid =>
       /\ life[newpid] \in Live => aim(newpid) = lead
       /\ exists(newpid) => aim(newpid) \in {lead, Shell}

GroupInv == GroupAtRest /\ AimForked /\ Grouping(jobs) /\ NewGroup

(* The slots of u hold the processes of a slot of t.                       *)
SamePids(a, b) ==
  /\ a.pgid = b.pgid /\ DOMAIN a.proc = DOMAIN b.proc
  /\ \A i \in DOMAIN a.proc : a.proc[i].pid = b.proc[i].pid

Carried(t, u) ==
  /\ \A k \in DOMAIN u : u[k].pgid # NoPid => \E j \in DOMAIN t : SamePids(u[k], t[j])
  /\ Distinct(t) => Distinct(u)

(* Rearranging a table carries its processes along.                        *)
LEMMA RearrangedCarried ==
  ASSUME NEW S, NEW t, NEW u, Rearranged(S, t, u)
  PROVE  Carried(t, u)
BY DEF Rearranged, Carried, Alike, Same, SamePids

(* What the handler does to a slot.                                        *)
LEMMA RecordTable ==
  ASSUME SafetyInv, HandlerRecord
  PROVE  /\ DOMAIN jobs' = DOMAIN jobs /\ hpid \in Pids /\ hstatus \in Status
         /\ \A j \in DOMAIN jobs :
              /\ SamePids(jobs'[j], jobs[j])
              /\ \A i \in DOMAIN jobs[j].proc :
                   jobs'[j].proc[i].state = IF jobs[j].proc[i].pid = hpid THEN stateAfter(hstatus)
                                            ELSE jobs[j].proc[i].state
<1>t. /\ njobmax \in Nat /\ jobs \in Table(njobmax) /\ DOMAIN jobs = 0 .. njobmax - 1
      /\ hpid \in Pids /\ hstatus \in Status /\ Occupied(jobs) /\ Once(jobs)
  BY TheTable DEF SafetyInv, TypeOK, HandlerType, HandlerRecord, TableSound, Sound
<1>1. jobs' = record(jobs, hpid, hstatus)
  BY DEF HandlerRecord
<1>2. DOMAIN jobs' = DOMAIN jobs
  BY <1>1, <1>t, RecordType DEF Table
<1>3. ASSUME NEW j \in DOMAIN jobs
      PROVE  /\ SamePids(jobs'[j], jobs[j])
             /\ \A i \in DOMAIN jobs[j].proc :
                  jobs'[j].proc[i].state = IF jobs[j].proc[i].pid = hpid THEN stateAfter(hstatus)
                                           ELSE jobs[j].proc[i].state
  BY <1>1, <1>t, RecordedEntries DEF SamePids
<1> QED BY <1>t, <1>2, <1>3

(* The handler carries everything along.                                   *)
LEMMA RecordCarried ==
  ASSUME SafetyInv, HandlerRecord
  PROVE  Carried(jobs, jobs')
<1>1. \A k \in DOMAIN jobs' : k \in DOMAIN jobs /\ SamePids(jobs'[k], jobs[k])
  BY RecordTable
<1>2. Distinct(jobs) => Distinct(jobs')
  BY <1>1 DEF Distinct, SamePids
<1> QED BY <1>1, <1>2 DEF Carried

(* The groups of processes agree with the slots that were carried along.   *)
LEMMA CarriedGroups ==
  ASSUME TypeOK, TypeOK', Grouping(jobs), AimForked, Forked(jobs), Occupied(jobs)',
         Carried(jobs, jobs'), \A q \in Pids : Bound(q), newpid' = newpid \/ newpid = NoPid
  PROVE  Grouping(jobs)'
<1>t. /\ \A j \in DOMAIN jobs : jobs[j] \in Job
      /\ \A j \in DOMAIN jobs' : jobs'[j] \in Job
  BY DEF TypeOK, TableType
<1>p. ASSUME NEW j \in DOMAIN jobs, NEW i \in DOMAIN jobs[j].proc
      PROVE  jobs[j].proc[i].pid \in Pids /\ life[jobs[j].proc[i].pid] # "none"
  <2>1. jobs[j].proc[i] \in Proc
    BY <1>t DEF Job
  <2> QED BY <2>1 DEF Proc, Forked
<1>g. \A j \in DOMAIN jobs : jobs[j].pgid # NoPid => jobs[j].pgid \in Pids
  BY <1>t DEF Job
<1>1. Distinct(jobs)'
  BY DEF Carried, Grouping, Distinct
<1>2. PgidForked(jobs)'
  <2> SUFFICES ASSUME NEW k \in DOMAIN jobs', jobs'[k].pgid # NoPid
               PROVE  life'[jobs'[k].pgid] # "none"
    BY DEF PgidForked
  <2>1. PICK j \in DOMAIN jobs : SamePids(jobs'[k], jobs[j])
    BY DEF Carried
  <2>2. jobs'[k].pgid = jobs[j].pgid
    BY <2>1 DEF SamePids
  <2>3. jobs[j].pgid \in Pids /\ life[jobs[j].pgid] # "none"
    BY <1>g, <2>2 DEF Grouping, PgidForked
  <2> QED BY <2>2, <2>3 DEF Bound
<1>3. EntriesAim(jobs)'
  <2>1. ASSUME NEW k \in DOMAIN jobs', NEW i \in DOMAIN jobs'[k].proc,
               NEW q \in Pids, q = jobs'[k].proc[i].pid, life'[q] \in Live
        PROVE  aim(q)' = jobs'[k].pgid
    <3>1. jobs'[k].pgid # NoPid
      BY DEF Occupied
    <3>2. PICK j \in DOMAIN jobs : SamePids(jobs'[k], jobs[j])
      BY <3>1 DEF Carried
    <3>3. jobs'[k].pgid = jobs[j].pgid /\ i \in DOMAIN jobs[j].proc /\ q = jobs[j].proc[i].pid
      BY <2>1, <3>2 DEF SamePids
    <3>4. life[q] # "none"
      BY <1>p, <3>3
    <3>5. life[q] \in Live /\ aim(q)' = aim(q)
      BY <2>1, <3>4 DEF Bound
    <3> QED BY <3>3, <3>5 DEF Grouping, EntriesAim
  <2>2. ASSUME NEW k \in DOMAIN jobs', NEW i \in DOMAIN jobs'[k].proc
        PROVE  jobs'[k].proc[i].pid \in Pids
    <3>1. jobs'[k].proc[i] \in Proc
      BY <1>t DEF Job
    <3> QED BY <3>1 DEF Proc
  <2> QED BY <2>1, <2>2 DEF EntriesAim, aim
<1>4. AimedOwned(jobs)'
  <2> SUFFICES ASSUME NEW k \in DOMAIN jobs', NEW q \in Pids, jobs'[k].pgid # NoPid,
                      exists(q)', q # newpid', aim(q)' = jobs'[k].pgid
               PROVE  \E i \in DOMAIN jobs'[k].proc : jobs'[k].proc[i].pid = q
    BY DEF AimedOwned
  <2>1. PICK j \in DOMAIN jobs : SamePids(jobs'[k], jobs[j])
    BY DEF Carried
  <2>2. jobs[j].pgid = jobs'[k].pgid /\ jobs[j].pgid \in Pids
    BY <1>g, <2>1 DEF SamePids
  <2>3. aim(q)' # Shell
    BY <2>2, ShellAssumption
  <2>4. exists(q) /\ aim(q)' = aim(q) /\ q # newpid
    <3>1. life[q] # "none"
      BY <2>3 DEF Bound
    <3>2. exists(q) /\ aim(q)' = aim(q)
      BY <2>3, <3>1 DEF Bound
    <3> QED BY <3>2, PidAssumption
  <2>5. PICK i \in DOMAIN jobs[j].proc : jobs[j].proc[i].pid = q
    BY <2>2, <2>4 DEF Grouping, AimedOwned
  <2> QED BY <2>1, <2>5 DEF SamePids
<1> QED BY <1>1, <1>2, <1>3, <1>4 DEF Grouping

(* Leaders stay forked.                                                    *)
LEMMA AimsStayForked ==
  ASSUME TypeOK, AimForked, \A q \in Pids : Bound(q),
         newpid' # NoPid /\ life[newpid'] = "none" => aim(newpid)' = Shell \/ life'[aim(newpid)'] # "none"
  PROVE  AimForked'
<1> SUFFICES ASSUME NEW q \in Pids, exists(q)', aim(q)' # Shell
             PROVE  life'[aim(q)'] # "none"
  BY DEF AimForked
<1>1. CASE life[q] = "none"
  <2>1. q = newpid'
    BY <1>1 DEF Bound
  <2>2. aim(newpid)' = aim(q)'
    BY <2>1 DEF aim
  <2> QED BY <1>1, <2>1, <2>2, PidAssumption
<1>2. CASE life[q] # "none"
  <2>1. exists(q) /\ aim(q)' = aim(q)
    BY <1>2 DEF Bound
  <2>2. life[aim(q)] # "none"
    BY <2>1 DEF AimForked
  <2>3. aim(q) \in Pids
    BY <2>1 DEF aim, TypeOK, KernelType
  <2> QED BY <2>1, <2>2, <2>3 DEF Bound
<1> QED BY <1>1, <1>2

(* What the launch of a job works on does not change but in the launch.    *)
LEMMA WindowSteps ==
  ASSUME SafetyInv, [Next]_vars
  PROVE  \/ Fork \/ AddJob \/ AddProc
         \/ UNCHANGED <<jobs, pc, lead, newpid, job, bg>>
         \/ /\ pc \notin Window /\ newpid' = newpid
            /\ pc' \in Window => pc' = "fork" /\ lead' = NoPid /\ jobs' = jobs
<1>1. CASE User
  <2>1. pc = "readline" /\ newpid' = newpid
    BY <1>1 DEF User, Launch, DoResume, DoKill, DoJobs, DoHistory, DoQuit, Wait, MainAt, command
  <2>2. lead = NoPid
    BY <2>1 DEF SafetyInv, NewChild, Window
  <2>3. pc' \in Window => pc' = "fork" /\ lead' = lead /\ jobs' = jobs
    BY <1>1 DEF User, Launch, DoResume, DoKill, DoJobs, DoHistory, DoQuit, Wait, WatchThen,
                Goto, Window, table
  <2> QED BY <2>1, <2>2, <2>3 DEF Window
<1>2. CASE MainStep /\ ~(Fork \/ AddJob \/ AddProc)
  <2>1. CASE \/ Unmask \/ LoopEnd \/ ResumeCont \/ ResumeDone \/ Kill \/ ShutdownJob
             \/ ShutdownEnd \/ GiveTerminal \/ ContForeground
    BY <2>1 DEF Unmask, LoopEnd, ResumeCont, ResumeDone, Kill, ShutdownJob, ShutdownEnd,
                GiveTerminal, ContForeground, KillJob, WatchThen, MainAt, Goto, Window, command
  <2>2. CASE \/ WhileStopped \/ SleepStopped \/ WhileRunning \/ SleepRunning
             \/ Reread \/ Remask \/ FinishStopped \/ FinishFinished \/ FinishRunning
    BY <2>2 DEF WhileStopped, SleepStopped, WhileRunning, SleepRunning, Reread, Remask,
                FinishStopped, FinishFinished, FinishRunning, Wait, WatchThen, MainAt, Goto,
                Window, command
  <2> QED BY <1>2, <2>1, <2>2 DEF MainStep
<1>3. CASE HandlerStep
  <2>1. pc \notin Window /\ newpid' = newpid
    BY <1>3 DEF HandlerStep, HandlerEnter, HandlerWaitpid, HandlerRecord, HandlerWaitpidNone,
                HandlerReturn, deliverable, sleeping, Asleep, SafetyInv, WindowClosed, Window,
                command
  <2>2. pc' = pc \/ pc' = awake(pc)
    BY <1>3 DEF HandlerStep, HandlerEnter, HandlerWaitpid, HandlerRecord, HandlerWaitpidNone,
                HandlerReturn
  <2> QED BY <2>1, <2>2, AwakeOutside
<1>4. CASE Children
  BY <1>4 DEF Children, ChildStep, ChildStart, Exit, Stop, OtherCont, OtherKill, SetModes,
              table, command
<1>5. CASE UNCHANGED vars
  BY <1>5 DEF vars, table, command
<1> QED BY <1>1, <1>2, <1>3, <1>4, <1>5 DEF Next

(* A child that is going to be entered does not change its mind meanwhile. *)
LEMMA NewGroupKept ==
  ASSUME TypeOK, NewChild, NewGroup, GroupAtRest, \A q \in Pids : Bound(q),
         UNCHANGED <<jobs, pc, lead, newpid, job, bg>>
  PROVE  NewGroup'
<1>t. lead \in Pids \cup {NoPid} /\ newpid \in Pids \cup {NoPid} /\ (lead # NoPid => lead # Shell)
  BY ShellAssumption DEF TypeOK, MainType
<1>1. ASSUME pc = "addjob", NEW q \in Pids, q # newpid, exists(q)' PROVE aim(q)' # lead
  <2>1. lead # NoPid
    BY <1>1 DEF NewChild
  <2>2. CASE aim(q)' = Shell
    BY <1>t, <2>1, <2>2
  <2>3. CASE aim(q)' # Shell
    <3>1. life[q] # "none"
      BY <1>1, <2>3 DEF Bound
    <3>2. exists(q) /\ aim(q)' = aim(q)
      BY <1>1, <2>3, <3>1 DEF Bound
    <3> QED BY <1>1, <3>2 DEF NewGroup
  <2> QED BY <2>2, <2>3
<1>2. ASSUME newpid # NoPid
      PROVE  /\ life'[newpid] \in Live => aim(newpid)' = lead
             /\ exists(newpid)' => aim(newpid)' \in {lead, Shell}
  <2>1. newpid \in Pids /\ life[newpid] # "none"
    BY <1>2, <1>t DEF NewChild
  <2> QED BY <1>2, <2>1 DEF Bound, NewGroup
<1> QED BY <1>1, <1>2 DEF NewGroup, exists, aim

(* fork(): the new child is bound for the group of the job.                *)
LEMMA NewGroupFork ==
  ASSUME SafetyInv, GroupInv, \A q \in Pids : Bound(q), Fork
  PROVE  /\ NewGroup'
         /\ newpid = NoPid /\ aim(newpid)' = lead' /\ life'[lead'] # "none"
<1>t. /\ lead \in Pids \cup {NoPid} /\ TypeOK /\ NewChild
      /\ life \in [Pids -> Lives] /\ pgarg \in [Pids -> Pids \cup {NoPid, Shell}]
  BY DEF SafetyInv, TypeOK, MainType, KernelType
<1>1. PICK p \in unused : /\ life' = [life EXCEPT ![p] = "forked"]
                          /\ pgarg' = [pgarg EXCEPT ![p] = lead]
                          /\ newpid' = p
                          /\ lead' = IF lead = NoPid THEN p ELSE lead
  BY DEF Fork, stageGroup
<1>2. /\ pc = "fork" /\ pc' = (IF lead = NoPid THEN "addjob" ELSE "addproc")
      /\ UNCHANGED <<jobs, bg, job>>
  BY DEF Fork, MainAt, Goto, table
<1>3. p \in Pids /\ life[p] = "none" /\ p # NoPid /\ p # Shell
  BY PidAssumption, ShellAssumption DEF unused
<1>4. newpid = NoPid
  BY <1>2, <1>t DEF NewChild
<1>5. life'[p] = "forked" /\ aim(p)' = lead'
  BY <1>1, <1>3, <1>t DEF aim
<1>6. aim(newpid)' = lead'
  BY <1>1, <1>5 DEF aim
<1>7. CASE lead = NoPid
  <2>1. \A j \in DOMAIN jobs : jobs[j].pgid # p
    BY <1>3 DEF GroupInv, Grouping, PgidForked
  <2>2. ASSUME NEW q \in Pids, q # p, exists(q)' PROVE aim(q)' # p
    <3>1. CASE aim(q)' = Shell
      BY <1>3, <3>1
    <3>2. CASE aim(q)' # Shell
      <4>1. exists(q) /\ aim(q)' = aim(q)
        BY <1>1, <2>2, <3>2 DEF Bound
      <4>2. life[aim(q)] # "none"
        BY <3>2, <4>1 DEF GroupInv, AimForked
      <4> QED BY <1>3, <4>1, <4>2
    <3> QED BY <3>1, <3>2
  <2>3. NewGroup'
    BY <1>1, <1>2, <1>6, <1>7, <2>1, <2>2 DEF NewGroup, aim, exists
  <2> QED BY <1>1, <1>4, <1>5, <1>6, <1>7, <2>3
<1>8. CASE lead # NoPid
  <2>1. NewGroup'
    BY <1>1, <1>2, <1>6, <1>8 DEF GroupInv, NewGroup, aim, exists
  <2>2. life'[lead] # "none"
    <3>1. jobs[job].pgid = lead
      BY <1>2, <1>8 DEF GroupInv, NewGroup
    <3>2. job \in DOMAIN jobs
      <4>1. job \in Nat /\ job < njobmax
        BY <1>2, <1>t DEF TypeOK, MainType, Terminal
      <4> QED BY <1>t, <4>1, TheTable
    <3>3. life[lead] # "none" /\ lead \in Pids
      BY <1>8, <1>t, <3>1, <3>2 DEF GroupInv, Grouping, PgidForked
    <3> QED BY <3>3 DEF Bound
  <2> QED BY <1>1, <1>4, <1>6, <1>8, <2>1, <2>2
<1> QED BY <1>7, <1>8

(* What addjob() does to the table.                                        *)
LEMMA AddJobTable ==
  ASSUME TypeOK, AddJob
  PROVE  /\ job' = (IF bg THEN allocjob(jobs, njobmax) ELSE FG)
         /\ DOMAIN jobs' = DOMAIN jobs \cup {job'}
         /\ jobs'[job'] = newJob(lead)
         /\ \A j \in DOMAIN jobs : j # job' => jobs'[j] = jobs[j]
         /\ bg => job' # FG /\ (job' \in DOMAIN jobs => jobs[job'].pgid = NoPid)
         /\ pc = "addjob" /\ pc' = "addproc" /\ UNCHANGED <<lead, newpid, bg>>
<1> DEFINE k == IF bg THEN allocjob(jobs, njobmax) ELSE FG
<1>1. /\ jobs' = [grown(jobs, k) EXCEPT ![k] = newJob(lead)] /\ job' = k
      /\ pc = "addjob" /\ pc' = "addproc" /\ UNCHANGED <<lead, newpid, bg>>
  BY DEF AddJob, MainAt, Goto
<1>2. bg => k # FG /\ (k \in DOMAIN jobs => jobs[k].pgid = NoPid)
  <2>1. /\ allocjob(jobs, njobmax) \in 1 .. njobmax
        /\ allocjob(jobs, njobmax) # njobmax => jobs[allocjob(jobs, njobmax)].pgid = NoPid
        /\ njobmax \in Nat /\ DOMAIN jobs = 0 .. njobmax - 1
    BY TheTable, AllocjobIsFree
  <2> QED BY <2>1 DEF FG
<1> HIDE DEF k
<1>3. /\ DOMAIN grown(jobs, k) = DOMAIN jobs \cup {k}
      /\ \A j \in DOMAIN jobs : grown(jobs, k)[j] = jobs[j]
  BY DEF grown
<1>4. /\ DOMAIN jobs' = DOMAIN jobs \cup {k}
      /\ jobs'[k] = newJob(lead)
      /\ \A j \in DOMAIN jobs : j # k => jobs'[j] = jobs[j]
  BY <1>1, <1>3
<1> QED BY <1>1, <1>2, <1>4 DEF k

(* What addproc() does to it.                                              *)
LEMMA AddProcTable ==
  ASSUME SafetyInv, AddProc
  PROVE  /\ pc = "addproc" /\ job \in DOMAIN jobs /\ newpid \in Pids /\ newpid' = NoPid
         /\ DOMAIN jobs' = DOMAIN jobs
         /\ \A j \in DOMAIN jobs : j # job => jobs'[j] = jobs[j]
         /\ jobs'[job].pgid = jobs[job].pgid /\ jobs'[job].state = jobs[job].state
         /\ \E m : /\ DOMAIN jobs'[job].proc = DOMAIN jobs[job].proc \cup {m}
                   /\ jobs'[job].proc[m] = newProc(newpid)
                   /\ \A i \in DOMAIN jobs[job].proc : jobs'[job].proc[i] = jobs[job].proc[i]
<1>1. /\ pc = "addproc" /\ newpid' = NoPid
      /\ jobs' = [jobs EXCEPT ![job].proc = Append(@, newProc(newpid))]
  BY DEF AddProc, MainAt
<1>2. job \in DOMAIN jobs /\ newpid \in Pids /\ jobs[job] \in Job
  <2>1. job \in Nat /\ job < njobmax /\ newpid \in Pids
    BY <1>1 DEF SafetyInv, TypeOK, MainType, Terminal
  <2> QED BY <2>1, TheTable DEF SafetyInv
<1> DEFINE n   == Len(jobs[job].proc)
           new == Append(jobs[job].proc, newProc(newpid))
<1>3. jobs[job].proc \in Seq(Proc) /\ n \in Nat
  BY <1>2, LenProperties DEF Job
<1>4. /\ DOMAIN jobs[job].proc = 1 .. n /\ DOMAIN new = 1 .. n + 1
      /\ new[n + 1] = newProc(newpid)
      /\ \A i \in 1 .. n : new[i] = jobs[job].proc[i]
  BY <1>2, <1>3, NewProcType, AppendProperties, LenProperties
<1>5. jobs' = [jobs EXCEPT ![job] = [jobs[job] EXCEPT !.proc = new]]
  BY <1>1
<1> HIDE DEF n, new
<1>6. /\ DOMAIN jobs' = DOMAIN jobs
      /\ \A j \in DOMAIN jobs : j # job => jobs'[j] = jobs[j]
      /\ jobs'[job].proc = new /\ jobs'[job].pgid = jobs[job].pgid
      /\ jobs'[job].state = jobs[job].state
  BY <1>2, <1>5 DEF Job
<1>7. /\ DOMAIN jobs'[job].proc = DOMAIN jobs[job].proc \cup {n + 1}
      /\ jobs'[job].proc[n + 1] = newProc(newpid)
      /\ \A i \in DOMAIN jobs[job].proc : jobs'[job].proc[i] = jobs[job].proc[i]
  BY <1>3, <1>4, <1>6
<1> QED BY <1>1, <1>2, <1>6, <1>7

(* addjob(): the slot gets a group that nobody has but the new child.      *)
LEMMA AddJobGroups ==
  ASSUME SafetyInv, GroupInv, AddJob
  PROVE  Grouping(jobs)' /\ NewGroup'
<1>t. NewChild /\ TypeOK /\ lead \in Pids \cup {NoPid} /\ newpid \in Pids \cup {NoPid}
  BY DEF SafetyInv, TypeOK, MainType
<1>u. UNCHANGED <<life, group, pgarg>>
  BY DEF AddJob, UnchangedKernel, procs
<1> DEFINE k == job'
<1>1. /\ DOMAIN jobs' = DOMAIN jobs \cup {k} /\ jobs'[k] = newJob(lead)
      /\ \A j \in DOMAIN jobs : j # k => jobs'[j] = jobs[j]
      /\ pc = "addjob" /\ pc' = "addproc" /\ UNCHANGED <<lead, newpid, bg>>
      /\ ~bg => k = FG
  BY <1>t, AddJobTable
<1>2. newJob(lead).pgid = lead /\ DOMAIN newJob(lead).proc = {}
  BY DEF newJob
<1>3. /\ lead # NoPid /\ lead = newpid /\ life[lead] # "none"
      /\ \A j \in DOMAIN jobs : jobs[j].pgid # lead
      /\ \A q \in Pids : q # newpid /\ exists(q) => aim(q) # lead
  BY <1>1, <1>t DEF GroupInv, NewGroup, NewChild
<1> HIDE DEF k
<1>4. Distinct(jobs)'
  BY <1>1, <1>2, <1>3 DEF Distinct, GroupInv, Grouping
<1>5. PgidForked(jobs)'
  BY <1>1, <1>2, <1>3, <1>u DEF PgidForked, GroupInv, Grouping
<1>6. EntriesAim(jobs)'
  <2>1. ASSUME NEW j \in DOMAIN jobs', NEW i \in DOMAIN jobs'[j].proc
        PROVE  j \in DOMAIN jobs /\ jobs'[j] = jobs[j]
    BY <1>1, <1>2
  <2> QED BY <1>u, <2>1 DEF EntriesAim, GroupInv, Grouping, aim
<1>7. AimedOwned(jobs)'
  <2>1. ASSUME NEW j \in DOMAIN jobs', NEW q \in Pids, jobs'[j].pgid # NoPid,
               exists(q), q # newpid, aim(q) = jobs'[j].pgid
        PROVE  j \in DOMAIN jobs /\ jobs'[j] = jobs[j]
    BY <1>1, <1>2, <1>3, <2>1
  <2> QED BY <1>1, <1>u, <2>1 DEF AimedOwned, GroupInv, Grouping, aim, exists
<1>8. NewGroup'
  <2>1. jobs'[job'].pgid = lead' /\ (~bg' => job' = FG)
    BY <1>1, <1>2 DEF k
  <2> QED BY <1>1, <1>u, <2>1 DEF GroupInv, NewGroup, aim, exists
<1> QED BY <1>4, <1>5, <1>6, <1>7, <1>8 DEF Grouping

(* addproc(): the child is bound for the group of its slot.                *)
LEMMA AddProcGroups ==
  ASSUME SafetyInv, GroupInv, AddProc
  PROVE  Grouping(jobs)' /\ NewGroup'
<1>t. /\ NewChild /\ TypeOK /\ lead \in Pids \cup {NoPid} /\ lead # Shell
      /\ \A j \in DOMAIN jobs : jobs[j] \in Job
  BY TheTable, ShellAssumption DEF SafetyInv, TypeOK, MainType
<1>u. UNCHANGED <<life, group, pgarg>>
  BY DEF AddProc, UnchangedKernel, procs
<1>1. /\ pc = "addproc" /\ job \in DOMAIN jobs /\ newpid \in Pids /\ newpid' = NoPid
      /\ DOMAIN jobs' = DOMAIN jobs
      /\ \A j \in DOMAIN jobs : j # job => jobs'[j] = jobs[j]
      /\ jobs'[job].pgid = jobs[job].pgid
  BY AddProcTable
<1>2. PICK m : /\ DOMAIN jobs'[job].proc = DOMAIN jobs[job].proc \cup {m}
               /\ jobs'[job].proc[m] = newProc(newpid)
               /\ \A i \in DOMAIN jobs[job].proc : jobs'[job].proc[i] = jobs[job].proc[i]
  BY AddProcTable
<1>3. newProc(newpid).pid = newpid /\ newpid # NoPid
  BY <1>1, PidAssumption DEF newProc
<1>4. /\ jobs[job].pgid = lead
      /\ life[newpid] \in Live => aim(newpid) = lead
      /\ exists(newpid) => aim(newpid) \in {lead, Shell}
  BY <1>1, <1>3 DEF GroupInv, NewGroup
<1>5. \A j \in DOMAIN jobs : jobs'[j].pgid = jobs[j].pgid
  BY <1>1
<1>6. Distinct(jobs)' /\ PgidForked(jobs)'
  BY <1>1, <1>5, <1>u DEF Distinct, PgidForked, GroupInv, Grouping
<1>7. EntriesAim(jobs)'
  <2>1. ASSUME NEW j \in DOMAIN jobs, NEW i \in DOMAIN jobs'[j].proc
        PROVE  \/ i \in DOMAIN jobs[j].proc /\ jobs'[j].proc[i] = jobs[j].proc[i]
               \/ jobs'[j].proc[i].pid = newpid /\ jobs[j].pgid = lead
    BY <1>1, <1>2, <1>3, <1>4
  <2>2. ASSUME NEW j \in DOMAIN jobs, NEW i \in DOMAIN jobs'[j].proc,
               life[jobs'[j].proc[i].pid] \in Live
        PROVE  aim(jobs'[j].proc[i].pid) = jobs[j].pgid
    BY <1>4, <2>1, <2>2 DEF GroupInv, Grouping, EntriesAim
  <2> QED BY <1>1, <1>5, <1>u, <2>2 DEF EntriesAim, aim
<1>8. AimedOwned(jobs)'
  <2>1. ASSUME NEW j \in DOMAIN jobs, NEW q \in Pids, jobs[j].pgid # NoPid,
               exists(q), aim(q) = jobs[j].pgid
        PROVE  \E i \in DOMAIN jobs'[j].proc : jobs'[j].proc[i].pid = q
    <3>1. CASE q = newpid
      <4>1. jobs[j].pgid # Shell
        BY <1>t, <2>1, ShellAssumption DEF Job
      <4>2. jobs[j].pgid = jobs[job].pgid
        BY <1>4, <2>1, <3>1, <4>1
      <4>3. j = job
        BY <1>1, <2>1, <4>2 DEF GroupInv, Grouping, Distinct
      <4> QED BY <1>2, <1>3, <3>1, <4>3
    <3>2. CASE q # newpid
      <4>1. PICK i \in DOMAIN jobs[j].proc : jobs[j].proc[i].pid = q
        BY <2>1, <3>2 DEF GroupInv, Grouping, AimedOwned
      <4>2. i \in DOMAIN jobs'[j].proc /\ jobs'[j].proc[i] = jobs[j].proc[i]
        BY <1>1, <1>2
      <4> QED BY <4>1, <4>2
    <3> QED BY <3>1, <3>2
  <2> QED BY <1>1, <1>5, <1>u, <2>1 DEF AimedOwned, aim, exists
<1>9. NewGroup'
  <2>1. \/ pc' = "fork" /\ UNCHANGED <<lead, job, bg>>
        \/ pc' \in {"unmask", "tcsetpgrp"}
    BY DEF AddProc, Goto
  <2>2. pc' = "fork" => jobs'[job'].pgid = lead' /\ (~bg' => job' = FG)
    BY <1>1, <1>4, <2>1 DEF GroupInv, NewGroup
  <2> QED BY <1>1, <2>1, <2>2 DEF NewGroup
<1> QED BY <1>6, <1>7, <1>8, <1>9 DEF Grouping

(* Every step.                                                             *)
LEMMA GroupStep ==
  ASSUME SafetyInv, SafetyInv', SlotInv(Idle), GroupInv, [Next]_vars
  PROVE  GroupInv'
<1>t. /\ TypeOK /\ TypeOK' /\ NewChild /\ NewChild' /\ Forked(jobs) /\ Occupied(jobs)'
      /\ GroupAtRest /\ AimForked /\ Grouping(jobs) /\ NewGroup
  BY DEF SafetyInv, TableSound, Sound, GroupInv
<1>1. (\A q \in Pids : Bound(q)) /\ GroupAtRest'
  BY <1>t, BoundStep
<1>2. AimForked'
  <2>1. CASE Fork
    BY <1>1, <1>t, <2>1, NewGroupFork, AimsStayForked
  <2>2. CASE ~Fork
    <3>1. newpid' = newpid \/ newpid' = NoPid
      BY <2>2, WindowSteps DEF AddJob, AddProc
    <3>2. newpid' # NoPid => life[newpid'] # "none"
      BY <1>t, <3>1 DEF NewChild
    <3> QED BY <1>1, <1>t, <3>2, AimsStayForked
  <2> QED BY <2>1, <2>2
<1>3. CASE AddJob \/ AddProc
  BY <1>1, <1>2, <1>3, AddJobGroups, AddProcGroups DEF GroupInv
<1>4. CASE ~(AddJob \/ AddProc)
  <2>1. Carried(jobs, jobs')
    BY <1>4, <1>t, TableStep, RearrangedCarried, RecordCarried
  <2>2. newpid' = newpid \/ newpid = NoPid
    BY <1>1, <1>4, WindowSteps, NewGroupFork
  <2>3. Grouping(jobs)'
    BY <1>1, <1>t, <2>1, <2>2, CarriedGroups
  <2>4. NewGroup'
    <3>1. CASE Fork
      BY <1>1, <3>1, NewGroupFork
    <3>2. CASE UNCHANGED <<jobs, pc, lead, newpid, job, bg>>
      BY <1>1, <1>t, <3>2, NewGroupKept
    <3>3. CASE /\ pc \notin Window /\ newpid' = newpid
               /\ pc' \in Window => pc' = "fork" /\ lead' = NoPid /\ jobs' = jobs
      <4>1. newpid' = NoPid
        BY <1>t, <3>3 DEF NewChild, Window
      <4> QED BY <3>3, <4>1 DEF NewGroup, Window
    <3> QED BY <1>4, <3>1, <3>2, <3>3, WindowSteps
  <2> QED BY <1>1, <1>2, <2>3, <2>4 DEF GroupInv
<1> QED BY <1>3, <1>4

(* At first there is no job and no process.                                *)
LEMMA GroupInit == Init => GroupInv
<1> SUFFICES ASSUME Init PROVE GroupInv
  OBVIOUS
<1>1. /\ \A p \in Pids : life[p] = "none" /\ group[p] = Shell
      /\ \A j \in DOMAIN jobs : jobs[j] = ZeroJob
      /\ pc = "readline" /\ newpid = NoPid
  BY DEF Init
<1>2. ZeroJob.pgid = NoPid /\ DOMAIN ZeroJob.proc = {}
  BY DEF ZeroJob
<1>3. GroupAtRest /\ AimForked
  BY <1>1 DEF GroupAtRest, AimForked, exists
<1>4. Grouping(jobs)
  BY <1>1, <1>2 DEF Grouping, Distinct, PgidForked, EntriesAim, AimedOwned
<1>5. NewGroup
  BY <1>1 DEF NewGroup
<1> QED BY <1>3, <1>4, <1>5 DEF GroupInv

(* What the invariant says of signals: it is the property of the run.      *)
LEMMA GroupsOfJobs ==
  ASSUME TypeOK, GroupInv
  PROVE  GroupIsJob
<1> SUFFICES ASSUME NEW j \in DOMAIN jobs, jobs[j].pgid # NoPid
             PROVE  /\ members(jobs[j].pgid) \subseteq pidsOf(j) \cup {newpid}
                    /\ \A p \in pidsOf(j) :
                         life[p] \in {"running", "stopped"} => group[p] = jobs[j].pgid
  BY DEF GroupIsJob
<1>t. jobs[j].pgid \in Pids /\ jobs[j].pgid # Shell
  BY TheTable, ShellAssumption DEF Job
<1>1. ASSUME NEW p \in members(jobs[j].pgid) PROVE p \in pidsOf(j) \cup {newpid}
  <2>1. p \in Pids /\ exists(p) /\ group[p] = jobs[j].pgid
    BY DEF members
  <2>2. aim(p) = group[p]
    BY <1>t, <2>1 DEF aim, GroupInv, GroupAtRest
  <2> QED BY <2>1, <2>2 DEF GroupInv, Grouping, AimedOwned, pidsOf
<1>2. ASSUME NEW p \in pidsOf(j), life[p] \in {"running", "stopped"}
      PROVE  group[p] = jobs[j].pgid
  <2>1. aim(p) = jobs[j].pgid
    BY <1>2 DEF GroupInv, Grouping, EntriesAim, pidsOf, Live
  <2> QED BY <1>2, <2>1 DEF aim
<1> QED BY <1>1, <1>2

(* A signal to the group of a job reaches its processes and no other, for  *)
(* every kind of event (killjob, resumejob, monitorjob in jobs.c).         *)
THEOREM GroupsAreJobs == Spec => []GroupIsJob
<1>1. Init => SafetyInv /\ GroupInv
  BY SafetyInit, GroupInit
<1>2. SafetyInv /\ SafetyInv' /\ SlotInv(Idle) /\ GroupInv /\ [Next]_vars => GroupInv'
  BY GroupStep
<1>3. SafetyInv /\ GroupInv => GroupIsJob
  BY GroupsOfJobs DEF SafetyInv
<1>4. SlotInv({FINISHED}) => SlotInv(Idle)
  BY DEF SlotInv, SlotsSound, SlotSound, FreeSlot, Idle
<1> QED BY <1>1, <1>2, <1>3, <1>4, SafetyStep, SlotsKept, PTL DEF Spec

-------------------------------------------------------------------------------
(* The job in front. *)

(* A job has a process, but between addjob() and the first addproc().      *)
HasProcs ==
  \A j \in DOMAIN jobs :
    jobs[j].pgid # NoPid /\ DOMAIN jobs[j].proc = {} => pc = "addproc" /\ j = job

(* Who moves slots moves their processes.                                  *)
LEMMA HasProcsStep ==
  ASSUME SafetyInv, SlotInv(Idle), HasProcs, [Next]_vars
  PROVE  HasProcs'
<1>t. TypeOK
  BY DEF SafetyInv
<1>1. CASE AddJob
  BY <1>1, <1>t, AddJobTable DEF HasProcs
<1>2. CASE AddProc
  BY <1>2, AddProcTable DEF HasProcs
<1>3. CASE Fork \/ UNCHANGED <<jobs, pc, job>>
  BY <1>3 DEF HasProcs, Fork, MainAt, table
<1>4. CASE ~(AddJob \/ AddProc) /\ pc \notin Window
  <2>1. Carried(jobs, jobs')
    BY <1>4, <1>t, TableStep, RearrangedCarried, RecordCarried
  <2> QED BY <1>4, <2>1 DEF HasProcs, Carried, SamePids, Window
<1> QED BY <1>1, <1>2, <1>3, <1>4, WindowSteps

(* While monitorjob() waits, its job is in the slot FG and has the         *)
(* terminal; when monitorjob() is called there is such a job.              *)
FrontHeld ==
  /\ pc \in Monitoring => jobs[FG].pgid = tty
  /\ pc = "tcsetpgrp" => jobs[FG].pgid # NoPid

(* But for the steps that bring a job to the front or take one from there. *)
FrontStays ==
  /\ tty' = tty /\ jobs'[FG].pgid = jobs[FG].pgid
  /\ pc' \in Monitoring => pc \in Monitoring
  /\ pc' = "tcsetpgrp" => pc = "tcsetpgrp"

(* Every other step.                                                       *)
LEMMA FrontSteps ==
  ASSUME SafetyInv, [Next]_vars
  PROVE  \/ AddJob \/ AddProc \/ ResumeDone \/ GiveTerminal \/ FinishStopped \/ FinishFinished
         \/ FrontStays
<1>t. TypeOK
  BY DEF SafetyInv
<1>r. ASSUME HandlerReturn \/ DoJobs \/ LoopEnd \/ ShutdownEnd
      PROVE  jobs'[FG].pgid = jobs[FG].pgid
  BY <1>r, <1>t, ReportedTable
<1>1. CASE User
  <2>1. CASE DoJobs
    BY <1>r, <2>1 DEF DoJobs, WatchThen, Goto, Monitoring, FrontStays, termio,
                      UnchangedKernel
  <2>2. CASE ~DoJobs
    BY <1>1, <2>2 DEF User, Launch, DoResume, DoKill, DoHistory, DoQuit, Wait, Goto, Monitoring,
                      FrontStays, table, termio, UnchangedKernel
  <2> QED BY <2>1, <2>2
<1>2. CASE MainStep
  <2>1. CASE LoopEnd \/ ShutdownEnd
    BY <1>r, <2>1 DEF LoopEnd, ShutdownEnd, WatchThen, Goto, Monitoring, FrontStays, termio,
                      UnchangedKernel
  <2>2. CASE Fork \/ Unmask \/ ResumeCont \/ Kill \/ ShutdownJob \/ ContForeground
    BY <2>2 DEF Fork, Unmask, ResumeCont, Kill, ShutdownJob, ContForeground, KillJob, Goto,
                Monitoring, FrontStays, table, termio, UnchangedKernel
  <2>3. CASE \/ WhileStopped \/ SleepStopped \/ WhileRunning \/ SleepRunning
             \/ Reread \/ Remask \/ FinishRunning
    BY <2>3 DEF WhileStopped, SleepStopped, WhileRunning, SleepRunning, Reread, Remask,
                FinishRunning, Wait, MainAt, Goto, Monitoring, FrontStays, table, termio,
                UnchangedKernel
  <2> QED BY <1>2, <2>1, <2>2, <2>3 DEF MainStep
<1>3. CASE HandlerStep
  <2>1. CASE HandlerReturn
    BY <1>r, <2>1 DEF HandlerReturn, awake, Monitoring, FrontStays, termio
  <2>2. CASE HandlerRecord
    <3>1. jobs'[FG].pgid = jobs[FG].pgid
      BY <1>t, <2>2, RecordTable, TheTable DEF SamePids
    <3> QED BY <2>2, <3>1 DEF HandlerRecord, FrontStays, termio
  <2>3. CASE HandlerEnter \/ HandlerWaitpidNone \/ \E p \in Pids : HandlerWaitpid(p)
    BY <2>3 DEF HandlerEnter, HandlerWaitpidNone, HandlerWaitpid, FrontStays, table, termio
  <2> QED BY <1>3, <2>1, <2>2, <2>3 DEF HandlerStep
<1>4. CASE Children
  BY <1>4 DEF Children, ChildStep, ChildStart, Exit, Stop, OtherCont, OtherKill, SetModes,
              FrontStays, table, termio
<1>5. CASE UNCHANGED vars
  BY <1>5 DEF vars, FrontStays, table, termio
<1> QED BY <1>1, <1>2, <1>3, <1>4, <1>5 DEF Next

(* Who brings a job to the front finds one to bring.                       *)
LEMMA FrontStep ==
  ASSUME SafetyInv, SlotInv(Idle), GroupInv, FrontHeld, [Next]_vars
  PROVE  FrontHeld'
<1>t. TypeOK /\ FG \in DOMAIN jobs
  BY TheTable DEF SafetyInv
<1>1. CASE AddJob \/ FrontStays
  BY <1>1 DEF AddJob, Goto, Monitoring, FrontStays, FrontHeld
<1>2. CASE AddProc
  <2>1. /\ pc = "addproc" /\ jobs'[job].pgid = jobs[job].pgid
        /\ pc' = "tcsetpgrp" => ~bg
        /\ pc' \notin Monitoring
    BY <1>2, AddProcTable DEF AddProc, Goto, Monitoring
  <2>2. jobs[job].pgid = lead /\ lead # NoPid /\ (~bg => job = FG)
    BY <2>1 DEF GroupInv, NewGroup, SafetyInv, NewChild
  <2> QED BY <2>1, <2>2 DEF FrontHeld
<1>3. CASE ResumeDone
  <2>1. pc' = "tcsetpgrp" => jobs'[FG].pgid # NoPid
    BY <1>3, <1>t, ResumedTable DEF Alike, Same
  <2>2. pc' \notin Monitoring
    BY <1>3 DEF ResumeDone, WatchThen, Goto, Monitoring
  <2> QED BY <2>1, <2>2 DEF FrontHeld
<1>4. CASE GiveTerminal
  <2>1. jobs'[FG].pgid = jobs[FG].pgid
    BY <1>4, <1>t, TerminalTable DEF Alike, Same
  <2>2. pc' = "died" \/ (pc' = "while stopped" /\ tty' = jobs[FG].pgid)
    BY <1>4 DEF GiveTerminal, Goto
  <2> QED BY <2>1, <2>2 DEF FrontHeld, Monitoring
<1>5. CASE FinishStopped \/ FinishFinished
  <2>1. pc' \in {"unmask", "crashed", "aborted"}
    BY <1>5, <1>t, PutAwayTable, EndedTable
  <2> QED BY <2>1 DEF FrontHeld, Monitoring
<1> QED BY <1>1, <1>2, <1>3, <1>4, <1>5, FrontSteps

(* All of it together, for the modules that follow.                        *)
FrontInv == SafetyInv /\ SlotInv(Idle) /\ GroupInv /\ HasProcs /\ FrontHeld

(* At first nothing is in front.                                           *)
LEMMA FrontInit == Init => FrontInv
<1> SUFFICES ASSUME Init PROVE FrontInv
  OBVIOUS
<1>1. \A j \in DOMAIN jobs : jobs[j].pgid = NoPid
  BY DEF Init, ZeroJob
<1>2. HasProcs /\ FrontHeld
  BY <1>1 DEF HasProcs, FrontHeld, Init, Monitoring
<1>3. SlotInv(Idle)
  BY SlotInit DEF Idle
<1> QED BY <1>2, <1>3, SafetyInit, GroupInit DEF FrontInv

(* Every step keeps it.                                                    *)
LEMMA FrontNext == FrontInv /\ [Next]_vars => FrontInv'
<1> SUFFICES ASSUME FrontInv, [Next]_vars PROVE FrontInv'
  OBVIOUS
<1>1. SafetyInv'
  BY SafetyStep DEF FrontInv
<1>2. SlotInv(Idle)'
  BY SlotStep DEF FrontInv, SafetyInv, Idle
<1>3. GroupInv'
  BY <1>1, GroupStep DEF FrontInv
<1>4. HasProcs' /\ FrontHeld'
  BY HasProcsStep, FrontStep DEF FrontInv
<1> QED BY <1>1, <1>2, <1>3, <1>4 DEF FrontInv

(* What FrontHeld and HasProcs say of the slot FG.                         *)
LEMMA FrontMonitored == FrontInv => MonitoredJobKept
<1> SUFFICES ASSUME FrontInv, pc \in Monitoring
             PROVE  jobs[FG].pgid = tty /\ jobs[FG].proc # << >>
  BY DEF MonitoredJobKept
<1>1. jobs[FG].pgid = tty /\ tty # NoPid /\ FG \in DOMAIN jobs
  BY TheTable, PidAssumption, ShellAssumption
     DEF FrontInv, FrontHeld, SafetyInv, TypeOK, KernelType
<1>2. DOMAIN jobs[FG].proc # {}
  BY <1>1 DEF FrontInv, HasProcs, Monitoring
<1> QED BY <1>1, <1>2

(* The job that monitorjob() waits for stays in the slot FG with its       *)
(* processes and keeps the terminal, for every kind of event.              *)
THEOREM MonitoredStays == Spec => []MonitoredJobKept
BY FrontInit, FrontNext, FrontMonitored, PTL DEF Spec

===============================================================================
