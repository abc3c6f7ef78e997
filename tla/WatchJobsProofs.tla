---------------------------- MODULE WatchJobsProofs ----------------------------
(***************************************************************************)
(* What is proved of the fine-grained steps of WatchJobs, for every number *)
(* of processes, stages and interrupts.                                    *)
(*                                                                         *)
(* With Ctrl-C at every point: the types, that a free slot never looks     *)
(* like a running job, and that the status of a process that ended is not  *)
(* lost.  The argument is that of JobControlProofs, with STOPPED allowed   *)
(* for a free slot, between allocjob() and movejob().  Steps of JobControl *)
(* that WatchJobs keeps keep the invariant by SlotStep; a jump to the      *)
(* prompt leaves the table as it is.                                       *)
(*                                                                         *)
(* As long as there was no Ctrl-C, and if nobody but the shell continues   *)
(* or kills a stopped child: the end of a job in background is announced   *)
(* once, and what JobControl says of its coarse steps holds between the    *)
(* fine ones.  The argument: when the handler returns no job in background *)
(* is left that has finished, and monitorjob() brings none there           *)
(* (NoneFinished), so that watchjobs() in the main thread never announces  *)
(* one (Unended); of a job that the handler announces nobody is left, its  *)
(* leader included (LeaderFirst), and its group is not made again (Over).  *)
(***************************************************************************)
EXTENDS JobOwnership, WatchJobs

(* Between its look at a job that has not finished and the message about   *)
(* it, watchjobs() meets the job unfinished or not at all: the handler     *)
(* frees the slot of a job that it sees ending before it returns.          *)
WatchInv ==
  /\ at # "pgid" => pc \in {"watch", "crashed", "aborted"}
  /\ at = "clear" => wstate # FINISHED
  /\ at \in {"statusp", "msg", "clear"} /\ wstate # FINISHED /\ hpc = "idle" =>
       jobs[j].state # FINISHED \/ jobs[j].proc = << >>

FineInv == WatchType /\ SlotInv(Idle) /\ WatchInv

(* The steps that are also steps of JobControl.                            *)
Kept == Silent /\ ~(TakeTerminal \/ AllocStopped \/ MoveStopped)

(* They are.                                                               *)
LEMMA KeptIsNext ==
  ASSUME Kept \/ HandlerReturn \/ ShutdownEnd
  PROVE  Next
<1>1. Typed => User
  BY DEF Typed, User
<1> QED BY <1>1 DEF Kept, Silent, Next, MainStep, HandlerStep

-------------------------------------------------------------------------------
(* watchjobs(), access by access. *)

(* What one access may change outside of the locals of watchjobs().        *)
LEMMA WatchStepEffect ==
  ASSUME WatchStep
  PROVE  /\ UNCHANGED <<njobmax, blocked, command, handler, interrupts, procs, termio>>
         /\ pc \in {"watch", "loopend", "readline"}
         /\ pc' \in {"watch", "loopend", "readline", "crashed", "aborted"}
         /\ \/ jobs' = jobs
            \/ /\ at = "clear" /\ hpc = "idle"
               /\ jobs' = [jobs EXCEPT ![j] = clearStatus(@)]
            \/ jobs[j].state = FINISHED /\ jobs' = [jobs EXCEPT ![j] = deljob(@)]
<1>1. UNCHANGED <<njobmax, blocked, command, handler, interrupts, procs, termio>>
  BY DEF WatchStep, WatchStart, WatchEnd, WatchPgid, WatchState, WatchStatus, WatchMsg,
         WatchClear, WatchDelete, UnchangedRest, UnchangedKernel
<1>2. pc \in {"watch", "loopend", "readline"}
  BY DEF WatchStep, WatchStart, WatchEnd, WatchPgid, WatchState, WatchStatus, WatchMsg,
         WatchClear, WatchDelete, Watching, MainAt
<1>3. pc' \in {"watch", "loopend", "readline", "crashed", "aborted"}
  BY DEF WatchStep, WatchStart, WatchEnd, WatchPgid, WatchState, WatchStatus, WatchMsg,
         WatchClear, WatchDelete, Watching, MainAt, Goto
<1>4. \/ jobs' = jobs
      \/ /\ at = "clear" /\ hpc = "idle"
         /\ jobs' = [jobs EXCEPT ![j] = clearStatus(@)]
      \/ jobs[j].state = FINISHED /\ jobs' = [jobs EXCEPT ![j] = deljob(@)]
  BY DEF WatchStep, WatchStart, WatchEnd, WatchPgid, WatchState, WatchStatus, WatchMsg,
         WatchClear, WatchDelete, Watching, MainAt
<1> QED BY <1>1, <1>2, <1>3, <1>4

(* The table stays a table.                                                *)
LEMMA WatchStepType ==
  ASSUME TypeOK, WatchStep
  PROVE  TypeOK'
<1>t. njobmax \in Nat \ {0} /\ jobs \in Table(njobmax) /\ MainType
  BY DEF TypeOK, TableType, Table
<1>1. jobs' \in Table(njobmax)
  <2>1. CASE j \in DOMAIN jobs
    <3>1. jobs[j] \in Job
      BY <1>t, <2>1 DEF Table
    <3>2. clearStatus(jobs[j]) \in Job /\ deljob(jobs[j]) \in Job
      BY <3>1, ClearStatusType, DeljobType
    <3> QED BY <1>t, <3>2, WatchStepEffect DEF Table
  <2>2. CASE j \notin DOMAIN jobs
    BY <1>t, <2>2, WatchStepEffect DEF Table
  <2> QED BY <2>1, <2>2
<1>2. TableType'
  BY <1>t, <1>1, WatchStepEffect DEF TableType, Table
<1>3. MainType'
  <2>1. UNCHANGED <<todo, lead, newpid, job, state, njobmax>>
    BY WatchStepEffect DEF command
  <2>2. pc \in {"watch", "loopend", "readline"}
        /\ pc' \in {"watch", "loopend", "readline", "crashed", "aborted"}
    BY WatchStepEffect
  <2> QED BY <2>1, <2>2, GotoType DEF Open, Terminal
<1>4. blocked' \in BOOLEAN /\ bg' \in BOOLEAN
  BY WatchStepEffect DEF TypeOK, FlagType, command
<1>5. tty' \in Pids \cup {Shell} /\ modes' \in Modes
  BY WatchStepEffect DEF TypeOK, KernelType, termio
<1> QED BY <1>2, <1>3, <1>4, <1>5, WatchStepEffect, TableStepType

(* An access beyond the table would change nothing.                        *)
LEMMA NoSlot ==
  ASSUME NEW n, NEW t \in Table(n), NEW k, k \notin DOMAIN t, NEW slot
  PROVE  [t EXCEPT ![k] = slot] = t
BY DEF Table

(* A job that is changed or dropped on the way leaves a sound slot.        *)
LEMMA WatchStepSlots ==
  ASSUME TypeOK, SlotInv(Idle), WatchInv, WatchStep
  PROVE  SlotInv(Idle)'
<1>t. jobs \in Table(njobmax) /\ SlotsSound(Idle, jobs)
  BY DEF TypeOK, TableType, Table, SlotInv
<1>1. pc \notin Window /\ pc' \notin Window /\ lead' = lead
  BY WatchStepEffect DEF Window, command
<1>2. SlotsSound(Idle, jobs')
  <2>1. CASE j \in DOMAIN jobs
    <3>1. jobs[j] \in Job /\ SlotSound(Idle, jobs[j]) /\ FINISHED \in Idle
      BY <1>t, <2>1 DEF Table, SlotsSound, Idle
    <3>2. at = "clear" /\ hpc = "idle" => SlotSound(Idle, clearStatus(jobs[j]))
      BY <3>1, ClearStatusSound DEF WatchInv
    <3>3. jobs[j].state = FINISHED => SlotSound(Idle, deljob(jobs[j]))
      BY <3>1, DeljobSound
    <3>4. at = "clear" /\ hpc = "idle" =>
            SlotsSound(Idle, [jobs EXCEPT ![j] = clearStatus(@)])
      BY <1>t, <3>2, ReplacedSlots DEF SlotsSound
    <3>5. jobs[j].state = FINISHED => SlotsSound(Idle, [jobs EXCEPT ![j] = deljob(@)])
      BY <1>t, <3>3, ReplacedSlots DEF SlotsSound
    <3> QED BY <1>t, <3>4, <3>5, WatchStepEffect
  <2>2. CASE j \notin DOMAIN jobs
    <3>1. jobs' = jobs
      <4>1. [jobs EXCEPT ![j] = clearStatus(@)] = jobs /\ [jobs EXCEPT ![j] = deljob(@)] = jobs
        BY <1>t, <2>2, NoSlot
      <4> QED BY <4>1, WatchStepEffect
    <3> QED BY <1>t, <3>1
  <2> QED BY <2>1, <2>2
<1> QED BY <1>1, <1>2, OutsideSlots

-------------------------------------------------------------------------------
(* The end of monitorjob(), call by call. *)

(* The types.                                                              *)
LEMMA EndsType ==
  ASSUME TypeOK, TakeTerminal \/ AllocStopped \/ MoveStopped \/ DeleteForeground
  PROVE  TypeOK'
<1>t. /\ MainType /\ njobmax \in Nat \ {0} /\ jobs \in Table(njobmax) /\ FG \in 0 .. njobmax - 1
      /\ blocked \in BOOLEAN /\ bg \in BOOLEAN /\ tty \in Pids \cup {Shell} /\ modes \in Modes
  BY DEF TypeOK, TableType, Table, FlagType, KernelType, FG
<1>1. CASE TakeTerminal
  <2>1. UNCHANGED <<table, jobs, njobmax, blocked, bg, todo, lead, newpid, job, state, handler, procs>>
        /\ pc = "finish" /\ pc' \in {"allocjob", "deljob"} /\ tty' = Shell /\ modes' = "shell"
    BY <1>1 DEF TakeTerminal, MainAt, Goto, table, command, shellModes
  <2>2. TableType'
    BY <2>1 DEF TypeOK, TableType
  <2>3. MainType'
    BY <2>1, GotoType DEF Critical, Terminal
  <2> QED BY <1>t, <2>1, <2>2, <2>3, TableStepType DEF Modes
<1>2. CASE AllocStopped
  <2> DEFINE k == allocjob(jobs, njobmax)
             t == [grown(jobs, k) EXCEPT ![k] = reserved(@)]
  <2>1. /\ UNCHANGED <<blocked, bg, todo, lead, newpid, state, handler, procs, tty, modes>>
        /\ pc' = "movejob" /\ jobs' = t /\ job' = k
        /\ njobmax' = IF k = njobmax THEN njobmax + 1 ELSE njobmax
    BY <1>2 DEF AllocStopped, Goto, UnchangedKernel, termio
  <2>2. k \in 1 .. njobmax
    BY <1>t, AllocjobIsFree
  <2> HIDE DEF k
  <2>3. grown(jobs, k) \in Table(njobmax')
    BY <1>t, <2>1, <2>2, GrownType
  <2>4. njobmax' \in Nat \ {0} /\ k \in 0 .. njobmax' - 1
    BY <1>t, <2>1, <2>2
  <2>5. grown(jobs, k)[k] \in Job
    BY <2>3, <2>4 DEF Table
  <2>6. reserved(grown(jobs, k)[k]) \in Job
    BY <2>5 DEF reserved, Job, States
  <2>7. TableType'
    BY <2>1, <2>3, <2>4, <2>6 DEF TableType, Table
  <2>8. MainType'
    <3>1. job' \in Nat /\ job' < njobmax'
      BY <2>1, <2>4
    <3> QED BY <1>t, <2>1, <3>1 DEF MainType, Critical, Terminal
  <2> QED BY <1>t, <2>1, <2>7, <2>8, TableStepType
<1>3. CASE MoveStopped
  <2>1. /\ UNCHANGED <<njobmax, blocked, bg, todo, lead, newpid, handler, procs, tty, modes>>
        /\ pc = "movejob" /\ state' = FINISHED /\ job' = FG
        /\ \/ WatchThen(movejob(jobs, FG, job), STOPPED, "unmask")
           \/ jobs' = jobs /\ pc' = "aborted"
    BY <1>3 DEF MoveStopped, MainAt, Goto, UnchangedKernel, termio
  <2>2. job \in 0 .. njobmax - 1
    BY <1>t, <2>1 DEF MainType, Terminal
  <2>3. movejob(jobs, FG, job) \in Table(njobmax)
    BY <1>t, <2>2, MovejobType
  <2>4. jobs' \in Table(njobmax) /\ pc' \in {"unmask", "crashed", "aborted"}
    BY <1>t, <2>1, <2>3, WatchThenType
  <2>5. TableType'
    BY <1>t, <2>1, <2>4 DEF TableType, Table
  <2>6. MainType'
    <3>1. job' \in Nat /\ job' < njobmax' /\ state' \in States
      BY <1>t, <2>1 DEF FG, States
    <3> QED BY <1>t, <2>1, <2>4, <3>1 DEF MainType, Critical, Terminal
  <2> QED BY <1>t, <2>1, <2>5, <2>6, TableStepType
<1>4. CASE DeleteForeground
  <2>1. /\ UNCHANGED <<njobmax, blocked, bg, todo, lead, newpid, job, state, handler, procs, tty, modes>>
        /\ pc = "deljob"
        /\ \/ WatchThen([jobs EXCEPT ![FG] = deljob(@)], FINISHED, "unmask")
           \/ jobs' = jobs /\ pc' = "aborted"
    BY <1>4 DEF DeleteForeground, MainAt, Goto, UnchangedKernel, command, termio
  <2>2. [jobs EXCEPT ![FG] = deljob(@)] \in Table(njobmax)
    <3>1. deljob(jobs[FG]) \in Job
      BY <1>t, DeljobType DEF Table
    <3> QED BY <1>t, <3>1 DEF Table
  <2>3. jobs' \in Table(njobmax) /\ pc' \in {"unmask", "crashed", "aborted"}
    BY <1>t, <2>1, <2>2, WatchThenType
  <2>4. TableType'
    BY <1>t, <2>1, <2>3 DEF TableType, Table
  <2>5. MainType'
    BY <2>1, <2>3, GotoType DEF Critical, Terminal
  <2> QED BY <1>t, <2>1, <2>4, <2>5, TableStepType
<1> QED BY <1>1, <1>2, <1>3, <1>4

(* The slot that allocjob() reserves is free and STOPPED until movejob()   *)
(* fills it.                                                               *)
LEMMA EndsSlots ==
  ASSUME TypeOK, SlotInv(Idle),
         TakeTerminal \/ AllocStopped \/ MoveStopped \/ DeleteForeground
  PROVE  SlotInv(Idle)'
<1>t. njobmax \in Nat \ {0} /\ jobs \in Table(njobmax) /\ SlotsSound(Idle, jobs)
      /\ FG \in 0 .. njobmax - 1 /\ FINISHED \in Idle /\ STOPPED \in Idle
  BY DEF SlotInv, TypeOK, TableType, Table, FG, Idle
<1>1. lead' = lead /\ pc \notin Window
  BY DEF TakeTerminal, AllocStopped, MoveStopped, DeleteForeground, command, MainAt, Window
<1>2. pc' \notin Window
  BY DEF TakeTerminal, AllocStopped, MoveStopped, DeleteForeground, WatchThen, Goto, Window
<1>3. SlotsSound(Idle, jobs')
  <2>1. CASE TakeTerminal
    BY <1>t, <2>1 DEF TakeTerminal, table
  <2>2. CASE AllocStopped
    <3> DEFINE k   == allocjob(jobs, njobmax)
               g   == grown(jobs, k)
               new == reserved(g[k])
    <3>1. jobs' = [g EXCEPT ![k] = new]
      BY <2>2 DEF AllocStopped
    <3>2. k \in 1 .. njobmax /\ (k # njobmax => jobs[k].pgid = NoPid)
      BY <1>t, AllocjobIsFree
    <3> HIDE DEF k
    <3>3. SlotsSound(Idle, g)
      BY <1>t, GrownSlots
    <3>4. g[k] \in Job /\ g[k].pgid = NoPid /\ k \in DOMAIN g
      <4>1. CASE k = njobmax
        BY <1>t, <4>1, ZeroJobType DEF grown, ZeroJob, Table
      <4>2. CASE k # njobmax
        BY <1>t, <3>2, <4>2 DEF grown, Table
      <4> QED BY <4>1, <4>2
    <3>5. g[k].proc = << >>
      BY <3>3, <3>4 DEF SlotsSound, SlotSound, FreeSlot
    <3>6. new.pgid = NoPid /\ new.state = STOPPED /\ new.proc = << >>
      BY <3>4, <3>5 DEF reserved, Job
    <3> HIDE DEF g, new
    <3>7. SlotSound(Idle, new)
      BY <1>t, <3>6 DEF SlotSound, FreeSlot, Summary, StatusKept
    <3>8. SlotsSound(Idle, [g EXCEPT ![k] = new])
      BY <3>3, <3>7, ReplacedSlots, <1>t
    <3> QED BY <3>1, <3>8
  <2>3. CASE MoveStopped
    <3> DEFINE t == movejob(jobs, FG, job)
    <3>1. WatchThen(t, STOPPED, "unmask") \/ jobs' = jobs
      BY <2>3 DEF MoveStopped
    <3>2. job \in 0 .. njobmax - 1
      BY <1>t, <2>3 DEF MoveStopped, MainAt, TypeOK, MainType, Terminal
    <3>3. t \in Table(njobmax)
      BY <1>t, <3>2, MovejobType
    <3>4. SlotsSound(Idle, t)
      <4>1. CASE job # FG
        BY <1>t, <3>2, <4>1, MovejobSlots DEF SlotsSound, Table
      <4>2. CASE job = FG
        <5>1. t = [jobs EXCEPT ![FG] = ZeroJob]
          BY <1>t, <4>2 DEF movejob, Table
        <5>2. SlotsSound(Idle, [jobs EXCEPT ![FG] = ZeroJob])
          BY <1>t, ReplacedSlots, ZeroJobSound
        <5> QED BY <5>1, <5>2
      <4> QED BY <4>1, <4>2
    <3> HIDE DEF t
    <3> QED BY <1>t, <3>1, <3>3, <3>4, WatchThenSlots
  <2>4. CASE DeleteForeground
    <3> DEFINE new == deljob(jobs[FG])
               t   == [jobs EXCEPT ![FG] = new]
    <3>1. jobs[FG] \in Job
      BY <1>t DEF Table
    <3>2. \/ WatchThen(t, FINISHED, "unmask") /\ jobs[FG].state = FINISHED
          \/ jobs' = jobs
      BY <2>4 DEF DeleteForeground
    <3>3. new \in Job /\ (jobs[FG].state = FINISHED => SlotSound(Idle, new))
      BY <1>t, <3>1, DeljobType, DeljobSound
    <3> HIDE DEF new
    <3>4. t \in Table(njobmax)
      BY <1>t, <3>3 DEF Table
    <3>5. jobs[FG].state = FINISHED => SlotsSound(Idle, t)
      BY <1>t, <3>3, ReplacedSlots
    <3> HIDE DEF t
    <3> QED BY <1>t, <3>2, <3>4, <3>5, WatchThenSlots
  <2> QED BY <2>1, <2>2, <2>3, <2>4
<1> QED BY <1>1, <1>2, <1>3, OutsideSlots

-------------------------------------------------------------------------------
(* The variables of WatchJobs itself. *)

LocalsType ==
  /\ which \in {ALL, FINISHED}
  /\ at \in {"pgid", "state", "statusp", "msg", "clear", "delete"}
  /\ j \in BG .. njobmax
  /\ at # "pgid" => j < njobmax
  /\ pgid \in Pids \cup {NoPid}
  /\ wstate \in States
  /\ statusp \in Status \cup {NoStatus}

(* The table never shrinks.                                                *)
LEMMA TableGrows ==
  ASSUME njobmax \in Nat, Next \/ TakeTerminal \/ AllocStopped \/ MoveStopped \/ DeleteForeground
  PROVE  njobmax' \in {njobmax, njobmax + 1}
<1>1. CASE User
  BY <1>1 DEF User, Launch, DoResume, DoKill, DoJobs, DoHistory, DoQuit, Wait, table
<1>2. CASE MainStep
  BY <1>2 DEF MainStep, Fork, AddJob, AddProc, Unmask, LoopEnd, ResumeCont, ResumeDone, Kill,
              ShutdownJob, ShutdownEnd, GiveTerminal, WhileStopped, ContForeground,
              SleepStopped, WhileRunning, SleepRunning, Reread, Remask, FinishStopped,
              FinishFinished, FinishRunning, Wait, table
<1>3. CASE HandlerStep
  BY <1>3 DEF HandlerStep, HandlerEnter, HandlerWaitpid, HandlerRecord, HandlerWaitpidNone,
              HandlerReturn, table
<1>4. CASE Children
  BY <1>4 DEF Children, ChildStep, ChildStart, Exit, Stop, OtherCont, OtherKill, SetModes, table
<1>5. CASE TakeTerminal \/ AllocStopped \/ MoveStopped \/ DeleteForeground
  BY <1>5 DEF TakeTerminal, AllocStopped, MoveStopped, DeleteForeground, table
<1> QED BY <1>1, <1>2, <1>3, <1>4, <1>5 DEF Next

(* Steps outside of watchjobs().                                           *)
LEMMA LocalsKept ==
  ASSUME LocalsType, njobmax \in Nat, njobmax' \in {njobmax, njobmax + 1}, UNCHANGED locals
  PROVE  LocalsType'
<1>1. UNCHANGED <<which, at, j, pgid, wstate, statusp>>
  BY DEF locals
<1>2. j' \in BG .. njobmax' /\ (at' # "pgid" => j' < njobmax')
  <2>1. j \in BG .. njobmax /\ (at # "pgid" => j < njobmax)
    BY DEF LocalsType
  <2> QED BY <1>1, <2>1 DEF BG
<1> QED BY <1>1, <1>2 DEF LocalsType

(* A jump to the prompt, and the end of the loop, forget the locals.       *)
LEMMA LocalsReset ==
  ASSUME njobmax \in Nat \ {0}, njobmax' = njobmax, noLocals
  PROVE  LocalsType'
BY DEF noLocals, LocalsType, BG, States

(* The next slot of the loop.                                              *)
LEMMA LocalsNext ==
  ASSUME LocalsType, njobmax \in Nat \ {0}, njobmax' = njobmax, j < njobmax,
         which' = which, nextSlot
  PROVE  LocalsType'
<1>1. j + 1 \in BG .. njobmax
  BY DEF LocalsType, BG
<1> QED BY <1>1 DEF nextSlot, LocalsType, States

(* The accesses of watchjobs().                                            *)
LEMMA WatchStepLocals ==
  ASSUME TypeOK, LocalsType, WatchStep
  PROVE  LocalsType'
<1>t. njobmax \in Nat \ {0} /\ jobs \in Table(njobmax)
  BY DEF TypeOK, TableType, Table
<1>n. njobmax' = njobmax
  BY WatchStepEffect
<1>j. j < njobmax => jobs[j] \in Job
  BY <1>t DEF LocalsType, Table, BG
<1>1. CASE WatchStart
  BY <1>1, <1>n DEF WatchStart, LocalsType
<1>2. CASE WatchEnd
  BY <1>2, <1>n, <1>t, LocalsReset DEF WatchEnd
<1>3. CASE nextSlot
  <2>1. j < njobmax /\ which' = which
    BY <1>3 DEF WatchStep, WatchStart, WatchEnd, WatchPgid, WatchState, WatchStatus, WatchMsg,
                WatchClear, WatchDelete, Watching, LocalsType, nextSlot, noLocals, BG
  <2> QED BY <1>3, <1>t, <1>n, <2>1, LocalsNext
<1>4. CASE WatchPgid /\ ~nextSlot
  <2>1. j < njobmax /\ at' = "state" /\ pgid' = jobs[j].pgid
        /\ UNCHANGED <<j, wstate, statusp, which>>
    BY <1>4 DEF WatchPgid
  <2>2. pgid' \in Pids \cup {NoPid}
    BY <1>j, <2>1 DEF Job
  <2> QED BY <1>n, <2>1, <2>2 DEF LocalsType
<1>5. CASE WatchState /\ ~nextSlot
  <2>1. at = "state" /\ at' = "statusp" /\ wstate' = jobs[j].state
        /\ UNCHANGED <<j, pgid, statusp, which>>
    BY <1>5 DEF WatchState, Watching
  <2>2. j < njobmax
    BY <2>1 DEF LocalsType
  <2>3. wstate' \in States
    BY <1>j, <2>1, <2>2 DEF Job
  <2> QED BY <1>n, <2>1, <2>2, <2>3 DEF LocalsType
<1>6. CASE WatchStatus
  <2>1. at = "statusp" /\ UNCHANGED <<which, j, pgid, wstate>>
        /\ \/ UNCHANGED <<at, statusp>>
           \/ jobs[j].proc # << >> /\ statusp' = exitcode(jobs[j]) /\ at' = "msg"
    BY <1>6 DEF WatchStatus, Watching
  <2>2. j < njobmax
    BY <2>1 DEF LocalsType
  <2>3. jobs[j].proc # << >> => exitcode(jobs[j]) \in Status \cup {NoStatus}
    <3>1. jobs[j].proc \in Seq(Proc)
      BY <1>j, <2>2 DEF Job
    <3> DEFINE proc == jobs[j].proc
    <3>2. ASSUME proc # << >> PROVE proc[Len(proc)] \in Proc
      <4> HIDE DEF proc
      <4> QED BY <3>1, <3>2 DEF proc
    <3> HIDE DEF proc
    <3>3. ASSUME proc # << >> PROVE proc[Len(proc)].exitcode \in Status \cup {NoStatus}
      BY <3>2, <3>3 DEF Proc
    <3> QED BY <3>3 DEF exitcode, proc
  <2>4. statusp' \in Status \cup {NoStatus}
    BY <2>1, <2>3 DEF LocalsType
  <2>5. at' \in {"statusp", "msg"}
    BY <2>1
  <2> QED BY <1>n, <2>1, <2>2, <2>4, <2>5 DEF LocalsType
<1>7. CASE WatchMsg /\ ~nextSlot
  <2>1. at = "msg" /\ at' = afterMsg(wstate, statusp) /\ at' # "next"
        /\ UNCHANGED <<which, j, pgid, wstate, statusp>>
    BY <1>7 DEF WatchMsg, Watching
  <2>2. at' \in {"clear", "delete"}
    BY <2>1 DEF afterMsg
  <2>3. j < njobmax
    BY <2>1 DEF LocalsType
  <2> QED BY <1>n, <2>1, <2>2, <2>3 DEF LocalsType
<1>8. CASE (WatchClear \/ WatchDelete) /\ ~nextSlot
  <2>1. UNCHANGED <<which, at, j, pgid, wstate, statusp>>
    BY <1>8 DEF WatchClear, WatchDelete
  <2> QED BY <1>n, <2>1 DEF LocalsType
<1> QED BY <1>1, <1>2, <1>3, <1>4, <1>5, <1>6, <1>7, <1>8 DEF WatchStep

(* What watchjobs() knows of the job it stands at.                         *)
LEMMA WatchStepKnows ==
  ASSUME WatchInv, WatchStep
  PROVE  WatchInv'
<1>1. CASE at' = "pgid"
  BY <1>1 DEF WatchInv
<1>2. CASE at' # "pgid"
  <2>1. pc' \in {"watch", "crashed", "aborted"}
    BY <1>2 DEF WatchInv, WatchStep, WatchStart, WatchEnd, WatchPgid, WatchState, WatchStatus,
                WatchMsg, WatchClear, WatchDelete, Watching, MainAt, Goto, noLocals, nextSlot
  <2>2. at' = "clear" => wstate' # FINISHED
    BY <1>2 DEF WatchInv, WatchStep, WatchStart, WatchEnd, WatchPgid, WatchState, WatchStatus,
                WatchMsg, WatchClear, WatchDelete, Watching, noLocals, nextSlot, afterMsg,
                RUNNING, STOPPED, FINISHED
  <2>3. ASSUME at' \in {"statusp", "msg", "clear"}, wstate' # FINISHED
        PROVE  jobs'[j'].state # FINISHED \/ jobs'[j'].proc = << >>
    <3>1. jobs' = jobs /\ j' = j /\ hpc = "idle"
      BY <1>2, <2>3 DEF WatchStep, WatchStart, WatchEnd, WatchPgid, WatchState, WatchStatus,
                        WatchMsg, WatchClear, WatchDelete, Watching, MainAt, noLocals, nextSlot
    <3>2. \/ wstate' = jobs[j].state
          \/ wstate' = wstate /\ at \in {"statusp", "msg", "clear"}
      BY <1>2, <2>3 DEF WatchStep, WatchStart, WatchEnd, WatchPgid, WatchState, WatchStatus,
                        WatchMsg, WatchClear, WatchDelete, Watching, MainAt, noLocals, nextSlot,
                        WatchInv
    <3> QED BY <2>3, <3>1, <3>2 DEF WatchInv
  <2> QED BY <2>1, <2>2, <2>3 DEF WatchInv
<1> QED BY <1>1, <1>2

(* While watchjobs() looks at a job, only the handler and the children     *)
(* move beside it.                                                         *)
LEMMA OthersMove ==
  ASSUME Next \/ TakeTerminal \/ AllocStopped \/ MoveStopped \/ DeleteForeground,
         pc \in {"watch", "crashed", "aborted"}
  PROVE  HandlerStep \/ Children
<1>1. ~User
  BY DEF User, Launch, DoResume, DoKill, DoJobs, DoHistory, DoQuit, Wait, MainAt
<1>2. ~MainStep
  BY DEF MainStep, Fork, AddJob, AddProc, Unmask, LoopEnd, ResumeCont, ResumeDone, Kill,
         ShutdownJob, ShutdownEnd, GiveTerminal, WhileStopped, ContForeground, SleepStopped,
         WhileRunning, SleepRunning, Reread, Remask, FinishStopped, FinishFinished,
         FinishRunning, Wait, MainAt
<1>3. ~(TakeTerminal \/ AllocStopped \/ MoveStopped \/ DeleteForeground)
  BY DEF TakeTerminal, AllocStopped, MoveStopped, DeleteForeground, MainAt
<1> QED BY <1>1, <1>2, <1>3 DEF Next

(* After the handler no job in background is FINISHED.                     *)
LEMMA HandlerClears ==
  ASSUME TypeOK, SlotInv(Idle), HandlerReturn, NEW k \in DOMAIN jobs, k >= BG
  PROVE  jobs'[k].state # FINISHED \/ jobs'[k].proc = << >>
<1>1. jobs[k] \in Job /\ SlotSound(Idle, jobs[k])
  BY DEF TypeOK, TableType, Table, SlotInv, SlotsSound
<1>2. jobs'[k] = watchjob(jobs[k], FINISHED)
  BY DEF HandlerReturn, watchjobs
<1>3. CASE watched(jobs[k], FINISHED)
  <2>1. watchjob(jobs[k], FINISHED) = deljob(jobs[k])
    BY <1>3 DEF watchjob, watched, ALL, RUNNING, STOPPED, FINISHED
  <2>2. deljob(jobs[k]).proc = << >>
    BY <1>1 DEF deljob, Job
  <2> QED BY <1>2, <2>1, <2>2
<1>4. CASE ~watched(jobs[k], FINISHED)
  <2>1. watchjob(jobs[k], FINISHED) = jobs[k]
    BY <1>4 DEF watchjob
  <2>2. jobs[k].pgid = NoPid \/ jobs[k].state # FINISHED
    BY <1>4 DEF watched
  <2> QED BY <1>1, <1>2, <2>1, <2>2 DEF SlotSound, FreeSlot
<1> QED BY <1>3, <1>4

(* Steps outside of watchjobs().                                           *)
LEMMA OthersKnow ==
  ASSUME TypeOK, LocalsType, SlotInv(Idle), WatchInv, UNCHANGED locals,
         Next \/ TakeTerminal \/ AllocStopped \/ MoveStopped \/ DeleteForeground
  PROVE  WatchInv'
<1>1. UNCHANGED <<at, j, wstate>>
  BY DEF locals
<1>2. CASE at = "pgid"
  BY <1>1, <1>2 DEF WatchInv
<1>3. CASE at # "pgid"
  <2>1. pc \in {"watch", "crashed", "aborted"} /\ (HandlerStep \/ Children)
    BY <1>3, OthersMove DEF WatchInv
  <2>2. pc' = pc
    BY <2>1 DEF HandlerStep, HandlerEnter, HandlerWaitpid, HandlerRecord, HandlerWaitpidNone,
                HandlerReturn, awake, Children, ChildStep, ChildStart, Exit, Stop, OtherCont,
                OtherKill, SetModes, table, command
  <2>3. \/ HandlerReturn
        \/ hpc' # "idle"
        \/ UNCHANGED <<jobs, hpc>>
    BY <2>1 DEF HandlerStep, HandlerEnter, HandlerWaitpid, HandlerRecord, HandlerWaitpidNone,
                afterRecord, Children, ChildStep, ChildStart, Exit, Stop, OtherCont,
                OtherKill, SetModes, table, command, handler
  <2>4. j \in DOMAIN jobs /\ j >= BG
    BY <1>3 DEF LocalsType, TypeOK, TableType, Table, BG
  <2>5. HandlerReturn => jobs'[j].state # FINISHED \/ jobs'[j].proc = << >>
    BY <2>4, HandlerClears
  <2> QED BY <1>1, <2>1, <2>2, <2>3, <2>5 DEF WatchInv
<1> QED BY <1>2, <1>3

(* The counters.                                                           *)
LEMMA CountersType ==
  ASSUME WatchType, FineNext
  PROVE  reports' \in [Pids -> Nat] /\ interrupts' \in 0 .. MaxInterrupts
<1>t. reports \in [Pids -> Nat] /\ interrupts \in 0 .. MaxInterrupts
  BY DEF WatchType
<1>1. reports' \in [Pids -> Nat]
  <2>1. CASE WatchStep
    BY <1>t, <2>1 DEF WatchStep, WatchStart, WatchEnd, WatchPgid, WatchState, WatchStatus,
                      WatchMsg, WatchClear, WatchDelete
  <2>2. CASE Reporting
    <3>1. Announce(jobs)
      BY <2>2 DEF Reporting
    <3> DEFINE more(p) == IF p \in announced(jobs) THEN 1 ELSE 0
    <3>2. reports' = [p \in Pids |-> reports[p] + more(p)]
      BY <3>1 DEF Announce
    <3>3. \A p : more(p) \in {0, 1}
      OBVIOUS
    <3> HIDE DEF more
    <3>4. \A p \in Pids : reports[p] + more(p) \in Nat
      BY <1>t, <3>3
    <3> QED BY <3>2, <3>4
  <2>3. CASE Silent \/ Interrupt
    BY <1>t, <2>3 DEF Silent, Interrupt
  <2> QED BY <2>1, <2>2, <2>3 DEF FineNext
<1>2. interrupts' \in 0 .. MaxInterrupts
  <2>1. CASE WatchStep
    BY <1>t, <2>1, WatchStepEffect
  <2>2. CASE Reporting \/ Silent
    BY <1>t, <2>2 DEF Reporting, Silent
  <2>3. CASE Interrupt
    BY <1>t, <2>3, InterruptsAssumption DEF Interrupt
  <2> QED BY <2>1, <2>2, <2>3 DEF FineNext
<1> QED BY <1>1, <1>2

-------------------------------------------------------------------------------
(* The invariant. *)

(* main() at its first prompt.                                             *)
LEMMA FineInitInv == FineInit => FineInv
<1> SUFFICES ASSUME FineInit PROVE FineInv
  OBVIOUS
<1>1. TypeOK /\ njobmax = 1
  BY InitType DEF FineInit, Init
<1>2. WatchType
  BY <1>1, InterruptsAssumption DEF FineInit, WatchType, BG, States
<1>3. SlotInv(Idle)
  BY SlotInit DEF FineInit, Idle
<1>4. WatchInv
  BY DEF FineInit, WatchInv
<1> QED BY <1>2, <1>3, <1>4 DEF FineInv

(* Ctrl-C leaves the table as it is.                                       *)
LEMMA InterruptSlots ==
  ASSUME SlotInv(Idle), CtrlC
  PROVE  SlotInv(Idle)'
<1>1. pc' = "readline" /\ lead' = NoPid /\ jobs' = jobs
  BY DEF CtrlC, Goto, table
<1>2. WindowClosed' /\ Launching'
  BY <1>1 DEF WindowClosed, Launching, Window
<1> QED BY <1>1, <1>2 DEF SlotInv

(* Every step keeps it.                                                    *)
LEMMA FineStep == FineInv /\ [FineNext]_fineVars => FineInv'
<1> SUFFICES ASSUME FineInv, [FineNext]_fineVars PROVE FineInv'
  OBVIOUS
<1>t. /\ TypeOK /\ WatchType /\ LocalsType /\ SlotInv(Idle) /\ WatchInv /\ FINISHED \in Idle
      /\ njobmax \in Nat \ {0}
  BY DEF FineInv, WatchType, LocalsType, Idle, TypeOK, TableType
<1>1. ASSUME TypeOK', SlotInv(Idle)', LocalsType', WatchInv', FineNext
      PROVE  FineInv'
  BY <1>t, <1>1, CountersType DEF FineInv, WatchType, LocalsType
<1>2. CASE WatchStep
  <2>1. FineNext
    BY <1>2 DEF FineNext
  <2> QED BY <1>t, <1>1, <1>2, <2>1, WatchStepType, WatchStepSlots, WatchStepLocals,
             WatchStepKnows
<1>3. CASE Kept \/ (Reporting /\ ~DeleteForeground)
  <2>1. Next /\ FineNext /\ UNCHANGED locals
    BY <1>3, KeptIsNext DEF Kept, Reporting, Silent, FineNext, locals
  <2>2. TypeOK' /\ SlotInv(Idle)'
    BY <1>t, <2>1, StepType, SlotStep
  <2>3. LocalsType'
    BY <1>t, <2>1, TableGrows, LocalsKept
  <2>4. WatchInv'
    BY <1>t, <2>1, OthersKnow
  <2> QED BY <1>1, <2>1, <2>2, <2>3, <2>4
<1>4. CASE /\ FineNext
           /\ \/ Silent /\ ~Kept
              \/ Reporting /\ DeleteForeground
  <2>1. TakeTerminal \/ AllocStopped \/ MoveStopped \/ DeleteForeground
    BY <1>4 DEF Kept
  <2>2. UNCHANGED locals
    BY <1>4 DEF Silent, Reporting, locals
  <2>3. TypeOK' /\ SlotInv(Idle)'
    BY <1>t, <2>1, EndsType, EndsSlots
  <2>4. LocalsType'
    BY <1>t, <2>1, <2>2, TableGrows, LocalsKept
  <2>5. WatchInv'
    BY <1>t, <2>1, <2>2, OthersKnow
  <2> QED BY <1>1, <1>4, <2>3, <2>4, <2>5
<1>5. CASE Interrupt
  <2>1. FineNext /\ CtrlC /\ noLocals /\ njobmax' = njobmax
    BY <1>5 DEF FineNext, Interrupt, CtrlC, table
  <2>2. WatchInv'
    BY <2>1 DEF noLocals, WatchInv
  <2> QED BY <1>t, <1>1, <2>1, <2>2, CtrlCType, InterruptSlots, LocalsReset
<1>6. CASE UNCHANGED fineVars
  <2>1. UNCHANGED vars /\ UNCHANGED <<locals, reports, interrupts>>
    BY <1>6 DEF fineVars
  <2>2. TypeOK' /\ SlotInv(Idle)'
    BY <1>t, <2>1, StepType, SlotStep
  <2>3. njobmax' = njobmax
    BY <2>1 DEF vars, table
  <2>4. LocalsType'
    BY <1>t, <2>1, <2>3, LocalsKept
  <2>5. WatchInv'
    BY <1>t, <2>1 DEF WatchInv, vars, table, handler, locals
  <2> QED BY <1>t, <2>1, <2>2, <2>4, <2>5 DEF FineInv, WatchType, LocalsType
<1> QED BY <1>2, <1>3, <1>4, <1>5, <1>6 DEF FineNext

(* Types of all variables, also between two accesses of watchjobs() and    *)
(* after any number of Ctrl-C's (jobs.c: watchjobs, monitorjob; shell.c:   *)
(* sigint_handler).                                                        *)
THEOREM FineTypeCorrect == FineSpec => []WatchType
<1>1. FineInv => WatchType
  BY DEF FineInv
<1> QED BY <1>1, FineInitInv, FineStep, PTL DEF FineSpec

(* Wherever Ctrl-C jumps to the prompt, a free slot has no processes and   *)
(* does not look RUNNING (jobs.c: allocjob, movejob, deljob; shell.c:      *)
(* sigint_handler).                                                        *)
THEOREM FreeSlotsIdle == FineSpec => []FreeSlotIdle
<1>1. FineInv => FreeSlotIdle
  <2>1. RUNNING \notin Idle
    BY DEF Idle, RUNNING, STOPPED, FINISHED
  <2> QED BY <2>1 DEF FineInv, SlotInv, SlotsSound, SlotSound, FreeSlot, FreeSlotIdle
<1> QED BY <1>1, FineInitInv, FineStep, PTL DEF FineSpec

(* Wherever the handler and Ctrl-C get between the accesses of             *)
(* watchjobs(), it clears the status of a process that ended only when it  *)
(* is the last of several of a job that goes on (jobs.c: watchjobs,        *)
(* sigchld_handler).                                                       *)
THEOREM StatusesKept == FineSpec => []ExitStatusKept
<1>1. FineInv => ExitStatusKept
  BY DEF FineInv, SlotInv, SlotsSound, SlotSound, StatusKept, ExitStatusKept, lost
<1> QED BY <1>1, FineInitInv, FineStep, PTL DEF FineSpec

-------------------------------------------------------------------------------
(* Without Ctrl-C, and if nobody but the shell continues or kills a child,  *)
(* the invariants of JobOwnership hold at this grain, too, until the shell *)
(* ends.                                                                   *)

Leaving == {"allocjob", "movejob", "deljob"}

(* The end of monitorjob() runs by itself: the handler is kept out, and    *)
(* the job in front is as monitorjob() has seen it.                        *)
Parting ==
  /\ pc \in Leaving \cup {"finish"} => blocked /\ hpc = "idle"
  /\ pc \in Leaving =>
       jobs[FG].state = state /\ state = IF pc = "deljob" THEN FINISHED ELSE STOPPED
  /\ pc = "movejob" => job >= BG /\ jobs[job].pgid = NoPid

(* Where the main thread is when it looks at the table, no job in          *)
(* background has finished: the handler has reported it.                   *)
NoneFinished ==
  hpc = "idle" =>
    \A k \in DOMAIN jobs : k >= BG /\ jobs[k].pgid # NoPid => jobs[k].state # FINISHED

(* So what watchjobs() takes for a job that finished is a slot that the    *)
(* handler has freed, and it gets no further than exitcode().              *)
Unended ==
  /\ at = "statusp" /\ wstate = FINISHED => jobs[j].proc = << >>
  /\ at \in {"msg", "clear", "delete"} => wstate # FINISHED

(* The first process of a job leads its group.                             *)
LeaderFirst ==
  /\ \A k \in DOMAIN jobs :
       jobs[k].pgid # NoPid /\ 1 \in DOMAIN jobs[k].proc => jobs[k].proc[1].pid = jobs[k].pgid
  /\ pc = "addproc" /\ DOMAIN jobs[job].proc = {} => newpid = lead

(* A job that was reported is gone for good: nobody is in its group or     *)
(* bound for it, and no slot has it.                                       *)
Over(p) ==
  /\ life[p] = "gone" /\ lead # p
  /\ \A q \in Pids : exists(q) => aim(q) # p
  /\ \A k \in DOMAIN jobs : jobs[k].pgid # p

Reported == \A p \in Pids : reports[p] > 0 => reports[p] = 1 /\ Over(p)

Calm ==
  /\ OwnerInv /\ NoLostNotification /\ FrontSettled
  /\ Parting /\ NoneFinished /\ Unended /\ LeaderFirst

(* The steps of this module that are not steps of JobControl.              *)
Aside == WatchStep \/ TakeTerminal \/ AllocStopped \/ MoveStopped \/ DeleteForeground

(* What they do to the table.                                              *)
LEMMA AsideTable ==
  ASSUME TypeOK, LocalsType, Parting, Aside
  PROVE  /\ Rearranged({FINISHED}, jobs, jobs')
         /\ UNCHANGED <<procs, handler, newpid, lead>> /\ hpc = "idle"
         /\ pc \notin Window /\ pc' \notin Window \cup Monitoring \cup {"tcsetpgrp"}
<1>t. /\ njobmax \in Nat \ {0} /\ jobs \in Table(njobmax) /\ DOMAIN jobs = 0 .. njobmax - 1
      /\ FG \in DOMAIN jobs /\ \A k \in DOMAIN jobs : jobs[k] \in Job
  BY TheTable
<1>1. CASE WatchStep
  <2>1. Rearranged({FINISHED}, jobs, jobs')
    <3>1. CASE j \in DOMAIN jobs
      <4>1. jobs[j] \in Job
        BY <1>t, <3>1
      <4>2. Alike(clearStatus(jobs[j]), jobs[j])
        BY <4>1, ClearStatusSame DEF Alike, clearStatus, Job
      <4>3. deljob(jobs[j]).pgid = NoPid
        BY <4>1 DEF deljob, Job
      <4>4. \A k \in DOMAIN jobs : Alike(jobs[k], jobs[k])
        BY DEF Alike, Same
      <4>5. Rearranged({FINISHED}, jobs, [jobs EXCEPT ![j] = clearStatus(@)])
        <5> DEFINE u == [jobs EXCEPT ![j] = clearStatus(@)]
        <5>1. DOMAIN u = DOMAIN jobs /\ u[j] = clearStatus(jobs[j])
              /\ \A k \in DOMAIN jobs : k # j => u[k] = jobs[k]
          BY <3>1
        <5> HIDE DEF u
        <5>2. \A k \in DOMAIN u : k \in DOMAIN jobs /\ Alike(u[k], jobs[k])
          BY <4>2, <4>4, <5>1
        <5>3. Rearranged({FINISHED}, jobs, u)
          BY <5>1, <5>2, InPlace
        <5> QED BY <5>3 DEF u
      <4>6. ASSUME jobs[j].state = FINISHED
            PROVE  Rearranged({FINISHED}, jobs, [jobs EXCEPT ![j] = deljob(@)])
        <5> DEFINE u == [jobs EXCEPT ![j] = deljob(@)]
        <5>1. DOMAIN u = DOMAIN jobs /\ u[j].pgid = NoPid
              /\ \A k \in DOMAIN jobs : k # j => u[k] = jobs[k]
          BY <3>1, <4>3
        <5> HIDE DEF u
        <5>2. \A k \in DOMAIN u : \/ k \in DOMAIN jobs /\ Alike(u[k], jobs[k])
                                  \/ u[k].pgid = NoPid /\ jobs[k].state = FINISHED
          BY <4>4, <4>6, <5>1
        <5>3. Rearranged({FINISHED}, jobs, u)
          BY <5>1, <5>2, InPlace
        <5> QED BY <5>3 DEF u
      <4> QED BY <1>1, <4>5, <4>6, WatchStepEffect, NotMoved
    <3>2. CASE j \notin DOMAIN jobs
      <4>1. [jobs EXCEPT ![j] = clearStatus(@)] = jobs /\ [jobs EXCEPT ![j] = deljob(@)] = jobs
        BY <1>t, <3>2, NoSlot
      <4> QED BY <1>1, <4>1, WatchStepEffect, NotMoved
    <3> QED BY <3>1, <3>2
  <2>2. hpc = "idle"
    BY <1>1 DEF WatchStep, WatchStart, WatchEnd, WatchPgid, WatchState, WatchStatus, WatchMsg,
                WatchClear, WatchDelete, Watching, MainAt
  <2> QED BY <1>1, <2>1, <2>2, WatchStepEffect DEF command, Window, Monitoring
<1>2. CASE TakeTerminal
  BY <1>2, NotMoved DEF TakeTerminal, MainAt, Goto, table, command, Window, Monitoring
<1>3. CASE AllocStopped
  <2> DEFINE k == allocjob(jobs, njobmax)
             n == IF k = njobmax THEN njobmax + 1 ELSE njobmax
             g == grown(jobs, k)
             u == [g EXCEPT ![k] = reserved(@)]
  <2>1. jobs' = u /\ hpc = "idle" /\ pc = "allocjob" /\ pc' = "movejob"
        /\ UNCHANGED <<procs, handler, newpid, lead>>
    BY <1>3 DEF AllocStopped, MainAt, Goto, UnchangedKernel
  <2>2. k \in 1 .. njobmax /\ (k # njobmax => jobs[k].pgid = NoPid)
    BY <1>t, AllocjobIsFree
  <2> HIDE DEF k
  <2>3. g \in Table(n) /\ (\A i \in 0 .. njobmax - 1 : g[i] = jobs[i])
        /\ (k = njobmax => g[k] = ZeroJob)
    <3>1. k \in 0 .. njobmax
      BY <1>t, <2>2
    <3> QED BY <1>t, <3>1, GrownType, ZenonT(30)
  <2>4. k \in 0 .. n - 1 /\ DOMAIN jobs \subseteq 0 .. n - 1
        /\ \A i \in 0 .. n - 1 : i = k \/ i \in DOMAIN jobs
    BY <1>t, <2>2
  <2>5. g[k] \in Job /\ g[k].pgid = NoPid
    BY <1>t, <2>2, <2>3, <2>4 DEF ZeroJob, Table
  <2> HIDE DEF n, g
  <2>6. DOMAIN u = 0 .. n - 1 /\ u[k].pgid = NoPid /\ \A i \in DOMAIN u : i # k => u[i] = g[i]
    <3>1. reserved(g[k]).pgid = NoPid
      BY <2>5 DEF reserved, Job
    <3> QED BY <2>3, <2>4, <3>1 DEF Table
  <2> HIDE DEF u
  <2>7. ASSUME NEW i \in DOMAIN u
        PROVE  \/ i \in DOMAIN jobs /\ Alike(u[i], jobs[i])
               \/ u[i].pgid = NoPid /\ (i \in DOMAIN jobs => jobs[i].pgid = NoPid)
    <3>1. CASE i = k
      <4>1. i \in DOMAIN jobs => k # njobmax
        BY <1>t, <3>1
      <4> QED BY <2>2, <2>6, <3>1, <4>1
    <3>2. CASE i # k
      <4>1. i \in DOMAIN jobs /\ u[i] = jobs[i]
        BY <1>t, <2>3, <2>4, <2>6, <3>2
      <4> QED BY <4>1 DEF Alike, Same
    <3> QED BY <3>1, <3>2
  <2>8. Rearranged({FINISHED}, jobs, u)
    BY <2>4, <2>6, <2>7, InPlace
  <2> QED BY <2>1, <2>8 DEF Window, Monitoring
<1>4. CASE MoveStopped
  <2>1. /\ UNCHANGED <<procs, handler, newpid, lead>> /\ hpc = "idle" /\ pc = "movejob"
        /\ jobs[job].pgid = NoPid => WatchThen(movejob(jobs, FG, job), STOPPED, "unmask")
    BY <1>4 DEF MoveStopped, MainAt, UnchangedKernel
  <2>2. job \in 0 .. njobmax - 1 /\ job # FG /\ jobs[job].pgid = NoPid
    BY <1>t, <2>1 DEF Parting, TypeOK, MainType, Terminal, FG, BG
  <2>3. Rearranged({}, jobs, jobs')
    BY <1>t, <2>1, <2>2, FrontMoved
  <2>4. Rearranged({FINISHED}, jobs, jobs')
    BY <2>3, NoneLost
  <2>5. pc' \in {"unmask", "crashed"}
    BY <2>1, <2>2 DEF WatchThen, Goto
  <2> QED BY <2>1, <2>4, <2>5 DEF Window, Monitoring
<1>5. CASE DeleteForeground
  <2>1. /\ UNCHANGED <<procs, handler, newpid, lead>> /\ hpc = "idle" /\ pc = "deljob"
        /\ jobs[FG].state = FINISHED =>
             WatchThen([jobs EXCEPT ![FG] = deljob(@)], FINISHED, "unmask")
    BY <1>5 DEF DeleteForeground, MainAt, UnchangedKernel, command
  <2>2. jobs[FG].state = FINISHED
    BY <2>1 DEF Parting, Leaving
  <2>3. Rearranged({FINISHED}, jobs, jobs') /\ pc' \in {"unmask", "crashed"}
    BY <2>1, <2>2, FrontDropped
  <2> QED BY <2>1, <2>3 DEF Window, Monitoring
<1> QED BY <1>1, <1>2, <1>3, <1>4, <1>5 DEF Aside

(* They keep the invariant of JobOwnership.                                *)
LEMMA AsideOwner ==
  ASSUME LocalsType, Calm, TypeOK', SlotInv(Idle)', Aside, pc' \notin Terminal
  PROVE  OwnerInv'
<1>t. TypeOK /\ OwnerInv /\ Parting /\ MaskOpen /\ FrontFree /\ ShellOwnsTty
  BY DEF Calm, OwnerInv, FrontInv, SafetyInv
<1>a. /\ Rearranged({FINISHED}, jobs, jobs')
      /\ UNCHANGED <<procs, handler, newpid, lead>>
      /\ pc \notin Window /\ pc' \notin Window \cup Monitoring \cup {"tcsetpgrp"}
  BY <1>t, AsideTable
<1>n. NoAssertionFails'
  BY DEF NoAssertionFails, Terminal
<1>1. CASE WatchStep
  <2>1. /\ UNCHANGED <<blocked, termio>> /\ pc \in {"watch", "loopend", "readline"}
        /\ \/ jobs' = jobs
           \/ jobs' = [jobs EXCEPT ![j] = clearStatus(@)]
           \/ jobs' = [jobs EXCEPT ![j] = deljob(@)]
    BY <1>1, WatchStepEffect
  <2>2. MaskOpen'
    BY <1>t, <2>1 DEF MaskOpen, Open
  <2>3. jobs[FG].pgid = NoPid
    BY <1>t, <2>1 DEF FrontFree, InFront, Monitoring, Terminal
  <2>4. j # FG /\ FG \in DOMAIN jobs
    BY <1>t, TheTable DEF LocalsType, BG, FG
  <2>5. FrontFree'
    BY <2>1, <2>3, <2>4 DEF FrontFree
  <2>6. ShellOwnsTty'
    BY <1>t, <2>1 DEF ShellOwnsTty, termio, Monitoring, Terminal
  <2> QED BY <1>a, <1>n, <1>t, <2>2, <2>5, <2>6, SetAside
<1>2. CASE TakeTerminal
  <2>1. pc' \in {"allocjob", "deljob"} /\ tty' = Shell /\ modes' = "shell"
    BY <1>2 DEF TakeTerminal, Goto, shellModes
  <2>2. MaskOpen' /\ FrontFree' /\ ShellOwnsTty'
    BY <2>1 DEF MaskOpen, Open, FrontFree, InFront, ShellOwnsTty
  <2> QED BY <1>a, <1>n, <1>t, <2>2, SetAside
<1>3. CASE AllocStopped
  <2>1. pc = "allocjob" /\ pc' = "movejob" /\ UNCHANGED <<tty, modes>>
    BY <1>3 DEF AllocStopped, MainAt, Goto, UnchangedKernel, termio
  <2>2. MaskOpen' /\ FrontFree' /\ ShellOwnsTty'
    BY <1>t, <2>1 DEF MaskOpen, Open, FrontFree, InFront, ShellOwnsTty, Monitoring, Terminal
  <2> QED BY <1>a, <1>n, <1>t, <2>2, SetAside
<1>4. CASE MoveStopped \/ DeleteForeground
  <2>1. pc \in {"movejob", "deljob"} /\ UNCHANGED <<tty, modes>>
    BY <1>4 DEF MoveStopped, DeleteForeground, MainAt, UnchangedKernel, termio
  <2>2. pc' = "unmask"
    BY <1>4 DEF MoveStopped, DeleteForeground, WatchThen, Goto, Terminal
  <2>3. jobs'[FG].pgid = NoPid
    <3>1. CASE MoveStopped
      <4>1. /\ njobmax \in Nat \ {0} /\ jobs \in Table(njobmax) /\ FG \in 0 .. njobmax - 1
        BY <1>t, TheTable DEF FG
      <4>2. /\ jobs[job].pgid = NoPid /\ job \in 0 .. njobmax - 1 /\ job # FG
        <5>1. pc = "movejob"
          BY <3>1 DEF MoveStopped, MainAt
        <5>2. job \in Nat /\ job < njobmax
          BY <1>t, <5>1 DEF TypeOK, MainType, Terminal
        <5> QED BY <1>t, <4>1, <5>1, <5>2 DEF Parting, BG, FG
      <4>3. WatchThen(movejob(jobs, FG, job), STOPPED, "unmask")
        BY <3>1, <4>2 DEF MoveStopped
      <4> QED BY <4>1, <4>2, <4>3, FrontMoved
    <3>2. CASE DeleteForeground
      <4>1. jobs[FG].state = FINISHED
        BY <1>t, <3>2 DEF DeleteForeground, MainAt, Parting, Leaving
      <4>2. WatchThen([jobs EXCEPT ![FG] = deljob(@)], FINISHED, "unmask")
        BY <3>2, <4>1 DEF DeleteForeground
      <4> QED BY <1>t, <4>1, <4>2, FrontDropped
    <3> QED BY <1>4, <3>1, <3>2
  <2>4. MaskOpen' /\ FrontFree' /\ ShellOwnsTty'
    BY <1>t, <2>1, <2>2, <2>3 DEF MaskOpen, Open, FrontFree, ShellOwnsTty, Monitoring, Terminal
  <2> QED BY <1>a, <1>n, <1>t, <2>4, SetAside
<1> QED BY <1>1, <1>2, <1>3, <1>4 DEF Aside

(* Every step, until the shell ends.                                       *)
LEMMA CalmOwner ==
  ASSUME "cont" \notin Events, FineInv, FineInv', Calm,
         Kept \/ HandlerReturn \/ ShutdownEnd \/ Aside, pc' \notin Terminal
  PROVE  OwnerInv'
<1>t. /\ LocalsType /\ TypeOK' /\ SlotInv(Idle)' /\ OwnerInv /\ NoLostNotification
  BY DEF FineInv, WatchType, LocalsType, Calm
<1>1. CASE Kept \/ HandlerReturn \/ ShutdownEnd
  BY <1>1, <1>t, KeptIsNext, OwnerStep
<1>2. CASE Aside
  BY <1>2, <1>t, AsideOwner
<1> QED BY <1>1, <1>2

(* No report is lost either.                                               *)
LEMMA CalmNotified ==
  ASSUME TypeOK, LocalsType, Parting, NoLostNotification,
         Kept \/ HandlerReturn \/ ShutdownEnd \/ Aside
  PROVE  NoLostNotification'
<1>1. CASE Kept \/ HandlerReturn \/ ShutdownEnd
  BY <1>1, KeptIsNext, NotificationsStep
<1>2. CASE Aside
  <2>1. UNCHANGED <<event, sigchld, handler>>
    BY <1>2, AsideTable DEF procs
  <2> QED BY <2>1 DEF NoLostNotification, handler
<1> QED BY <1>1, <1>2

(* The job in front is settled, as in JobOwnership.                        *)
LEMMA CalmSettled ==
  ASSUME "cont" \notin Events, "kill" \notin Events, TypeOK, LocalsType, Calm, OwnerInv',
         Kept \/ HandlerReturn \/ ShutdownEnd \/ Aside
  PROVE  FrontSettled'
<1>1. CASE Kept \/ HandlerReturn \/ ShutdownEnd
  BY <1>1, KeptIsNext, FrontSettledStep DEF Calm
<1>2. CASE Aside
  <2>1. pc' \notin Monitoring
    BY <1>2, AsideTable DEF Calm
  <2> QED BY <2>1 DEF FrontSettled, Ending, Monitoring
<1> QED BY <1>1, <1>2

(* Who comes to the end of monitorjob(), or stays there.                   *)
LEMMA PartingSteps ==
  ASSUME Kept \/ HandlerReturn \/ ShutdownEnd, pc' \in Leaving \cup {"finish"}
  PROVE  \/ pc' = "finish" /\ blocked' /\ hpc' = "idle"
         \/ pc' = pc /\ HandlerStep
         \/ pc' = pc /\ UNCHANGED <<jobs, blocked, handler, command>>
<1>0. Kept \/ HandlerStep \/ ShutdownEnd
  BY DEF HandlerStep
<1>1. CASE Typed
  BY <1>1 DEF Typed, Launch, DoResume, DoKill, DoHistory, DoQuit, Wait, Goto, Leaving
<1>2. CASE Remask
  BY <1>2 DEF Remask, MainAt, Goto, handler
<1>3. CASE Fork \/ AddJob \/ AddProc \/ Unmask \/ ResumeCont \/ ResumeDone
  BY <1>3 DEF Fork, AddJob, AddProc, Unmask, ResumeCont, ResumeDone, WatchThen, Goto, Leaving
<1>4. CASE Kill \/ ShutdownJob \/ ShutdownEnd \/ GiveTerminal \/ ContForeground
  BY <1>4 DEF Kill, ShutdownJob, ShutdownEnd, GiveTerminal, ContForeground, KillJob,
              WatchThen, Goto, Leaving
<1>5. CASE WhileStopped \/ SleepStopped \/ WhileRunning \/ SleepRunning \/ Reread \/ FinishRunning
  BY <1>5 DEF WhileStopped, SleepStopped, WhileRunning, SleepRunning, Reread, FinishRunning,
              Wait, Goto, Leaving
<1>6. CASE HandlerStep
  <2>1. pc' = pc \/ pc' = awake(pc)
    BY <1>6 DEF HandlerStep, HandlerEnter, HandlerWaitpid, HandlerRecord, HandlerWaitpidNone,
                HandlerReturn
  <2>2. awake(pc) \in Leaving \cup {"finish"} => awake(pc) = pc
    BY DEF awake, Leaving
  <2> QED BY <1>6, <2>1, <2>2
<1>7. CASE Children
  BY <1>7 DEF Children, ChildStep, ChildStart, Exit, Stop, OtherCont, OtherKill, SetModes, table
<1>8. Kept /\ ~HandlerStep =>
        \/ Typed \/ Remask
        \/ Fork \/ AddJob \/ AddProc \/ Unmask \/ ResumeCont \/ ResumeDone
        \/ Kill \/ ShutdownJob \/ GiveTerminal \/ ContForeground
        \/ WhileStopped \/ SleepStopped \/ WhileRunning \/ SleepRunning \/ Reread \/ FinishRunning
        \/ Children
  BY DEF Kept, Silent, HandlerStep
<1> QED BY <1>0, <1>1, <1>2, <1>3, <1>4, <1>5, <1>6, <1>7, <1>8

(* The handler cannot run there.                                           *)
LEMMA PartingAlone ==
  ASSUME Parting, pc \in Leaving \cup {"finish"}
  PROVE  ~HandlerStep
<1>1. blocked /\ hpc = "idle"
  BY DEF Parting
<1>2. ~deliverable
  BY <1>1 DEF deliverable, sleeping, Asleep, Leaving
<1> QED BY <1>1, <1>2 DEF HandlerStep, HandlerEnter, HandlerWaitpid, HandlerRecord,
                          HandlerWaitpidNone, HandlerReturn

(* Every step.                                                             *)
LEMMA CalmParting ==
  ASSUME TypeOK, Calm, Kept \/ HandlerReturn \/ ShutdownEnd \/ Aside
  PROVE  Parting'
<1>t. /\ njobmax \in Nat \ {0} /\ jobs \in Table(njobmax) /\ FG \in DOMAIN jobs /\ FG = 0
      /\ DOMAIN jobs = 0 .. njobmax - 1 /\ Parting /\ FrontSettled
  BY TheTable DEF Calm, FG
<1>1. CASE Kept \/ HandlerReturn \/ ShutdownEnd
  <2>1. ASSUME pc' \in Leaving \cup {"finish"}
        PROVE  \/ pc' = "finish" /\ blocked' /\ hpc' = "idle"
               \/ pc' = pc /\ UNCHANGED <<jobs, blocked, handler, command>>
    BY <1>1, <1>t, <2>1, PartingSteps, PartingAlone
  <2>2. UNCHANGED <<handler, command>> => UNCHANGED <<hpc, state, job>>
    BY DEF handler, command
  <2> QED BY <1>t, <2>1, <2>2 DEF Parting, Leaving
<1>2. CASE WatchStep
  <2>1. pc' \notin Leaving \cup {"finish"}
    BY <1>2, WatchStepEffect DEF Leaving
  <2> QED BY <2>1 DEF Parting, Leaving
<1>3. CASE TakeTerminal
  <2>1. /\ pc = "finish" /\ state \in {STOPPED, FINISHED} /\ hpc = "idle"
        /\ UNCHANGED <<jobs, blocked, hpc, state>>
        /\ pc' = IF state = STOPPED THEN "allocjob" ELSE "deljob"
    BY <1>3 DEF TakeTerminal, MainAt, Goto, table, command, handler
  <2>2. jobs[FG].state = state /\ blocked
    BY <1>t, <2>1 DEF FrontSettled, Ending, Parting
  <2> QED BY <2>1, <2>2 DEF Parting, Leaving, STOPPED, FINISHED
<1>4. CASE AllocStopped
  <2> DEFINE k == allocjob(jobs, njobmax)
             g == grown(jobs, k)
  <2>1. /\ pc = "allocjob" /\ pc' = "movejob" /\ UNCHANGED <<blocked, hpc, state>>
        /\ jobs' = [g EXCEPT ![k] = reserved(@)] /\ job' = k
    BY <1>4 DEF AllocStopped, MainAt, Goto, handler
  <2>2. k \in 1 .. njobmax /\ (k # njobmax => jobs[k].pgid = NoPid)
    BY <1>t, AllocjobIsFree
  <2> HIDE DEF k
  <2>3. DOMAIN g = DOMAIN jobs \cup {k} /\ g[FG] = jobs[FG]
        /\ g[k] = IF k \in DOMAIN jobs THEN jobs[k] ELSE ZeroJob
    BY <1>t DEF grown
  <2>4. g[k] \in Job /\ g[k].pgid = NoPid
    <3>1. CASE k = njobmax
      BY <1>t, <2>3, <3>1, ZeroJobType DEF ZeroJob
    <3>2. CASE k # njobmax
      <4>1. k \in DOMAIN jobs
        BY <1>t, <2>2, <3>2
      <4> QED BY <1>t, <2>2, <2>3, <3>2, <4>1 DEF Table
    <3> QED BY <3>1, <3>2
  <2>5. reserved(g[k]).pgid = NoPid
    BY <2>4 DEF reserved, Job
  <2> HIDE DEF g
  <2>6. k # FG /\ k >= BG
    BY <1>t, <2>2 DEF BG
  <2>7. jobs'[FG] = jobs[FG] /\ jobs'[k].pgid = NoPid
    BY <2>1, <2>3, <2>5, <2>6
  <2>8. blocked /\ hpc = "idle" /\ jobs[FG].state = state /\ state = STOPPED
    BY <1>t, <2>1 DEF Parting, Leaving
  <2> QED BY <2>1, <2>6, <2>7, <2>8 DEF Parting
<1>5. CASE MoveStopped \/ DeleteForeground
  <2>1. pc' \in {"unmask", "aborted", "crashed"}
    BY <1>5 DEF MoveStopped, DeleteForeground, WatchThen, Goto
  <2> QED BY <2>1 DEF Parting, Leaving
<1> QED BY <1>1, <1>2, <1>3, <1>4, <1>5 DEF Aside

(* The steps of JobControl that are kept, by what they do to the table.    *)
LEMMA KeptTable ==
  ASSUME Kept \/ HandlerReturn \/ ShutdownEnd
  PROVE  \/ jobs' = jobs /\ (UNCHANGED handler \/ hpc' # "idle")
         \/ AddJob \/ AddProc \/ HandlerRecord \/ HandlerReturn \/ ShutdownEnd
         \/ ResumeDone \/ GiveTerminal
<1>1. CASE Typed
  BY <1>1 DEF Typed, Launch, DoResume, DoKill, DoHistory, DoQuit, Wait, table
<1>2. CASE \/ Fork \/ Unmask \/ ResumeCont \/ Kill \/ ShutdownJob
           \/ WhileStopped \/ ContForeground \/ SleepStopped
           \/ WhileRunning \/ SleepRunning \/ Reread \/ Remask \/ FinishRunning
  BY <1>2 DEF Fork, Unmask, ResumeCont, Kill, ShutdownJob, WhileStopped, ContForeground,
              SleepStopped, WhileRunning, SleepRunning, Reread, Remask, FinishRunning, Wait, table
<1>3. CASE HandlerEnter \/ (\E p \in Pids : HandlerWaitpid(p)) \/ HandlerWaitpidNone
  BY <1>3 DEF HandlerEnter, HandlerWaitpid, HandlerWaitpidNone, table
<1>4. CASE Children
  BY <1>4 DEF Children, ChildStep, ChildStart, Exit, Stop, OtherCont, OtherKill, SetModes, table
<1> QED BY <1>1, <1>2, <1>3, <1>4 DEF Kept, Silent

(* A rearranged table has no job that finished in background, if none came *)
(* there from the slot FG.                                                 *)
LEMMA NoneFinishedMoved ==
  ASSUME TypeOK, NoneFinished, hpc = "idle", NEW S, Rearranged(S, jobs, jobs'),
         \/ jobs[FG].pgid = NoPid \/ jobs[FG].state # FINISHED
         \/ /\ Distinct(jobs)
            /\ \A k \in DOMAIN jobs' :
                 jobs'[k].pgid # NoPid => k \in DOMAIN jobs /\ jobs'[k].pgid = jobs[k].pgid
  PROVE  NoneFinished'
<1>t. DOMAIN jobs = 0 .. njobmax - 1 /\ FG = 0 /\ BG = 1 /\ FG \in DOMAIN jobs
  BY TheTable DEF FG, BG
<1>1. ASSUME NEW k \in DOMAIN jobs', k >= BG, jobs'[k].pgid # NoPid
      PROVE  jobs'[k].state # FINISHED
  <2>1. PICK i \in DOMAIN jobs : Alike(jobs'[k], jobs[i])
    BY <1>1 DEF Rearranged
  <2>2. jobs[i].pgid = jobs'[k].pgid /\ jobs[i].state = jobs'[k].state
    BY <2>1 DEF Alike, Same
  <2>3. CASE i >= BG
    BY <1>1, <2>2, <2>3 DEF NoneFinished
  <2>4. CASE i = FG
    <3>1. CASE jobs[FG].pgid = NoPid \/ jobs[FG].state # FINISHED
      BY <1>1, <2>2, <2>4, <3>1
    <3>2. CASE /\ Distinct(jobs)
               /\ k \in DOMAIN jobs /\ jobs'[k].pgid = jobs[k].pgid
      <4>1. i = k
        BY <1>1, <2>2, <3>2 DEF Distinct
      <4> QED BY <1>1, <1>t, <2>4, <4>1
    <3> QED BY <1>1, <3>1, <3>2
  <2> QED BY <1>t, <2>3, <2>4
<1> QED BY <1>1 DEF NoneFinished

(* Every step.                                                             *)
LEMMA CalmNoneFinished ==
  ASSUME TypeOK, LocalsType, Calm, Kept \/ HandlerReturn \/ ShutdownEnd \/ Aside,
         pc' \notin Terminal
  PROVE  NoneFinished'
<1>t. /\ njobmax \in Nat \ {0} /\ jobs \in Table(njobmax) /\ DOMAIN jobs = 0 .. njobmax - 1
      /\ FG \in DOMAIN jobs /\ FG = 0 /\ \A k \in DOMAIN jobs : jobs[k] \in Job
  BY TheTable DEF FG
<1>c. /\ NoneFinished /\ Parting /\ SafetyInv /\ SlotInv(Idle) /\ FrontFree
      /\ Distinct(jobs) /\ HasProcs
  BY DEF Calm, OwnerInv, FrontInv, GroupInv, Grouping
<1>1. CASE jobs' = jobs /\ (UNCHANGED handler \/ hpc' # "idle")
  BY <1>1, <1>c DEF NoneFinished, handler
<1>2. CASE AddJob
  <2>1. /\ DOMAIN jobs' = DOMAIN jobs \cup {job'} /\ jobs'[job'] = newJob(lead)
        /\ \A k \in DOMAIN jobs : k # job' => jobs'[k] = jobs[k]
    BY <1>2, AddJobTable
  <2>2. newJob(lead).state # FINISHED /\ hpc' = hpc
    BY <1>2 DEF newJob, RUNNING, FINISHED, AddJob, handler
  <2>3. \A k \in DOMAIN jobs' : k = job' \/ (k \in DOMAIN jobs /\ jobs'[k] = jobs[k])
    BY <2>1
  <2> QED BY <1>c, <2>1, <2>2, <2>3 DEF NoneFinished
<1>3. CASE AddProc
  <2>1. /\ DOMAIN jobs' = DOMAIN jobs /\ \A k \in DOMAIN jobs : k # job => jobs'[k] = jobs[k]
        /\ jobs'[job].pgid = jobs[job].pgid /\ jobs'[job].state = jobs[job].state
    BY <1>3, <1>c, AddProcTable
  <2>2. hpc' = hpc
    BY <1>3 DEF AddProc, handler
  <2>3. \A k \in DOMAIN jobs : jobs'[k].pgid = jobs[k].pgid /\ jobs'[k].state = jobs[k].state
    BY <2>1
  <2> QED BY <1>c, <2>1, <2>2, <2>3 DEF NoneFinished
<1>4. CASE HandlerRecord
  BY <1>4 DEF HandlerRecord, afterRecord, NoneFinished
<1>5. CASE HandlerReturn
  <2>1. \A k \in DOMAIN jobs : k >= BG => jobs'[k] = watchjob(jobs[k], FINISHED)
    BY <1>5 DEF HandlerReturn, watchjobs
  <2>2. ASSUME NEW k \in DOMAIN jobs, k >= BG, jobs'[k].pgid # NoPid
        PROVE  jobs'[k].state # FINISHED
    <3>1. CASE watched(jobs[k], FINISHED)
      <4>1. watchjob(jobs[k], FINISHED) = deljob(jobs[k])
        BY <3>1 DEF watchjob, watched, ALL, RUNNING, STOPPED, FINISHED
      <4>2. deljob(jobs[k]).pgid = NoPid
        BY <1>t DEF deljob, Job
      <4> QED BY <2>1, <2>2, <4>1, <4>2
    <3>2. CASE ~watched(jobs[k], FINISHED)
      <4>1. jobs'[k] = jobs[k]
        BY <2>1, <2>2, <3>2 DEF watchjob
      <4> QED BY <2>2, <3>2, <4>1 DEF watched
    <3> QED BY <3>1, <3>2
  <2>3. DOMAIN jobs' = DOMAIN jobs
    BY <1>5 DEF HandlerReturn, watchjobs
  <2> QED BY <2>2, <2>3 DEF NoneFinished
<1>6. CASE ShutdownEnd
  BY <1>6 DEF ShutdownEnd, WatchThen, Goto, Terminal
<1>7. CASE ResumeDone
  <2>1. Rearranged({}, jobs, jobs')
    BY <1>7, <1>c, ResumedTable DEF SafetyInv
  <2>2. hpc = "idle" /\ pc = "resume"
    BY <1>7 DEF ResumeDone, MainAt
  <2>3. jobs[FG].pgid = NoPid
    BY <1>c, <2>2 DEF FrontFree, InFront, Monitoring, Terminal
  <2> QED BY <1>c, <2>1, <2>2, <2>3, NoneFinishedMoved
<1>8. CASE GiveTerminal
  <2>1. jobs' = jobs /\ hpc' = hpc
    BY <1>8 DEF GiveTerminal, handler, table
  <2> QED BY <1>c, <2>1 DEF NoneFinished
<1>9. CASE Aside
  <2>1. Rearranged({FINISHED}, jobs, jobs') /\ hpc = "idle"
    BY <1>9, <1>c, AsideTable
  <2>2. CASE WatchStep
    <3>1. jobs[FG].pgid = NoPid
      BY <1>c, <2>2, WatchStepEffect DEF FrontFree, InFront, Monitoring, Terminal
    <3> QED BY <1>c, <2>1, <3>1, NoneFinishedMoved
  <2>3. CASE TakeTerminal
    BY <1>c, <2>3 DEF TakeTerminal, table, handler, NoneFinished
  <2>4. CASE AllocStopped \/ MoveStopped
    <3>1. pc \in {"allocjob", "movejob"}
      BY <2>4 DEF AllocStopped, MoveStopped, MainAt
    <3>2. jobs[FG].state # FINISHED
      BY <1>c, <3>1 DEF Parting, Leaving, STOPPED, FINISHED
    <3> QED BY <1>c, <2>1, <3>2, NoneFinishedMoved
  <2>5. CASE DeleteForeground
    <3>1. jobs[FG].state = FINISHED
      BY <1>c, <2>5 DEF DeleteForeground, MainAt, Parting, Leaving
    <3>2. WatchThen([jobs EXCEPT ![FG] = deljob(@)], FINISHED, "unmask")
      BY <2>5, <3>1 DEF DeleteForeground
    <3>3. \A k \in DOMAIN jobs' :
            jobs'[k].pgid # NoPid => k \in DOMAIN jobs /\ jobs'[k].pgid = jobs[k].pgid
      BY <3>1, <3>2, FrontDropped
    <3> QED BY <1>c, <2>1, <3>3, NoneFinishedMoved
  <2> QED BY <1>9, <2>2, <2>3, <2>4, <2>5 DEF Aside
<1> QED BY <1>1, <1>2, <1>3, <1>4, <1>5, <1>6, <1>7, <1>8, <1>9, KeptTable

(* Whoever is first in a slot stays first when slots are moved.            *)
LEMMA LeadersCarried ==
  ASSUME LeaderFirst, Carried(jobs, jobs')
  PROVE  \A k \in DOMAIN jobs' :
           jobs'[k].pgid # NoPid /\ 1 \in DOMAIN jobs'[k].proc =>
             jobs'[k].proc[1].pid = jobs'[k].pgid
<1>1. ASSUME NEW k \in DOMAIN jobs', jobs'[k].pgid # NoPid, 1 \in DOMAIN jobs'[k].proc
      PROVE  jobs'[k].proc[1].pid = jobs'[k].pgid
  <2>1. PICK i \in DOMAIN jobs : SamePids(jobs'[k], jobs[i])
    BY <1>1 DEF Carried
  <2>2. /\ jobs[i].pgid = jobs'[k].pgid /\ 1 \in DOMAIN jobs[i].proc
        /\ jobs'[k].proc[1].pid = jobs[i].proc[1].pid
    BY <1>1, <2>1 DEF SamePids
  <2> QED BY <1>1, <2>2 DEF LeaderFirst
<1> QED BY <1>1

(* Every step.                                                             *)
LEMMA CalmLeaders ==
  ASSUME TypeOK, LocalsType, Calm, Kept \/ HandlerReturn \/ ShutdownEnd \/ Aside
  PROVE  LeaderFirst'
<1>t. /\ DOMAIN jobs = 0 .. njobmax - 1 /\ njobmax \in Nat /\ \A k \in DOMAIN jobs : jobs[k] \in Job
  BY TheTable
<1>c. /\ LeaderFirst /\ Parting /\ SafetyInv /\ SlotInv(Idle) /\ NewGroup /\ HasProcs
  BY DEF Calm, OwnerInv, FrontInv, GroupInv
<1>1. CASE AddJob
  <2>1. /\ DOMAIN jobs' = DOMAIN jobs \cup {job'} /\ jobs'[job'] = newJob(lead)
        /\ \A k \in DOMAIN jobs : k # job' => jobs'[k] = jobs[k]
        /\ pc = "addjob" /\ UNCHANGED <<lead, newpid>>
    BY <1>1, AddJobTable
  <2>2. newJob(lead).proc = << >>
    BY DEF newJob
  <2>3. \A k \in DOMAIN jobs' : k = job' \/ (k \in DOMAIN jobs /\ jobs'[k] = jobs[k])
    BY <2>1
  <2>4. newpid' = lead'
    BY <1>c, <2>1 DEF NewGroup
  <2> QED BY <1>c, <2>1, <2>2, <2>3, <2>4 DEF LeaderFirst
<1>2. CASE AddProc
  <2>1. PICK m : /\ DOMAIN jobs'[job].proc = DOMAIN jobs[job].proc \cup {m}
                 /\ jobs'[job].proc[m] = newProc(newpid)
                 /\ \A i \in DOMAIN jobs[job].proc : jobs'[job].proc[i] = jobs[job].proc[i]
    BY <1>2, <1>c, AddProcTable
  <2>2. /\ pc = "addproc" /\ DOMAIN jobs' = DOMAIN jobs /\ job \in DOMAIN jobs
        /\ \A k \in DOMAIN jobs : k # job => jobs'[k] = jobs[k]
        /\ jobs'[job].pgid = jobs[job].pgid
    BY <1>2, <1>c, AddProcTable
  <2>3. pc' # "addproc"
    BY <1>2 DEF AddProc, Goto
  <2>4. ASSUME 1 \in DOMAIN jobs'[job].proc, jobs'[job].pgid # NoPid
        PROVE  jobs'[job].proc[1].pid = jobs'[job].pgid
    <3>1. CASE 1 \in DOMAIN jobs[job].proc
      BY <1>c, <2>1, <2>2, <2>4, <3>1 DEF LeaderFirst
    <3>2. CASE 1 \notin DOMAIN jobs[job].proc
      <4>1. DOMAIN jobs[job].proc = {}
        <5>1. jobs[job].proc \in Seq(Proc)
          BY <1>t, <2>2 DEF Job
        <5> DEFINE proc == jobs[job].proc
        <5>2. proc \in Seq(Proc) /\ 1 \notin DOMAIN proc
          BY <3>2, <5>1
        <5> HIDE DEF proc
        <5>3. DOMAIN proc = {}
          BY <5>2
        <5> QED BY <5>3 DEF proc
      <4>2. m = 1 /\ newpid = lead
        BY <1>c, <2>1, <2>2, <2>4, <4>1 DEF LeaderFirst
      <4>3. jobs[job].pgid = lead
        BY <1>c, <2>2 DEF NewGroup
      <4> QED BY <2>1, <2>2, <4>2, <4>3 DEF newProc
    <3> QED BY <3>1, <3>2
  <2>5. \A k \in DOMAIN jobs' : k = job \/ (k \in DOMAIN jobs /\ jobs'[k] = jobs[k])
    BY <2>2
  <2> QED BY <1>c, <2>2, <2>3, <2>4, <2>5 DEF LeaderFirst
<1>3. CASE (Kept \/ HandlerReturn \/ ShutdownEnd) /\ ~AddJob /\ ~AddProc
  <2>1. Next
    BY <1>3, KeptIsNext
  <2>2. Carried(jobs, jobs')
    BY <1>3, <1>c, <2>1, TableStep, RearrangedCarried, RecordCarried
  <2>3. ASSUME pc' = "addproc", DOMAIN jobs'[job'].proc = {}
        PROVE  newpid' = lead'
    <3>1. Fork \/ UNCHANGED <<jobs, pc, lead, newpid, job, bg>>
      BY <1>3, <1>c, <2>1, <2>3, WindowSteps DEF Window
    <3>2. CASE UNCHANGED <<jobs, pc, lead, newpid, job, bg>>
      BY <1>c, <2>3, <3>2 DEF LeaderFirst
    <3>3. CASE Fork
      <4>1. pc = "fork" /\ lead # NoPid /\ UNCHANGED <<jobs, job>>
        BY <2>3, <3>3 DEF Fork, MainAt, Goto, table
      <4>2. jobs[job].pgid # NoPid /\ job \in DOMAIN jobs
        <5>1. job \in Nat /\ job < njobmax
          BY <4>1 DEF TypeOK, MainType, Terminal
        <5> QED BY <1>c, <1>t, <4>1, <5>1 DEF NewGroup
      <4> QED BY <1>c, <2>3, <4>1, <4>2 DEF HasProcs
    <3> QED BY <3>1, <3>2, <3>3
  <2> QED BY <1>c, <2>2, <2>3, LeadersCarried DEF LeaderFirst
<1>4. CASE Aside
  <2>1. Carried(jobs, jobs') /\ pc' \notin Window
    BY <1>4, <1>c, AsideTable, RearrangedCarried
  <2> QED BY <1>c, <2>1, LeadersCarried DEF LeaderFirst, Window
<1> QED BY <1>1, <1>2, <1>3, <1>4

(* The accesses of watchjobs().                                            *)
LEMMA WatchUnended ==
  ASSUME TypeOK, LocalsType, WatchInv, SlotInv(Idle), NoneFinished, Unended, WatchStep
  PROVE  Unended'
<1>t. DOMAIN jobs = 0 .. njobmax - 1 /\ njobmax \in Nat \ {0}
  BY TheTable
<1>0. pc \in {"loopend", "readline"} => at = "pgid"
  BY DEF WatchInv
<1>1. ASSUME at' = "statusp", wstate' = FINISHED
      PROVE  jobs'[j'].proc = << >>
  <2>1. /\ jobs' = jobs /\ j' = j /\ hpc = "idle"
        /\ \/ at = "state" /\ wstate' = jobs[j].state
           \/ at = "statusp" /\ wstate' = wstate
    BY <1>0, <1>1 DEF WatchStep, WatchStart, WatchEnd, WatchPgid, WatchState, WatchStatus, WatchMsg,
                WatchClear, WatchDelete, Watching, MainAt, noLocals, nextSlot, afterMsg
  <2>2. CASE at = "state" /\ jobs[j].state = FINISHED
    <3>1. j \in DOMAIN jobs /\ j >= BG
      BY <1>t, <2>2 DEF LocalsType, BG
    <3>2. jobs[j].pgid = NoPid
      BY <2>1, <2>2, <3>1 DEF NoneFinished
    <3>3. FreeSlot(Idle, jobs[j])
      BY <3>1 DEF SlotInv, SlotsSound, SlotSound
    <3> QED BY <2>1, <3>2, <3>3 DEF FreeSlot
  <2>3. CASE at = "statusp" /\ wstate = FINISHED
    BY <2>1, <2>3 DEF Unended
  <2> QED BY <1>1, <2>1, <2>2, <2>3
<1>2. ASSUME at' \in {"msg", "clear", "delete"}
      PROVE  wstate' # FINISHED
  <2>1. /\ wstate' = wstate
        /\ \/ at = "statusp" /\ jobs[j].proc # << >>
           \/ at \in {"msg", "clear", "delete"}
    BY <1>0, <1>2 DEF WatchStep, WatchStart, WatchEnd, WatchPgid, WatchState, WatchStatus, WatchMsg,
                WatchClear, WatchDelete, Watching, MainAt, noLocals, nextSlot, afterMsg
  <2> QED BY <2>1 DEF Unended
<1> QED BY <1>1, <1>2 DEF Unended

(* Every step.                                                             *)
LEMMA CalmUnended ==
  ASSUME FineInv, FineInv', Calm, Kept \/ HandlerReturn \/ ShutdownEnd \/ Aside,
         UNCHANGED locals \/ WatchStep
  PROVE  Unended'
<1>t. /\ TypeOK /\ TypeOK' /\ LocalsType /\ WatchInv /\ SlotInv(Idle) /\ NoneFinished /\ Unended
      /\ HasProcs /\ SafetyInv
  BY DEF FineInv, WatchType, LocalsType, Calm, OwnerInv, FrontInv
<1>d. DOMAIN jobs = 0 .. njobmax - 1 /\ \A k \in DOMAIN jobs : jobs[k] \in Job
  BY <1>t, TheTable
<1>1. CASE WatchStep
  BY <1>1, <1>t, WatchUnended
<1>2. CASE UNCHANGED locals /\ ~WatchStep
  <2>1. UNCHANGED <<at, j, wstate>>
    BY <1>2 DEF locals
  <2>2. ASSUME at = "statusp", wstate = FINISHED, jobs[j].proc = << >>
        PROVE  jobs'[j].proc = << >>
    <3>1. pc \in {"watch", "crashed", "aborted"} /\ j \in DOMAIN jobs /\ j >= BG
      <4>1. pc \in {"watch", "crashed", "aborted"}
        BY <1>t, <2>2 DEF WatchInv
      <4>2. j \in BG .. njobmax /\ j < njobmax /\ njobmax \in Nat
        BY <1>t, <2>2, TheTable DEF LocalsType
      <4> QED BY <1>d, <4>1, <4>2 DEF BG
    <3>2. HandlerStep \/ Children
      <4>1. Next \/ TakeTerminal \/ AllocStopped \/ MoveStopped \/ DeleteForeground
        BY <1>2, KeptIsNext DEF Aside
      <4> QED BY <3>1, <4>1, OthersMove
    <3>3. CASE HandlerRecord
      <4>1. DOMAIN jobs'[j].proc = DOMAIN jobs[j].proc /\ j \in DOMAIN jobs'
        BY <1>t, <3>1, <3>3, RecordTable DEF SamePids
      <4>2. jobs'[j].proc \in Seq(Proc)
        BY <1>t, <4>1 DEF TypeOK, TableType, Job
      <4>3. DOMAIN jobs'[j].proc = {}
        BY <2>2, <4>1
      <4> DEFINE proc == jobs'[j].proc
      <4>4. proc \in Seq(Proc) /\ DOMAIN proc = {}
        BY <4>2, <4>3
      <4> HIDE DEF proc
      <4>5. proc = << >>
        BY <4>4
      <4> QED BY <4>5 DEF proc
    <3>4. CASE HandlerReturn
      <4>1. jobs[j].pgid = NoPid
        BY <1>t, <2>2, <3>1 DEF HasProcs
      <4>2. jobs'[j] = watchjob(jobs[j], FINISHED)
        BY <3>1, <3>4 DEF HandlerReturn, watchjobs
      <4>3. watchjob(jobs[j], FINISHED) = jobs[j]
        BY <4>1 DEF watchjob, watched
      <4> QED BY <2>2, <4>2, <4>3
    <3>5. CASE HandlerEnter \/ (\E p \in Pids : HandlerWaitpid(p)) \/ HandlerWaitpidNone \/ Children
      BY <2>2, <3>5 DEF HandlerEnter, HandlerWaitpid, HandlerWaitpidNone, table, Children, ChildStep,
                        ChildStart, Exit, Stop, OtherCont, OtherKill, SetModes
    <3> QED BY <3>2, <3>3, <3>4, <3>5 DEF HandlerStep
  <2> QED BY <1>t, <2>1, <2>2 DEF Unended
<1> QED BY <1>1, <1>2

-------------------------------------------------------------------------------
(* Messages about jobs that ended. *)

(* The processes of a job that is over stay gone, and its group is not      *)
(* made again.                                                             *)
LEMMA OverKept ==
  ASSUME TypeOK, LocalsType, Calm, Kept \/ HandlerReturn \/ ShutdownEnd \/ Aside,
         NEW p \in Pids, Over(p)
  PROVE  Over(p)'
<1>c. /\ Parting /\ SafetyInv /\ SlotInv(Idle) /\ GroupInv /\ GroupAtRest /\ NewChild
  BY DEF Calm, OwnerInv, FrontInv, GroupInv, SafetyInv
<1>p. p # NoPid /\ p # Shell
  BY PidAssumption, ShellAssumption
<1>1. CASE Kept \/ HandlerReturn \/ ShutdownEnd
  <2>1. Next
    BY <1>1, KeptIsNext
  <2>2. (\A q \in Pids : Bound(q)) /\ SafetyInv'
    BY <1>c, <2>1, BoundStep, SafetyStep
  <2>3. life'[p] = "gone"
    BY <2>2 DEF Over, Bound
  <2>f. Fork => newpid' # p /\ lead' # p /\ aim(newpid)' = lead'
    <3>1. Fork => aim(newpid)' = lead'
      BY <1>c, <2>2, NewGroupFork
    <3>2. Fork => newpid' \in unused /\ lead' \in {newpid', lead}
      BY DEF Fork
    <3> QED BY <3>1, <3>2 DEF Over, unused
  <2>4. lead' # p
    <3>1. CASE Fork
      BY <2>f, <3>1
    <3>2. CASE AddJob \/ AddProc \/ UNCHANGED <<jobs, pc, lead, newpid, job, bg>>
      BY <1>p, <3>2 DEF Over, AddJob, AddProc
    <3>3. CASE pc \notin Window /\ (pc' \in Window => lead' = NoPid)
      <4>1. lead' = NoPid
        BY <2>2, <3>3 DEF SafetyInv, NewChild
      <4> QED BY <1>p, <4>1
    <3> QED BY <1>c, <2>1, <3>1, <3>2, <3>3, WindowSteps
  <2>5. ASSUME NEW q \in Pids, exists(q)' PROVE aim(q)' # p
    <3>1. CASE life[q] # "none"
      BY <1>p, <2>2, <2>5, <3>1 DEF Bound, Over
    <3>2. CASE life[q] = "none" /\ q = newpid'
      <4>1. newpid # newpid'
        BY <1>c, <1>p, <3>2, PidAssumption DEF NewChild
      <4>2. Fork
        <5>1. ~AddJob /\ ~AddProc
          BY <3>2, <4>1, PidAssumption DEF AddJob, AddProc
        <5> QED BY <1>c, <2>1, <4>1, <5>1, WindowSteps
      <4> QED BY <2>f, <3>2, <4>2
    <3>3. CASE life[q] = "none" /\ q # newpid'
      BY <1>p, <2>2, <2>5, <3>3 DEF Bound
    <3> QED BY <3>1, <3>2, <3>3
  <2>6. \A k \in DOMAIN jobs' : jobs'[k].pgid # p
    <3>1. CASE AddJob
      <4>1. /\ DOMAIN jobs' = DOMAIN jobs \cup {job'} /\ jobs'[job'] = newJob(lead)
            /\ \A k \in DOMAIN jobs : k # job' => jobs'[k] = jobs[k]
        BY <3>1, AddJobTable
      <4>2. newJob(lead).pgid = lead
        BY DEF newJob
      <4>3. \A k \in DOMAIN jobs' : k = job' \/ (k \in DOMAIN jobs /\ jobs'[k] = jobs[k])
        BY <4>1
      <4> QED BY <4>1, <4>2, <4>3 DEF Over
    <3>2. CASE AddProc
      <4>1. /\ DOMAIN jobs' = DOMAIN jobs /\ \A k \in DOMAIN jobs : k # job => jobs'[k] = jobs[k]
            /\ jobs'[job].pgid = jobs[job].pgid
        BY <1>c, <3>2, AddProcTable
      <4> QED BY <4>1 DEF Over
    <3>3. CASE ~AddJob /\ ~AddProc
      <4>1. Carried(jobs, jobs')
        BY <1>c, <2>1, <3>3, TableStep, RearrangedCarried, RecordCarried
      <4> QED BY <1>p, <4>1 DEF Carried, SamePids, Over
    <3> QED BY <3>1, <3>2, <3>3
  <2> QED BY <2>3, <2>4, <2>5, <2>6 DEF Over
<1>2. CASE Aside
  <2>1. UNCHANGED <<life, group, pgarg, lead>> /\ Carried(jobs, jobs')
    BY <1>2, <1>c, AsideTable, RearrangedCarried DEF procs
  <2>2. \A q \in Pids : (exists(q)' <=> exists(q)) /\ aim(q)' = aim(q)
    BY <2>1 DEF exists, aim
  <2>3. \A k \in DOMAIN jobs' : jobs'[k].pgid # p
    BY <1>p, <2>1 DEF Carried, SamePids, Over
  <2> QED BY <2>1, <2>2, <2>3 DEF Over
<1> QED BY <1>1, <1>2

(* Nobody is left of a job that the handler announces, and it frees the    *)
(* slot.                                                                   *)
LEMMA AnnouncedOver ==
  ASSUME TypeOK, Calm, HandlerReturn, NEW p \in Pids, p \in announced(jobs)
  PROVE  Over(p)' /\ \E k \in DOMAIN jobs : jobs[k].pgid = p
<1>c. /\ SafetyInv /\ SlotInv(Idle) /\ HasProcs /\ Gone /\ LeaderFirst
      /\ Grouping(jobs) /\ Distinct(jobs) /\ AimedOwned(jobs) /\ NewChild /\ WindowClosed
  BY DEF Calm, OwnerInv, FrontInv, GroupInv, SafetyInv, Grouping
<1>p. p # NoPid
  BY PidAssumption
<1>k. PICK k \in DOMAIN jobs : k >= BG /\ watched(jobs[k], FINISHED) /\ jobs[k].pgid = p
  BY DEF announced
<1>1. jobs[k].state = FINISHED
  BY <1>k DEF watched, ALL, FINISHED
<1>2. pc \notin Window /\ newpid = NoPid /\ lead = NoPid
  BY <1>c DEF HandlerReturn, WindowClosed, NewChild, Window
<1>3. DOMAIN jobs[k].proc # {}
  BY <1>2, <1>c, <1>k, <1>p DEF HasProcs, Window
<1>4. \A i \in DOMAIN jobs[k].proc : jobs[k].proc[i].pid \in ended(jobs)
  <2>1. Summary(jobs[k])
    BY <1>c, <1>k DEF SlotInv, SlotsSound, SlotSound
  <2>2. \A i \in DOMAIN jobs[k].proc : jobs[k].proc[i].pid \in Pids /\ jobs[k].proc[i].state \in States
    BY <1>k, EntryTypes
  <2>3. \A i \in DOMAIN jobs[k].proc : jobs[k].proc[i].state = FINISHED
    BY <1>1, <1>3, <2>1, <2>2, SummaryStates
  <2> QED BY <1>k, <2>2, <2>3 DEF ended
<1>5. 1 \in DOMAIN jobs[k].proc
  <2>1. jobs[k].proc \in Seq(Proc)
    BY <1>k, TheTable DEF Job
  <2> DEFINE proc == jobs[k].proc
  <2>2. proc \in Seq(Proc) /\ DOMAIN proc # {}
    BY <1>3, <2>1
  <2> HIDE DEF proc
  <2>3. 1 \in DOMAIN proc
    BY <2>2
  <2> QED BY <2>3 DEF proc
<1>6. life[p] = "gone"
  BY <1>4, <1>5, <1>c, <1>k, <1>p DEF LeaderFirst, Gone
<1>7. ASSUME NEW q \in Pids, exists(q) PROVE aim(q) # p
  <2>1. SUFFICES ASSUME aim(q) = p PROVE FALSE
    OBVIOUS
  <2>2. q # newpid
    BY <1>2, PidAssumption
  <2>3. \E i \in DOMAIN jobs[k].proc : jobs[k].proc[i].pid = q
    BY <1>7, <1>c, <1>k, <1>p, <2>1, <2>2 DEF AimedOwned
  <2>4. life[q] = "gone"
    BY <1>4, <1>c, <2>3 DEF Gone
  <2> QED BY <1>7, <2>4 DEF exists
<1>8. /\ DOMAIN jobs' = DOMAIN jobs /\ UNCHANGED <<life, group, pgarg, lead>>
      /\ \A i \in DOMAIN jobs : jobs'[i] = IF i >= BG THEN watchjob(jobs[i], FINISHED) ELSE jobs[i]
  BY DEF HandlerReturn, watchjobs, procs, command
<1>9. ASSUME NEW i \in DOMAIN jobs' PROVE jobs'[i].pgid # p
  <2>1. i \in DOMAIN jobs /\ jobs[i] \in Job
    BY <1>8, TheTable
  <2>2. CASE i = k
    <3>1. watchjob(jobs[k], FINISHED) = deljob(jobs[k])
      BY <1>1, <1>k DEF watchjob, RUNNING, STOPPED, FINISHED
    <3>2. deljob(jobs[k]).pgid = NoPid
      BY <2>1, <2>2 DEF deljob, Job
    <3> QED BY <1>8, <1>k, <1>p, <2>2, <3>1, <3>2
  <2>3. CASE i # k
    <3>1. jobs[i].pgid # p
      BY <1>c, <1>k, <1>p, <2>1, <2>3 DEF Distinct
    <3>2. jobs'[i].pgid \in {jobs[i].pgid, NoPid}
      BY <1>8, <2>1, WatchjobAlike DEF Alike, Same
    <3> QED BY <1>p, <3>1, <3>2
  <2> QED BY <2>2, <2>3
<1>10. \A q \in Pids : (exists(q)' <=> exists(q)) /\ aim(q)' = aim(q)
  BY <1>8 DEF exists, aim
<1>11. life'[p] = "gone" /\ lead' # p
  BY <1>2, <1>6, <1>8, <1>p
<1>12. Over(p)'
  BY <1>7, <1>9, <1>10, <1>11 DEF Over
<1> QED BY <1>12, <1>k

(* While the handler is not running, watchjobs() has nobody to announce.   *)
LEMMA NobodyAnnounced ==
  ASSUME TypeOK, NoneFinished, hpc = "idle"
  PROVE  announced(jobs) = {}
BY DEF announced, watched, NoneFinished, ALL, FINISHED

(* The messages of a step.                                                 *)
LEMMA Announcements ==
  ASSUME WatchType, Calm, FineNext, ~Interrupt, NEW p \in Pids
  PROVE  \/ reports'[p] = reports[p]
         \/ HandlerReturn /\ p \in announced(jobs) /\ reports'[p] = reports[p] + 1
<1>t. reports \in [Pids -> Nat] /\ TypeOK /\ NoneFinished /\ Unended
  BY DEF WatchType, Calm
<1>1. CASE WatchStep
  <2>1. reports' = reports
    BY <1>1, <1>t DEF WatchStep, WatchStart, WatchEnd, WatchPgid, WatchState, WatchStatus, WatchMsg,
                      WatchClear, WatchDelete, Watching, Unended
  <2> QED BY <2>1
<1>2. CASE Reporting
  <2>1. reports'[p] = reports[p] + IF p \in announced(jobs) THEN 1 ELSE 0
    BY <1>2 DEF Reporting, Announce
  <2>2. reports[p] \in Nat
    BY <1>t
  <2>3. CASE p \notin announced(jobs)
    <3>1. reports'[p] = reports[p] + 0
      BY <2>1, <2>3
    <3> QED BY <2>2, <3>1
  <2>4. CASE p \in announced(jobs)
    <3>1. hpc # "idle"
      BY <1>t, <2>4, NobodyAnnounced
    <3>2. HandlerReturn
      BY <1>2, <3>1 DEF Reporting, ShutdownEnd, DeleteForeground, MainAt
    <3> QED BY <2>1, <2>4, <3>2
  <2> QED BY <2>3, <2>4
<1>3. CASE Silent
  BY <1>3 DEF Silent
<1> QED BY <1>1, <1>2, <1>3 DEF FineNext

(* Every step.                                                             *)
LEMMA CalmReported ==
  ASSUME WatchType, LocalsType, Calm, Reported, FineNext, ~Interrupt
  PROVE  Reported'
<1>s. Kept \/ HandlerReturn \/ ShutdownEnd \/ Aside
  BY DEF FineNext, Reporting, Kept, Aside
<1>t. TypeOK /\ reports \in [Pids -> Nat]
  BY DEF WatchType
<1>1. ASSUME NEW p \in Pids, reports'[p] > 0
      PROVE  reports'[p] = 1 /\ Over(p)'
  <2>1. CASE reports'[p] = reports[p]
    <3>1. reports[p] = 1 /\ Over(p)
      BY <1>1, <2>1 DEF Reported
    <3> QED BY <1>s, <1>t, <2>1, <3>1, OverKept
  <2>2. CASE HandlerReturn /\ p \in announced(jobs) /\ reports'[p] = reports[p] + 1
    <3>1. Over(p)' /\ \E k \in DOMAIN jobs : jobs[k].pgid = p
      BY <1>t, <2>2, AnnouncedOver
    <3>2. ~Over(p)
      BY <3>1 DEF Over
    <3>3. ~(reports[p] > 0) /\ reports[p] \in Nat
      BY <1>t, <3>2 DEF Reported
    <3>4. reports[p] = 0
      BY <3>3
    <3> QED BY <2>2, <3>1, <3>4
  <2> QED BY <2>1, <2>2, Announcements
<1>2. \A p \in Pids : (reports[p] > 0)' => (reports[p] = 1 /\ Over(p))'
  BY <1>1
<1> QED BY <1>2 DEF Reported

-------------------------------------------------------------------------------
(* The invariant. *)

CalmInv ==
  /\ interrupts = 0 /\ pc \notin Terminal => Calm
  /\ pc \in Terminal => hpc = "idle"
  /\ interrupts = 0 => GroupAtRest /\ Reported

(* main() at its first prompt.                                             *)
LEMMA CalmInit == FineInit => CalmInv
<1> SUFFICES ASSUME FineInit PROVE CalmInv
  OBVIOUS
<1>1. OwnerInv
  BY OwnerInit DEF FineInit
<1>2. /\ \A p \in Pids : event[p] = NoStatus /\ reports[p] = 0
      /\ \A k \in DOMAIN jobs : jobs[k].pgid = NoPid
      /\ pc = "readline" /\ hpc = "idle" /\ at = "pgid"
  BY DEF FineInit, Init, ZeroJob
<1>3. NoLostNotification /\ FrontSettled /\ Parting /\ NoneFinished /\ Unended /\ LeaderFirst
  BY <1>2 DEF NoLostNotification, FrontSettled, Ending, Parting, Leaving, NoneFinished, Unended,
              LeaderFirst
<1>4. GroupAtRest /\ Reported
  BY <1>1, <1>2 DEF Reported, OwnerInv, FrontInv, GroupInv
<1> QED BY <1>1, <1>2, <1>3, <1>4 DEF CalmInv, Calm, Terminal

(* Nothing happens after the shell has ended: the handler is not running   *)
(* when it does.                                                           *)
LEMMA NothingAfter ==
  ASSUME pc \in Terminal => hpc = "idle", FineNext
  PROVE  pc \notin Terminal
<1> SUFFICES ASSUME pc \in Terminal, hpc = "idle" PROVE FALSE
  OBVIOUS
<1>1. ~deliverable
  BY DEF deliverable
<1>2. ~WatchStep
  BY WatchStepEffect DEF Terminal
<1>3. ~Interrupt
  BY DEF Interrupt, CtrlC
<1>4. ~HandlerStep /\ ~Children
  BY <1>1 DEF HandlerStep, HandlerEnter, HandlerWaitpid, HandlerRecord, HandlerWaitpidNone,
              HandlerReturn, Children
<1>5. ~Typed
  BY DEF Typed, Launch, DoResume, DoKill, DoHistory, DoQuit, Wait, MainAt, Terminal
<1>6. ~(\/ ShutdownEnd \/ DeleteForeground \/ TakeTerminal \/ AllocStopped \/ MoveStopped
        \/ Fork \/ AddJob \/ AddProc \/ Unmask \/ ResumeCont \/ ResumeDone \/ Kill
        \/ ShutdownJob \/ GiveTerminal)
  BY DEF ShutdownEnd, DeleteForeground, TakeTerminal, AllocStopped, MoveStopped, Fork, AddJob,
         AddProc, Unmask, ResumeCont, ResumeDone, Kill, ShutdownJob, GiveTerminal, MainAt, Terminal
<1>7. ~(\/ WhileStopped \/ ContForeground \/ SleepStopped \/ WhileRunning \/ SleepRunning
        \/ Reread \/ Remask \/ FinishRunning)
  BY DEF WhileStopped, ContForeground, SleepStopped, WhileRunning, SleepRunning, Reread, Remask,
         FinishRunning, Wait, MainAt, Terminal
<1> QED BY <1>2, <1>3, <1>4, <1>5, <1>6, <1>7 DEF FineNext, Reporting, Silent, HandlerStep

(* The main thread ends the shell, and the handler is not running.         *)
LEMMA EndsIdle ==
  ASSUME pc \notin Terminal, FineNext, pc' \in Terminal,
         Aside => UNCHANGED handler /\ hpc = "idle"
  PROVE  hpc' = "idle"
<1>1. CASE Aside
  BY <1>1 DEF handler
<1>2. CASE Interrupt
  BY <1>2 DEF Interrupt, CtrlC
<1>3. CASE HandlerStep \/ Children
  <2>1. pc' = pc \/ pc' = awake(pc)
    BY <1>3 DEF HandlerStep, HandlerEnter, HandlerWaitpid, HandlerRecord, HandlerWaitpidNone,
                HandlerReturn, Children, ChildStep, ChildStart, Exit, Stop, OtherCont, OtherKill,
                SetModes
  <2>2. awake(pc) \in Terminal => awake(pc) = pc
    BY DEF awake, Terminal
  <2> QED BY <2>1, <2>2
<1>4. CASE User \/ MainStep
  <2>1. UNCHANGED handler
    BY <1>4, MainQuiet
  <2>2. hpc = "idle"
    BY <1>4 DEF User, Launch, DoResume, DoKill, DoJobs, DoHistory, DoQuit, Wait, MainStep, Fork,
                AddJob, AddProc, Unmask, LoopEnd, ResumeCont, ResumeDone, Kill, ShutdownJob,
                ShutdownEnd, GiveTerminal, WhileStopped, ContForeground, SleepStopped,
                WhileRunning, SleepRunning, Reread, Remask, FinishStopped, FinishFinished,
                FinishRunning, MainAt
  <2> QED BY <2>1, <2>2 DEF handler
<1>5. Kept \/ HandlerReturn \/ ShutdownEnd \/ Aside \/ Interrupt
  BY DEF FineNext, Reporting, Kept, Aside
<1> QED BY <1>1, <1>2, <1>3, <1>4, <1>5, KeptIsNext DEF Next

(* Every step.                                                             *)
LEMMA CalmStep ==
  ASSUME "cont" \notin Events, "kill" \notin Events, FineInv, FineInv', CalmInv,
         [FineNext]_fineVars
  PROVE  CalmInv'
<1>t. WatchType /\ TypeOK /\ LocalsType /\ interrupts \in Nat
  BY DEF FineInv, WatchType, LocalsType
<1>1. CASE UNCHANGED fineVars
  <2>1. UNCHANGED <<jobs, njobmax, pc, blocked, todo, bg, lead, newpid, job, state, hpc, hpid,
                    hstatus, life, group, pgarg, event, term, sigchld, tty, modes, which, at, j,
                    pgid, wstate, statusp, reports, interrupts>>
    BY <1>1 DEF fineVars, vars, table, command, handler, procs, termio, locals
  <2>2. interrupts = 0 /\ pc \notin Terminal => Calm'
    <3> SUFFICES ASSUME Calm PROVE Calm'
      BY DEF CalmInv
    <3>1. [Next]_vars
      BY <1>1 DEF fineVars
    <3>2. OwnerInv' /\ NoLostNotification'
      BY <1>t, <3>1, OwnerStep, NotificationsStep DEF Calm
    <3>3. FrontSettled'
      BY <3>1, <3>2, FrontSettledStep DEF Calm
    <3>4. Parting' /\ NoneFinished' /\ Unended' /\ LeaderFirst'
      BY <2>1 DEF Calm, Parting, NoneFinished, Unended, LeaderFirst
    <3> QED BY <3>2, <3>3, <3>4 DEF Calm
  <2>3. interrupts = 0 => GroupAtRest' /\ Reported'
    <3>1. \A q \in Pids : (exists(q)' <=> exists(q)) /\ aim(q)' = aim(q)
      BY <2>1 DEF exists, aim
    <3>2. interrupts = 0 => GroupAtRest'
      BY <2>1 DEF CalmInv, GroupAtRest
    <3>3. \A p \in Pids : Over(p) => Over(p)'
      BY <2>1, <3>1 DEF Over
    <3>4. interrupts = 0 => Reported'
      BY <2>1, <3>3 DEF CalmInv, Reported
    <3> QED BY <3>2, <3>4
  <2> QED BY <2>1, <2>2, <2>3 DEF CalmInv
<1>2. CASE Interrupt
  <2>1. interrupts' # 0 /\ pc' \notin Terminal
    BY <1>2, <1>t DEF Interrupt, CtrlC, Goto, Terminal
  <2> QED BY <2>1 DEF CalmInv
<1>3. CASE FineNext /\ ~Interrupt
  <2>1. pc \notin Terminal
    BY <1>3, NothingAfter DEF CalmInv
  <2>2. Kept \/ HandlerReturn \/ ShutdownEnd \/ Aside
    BY <1>3 DEF FineNext, Reporting, Kept, Aside
  <2>3. interrupts' = interrupts /\ (UNCHANGED locals \/ WatchStep)
    BY <1>3, WatchStepEffect DEF FineNext, Reporting, Silent
  <2>4. ASSUME interrupts = 0, pc' \notin Terminal PROVE Calm'
    <3>1. Calm
      BY <2>1, <2>4 DEF CalmInv
    <3>2. OwnerInv'
      BY <2>2, <2>4, <3>1, CalmOwner
    <3>3. NoLostNotification' /\ FrontSettled'
      BY <1>t, <2>2, <3>1, <3>2, CalmNotified, CalmSettled DEF Calm
    <3>4. Parting' /\ NoneFinished' /\ LeaderFirst'
      BY <1>t, <2>2, <2>4, <3>1, CalmParting, CalmNoneFinished, CalmLeaders
    <3>5. Unended'
      BY <2>2, <2>3, <3>1, CalmUnended
    <3> QED BY <3>2, <3>3, <3>4, <3>5 DEF Calm
  <2>5. ASSUME pc' \in Terminal PROVE hpc' = "idle"
    <3>1. Aside => UNCHANGED handler /\ hpc = "idle"
      BY DEF Aside, WatchStep, WatchStart, WatchEnd, WatchPgid, WatchState, WatchStatus, WatchMsg,
             WatchClear, WatchDelete, Watching, UnchangedRest, TakeTerminal, AllocStopped,
             MoveStopped, DeleteForeground, MainAt
    <3> QED BY <1>3, <2>1, <2>5, <3>1, EndsIdle
  <2>6. ASSUME interrupts = 0 PROVE GroupAtRest' /\ Reported'
    <3>1. Calm /\ Reported
      BY <2>1, <2>6 DEF CalmInv
    <3>2. Reported'
      BY <1>3, <1>t, <3>1, CalmReported
    <3>3. GroupAtRest'
      <4>1. SafetyInv /\ GroupAtRest /\ NewChild /\ Parting
        BY <3>1 DEF Calm, OwnerInv, FrontInv, GroupInv, SafetyInv
      <4>2. CASE Aside
        <5>1. UNCHANGED <<life, group>>
          BY <1>t, <4>1, <4>2, AsideTable DEF procs
        <5> QED BY <4>1, <5>1 DEF GroupAtRest
      <4>3. CASE Next
        BY <1>t, <4>1, <4>3, BoundStep
      <4> QED BY <2>2, <4>2, <4>3, KeptIsNext
    <3> QED BY <3>2, <3>3
  <2> QED BY <2>3, <2>4, <2>5, <2>6 DEF CalmInv
<1> QED BY <1>1, <1>2, <1>3

(* Without Ctrl-C, and without "cont" and "kill", the invariant holds.     *)
LEMMA CalmKept ==
  ASSUME "cont" \notin Events, "kill" \notin Events
  PROVE  FineSpec => [](FineInv /\ CalmInv)
<1>1. FineInv /\ FineInv' /\ CalmInv /\ [FineNext]_fineVars => CalmInv'
  BY CalmStep
<1> QED BY <1>1, FineInitInv, CalmInit, FineStep, PTL DEF FineSpec

(* The end of a job in background is announced once, by the handler, when  *)
(* all its processes have ended and its group is empty, although the       *)
(* handler may come between any two accesses of watchjobs() in the main    *)
(* thread; provided that there was no Ctrl-C and nobody but the shell      *)
(* continues or kills stopped children (jobs.c: watchjobs,                 *)
(* sigchld_handler, monitorjob).                                           *)
THEOREM ReportsOnce ==
  ASSUME "cont" \notin Events, "kill" \notin Events
  PROVE  FineSpec => []ReportedOnce
<1>1. FineInv /\ CalmInv => ReportedOnce
  <2> SUFFICES ASSUME FineInv, CalmInv, interrupts = 0, NEW p \in Pids, reports[p] > 0
               PROVE  reports[p] = 1 /\ members(p) = {} /\ life[p] = "gone"
    BY DEF ReportedOnce
  <2>1. GroupAtRest /\ reports[p] = 1 /\ Over(p)
    BY DEF CalmInv, Reported
  <2>2. ASSUME NEW q \in Pids, exists(q), group[q] = p PROVE FALSE
    <3>1. aim(q) = p
      BY <2>1, <2>2, ShellAssumption DEF GroupAtRest, aim
    <3> QED BY <2>1, <2>2, <3>1 DEF Over
  <2>3. members(p) = {}
    BY <2>2 DEF members
  <2> QED BY <2>1, <2>3 DEF Over
<1> QED BY <1>1, CalmKept, PTL

(* What JobControl says of its coarser steps holds between any two         *)
(* accesses of watchjobs() and calls of monitorjob(), too, until the shell *)
(* ends: the table tracks the kernel, a group is a job, no living child is *)
(* forgotten, the job in front is kept, and the prompt has the terminal.   *)
THEOREM CalmIsSafe ==
  ASSUME "cont" \notin Events, "kill" \notin Events
  PROVE  FineSpec => [](interrupts = 0 /\ pc \notin Terminal =>
                          /\ TableTracksKernel /\ GroupIsJob /\ LiveChildOwned
                          /\ MonitoredJobKept /\ TerminalAtPrompt /\ NoLostNotification)
<1>1. CalmInv => (interrupts = 0 /\ pc \notin Terminal =>
                    /\ TableTracksKernel /\ GroupIsJob /\ LiveChildOwned
                    /\ MonitoredJobKept /\ TerminalAtPrompt /\ NoLostNotification)
  BY OwnerProperties DEF CalmInv, Calm
<1> QED BY <1>1, CalmKept, PTL

===============================================================================
