------------------------------ MODULE JobOwnership ------------------------------
(***************************************************************************)
(* The shell forgets no child that is alive, its assertions hold, and the  *)
(* terminal is its own again at the prompt: for every number of processes, *)
(* stages and slots, provided that nobody but the shell continues a        *)
(* stopped child ("cont" is not an event).  Where nobody kills a stopped   *)
(* child, either, the shell implements JobLifecycle.                       *)
(*                                                                         *)
(* The argument: between monitorjob()'s loop and its end the job in front  *)
(* does not run again (Resting), so that monitorjob() always takes it out  *)
(* of the slot FG, which is then free whenever a job needs it (FrontFree); *)
(* a job leaves the table only when it has finished, and an entry that is  *)
(* FINISHED is that of a process that is gone (Gone).                      *)
(***************************************************************************)
EXTENDS JobGroups

-------------------------------------------------------------------------------
(* Processes that the table says have ended. *)

ended(t) ==
  {q \in Pids : \E j \in DOMAIN t : \E i \in DOMAIN t[j].proc :
                  t[j].proc[i].pid = q /\ t[j].proc[i].state = FINISHED}

(* They have been waited for, the kernel has no news of them, and the      *)
(* handler is not about to enter any.                                      *)
Gone ==
  /\ \A q \in ended(jobs) : life[q] = "gone"
  /\ \A q \in Pids : life[q] = "gone" => event[q] = NoStatus
  /\ hpc = "record" => hpid \notin ended(jobs) /\ (hstatus = Exited => life[hpid] = "gone")

(* Only the handler enters that a process has ended.                       *)
LEMMA EndedKept ==
  ASSUME SafetyInv, SlotInv(Idle), Occupied(jobs)', [Next]_vars, ~HandlerRecord
  PROVE  ended(jobs') \subseteq ended(jobs)
<1>t. TypeOK
  BY DEF SafetyInv
<1>1. CASE AddJob
  <2>1. /\ \A j \in DOMAIN jobs' : j = job' \/ (j \in DOMAIN jobs /\ jobs'[j] = jobs[j])
        /\ jobs'[job'] = newJob(lead)
    BY <1>1, <1>t, AddJobTable
  <2>2. DOMAIN newJob(lead).proc = {}
    BY DEF newJob
  <2> QED BY <2>1, <2>2 DEF ended
<1>2. CASE AddProc
  <2>1. PICK m : /\ DOMAIN jobs'[job].proc = DOMAIN jobs[job].proc \cup {m}
                 /\ jobs'[job].proc[m] = newProc(newpid)
                 /\ \A i \in DOMAIN jobs[job].proc : jobs'[job].proc[i] = jobs[job].proc[i]
    BY <1>2, AddProcTable
  <2>2. /\ DOMAIN jobs' = DOMAIN jobs
        /\ \A j \in DOMAIN jobs : j # job => jobs'[j] = jobs[j]
    BY <1>2, AddProcTable
  <2>3. newProc(newpid).state # FINISHED
    BY DEF newProc, RUNNING, FINISHED
  <2>4. ASSUME NEW j \in DOMAIN jobs', NEW i \in DOMAIN jobs'[j].proc,
               jobs'[j].proc[i].state = FINISHED
        PROVE  j \in DOMAIN jobs /\ i \in DOMAIN jobs[j].proc
               /\ jobs[j].proc[i] = jobs'[j].proc[i]
    BY <2>1, <2>2, <2>3, <2>4
  <2> QED BY <2>4 DEF ended
<1>3. CASE Rearranged({FINISHED}, jobs, jobs')
  <2>1. ASSUME NEW k \in DOMAIN jobs', NEW i \in DOMAIN jobs'[k].proc
        PROVE  \E j \in DOMAIN jobs : Alike(jobs'[k], jobs[j])
    BY <1>3 DEF Rearranged, Occupied
  <2> QED BY <2>1 DEF ended, Alike, Same
<1> QED BY <1>1, <1>2, <1>3, <1>t, TableStep

Ending == {"reread", "remask", "finish"}

(* The main thread waits for nobody by itself, and sends no signal while   *)
(* monitorjob() ends.                                                      *)
LEMMA MainQuiet ==
  ASSUME User \/ MainStep
  PROVE  /\ UNCHANGED handler
         /\ \/ UNCHANGED <<life, event>>
            \/ pc \notin Ending /\ (Fork \/ DoHistory \/ \E S : Continue(S))
<1>1. UNCHANGED handler
  BY DEF User, MainStep, Launch, DoResume, DoKill, DoJobs, DoHistory, DoQuit, Wait, Fork,
         AddJob, AddProc, Unmask, LoopEnd, ResumeCont, ResumeDone, Kill, ShutdownJob,
         ShutdownEnd, GiveTerminal, WhileStopped, ContForeground, SleepStopped,
         WhileRunning, SleepRunning, Reread, Remask, FinishStopped, FinishFinished,
         FinishRunning
<1>2. CASE User
  BY <1>1, <1>2 DEF User, Launch, DoResume, DoKill, DoJobs, DoHistory, DoQuit, Wait, MainAt,
              UnchangedKernel, procs, Ending
<1>3. CASE ResumeCont \/ Kill \/ ShutdownJob \/ ContForeground
  BY <1>1, <1>3 DEF ResumeCont, Kill, ShutdownJob, ContForeground, KillJob, MainAt, Ending
<1>4. CASE Fork
  BY <1>1, <1>4 DEF Fork, MainAt, Ending
<1>5. CASE MainStep /\ ~(Fork \/ ResumeCont \/ Kill \/ ShutdownJob \/ ContForeground)
  BY <1>1, <1>5 DEF MainStep, AddJob, AddProc, Unmask, LoopEnd, ResumeDone, ShutdownEnd,
              GiveTerminal, WhileStopped, SleepStopped, WhileRunning, SleepRunning,
              Reread, Remask, FinishStopped, FinishFinished, FinishRunning, Wait,
              UnchangedKernel, procs
<1> QED BY <1>2, <1>3, <1>4, <1>5

(* Outside of the handler nobody is waited for, and who is gone has no     *)
(* news.                                                                   *)
LEMMA NobodyReaped ==
  ASSUME TypeOK, [Next]_vars, ~HandlerStep
  PROVE  /\ UNCHANGED handler
         /\ \A q \in Pids : /\ life'[q] = "gone" <=> life[q] = "gone"
                            /\ life[q] = "gone" => event'[q] = event[q]
<1>t. /\ life \in [Pids -> Lives] /\ event \in [Pids -> Status \cup {NoStatus}]
  BY DEF TypeOK, KernelType
<1>1. CASE UNCHANGED <<life, event, handler>>
  BY <1>1
<1>2. CASE User \/ MainStep
  <2>1. CASE Fork \/ DoHistory
    BY <1>2, <1>t, <2>1, MainQuiet DEF Fork, DoHistory, unused, UnchangedKernel
  <2>2. CASE \E S : Continue(S)
    BY <1>2, <1>t, <2>2, MainQuiet DEF Continue
  <2> QED BY <1>1, <1>2, <2>1, <2>2, MainQuiet
<1>3. ASSUME NEW p \in Pids, ChildStep(p)
      PROVE  /\ UNCHANGED handler
             /\ \A q \in Pids : /\ life'[q] = "gone" <=> life[q] = "gone"
                                /\ life[q] = "gone" => event'[q] = event[q]
  BY <1>3, <1>t DEF ChildStep, ChildStart, Exit, Stop, OtherCont, OtherKill, SetModes, Change,
                    procs
<1>4. CASE UNCHANGED vars
  BY <1>1, <1>4 DEF vars, procs
<1> QED BY <1>2, <1>3, <1>4 DEF Next, Children

(* Every step.                                                             *)
LEMMA GoneStep ==
  ASSUME FrontInv, FrontInv', Gone, [Next]_vars
  PROVE  Gone'
<1>t. /\ SafetyInv /\ TypeOK /\ SlotInv(Idle) /\ Occupied(jobs)'
      /\ life \in [Pids -> Lives] /\ event \in [Pids -> Status \cup {NoStatus}]
  BY DEF FrontInv, SafetyInv, TableSound, Sound, TypeOK, KernelType
<1>e. ended(jobs) \subseteq Pids /\ ended(jobs') \subseteq Pids
  BY DEF ended
<1>1. CASE ~HandlerStep
  <2>1. ended(jobs') \subseteq ended(jobs)
    BY <1>1, <1>t, EndedKept DEF HandlerStep
  <2>2. /\ hpc' = hpc /\ hpid' = hpid /\ hstatus' = hstatus
        /\ \A q \in Pids : /\ life'[q] = "gone" <=> life[q] = "gone"
                           /\ life[q] = "gone" => event'[q] = event[q]
    BY <1>1, <1>t, NobodyReaped DEF handler
  <2>3. hpc = "record" => hpid \in Pids
    BY <1>t DEF TypeOK, HandlerType
  <2> QED BY <1>e, <2>1, <2>2, <2>3 DEF Gone
<1>2. ASSUME NEW p \in Pids, HandlerWaitpid(p) PROVE Gone'
  <2>1. /\ event[p] # NoStatus /\ hpid' = p /\ hstatus' = event[p]
        /\ event' = [event EXCEPT ![p] = NoStatus]
        /\ life' = [life EXCEPT ![p] = IF event[p] = Exited THEN "gone" ELSE @]
        /\ jobs' = jobs
    BY <1>2 DEF HandlerWaitpid, table
  <2>2. life[p] # "gone" /\ p \notin ended(jobs)
    BY <2>1 DEF Gone
  <2>3. \A q \in Pids : q # p => life'[q] = life[q] /\ event'[q] = event[q]
    BY <1>t, <2>1
  <2>4. event'[p] = NoStatus /\ (hstatus' = Exited => life'[p] = "gone")
    BY <1>t, <2>1
  <2> QED BY <1>e, <2>1, <2>2, <2>3, <2>4 DEF Gone
<1>3. CASE HandlerRecord
  <2>1. hpc = "record" /\ hpc' # "record" /\ UNCHANGED <<life, event>>
    BY <1>3 DEF HandlerRecord, afterRecord, procs
  <2>2. ASSUME NEW q \in ended(jobs') PROVE life[q] = "gone"
    <3>0. PICK j \in DOMAIN jobs' : \E i \in DOMAIN jobs'[j].proc :
            jobs'[j].proc[i].pid = q /\ jobs'[j].proc[i].state = FINISHED
      BY DEF ended
    <3>1. PICK i \in DOMAIN jobs'[j].proc :
            jobs'[j].proc[i].pid = q /\ jobs'[j].proc[i].state = FINISHED
      BY <3>0
    <3>2. /\ j \in DOMAIN jobs /\ i \in DOMAIN jobs[j].proc
          /\ jobs[j].proc[i].pid = q
          /\ jobs'[j].proc[i].state = IF q = hpid THEN stateAfter(hstatus)
                                      ELSE jobs[j].proc[i].state
      BY <1>3, <1>t, <3>1, RecordTable DEF SamePids
    <3>3. CASE q = hpid
      <4>1. stateAfter(hstatus) = FINISHED /\ hstatus \in Status
        BY <1>3, <1>t, <3>1, <3>2, <3>3, RecordTable
      <4>2. hstatus = Exited
        BY <4>1 DEF stateAfter, Status, Exited, Stopped, Continued, FINISHED, STOPPED, RUNNING
      <4> QED BY <2>1, <3>3, <4>2 DEF Gone
    <3>4. CASE q # hpid
      <4>1. q \in ended(jobs)
        BY <1>e, <3>1, <3>2, <3>4 DEF ended
      <4> QED BY <4>1 DEF Gone
    <3> QED BY <3>3, <3>4
  <2> QED BY <2>1, <2>2 DEF Gone
<1>4. CASE HandlerEnter \/ HandlerWaitpidNone \/ HandlerReturn
  <2>1. hpc' # "record" /\ UNCHANGED <<life, event>>
    BY <1>4 DEF HandlerEnter, HandlerWaitpidNone, HandlerReturn, procs
  <2>2. ~HandlerRecord
    BY <1>4 DEF HandlerRecord, HandlerEnter, HandlerWaitpidNone, HandlerReturn, deliverable
  <2>3. ended(jobs') \subseteq ended(jobs)
    BY <1>t, <2>2, EndedKept
  <2> QED BY <2>1, <2>3 DEF Gone
<1> QED BY <1>1, <1>2, <1>3, <1>4 DEF HandlerStep

-------------------------------------------------------------------------------
(* The end of monitorjob(). *)

(* SIGCHLD is not blocked at the prompt and while monitorjob() waits.      *)
MaskOpen == pc \in Open => ~blocked

(* Every step.                                                             *)
LEMMA MaskStep ==
  ASSUME MaskOpen, [Next]_vars
  PROVE  MaskOpen'
<1>1. CASE User
  BY <1>1 DEF User, Launch, DoResume, DoKill, DoJobs, DoHistory, DoQuit, Wait, WatchThen,
              MainAt, Goto, MaskOpen, Open
<1>2. CASE MainStep
  <2>1. CASE Fork \/ AddJob \/ AddProc \/ Unmask \/ LoopEnd \/ ResumeCont \/ ResumeDone
    BY <2>1 DEF Fork, AddJob, AddProc, Unmask, LoopEnd, ResumeCont, ResumeDone, WatchThen,
                MainAt, Goto, MaskOpen, Open
  <2>2. CASE Kill \/ ShutdownJob \/ ShutdownEnd \/ GiveTerminal \/ ContForeground
    BY <2>2 DEF Kill, ShutdownJob, ShutdownEnd, GiveTerminal, ContForeground, KillJob,
                WatchThen, MainAt, Goto, MaskOpen, Open
  <2>3. CASE \/ WhileStopped \/ SleepStopped \/ WhileRunning \/ SleepRunning \/ Reread
             \/ Remask \/ FinishStopped \/ FinishFinished \/ FinishRunning
    BY <2>3 DEF WhileStopped, SleepStopped, WhileRunning, SleepRunning, Reread, Remask,
                FinishStopped, FinishFinished, FinishRunning, Wait, WatchThen, MainAt, Goto,
                MaskOpen, Open
  <2> QED BY <1>2, <2>1, <2>2, <2>3 DEF MainStep
<1>3. CASE HandlerStep
  <2>1. blocked' = blocked /\ (pc' = pc \/ pc' = awake(pc))
    BY <1>3 DEF HandlerStep, HandlerEnter, HandlerWaitpid, HandlerRecord, HandlerWaitpidNone,
                HandlerReturn
  <2>2. awake(pc) \in Open => pc \in Open
    BY DEF awake, Open
  <2> QED BY <2>1, <2>2 DEF MaskOpen
<1>4. CASE Children
  BY <1>4 DEF Children, ChildStep, ChildStart, Exit, Stop, OtherCont, OtherKill, SetModes,
              MaskOpen
<1>5. CASE UNCHANGED vars
  BY <1>5 DEF vars, MaskOpen
<1> QED BY <1>1, <1>2, <1>3, <1>4, <1>5 DEF Next

(* When monitorjob() finds that the job does not run, no process has news, *)
(* for the handler would have come first.                                  *)
LEMMA NoNews ==
  ASSUME TypeOK, NoLostNotification, MaskOpen, WhileRunning
  PROVE  hpc = "idle" /\ \A p \in Pids : event[p] = NoStatus
<1>1. pc = "while running" /\ hpc = "idle" /\ ~deliverable
  BY DEF WhileRunning, Wait, MainAt
<1>2. ~blocked
  BY <1>1 DEF MaskOpen, Open
<1>3. ~sigchld
  BY <1>1, <1>2 DEF deliverable, Terminal
<1> QED BY <1>1, <1>3 DEF NoLostNotification

(* From there on the job in front does not run: nobody continues it, in    *)
(* the kernel, on the way to the handler, or in the table.  What           *)
(* monitorjob() has read may be older than the table, but a job that has   *)
(* finished stays finished.                                                *)
Resting ==
  /\ pc \in Ending =>
       /\ \A p \in Pids : event[p] # Continued
       /\ hpc = "record" => hstatus # Continued
       /\ jobs[FG].state # RUNNING
  /\ pc \in {"remask", "finish"} =>
       state # RUNNING /\ (state = FINISHED => jobs[FG].state = FINISHED)

(* Whoever comes to the end of monitorjob() comes from its loop.           *)
LEMMA EndingSteps ==
  ASSUME [Next]_vars, pc' \in Ending
  PROVE  \/ WhileRunning /\ pc' = "reread" /\ UNCHANGED <<jobs, life, event, handler, state>>
         \/ Reread /\ pc = "reread" /\ pc' = "remask" /\ state' = jobs[FG].state
            /\ UNCHANGED <<jobs, life, event, handler>>
         \/ Remask /\ pc = "remask" /\ pc' = "finish"
            /\ UNCHANGED <<jobs, life, event, handler, state>>
         \/ pc' = pc /\ state' = state /\ HandlerStep
         \/ pc' = pc /\ UNCHANGED <<jobs, state, handler>> /\ \E p \in Pids : ChildStep(p)
         \/ pc' = pc /\ UNCHANGED <<jobs, life, event, state, handler>>
<1>1. CASE User
  BY <1>1 DEF User, Launch, DoResume, DoKill, DoJobs, DoHistory, DoQuit, Wait, WatchThen, Goto,
              Ending
<1>2. CASE MainStep
  <2>1. CASE WhileRunning \/ Reread \/ Remask
    BY <2>1 DEF WhileRunning, Reread, Remask, Wait, MainAt, Goto, Ending, table, command,
                procs, UnchangedKernel
  <2>2. CASE Fork \/ AddJob \/ AddProc \/ Unmask \/ LoopEnd \/ ResumeCont \/ ResumeDone
    BY <2>2 DEF Fork, AddJob, AddProc, Unmask, LoopEnd, ResumeCont, ResumeDone, WatchThen,
                Goto, Ending
  <2>3. CASE Kill \/ ShutdownJob \/ ShutdownEnd \/ GiveTerminal \/ ContForeground
    BY <2>3 DEF Kill, ShutdownJob, ShutdownEnd, GiveTerminal, ContForeground, KillJob,
                WatchThen, Goto, Ending
  <2>4. CASE \/ WhileStopped \/ SleepStopped \/ SleepRunning
             \/ FinishStopped \/ FinishFinished \/ FinishRunning
    BY <2>4 DEF WhileStopped, SleepStopped, SleepRunning, FinishStopped, FinishFinished,
                FinishRunning, Wait, WatchThen, Goto, Ending
  <2> QED BY <1>2, <2>1, <2>2, <2>3, <2>4 DEF MainStep
<1>3. CASE HandlerStep
  <2>1. state' = state /\ (pc' = pc \/ pc' = awake(pc))
    BY <1>3 DEF HandlerStep, HandlerEnter, HandlerWaitpid, HandlerRecord, HandlerWaitpidNone,
                HandlerReturn, command
  <2>2. awake(pc) \in Ending => awake(pc) = pc
    BY DEF awake, Ending
  <2> QED BY <1>3, <2>1, <2>2
<1>4. CASE Children
  BY <1>4 DEF Children, ChildStep, ChildStart, Exit, Stop, OtherCont, OtherKill, SetModes,
              table, command
<1>5. CASE UNCHANGED vars
  BY <1>5 DEF vars, table, command, procs
<1> QED BY <1>1, <1>2, <1>3, <1>4, <1>5 DEF Next

(* The state of a job says whether one of its processes runs, or all have  *)
(* ended.                                                                  *)
LEMMA SummaryStates ==
  ASSUME NEW slot, Summary(slot), DOMAIN slot.proc # {}
  PROVE  /\ slot.state = RUNNING <=> \E i \in DOMAIN slot.proc : slot.proc[i].state = RUNNING
         /\ (\A i \in DOMAIN slot.proc : slot.proc[i].state \in States) =>
              (slot.state = FINISHED <=>
                 \A i \in DOMAIN slot.proc : slot.proc[i].state = FINISHED)
<1>0. slot.proc # << >>
  OBVIOUS
<1>1. slot.state = job_state(slot.proc)
  BY <1>0 DEF Summary
<1> QED BY <1>1 DEF job_state, procStates, States, RUNNING, STOPPED, FINISHED

(* The entries of a table are in one of the three states.                  *)
LEMMA EntryTypes ==
  ASSUME TypeOK
  PROVE  \A j \in DOMAIN jobs : \A i \in DOMAIN jobs[j].proc :
           jobs[j].proc[i].pid \in Pids /\ jobs[j].proc[i].state \in States
<1> SUFFICES ASSUME NEW j \in DOMAIN jobs, NEW i \in DOMAIN jobs[j].proc
             PROVE  jobs[j].proc[i].pid \in Pids /\ jobs[j].proc[i].state \in States
  OBVIOUS
<1>1. jobs[j] \in Job
  BY DEF TypeOK, TableType
<1>2. jobs[j].proc[i] \in Proc
  BY <1>1 DEF Job
<1> QED BY <1>2 DEF Proc

(* A status that does not continue a process starts no job, and a job that *)
(* has finished is out of the handler's reach.                             *)
LEMMA RecordRests ==
  ASSUME FrontInv, FrontInv', Gone, HandlerRecord, hstatus # Continued,
         jobs[FG].pgid # NoPid, pc # "addproc"
  PROVE  /\ jobs[FG].state # RUNNING => jobs'[FG].state # RUNNING
         /\ jobs[FG].state = FINISHED => jobs'[FG].state = FINISHED
<1>t. /\ SafetyInv /\ TypeOK /\ TypeOK' /\ FG \in DOMAIN jobs /\ FG \in DOMAIN jobs'
      /\ SlotsSound(Idle, jobs) /\ SlotsSound(Idle, jobs)'
  <2>1. TypeOK /\ TypeOK' /\ FG \in DOMAIN jobs
    BY TheTable DEF FrontInv, SafetyInv
  <2>2. FG \in DOMAIN jobs'
    BY <2>1, RecordTable DEF FrontInv
  <2> QED BY <2>1, <2>2 DEF FrontInv, SlotInv
<1> DEFINE slot == jobs[FG]
           new  == jobs'[FG]
<1>1. Summary(slot) /\ Summary(new)
  BY <1>t DEF SlotsSound, SlotSound
<1>2. /\ DOMAIN new.proc = DOMAIN slot.proc /\ hstatus \in Status /\ hpid \in Pids
      /\ \A i \in DOMAIN slot.proc :
           new.proc[i].state = IF slot.proc[i].pid = hpid THEN stateAfter(hstatus)
                               ELSE slot.proc[i].state
  BY <1>t, RecordTable DEF SamePids
<1>3. DOMAIN slot.proc # {}
  BY <1>t DEF FrontInv, HasProcs
<1>4. /\ \A i \in DOMAIN slot.proc : slot.proc[i].state \in States
      /\ \A i \in DOMAIN slot.proc : new.proc[i].state \in States
  <2>1. \A i \in DOMAIN slot.proc : slot.proc[i].state \in States
    BY <1>t, EntryTypes
  <2>2. stateAfter(hstatus) \in States
    BY <1>2, StateTypes
  <2> QED BY <1>2, <2>1, <2>2
<1>5. stateAfter(hstatus) # RUNNING
  BY <1>2 DEF Status, stateAfter, Exited, Stopped, Continued, RUNNING, STOPPED, FINISHED
<1>6. ASSUME slot.state = FINISHED, NEW i \in DOMAIN slot.proc
      PROVE  slot.proc[i].state = FINISHED /\ slot.proc[i].pid # hpid
  <2>1. slot.proc[i].state = FINISHED
    BY <1>1, <1>3, <1>4, <1>6, SummaryStates
  <2>2. slot.proc[i].pid # hpid
    BY <1>2, <1>t, <2>1 DEF Gone, ended, HandlerRecord
  <2> QED BY <2>1, <2>2
<1> HIDE DEF slot, new
<1>7. slot.state # RUNNING => new.state # RUNNING
  BY <1>1, <1>2, <1>3, <1>5, SummaryStates
<1>8. slot.state = FINISHED => new.state = FINISHED
  BY <1>1, <1>2, <1>3, <1>4, <1>6, SummaryStates
<1> QED BY <1>7, <1>8 DEF slot, new

(* Every step.                                                             *)
LEMMA RestingStep ==
  ASSUME "cont" \notin Events, FrontInv, FrontInv', Gone, NoLostNotification, MaskOpen,
         Resting, [Next]_vars
  PROVE  Resting'
<1>t. TypeOK /\ FG \in DOMAIN jobs /\ event \in [Pids -> Status \cup {NoStatus}]
  BY TheTable DEF FrontInv, SafetyInv, TypeOK, KernelType
<1>a. Ending = {"reread", "remask", "finish"} /\ NoStatus # Continued
  BY DEF Ending, NoStatus, Continued
<1> SUFFICES ASSUME pc' \in Ending
             PROVE  /\ \A p \in Pids : event'[p] # Continued
                    /\ hpc' = "record" => hstatus' # Continued
                    /\ jobs'[FG].state # RUNNING
                    /\ pc' \in {"remask", "finish"} =>
                         state' # RUNNING /\ (state' = FINISHED => jobs'[FG].state = FINISHED)
  BY <1>a DEF Resting
<1>1. CASE WhileRunning /\ pc' = "reread" /\ UNCHANGED <<jobs, life, event, handler, state>>
  <2>1. hpc' = "idle" /\ \A p \in Pids : event'[p] = NoStatus
    BY <1>1, <1>t, NoNews DEF handler
  <2>2. jobs[FG].state # RUNNING
    BY <1>1 DEF WhileRunning, Wait, Goto
  <2> QED BY <1>1, <1>a, <2>1, <2>2
<1>2. CASE \/ /\ pc = "reread" /\ pc' = "remask" /\ state' = jobs[FG].state
              /\ UNCHANGED <<jobs, life, event, handler>>
           \/ /\ pc = "remask" /\ pc' = "finish"
              /\ UNCHANGED <<jobs, life, event, handler, state>>
           \/ pc' = pc /\ UNCHANGED <<jobs, life, event, state, handler>>
  BY <1>2, <1>a DEF Resting, handler
<1>3. ASSUME pc' = pc, UNCHANGED <<jobs, state, handler>>, NEW p \in Pids, ChildStep(p)
      PROVE  Resting'
  <2>1. \A q \in Pids : event'[q] = event[q] \/ event'[q] \in {Exited, Stopped}
    BY <1>3, <1>t DEF ChildStep, ChildStart, Exit, Stop, OtherCont, OtherKill, SetModes,
                      Change, procs
  <2>2. Continued \notin {Exited, Stopped}
    BY DEF Exited, Stopped, Continued
  <2> QED BY <1>3, <2>1, <2>2 DEF Resting, handler
<1>4. CASE pc' = pc /\ state' = state /\ HandlerStep
  <2>1. CASE HandlerEnter \/ HandlerWaitpidNone
    BY <1>4, <2>1 DEF HandlerEnter, HandlerWaitpidNone, Resting, table, procs
  <2>2. CASE HandlerReturn
    <3>1. jobs'[FG] = jobs[FG]
      BY <1>t, <2>2, ReportedTable
    <3> QED BY <1>4, <2>2, <3>1 DEF HandlerReturn, Resting, procs
  <2>3. ASSUME NEW p \in Pids, HandlerWaitpid(p) PROVE Resting'
    <3>1. /\ event' = [event EXCEPT ![p] = NoStatus] /\ hstatus' = event[p] /\ jobs' = jobs
      BY <2>3 DEF HandlerWaitpid, table
    <3>2. \A q \in Pids : event'[q] \in {event[q], NoStatus}
      BY <1>t, <3>1
    <3> QED BY <1>4, <1>a, <3>1, <3>2 DEF Resting
  <2>4. CASE HandlerRecord
    <3>1. hstatus # Continued /\ UNCHANGED event /\ hpc' # "record"
      BY <1>4, <2>4 DEF Resting, HandlerRecord, afterRecord, procs
    <3>2. jobs[FG].pgid # NoPid /\ pc # "addproc"
      <4>1. tty # NoPid
        BY <1>t, PidAssumption, ShellAssumption DEF TypeOK, KernelType
      <4> QED BY <1>4, <4>1 DEF FrontInv, FrontHeld, Monitoring, Ending
    <3>3. /\ jobs[FG].state # RUNNING => jobs'[FG].state # RUNNING
          /\ jobs[FG].state = FINISHED => jobs'[FG].state = FINISHED
      BY <2>4, <3>1, <3>2, RecordRests
    <3> QED BY <1>4, <3>1, <3>3 DEF Resting
  <2> QED BY <1>4, <2>1, <2>2, <2>3, <2>4 DEF HandlerStep, Resting
<1> QED BY <1>1, <1>2, <1>3, <1>4, EndingSteps DEF Resting

-------------------------------------------------------------------------------
(* The slot FG and the terminal. *)

(* A job is in front, or on its way there, or the shell has ended.         *)
InFront ==
  \/ pc \in Monitoring \cup {"tcsetpgrp", "allocjob", "movejob", "deljob"} \cup Terminal
  \/ pc \in {"fork", "addproc"} /\ lead # NoPid /\ ~bg

FrontFree == ~InFront => jobs[FG].pgid = NoPid

ShellOwnsTty == pc \notin Monitoring \cup Terminal => tty = Shell /\ modes # "app"

(* Only monitorjob() takes a job from there.                               *)
LEMMA LeavingSteps ==
  ASSUME [Next]_vars
  PROVE  \/ AddJob \/ AddProc \/ FinishStopped \/ FinishFinished \/ FinishRunning
         \/ /\ InFront => InFront'
            /\ pc \in Monitoring \cup Terminal => pc' \in Monitoring \cup Terminal
<1>1. CASE User
  BY <1>1 DEF User, Launch, DoResume, DoKill, DoJobs, DoHistory, DoQuit, Wait, MainAt,
              InFront, Monitoring, Terminal
<1>2. CASE Fork
  BY <1>2 DEF Fork, MainAt, Goto, InFront, Monitoring, Terminal
<1>3. CASE Unmask \/ LoopEnd \/ ResumeCont \/ ResumeDone \/ Kill \/ ShutdownJob \/ ShutdownEnd
  BY <1>3 DEF Unmask, LoopEnd, ResumeCont, ResumeDone, Kill, ShutdownJob, ShutdownEnd, MainAt,
              InFront, Monitoring, Terminal
<1>4. CASE \/ GiveTerminal \/ WhileStopped \/ ContForeground \/ SleepStopped \/ WhileRunning
           \/ SleepRunning \/ Reread \/ Remask
  BY <1>4 DEF GiveTerminal, WhileStopped, ContForeground, SleepStopped, WhileRunning,
              SleepRunning, Reread, Remask, Wait, MainAt, Goto, InFront, Monitoring, Terminal
<1>5. CASE HandlerStep
  <2>1. UNCHANGED <<lead, bg>> /\ (pc' = pc \/ pc' = awake(pc))
    BY <1>5 DEF HandlerStep, HandlerEnter, HandlerWaitpid, HandlerRecord, HandlerWaitpidNone,
                HandlerReturn, command
  <2>2. /\ pc \in Monitoring => awake(pc) \in Monitoring
        /\ pc \in {"tcsetpgrp", "allocjob", "movejob", "deljob", "fork", "addproc"} \cup Terminal =>
             awake(pc) = pc
    BY DEF awake, Monitoring, Terminal
  <2> QED BY <2>1, <2>2 DEF InFront
<1>6. CASE Children
  BY <1>6 DEF Children, ChildStep, ChildStart, Exit, Stop, OtherCont, OtherKill, SetModes,
              command, InFront
<1>7. CASE UNCHANGED vars
  BY <1>7 DEF vars, command, InFront
<1> QED BY <1>1, <1>2, <1>3, <1>4, <1>5, <1>6, <1>7 DEF Next, MainStep

(* Who touches the terminal.                                               *)
LEMMA TerminalSteps ==
  ASSUME [Next]_vars
  PROVE  \/ UNCHANGED <<tty, modes>>
         \/ GiveTerminal \/ FinishStopped \/ FinishFinished
         \/ \E p \in Pids : SetModes(p)
<1>1. CASE User
  BY <1>1 DEF User, Launch, DoResume, DoKill, DoJobs, DoHistory, DoQuit, Wait,
              UnchangedKernel, termio
<1>2. CASE MainStep
  BY <1>2 DEF MainStep, Fork, AddJob, AddProc, Unmask, LoopEnd, ResumeCont, ResumeDone, Kill,
              ShutdownJob, ShutdownEnd, WhileStopped, ContForeground, SleepStopped,
              WhileRunning, SleepRunning, Reread, Remask, FinishRunning, Wait,
              UnchangedKernel, termio
<1>3. CASE HandlerStep
  BY <1>3 DEF HandlerStep, HandlerEnter, HandlerWaitpid, HandlerRecord, HandlerWaitpidNone,
              HandlerReturn, termio
<1>4. CASE Children
  BY <1>4 DEF Children, ChildStep, ChildStart, Exit, Stop, OtherCont, OtherKill, termio
<1>5. CASE UNCHANGED vars
  BY <1>5 DEF vars, termio
<1> QED BY <1>1, <1>2, <1>3, <1>4, <1>5 DEF Next

(* monitorjob() never returns without having done one or the other.        *)
LEMMA NeverRunning ==
  ASSUME Resting
  PROVE  ~FinishRunning
BY DEF Resting, FinishRunning, MainAt

(* Every step.                                                             *)
LEMMA FrontFreeStep ==
  ASSUME FrontInv, Resting, FrontFree, [Next]_vars
  PROVE  FrontFree'
<1>t. SafetyInv /\ TypeOK /\ SlotInv(Idle) /\ FG \in DOMAIN jobs /\ NewChild
  BY TheTable DEF FrontInv, SafetyInv
<1>1. CASE AddJob
  <2>1. /\ job' = FG \/ (bg /\ jobs'[FG] = jobs[FG])
        /\ ~bg => job' = FG
        /\ pc = "addjob" /\ pc' = "addproc" /\ UNCHANGED <<lead, bg>>
        /\ bg => job' # FG
    BY <1>1, <1>t, AddJobTable
  <2>2. lead # NoPid
    BY <1>t, <2>1 DEF NewChild
  <2> QED BY <2>1, <2>2 DEF FrontFree, InFront, Monitoring, Terminal
<1>2. CASE AddProc
  <2>1. pc = "addproc" /\ jobs'[FG].pgid = jobs[FG].pgid
    BY <1>2, <1>t, AddProcTable
  <2>2. \/ pc' = "fork" /\ UNCHANGED <<lead, bg>>
        \/ pc' = "unmask" /\ bg
        \/ pc' = "tcsetpgrp"
    BY <1>2 DEF AddProc, Goto
  <2> QED BY <2>1, <2>2 DEF FrontFree, InFront, Monitoring, Terminal
<1>3. CASE ResumeDone
  <2>1. pc = "resume"
    BY <1>3 DEF ResumeDone, MainAt
  <2>2. pc' = "tcsetpgrp" \/ jobs'[FG] = jobs[FG]
    BY <1>3, <1>t, ResumedTable
  <2> QED BY <2>1, <2>2 DEF FrontFree, InFront, Monitoring, Terminal
<1>4. CASE GiveTerminal
  BY <1>4 DEF GiveTerminal, Goto, FrontFree, InFront, Monitoring, Terminal
<1>5. CASE FinishStopped \/ FinishFinished
  <2>1. jobs'[FG].pgid = NoPid \/ pc' = "aborted"
    BY <1>5, <1>t, PutAwayTable, EndedTable
  <2> QED BY <2>1 DEF FrontFree, InFront, Terminal
<1>6. CASE FrontStays /\ (InFront => InFront')
  BY <1>6 DEF FrontStays, FrontFree
<1> QED BY <1>1, <1>2, <1>3, <1>4, <1>5, <1>6, <1>t, FrontSteps, LeavingSteps, NeverRunning

(* Every step.                                                             *)
LEMMA ShellOwnsTtyStep ==
  ASSUME Resting, ShellOwnsTty, [Next]_vars
  PROVE  ShellOwnsTty'
<1>1. CASE GiveTerminal
  BY <1>1 DEF GiveTerminal, Goto, ShellOwnsTty, Monitoring, Terminal
<1>2. CASE FinishStopped \/ FinishFinished
  BY <1>2 DEF FinishStopped, FinishFinished, shellModes, ShellOwnsTty
<1>3. CASE \E p \in Pids : SetModes(p)
  <2>1. tty = Shell /\ modes # "app" => modes' = "behind"
    BY <1>3 DEF SetModes
  <2>2. pc' = pc /\ tty' = tty
    BY <1>3 DEF SetModes
  <2> QED BY <2>1, <2>2 DEF ShellOwnsTty
<1>4. CASE UNCHANGED <<tty, modes>> /\ (AddJob \/ AddProc)
  BY <1>4 DEF AddJob, AddProc, MainAt, ShellOwnsTty, Monitoring, Terminal
<1>5. CASE /\ UNCHANGED <<tty, modes>>
           /\ pc \in Monitoring \cup Terminal => pc' \in Monitoring \cup Terminal
  BY <1>5 DEF ShellOwnsTty
<1> QED BY <1>1, <1>2, <1>3, <1>4, <1>5, TerminalSteps, LeavingSteps, NeverRunning

-------------------------------------------------------------------------------
(* The entries of living processes. *)

entered(t) ==
  {p \in Pids : \E j \in DOMAIN t : \E i \in DOMAIN t[j].proc : t[j].proc[i].pid = p}

(* Who is alive and is not the shell's own business (a child of            *)
(* do_history) is in the table, or is the child that is being entered.     *)
HasEntry == \A p \in Pids : life[p] \in Live /\ p # newpid /\ aim(p) # Shell => p \in entered(jobs)

(* Only processes that are gone leave the table.                           *)
LEMMA EntriesKept ==
  ASSUME FrontInv, Gone, FrontFree, [Next]_vars, NEW p \in entered(jobs), life[p] # "gone"
  PROVE  p \in entered(jobs')
<1>t. /\ SafetyInv /\ TypeOK /\ SlotInv(Idle) /\ SlotsSound(Idle, jobs)
      /\ Occupied(jobs) /\ p \in Pids
  BY DEF FrontInv, SafetyInv, TableSound, Sound, SlotInv, entered
<1>0. PICK j \in DOMAIN jobs : \E i \in DOMAIN jobs[j].proc : jobs[j].proc[i].pid = p
  BY DEF entered
<1>i. PICK i \in DOMAIN jobs[j].proc : jobs[j].proc[i].pid = p
  BY <1>0
<1>o. jobs[j].pgid # NoPid
  BY <1>t DEF Occupied
<1>1. CASE AddJob
  <2>1. /\ j \in DOMAIN jobs'
        /\ j # job' => jobs'[j] = jobs[j]
        /\ pc = "addjob"
        /\ bg => (job' \in DOMAIN jobs => jobs[job'].pgid = NoPid)
        /\ ~bg => job' = FG
    BY <1>1, <1>t, AddJobTable
  <2>2. jobs[FG].pgid = NoPid
    BY <2>1 DEF FrontFree, InFront, Monitoring, Terminal
  <2>3. jobs'[j] = jobs[j]
    BY <1>o, <2>1, <2>2
  <2> QED BY <1>i, <1>t, <2>1, <2>3 DEF entered
<1>2. CASE AddProc
  <2>1. DOMAIN jobs' = DOMAIN jobs /\ (j # job => jobs'[j] = jobs[j])
    BY <1>2, <1>t, AddProcTable
  <2>2. i \in DOMAIN jobs'[j].proc /\ jobs'[j].proc[i] = jobs[j].proc[i]
    BY <1>2, <1>t, <2>1, AddProcTable
  <2> QED BY <1>i, <1>t, <2>1, <2>2 DEF entered
<1>3. CASE HandlerRecord
  <2>1. DOMAIN jobs' = DOMAIN jobs /\ SamePids(jobs'[j], jobs[j])
    BY <1>3, <1>t, RecordTable
  <2> QED BY <1>i, <1>t, <2>1 DEF entered, SamePids
<1>4. CASE Rearranged({FINISHED}, jobs, jobs')
  <2>1. jobs[j].state # FINISHED
    <3>1. Summary(jobs[j]) /\ \A k \in DOMAIN jobs[j].proc : jobs[j].proc[k].state \in States
      BY <1>t, EntryTypes DEF SlotsSound, SlotSound
    <3>2. jobs[j].proc[i].state # FINISHED
      BY <1>i, <1>t DEF Gone, ended
    <3> QED BY <3>1, <3>2, SummaryStates
  <2>2. PICK k \in DOMAIN jobs' : Alike(jobs'[k], jobs[j])
    BY <1>4, <1>o, <2>1 DEF Rearranged
  <2> QED BY <1>i, <1>t, <2>2 DEF entered, Alike, Same
<1> QED BY <1>1, <1>2, <1>3, <1>4, <1>t, TableStep

(* Every step.                                                             *)
LEMMA HasEntryStep ==
  ASSUME FrontInv, Gone, FrontFree, HasEntry, [Next]_vars
  PROVE  HasEntry'
<1>t. /\ SafetyInv /\ TypeOK /\ NewChild /\ GroupInv /\ GroupAtRest
      /\ \A q \in Pids : Bound(q)
  BY BoundStep DEF FrontInv, SafetyInv, GroupInv
<1> SUFFICES ASSUME NEW p \in Pids, life'[p] \in Live, p # newpid', aim(p)' # Shell
             PROVE  p \in entered(jobs')
  BY DEF HasEntry, entered
<1>1. life[p] \in Live /\ aim(p) # Shell
  <2>1. exists(p)'
    BY DEF exists, Live
  <2>2. life[p] # "none"
    BY <1>t, <2>1 DEF Bound
  <2> QED BY <1>t, <2>2 DEF Bound
<1>2. CASE p # newpid
  <2>1. p \in entered(jobs) /\ life[p] # "gone"
    BY <1>1, <1>2 DEF HasEntry, Live
  <2> QED BY <2>1, EntriesKept
<1>3. CASE p = newpid
  <2>1. newpid # NoPid /\ newpid' # newpid
    BY <1>3, PidAssumption
  <2>2. AddProc
    <3>1. AddJob => newpid' = newpid
      BY <1>t, AddJobTable
    <3>2. ~Fork
      BY <1>t, <2>1, NewGroupFork
    <3> QED BY <1>t, <2>1, <3>1, <3>2, WindowSteps
  <2>3. job \in DOMAIN jobs' /\ \E m \in DOMAIN jobs'[job].proc : jobs'[job].proc[m] = newProc(p)
    BY <1>3, <1>t, <2>2, AddProcTable
  <2> QED BY <2>3 DEF entered, newProc
<1> QED BY <1>2, <1>3

-------------------------------------------------------------------------------
(* Assertions. *)

(* watchjobs() meets no job without a process.                             *)
LEMMA AllWatchable ==
  ASSUME HasProcs, pc # "addproc", NEW S, NEW u, Rearranged(S, jobs, u), NEW which
  PROVE  watchable(u, which)
<1> SUFFICES ASSUME NEW k \in DOMAIN u, u[k].pgid # NoPid
             PROVE  u[k].proc # << >>
  BY DEF watchable, watched
<1>1. PICK j \in DOMAIN jobs : Alike(u[k], jobs[j])
  BY DEF Rearranged
<1>2. DOMAIN u[k].proc # {}
  BY <1>1 DEF HasProcs, Alike, Same
<1> QED BY <1>2

(* Where an assertion, or a read of an exit code, could fail.              *)
LEMMA FailingSteps ==
  ASSUME [Next]_vars, NoAssertionFails
  PROVE  \/ NoAssertionFails'
         \/ pc # "addproc" /\ \E which : ~watchable(jobs, which)
         \/ ResumeDone \/ FinishStopped \/ FinishFinished
<1>1. CASE User
  BY <1>1 DEF User, Launch, DoResume, DoKill, DoJobs, DoHistory, DoQuit, Wait, WatchThen,
              MainAt, Goto, NoAssertionFails
<1>2. CASE LoopEnd \/ ShutdownEnd
  BY <1>2 DEF LoopEnd, ShutdownEnd, WatchThen, MainAt, Goto, NoAssertionFails
<1>3. CASE \/ Fork \/ AddJob \/ AddProc \/ Unmask \/ ResumeCont \/ Kill \/ ShutdownJob
           \/ GiveTerminal \/ ContForeground
  BY <1>3 DEF Fork, AddJob, AddProc, Unmask, ResumeCont, Kill, ShutdownJob, GiveTerminal,
              ContForeground, KillJob, Goto, NoAssertionFails
<1>4. CASE \/ WhileStopped \/ SleepStopped \/ WhileRunning \/ SleepRunning
           \/ Reread \/ Remask \/ FinishRunning
  BY <1>4 DEF WhileStopped, SleepStopped, WhileRunning, SleepRunning, Reread, Remask,
              FinishRunning, Wait, Goto, NoAssertionFails
<1>5. CASE HandlerStep
  <2>1. pc' = pc \/ pc' = awake(pc)
    BY <1>5 DEF HandlerStep, HandlerEnter, HandlerWaitpid, HandlerRecord, HandlerWaitpidNone,
                HandlerReturn
  <2>2. awake(pc) \in {"aborted", "crashed"} => awake(pc) = pc
    BY DEF awake
  <2> QED BY <2>1, <2>2 DEF NoAssertionFails
<1>6. CASE Children
  BY <1>6 DEF Children, ChildStep, ChildStart, Exit, Stop, OtherCont, OtherKill, SetModes,
              NoAssertionFails
<1>7. CASE UNCHANGED vars
  BY <1>7 DEF vars, NoAssertionFails
<1> QED BY <1>1, <1>2, <1>3, <1>4, <1>5, <1>6, <1>7 DEF Next, MainStep

(* resumejob() finds the slot FG free, monitorjob() has a job to put away  *)
(* or one that has finished, and each job has a last process.              *)
LEMMA AssertionStep ==
  ASSUME FrontInv, Resting, FrontFree, NoAssertionFails, [Next]_vars
  PROVE  NoAssertionFails'
<1>t. SafetyInv /\ TypeOK /\ HasProcs /\ SlotInv(Idle)
  BY DEF FrontInv, SafetyInv
<1>1. CASE pc # "addproc" /\ \E which : ~watchable(jobs, which)
  BY <1>1, <1>t, AllWatchable, NotMoved
<1>2. CASE ResumeDone
  <2>1. pc = "resume"
    BY <1>2 DEF ResumeDone, MainAt
  <2>2. jobs[FG].pgid = NoPid
    BY <2>1 DEF FrontFree, InFront, Monitoring, Terminal
  <2>3. watchable(jobs, RUNNING)
    BY <1>t, <2>1, AllWatchable, NotMoved
  <2>4. pc' \in {"unmask", "tcsetpgrp"}
    BY <1>2, <2>2, <2>3 DEF ResumeDone, WatchThen, Goto
  <2> QED BY <2>4 DEF NoAssertionFails
<1>3. CASE FinishStopped
  <2>1. pc = "finish"
    BY <1>3 DEF FinishStopped, MainAt
  <2>2. /\ pc' \in {"unmask", "crashed"}
        /\ pc' = "crashed" => \E u : Rearranged({}, jobs, u) /\ ~watchable(u, STOPPED)
    BY <1>3, <1>t, PutAwayTable
  <2>3. pc' # "crashed"
    BY <1>t, <2>1, <2>2, AllWatchable
  <2> QED BY <2>2, <2>3 DEF NoAssertionFails
<1>4. CASE FinishFinished
  <2>1. pc = "finish" /\ state = FINISHED
    BY <1>4 DEF FinishFinished, MainAt
  <2>2. jobs[FG].state = FINISHED
    BY <2>1 DEF Resting
  <2>3. /\ pc' \in {"unmask", "crashed"}
        /\ pc' = "crashed" => \E u : Rearranged({FINISHED}, jobs, u) /\ ~watchable(u, FINISHED)
    BY <1>4, <1>t, <2>2, EndedTable
  <2>4. pc' # "crashed"
    BY <1>t, <2>1, <2>3, AllWatchable
  <2> QED BY <2>3, <2>4 DEF NoAssertionFails
<1> QED BY <1>1, <1>2, <1>3, <1>4, FailingSteps

-------------------------------------------------------------------------------
(* The invariant, and what follows from it. *)

OwnerInv ==
  FrontInv /\ MaskOpen /\ Gone /\ Resting /\ FrontFree /\ ShellOwnsTty /\ HasEntry
           /\ NoAssertionFails

(* At first there is no job, and the shell is at its prompt.               *)
LEMMA OwnerInit == Init => OwnerInv
<1> SUFFICES ASSUME Init PROVE OwnerInv
  OBVIOUS
<1>1. /\ \A p \in Pids : life[p] = "none" /\ event[p] = NoStatus
      /\ \A j \in DOMAIN jobs : jobs[j].pgid = NoPid /\ DOMAIN jobs[j].proc = {}
      /\ FG \in DOMAIN jobs /\ pc = "readline" /\ ~blocked /\ hpc = "idle"
      /\ tty = Shell /\ modes = "shell"
  BY DEF Init, ZeroJob, FG
<1>2. MaskOpen /\ Resting /\ FrontFree /\ ShellOwnsTty /\ NoAssertionFails
  BY <1>1 DEF MaskOpen, Resting, Ending, FrontFree, ShellOwnsTty, NoAssertionFails
<1>3. Gone /\ HasEntry
  BY <1>1 DEF Gone, ended, HasEntry, Live
<1> QED BY <1>2, <1>3, FrontInit DEF OwnerInv

(* Every step.                                                             *)
LEMMA OwnerStep ==
  ASSUME "cont" \notin Events, NoLostNotification, OwnerInv, [Next]_vars
  PROVE  OwnerInv'
<1>t. FrontInv /\ FrontInv'
  BY FrontNext DEF OwnerInv
<1>1. MaskOpen' /\ Gone'
  BY <1>t, MaskStep, GoneStep DEF OwnerInv
<1>2. Resting'
  BY <1>t, RestingStep DEF OwnerInv
<1>3. FrontFree' /\ ShellOwnsTty'
  BY FrontFreeStep, ShellOwnsTtyStep DEF OwnerInv
<1>4. HasEntry' /\ NoAssertionFails'
  BY HasEntryStep, AssertionStep DEF OwnerInv
<1> QED BY <1>t, <1>1, <1>2, <1>3, <1>4 DEF OwnerInv

(* A sound table stays sound when its jobs are rearranged.                 *)
LEMMA RearrangedSound ==
  ASSUME NEW S, NEW t, NEW u, Sound(t), Distinct(t), Rearranged(S, t, u),
         \A k \in DOMAIN u : u[k].pgid = NoPid => DOMAIN u[k].proc = {}
  PROVE  Sound(u)
<1> DEFINE m == [k \in DOMAIN u |-> CHOOSE j \in DOMAIN t : Alike(u[k], t[j])]
<1>1. ASSUME NEW k \in DOMAIN u, DOMAIN u[k].proc # {}
      PROVE  m[k] \in DOMAIN t /\ Alike(u[k], t[m[k]])
  <2>1. \E j \in DOMAIN t : Alike(u[k], t[j])
    BY <1>1 DEF Rearranged
  <2> QED BY <2>1
<1> HIDE DEF m
<1>2. ASSUME NEW j \in DOMAIN u, NEW k \in DOMAIN u, DOMAIN u[j].proc # {},
             DOMAIN u[k].proc # {}, m[j] = m[k]
      PROVE  j = k
  <2>1. u[j].pgid = u[k].pgid /\ u[j].pgid # NoPid
    BY <1>1, <1>2 DEF Alike, Same
  <2> QED BY <2>1 DEF Rearranged, Distinct
<1> QED BY <1>1, <1>2, Moved DEF Alike

(* Steps outside of JobControl that rearrange the table and leave the      *)
(* processes and the handler alone, and do not come to monitorjob(), keep  *)
(* the invariant, too.                                                     *)
LEMMA SetAside ==
  ASSUME OwnerInv, TypeOK', SlotInv(Idle)', Rearranged({FINISHED}, jobs, jobs'),
         UNCHANGED <<procs, handler, newpid, lead>>,
         pc \notin Window, pc' \notin Window \cup Monitoring \cup {"tcsetpgrp"},
         MaskOpen', FrontFree', ShellOwnsTty', NoAssertionFails'
  PROVE  OwnerInv'
<1>t. /\ FrontInv /\ SafetyInv /\ TypeOK /\ SlotsSound(Idle, jobs) /\ SlotsSound(Idle, jobs)'
      /\ NewChild /\ Sound(jobs) /\ Forked(jobs) /\ GroupInv /\ GroupAtRest /\ AimForked
      /\ Grouping(jobs) /\ Distinct(jobs) /\ HasProcs /\ Gone /\ HasEntry
  BY DEF OwnerInv, FrontInv, SafetyInv, TableSound, Sound, SlotInv, GroupInv, Grouping
<1>u. UNCHANGED <<life, group, pgarg, event, hpc, hpid, hstatus, newpid, lead>>
  BY DEF procs, handler
<1>1. Sound(jobs')
  <2>1. \A k \in DOMAIN jobs' : jobs'[k].pgid = NoPid => DOMAIN jobs'[k].proc = {}
    BY <1>t DEF SlotsSound, SlotSound, FreeSlot
  <2> QED BY <1>t, <2>1, RearrangedSound
<1>2. SafetyInv' /\ newpid' = NoPid
  <2>1. WindowClosed' /\ NewChild' /\ ReportsAreCurrent' /\ TableSound'
    BY <1>1, <1>t, <1>u, TableSafe DEF handler
  <2>2. newpid = NoPid
    BY <1>t DEF NewChild, Window
  <2> QED BY <1>u, <2>1, <2>2 DEF SafetyInv
<1>3. \A q \in Pids : Bound(q)
  BY <1>t, <1>u, BoundUntouched
<1>4. Carried(jobs, jobs')
  BY RearrangedCarried
<1>5. GroupInv'
  <2>1. GroupAtRest'
    BY <1>t, <1>u DEF GroupAtRest
  <2>2. AimForked'
    BY <1>2, <1>3, <1>t, AimsStayForked
  <2>3. Grouping(jobs)'
    <3>1. Occupied(jobs)'
      BY <1>1 DEF Sound
    <3> QED BY <1>3, <1>4, <1>t, <1>u, <3>1, CarriedGroups
  <2>4. NewGroup'
    BY <1>2 DEF NewGroup, Window
  <2> QED BY <2>1, <2>2, <2>3, <2>4 DEF GroupInv
<1>6. HasProcs' /\ FrontHeld'
  BY <1>4, <1>t DEF HasProcs, FrontHeld, Carried, SamePids, Window
<1>7. Gone'
  <2>1. ASSUME NEW k \in DOMAIN jobs', NEW i \in DOMAIN jobs'[k].proc
        PROVE  \E j \in DOMAIN jobs : Alike(jobs'[k], jobs[j])
    BY <1>1 DEF Rearranged, Sound, Occupied
  <2>2. ended(jobs') \subseteq ended(jobs)
    BY <2>1 DEF ended, Alike, Same
  <2> QED BY <1>t, <1>u, <2>2 DEF Gone
<1>8. Resting'
  BY DEF Resting, Ending, Monitoring
<1>9. HasEntry'
  <2>1. ASSUME NEW p \in entered(jobs), life[p] # "gone" PROVE p \in entered(jobs')
    <3>1. PICK j \in DOMAIN jobs : \E i \in DOMAIN jobs[j].proc : jobs[j].proc[i].pid = p
      BY DEF entered
    <3>2. PICK i \in DOMAIN jobs[j].proc : jobs[j].proc[i].pid = p
      BY <3>1
    <3>3. jobs[j].state # FINISHED
      <4>1. Summary(jobs[j]) /\ \A k \in DOMAIN jobs[j].proc : jobs[j].proc[k].state \in States
        BY <1>t, EntryTypes DEF SlotsSound, SlotSound
      <4>2. jobs[j].proc[i].state # FINISHED /\ p \in Pids
        BY <1>t, <2>1, <3>2 DEF Gone, ended, entered
      <4> QED BY <4>1, <4>2, SummaryStates
    <3>4. PICK k \in DOMAIN jobs' : Alike(jobs'[k], jobs[j])
      BY <1>t, <3>2, <3>3 DEF Rearranged, Sound, Occupied
    <3> QED BY <2>1, <3>2, <3>4 DEF entered, Alike, Same
  <2>2. \A p \in Pids : aim(p)' = aim(p)
    BY <1>u DEF aim
  <2>3. \A p \in Pids : life[p] \in Live => life[p] # "gone"
    BY DEF Live
  <2> QED BY <1>t, <1>u, <2>1, <2>2, <2>3 DEF HasEntry
<1>10. FrontInv'
  BY <1>2, <1>5, <1>6 DEF FrontInv
<1> QED BY <1>7, <1>8, <1>9, <1>10 DEF OwnerInv

(* Without "cont" the invariant always holds.                              *)
LEMMA OwnerKept ==
  ASSUME "cont" \notin Events
  PROVE  Spec => []OwnerInv
<1>1. NoLostNotification /\ OwnerInv /\ [Next]_vars => OwnerInv'
  BY OwnerStep
<1> QED BY <1>1, OwnerInit, NotificationsKept, PTL DEF Spec

(* A process in the table has one entry.                                   *)
LEMMA OneEntry ==
  ASSUME SafetyInv, NEW p \in entered(jobs)
  PROVE  Cardinality(entriesOf(jobs, p)) = 1
<1>t. /\ njobmax \in Nat /\ jobs \in Table(njobmax) /\ DOMAIN jobs = 0 .. njobmax - 1
      /\ Occupied(jobs) /\ Once(jobs)
  BY TheTable DEF SafetyInv, TableSound, Sound
<1>l. \A j \in DOMAIN jobs : DOMAIN jobs[j].proc = 1 .. Len(jobs[j].proc)
  <2> SUFFICES ASSUME NEW j \in DOMAIN jobs PROVE DOMAIN jobs[j].proc = 1 .. Len(jobs[j].proc)
    OBVIOUS
  <2>1. jobs[j] \in Job
    BY <1>t DEF Table
  <2> QED BY <2>1, LenProperties DEF Job
<1>1. PICK j \in DOMAIN jobs : \E i \in DOMAIN jobs[j].proc : jobs[j].proc[i].pid = p
  BY DEF entered
<1>2. PICK i \in DOMAIN jobs[j].proc : jobs[j].proc[i].pid = p
  BY <1>1
<1>3. \A e : e \in entriesOf(jobs, p) <=> e = <<j, i>>
  <2>1. \A e : e \in entriesOf(jobs, p) <=>
          \E k \in DOMAIN jobs : \E l \in DOMAIN jobs[k].proc :
            e = <<k, l>> /\ jobs[k].pgid # NoPid /\ jobs[k].proc[l].pid = p
    BY <1>l, <1>t, EntriesOf, SMTT(30)
  <2>2. \A k \in DOMAIN jobs : \A l \in DOMAIN jobs[k].proc :
          jobs[k].proc[l].pid = p => k = j /\ l = i
    BY <1>2, <1>t DEF Once
  <2>3. jobs[j].pgid # NoPid
    BY <1>t DEF Occupied
  <2> QED BY <1>2, <2>1, <2>2, <2>3
<1>4. entriesOf(jobs, p) = {<<j, i>>}
  BY <1>3
<1> QED BY <1>4, FS_Singleton

(* The properties of the table and the terminal follow.                    *)
LEMMA OwnerProperties ==
  OwnerInv => TableTracksKernel /\ GroupIsJob /\ MonitoredJobKept /\ LiveChildOwned
              /\ TerminalAtPrompt
<1> SUFFICES ASSUME OwnerInv
             PROVE  TableTracksKernel /\ GroupIsJob /\ MonitoredJobKept /\ LiveChildOwned
                    /\ TerminalAtPrompt
  OBVIOUS
<1>1. TableTracksKernel
  BY DEF OwnerInv, FrontInv, SafetyInv, TableSound, Sound, Tracks, TableTracksKernel
<1>2. GroupIsJob /\ MonitoredJobKept
  BY GroupsOfJobs, FrontMonitored DEF OwnerInv, FrontInv, SafetyInv
<1>3. LiveChildOwned
  <2> SUFFICES ASSUME NEW p \in Pids, p # newpid,
                      \/ life[p] = "forked" /\ pgarg[p] # Shell
                      \/ life[p] \in {"running", "stopped"} /\ group[p] # Shell
               PROVE  Cardinality(entriesOf(jobs, p)) = 1
    BY DEF LiveChildOwned
  <2>1. life[p] \in Live /\ aim(p) # Shell
    BY ShellAssumption DEF Live, aim
  <2>2. p \in entered(jobs)
    BY <2>1 DEF OwnerInv, HasEntry
  <2> QED BY <2>2, OneEntry DEF OwnerInv, FrontInv
<1>4. TerminalAtPrompt
  BY DEF OwnerInv, FrontFree, InFront, ShellOwnsTty, TerminalAtPrompt, Monitoring, Terminal
<1> QED BY <1>1, <1>2, <1>3, <1>4

(* A child that is alive is in exactly one place of the table, or about to *)
(* be entered (addproc, movejob, deljob, watchjobs in jobs.c).             *)
THEOREM ChildrenOwned ==
  ASSUME "cont" \notin Events
  PROVE  Spec => []LiveChildOwned
<1>1. OwnerInv => LiveChildOwned
  BY OwnerProperties
<1> QED BY <1>1, OwnerKept, PTL

(* The assertions of deljob() and movejob() hold, and no job without       *)
(* processes is reported (jobs.c).                                         *)
THEOREM AssertionsHold ==
  ASSUME "cont" \notin Events
  PROVE  Spec => []NoAssertionFails
<1>1. OwnerInv => NoAssertionFails
  BY DEF OwnerInv
<1> QED BY <1>1, OwnerKept, PTL

(* At the prompt the terminal is the shell's, nothing is left of what a    *)
(* program in the foreground did to its attributes, and no job is in front *)
(* (the end of monitorjob in jobs.c).                                      *)
THEOREM PromptHasTerminal ==
  ASSUME "cont" \notin Events
  PROVE  Spec => []TerminalAtPrompt
<1>1. OwnerInv => TerminalAtPrompt
  BY OwnerProperties
<1> QED BY <1>1, OwnerKept, PTL

-------------------------------------------------------------------------------
(* The shell implements JobLifecycle: what JobLifecycle says of a table.   *)

phaseIn(t, p) ==
  LET here == {j \in DOMAIN t : t[j].pgid = p}
  IN  IF here = {} THEN "absent" ELSE t[CHOOSE j \in here : TRUE].state

phases(t) == [p \in Pids |-> phaseIn(t, p)]

(* A group has at most one slot, whose state is the phase of its job.      *)
LEMMA PhaseOfSlot ==
  ASSUME NEW t, Distinct(t), NEW j \in DOMAIN t, t[j].pgid # NoPid
  PROVE  phaseIn(t, t[j].pgid) = t[j].state
<1> DEFINE here == {k \in DOMAIN t : t[k].pgid = t[j].pgid}
<1>1. here = {j}
  BY DEF Distinct
<1>2. (CHOOSE k \in here : TRUE) = j
  BY <1>1
<1> QED BY <1>1, <1>2 DEF phaseIn

(* Whoever has no slot is absent, and only he: a state is not "absent".    *)
LEMMA PhaseAbsent ==
  ASSUME NEW t, Distinct(t), NEW p \in Pids,
         \A j \in DOMAIN t : t[j].state \in States
  PROVE  phaseIn(t, p) = "absent" <=> \A j \in DOMAIN t : t[j].pgid # p
<1>1. CASE \A j \in DOMAIN t : t[j].pgid # p
  BY <1>1 DEF phaseIn
<1>2. CASE \E j \in DOMAIN t : t[j].pgid = p
  <2>1. PICK j \in DOMAIN t : t[j].pgid = p
    BY <1>2
  <2>2. phaseIn(t, p) = t[j].state
    BY <2>1, PhaseOfSlot, PidAssumption
  <2>3. "absent" \notin States
    BY DEF States, RUNNING, STOPPED, FINISHED
  <2> QED BY <2>1, <2>2, <2>3
<1> QED BY <1>1, <1>2

(* Whoever has a slot in both tables in the same state, or in none, is in  *)
(* the same phase.                                                         *)
LEMMA PhaseAlike ==
  ASSUME NEW t, NEW u, Distinct(t), Distinct(u), NEW p \in Pids,
         \/ \E j \in DOMAIN t, k \in DOMAIN u :
              t[j].pgid = p /\ u[k].pgid = p /\ t[j].state = u[k].state
         \/ (\A j \in DOMAIN t : t[j].pgid # p) /\ (\A k \in DOMAIN u : u[k].pgid # p)
  PROVE  phaseIn(t, p) = phaseIn(u, p)
<1>1. ASSUME NEW j \in DOMAIN t, NEW k \in DOMAIN u,
             t[j].pgid = p, u[k].pgid = p, t[j].state = u[k].state
      PROVE  phaseIn(t, p) = phaseIn(u, p)
  BY <1>1, PhaseOfSlot, PidAssumption
<1>2. CASE (\A j \in DOMAIN t : t[j].pgid # p) /\ (\A k \in DOMAIN u : u[k].pgid # p)
  BY <1>2 DEF phaseIn
<1> QED BY <1>1, <1>2

(* Rearranging a table without a loss changes no phase.                    *)
LEMMA RearrangedPhases ==
  ASSUME NEW t, NEW u, Distinct(t), Rearranged({}, t, u)
  PROVE  phases(u) = phases(t)
<1>1. Distinct(u)
  BY DEF Rearranged
<1>2. ASSUME NEW p \in Pids PROVE phaseIn(t, p) = phaseIn(u, p)
  <2>1. ASSUME NEW k \in DOMAIN u, u[k].pgid = p
        PROVE  \E j \in DOMAIN t : t[j].pgid = p /\ t[j].state = u[k].state
    BY <2>1, PidAssumption DEF Rearranged, Alike, Same
  <2>2. ASSUME NEW j \in DOMAIN t, t[j].pgid = p
        PROVE  \E k \in DOMAIN u : u[k].pgid = p /\ t[j].state = u[k].state
    BY <2>2, PidAssumption DEF Rearranged, Alike, Same
  <2> QED BY <1>1, <2>1, <2>2, PhaseAlike
<1> QED BY <1>2 DEF phases

(* The jobs that a rearrangement drops have finished and are forgotten.    *)
LEMMA DroppedPhases ==
  ASSUME NEW t, NEW u, Distinct(t), Rearranged({FINISHED}, t, u),
         \A j \in DOMAIN t : t[j].state \in States
  PROVE  LET S == {p \in Pids : phaseIn(t, p) = "FINISHED" /\ phaseIn(u, p) = "absent"}
         IN  \A p \in Pids : phaseIn(u, p) = IF p \in S THEN "absent" ELSE phaseIn(t, p)
<1>1. Distinct(u)
  BY DEF Rearranged
<1> SUFFICES ASSUME NEW p \in Pids
             PROVE  \/ phaseIn(u, p) = phaseIn(t, p)
                    \/ phaseIn(t, p) = "FINISHED" /\ phaseIn(u, p) = "absent"
  OBVIOUS
<1>2. CASE \E k \in DOMAIN u : u[k].pgid = p
  <2>1. PICK k \in DOMAIN u : u[k].pgid = p
    BY <1>2
  <2>2. \E j \in DOMAIN t : t[j].pgid = p /\ t[j].state = u[k].state
    BY <2>1, PidAssumption DEF Rearranged, Alike, Same
  <2> QED BY <1>1, <2>1, <2>2, PhaseAlike
<1>3. CASE \A k \in DOMAIN u : u[k].pgid # p
  <2>1. phaseIn(u, p) = "absent"
    BY <1>3 DEF phaseIn
  <2>2. ASSUME NEW j \in DOMAIN t, t[j].pgid = p
        PROVE  phaseIn(t, p) = "FINISHED"
    <3>1. t[j].state = FINISHED
      BY <1>3, <2>2, PidAssumption DEF Rearranged, Alike, Same
    <3> QED BY <2>2, <3>1, PhaseOfSlot, PidAssumption DEF FINISHED
  <2>3. CASE \A j \in DOMAIN t : t[j].pgid # p
    BY <1>1, <1>3, <2>3, PhaseAlike
  <2> QED BY <2>1, <2>2, <2>3
<1> QED BY <1>2, <1>3

-------------------------------------------------------------------------------
(* While monitorjob() ends, the job in front does not change at all, if    *)
(* nobody kills its processes.                                             *)

FrontQuiet == \A i \in DOMAIN jobs[FG].proc : settled(jobs[FG].proc[i].pid)

FrontSettled == pc \in Ending => FrontQuiet /\ (pc # "reread" => jobs[FG].state = state)

(* A process that is settled and does not run stays so.                    *)
LEMMA SettledRests ==
  ASSUME TypeOK, "cont" \notin Events, "kill" \notin Events, NEW p \in Pids, ChildStep(p),
         NEW q \in Pids, settled(q), view(life[q]) # RUNNING
  PROVE  settled(q)'
<1>t. life \in [Pids -> Lives] /\ event \in [Pids -> Status \cup {NoStatus}]
  BY DEF TypeOK, KernelType
<1>1. UNCHANGED handler
  BY DEF ChildStep, ChildStart, Exit, Stop, OtherCont, OtherKill, SetModes
<1>2. life[q] \notin {"forked", "running"}
  BY DEF view, RUNNING, STOPPED, FINISHED
<1>3. event'[q] = event[q]
  BY <1>2, <1>t DEF ChildStep, ChildStart, Exit, Stop, OtherCont, OtherKill, SetModes, Change, procs
<1> QED BY <1>1, <1>3 DEF settled, handler

(* The handler neither waits for a process that is settled nor changes its *)
(* job.                                                                    *)
LEMMA SettledHandled ==
  ASSUME FrontInv, FrontInv', HandlerStep, jobs[FG].pgid # NoPid, pc # "addproc", FrontQuiet
  PROVE  jobs'[FG].state = jobs[FG].state /\ FrontQuiet'
<1>t. /\ SafetyInv /\ TypeOK /\ FG \in DOMAIN jobs /\ event \in [Pids -> Status \cup {NoStatus}]
      /\ SlotsSound(Idle, jobs) /\ SlotsSound(Idle, jobs)'
      /\ DOMAIN jobs[FG].proc # {}
  BY TheTable DEF FrontInv, SafetyInv, SlotInv, TypeOK, KernelType, HasProcs
<1>p. \A i \in DOMAIN jobs[FG].proc : jobs[FG].proc[i].pid \in Pids
                                      /\ jobs[FG].proc[i].state \in States
  BY <1>t, EntryTypes
<1>1. CASE HandlerEnter \/ HandlerWaitpidNone
  BY <1>1, <1>p DEF HandlerEnter, HandlerWaitpidNone, FrontQuiet, settled, table, procs
<1>2. ASSUME NEW p \in Pids, HandlerWaitpid(p)
      PROVE  jobs'[FG].state = jobs[FG].state /\ FrontQuiet'
  <2>1. /\ event[p] # NoStatus /\ hpid' = p /\ event' = [event EXCEPT ![p] = NoStatus]
        /\ jobs' = jobs
    BY <1>2 DEF HandlerWaitpid, table
  <2>2. \A q \in Pids : settled(q) => q # p /\ settled(q)'
    BY <1>t, <2>1 DEF settled
  <2> QED BY <1>p, <2>1, <2>2 DEF FrontQuiet, settled
<1>3. CASE HandlerRecord
  <2>1. hpc = "record" /\ hpc' # "record" /\ UNCHANGED event
    BY <1>3 DEF HandlerRecord, afterRecord, procs
  <2>2. /\ FG \in DOMAIN jobs' /\ DOMAIN jobs'[FG].proc = DOMAIN jobs[FG].proc
        /\ \A i \in DOMAIN jobs[FG].proc :
             /\ jobs'[FG].proc[i].pid = jobs[FG].proc[i].pid
             /\ jobs[FG].proc[i].pid # hpid => jobs'[FG].proc[i].state = jobs[FG].proc[i].state
    BY <1>3, <1>t, RecordTable DEF SamePids
  <2>3. \A i \in DOMAIN jobs[FG].proc : jobs'[FG].proc[i].state = jobs[FG].proc[i].state
    BY <2>1, <2>2 DEF FrontQuiet, settled
  <2>4. Summary(jobs[FG]) /\ Summary(jobs'[FG]) /\ jobs[FG].state \in States
        /\ jobs'[FG].state \in States
    <3>1. Summary(jobs[FG]) /\ Summary(jobs'[FG])
      BY <1>t, <2>2 DEF SlotsSound, SlotSound
    <3>2. jobs[FG].state = job_state(jobs[FG].proc) /\ jobs'[FG].state = job_state(jobs'[FG].proc)
      <4>1. jobs[FG].proc # << >> /\ jobs'[FG].proc # << >>
        BY <1>t, <2>2
      <4> QED BY <3>1, <4>1 DEF Summary
    <3> QED BY <3>1, <3>2, StateTypes
  <2>5. jobs'[FG].state = jobs[FG].state
    <3> DEFINE a == jobs[FG]
               b == jobs'[FG]
    <3>1. /\ DOMAIN a.proc # {} /\ DOMAIN b.proc = DOMAIN a.proc
          /\ \A i \in DOMAIN a.proc : b.proc[i].state = a.proc[i].state
          /\ \A i \in DOMAIN a.proc : a.proc[i].state \in States
          /\ Summary(a) /\ Summary(b) /\ a.state \in States /\ b.state \in States
      BY <1>p, <1>t, <2>2, <2>3, <2>4
    <3> HIDE DEF a, b
    <3>2. /\ b.state = RUNNING <=> a.state = RUNNING
          /\ b.state = FINISHED <=> a.state = FINISHED
      BY <3>1, SummaryStates
    <3>3. b.state = a.state
      BY <3>1, <3>2 DEF States
    <3> QED BY <3>3 DEF a, b
  <2> QED BY <1>p, <2>1, <2>2, <2>5 DEF FrontQuiet, settled
<1>4. CASE HandlerReturn
  <2>1. jobs'[FG] = jobs[FG] /\ hpc' = "idle" /\ UNCHANGED event
    BY <1>4, <1>t, ReportedTable DEF HandlerReturn, procs
  <2> QED BY <1>p, <2>1 DEF FrontQuiet, settled
<1> QED BY <1>1, <1>2, <1>3, <1>4 DEF HandlerStep

(* Every step.                                                             *)
LEMMA FrontSettledStep ==
  ASSUME "cont" \notin Events, "kill" \notin Events, NoLostNotification, OwnerInv, OwnerInv',
         FrontSettled, [Next]_vars
  PROVE  FrontSettled'
<1>t. /\ FrontInv /\ FrontInv' /\ TypeOK /\ MaskOpen /\ Resting /\ FG \in DOMAIN jobs
      /\ SlotsSound(Idle, jobs) /\ Tracks(jobs)
  BY TheTable DEF OwnerInv, FrontInv, SafetyInv, SlotInv, TableSound, Sound
<1>p. \A i \in DOMAIN jobs[FG].proc : jobs[FG].proc[i].pid \in Pids
  BY <1>t, EntryTypes
<1>a. Ending = {"reread", "remask", "finish"}
  BY DEF Ending
<1>f. pc \in Ending => jobs[FG].pgid # NoPid /\ pc # "addproc"
  <2>1. tty # NoPid
    BY <1>t, PidAssumption, ShellAssumption DEF TypeOK, KernelType
  <2> QED BY <1>a, <1>t, <2>1 DEF FrontInv, FrontHeld, Monitoring
<1> SUFFICES ASSUME pc' \in Ending PROVE FrontSettled'
  BY DEF FrontSettled
<1>1. CASE WhileRunning /\ pc' = "reread" /\ UNCHANGED <<jobs, life, event, handler, state>>
  <2>1. \A p \in Pids : settled(p)
    BY <1>1, <1>t, NoNews DEF settled
  <2> QED BY <1>1, <1>p, <2>1 DEF FrontSettled, FrontQuiet, settled, handler
<1>2. CASE \/ /\ pc = "reread" /\ pc' = "remask" /\ state' = jobs[FG].state
              /\ UNCHANGED <<jobs, life, event, handler>>
           \/ /\ pc = "remask" /\ pc' = "finish"
              /\ UNCHANGED <<jobs, life, event, handler, state>>
           \/ pc' = pc /\ UNCHANGED <<jobs, life, event, state, handler>>
  BY <1>2, <1>a, <1>p DEF FrontSettled, FrontQuiet, settled, handler
<1>3. ASSUME pc' = pc, UNCHANGED <<jobs, state, handler>>, NEW p \in Pids, ChildStep(p)
      PROVE  FrontSettled'
  <2>1. ASSUME NEW i \in DOMAIN jobs[FG].proc, NEW q \in Pids, q = jobs[FG].proc[i].pid
        PROVE  settled(q)'
    <3>1. settled(q)
      BY <1>3, <2>1 DEF FrontSettled, FrontQuiet
    <3>2. jobs[FG].proc[i].state # RUNNING
      <4>1. jobs[FG].state # RUNNING /\ Summary(jobs[FG])
        BY <1>3, <1>t DEF Resting, SlotsSound, SlotSound
      <4> QED BY <4>1, SummaryStates
    <3>3. view(life[q]) # RUNNING
      BY <1>t, <2>1, <3>1, <3>2 DEF Tracks
    <3> QED BY <1>3, <1>t, <3>1, <3>3, SettledRests
  <2> QED BY <1>3, <1>p, <2>1 DEF FrontSettled, FrontQuiet, settled
<1>4. CASE pc' = pc /\ state' = state /\ HandlerStep
  BY <1>4, <1>f, <1>t, SettledHandled DEF FrontSettled
<1> QED BY <1>1, <1>2, <1>3, <1>4, EndingSteps

-------------------------------------------------------------------------------
(* What the steps do to the phases. *)

(* The launch of a job; the slot it gets was free.                         *)
LEMMA StartPhases ==
  ASSUME OwnerInv, OwnerInv', AddJob
  PROVE  /\ lead \in Pids /\ phases(jobs)[lead] = "absent"
         /\ phases(jobs') = [phases(jobs) EXCEPT ![lead] = "RUNNING"]
         /\ IF ~bg THEN jobs[FG].pgid = NoPid /\ jobs'[FG].pgid = lead
            ELSE jobs'[FG].pgid = jobs[FG].pgid
<1>t. /\ SafetyInv /\ TypeOK /\ NewChild /\ NewGroup /\ Distinct(jobs) /\ Distinct(jobs)'
      /\ FG \in DOMAIN jobs /\ lead \in Pids \cup {NoPid}
  BY TheTable DEF OwnerInv, FrontInv, SafetyInv, GroupInv, Grouping, TypeOK, MainType
<1>1. /\ DOMAIN jobs' = DOMAIN jobs \cup {job'}
      /\ jobs'[job'] = newJob(lead)
      /\ \A j \in DOMAIN jobs : j # job' => jobs'[j] = jobs[j]
      /\ bg => job' # FG /\ (job' \in DOMAIN jobs => jobs[job'].pgid = NoPid)
      /\ ~bg => job' = FG
      /\ pc = "addjob"
  BY <1>t, AddJobTable
<1>2. jobs[FG].pgid = NoPid
  BY <1>1 DEF OwnerInv, FrontFree, InFront, Monitoring, Terminal
<1>3. lead \in Pids /\ \A j \in DOMAIN jobs : jobs[j].pgid # lead
  BY <1>1, <1>t DEF NewChild, NewGroup
<1>4. newJob(lead).pgid = lead /\ newJob(lead).state = "RUNNING"
  BY DEF newJob, RUNNING
<1>5. phaseIn(jobs, lead) = "absent"
  BY <1>3 DEF phaseIn
<1>6. phaseIn(jobs', lead) = "RUNNING"
  BY <1>1, <1>3, <1>4, <1>t, PhaseOfSlot, PidAssumption
<1>7. ASSUME NEW p \in Pids, p # lead PROVE phaseIn(jobs, p) = phaseIn(jobs', p)
  <2>1. CASE \E j \in DOMAIN jobs : jobs[j].pgid = p
    <3>1. PICK j \in DOMAIN jobs : jobs[j].pgid = p
      BY <2>1
    <3>2. j # job'
      BY <1>1, <1>2, <3>1, PidAssumption
    <3>3. j \in DOMAIN jobs' /\ jobs'[j] = jobs[j]
      BY <1>1, <3>2
    <3> QED BY <1>t, <3>1, <3>3, PhaseAlike
  <2>2. CASE \A j \in DOMAIN jobs : jobs[j].pgid # p
    <3>1. \A k \in DOMAIN jobs' : jobs'[k].pgid # p
      BY <1>1, <1>4, <1>7, <2>2
    <3> QED BY <1>t, <2>2, <3>1, PhaseAlike
  <2> QED BY <2>1, <2>2
<1>8. phases(jobs') = [phases(jobs) EXCEPT ![lead] = "RUNNING"]
  BY <1>6, <1>7 DEF phases
<1>9. IF ~bg THEN jobs'[FG].pgid = lead ELSE jobs'[FG].pgid = jobs[FG].pgid
  BY <1>1, <1>4, <1>t
<1> QED BY <1>2, <1>3, <1>5, <1>8, <1>9 DEF phases

(* addproc() changes none.                                                 *)
LEMMA AddProcPhases ==
  ASSUME OwnerInv, OwnerInv', AddProc
  PROVE  phases(jobs') = phases(jobs) /\ jobs'[FG].pgid = jobs[FG].pgid
<1>t. /\ SafetyInv /\ TypeOK /\ Distinct(jobs) /\ Distinct(jobs)' /\ FG \in DOMAIN jobs
  BY TheTable DEF OwnerInv, FrontInv, SafetyInv, GroupInv, Grouping
<1>1. /\ DOMAIN jobs' = DOMAIN jobs
      /\ \A j \in DOMAIN jobs : jobs'[j].pgid = jobs[j].pgid /\ jobs'[j].state = jobs[j].state
  BY <1>t, AddProcTable
<1>2. ASSUME NEW p \in Pids PROVE phaseIn(jobs, p) = phaseIn(jobs', p)
  BY <1>1, <1>t, PhaseAlike
<1> QED BY <1>1, <1>2, <1>t DEF phases

(* The handler changes the phase of one job that has not finished yet.     *)
LEMMA RecordPhases ==
  ASSUME OwnerInv, OwnerInv', HandlerRecord
  PROVE  /\ jobs'[FG].pgid = jobs[FG].pgid
         /\ \/ jobs' = jobs
            \/ \E g \in Pids, to \in States :
                 /\ phases(jobs)[g] \in {"RUNNING", "STOPPED"}
                 /\ phases(jobs') = [phases(jobs) EXCEPT ![g] = to]
<1>t. /\ SafetyInv /\ TypeOK /\ TypeOK' /\ Distinct(jobs) /\ Distinct(jobs)'
      /\ FG \in DOMAIN jobs /\ njobmax \in Nat /\ jobs \in Table(njobmax)
      /\ DOMAIN jobs = 0 .. njobmax - 1 /\ SlotsSound(Idle, jobs) /\ Gone
      /\ \A j \in DOMAIN jobs : jobs[j] \in Job
  BY TheTable DEF OwnerInv, FrontInv, SafetyInv, SlotInv, GroupInv, Grouping
<1>1. /\ hpc = "record" /\ jobs' = record(jobs, hpid, hstatus)
      /\ DOMAIN jobs' = DOMAIN jobs /\ hpid \in Pids
      /\ \A j \in DOMAIN jobs : jobs'[j].pgid = jobs[j].pgid
  BY <1>t, RecordTable DEF HandlerRecord, SamePids
<1>2. CASE entriesOf(jobs, hpid) = {}
  BY <1>1, <1>2, <1>t DEF record
<1>3. CASE entriesOf(jobs, hpid) # {}
  <2> DEFINE e == firstEntry(jobs, hpid)
             k == e[1]
             g == jobs[k].pgid
             to == jobs'[k].state
  <2>1. e \in entriesOf(jobs, hpid)
    BY <1>3, <1>t, FirstEntry
  <2> HIDE DEF e
  <2>2. PICK j \in 0 .. njobmax - 1 : \E i \in 1 .. Len(jobs[j].proc) :
          e = <<j, i>> /\ jobs[j].pgid # NoPid /\ jobs[j].proc[i].pid = hpid
    BY <1>t, <2>1, EntriesOf
  <2>3. PICK i \in 1 .. Len(jobs[j].proc) :
          e = <<j, i>> /\ jobs[j].pgid # NoPid /\ jobs[j].proc[i].pid = hpid
    BY <2>2
  <2>4. k = j /\ k \in DOMAIN jobs /\ g # NoPid /\ i \in DOMAIN jobs[k].proc
    <3>1. k = j
      BY <2>3
    <3>2. jobs[j].proc \in Seq(Proc)
      BY <1>t DEF Job
    <3> QED BY <1>t, <2>3, <3>1, <3>2, LenProperties
  <2>5. \A l \in DOMAIN jobs : l # k => jobs'[l] = jobs[l]
    BY <1>1, <1>3, <1>t DEF record, e
  <2>6. jobs[k].state \in {"RUNNING", "STOPPED"}
    <3>1. jobs[k].proc[i].state # FINISHED
      BY <1>1, <1>t, <2>3, <2>4 DEF Gone, ended
    <3>2. Summary(jobs[k]) /\ \A l \in DOMAIN jobs[k].proc : jobs[k].proc[l].state \in States
      BY <1>t, <2>4, EntryTypes DEF SlotsSound, SlotSound
    <3>3. jobs[k].state # FINISHED
      BY <2>4, <3>1, <3>2, SummaryStates
    <3>4. jobs[k].state \in States
      BY <1>t, <2>4 DEF Job
    <3> QED BY <3>3, <3>4 DEF States, RUNNING, STOPPED, FINISHED
  <2>7. to \in States /\ g \in Pids
    <3>1. jobs'[k] \in Job
      BY <1>1, <1>t, <2>4 DEF TypeOK, TableType
    <3> QED BY <1>t, <2>4, <3>1 DEF Job
  <2>8. phaseIn(jobs, g) = jobs[k].state /\ phaseIn(jobs', g) = to
    <3>1. phaseIn(jobs, g) = jobs[k].state
      BY <1>t, <2>4, PhaseOfSlot
    <3>2. phaseIn(jobs', jobs'[k].pgid) = jobs'[k].state
      BY <1>1, <1>t, <2>4, PhaseOfSlot
    <3> QED BY <1>1, <2>4, <3>1, <3>2
  <2>9. ASSUME NEW p \in Pids, p # g PROVE phaseIn(jobs, p) = phaseIn(jobs', p)
    <3>1. ASSUME NEW l \in DOMAIN jobs, jobs[l].pgid = p
          PROVE  phaseIn(jobs, p) = phaseIn(jobs', p)
      <4>1. jobs'[l] = jobs[l]
        BY <2>5, <2>9, <3>1
      <4> QED BY <1>1, <1>t, <3>1, <4>1, PhaseAlike
    <3>2. CASE \A l \in DOMAIN jobs : jobs[l].pgid # p
      <4>1. \A l \in DOMAIN jobs' : jobs'[l].pgid # p
        BY <1>1, <3>2
      <4> QED BY <3>2, <4>1 DEF phaseIn
    <3> QED BY <3>1, <3>2
  <2> HIDE DEF k, g, to
  <2>10. phases(jobs') = [phases(jobs) EXCEPT ![g] = to]
    BY <2>7, <2>8, <2>9 DEF phases
  <2>11. phases(jobs)[g] \in {"RUNNING", "STOPPED"}
    BY <2>6, <2>7, <2>8 DEF phases
  <2> QED BY <1>1, <1>t, <2>7, <2>10, <2>11
<1> QED BY <1>2, <1>3

(* What is dropped from the table has finished.                            *)
LEMMA ForgetPhases ==
  ASSUME OwnerInv, OwnerInv', Rearranged({FINISHED}, jobs, jobs')
  PROVE  \E S \in SUBSET Pids :
           /\ \A i \in S : phases(jobs)[i] = "FINISHED"
           /\ phases(jobs') = [i \in Pids |-> IF i \in S THEN "absent" ELSE phases(jobs)[i]]
           /\ \A i \in S : \A k \in DOMAIN jobs' : jobs'[k].pgid # i
           /\ \A i \in Pids : (/\ \E j \in DOMAIN jobs : jobs[j].pgid = i
                               /\ \A k \in DOMAIN jobs' : jobs'[k].pgid # i)
                              => i \in S
<1>t. /\ TypeOK /\ TypeOK' /\ Distinct(jobs) /\ Distinct(jobs)'
      /\ \A j \in DOMAIN jobs : jobs[j].state \in States
      /\ \A j \in DOMAIN jobs' : jobs'[j].state \in States
  <2>1. TypeOK /\ TypeOK' /\ Distinct(jobs) /\ Distinct(jobs)'
    BY DEF OwnerInv, FrontInv, SafetyInv, GroupInv, Grouping
  <2>2. \A j \in DOMAIN jobs' : jobs'[j] \in Job
    BY <2>1 DEF TypeOK, TableType
  <2> QED BY <2>1, <2>2, TheTable DEF Job
<1> DEFINE S == {p \in Pids : phaseIn(jobs, p) = "FINISHED" /\ phaseIn(jobs', p) = "absent"}
<1>1. \A p \in Pids : phaseIn(jobs', p) = IF p \in S THEN "absent" ELSE phaseIn(jobs, p)
  BY <1>t, DroppedPhases
<1>2. phases(jobs') = [i \in Pids |-> IF i \in S THEN "absent" ELSE phases(jobs)[i]]
  <2> HIDE DEF S
  <2> QED BY <1>1 DEF phases
<1>3. \A i \in S : phases(jobs)[i] = "FINISHED"
  BY DEF phases
<1>4. \A i \in S : \A k \in DOMAIN jobs' : jobs'[k].pgid # i
  BY <1>t, PhaseAbsent
<1>5. ASSUME NEW i \in Pids, \E j \in DOMAIN jobs : jobs[j].pgid = i,
             \A k \in DOMAIN jobs' : jobs'[k].pgid # i
      PROVE  i \in S
  <2>1. phaseIn(jobs', i) = "absent"
    BY <1>5, <1>t, PhaseAbsent
  <2>2. phaseIn(jobs, i) # "absent"
    BY <1>5, <1>t, PhaseAbsent
  <2> QED BY <1>1, <2>1, <2>2
<1>6. S \in SUBSET Pids
  OBVIOUS
<1>7. \A i \in Pids : (/\ \E j \in DOMAIN jobs : jobs[j].pgid = i
                      /\ \A k \in DOMAIN jobs' : jobs'[k].pgid # i)
                     => i \in S
  <2> HIDE DEF S
  <2> QED BY <1>5
<1> HIDE DEF S
<1> QED BY <1>2, <1>3, <1>4, <1>6, <1>7

-------------------------------------------------------------------------------
(* Every step of the shell is a step of JobLifecycle, or none.             *)

phaseMap == [p \in Pids |-> phaseOf(p)]

LEMMA PhaseMap == phaseMap = phases(jobs) /\ phaseMap' = phases(jobs')
<1>1. \A p \in Pids : phaseOf(p) = phaseIn(jobs, p)
  BY DEF phaseOf, phaseIn
<1>2. \A p \in Pids : (phaseOf(p))' = phaseIn(jobs', p)
  BY DEF phaseOf, phaseIn
<1> QED BY <1>1, <1>2 DEF phaseMap, phases

(* At the start there is no job.                                           *)
LEMMA LifeInitially == Init => Lifecycle!LifeInit
<1> SUFFICES ASSUME Init PROVE Lifecycle!LifeInit
  OBVIOUS
<1>1. DOMAIN jobs = {FG} /\ jobs[FG].pgid = NoPid
  BY DEF Init, FG, ZeroJob
<1>2. \A p \in Pids : phaseOf(p) = "absent"
  BY <1>1, PidAssumption DEF phaseOf
<1> QED BY <1>1, <1>2 DEF Lifecycle!LifeInit

(* There is a slot in front after a step, too.                             *)
LEMMA FrontAfter == ASSUME TypeOK' PROVE FG \in DOMAIN jobs'
<1>1. njobmax' \in Nat \ {0} /\ DOMAIN jobs' = 0 .. njobmax' - 1
  BY DEF TypeOK, TableType
<1>2. \A n \in Nat \ {0} : 0 \in 0 .. n - 1
  OBVIOUS
<1> QED BY <1>1, <1>2 DEF FG

(* A step that drops jobs which have finished, the one in front or not.    *)
LEMMA ForgetStep ==
  ASSUME OwnerInv, OwnerInv', Rearranged({FINISHED}, jobs, jobs'),
         \/ jobs'[FG].pgid = jobs[FG].pgid
         \/ /\ jobs[FG].pgid \in Pids /\ jobs'[FG].pgid = NoPid
            /\ \A k \in DOMAIN jobs' :
                 jobs'[k].pgid # NoPid => k \in DOMAIN jobs /\ jobs'[k].pgid = jobs[k].pgid
  PROVE  \E S \in SUBSET Pids : Lifecycle!Forget(S)
<1>t. /\ FG \in DOMAIN jobs /\ FG \in DOMAIN jobs' /\ Distinct(jobs)
  <2>1. TypeOK /\ TypeOK' /\ Distinct(jobs)
    BY DEF OwnerInv, FrontInv, SafetyInv, GroupInv, Grouping
  <2>2. FG \in DOMAIN jobs'
    BY <2>1, FrontAfter
  <2> QED BY <2>1, <2>2, TheTable
<1>1. PICK S \in SUBSET Pids :
        /\ \A i \in S : phases(jobs)[i] = "FINISHED"
        /\ phases(jobs') = [i \in Pids |-> IF i \in S THEN "absent" ELSE phases(jobs)[i]]
        /\ \A i \in S : \A k \in DOMAIN jobs' : jobs'[k].pgid # i
        /\ \A i \in Pids : (/\ \E j \in DOMAIN jobs : jobs[j].pgid = i
                            /\ \A k \in DOMAIN jobs' : jobs'[k].pgid # i)
                           => i \in S
  BY ForgetPhases
<1>2. jobs'[FG].pgid = IF jobs[FG].pgid \in S THEN NoPid ELSE jobs[FG].pgid
  <2>1. CASE jobs'[FG].pgid = jobs[FG].pgid
    BY <1>1, <1>t, <2>1
  <2>2. CASE /\ jobs[FG].pgid \in Pids /\ jobs'[FG].pgid = NoPid
             /\ \A k \in DOMAIN jobs' :
                  jobs'[k].pgid # NoPid => k \in DOMAIN jobs /\ jobs'[k].pgid = jobs[k].pgid
    <3>1. ASSUME NEW k \in DOMAIN jobs', jobs'[k].pgid = jobs[FG].pgid PROVE FALSE
      <4>1. k \in DOMAIN jobs /\ jobs[k].pgid = jobs[FG].pgid
        BY <2>2, <3>1, PidAssumption
      <4>2. k = FG
        BY <1>t, <2>2, <4>1, PidAssumption DEF Distinct
      <4> QED BY <2>2, <3>1, <4>2, PidAssumption
    <3>2. jobs[FG].pgid \in S
      BY <1>1, <1>t, <2>2, <3>1
    <3> QED BY <2>2, <3>2
  <2> QED BY <2>1, <2>2
<1>3. Lifecycle!Forget(S)
  BY <1>1, <1>2, PhaseMap DEF Lifecycle!Forget, phaseMap
<1> QED BY <1>1, <1>3

(* The step of monitorjob() that puts a job away finds it stopped.         *)
LEMMA PutAwayStep ==
  ASSUME OwnerInv, OwnerInv', FrontSettled, FinishStopped
  PROVE  Lifecycle!PutAway
<1>t. /\ TypeOK /\ FG \in DOMAIN jobs /\ Distinct(jobs) /\ tty # NoPid /\ FrontHeld
  <2>1. TypeOK /\ Distinct(jobs) /\ FrontHeld
    BY DEF OwnerInv, FrontInv, SafetyInv, GroupInv, Grouping
  <2> QED BY <2>1, TheTable, PidAssumption, ShellAssumption DEF TypeOK, KernelType
<1>1. jobs[FG].pgid \in Pids
  <2>1. jobs[FG].pgid # NoPid
    BY <1>t DEF FinishStopped, MainAt, FrontHeld, Monitoring
  <2> QED BY <1>t, <2>1, TheTable DEF Job
<1>2. jobs[FG].state = STOPPED
  BY DEF FinishStopped, MainAt, FrontSettled, Ending
<1>3. phases(jobs)[jobs[FG].pgid] = "STOPPED"
  <2>1. phaseIn(jobs, jobs[FG].pgid) = jobs[FG].state
    BY <1>1, <1>t, PhaseOfSlot, PidAssumption
  <2> QED BY <1>1, <1>2, <2>1 DEF phases, STOPPED
<1>4. phases(jobs') = phases(jobs) /\ jobs'[FG].pgid = NoPid
  BY <1>t, PutAwayTable, RearrangedPhases
<1> QED BY <1>1, <1>3, <1>4, PhaseMap, PidAssumption DEF Lifecycle!PutAway, phaseMap

(* `fg' brings a job that runs to the front, which is free.                *)
LEMMA BringStep ==
  ASSUME OwnerInv, OwnerInv', ResumeDone
  PROVE  \/ \E p \in Pids : Lifecycle!Bring(p)
         \/ phaseMap' = phaseMap /\ jobs'[FG].pgid = jobs[FG].pgid
<1>t. TypeOK /\ SlotInv(Idle) /\ Distinct(jobs)
  BY DEF OwnerInv, FrontInv, SafetyInv, GroupInv, Grouping
<1>1. phases(jobs') = phases(jobs)
  BY <1>t, ResumedTable, RearrangedPhases
<1>2. CASE jobs'[FG] = jobs[FG]
  BY <1>1, <1>2, PhaseMap
<1>3. CASE /\ jobs[FG].pgid = NoPid /\ job \in DOMAIN jobs /\ jobs[job].state = RUNNING
           /\ jobs[job].pgid # NoPid /\ Alike(jobs'[FG], jobs[job])
  <2>1. jobs[job].pgid \in Pids /\ jobs'[FG].pgid = jobs[job].pgid
    BY <1>3, <1>t, TheTable DEF Job, Alike, Same
  <2>2. phaseIn(jobs, jobs[job].pgid) = "RUNNING"
    BY <1>3, <1>t, PhaseOfSlot DEF RUNNING
  <2>3. phases(jobs)[jobs[job].pgid] = "RUNNING"
    BY <2>1, <2>2 DEF phases
  <2>4. Lifecycle!Bring(jobs[job].pgid)
    BY <1>1, <1>3, <2>1, <2>3, PhaseMap DEF Lifecycle!Bring, phaseMap
  <2> QED BY <2>1, <2>4
<1> QED BY <1>2, <1>3, <1>t, ResumedTable

(* The launch of a job.                                                    *)
LEMMA LaunchStep ==
  ASSUME OwnerInv, OwnerInv', AddJob
  PROVE  \E p \in Pids : Lifecycle!Start(p, TRUE) \/ Lifecycle!Start(p, FALSE)
<1>1. lead \in Pids /\ (Lifecycle!Start(lead, TRUE) \/ Lifecycle!Start(lead, FALSE))
  <2>1. CASE ~bg
    BY <2>1, StartPhases, PhaseMap DEF Lifecycle!Start, phaseMap
  <2>2. CASE bg
    BY <2>2, StartPhases, PhaseMap DEF Lifecycle!Start, phaseMap
  <2> QED BY <2>1, <2>2, StartPhases
<1> QED BY <1>1

(* The handler's change of a job.                                          *)
LEMMA ChangeStep ==
  ASSUME OwnerInv, OwnerInv', HandlerRecord
  PROVE  \/ \E p \in Pids, to \in Lifecycle!Phases : Lifecycle!Change(p, to)
         \/ phaseMap' = phaseMap /\ jobs'[FG].pgid = jobs[FG].pgid
<1>1. CASE jobs' = jobs
  BY <1>1, PhaseMap
<1>2. CASE \E g \in Pids, to \in States :
             /\ phases(jobs)[g] \in {"RUNNING", "STOPPED"}
             /\ phases(jobs') = [phases(jobs) EXCEPT ![g] = to]
  <2>1. PICK g \in Pids, to \in States :
          /\ phases(jobs)[g] \in {"RUNNING", "STOPPED"}
          /\ phases(jobs') = [phases(jobs) EXCEPT ![g] = to]
    BY <1>2
  <2>2. to \in Lifecycle!Phases \ {"absent"}
    BY DEF States, RUNNING, STOPPED, FINISHED, Lifecycle!Phases
  <2>3. Lifecycle!Change(g, to)
    BY <2>1, <2>2, RecordPhases, PhaseMap DEF Lifecycle!Change, phaseMap
  <2> QED BY <2>2, <2>3
<1> QED BY <1>1, <1>2, RecordPhases

(* Every step.                                                             *)
LEMMA LifeStep ==
  ASSUME OwnerInv, OwnerInv', FrontSettled, [Next]_vars
  PROVE  [Lifecycle!LifeNext]_<<phaseMap, jobs[FG].pgid>>
<1>t. TypeOK /\ Distinct(jobs) /\ FG \in DOMAIN jobs /\ FrontHeld /\ tty # NoPid
  <2>1. TypeOK /\ Distinct(jobs) /\ FrontHeld
    BY DEF OwnerInv, FrontInv, SafetyInv, GroupInv, Grouping
  <2> QED BY <2>1, TheTable, PidAssumption, ShellAssumption DEF TypeOK, KernelType
<1>1. CASE jobs' = jobs
  BY <1>1, PhaseMap
<1>2. CASE AddJob
  BY <1>2, LaunchStep DEF Lifecycle!LifeNext
<1>3. CASE AddProc
  BY <1>3, AddProcPhases, PhaseMap
<1>4. CASE HandlerRecord
  BY <1>4, ChangeStep DEF Lifecycle!LifeNext
<1>5. CASE HandlerReturn \/ DoJobs \/ LoopEnd \/ ShutdownEnd
  BY <1>5, <1>t, ReportedTable, ForgetStep DEF Lifecycle!LifeNext
<1>6. CASE ResumeDone
  BY <1>6, BringStep DEF Lifecycle!LifeNext
<1>7. CASE GiveTerminal
  <2>1. phases(jobs') = phases(jobs) /\ jobs'[FG].pgid = jobs[FG].pgid
    BY <1>7, <1>t, TerminalTable, RearrangedPhases DEF Alike, Same
  <2> QED BY <2>1, PhaseMap
<1>8. CASE FinishStopped
  BY <1>8, PutAwayStep DEF Lifecycle!LifeNext
<1>9. CASE FinishFinished
  <2>1. jobs[FG].pgid \in Pids
    <3>1. jobs[FG].pgid # NoPid
      BY <1>9, <1>t DEF FinishFinished, MainAt, FrontHeld, Monitoring
    <3> QED BY <1>t, <3>1, TheTable DEF Job
  <2>2. CASE jobs' = jobs
    BY <2>2, PhaseMap
  <2>3. CASE jobs' # jobs
    BY <1>9, <1>t, <2>1, <2>3, EndedTable, ForgetStep DEF Lifecycle!LifeNext
  <2> QED BY <2>2, <2>3
<1> QED BY <1>1, <1>2, <1>3, <1>4, <1>5, <1>6, <1>7, <1>8, <1>9, TableSteps

(* Jobs live as JobLifecycle says, whatever children, handler and main     *)
(* thread do and however many there are: no job starts twice, is let go of *)
(* before it has finished, or leaves the foreground while it runs, if no   *)
(* one but the shell continues or kills its processes.                     *)
THEOREM LifecycleImplemented ==
  ASSUME "cont" \notin Events, "kill" \notin Events
  PROVE  Spec => ImplementsLifecycle
<1>1. Init => Lifecycle!LifeInit
  BY LifeInitially
<1>2. Init => FrontSettled
  BY DEF Init, FrontSettled, Ending
<1>3. /\ NoLostNotification /\ OwnerInv /\ OwnerInv' /\ FrontSettled /\ [Next]_vars
      => FrontSettled'
  BY FrontSettledStep
<1>4. /\ OwnerInv /\ OwnerInv' /\ FrontSettled /\ [Next]_vars
      => [Lifecycle!LifeNext]_<<phaseMap, jobs[FG].pgid>>
  BY LifeStep
<1>5. Spec => []OwnerInv
  BY OwnerKept
<1>6. Spec => []NoLostNotification
  BY NotificationsKept
<1> QED BY <1>1, <1>2, <1>3, <1>4, <1>5, <1>6, PTL
        DEF Spec, ImplementsLifecycle, Lifecycle!LifeSpec, phaseMap

===============================================================================
