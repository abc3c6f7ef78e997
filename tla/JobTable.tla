------------------------------- MODULE JobTable -------------------------------
(***************************************************************************)
(* The job table of jobs.c: a job is a slot of the array `jobs', a process *)
(* is an entry of the slot's array `proc'.  The operators of this module   *)
(* are the functions of jobs.c that read or change the table and call      *)
(* nothing else; JobControl composes them with the shell's threads of      *)
(* control, the kernel and the terminal.                                   *)
(*                                                                         *)
(* Left out are the text of a command (`command'), on which nothing but    *)
(* messages depends, and the terminal attributes of a job (`tmodes'),      *)
(* which are saved and never read.  A wait status is its kind only: the    *)
(* code treats an exit and a death by a signal alike but for the message.  *)
(* -1 is NoStatus.                                                         *)
(***************************************************************************)
EXTENDS Integers, Sequences

CONSTANTS
  Pids,    (* the process identifiers that fork() may return *)
  NoPid    (* the pgid 0 of a free slot *)

ASSUME PidAssumption == NoPid \notin Pids

FG == 0    (* slot of the foreground job            *)
BG == 1    (* first slot of the jobs in background  *)

ALL      == "all"
RUNNING  == "RUNNING"
STOPPED  == "STOPPED"
FINISHED == "FINISHED"
States   == {RUNNING, STOPPED, FINISHED}

NoStatus   == "-1"
Exited     == "exited"      (* WIFEXITED or WIFSIGNALED *)
Stopped    == "stopped"     (* WIFSTOPPED               *)
Continued  == "continued"   (* WIFCONTINUED             *)
Status     == {Exited, Stopped, Continued}

(* Terminal attributes are told apart only by who set them: the shell, a   *)
(* program in the foreground, or only programs behind it.                  *)
Modes == {"shell", "app", "behind"}

Proc == [pid : Pids, state : States, exitcode : Status \cup {NoStatus}]
Job  == [pgid : Pids \cup {NoPid}, state : States, proc : Seq(Proc)]

(* A slot after calloc() or memset(..., 0, ...): the state 0 is FINISHED. *)
ZeroJob == [pgid |-> NoPid, state |-> FINISHED, proc |-> << >>]

-------------------------------------------------------------------------------
(* Queries. *)

procStates(proc) == {proc[i].state : i \in DOMAIN proc}

(* mutant: a job with a stopped process counts as stopped *)
job_state_stopped_first(proc) ==
  IF STOPPED \in procStates(proc) THEN STOPPED
  ELSE IF RUNNING \in procStates(proc) THEN RUNNING ELSE FINISHED

job_state(proc) ==
  IF RUNNING \in procStates(proc) THEN RUNNING
  ELSE IF STOPPED \in procStates(proc) THEN STOPPED ELSE FINISHED

exitcode(job) == job.proc[Len(job.proc)].exitcode

(* The entries with a given pid, as pairs of a slot and an index into its   *)
(* processes.  The handler looks at occupied slots only and stops at the   *)
(* first match, in the order of the table.                                 *)
entriesOf(jobs, pid) ==
  {e \in UNION {{j} \X DOMAIN jobs[j].proc : j \in DOMAIN jobs} :
     jobs[e[1]].pgid # NoPid /\ jobs[e[1]].proc[e[2]].pid = pid}

firstEntry(jobs, pid) ==
  CHOOSE e \in entriesOf(jobs, pid) :
    \A f \in entriesOf(jobs, pid) :
      e[1] < f[1] \/ (e[1] = f[1] /\ e[2] <= f[2])

(* mutant: the search for a free slot accepts the last used one *)
freeSlots_off_by_one(jobs, njobmax) ==
  {j \in BG .. njobmax - 1 : jobs[j].pgid = NoPid \/ j = njobmax - 1}

freeSlots(jobs, njobmax) == {j \in BG .. njobmax - 1 : jobs[j].pgid = NoPid}

(* The slot allocjob() returns: the first free one, else a new last one.   *)
allocjob(jobs, njobmax) ==
  LET free == freeSlots(jobs, njobmax)
  IN  IF free = {} THEN njobmax ELSE CHOOSE j \in free : \A k \in free : j <= k

-------------------------------------------------------------------------------
(* Changes. *)

(* The table after allocjob() returned j: realloc() adds a zeroed slot.    *)
grown(jobs, j) ==
  [k \in DOMAIN jobs \cup {j} |-> IF k \in DOMAIN jobs THEN jobs[k] ELSE ZeroJob]

newJob(pgid) == [pgid |-> pgid, state |-> RUNNING, proc |-> << >>]

newProc(pid) == [pid |-> pid, state |-> RUNNING, exitcode |-> NoStatus]

(* mutant: the process array is kept when a slot is freed *)
deljob_keeps_proc(job) == [job EXCEPT !.pgid = NoPid]

deljob(job) == [job EXCEPT !.pgid = NoPid, !.proc = << >>]

movejob(jobs, from, to) == [jobs EXCEPT ![to] = jobs[from], ![from] = ZeroJob]

(* mutant: a continued process stays STOPPED in the table *)
stateAfter_forgets_continue(status) ==
  CASE status = Exited    -> FINISHED
    [] status = Stopped   -> STOPPED
    [] status = Continued -> STOPPED

(* The state the handler derives from a wait status. *)
stateAfter(status) ==
  CASE status = Exited    -> FINISHED
    [] status = Stopped   -> STOPPED
    [] status = Continued -> RUNNING

(* The body of the handler's loop: a status of pid is entered in the table *)
(* and the state of the job that owns pid computed again.                  *)
recorded(job, i, status) ==
  LET proc == [job.proc EXCEPT ![i].state = stateAfter(status), ![i].exitcode = status]
  IN  [job EXCEPT !.proc = proc, !.state = job_state(proc)]

record(jobs, pid, status) ==
  IF entriesOf(jobs, pid) = {} THEN jobs
  ELSE LET e == firstEntry(jobs, pid)
       IN  [jobs EXCEPT ![e[1]] = recorded(@, e[2], status)]

-------------------------------------------------------------------------------
(* watchjobs(which): report the jobs in background that are in a state.    *)

watched(job, which) == job.pgid # NoPid /\ which \in {ALL, job.state}

(* mutant: the status of the first process is cleared *)
clearStatus_first(job) == [job EXCEPT !.proc[1].exitcode = NoStatus]

clearStatus(job) == [job EXCEPT !.proc[Len(job.proc)].exitcode = NoStatus]

(* mutant: a job that ended is reported and stays in the table *)
watchjob_keeps(job, which) ==
  CASE watched(job, which) /\ job.state = RUNNING /\ exitcode(job) # Continued
         -> clearStatus(job)
    [] watched(job, which) /\ job.state = STOPPED /\ exitcode(job) # NoStatus
         -> clearStatus(job)
    [] OTHER -> job

watchjob(job, which) ==
  CASE watched(job, which) /\ job.state = RUNNING /\ exitcode(job) # Continued
         -> clearStatus(job)
    [] watched(job, which) /\ job.state = STOPPED /\ exitcode(job) # NoStatus
         -> clearStatus(job)
    [] watched(job, which) /\ job.state = FINISHED -> deljob(job)
    [] OTHER -> job

(* mutant: the loop starts with the slot FG *)
watchjobs_from_fg(jobs, which) ==
  [j \in DOMAIN jobs |-> watchjob(jobs[j], which)]

(* mutant: the loop starts behind the slot BG *)
watchjobs_after_bg(jobs, which) ==
  [j \in DOMAIN jobs |-> IF j > BG THEN watchjob(jobs[j], which) ELSE jobs[j]]

watchjobs(jobs, which) ==
  [j \in DOMAIN jobs |-> IF j >= BG THEN watchjob(jobs[j], which) ELSE jobs[j]]

(* A job that is reported has a last process: exitcode() reads beyond the  *)
(* array of a job that got a slot but no process yet.                      *)
watchable(jobs, which) ==
  \A j \in DOMAIN jobs : j >= BG /\ watched(jobs[j], which) => jobs[j].proc # << >>

===============================================================================
