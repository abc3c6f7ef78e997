------------------------------- MODULE WatchJobs -------------------------------
(***************************************************************************)
(* JobControl at a finer grain, where the coarse steps of that module hide *)
(* something:                                                              *)
(*  - watchjobs() called from main() and from `jobs' runs with SIGCHLD     *)
(*    open, so that the handler, which calls watchjobs() itself, gets in   *)
(*    between any two of its accesses to the table;                        *)
(*  - the end of monitorjob() gives the terminal back to the shell before  *)
(*    the job leaves the slot FG, so that Ctrl-C gets in between.          *)
(* The messages about jobs that ended are counted (`reports').             *)
(***************************************************************************)
EXTENDS JobControl

CONSTANT MaxInterrupts   (* bound: how often the user types Ctrl-C *)

ASSUME InterruptsAssumption == MaxInterrupts \in Nat

VARIABLES
  which,      (* argument of watchjobs()                                   *)
  at,         (* the access it makes next                                  *)
  j,          (* its loop variable and its locals: the pgid it has seen,   *)
  pgid,       (* `state' and `statusp'                                     *)
  wstate,
  statusp,
  reports,    (* messages "exited" or "killed", by the pgid of the job     *)
  interrupts  (* Ctrl-C's so far                                           *)

locals   == <<which, at, j, pgid, wstate, statusp>>
fineVars == <<vars, locals, reports, interrupts>>

noLocals ==
  /\ which' = FINISHED /\ at' = "pgid" /\ j' = BG
  /\ pgid' = NoPid /\ wstate' = FINISHED /\ statusp' = NoStatus

WatchType ==
  /\ TypeOK
  /\ which \in {ALL, FINISHED}
  /\ at \in {"pgid", "state", "statusp", "msg", "clear", "delete"}
  /\ j \in BG .. njobmax
  /\ at # "pgid" => j < njobmax
  /\ pgid \in Pids \cup {NoPid}
  /\ wstate \in States
  /\ statusp \in Status \cup {NoStatus}
  /\ reports \in [Pids -> Nat]
  /\ interrupts \in 0 .. MaxInterrupts

FineInit ==
  /\ Init
  /\ which = FINISHED /\ at = "pgid" /\ j = BG
  /\ pgid = NoPid /\ wstate = FINISHED /\ statusp = NoStatus
  /\ reports = [p \in Pids |-> 0]
  /\ interrupts = 0

-------------------------------------------------------------------------------
(* watchjobs(), access by access. *)

UnchangedRest ==
  /\ UNCHANGED <<njobmax, blocked, command, handler, interrupts>>
  /\ UnchangedKernel

Watching(access) == MainAt("watch") /\ at = access

(* main() calls watchjobs(FINISHED), do_jobs() calls watchjobs(ALL). *)
WatchStart ==
  /\ \/ MainAt("loopend") /\ which' = FINISHED
     \/ MainAt("readline") /\ which' = ALL
  /\ Goto("watch")
  /\ UNCHANGED <<jobs, at, j, pgid, wstate, statusp, reports>>
  /\ UnchangedRest

(* The end of the loop. *)
WatchEnd ==
  /\ Watching("pgid")
  /\ j = njobmax
  /\ Goto(IF which = ALL THEN "loopend" ELSE "readline")
  /\ noLocals
  /\ UNCHANGED <<jobs, reports>>
  /\ UnchangedRest

(* mutant: the loop skips a slot *)
nextSlot_skips ==
  /\ j' = j + 2 /\ at' = "pgid"
  /\ pgid' = NoPid /\ wstate' = FINISHED /\ statusp' = NoStatus

nextSlot ==
  /\ j' = j + 1 /\ at' = "pgid"
  /\ pgid' = NoPid /\ wstate' = FINISHED /\ statusp' = NoStatus

(* if (jobs[j].pgid == 0) continue; *)
WatchPgid ==
  /\ Watching("pgid")
  /\ j < njobmax
  /\ IF jobs[j].pgid = NoPid
     THEN nextSlot
     ELSE at' = "state" /\ pgid' = jobs[j].pgid /\ UNCHANGED <<j, wstate, statusp>>
  /\ UNCHANGED <<jobs, pc, which, reports>>
  /\ UnchangedRest

(* state = jobs[j].state; if (state == which || which == ALL) *)
WatchState ==
  /\ Watching("state")
  /\ IF which \in {ALL, jobs[j].state}
     THEN at' = "statusp" /\ wstate' = jobs[j].state /\ UNCHANGED <<j, pgid, statusp>>
     ELSE nextSlot
  /\ UNCHANGED <<jobs, pc, which, reports>>
  /\ UnchangedRest

(* statusp = exitcode(&jobs[j]): the last element of an array that is gone *)
(* if the handler has freed the slot.                                      *)
WatchStatus ==
  /\ Watching("statusp")
  /\ IF jobs[j].proc = << >>
     THEN Goto("crashed") /\ UNCHANGED <<at, statusp>>
     ELSE statusp' = exitcode(jobs[j]) /\ at' = "msg" /\ UNCHANGED pc
  /\ UNCHANGED <<jobs, which, j, pgid, wstate, reports>>
  /\ UnchangedRest

(* What comes after the message: the next slot, the status of the last      *)
(* process is cleared, or the job is deleted.                              *)
afterMsg(s, code) ==
  CASE s = RUNNING /\ code # Continued -> "clear"
    [] s = STOPPED /\ code # NoStatus  -> "clear"
    [] s = FINISHED                    -> "delete"
    [] OTHER                           -> "next"

WatchMsg ==
  /\ Watching("msg")
  /\ LET to == afterMsg(wstate, statusp)
     IN  IF to = "next" THEN nextSlot ELSE at' = to /\ UNCHANGED <<j, pgid, wstate, statusp>>
  /\ reports' = IF wstate = FINISHED /\ statusp = Exited
                THEN [reports EXCEPT ![pgid] = @ + 1] ELSE reports
  /\ UNCHANGED <<jobs, pc, which>>
  /\ UnchangedRest

(* jobs[j].proc[jobs[j].nproc - 1].exitcode = -1 *)
WatchClear ==
  /\ Watching("clear")
  /\ IF jobs[j].proc = << >>
     THEN Goto("crashed") /\ UNCHANGED <<jobs, at, j, pgid, wstate, statusp>>
     ELSE jobs' = [jobs EXCEPT ![j] = clearStatus(@)] /\ nextSlot /\ UNCHANGED pc
  /\ UNCHANGED <<which, reports>>
  /\ UnchangedRest

(* deljob(&jobs[j]) with its assertion *)
WatchDelete ==
  /\ Watching("delete")
  /\ IF jobs[j].state = FINISHED
     THEN jobs' = [jobs EXCEPT ![j] = deljob(@)] /\ nextSlot /\ UNCHANGED pc
     ELSE Goto("aborted") /\ UNCHANGED <<jobs, at, j, pgid, wstate, statusp>>
  /\ UNCHANGED <<which, reports>>
  /\ UnchangedRest

WatchStep ==
  \/ WatchStart \/ WatchEnd \/ WatchPgid \/ WatchState
  \/ WatchStatus \/ WatchMsg \/ WatchClear \/ WatchDelete

(* A call of watchjobs() that nothing interrupts reports these jobs. *)
announced(t) ==
  {t[k].pgid : k \in {i \in DOMAIN t : i >= BG /\ watched(t[i], FINISHED)
                                        /\ exitcode(t[i]) = Exited}}

Announce(t) == reports' = [p \in Pids |-> reports[p] + IF p \in announced(t) THEN 1 ELSE 0]

-------------------------------------------------------------------------------
(* The end of monitorjob(), call by call. *)

(* Tcsetpgrp(tty_fd, getpgrp()); Tcsetattr(tty_fd, 0, &shell_tmodes) *)
TakeTerminal ==
  /\ MainAt("finish")
  /\ state \in {STOPPED, FINISHED}
  /\ tty' = Shell
  /\ modes' = shellModes
  /\ Goto(IF state = STOPPED THEN "allocjob" ELSE "deljob")
  /\ UNCHANGED <<table, blocked, command, handler, procs>>

(* mutant: the slot looks like that of a running job *)
reserved_running(slot) == [slot EXCEPT !.state = RUNNING]

(* What monitorjob() writes into the slot it moves the job to.             *)
reserved(slot) == [slot EXCEPT !.state = STOPPED]

(* int j = allocjob(); jobs[j].state = STOPPED *)
AllocStopped ==
  /\ MainAt("allocjob")
  /\ LET k == allocjob(jobs, njobmax)
     IN  /\ jobs' = [grown(jobs, k) EXCEPT ![k] = reserved(@)]
         /\ njobmax' = IF k = njobmax THEN njobmax + 1 ELSE njobmax
         /\ job' = k
  /\ Goto("movejob")
  /\ UNCHANGED <<blocked, todo, bg, lead, newpid, state, handler>>
  /\ UnchangedKernel

(* movejob(FG, j); watchjobs(STOPPED) *)
MoveStopped ==
  /\ MainAt("movejob")
  /\ IF jobs[job].pgid = NoPid
     THEN WatchThen(movejob(jobs, FG, job), STOPPED, "unmask")
     ELSE jobs' = jobs /\ Goto("aborted")
  /\ state' = FINISHED
  /\ job' = FG
  /\ UNCHANGED <<njobmax, blocked, todo, bg, lead, newpid, handler>>
  /\ UnchangedKernel

(* watchjobs(FINISHED); deljob(&jobs[FG]) *)
DeleteForeground ==
  /\ MainAt("deljob")
  /\ IF jobs[FG].state = FINISHED
     THEN WatchThen([jobs EXCEPT ![FG] = deljob(@)], FINISHED, "unmask")
     ELSE jobs' = jobs /\ Goto("aborted")
  /\ UNCHANGED <<njobmax, blocked, command, handler>>
  /\ UnchangedKernel

-------------------------------------------------------------------------------

Interrupt ==
  /\ interrupts < MaxInterrupts
  /\ CtrlC
  /\ interrupts' = interrupts + 1
  /\ noLocals
  /\ UNCHANGED reports

(* The steps of JobControl that stay as they are: those that report jobs   *)
(* that ended, and the others.                                             *)
Reporting ==
  /\ HandlerReturn \/ ShutdownEnd \/ DeleteForeground
  /\ Announce(jobs)
  /\ UNCHANGED <<locals, interrupts>>

Typed ==
  \/ \E n \in 1 .. MaxStages, inBg \in BOOLEAN : Launch(n, inBg)
  \/ \E arg \in -1 .. njobmax, inBg \in BOOLEAN : DoResume(arg, inBg)
  \/ \E k \in 0 .. njobmax : DoKill(k)
  \/ DoHistory \/ DoQuit
  \/ Wait("readline", "loopend")

Silent ==
  /\ \/ Typed
     \/ Fork \/ AddJob \/ AddProc \/ Unmask
     \/ ResumeCont \/ ResumeDone \/ Kill \/ ShutdownJob
     \/ GiveTerminal \/ WhileStopped \/ ContForeground \/ SleepStopped
     \/ WhileRunning \/ SleepRunning \/ Reread \/ Remask
     \/ FinishRunning \/ TakeTerminal \/ AllocStopped \/ MoveStopped
     \/ HandlerEnter \/ (\E p \in Pids : HandlerWaitpid(p))
     \/ HandlerRecord \/ HandlerWaitpidNone
     \/ Children
  /\ UNCHANGED <<locals, reports, interrupts>>

FineNext == WatchStep \/ Reporting \/ Silent \/ Interrupt

FineSpec == FineInit /\ [][FineNext]_fineVars

-------------------------------------------------------------------------------
(* Properties. *)

(* The end of a job in background is announced when all its processes have  *)
(* ended, and once: the slot is freed by whoever announces it, before the  *)
(* other of main loop and handler looks at it (watchjobs).  Ctrl-C, which  *)
(* leaves the handler or watchjobs() half way, can spoil this; so can      *)
(* whoever else continues or kills a stopped child: monitorjob() may then  *)
(* put a job into the background that has ended by now, for the main loop  *)
(* and the handler to announce.                                            *)
ReportedOnce ==
  interrupts = 0 =>
    \A p \in Pids : reports[p] > 0 =>
      reports[p] = 1 /\ members(p) = {} /\ life[p] = "gone"

(* Whatever Ctrl-C leaves half done, a free slot has no processes and does *)
(* not look RUNNING: `bg' and `fg' never report it as a running job, and   *)
(* the next job that takes it starts without processes (movejob, deljob).  *)
(* It may look STOPPED: between allocjob() and movejob().                  *)
FreeSlotIdle ==
  \A k \in DOMAIN jobs :
    jobs[k].pgid = NoPid => jobs[k].state # RUNNING /\ jobs[k].proc = << >>

(* jobs.c, exitcode: "When pipeline is done, its exitcode is fetched from  *)
(* the last process."  The job that watchjobs() reports has one.           *)
LastProcessExists == pc = "watch" /\ at = "statusp" => jobs[j].proc # << >>

===============================================================================
