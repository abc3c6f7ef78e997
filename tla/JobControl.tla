------------------------------ MODULE JobControl ------------------------------
(***************************************************************************)
(* Job control of the shell: the main thread (shell.c, command.c, jobs.c)  *)
(* that launches, resumes, kills and waits for jobs; the SIGCHLD handler   *)
(* that interrupts it; the children; and what the kernel and the terminal  *)
(* do for them (signals, wait statuses, process groups, foreground group). *)
(*                                                                         *)
(* The main thread is cut wherever something else can get in between:      *)
(*  - the handler, at every point where SIGCHLD is not blocked;            *)
(*  - a step of a child, between two calls of a critical section.          *)
(* Two things are coarser than the code: a call of watchjobs() is one step *)
(* and so is the end of monitorjob().  WatchJobs cuts them, too, and adds  *)
(* Ctrl-C, which leaves anything half done.                                *)
(***************************************************************************)
EXTENDS JobTable, FiniteSets

CONSTANTS
  Shell,      (* the process group of the shell                           *)
  MaxStages,  (* bound: the longest pipeline a user types                 *)
  Events      (* what may happen to children and terminal, see below      *)

(* "stop": a child stops (Ctrl-Z, SIGSTOP, terminal access in background);  *)
(* "cont", "kill": somebody sends SIGCONT to a child, SIGKILL to a stopped *)
(* one; "modes": a program changes the terminal attributes.                *)
AllEvents == {"stop", "cont", "kill", "modes"}

ASSUME ShellAssumption  == Shell \notin Pids \cup {NoPid}
ASSUME StagesAssumption == MaxStages \in Nat \ {0}
ASSUME EventsAssumption == Events \subseteq AllEvents

VARIABLES
  (* the job table *)
  jobs,      (* slots 0 .. njobmax - 1 *)
  njobmax,
  (* the main thread *)
  pc,        (* where it is, named after the call it makes next           *)
  blocked,   (* SIGCHLD is in its signal mask                             *)
  todo,      (* stages of the pipeline still to be forked                 *)
  bg,        (* argument of do_job(), do_pipeline(), resumejob()          *)
  lead,      (* pgid of do_pipeline(): the first child                    *)
  newpid,    (* child that was forked last and is not in the table yet    *)
  job,       (* slot that addjob(), resumejob(), shutdownjobs() work on   *)
  state,     (* local variable of monitorjob()                            *)
  (* the handler *)
  hpc,       (* "idle" when it is not running                             *)
  hpid,      (* result of waitpid()                                       *)
  hstatus,
  (* the kernel *)
  life,      (* life cycle of every process identifier                    *)
  group,     (* process group                                             *)
  pgarg,     (* pgid that a new child is going to pass to setpgid()       *)
  event,     (* status change waitpid() has not reported yet              *)
  term,      (* processes with a pending SIGTERM                          *)
  sigchld,   (* SIGCHLD is pending for the shell                          *)
  tty,       (* foreground process group of the terminal                  *)
  modes      (* attributes of the terminal                                *)

table   == <<jobs, njobmax>>
command == <<todo, bg, lead, newpid, job, state>>
handler == <<hpc, hpid, hstatus>>
procs   == <<life, group, pgarg, event, term, sigchld>>
termio  == <<tty, modes>>
vars    == <<table, pc, blocked, command, handler, procs, termio>>

-------------------------------------------------------------------------------
(* Where the main thread can be.  "Asleep" is inside sigsuspend().  The    *)
(* places "watch", "allocjob", "movejob" and "deljob" are inside of steps  *)
(* of this module; WatchJobs stops there.                                  *)

Terminal == {"exited", "died", "aborted", "crashed"}
Asleep   == {"asleep stopped", "asleep running", "asleep resume", "asleep shutdown"}
Critical == {"fork", "addjob", "addproc", "tcsetpgrp", "resume", "kill", "shutdown",
             "finish", "unmask", "asleep resume", "asleep shutdown",
             "allocjob", "movejob", "deljob"}
Open     == {"readline", "loopend", "while stopped", "kill cont", "before sleep stopped",
             "asleep stopped", "while running", "before sleep running",
             "asleep running", "reread", "remask", "watch"}
Lives    == {"none", "forked", "running", "stopped", "zombie", "gone", "clone"}

TableType ==
  /\ njobmax \in Nat \ {0}
  /\ jobs \in [0 .. njobmax - 1 -> Job]

MainType ==
  /\ pc \in Critical \cup Open \cup Terminal
  /\ todo \in 0 .. MaxStages
  /\ lead \in Pids \cup {NoPid}
  /\ newpid \in Pids \cup {NoPid}
  /\ job \in Nat
  /\ state \in States
  /\ pc = "fork" => todo > 0
  /\ pc \in {"addjob", "addproc"} => newpid \in Pids
  /\ pc \notin {"shutdown", "asleep shutdown"} \cup Terminal => job < njobmax

HandlerType ==
  /\ hpc \in {"idle", "waitpid", "record", "watchjobs"}
  /\ hpid \in Pids \cup {NoPid}
  /\ hstatus \in Status \cup {NoStatus}
  /\ hpc = "record" => hpid \in Pids /\ hstatus \in Status

KernelType ==
  /\ life \in [Pids -> Lives]
  /\ group \in [Pids -> Pids \cup {Shell}]
  /\ pgarg \in [Pids -> Pids \cup {NoPid, Shell}]
  /\ event \in [Pids -> Status \cup {NoStatus}]
  /\ term \subseteq Pids
  /\ tty \in Pids \cup {Shell}
  /\ modes \in Modes

FlagType == blocked \in BOOLEAN /\ bg \in BOOLEAN /\ sigchld \in BOOLEAN

TypeOK == TableType /\ FlagType /\ MainType /\ HandlerType /\ KernelType

(* main(): initjobs() has run and the first prompt is shown.               *)
Init ==
  /\ jobs = [j \in 0 .. 0 |-> ZeroJob]
  /\ njobmax = 1
  /\ pc = "readline"
  /\ blocked = FALSE
  /\ todo = 0
  /\ bg = FALSE
  /\ lead = NoPid
  /\ newpid = NoPid
  /\ job = FG
  /\ state = FINISHED
  /\ hpc = "idle"
  /\ hpid = NoPid
  /\ hstatus = NoStatus
  /\ life = [p \in Pids |-> "none"]
  /\ group = [p \in Pids |-> Shell]
  /\ pgarg = [p \in Pids |-> NoPid]
  /\ event = [p \in Pids |-> NoStatus]
  /\ term = {}
  /\ sigchld = FALSE
  /\ tty = Shell
  /\ modes = "shell"

-------------------------------------------------------------------------------
(* The kernel as the shell's calls see it. *)

exists(p)  == life[p] \in {"forked", "running", "stopped", "zombie", "clone"}
members(g) == {p \in Pids : exists(p) /\ group[p] = g}
unused     == {p \in Pids : life[p] = "none"}

(* kill(-pgid, ...) fails with ESRCH if the group is empty; -0 is the      *)
(* shell's own group.                                                      *)
groupOf(pgid) == IF pgid = NoPid THEN Shell ELSE pgid
canKill(pgid) == pgid = NoPid \/ members(pgid) # {}

(* tcsetpgrp(): Linux takes the id of a process or of a group that exists. *)
canOwnTty(pgid) == \E p \in Pids : exists(p) /\ (p = pgid \/ group[p] = pgid)

(* A process in a new state of life: waitpid() will report the latest one, *)
(* and the shell gets SIGCHLD.                                             *)
Change(p, to, status) ==
  /\ life' = [life EXCEPT ![p] = to]
  /\ event' = [event EXCEPT ![p] = status]
  /\ sigchld' = TRUE

(* SIGCONT to a set of processes. *)
Continue(S) ==
  LET woken == {p \in S : life[p] = "stopped"}
  IN  /\ life' = [p \in Pids |-> IF p \in woken THEN "running" ELSE life[p]]
      /\ event' = [p \in Pids |-> IF p \in woken THEN Continued ELSE event[p]]
      /\ sigchld' = (sigchld \/ woken # {})

-------------------------------------------------------------------------------
(* Children. *)

(* The start of a child: do_job() and do_stage() call setpgid() in the     *)
(* child only; it fails, and the child exits, if the group of the pipeline *)
(* does not exist yet.  A child of do_history() stays in the shell's group. *)
ChildStart(p) ==
  /\ life[p] = "forked"
  /\ LET to == IF pgarg[p] = NoPid THEN p ELSE pgarg[p]
     IN  \/ /\ to \in {p, Shell} \/ members(to) # {}
            /\ group' = [group EXCEPT ![p] = to]
            /\ life' = [life EXCEPT ![p] = "running"]
            /\ UNCHANGED <<event, sigchld>>
         \/ /\ to \notin {p, Shell} /\ members(to) = {}
            /\ Change(p, "zombie", Exited)
            /\ UNCHANGED group
  /\ pgarg' = [pgarg EXCEPT ![p] = NoPid]
  /\ UNCHANGED <<table, pc, blocked, command, handler, term, termio>>

(* A child ends by itself or by a signal. *)
Exit(p) ==
  /\ life[p] = "running"
  /\ Change(p, "zombie", Exited)
  /\ term' = term \ {p}
  /\ UNCHANGED <<table, pc, blocked, command, handler, group, pgarg, termio>>

Stop(p) ==
  /\ "stop" \in Events
  /\ life[p] = "running" /\ p \notin term
  /\ Change(p, "stopped", Stopped)
  /\ UNCHANGED <<table, pc, blocked, command, handler, group, pgarg, term, termio>>

(* SIGCONT that the shell did not send. *)
OtherCont(p) ==
  /\ "cont" \in Events
  /\ life[p] = "stopped"
  /\ Change(p, "running", Continued)
  /\ UNCHANGED <<table, pc, blocked, command, handler, group, pgarg, term, termio>>

(* SIGKILL to a stopped process. *)
OtherKill(p) ==
  /\ "kill" \in Events
  /\ life[p] = "stopped"
  /\ Change(p, "zombie", Exited)
  /\ term' = term \ {p}
  /\ UNCHANGED <<table, pc, blocked, command, handler, group, pgarg, termio>>

(* A program changes the attributes of the terminal.  SIGTTOU would stop   *)
(* one in the background, but a program may ignore it, and the stages of a *)
(* pipeline do: do_stage(), unlike do_job(), does not undo what the shell  *)
(* has set.  What a program in the foreground set is not undone by others. *)
SetModes(p) ==
  /\ "modes" \in Events
  /\ life[p] = "running" /\ group[p] # Shell
  /\ modes' = IF group[p] = tty \/ modes = "app" THEN "app" ELSE "behind"
  /\ UNCHANGED <<table, pc, blocked, command, handler, procs, tty>>

ChildStep(p) ==
  \/ ChildStart(p) \/ Exit(p) \/ Stop(p)
  \/ OtherCont(p) \/ OtherKill(p) \/ SetModes(p)

-------------------------------------------------------------------------------
(* The SIGCHLD handler.  SIGCHLD is masked while it runs. *)

sleeping == pc \in Asleep

(* mutant: the handler may interrupt a critical section *)
deliverable_always == sigchld /\ hpc = "idle" /\ pc \notin Terminal

deliverable == sigchld /\ hpc = "idle" /\ pc \notin Terminal /\ (~blocked \/ sleeping)

HandlerEnter ==
  /\ deliverable
  /\ sigchld' = FALSE
  /\ hpc' = "waitpid"
  /\ UNCHANGED <<table, pc, blocked, command, hpid, hstatus, life, group, pgarg,
                 event, term, termio>>

(* waitpid(-1, &status, WNOHANG | WUNTRACED | WCONTINUED) > 0 *)
HandlerWaitpid(p) ==
  /\ hpc = "waitpid"
  /\ event[p] # NoStatus
  /\ hpid' = p
  /\ hstatus' = event[p]
  /\ hpc' = "record"
  /\ event' = [event EXCEPT ![p] = NoStatus]
  /\ life' = [life EXCEPT ![p] = IF event[p] = Exited THEN "gone" ELSE @]
  /\ group' = [group EXCEPT ![p] = IF event[p] = Exited THEN Shell ELSE @]
  /\ UNCHANGED <<table, pc, blocked, command, pgarg, term, sigchld, termio>>

(* mutant: the handler reaps one child per signal *)
afterRecord_once == "watchjobs"

(* The handler asks for more children until there is none. *)
afterRecord == "waitpid"

HandlerRecord ==
  /\ hpc = "record"
  /\ jobs' = record(jobs, hpid, hstatus)
  /\ hpc' = afterRecord
  /\ hpid' = NoPid
  /\ hstatus' = NoStatus
  /\ UNCHANGED <<njobmax, pc, blocked, command, procs, termio>>

HandlerWaitpidNone ==
  /\ hpc = "waitpid"
  /\ \A p \in Pids : event[p] = NoStatus
  /\ hpc' = "watchjobs"
  /\ UNCHANGED <<table, pc, blocked, command, hpid, hstatus, procs, termio>>

(* Where sigsuspend() returns to. *)
awake(at) ==
  CASE at = "asleep stopped"  -> "while stopped"
    [] at = "asleep running"  -> "while running"
    [] at = "asleep resume"   -> "resume"
    [] at = "asleep shutdown" -> "shutdown"
    [] OTHER -> at

HandlerReturn ==
  /\ hpc = "watchjobs"
  /\ jobs' = watchjobs(jobs, FINISHED)
  /\ hpc' = "idle"
  /\ pc' = awake(pc)
  /\ UNCHANGED <<njobmax, blocked, command, hpid, hstatus, procs, termio>>

HandlerStep ==
  \/ HandlerEnter
  \/ \E p \in Pids : HandlerWaitpid(p)
  \/ HandlerRecord
  \/ HandlerWaitpidNone
  \/ HandlerReturn

-------------------------------------------------------------------------------
(* The main thread.  It stands still while the handler runs, and a signal  *)
(* that is pending and not blocked is handled before it goes on: at the    *)
(* latest when a system call returns.                                      *)

MainAt(at) == pc = at /\ hpc = "idle" /\ ~deliverable
Goto(at)   == pc' = at

UnchangedKernel == UNCHANGED <<procs, termio>>

(* watchjobs(which) on a table t, then next; reporting a job that has no    *)
(* process yet reads outside of its array.                                 *)
WatchThen(t, which, next) ==
  IF watchable(t, which)
  THEN jobs' = watchjobs(t, which) /\ Goto(next)
  ELSE jobs' = t /\ Goto("crashed")

(* A command line that starts a job of n stages: do_job() and do_pipeline() *)
(* block SIGCHLD and fork.  (Bound: as many processes as Pids provides.)   *)
Launch(n, inBg) ==
  /\ MainAt("readline")
  /\ n <= Cardinality(unused)
  /\ todo' = n
  /\ bg' = inBg
  /\ blocked' = TRUE
  /\ Goto("fork")
  /\ UNCHANGED <<table, lead, newpid, job, state, handler, procs, termio>>

(* mutant: every stage makes a group of its own *)
stageGroup_own == NoPid

(* What a child is going to pass to setpgid(): 0 or the leader's pid.      *)
stageGroup == lead

(* Fork() in do_job() and do_stage(). *)
Fork ==
  /\ MainAt("fork")
  /\ \E p \in unused :
       /\ life' = [life EXCEPT ![p] = "forked"]
       /\ pgarg' = [pgarg EXCEPT ![p] = stageGroup]
       /\ newpid' = p
       /\ lead' = IF lead = NoPid THEN p ELSE lead
  /\ todo' = todo - 1
  /\ Goto(IF lead = NoPid THEN "addjob" ELSE "addproc")
  /\ UNCHANGED <<table, blocked, bg, job, state, handler, group, event, term,
                 sigchld, termio>>

(* addjob(lead, bg) *)
AddJob ==
  /\ MainAt("addjob")
  /\ LET j == IF bg THEN allocjob(jobs, njobmax) ELSE FG
     IN  /\ jobs' = [grown(jobs, j) EXCEPT ![j] = newJob(lead)]
         /\ njobmax' = IF j = njobmax THEN njobmax + 1 ELSE njobmax
         /\ job' = j
  /\ Goto("addproc")
  /\ UNCHANGED <<blocked, todo, bg, lead, newpid, state, handler>>
  /\ UnchangedKernel

(* mutant: the loop over the stages runs once too often *)
moreStages_off_by_one == todo >= 0

moreStages == todo > 0

(* addproc(job, newpid, ...); then the next stage, or monitorjob(), or the *)
(* end of the critical section (a local that is not used again is reset).  *)
AddProc ==
  /\ MainAt("addproc")
  /\ jobs' = [jobs EXCEPT ![job].proc = Append(@, newProc(newpid))]
  /\ newpid' = NoPid
  /\ IF moreStages
     THEN Goto("fork") /\ UNCHANGED <<bg, lead, job>>
     ELSE /\ Goto(IF bg THEN "unmask" ELSE "tcsetpgrp")
          /\ bg' = FALSE /\ lead' = NoPid /\ job' = FG
  /\ UNCHANGED <<njobmax, blocked, todo, state, handler>>
  /\ UnchangedKernel

(* The mask of the prompt is restored. *)
Unmask ==
  /\ MainAt("unmask")
  /\ blocked' = FALSE
  /\ Goto("loopend")
  /\ UNCHANGED <<table, command, handler>>
  /\ UnchangedKernel

(* main(): watchjobs(FINISHED), SIGCHLD is not blocked. *)
LoopEnd ==
  /\ MainAt("loopend")
  /\ WatchThen(jobs, FINISHED, "readline")
  /\ UNCHANGED <<njobmax, blocked, command, handler>>
  /\ UnchangedKernel

(* do_jobs(): watchjobs(ALL), SIGCHLD is not blocked. *)
DoJobs ==
  /\ MainAt("readline")
  /\ WatchThen(jobs, ALL, "loopend")
  /\ UNCHANGED <<njobmax, blocked, command, handler>>
  /\ UnchangedKernel

(* do_history(): a child that is not a job and that nobody waits for. *)
DoHistory ==
  /\ MainAt("readline")
  /\ \E p \in unused :
       /\ life' = [life EXCEPT ![p] = "forked"]
       /\ pgarg' = [pgarg EXCEPT ![p] = Shell]
  /\ Goto("loopend")
  /\ UNCHANGED <<table, blocked, command, handler, group, event, term, sigchld, termio>>

-------------------------------------------------------------------------------
(* do_fg(), do_bg(): resumejob(). *)

(* `fg' and `bg' without an argument take the highest job that is not      *)
(* FINISHED; slot FG if there is none.                                     *)
chosen(arg) ==
  LET live == {j \in BG .. njobmax - 1 : jobs[j].state # FINISHED}
  IN  IF arg >= 0 THEN arg
      ELSE IF live = {} THEN FG ELSE CHOOSE j \in live : \A k \in live : k <= j

notFound(j) == j >= njobmax \/ jobs[j].state = FINISHED

DoResume(arg, inBg) ==
  /\ MainAt("readline")
  /\ blocked' = TRUE
  /\ IF notFound(chosen(arg))
     THEN Goto("unmask") /\ UNCHANGED <<job, bg>>
     ELSE Goto("resume") /\ job' = chosen(arg) /\ bg' = inBg
  /\ UNCHANGED <<table, todo, lead, newpid, state, handler>>
  /\ UnchangedKernel

(* while (jobs[j].state != RUNNING) { Kill(-pgid, SIGCONT); Sigsuspend(); } *)
ResumeCont ==
  /\ MainAt("resume")
  /\ jobs[job].state # RUNNING
  /\ IF canKill(jobs[job].pgid)
     THEN Continue(members(groupOf(jobs[job].pgid))) /\ Goto("asleep resume")
     ELSE UNCHANGED <<life, event, sigchld>> /\ Goto("died")
  /\ UNCHANGED <<table, blocked, command, handler, group, pgarg, term, termio>>

(* The job runs: report it; `fg' moves it to the slot FG.                  *)
ResumeDone ==
  /\ MainAt("resume")
  /\ jobs[job].state = RUNNING
  /\ IF bg
     THEN WatchThen(jobs, RUNNING, "unmask")
     ELSE IF jobs[FG].pgid # NoPid
          THEN WatchThen(jobs, RUNNING, "aborted")
          ELSE LET seen == watchjobs(jobs, RUNNING)
               IN  IF watchable(jobs, RUNNING)
                   THEN jobs' = movejob(seen, job, FG) /\ Goto("tcsetpgrp")
                   ELSE jobs' = jobs /\ Goto("crashed")
  /\ bg' = FALSE /\ job' = FG
  /\ UNCHANGED <<njobmax, blocked, todo, lead, newpid, state, handler>>
  /\ UnchangedKernel

-------------------------------------------------------------------------------
(* do_kill() and shutdownjobs(): killjob(). *)

(* SIGCONT to a job that the table says is stopped, SIGTERM to every job;  *)
(* the shell exits in unix_error() if the group does not exist, and ends,  *)
(* too, if the group is its own: that of a free slot that looks STOPPED    *)
(* (which takes Ctrl-C, see WatchJobs).                                    *)
KillJob(j, next) ==
  LET S == members(groupOf(jobs[j].pgid))
  IN  IF canKill(jobs[j].pgid)
      THEN /\ IF jobs[j].state = STOPPED THEN Continue(S)
              ELSE UNCHANGED <<life, event, sigchld>>
           /\ term' = term \cup {p \in S : life[p] \in {"running", "stopped"}}
           /\ Goto(IF jobs[j].pgid = NoPid THEN "died" ELSE next)
      ELSE UNCHANGED <<life, event, sigchld, term>> /\ Goto("died")

DoKill(j) ==
  /\ MainAt("readline")
  /\ blocked' = TRUE
  /\ IF notFound(j) THEN Goto("unmask") /\ UNCHANGED job
     ELSE Goto("kill") /\ job' = j
  /\ UNCHANGED <<table, todo, bg, lead, newpid, state, handler>>
  /\ UnchangedKernel

Kill ==
  /\ MainAt("kill")
  /\ KillJob(job, "unmask")
  /\ job' = FG
  /\ UNCHANGED <<table, blocked, todo, bg, lead, newpid, state, handler, group,
                 pgarg, termio>>

(* `quit', or end of file at the prompt. *)
DoQuit ==
  /\ MainAt("readline")
  /\ blocked' = TRUE
  /\ job' = BG
  /\ Goto("shutdown")
  /\ UNCHANGED <<table, todo, bg, lead, newpid, state, handler>>
  /\ UnchangedKernel

(* One turn of the loop: a job that has not finished is killed, and the    *)
(* shell sleeps until the next SIGCHLD.                                    *)
ShutdownJob ==
  /\ MainAt("shutdown")
  /\ job < njobmax
  /\ job' = job + 1
  /\ IF jobs[job].state = FINISHED
     THEN UNCHANGED <<life, event, sigchld, term>> /\ Goto("shutdown")
     ELSE KillJob(job, "asleep shutdown")
  /\ UNCHANGED <<table, blocked, todo, bg, lead, newpid, state, handler, group,
                 pgarg, termio>>

ShutdownEnd ==
  /\ MainAt("shutdown")
  /\ job >= njobmax
  /\ WatchThen(jobs, FINISHED, "exited")
  /\ UNCHANGED <<njobmax, blocked, command, handler>>
  /\ UnchangedKernel

-------------------------------------------------------------------------------
(* monitorjob(): wait for the job in the slot FG. *)

(* Tcsetpgrp(tty_fd, jobs[FG].pgid)                                        *)
GiveTerminal ==
  /\ MainAt("tcsetpgrp")
  /\ IF canOwnTty(jobs[FG].pgid)
     THEN tty' = jobs[FG].pgid /\ blocked' = FALSE /\ Goto("while stopped")
     ELSE UNCHANGED <<tty, blocked>> /\ Goto("died")
  /\ UNCHANGED <<table, command, handler, procs, modes>>

(* SIGCHLD is not blocked from here on; each step is one access to the     *)
(* state of the job, or one system call.                                   *)
Wait(at, next) ==
  /\ MainAt(at)
  /\ Goto(next)
  /\ UNCHANGED <<table, blocked, command, handler>>
  /\ UnchangedKernel

WhileStopped ==
  Wait("while stopped", IF jobs[FG].state = STOPPED THEN "kill cont" ELSE "while running")

(* A child may still change while the system call is under way.            *)
ContForeground ==
  /\ pc = "kill cont" /\ hpc = "idle"
  /\ IF canKill(jobs[FG].pgid)
     THEN Continue(members(groupOf(jobs[FG].pgid))) /\ Goto("before sleep stopped")
     ELSE UNCHANGED <<life, event, sigchld>> /\ Goto("died")
  /\ UNCHANGED <<table, blocked, command, handler, group, pgarg, term, termio>>

SleepStopped == Wait("before sleep stopped", "asleep stopped")

WhileRunning ==
  Wait("while running", IF jobs[FG].state = RUNNING THEN "before sleep running" ELSE "reread")

SleepRunning == Wait("before sleep running", "asleep running")

Reread ==
  /\ MainAt("reread")
  /\ state' = jobs[FG].state
  /\ Goto("remask")
  /\ UNCHANGED <<table, blocked, todo, bg, lead, newpid, job, handler>>
  /\ UnchangedKernel

Remask ==
  /\ MainAt("remask")
  /\ blocked' = TRUE
  /\ Goto("finish")
  /\ UNCHANGED <<table, command, handler>>
  /\ UnchangedKernel

(* mutant: the attributes of the terminal are not restored *)
shellModes_kept == modes

shellModes == "shell"

(* The job stopped: it moves to a slot in background. *)
FinishStopped ==
  /\ MainAt("finish")
  /\ state = STOPPED
  /\ tty' = Shell
  /\ modes' = shellModes
  /\ LET j == allocjob(jobs, njobmax)
         t == [grown(jobs, j) EXCEPT ![j].state = STOPPED]
     IN  /\ njobmax' = IF j = njobmax THEN njobmax + 1 ELSE njobmax
         /\ IF t[j].pgid = NoPid
            THEN WatchThen(movejob(t, FG, j), STOPPED, "unmask")
            ELSE jobs' = t /\ Goto("aborted")
  /\ state' = FINISHED
  /\ UNCHANGED <<blocked, todo, bg, lead, newpid, job, handler, procs>>

(* The job finished: its slot is freed. *)
FinishFinished ==
  /\ MainAt("finish")
  /\ state = FINISHED
  /\ tty' = Shell
  /\ modes' = shellModes
  /\ IF jobs[FG].state = FINISHED
     THEN WatchThen([jobs EXCEPT ![FG] = deljob(@)], FINISHED, "unmask")
     ELSE jobs' = jobs /\ Goto("aborted")
  /\ UNCHANGED <<njobmax, blocked, command, handler, procs>>

(* Neither of the two: monitorjob() returns. *)
FinishRunning ==
  /\ MainAt("finish")
  /\ state = RUNNING
  /\ state' = FINISHED
  /\ Goto("unmask")
  /\ UNCHANGED <<table, blocked, todo, bg, lead, newpid, job, handler>>
  /\ UnchangedKernel

-------------------------------------------------------------------------------
(* Ctrl-C while the shell owns the terminal: sigint_handler() jumps to the *)
(* loop of main() from wherever the main thread or the SIGCHLD handler is, *)
(* and the mask of the loop is restored.  So does a child that has not     *)
(* reset its handlers yet: it goes on as a second shell.  (A step of       *)
(* WatchJobs only.)                                                        *)
CtrlC ==
  /\ tty = Shell
  /\ pc \notin Terminal
  /\ Goto("readline")
  /\ blocked' = FALSE
  /\ hpc' = "idle" /\ hpid' = NoPid /\ hstatus' = NoStatus
  /\ todo' = 0 /\ bg' = FALSE /\ lead' = NoPid /\ newpid' = NoPid
  /\ job' = FG /\ state' = FINISHED
  /\ life' = [p \in Pids |-> IF life[p] = "forked" THEN "clone" ELSE life[p]]
  /\ UNCHANGED <<table, group, pgarg, event, term, sigchld, termio>>

-------------------------------------------------------------------------------

(* What the user types at the prompt. *)
User ==
  \/ \E n \in 1 .. MaxStages, inBg \in BOOLEAN : Launch(n, inBg)
  \/ \E arg \in -1 .. njobmax, inBg \in BOOLEAN : DoResume(arg, inBg)
  \/ \E j \in 0 .. njobmax : DoKill(j)
  \/ DoJobs \/ DoHistory \/ DoQuit
  \/ Wait("readline", "loopend")

(* What the main thread does by itself. *)
MainStep ==
  \/ Fork \/ AddJob \/ AddProc \/ Unmask \/ LoopEnd
  \/ ResumeCont \/ ResumeDone \/ Kill
  \/ ShutdownJob \/ ShutdownEnd
  \/ GiveTerminal \/ WhileStopped \/ ContForeground \/ SleepStopped
  \/ WhileRunning \/ SleepRunning \/ Reread \/ Remask
  \/ FinishStopped \/ FinishFinished \/ FinishRunning

(* Nothing is modelled after the end of the shell. *)
Children == pc \notin Terminal /\ \E p \in Pids : ChildStep(p)

Next == User \/ MainStep \/ HandlerStep \/ Children

Spec == Init /\ [][Next]_vars

(* The shell goes on when it can and a signal that is not blocked is       *)
(* delivered, a child is scheduled, and SIGTERM ends a process that is not *)
(* stopped.                                                                *)
FairSpec ==
  /\ Spec
  /\ WF_vars(MainStep)
  /\ WF_vars(HandlerStep)
  /\ \A p \in Pids :
       /\ WF_vars(pc \notin Terminal /\ ChildStart(p))
       /\ WF_vars(pc \notin Terminal /\ p \in term /\ Exit(p))

-------------------------------------------------------------------------------
(* Safety. *)

(* A status change that waitpid() has not reported is never forgotten: a    *)
(* SIGCHLD is pending for it, or the handler is in its loop.  One SIGCHLD  *)
(* may stand for several children (sigchld_handler, WNOHANG loop).         *)
NoLostNotification ==
  (\E p \in Pids : event[p] # NoStatus) => sigchld \/ hpc \in {"waitpid", "record"}

view(l) == CASE l = "stopped"            -> STOPPED
             [] l \in {"zombie", "gone"} -> FINISHED
             [] OTHER                    -> RUNNING

(* waitpid() has nothing more to say about p, and the handler has entered  *)
(* all that it said.                                                       *)
settled(p) == event[p] = NoStatus /\ ~(hpc = "record" /\ hpid = p)

pidsOf(j) == {jobs[j].proc[i].pid : i \in DOMAIN jobs[j].proc}

(* The table says of every process what the kernel last reported of it: no *)
(* report arrives before the process is in the table, none is entered for  *)
(* another process, none is overwritten by an older one.  This is what the *)
(* critical sections around fork(), addjob() and addproc() are for.        *)
TableTracksKernel ==
  \A j \in DOMAIN jobs : \A i \in DOMAIN jobs[j].proc :
    settled(jobs[j].proc[i].pid) =>
      jobs[j].proc[i].state = view(life[jobs[j].proc[i].pid])

(* A job whose processes are all settled is RUNNING if one of them runs,   *)
(* else STOPPED if one is stopped, else FINISHED (job_state).  All that fg,*)
(* bg, kill and quit do depends on the state of the job, not on the states *)
(* of its processes.                                                       *)
JobStateIsSummary ==
  \A j \in DOMAIN jobs :
    LET views == {view(life[p]) : p \in pidsOf(j)}
    IN  views # {} /\ (\A p \in pidsOf(j) : settled(p)) =>
          /\ jobs[j].state = RUNNING  <=> RUNNING \in views
          /\ jobs[j].state = FINISHED <=> views = {FINISHED}

(* A free slot is FINISHED and has no process: resumejob(), killjob() and  *)
(* shutdownjobs() look at the state of a slot only, not at its pgid; a     *)
(* free slot in another state would have them signal the shell's group.    *)
FreeSlotFinished ==
  \A j \in DOMAIN jobs :
    jobs[j].pgid = NoPid => jobs[j].state = FINISHED /\ jobs[j].proc = << >>

(* A child of a job that is alive is in exactly one place of the table (or *)
(* about to be entered): no slot is freed, reused or moved so that a live  *)
(* process is forgotten or listed twice.                                   *)
LiveChildOwned ==
  \A p \in Pids :
    /\ p # newpid
    /\ \/ life[p] = "forked" /\ pgarg[p] # Shell
       \/ life[p] \in {"running", "stopped"} /\ group[p] # Shell
    => Cardinality(entriesOf(jobs, p)) = 1

(* A signal to the group of a job reaches the processes of that job and no *)
(* other: whoever has joined the group is in the slot (or about to be),    *)
(* and whoever is in the slot and alive has joined the group, unless it is *)
(* still on its way to setpgid() (killjob, resumejob).                     *)
GroupIsJob ==
  \A j \in DOMAIN jobs : jobs[j].pgid # NoPid =>
    /\ members(jobs[j].pgid) \subseteq pidsOf(j) \cup {newpid}
    /\ \A p \in pidsOf(j) :
         life[p] \in {"running", "stopped"} => group[p] = jobs[j].pgid

Monitoring ==
  {"while stopped", "kill cont", "before sleep stopped", "asleep stopped",
   "while running", "before sleep running", "asleep running", "reread",
   "remask", "finish"}

(* The job that monitorjob() waits for stays in the slot FG, with its      *)
(* processes, and owns the terminal, whatever the handler does meanwhile;  *)
(* in particular its report is left to monitorjob().                       *)
MonitoredJobKept ==
  pc \in Monitoring => jobs[FG].pgid = tty /\ jobs[FG].proc # << >>

(* At the prompt the shell owns the terminal, no job is left in the slot   *)
(* FG, and nothing is left of the attributes that a program set while it   *)
(* was in the foreground (end of monitorjob).  A pipeline in background    *)
(* may set others at any time, also while the shell reads a line.          *)
TerminalAtPrompt ==
  pc \in {"readline", "loopend"} =>
    tty = Shell /\ modes # "app" /\ jobs[FG].pgid = NoPid

(* The assertions of deljob() and movejob() hold, and exitcode() is never  *)
(* applied to a job without processes.                                     *)
NoAssertionFails == pc \notin {"aborted", "crashed"}

lost(j, i) ==
  jobs[j].proc[i].state = FINISHED /\ jobs[j].proc[i].exitcode # Exited

(* The exit status of a process that finished stays in the table until its *)
(* job is reported, if the process is not the last one or the only one:    *)
(* watchjobs() clears the status of the last process only, and of a job    *)
(* only while it has not finished.                                         *)
ExitStatusKept ==
  \A j \in DOMAIN jobs : \A i \in DOMAIN jobs[j].proc :
    lost(j, i) => i = Len(jobs[j].proc) /\ i > 1

-------------------------------------------------------------------------------
(* What the table shows of the job whose processes are in the group p.      *)
phaseOf(p) ==
  LET here == {j \in DOMAIN jobs : jobs[j].pgid = p}
  IN  IF here = {} THEN "absent" ELSE jobs[CHOOSE j \in here : TRUE].state

Lifecycle == INSTANCE JobLifecycle WITH
  Jobs  <- Pids,
  None  <- NoPid,
  phase <- [p \in Pids |-> phaseOf(p)],
  front <- jobs[FG].pgid

(* Jobs live as JobLifecycle says: no step of main thread, handler or      *)
(* child lets go of a job that has not finished, starts one twice, or      *)
(* takes a job that runs out of the foreground (jobs.c).                   *)
ImplementsLifecycle == Lifecycle!LifeSpec

-------------------------------------------------------------------------------
(* Liveness. *)

(* A child that ended is waited for, unless the shell ends first: the      *)
(* critical sections and the sleeps of the main thread never keep the      *)
(* handler away for ever.                                                  *)
EveryChildReaped ==
  \A p \in Pids : life[p] = "zombie" ~> life[p] = "gone" \/ pc \in Terminal

finishedIn(j) == j < njobmax /\ jobs[j].pgid # NoPid /\ jobs[j].state = FINISHED

(* A job in background that finished is reported and its slot freed,       *)
(* whichever of handler, main loop and monitorjob() sees it first.         *)
FinishedJobLeaves ==
  \A j \in 1 .. Cardinality(Pids) :
    finishedIn(j) ~> ~finishedIn(j) \/ pc \in Terminal

-------------------------------------------------------------------------------
(* What comments and assertions say, and the code does not do. *)

(* jobs.c, monitorjob: "When a job has finished or has been stopped move   *)
(* shell to foreground."  The shell does not sleep for ever when the job   *)
(* it waits for no longer runs.                                            *)
MonitorWakesUp ==
  (pc \in Monitoring /\ jobs[FG].state = FINISHED) ~> pc \notin Monitoring

(* The same sentence, for the terminal. *)
TerminalReturned == pc = "readline" => tty = Shell

(* jobs.c, shutdownjobs: "Kill remaining jobs and wait for them to finish."*)
ShutdownWaits ==
  pc = "exited" => \A j \in BG .. njobmax - 1 : jobs[j].state = FINISHED

(* shell.c, do_stage: "Start a subprocess and make sure it's moved to a    *)
(* process group."  No child fails to join the group of its pipeline.      *)
StageJoinsGroup ==
  [][\A p \in Pids : life[p] = "forked" => life'[p] # "zombie"]_vars

===============================================================================
