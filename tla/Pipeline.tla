------------------------------- MODULE Pipeline -------------------------------
(***************************************************************************)
(* The descriptors of jobs and pipelines (shell.c): do_redir(), mkpipe(),  *)
(* do_job(), do_stage(), do_pipeline() in the shell, and what a child does *)
(* with its copies between fork() and the start of its command.            *)
(*                                                                         *)
(* A pipe is read to its end only when no process holds its write end, and *)
(* breaks only when no process holds its read end; so every copy of an end *)
(* has to be closed, in every process, whatever the order the children run *)
(* in.  What is read and written is left out, and so are jobs and groups,  *)
(* which are in JobControl.                                                *)
(*                                                                         *)
(* Ctrl-C jumps back to the prompt from anywhere in do_job() and           *)
(* do_pipeline() (sigint_handler) and nothing is closed on the way; what   *)
(* stays open then is remembered in `lost' and `bare', so that the         *)
(* properties can tell it from what the shell forgets by itself.           *)
(***************************************************************************)
EXTENDS Naturals, Integers, Sequences, FiniteSets

CONSTANTS
  NProcs,  (* bound: children that the shell forks                         *)
  MaxFd,   (* the highest descriptor a process may have                    *)
  MaxCtrlC,(* bound: how often Ctrl-C hits the shell or a child            *)
  Stages   (* bound: the stages of a command line that a user types        *)

(* A stage between two pipe symbols: its redirections, from left to right, *)
(* and what is left without them: nothing, a builtin or another command.   *)
StageType == [command : {"none", "builtin", "program"}, redirs : Seq({"in", "out"})]

ASSUME NProcsAssumption == NProcs \in Nat \ {0}
ASSUME MaxFdAssumption  == MaxFd \in Nat /\ MaxFd >= 4
ASSUME CtrlCAssumption  == MaxCtrlC \in Nat
ASSUME StagesAssumption == Stages \subseteq StageType

VARIABLES
  fd,        (* what the descriptors of each process are open on           *)
  cloexec,   (* descriptors with FD_CLOEXEC                                *)
  npipes,    (* pipes created so far                                       *)
  hits,      (* Ctrl-C so far                                              *)
  lost,      (* of these, the ones that Ctrl-C left open in some process   *)
  bare,      (* of these, the ones without FD_CLOEXEC on both ends         *)
  pc,        (* of the shell                                               *)
  line,      (* the stages of the command line                             *)
  bg,
  stage,     (* the stage do_pipeline() is at                              *)
  ends,      (* locals of do_pipeline()                                    *)
  arg,       (* input and output of do_stage() or do_job()                 *)
  redirs,    (* redirections that do_redir() has handled                   *)
  nprocs,    (* children forked so far                                     *)
  child      (* what each child is doing                                   *)

shellvars == <<pc, line, bg, stage, ends, arg, redirs, nprocs>>
ctrlc == <<hits, lost, bare>>
vars == <<fd, cloexec, npipes, ctrlc, shellvars, child>>

Shell == 0
Procs == 1 .. NProcs
Fds   == 0 .. MaxFd

(* Open files: the terminal, the ends of pipe i, the file of the i-th      *)
(* redirection of a stage.                                                 *)
File(kind, i) == [kind |-> kind, id |-> i]
Closed == File("closed", 0)
Tty    == File("tty", 0)
isPipe(f) == f.kind \in {"read", "write"}

Locals  == {"input", "output", "next_input", "next_output"}
NoArg   == [input |-> -1, output |-> -1]
NoStage == [command |-> "none", redirs |-> << >>]
NoChild == [status |-> "none", stage |-> NoStage, first |-> TRUE, last |-> TRUE,
            input |-> -1, output |-> -1]

(* initjobs(): tty_fd is a copy of standard input that no program gets.    *)
Init ==
  /\ fd = [p \in {Shell} \cup Procs |->
             [f \in Fds |-> IF p = Shell /\ f <= 3 THEN Tty ELSE Closed]]
  /\ cloexec = [p \in {Shell} \cup Procs |-> IF p = Shell THEN {3} ELSE {}]
  /\ npipes = 0
  /\ hits = 0 /\ lost = {} /\ bare = {}
  /\ pc = "prompt"
  /\ line = << >>
  /\ bg = FALSE
  /\ stage = 0
  /\ ends = [v \in Locals |-> -1]
  /\ arg = NoArg
  /\ redirs = 0
  /\ nprocs = 0
  /\ child = [p \in Procs |-> NoChild]

-------------------------------------------------------------------------------
(* System calls of the shell. *)

free == {f \in Fds : fd[Shell][f] = Closed}
lowest(S) == CHOOSE f \in S : \A g \in S : f <= g

(* The shell ends: unix_error(), app_error() or a failed assertion.        *)
End(how) ==
  /\ pc' = how
  /\ fd' = [fd EXCEPT ![Shell] = [f \in Fds |-> Closed]]
  /\ cloexec' = [cloexec EXCEPT ![Shell] = {}]
  /\ UNCHANGED <<npipes, ctrlc, line, bg, stage, ends, arg, redirs, nprocs, child>>

(* mutant: the ends of a pipe survive execve() *)
closeOnExec_none(fds) == {}

closeOnExec(fds) == fds

canPipe == Cardinality(free) >= 2
readFd  == lowest(free)
writeFd == lowest(free \ {readFd})

(* Pipe(fds), and FD_CLOEXEC set on some of the new descriptors.           *)
Pipe(marked) ==
  /\ npipes' = npipes + 1
  /\ fd' = [fd EXCEPT ![Shell][readFd]  = File("read", npipes + 1),
                      ![Shell][writeFd] = File("write", npipes + 1)]
  /\ cloexec' = [cloexec EXCEPT ![Shell] = @ \cup marked]

(* mkpipe(&ends[r], &ends[w])                                              *)
Mkpipe(r, w) ==
  /\ Pipe(closeOnExec({readFd, writeFd}))
  /\ ends' = [ends EXCEPT ![r] = readFd, ![w] = writeFd]

-------------------------------------------------------------------------------
(* The shell. *)

(* eval(): a command line without a pipe symbol goes to do_job(); for the   *)
(* descriptors of a pipeline, foreground or background is the same.        *)
Eval(l, inBg) ==
  /\ pc = "prompt"
  /\ nprocs + Len(l) <= NProcs
  /\ line' = l
  /\ bg' = (inBg /\ Len(l) = 1)
  /\ stage' = 1
  /\ pc' = IF Len(l) = 1 THEN "do_redir" ELSE "stage"
  /\ UNCHANGED <<fd, cloexec, npipes, ctrlc, ends, arg, redirs, nprocs, child>>

(* Back at the prompt, the locals are gone.                                *)
Prompt ==
  /\ pc' = "prompt"
  /\ line' = << >> /\ bg' = FALSE /\ stage' = 0 /\ redirs' = 0
  /\ ends' = [v \in Locals |-> -1]
  /\ arg' = NoArg

(* do_stage() is called with the two locals, as they are now.              *)
CallStage(in, out) ==
  /\ arg' = [input |-> ends'[in], output |-> ends'[out]]
  /\ redirs' = 0
  /\ pc' = "do_redir"
  /\ UNCHANGED <<ctrlc, line, bg, stage, nprocs, child>>

empty(s) == s.command = "none" /\ s.redirs = << >>

(* mutant: the loop over the stages runs once too often *)
moreStages_off_by_one == stage <= Len(line)

moreStages == stage < Len(line)

(* The stages of do_pipeline().  The read end of the last pipe is in       *)
(* next_input and in input in turn.                                        *)
FirstStage ==
  /\ pc = "stage" /\ stage = 1
  /\ IF canPipe
     THEN Mkpipe("next_input", "output") /\ CallStage("input", "output")
     ELSE End("died")

MiddleStage ==
  /\ pc = "stage" /\ 1 < stage /\ moreStages
  /\ IF empty(line[stage]) THEN End("aborted")
     ELSE IF ~canPipe      THEN End("died")
     ELSE IF ends["next_input"] > 0
          THEN Mkpipe("input", "next_output") /\ CallStage("next_input", "next_output")
          ELSE Mkpipe("next_input", "output") /\ CallStage("input", "output")

LastStage ==
  /\ pc = "stage" /\ 1 < stage /\ stage = Len(line)
  /\ IF empty(line[stage]) THEN End("aborted")
     ELSE /\ UNCHANGED <<fd, cloexec, npipes, ctrlc, ends>>
          /\ IF ends["next_input"] > 0
             THEN CallStage("next_input", "next_output")
             ELSE CallStage("input", "output")

(* One redirection of do_redir(): a file that cannot be opened, or whose   *)
(* name is missing, fails an assertion.                                    *)
Redirect ==
  /\ pc = "do_redir"
  /\ redirs < Len(line[stage].redirs)
  /\ \/ End("aborted")
     \/ /\ free # {}
        /\ fd' = [fd EXCEPT ![Shell][lowest(free)] = File("file", redirs + 1)]
        /\ arg' = IF line[stage].redirs[redirs + 1] = "in"
                  THEN [arg EXCEPT !.input = lowest(free)]
                  ELSE [arg EXCEPT !.output = lowest(free)]
        /\ redirs' = redirs + 1
        /\ UNCHANGED <<cloexec, npipes, ctrlc, pc, line, bg, stage, ends, nprocs, child>>

(* The end of do_redir(): a builtin in foreground runs in the shell.       *)
Redirected ==
  /\ pc = "do_redir"
  /\ redirs = Len(line[stage].redirs)
  /\ IF line[stage].command = "none"
     THEN End(IF Len(line) = 1 THEN "aborted" ELSE "died")
     ELSE /\ IF Len(line) = 1 /\ line[stage].command = "builtin" /\ ~bg
             THEN Prompt
             ELSE pc' = "fork" /\ UNCHANGED <<line, bg, stage, ends, arg, redirs>>
          /\ UNCHANGED <<fd, cloexec, npipes, ctrlc, nprocs, child>>

(* Fork() in do_job() and do_stage(): the child gets a copy of everything. *)
Fork ==
  /\ pc = "fork"
  /\ LET p == nprocs + 1
     IN  /\ fd' = [fd EXCEPT ![p] = fd[Shell]]
         /\ cloexec' = [cloexec EXCEPT ![p] = cloexec[Shell]]
         /\ child' = [child EXCEPT ![p] =
              [status |-> "forked", stage |-> line[stage],
               first |-> stage = 1, last |-> stage = Len(line),
               input |-> arg.input, output |-> arg.output]]
         /\ nprocs' = p
  /\ IF Len(line) = 1
     THEN Prompt
     ELSE pc' = "close" /\ arg' = NoArg /\ redirs' = 0 /\ UNCHANGED <<line, bg, stage, ends>>
  /\ UNCHANGED <<npipes, ctrlc>>

(* mutant: the read end that a middle stage got stays open in the shell *)
used_keeps_input ==
  IF stage = Len(line) THEN {IF ends["next_input"] > 0 THEN "next_input" ELSE "input"}
  ELSE IF ends["next_output"] > 0 THEN {"next_output"} ELSE {"output"}

(* mutant: the write end of the first pipe stays open in the shell *)
used_keeps_output ==
  CASE stage = 1         -> {}
    [] stage = Len(line) -> {IF ends["next_input"] > 0 THEN "next_input" ELSE "input"}
    [] OTHER             -> IF ends["next_output"] > 0 THEN {"next_input", "next_output"}
                                                       ELSE {"input", "output"}

(* The locals that are closed after the fork of a stage; next_output is    *)
(* open only if this stage has written to it.                              *)
used ==
  CASE stage = 1         -> {"output"}
    [] stage = Len(line) -> {IF ends["next_input"] > 0 THEN "next_input" ELSE "input"}
    [] OTHER             -> IF ends["next_output"] > 0 THEN {"next_input", "next_output"}
                                                       ELSE {"input", "output"}

(* MaybeClose() and Close() after do_stage(); then the next stage, or      *)
(* monitorjob() and the prompt.                                            *)
CloseUsed ==
  /\ pc = "close"
  /\ LET fds == {ends[v] : v \in used} \ {-1}
     IN  /\ fd' = [fd EXCEPT ![Shell] = [f \in Fds |-> IF f \in fds THEN Closed ELSE @[f]]]
         /\ cloexec' = [cloexec EXCEPT ![Shell] = @ \ fds]
  /\ IF moreStages
     THEN /\ pc' = "stage"
          /\ stage' = stage + 1
          /\ ends' = [v \in Locals |-> IF v \in used THEN -1 ELSE ends[v]]
          /\ UNCHANGED <<line, bg, arg, redirs>>
     ELSE Prompt
  /\ UNCHANGED <<npipes, ctrlc, nprocs, child>>

-------------------------------------------------------------------------------
(* Ctrl-C: sigint_handler() jumps to the loop of main().                   *)

pipesOf(files) == {files[f].id : f \in {g \in Fds : isPipe(files[g])}}

CtrlC == hits < MaxCtrlC /\ hits' = hits + 1

Jump ==
  /\ CtrlC
  /\ Prompt
  /\ lost' = lost \cup pipesOf(fd'[Shell])
  /\ UNCHANGED <<nprocs, child>>

(* Between two of the steps above. *)
Interrupt ==
  /\ pc \in {"stage", "do_redir", "fork", "close"}
  /\ UNCHANGED <<fd, cloexec, npipes, bare>>
  /\ Jump

(* In mkpipe(), between pipe() and the second fcntl().                     *)
InterruptMkpipe ==
  /\ pc = "stage" /\ moreStages /\ canPipe
  /\ stage > 1 => ~empty(line[stage])
  /\ \E marked \in {{}, {readFd}} : Pipe(marked)
  /\ bare' = bare \cup {npipes + 1}
  /\ Jump

(* Between the two calls of MaybeClose() behind a stage in the middle.     *)
InterruptClose ==
  /\ pc = "close" /\ 1 < stage /\ moreStages
  /\ LET fds == {ends[v] : v \in used \cap {"input", "next_input"}} \ {-1}
     IN  /\ fd' = [fd EXCEPT ![Shell] = [f \in Fds |-> IF f \in fds THEN Closed ELSE @[f]]]
         /\ cloexec' = [cloexec EXCEPT ![Shell] = @ \ fds]
  /\ UNCHANGED <<npipes, bare>>
  /\ Jump

-------------------------------------------------------------------------------
(* Children. *)

At(p, status)     == child[p].status = status
GotoIn(p, status) == child' = [child EXCEPT ![p].status = status]

(* mutant: the output is moved to standard input *)
stdout_swapped == 0

stdout == 1

(* Dup2(from, to); Close(from), unless there is nothing to move.           *)
moved(files, from, to) ==
  IF from = -1 THEN files ELSE [files EXCEPT ![to] = files[from], ![from] = Closed]

ChildRedirect(p) ==
  /\ At(p, "forked")
  /\ fd' = [fd EXCEPT ![p] = moved(moved(@, child[p].input, 0), child[p].output, stdout)]
  /\ cloexec' = [cloexec EXCEPT ![p] = @ \ {child[p].input, child[p].output}]
  /\ GotoIn(p, "command")
  /\ UNCHANGED <<npipes, ctrlc, shellvars>>

(* A builtin of a pipeline runs in the child as it is; other commands, and *)
(* a builtin that do_job() starts in background, go through execve().      *)
ChildCommand(p) ==
  /\ At(p, "command")
  /\ IF child[p].stage.command = "builtin" /\ ~(child[p].first /\ child[p].last)
     THEN GotoIn(p, "builtin") /\ UNCHANGED <<fd, cloexec>>
     ELSE /\ GotoIn(p, "program")
          /\ fd' = [fd EXCEPT ![p] = [f \in Fds |-> IF f \in cloexec[p] THEN Closed ELSE @[f]]]
          /\ cloexec' = [cloexec EXCEPT ![p] = {}]
  /\ UNCHANGED <<npipes, ctrlc, shellvars>>

(* Ctrl-C while the child still has the shell's handler, in the group of   *)
(* the shell or in the foreground: it jumps to the loop of main(), too, a  *)
(* second shell with all that the child had open.                          *)
InterruptChild(p) ==
  /\ CtrlC
  /\ child[p].status \in {"forked", "command", "builtin"}
  /\ GotoIn(p, "clone")
  /\ lost' = lost \cup pipesOf(fd[p])
  /\ UNCHANGED <<fd, cloexec, npipes, bare, shellvars>>

(* A command ends, or its program is not found; or a second shell does.    *)
ChildEnd(p) ==
  /\ child[p].status \in {"builtin", "program", "clone"}
  /\ child' = [child EXCEPT ![p] = [NoChild EXCEPT !.status = "ended"]]
  /\ fd' = [fd EXCEPT ![p] = [f \in Fds |-> Closed]]
  /\ cloexec' = [cloexec EXCEPT ![p] = {}]
  /\ UNCHANGED <<npipes, ctrlc, shellvars>>

-------------------------------------------------------------------------------

ShellStep ==
  \/ FirstStage \/ MiddleStage \/ LastStage
  \/ Redirect \/ Redirected \/ Fork \/ CloseUsed

ChildStart(p) == ChildRedirect(p) \/ ChildCommand(p)

Lines == UNION {[1 .. n -> Stages] : n \in 1 .. NProcs}

Next ==
  \/ \E l \in Lines, inBg \in BOOLEAN : Eval(l, inBg)
  \/ ShellStep
  \/ Interrupt \/ InterruptMkpipe \/ InterruptClose
  \/ \E p \in Procs : ChildStart(p) \/ InterruptChild(p) \/ ChildEnd(p)

Spec == Init /\ [][Next]_vars

(* The shell and a new child go on, a builtin ends; a program need not.    *)
FairSpec ==
  /\ Spec
  /\ WF_vars(ShellStep)
  /\ \A p \in Procs : WF_vars(ChildStart(p)) /\ WF_vars(At(p, "builtin") /\ ChildEnd(p))

-------------------------------------------------------------------------------

FileType == [kind : {"closed", "tty", "read", "write", "file"}, id : Nat]
FdOrNone == Fds \cup {-1}

(* Every variable has its type; a descriptor with FD_CLOEXEC is open.      *)
TypeOK ==
  /\ fd \in [{Shell} \cup Procs -> [Fds -> FileType]]
  /\ cloexec \in [{Shell} \cup Procs -> SUBSET Fds]
  /\ \A p \in {Shell} \cup Procs : \A f \in cloexec[p] : fd[p][f] # Closed
  /\ npipes \in Nat /\ nprocs \in 0 .. NProcs
  /\ hits \in 0 .. MaxCtrlC /\ lost \cup bare \subseteq Nat
  /\ pc \in {"prompt", "stage", "do_redir", "fork", "close", "died", "aborted"}
  /\ line \in Seq(Stages) /\ bg \in BOOLEAN /\ stage \in 0 .. Len(line)
  /\ ends \in [Locals -> FdOrNone]
  /\ arg \in [input : FdOrNone, output : FdOrNone] /\ redirs \in Nat
  /\ child \in [Procs -> [status : {"none", "forked", "command", "builtin",
                                    "program", "clone", "ended"},
                          stage : Stages \cup {NoStage}, first : BOOLEAN, last : BOOLEAN,
                          input : FdOrNone, output : FdOrNone]]

runs(p)  == child[p].status \in {"builtin", "program"}
ended(p) == child[p].status = "ended"

(* The number of the last redirection of a stage in a direction, or 0.     *)
lastRedir(s, dir) ==
  LET S == {i \in DOMAIN s.redirs : s.redirs[i] = dir}
  IN  IF S = {} THEN 0 ELSE CHOOSE i \in S : \A j \in S : j <= i

(* Each command reads from its last input redirection, else from the stage *)
(* before it, else from the terminal; and writes to its last output        *)
(* redirection, else to the stage after it, else to the terminal.          *)
StagesConnected ==
  \A p \in Procs : runs(p) =>
    LET s   == child[p].stage
        in  == lastRedir(s, "in")
        out == lastRedir(s, "out")
    IN  /\ fd[p][0] = IF in > 0 THEN File("file", in)
                      ELSE IF child[p].first THEN Tty ELSE File("read", fd[p][0].id)
        /\ fd[p][1] = IF out > 0 THEN File("file", out)
                      ELSE IF child[p].last THEN Tty ELSE File("write", fd[p][1].id)
        /\ \A q \in Procs : runs(q) /\ fd[q][0].kind = "read" /\ fd[p][1].kind = "write" =>
             (fd[q][0].id = fd[p][1].id <=> q = p + 1)

(* A program has nothing of the shell's: beside the standard descriptors   *)
(* it gets files only, no end of a pipe and no copy of tty_fd (the comment *)
(* in initjobs(): "do not leak it to subprocesses that execve"); the one   *)
(* exception are pipes that Ctrl-C interrupted before FD_CLOEXEC was set.  *)
ProgramDescriptors ==
  \A p \in Procs : At(p, "program") =>
    \A f \in Fds : f > 2 =>
      \/ fd[p][f].kind \in {"closed", "file"}
      \/ isPipe(fd[p][f]) /\ fd[p][f].id \in bare

(* The shell comes back to the prompt by itself only when it has closed    *)
(* every end of the pipes of the command line; what it still has open      *)
(* there is from command lines that Ctrl-C broke off.                      *)
NoPipeAtPrompt ==
  pc = "prompt" => pipesOf(fd[Shell]) \subseteq lost

holders(kind, i) ==
  {p \in {Shell} \cup Procs : \E f \in Fds : fd[p][f] = File(kind, i)}

(* A command that reads from the stage before it gets the end of file once *)
(* that stage has ended: all other copies of the write end are closed, in  *)
(* the shell and in the other stages, whatever order they run in; unless   *)
(* Ctrl-C made the shell or a child keep the pipe for good.                *)
InputEnds ==
  \A p \in 2 .. NProcs :
    (At(p, "program") /\ fd[p][0].kind = "read" /\ ended(p - 1))
      ~> (ended(p) \/ holders("write", fd[p][0].id) = {} \/ fd[p][0].id \in lost)

(* A program that writes to the stage after it gets SIGPIPE once that      *)
(* stage has ended: it and everybody else have closed the read end.        *)
OutputBreaks ==
  \A p \in 1 .. NProcs - 1 :
    (At(p, "program") /\ fd[p][1].kind = "write" /\ ended(p + 1))
      ~> (ended(p) \/ holders("read", fd[p][1].id) = {} \/ fd[p][1].id \in lost)

===============================================================================
