# Verification of project-shell

TLA+ modules, TLC configurations and TLAPS proofs for the shell in `src/`: an
interactive job-control shell (`shell.c`, `jobs.c`, `command.c`, `lexer.c`) on
top of a library (`libcsapp/`): wrappers of system calls, and I/O, sockets,
trees, lists, hash functions and bit strings that the shell itself does not use.

## 1. The system

| Component | Source | State | Operations | Hard behaviour | Correct means |
|---|---|---|---|---|---|
| Job table | `jobs.c` | `jobs[0..njobmax-1]`: `pgid`, `state`, `proc[]` (`tmodes` is written and never read); slot 0 (FG) is the foreground job | `allocjob addjob addproc movejob deljob job_state watchjobs` and the body of the handler's loop | slots are reused, moved and grown by two threads of control | a live child is in exactly one slot; the state of a job summarises its processes; a free slot is FINISHED |
| SIGCHLD handler | `jobs.c:46-76` | none of its own; writes the table | `waitpid` loop, entry of the status, `watchjobs(FINISHED)` | interrupts the main thread wherever SIGCHLD is not blocked; one signal for many children | no status lost, none entered for the wrong process, none out of order |
| Main thread | `shell.c`, `command.c`, `jobs.c` | signal mask, program counter, locals | launch (`do_job`, `do_pipeline`), `fg`, `bg`, `kill`, `jobs`, `history`, `quit`, `monitorjob` | critical sections, `sigsuspend`, state read and used later | every wait ends, the assertions hold, the shell gets the terminal back |
| Terminal | `jobs.c` (calls) | foreground group, attributes | `Tcsetpgrp`, `Tcgetattr`, `Tcsetattr` | Ctrl-C goes to the foreground group; ownership moves with the job | at the prompt the shell owns it, and nothing is left of the attributes that a program in the foreground set |
| Ctrl-C | `shell.c:13-15,342` | `loop_env` | `siglongjmp` to the main loop | leaves any critical section, any handler and any pipeline half done; a child that has the shell's handler still becomes a second shell | the table stays usable; only the pipes of the broken off command line stay open |
| Children | `shell.c:100-121,146-165` | group, signal handlers | `setpgid`, redirections, `execve` | each runs at its own pace between `fork` and `setpgid` | all stages of a pipeline in one group |
| Pipelines, redirections | `shell.c:26-77,170-247` | descriptors | `do_redir mkpipe do_pipeline` | ends closed on every path and in every process | the shell itself forgets no end of a pipe, each stage reads its predecessor |
| Lexer | `lexer.c` | vector of tokens | `tokenize` | boundary of the vector, operators next to words | tokens are the words and operators of the line |
| Commands | `command.c` | table of builtins | `builtin_command external_command expand_wildcard do_chdir` | order of options and patterns, search of `PATH` | the first directory of `PATH` that has the program is the one it runs from; the program gets its words in order |
| Prompt, history | `shell.c:277-318`, readline | buffer, history | `set_line find_bang` | a copy onto an overlapping string, which has no defined outcome | nothing that could be stated |
| Wrappers | `libcsapp/*.c` | none | one system call each; a failure ends the process | `Kill` on an empty group, `Tcsetpgrp` on a dead one | - |
| Robust I/O | `libcsapp/rio.c` | buffer, count, position | `rio_readn rio_writen rio_readnb rio_readlineb` | short counts, EINTR | the bytes of the stream, once and in order |
| Sockets | `libcsapp/open_*.c` | descriptors | `open_clientfd open_listenfd` | failure on each address | no descriptor leaks |
| Printing | `libcsapp/safe_printf.c` | the line | `safe_vprintf print_num` | width of the numbers, smallest negative number | the line is what the format says |
| Trees | `include/tree.h` | links and colours inside of the nodes | `RB_*`, `SPLAY_*` | rotations at the root and next to missing children; removal during a loop | search tree of the nodes put in; red-black balance |
| Lists | `include/queue.h` | links inside of the elements | `SLIST LIST SIMPLEQ TAILQ STAILQ` | the pointer to the last link | the walk meets what was put in, in order |
| Hash | `libcsapp/jenkins_hash.c` | three registers | `jenkins_hash jenkins_hash32` | three ways to load a key, two byte orders | all of them mix the same words |
| Bit strings | `include/bitstring.h` | bytes | `bit_set bit_nset bit_ffs ...` | ranges on the border of a byte | only the bits asked for change |
| Terminal library, stdio, memory and thread wrappers, `setjmp` | `libcsapp/*.c` | - | one call each | - | not modelled |

How they interact: `eval` (main thread) calls the lexer, then `do_job` or
`do_pipeline`, which block SIGCHLD, fork, enter the children in the job table
and call `monitorjob`. `monitorjob` and `resumejob` wait for the handler, which
interrupts them, to change the table. The handler learns from the kernel what
the children did, the children learn by signals to their group what the shell
wants. Ctrl-C cuts across all of it. The lexer, the commands, the prompt and the
rest of the library are sequential and share no state with the table.

## 2. Modules

* `JobTable` - the functions of `jobs.c` that read or change the table, as
  operators on a table that is a function from slots to records. The text of
  commands is left out, a wait status is its kind (exited or killed / stopped /
  continued).
* `JobControl` (EXTENDS `JobTable`) - the whole concurrent system. One action
  per step that something else can observe or interrupt:

| Actor | Actions | Code |
|---|---|---|
| user | `Launch DoResume DoKill DoJobs DoHistory DoQuit`, an empty line | `eval`, builtins |
| main thread, launch | `Fork AddJob AddProc Unmask` | `do_job`, `do_stage`, `do_pipeline` |
| main thread, resume | `ResumeCont ResumeDone` | `resumejob` |
| main thread, kill, quit | `Kill ShutdownJob ShutdownEnd` | `killjob`, `shutdownjobs` |
| main thread, monitor | `GiveTerminal WhileStopped ContForeground SleepStopped WhileRunning SleepRunning Reread Remask FinishStopped FinishFinished FinishRunning` | `monitorjob` |
| main thread, prompt | `LoopEnd` | `main` |
| handler | `HandlerEnter HandlerWaitpid HandlerRecord HandlerWaitpidNone HandlerReturn` | `sigchld_handler` |
| children | `ChildStart Exit Stop OtherCont OtherKill SetModes` | code between `Fork` and `execve`; the program; others |

  `pc` is named after the call the main thread makes next. The mask is the
  variable `blocked`; the handler is enabled when SIGCHLD is pending and not
  blocked, or the main thread is inside `sigsuspend`. `life`, `group`, `event`,
  `term` and `sigchld` are what the kernel knows of the children: their life
  cycle, group, the status change `waitpid` has not reported yet (the kernel
  keeps the latest one), the pending SIGTERM and SIGCHLD.
  A pending signal that is not blocked is handled before the main thread goes
  on, except between the entry into the system call of `ContForeground` and the
  return of it: there a report may still come late.
  Ctrl-C is not among the actions of `JobControl`: it is added by `WatchJobs`.
  `died` is the exit in `unix_error`, `aborted` a failed assertion, `crashed` an
  access outside of an array, `exited` the ordinary end.
* `JobLifecycle` - the abstract specification: a job is absent, RUNNING, STOPPED
  or FINISHED, at most one job is in front, a job that runs stays in front, and a
  job is forgotten only when it has finished. `JobControl` instantiates it with the
  process of its group as the name of a job, the state in the table as its
  phase and the slot FG as the front (`ImplementsLifecycle`); a job starts with
  `addjob`, before its first process is entered.
* `WatchJobs` (EXTENDS `JobControl`) - the same system where one step of
  `JobControl` stands for several accesses that something can get between:
  `watchjobs()` as `main` and `jobs` call it, with SIGCHLD open (`WatchStart
  WatchPgid WatchState WatchStatus WatchMsg WatchClear WatchDelete WatchEnd`, one
  per access to the table), the end of `monitorjob()` call by call
  (`TakeTerminal AllocStopped MoveStopped DeleteForeground`), and Ctrl-C
  (`Interrupt`), whose `siglongjmp` may leave any of this, and the handler, half
  done. `reports` counts the messages that a job has ended.
* `MCJobControl`, `MCWatchJobs` - the model values for TLC; the first has the
  symmetry of process ids.
* `JobControlProofs` (the operators of the table, and types; what table, handler and
  kernel know of each process; each slot by itself), `JobGroups` (process groups, the
  job in front) and `JobOwnership` (children, the end of `monitorjob`, the
  refinement) - the proofs about `JobControl`, each EXTENDS the one before. `WatchJobsProofs` EXTENDS `JobOwnership`
  and `WatchJobs`.
* `Pipeline` - the descriptors of jobs and pipelines: `do_redir`, `mkpipe`,
  `do_job`, `do_stage`, `do_pipeline` in the shell (`Eval FirstStage MiddleStage
  LastStage Redirect Redirected Fork CloseUsed`) and, for each child, the moves
  of its descriptors, `execve` or the builtin, and its end (`ChildRedirect
  ChildCommand ChildEnd`). `fd` is the descriptor table of every process,
  `cloexec` the descriptors with `FD_CLOEXEC`, `ends` the locals of
  `do_pipeline` (`input output next_input next_output`), `arg` the parameters of
  `do_stage` that `do_redir` overwrites. Ctrl-C jumps to the prompt between any two
  of these steps (`Interrupt`), in `mkpipe` before the two `fcntl` (`InterruptMkpipe`) and
  between two `MaybeClose` (`InterruptClose`); nothing is closed then. In a child that has
  not reached `execve` yet it jumps to the main loop, too (`InterruptChild`): a
  second shell, of which only the descriptors are modelled (`clone`). `lost` are the pipes that a
  process had open when it jumped, `bare` those of them without `FD_CLOEXEC` on both ends, `hits`
  counts. New descriptors are the lowest free
  ones; a failed `pipe` ends the shell (`died`), a failed `open` fails an
  assertion (`aborted`). The module shares no state with `JobControl`: jobs and
  groups are there, descriptors are here.
* `PipelineProofs` - the proofs about `Pipeline`.
* `MCPipeline` - the stages TLC puts command lines together from.

The sequential components have a module each. An action is one turn of a loop of
the code, or a call that has none.

| Module | Code | How state and actions correspond |
|---|---|---|
| `Lexer` | `lexer.c` | the line, the copy `tokenize` cuts into words, its pointer, the vector with its capacity; one action per turn of the loop |
| `Commands` | `command.c` | `builtin_command`, `do_chdir`, the test of the argument of `kill`, `expand_wildcard`, the search of `PATH`. A word is one of four kinds, told apart by what `glob` makes of it; a directory is one with the program, without, or the empty one; what lies in memory behind `PATH` is arbitrary, it may name a directory with the program (`TryBeyond`) |
| `Prompt` | `shell.c` | `set_line` and changes of the directory, on names as sequences of letters; where the `strcpy` within one buffer overlaps, the text behind the tilde is arbitrary. It has no property |
| `Rio` | `rio.c` | `rio_t` as `cnt`, `ptr` and `buf`, a byte is its position in the stream; `read` and `write` transfer any count up to the one asked for, are interrupted, or fail; one action per system call or copy |
| `OpenSocket` | `open_clientfd.c`, `open_listenfd.c` | the list of addresses, the open sockets, those that callers own; every call fails at will |
| `SafePrint` | `safe_printf.c` | the format character by character, arguments as numbers of two widths (half the number of values of int and of long) |
| `Trees`, `RBTree`, `Splay` | `tree.h` | a tree is a record of links (and colours); the loop of a macro takes one turn per action, `RB_FOREACH_SAFE` with the body removing the node |
| `Queues` | `queue.h` | `link` and `back`, the two fields every kind has; a macro is one action |
| `Hash` | `jenkins_hash.c` | which byte goes into which register at which shift, before every `mix` and `final` |
| `BitString` | `bitstring.h` | a byte is a set of positions |

`MCComponents` composes them for one run: `part` is the component that runs, the
others keep their state. `ComponentProofs`, `QueueProofs` and `LibraryProofs` have the
proofs about the sequential components.

Bounds: a process identifier is not used again (`Pids` is the supply of
children of a run), a pipeline has at most `MaxStages` stages, at most one
SIGTERM is pending for a process, and Ctrl-C comes at most `MaxInterrupts` (`WatchJobs`) or
`MaxCtrlC` (`Pipeline`) times; the proofs hold for every value of these constants. Slot arguments of `fg`,
`bg` and `kill` range over every slot of the table, one beyond it and, for `fg` and
`bg`, none.

## 3. Runs

| Run | Instance | Shows |
|---|---|---|
| `jobcontrol_stop` | 3 pids, pipelines of 2, stops | `TypeOK LiveChildOwned GroupIsJob NoAssertionFails` |
| `jobcontrol_signals` | 2 pids, stop, cont, kill, attributes | `NoLostNotification TableTracksKernel JobStateIsSummary MonitoredJobKept FreeSlotFinished` |
| `jobcontrol_live` | 2 pids, stops, attributes, fairness | `TerminalAtPrompt EveryChildReaped FinishedJobLeaves`, and `ImplementsLifecycle`: the refinement of `JobLifecycle` |
| `watchjobs` | 2 pids, pipelines of 2, stops, 2 Ctrl-C | `WatchType ReportedOnce FreeSlotIdle ExitStatusKept` |
| `pipeline_descriptors` | 4 children, 6 descriptors beside the shell's own (0 to 3), redirections and builtins, any sequence of command lines, 1 Ctrl-C | `TypeOK StagesConnected ProgramDescriptors NoPipeAtPrompt` |
| `pipeline_ends` | 3 children, no redirections, empty stages, 2 Ctrl-C, fairness | `InputEnds OutputBreaks` |
| `components` | see below | one or two properties of each sequential component |
| `claim_monitor_wakes` | 1 pid | violated: lost wakeup in `monitorjob` |
| `claim_terminal_returned` | 1 pid, stop, cont | violated: state read twice |
| `claim_shutdown_waits` | 2 pids | violated: one sleep per job |
| `claim_stage_joins` | 2 pids | violated: `setpgid` in the child only |
| `claim_last_process` | 1 pid | violated: `watchjobs` with SIGCHLD open reads the processes of a job that the handler has deleted |

The properties of `components`:

| Part | Properties | Instance |
|---|---|---|
| all | `ComponentsType` | |
| robust I/O | `StreamInOrder` (bytes once and in order), `AnswerComplete` (a line ends with its newline, the limit or the end; a count is short only at the end) | stream of 5 bytes, newlines behind each other, a buffer of 2, counts up to 4 |
| sockets | `NoSocketLeak`, `NoListLeak` | 3 addresses, 3 sockets, one `close` that fails |
| lexer | `TokensAreWords`, `RoomForNull` | lines up to 5 over 6 characters, a vector that starts with room for one token and grows |
| commands | `FirstProgramRuns`, `ArgumentsArrive` | 3 arguments, 2 directories, 1 colon behind `PATH` |
| printing | `LineIsFormatted` | 2 items, int of 3 bits, long of 8 bits with the smallest number of both |
| prompt | none | names up to 4 over 3 letters |
| trees | `RedBlackTree`, `ForeachMeetsAll`, `SplayTree` | every sequence of calls on 6 nodes |
| lists | `ListsAgree` | 2 heads and 4 elements of each of the five kinds |
| hash | `HashesAgree` | keys up to 26 bytes (two mixes and every tail), four addresses, two byte orders |
| bit strings | `BitsAgree` | 9 bits: one full byte and the first bit of the next |

Where the code does less than its purpose suggests, the property says what it
does keep, and the comment above it names the exception.

* `TerminalAtPrompt` allows the attributes to be those a program in background has set:
  the stages of a pipeline inherit that the shell ignores SIGTTOU (`do_stage` does not undo it, `do_job`
  does), so `tcsetattr` works for them at any time (`SetModes`).
* `NoPipeAtPrompt`, `InputEnds` and `OutputBreaks` exempt the pipes in `lost`, and
  `ProgramDescriptors` those in `bare`: Ctrl-C leaves them open. What is shown is that nothing else does.
* `ExitStatusKept` exempts the last of several processes, whose status `watchjobs` clears while the job goes on,
  and `FreeSlotIdle` allows a free slot to be STOPPED: Ctrl-C between `allocjob` and `movejob` does that.
* `NoListLeak` leaves out the return after a failed `close`.
* `TokensAreWords` takes a tab behind a word for part of it.
* `FirstProgramRuns`: an empty directory ends the search, and behind the last directory
  the search goes on in other strings of the environment, where it may find a program.
* `ArgumentsArrive` has no condition on the order of options and patterns. It says what
  becomes of each word: it is as typed, or replaced by the files it matches, or, if another word was replaced,
  dropped. Only where the options stand in front and the program is searched in `PATH` are all patterns
  expanded; a program with a slash in its name gets them as typed.

Why the bounds are enough. Three children give a job in the foreground, one in
background and a free slot between them, or a pipeline of two stages beside
another job: all that `allocjob`, `movejob` and `watchjobs` tell apart. Two
children are needed for two changes behind one SIGCHLD and for two processes in
one job whose states differ; each can stop, go on and die as often as the
kernel lets it, so reports of any length of history occur. Deadlock is not
checked because the shell stops (`exited`, `died`, `aborted`), and because with
all identifiers used and the shell asleep for ever nothing moves; the second is
what the `claim_` runs are about.

Four stages are needed in `pipeline_descriptors`, and enough: the read end of the last pipe
is in `next_input` and in `input` in turn, so that the second, the third and the
last stage take different branches, and the fifth would repeat the third. The
stages are programs, and builtins with two output redirections and one
input redirection; with ten descriptors, those that redirections leave open in the shell
use up the supply within a run, so that `pipe` and `open` also fail. One Ctrl-C may hit each step of the shell or
a child, and command lines follow it. `pipeline_ends` has three children, which is
a stage with a neighbour on either side, or a pipeline of two and a command before or behind it; its stages
are programs, builtins and empty ones, and two Ctrl-C can hit the shell and a child, or two children.

`WatchJobs` takes two interrupts because the first can leave a free slot STOPPED
or a status unentered, and the second then meets that state. Six nodes make
red-black trees in which insertion and removal take every branch of their loops
(TLC's coverage of the run shows each action and disjunct taken); in the other
components the bounds lie beyond the border that the code tests: more than two
buffers, two growths of the vector, two mixes and every tail, one byte and a bit.

Fairness (`FairSpec` of `JobControl`): the main thread goes on when it can and a signal that is
pending and not blocked is delivered (both are the scheduler's), a child that
was forked gets to `setpgid`, and a pending SIGTERM ends a process that is not
stopped. Nothing is assumed of the user or of programs: they may run, or stay
stopped, for ever. `OtherCont` is left out of the liveness run because an
endless alternation of stop and continue keeps the handler in its loop, which
no program of the shell rules out; with it a job could also be put away while it
RUNs, which is the behaviour `claim_terminal_returned` shows. `FairSpec` of `Pipeline`: the shell's own
steps, the steps of a child up to its command, and the end of a builtin (true of
`cd`, `jobs` and `kill`; `fg`, `bg` or `quit` inside a pipeline may wait for ever,
with the ends of the pipes open); programs may run for ever.

## 4. Findings

Each `claim_` run states a comment of the code and TLC refutes it; the traces
are short and the `findings` of `PROJECT.json` say what happens and quote the
comment. Other hazards that the model reaches and that no comment speaks about
are in the list of hazards: `kill` of a group that does not exist ends the
shell (`died`), a job that stopped after the last report gets SIGTERM but no
SIGCONT, `resumejob` waits for RUNNING for ever when the job ends instead,
Ctrl-C during `monitorjob` leaves a job in the slot FG so that the
next `fg` fails the assertion of `movejob`, Ctrl-C between `allocjob` and `movejob`
leaves a free slot STOPPED, Ctrl-C in the handler loses the status of a child, Ctrl-C in `do_pipeline` leaves
ends of pipes open in the shell, so that their readers wait for ever, and Ctrl-C in `mkpipe` also hands them to
later programs, `kill` of a free slot that is STOPPED ends the shell, a pipeline in background may change the
attributes of the terminal under the prompt, a
job that somebody else continues or kills while `monitorjob` puts it away may be
announced twice.

## 5. Proofs

Assumptions on the constants are those of the modules: identifiers of processes
do not contain the shell's or "none", `MaxStages` is a positive number, `Events`
is any set of events, `MaxInterrupts` and `MaxCtrlC` are natural numbers. The set of process identifiers
and the length of the table are arbitrary. In `Pipeline` there are one child or more,
descriptors from 0 up to 4 or beyond (the shell holds 0 to 3 before its first prompt), and
`Stages` is any set of stages: with any sequence of redirections, of programs, builtins and
empty commands.

### Job control

* `JobControlProofs`: the operators of the table map tables to tables
  (`MovejobType`, `WatchjobsType`, ...); the slot that `allocjob` returns is free
  and not FG (`AllocjobIsFree`). `TypeCorrect`, `Spec => []TypeOK`: beside the types,
  `TypeOK` says that a stage is left to fork whenever `Fork` runs and that the slot the
  main thread works on lies inside of the table; the proof has one lemma per
  group of actions.
* `TableCorrect`, `Spec => []TableTracksKernel`.
  `TableTracksKernel` alone is not inductive: the handler could enter a status
  for a process that is not in the table yet, for one of two entries of it, or
  two statuses in the wrong order. `SafetyInv` rules this out: between `Fork` and
  the entry of the child SIGCHLD is blocked and the handler idle (`WindowClosed`,
  which is what `Sigprocmask` in `do_job` and `do_pipeline` is for); the child that
  waits to be entered has no entry yet, and has not been reported (`NewChild`); a
  status on its way, in the kernel or in the handler's hands, agrees with what
  the process last did (`ReportsAreCurrent`); every process has at most one entry,
  in an occupied slot (`TableSound`). The functions of the table only move
  or drop whole slots (lemma `Moved`), so that they keep `TableSound`.
* `NotificationsKept`, `Spec => []NoLostNotification`; inductive by
  itself.
* `FreeSlotsFinished` and `StatesSummarised`, `Spec =>
  []FreeSlotFinished` and `Spec => []JobStateIsSummary`. Both say something of each
  slot by itself, and every function of `jobs.c` is shown to take sound slots to
  sound slots (`SlotsSound`: a free slot is FINISHED and empty, the state of a job
  is the summary of its processes, only the last of several processes may have ended
  without its status). The exception is `addjob`, which leaves a RUNNING job
  without processes until `addproc`: `Launching` says that this happens in one
  slot only, between the two calls, with the handler shut out (`WindowClosed`). The set
  of states that a free slot may have is a parameter of the invariant.
* `JobGroups!GroupsAreJobs` and `JobGroups!MonitoredStays`, `Spec => []GroupIsJob` and
  `Spec => []MonitoredJobKept`. What a child's group is going to be is known at `fork`, although
  the child itself calls `setpgid` later: the group it is bound for (`aim`) is `pgarg` until then
  and `group` from then on. `GroupInv`: who has not called `setpgid` yet, or is gone, is in the
  shell's group (`GroupAtRest`), the leader of a group was forked before anybody is bound for it
  (`AimForked`), the processes of a job are bound for its group and no two slots have the same
  (`Grouping`), and the group of the job that is being launched is that of no other job and no
  other process (`NewGroup`: the leader was just forked, and a pid is not used twice). All that `watchjobs`, `movejob` and `allocjob` do is to rearrange slots
  (`Rearranged`, which composes). `FrontInv` adds that every job but the one being launched has
  processes, and that the group that has the terminal while `monitorjob` waits is that of the job in the slot FG.
* `JobOwnership!ChildrenOwned`, `AssertionsHold`, `PromptHasTerminal`: if "cont" is not in
  `Events`, `Spec` implies `[]LiveChildOwned`, `[]NoAssertionFails` and `[]TerminalAtPrompt`.
  `OwnerInv`: a process whose entry is FINISHED has been waited for and has no news (`Gone`);
  every live child has an entry, or is the one about to be entered; from the loop of
  `monitorjob` to its end the job in front does not run again (`Resting`), so that the branch
  that leaves it in the slot FG (`FinishRunning`) is never taken, and outside of `monitorjob`
  the slot FG is free whenever a job needs it (`FrontFree`). Where somebody else continues a job
  between the loop and its end, it is put away RUNNING or left in front:
  `claim_terminal_returned` shows that, and the hypothesis is what it teaches.
* `JobOwnership!LifecycleImplemented`: if neither "cont" nor "kill" is in `Events`, `Spec =>
  Lifecycle!LifeSpec`, the refinement of `JobLifecycle`, initial states to initial
  states and every step to a step or a stutter. `phases` gives the phase of every job from the
  table; a rearrangement of slots does not change it but for jobs that are dropped
  (`RearrangedPhases`, `DroppedPhases`), a status that the handler enters changes one phase, and not from FINISHED (`RecordPhases`).
  `FrontSettled` says that `monitorjob`, having left its loop, acts on the state that the
  job still has. "kill" has to be excluded, as a job that is found STOPPED and is
  killed before SIGCHLD is blocked again is put away as a stopped job though FINISHED. The
  hypothesis is about other programs only; the run with `Events` = {"stop", "modes"} is an instance of it.
* `WatchJobsProofs!FineTypeCorrect`, `FreeSlotsIdle` and `StatusesKept`, `FineSpec =>
  []WatchType`, `FineSpec => []FreeSlotIdle` and `FineSpec => []ExitStatusKept`: the invariant of
  the slots for the finer module, with STOPPED allowed for a free slot, which is all that Ctrl-C
  between `allocjob` and `movejob` can do to it. The steps `WatchJobs` shares with
  `JobControl` are not proved again: each is a step of the slots (`SlotStep`). For
  `ExitStatusKept` the access that clears a status must not meet a job that has ended since
  `watchjobs` read its state: `WatchInv` says that the handler, which can come in between, frees
  such a slot before it returns (`HandlerClears`), and that Ctrl-C, which can keep it from that,
  also ends this call of `watchjobs`.

Ctrl-C is in `WatchJobs` only, and the theorems about `JobControl` need that:
`siglongjmp` out of the handler between `waitpid` and the entry of the status loses
the status, and `TableTracksKernel`, `NoLostNotification` and `JobStateIsSummary`
do not hold from then on. Up to the first Ctrl-C they carry over:

* `WatchJobsProofs!ReportsOnce` and `CalmIsSafe`: if neither "cont" nor "kill" is in `Events`,
  `FineSpec` implies `[]ReportedOnce`, and `TableTracksKernel`, `GroupIsJob`, `LiveChildOwned`,
  `MonitoredJobKept`, `TerminalAtPrompt` and `NoLostNotification` hold between the fine steps until
  Ctrl-C comes or the shell ends. The invariant `CalmInv` contains those of `JobOwnership`
  and of the modules before it: a step that `WatchJobs` shares with `JobControl` keeps them by their
  own theorems, and the others only rearrange slots (lemma `AsideTable`), so that lemmas about
  `Rearranged` are enough. New are: `Parting`, from the end of the loop of `monitorjob` to its last
  call the handler is kept out and the job in front is in the state that was read;
  `NoneFinished`, whenever the handler is idle no job in background has finished; `Unended`, so
  `watchjobs` in the main thread can only take a slot that the handler has just freed for a job that
  ended, and ends in `exitcode` (`crashed`) before it announces anything; `LeaderFirst`, the first
  process of a job leads its group, so that of a job the handler announces nobody is left;
  and `Over`, nobody is bound for the group of a job that was announced, and no slot will have it
  again. Both hypotheses are needed, TLC refutes `ReportedOnce` without either: if somebody
  else continues or kills the job between the loop of `monitorjob` and its end, it
  is put into the background although it has ended by then, where main loop and
  handler may both announce it.

### Pipelines

`PipelineProofs!DescriptorsTyped`, `StagesAreConnected`, `ProgramsGetFilesOnly` and
`PromptHoldsNoPipe`: `Spec` implies `[]TypeOK`, `[]StagesConnected`, `[]ProgramDescriptors` and
`[]NoPipeAtPrompt`, for pipelines of any length, with the children in any order and any number of
Ctrl-C. The invariant is `PipeInv`.

* The four locals of `do_pipeline` take turns. `EndsInv` names them by the part they play in the
  stage under way: `source` is the read end the stage gets, `sink` the write end it gets, `spare`
  the read end kept for the next stage, `idle` is closed. Each holds the end it should, of
  the newest pipe or of the one before; every end of a pipe the shell has is in one of them, or in `lost`
  (`ShellFiles`). `ArgInv` is the loop invariant of `do_redir`: each of its two parameters is on the
  last redirection so far, or still on the local.
* A child is described by what it is going to read and to write (`inFile`, `outFile`), which is
  fixed at `fork` and which none of its own steps changes (`ChildInv`). So it does not
  matter how far behind the shell the children are.
* `Pairs`: two live children share a pipe exactly if one is the stage before the other. That is
  inductive with `Link` (of all children only the newest writes to the pipe that the next stage reads)
  and `Fresh` (nobody has the newest pipe before its stage is forked).
* New descriptors are the lowest free ones; that there is a lowest one is `LowestIsMember`, by
  well-founded induction on the finite sets `0 .. k`.

### Sequential components (`ComponentProofs`, `QueueProofs`, `LibraryProofs`)

* `StreamKept` and `AnswersComplete`, `RioSpec => []StreamInOrder`
  and `RioSpec => []AnswerComplete`, for every stream, set of newlines, size of the
  buffer and count. The invariant `RioInv` relates the position in the stream, the bytes
  in the buffer, those the running call has copied and those callers have been given: they
  follow each other without gap or overlap (`InOrder`, `Held`, `Balance`), and the counters of the
  running call add up to what was asked for (`Counts`).
* `SocketsKept` and `ListsKept`, `SocketSpec =>
  []NoSocketLeak` and `SocketSpec => []NoListLeak`. `AddressAtHand` is the strengthening: a
  call that holds a socket stands at an address of its list, and the socket is an open one.

* `NullFits` and `LineIsTokenized`, `LexerSpec => []RoomForNull` and `LexerSpec =>
  []TokensAreWords`, for lines of any length and every first size of the vector. In `LexInv` the
  pointer stands on a border between tokens (`Border`); behind it the line is untouched,
  in front of it everything but words is erased, except the character at the pointer, which is the end
  of the last word and is erased when the pointer passes it (`Cut`); the tokens stored are
  those that begin in front of the pointer (`Stored`). `OverWhite`, `OverWord` and
  `OverOperator` say that each turn of the loop ends on a border again.
* `SearchFindsProgram` and `ArgumentsExpanded`, `CommandsSpec => []FirstProgramRuns` and
  `CommandsSpec => []ArgumentsArrive`, for any number of arguments and directories. The
  search has passed over directories that neither have the program nor are empty (`Passed`), and over all of
  them before it goes on behind `PATH`. What the arguments
  become is a `FlattenSeq`, which the library defines by recursion: `FlattenExists` and `FlattenUnique`
  prove by well-founded induction that the function with those equations exists and is the only one. The list that
  `expand_wildcard` joins from the front is shown to be one outcome for each word (`JoinedMeets`,
  `FlattenMeets`), whatever words are options.
* `BitsKept`, `BitSpec => []BitsAgree`, for strings of any length. The inductive part (`BitInv`)
  says that the bytes hold the set; that the recursive search finds the
  least bit, or none, is `SearchFinds`, by induction on the distance from the end.
* `LinePrinted`, `PrintSpec => []LineIsFormatted`, for formats of any length, int and long of any width, and
  every number of them. `PrintInv`: the pointer stands between two items, inside the conversion of
  the next one or in the copied rest; the line can be cut into the texts of the items in front of it, and the
  arguments that are left belong to the items behind it (`ReadTo`). A numeral is the reversed output of the loop of
  divisions in `print_num`: its value is the number (`NumeralPrinted`, by induction on the number), also for the
  smallest one, whose negation wraps around to itself (`NumberSigned`), and for an unsigned
  int read from a signed one (`NumberUnsigned`).
* `QueueProofs!ListsLinked`, `QueuesSpec => []ListsAgree`, for any number of elements in the five kinds
  of lists. A list is a chain of different elements (`Chain`) that the links lead through and back (`Walk`), and
  `QueuesInv` says this of every head, and that no two heads share an element: without it a
  macro that changes one list could tear the other. What a macro stores is computed field by field from
  its text (`InsertAfterFields` to `MoveStored`), whatever places coincide; the stores are those of an insertion, a
  removal, a replacement or a joining at a place j of the chain (`Inserts`, `Removes`, ...), and one lemma for each
  of these puts the new walk together from parts of the old one (`InsertWalk`, `RemoveWalk`,
  `ReplaceWalk`, `ConcatWalk`, `MoveWalk`). The end of a queue and the predecessor in a tail queue, which the
  code finds by taking the address of a field for a head, follow from the walk (`PreviousFound`).
* `LibraryProofs!HashedAlike`, `HashSpec => []HashesAgree`, for keys of any length at any alignment in both
  byte orders. `HashInv`: the words mixed so far hold the key up to the pointer, and what is left
  has the length the loop counts. `SumsAre` is the heart: loads of words, halves or bytes
  put the same bytes at the same shifts, the bytes behind the end masked or never loaded.
* `LibraryProofs!SplayKeepsOrder`, `SplaySpec => []SplayTree`, for any number of nodes. `Tree(t, x, S)`: the
  links from x on lead through exactly the nodes of S, which are in the order of their keys. It exists
  with a function from each node to the nodes below it, so that no step of the proof has to follow links. While a
  splay runs, the nodes are in three pieces (`Cut`): the tree at the root, and what hangs on the left and the
  right (`Hung`), trees whose last link is stale, because the code writes it only when the next piece is hung
  there or the tree is assembled. A turn moves the root and its outer subtree from the middle to a side (`TurnCut`),
  a rotation keeps the middle (`RotateRoot`), and the assembly joins the pieces (`Assembled`); what stands at the
  root then is the key, or a node with none between it and the key (`SplayedCut`, `ClosestIsNext`). That the
  walk along the links, `subtree`, meets the nodes of `Tree`, and that `outermost` ends at
  the least, is well-founded induction over the sets of nodes below (`SubtreeRecursion`, `LeftmostIsLeast`).

### Only model-checked

* Liveness: `EveryChildReaped`, `FinishedJobLeaves`, `InputEnds`, `OutputBreaks` (fairness and ENABLED
  are out of the prover's reach).
* `RedBlackTree` and `ForeachMeetsAll`: they compare a loop with a recursive function (the nodes and the
  black height below a node). The induction over data this takes is
  done for the splay trees, which have one loop; the repair after a removal from a red-black tree, with
  its links upwards, was not attempted.
* `ComponentsType`, which only types the composition.

## 6. Not modelled

* Builtins inside a pipeline run on the child's copy of the job table; only their
  descriptors are modelled. `history` in a pipeline forks a grandchild.
* Process identifiers are not reused; a malformed index of `kill` (`%-3`) is not
  given, because it reads outside of the array.
* Text: the command of a job, what `history` prints. `find_bang` and the use of the
  history in `main` work on readline's expansion of `!` and on its lists.
* The terminal's own job control, SIGTTIN and SIGTTOU that stop a program (they are among the
  events that stop a child), and orphaned process groups. The shell ignores SIGTTOU, so its `tcsetpgrp` calls
  succeed; that the stages of a pipeline inherit this is in `SetModes`. `tty_open` runs once,
  before the first prompt; `tty_curpos` has no caller in the shell.
* What a child does after Ctrl-C made it a second shell on the same terminal: only the descriptors it holds.
* `set_line`: HOME not set, a directory whose name does not fit into the buffer, and text that runs over its end. The
  text that an overlapping `strcpy` leaves is arbitrary, so no property of the prompt holds.
* `rio.c`: `rio_readlineb` with `maxlen` 0, which writes its zero outside of what the caller gave.
* `safe_printf.c`: `%p`, which prints an address, and the NULL of `%s`; a line longer than the
  buffer writes past its end, which has no defined outcome.
* `tree.h`, `queue.h`: the `FOREACH` loops but `RB_FOREACH_SAFE` (a walk along the links,
  which is how the properties are stated), and the hook for augmented trees.
* `jenkins_hash.c`: the arithmetic of `mix` and `final`, the same text in every branch.
* The wrappers of stdio, memory and threads, and `setjmp`: one call, no order of
  steps to get wrong.

## 7. Plan

All safety properties but those of the red-black tree are proved. The predicate
`Tree` of `LibraryProofs` is a start for the latter: it lacks the colours, the parents
and the place at which the repair stands.
