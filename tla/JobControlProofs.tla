--------------------------- MODULE JobControlProofs ---------------------------
(***************************************************************************)
(* The job table without Ctrl-C, for every number of processes, stages and *)
(* kind of event: what is proved of the functions of the table (JobTable), *)
(* the types of JobControl, what table, handler and kernel know of each    *)
(* process, and each slot by itself.                                       *)
(***************************************************************************)
EXTENDS JobControl, FiniteSetTheorems, SequenceTheorems, TLAPS

(* A table with n slots. *)
Table(n) == [0 .. n - 1 -> Job]

(* A set of natural numbers that is not empty has a least element: its     *)
(* initial segments are finite sets, ordered by inclusion.                 *)
LEMMA LeastNat ==
  ASSUME NEW S \in SUBSET Nat, S # {}
  PROVE  \E m \in S : \A k \in S : m <= k
<1> DEFINE T == {1 .. k : k \in S}
           R == StrictSubsetOrdering(Nat)
<1>1. IsWellFoundedOn(R, FiniteSubsetsOf(Nat))
  BY FS_StrictSubsetOrderingWellFounded
<1>2. T \subseteq FiniteSubsetsOf(Nat)
  <2> SUFFICES ASSUME NEW k \in S PROVE 1 .. k \in FiniteSubsetsOf(Nat)
    OBVIOUS
  <2> QED BY FS_Interval DEF FiniteSubsetsOf
<1>3. T # {}
  OBVIOUS
<1>4. PICK x \in T : \A y \in T : <<y, x>> \notin R
  <2> HIDE DEF T, R
  <2> QED BY <1>1, <1>2, <1>3, WFMin
<1>5. PICK m \in S : x = 1 .. m
  OBVIOUS
<1>6. ASSUME NEW k \in S, k < m PROVE FALSE
  <2>1. 1 .. k \subseteq 1 .. m /\ 1 .. k # 1 .. m
    <3>1. m \in 1 .. m /\ m \notin 1 .. k
      BY <1>6
    <3> QED BY <3>1, <1>6
  <2>2. <<1 .. k, 1 .. m>> \in R
    BY <2>1 DEF StrictSubsetOrdering
  <2> QED BY <2>2, <1>4, <1>5
<1> QED BY <1>6

(* A bounded one has a greatest element.                                   *)
LEMMA GreatestNat ==
  ASSUME NEW n \in Nat, NEW S \in SUBSET (0 .. n), S # {}
  PROVE  \E m \in S : \A k \in S : k <= m
<1> DEFINE D == {n - k : k \in S}
<1>1. D \in SUBSET Nat /\ D # {}
  <2>1. \A k \in S : n - k \in Nat
    OBVIOUS
  <2> QED BY <2>1
<1>2. PICK d \in D : \A e \in D : d <= e
  <2> HIDE DEF D
  <2> QED BY <1>1, LeastNat
<1>3. PICK m \in S : d = n - m
  OBVIOUS
<1>4. \A k \in S : n - m <= n - k
  BY <1>2, <1>3
<1> QED BY <1>4

-------------------------------------------------------------------------------
(* Slots. *)

(* allocjob() returns a free slot in background, or the next new one.      *)
LEMMA AllocjobIsFree ==
  ASSUME NEW n \in Nat \ {0}, NEW tab \in Table(n)
  PROVE  /\ allocjob(tab, n) \in 1 .. n
         /\ allocjob(tab, n) # n => tab[allocjob(tab, n)].pgid = NoPid
<1> DEFINE free == freeSlots(tab, n)
<1>1. free \subseteq 1 .. n - 1 /\ \A j \in free : tab[j].pgid = NoPid
  BY DEF freeSlots, BG
<1>2. CASE free = {}
  BY <1>2 DEF allocjob
<1>3. CASE free # {}
  <2>1. \E j \in free : \A k \in free : j <= k
    BY <1>1, <1>3, LeastNat
  <2>2. allocjob(tab, n) \in free
    BY <1>3, <2>1 DEF allocjob
  <2> QED BY <1>1, <2>2
<1> QED BY <1>2, <1>3

(* The slot that is added is a free one.                                   *)
LEMMA ZeroJobType == ZeroJob \in Job
BY EmptySeq DEF ZeroJob, Job, States, FINISHED

(* The table with room for slot j.                                         *)
LEMMA GrownType ==
  ASSUME NEW n \in Nat \ {0}, NEW tab \in Table(n), NEW j \in 0 .. n
  PROVE  /\ grown(tab, j) \in Table(IF j = n THEN n + 1 ELSE n)
         /\ \A k \in 0 .. n - 1 : grown(tab, j)[k] = tab[k]
         /\ j = n => grown(tab, j)[j] = ZeroJob
<1>1. DOMAIN tab \cup {j} = 0 .. (IF j = n THEN n + 1 ELSE n) - 1
  BY DEF Table
<1> QED BY <1>1, ZeroJobType DEF grown, Table

(* The slot that addjob() fills.                                           *)
LEMMA NewJobType ==
  ASSUME NEW pgid \in Pids \cup {NoPid}
  PROVE  newJob(pgid) \in Job
BY EmptySeq DEF newJob, Job, States, RUNNING

(* The entry that addproc() appends.                                       *)
LEMMA NewProcType ==
  ASSUME NEW pid \in Pids
  PROVE  newProc(pid) \in Proc
BY DEF newProc, Proc, States, RUNNING

(* movejob() keeps the size of the table and the type of its slots.        *)
LEMMA MovejobType ==
  ASSUME NEW n \in Nat, NEW tab \in Table(n), NEW from \in 0 .. n - 1, NEW to \in 0 .. n - 1
  PROVE  movejob(tab, from, to) \in Table(n)
BY ZeroJobType DEF movejob, Table

(* A freed slot is a slot.                                                 *)
LEMMA DeljobType ==
  ASSUME NEW rec \in Job
  PROVE  deljob(rec) \in Job
BY EmptySeq DEF deljob, Job

-------------------------------------------------------------------------------
(* Entries. *)

(* What it means to be an entry of process p.                              *)
LEMMA EntriesOf ==
  ASSUME NEW n \in Nat, NEW tab \in Table(n), NEW pid
  PROVE  \A e : e \in entriesOf(tab, pid) <=>
           \E j \in 0 .. n - 1 : \E i \in 1 .. Len(tab[j].proc) :
             e = <<j, i>> /\ tab[j].pgid # NoPid /\ tab[j].proc[i].pid = pid
<1>1. DOMAIN tab = 0 .. n - 1
  BY DEF Table
<1>2. \A j \in 0 .. n - 1 : DOMAIN tab[j].proc = 1 .. Len(tab[j].proc)
  <2> SUFFICES ASSUME NEW j \in 0 .. n - 1
               PROVE  DOMAIN tab[j].proc = 1 .. Len(tab[j].proc)
    OBVIOUS
  <2>1. tab[j].proc \in Seq(Proc)
    BY DEF Table, Job
  <2> QED BY <2>1, LenProperties
<1>3. \A e : e \in entriesOf(tab, pid) <=>
        \E j \in DOMAIN tab : \E i \in DOMAIN tab[j].proc :
          e = <<j, i>> /\ tab[j].pgid # NoPid /\ tab[j].proc[i].pid = pid
  <2> DEFINE U == UNION {{j} \X DOMAIN tab[j].proc : j \in DOMAIN tab}
  <2>1. \A e : e \in U <=> \E j \in DOMAIN tab : e \in {j} \X DOMAIN tab[j].proc
    OBVIOUS
  <2>2. \A e : e \in U <=>
          \E j \in DOMAIN tab : \E i \in DOMAIN tab[j].proc : e = <<j, i>>
    BY <2>1
  <2>3. entriesOf(tab, pid) =
          {e \in U : tab[e[1]].pgid # NoPid /\ tab[e[1]].proc[e[2]].pid = pid}
    BY DEF entriesOf
  <2> HIDE DEF U
  <2> QED BY <2>2, <2>3
<1> QED BY <1>1, <1>2, <1>3

(* If the pid is in the table at all, the handler finds an entry of it.    *)
LEMMA FirstEntry ==
  ASSUME NEW n \in Nat, NEW tab \in Table(n), NEW pid, entriesOf(tab, pid) # {}
  PROVE  firstEntry(tab, pid) \in entriesOf(tab, pid)
<1> DEFINE E == entriesOf(tab, pid)
           S == {e[1] : e \in E}
<1>1. \A e \in E : e = <<e[1], e[2]>> /\ e[1] \in Nat /\ e[2] \in Nat
  <2> SUFFICES ASSUME NEW e \in E
               PROVE  e = <<e[1], e[2]>> /\ e[1] \in Nat /\ e[2] \in Nat
    OBVIOUS
  <2> PICK j \in 0 .. n - 1 : \E i \in 1 .. Len(tab[j].proc) : e = <<j, i>>
    BY EntriesOf
  <2> PICK i \in 1 .. Len(tab[j].proc) : e = <<j, i>>
    OBVIOUS
  <2>1. tab[j].proc \in Seq(Proc)
    BY DEF Table, Job
  <2> QED BY <2>1, LenProperties
<1> HIDE DEF E
<1>2. PICK j \in S : \A k \in S : j <= k
  <2>1. S \in SUBSET Nat /\ S # {}
    BY <1>1 DEF E
  <2> HIDE DEF S
  <2> QED BY <2>1, LeastNat
<1> DEFINE I == {e[2] : e \in {f \in E : f[1] = j}}
<1>3. PICK i \in I : \A k \in I : i <= k
  <2>1. I \in SUBSET Nat /\ I # {}
    BY <1>1
  <2> HIDE DEF I
  <2> QED BY <2>1, LeastNat
<1>4. PICK e \in E : e[1] = j /\ e[2] = i
  OBVIOUS
<1>5. \A f \in E : e[1] < f[1] \/ (e[1] = f[1] /\ e[2] <= f[2])
  BY <1>1, <1>2, <1>3, <1>4
<1> QED BY <1>5 DEF firstEntry, E

(* States of processes and jobs.                                          *)
LEMMA StateTypes ==
  /\ \A status \in Status : stateAfter(status) \in States
  /\ \A proc : job_state(proc) \in States
BY DEF Status, Exited, Stopped, Continued, stateAfter, job_state, States,
       RUNNING, STOPPED, FINISHED

(* An entry after the report of a status.                                  *)
LEMMA RecordedType ==
  ASSUME NEW rec \in Job, NEW i \in 1 .. Len(rec.proc), NEW status \in Status
  PROVE  recorded(rec, i, status) \in Job
<1>1. rec.proc \in Seq(Proc)
  BY DEF Job
<1> DEFINE new  == [rec.proc[i] EXCEPT !.state = stateAfter(status), !.exitcode = status]
           proc == [rec.proc EXCEPT ![i] = new]
<1>2. new \in Proc
  <2>1. rec.proc[i] \in Proc
    BY <1>1, ElementOfSeq
  <2> QED BY <2>1, StateTypes DEF Proc
<1>3. proc \in Seq(Proc)
  BY <1>1, <1>2, ExceptSeq
<1>4. proc = [rec.proc EXCEPT ![i].state = stateAfter(status), ![i].exitcode = status]
  BY <1>1, LenProperties
<1> HIDE DEF new, proc
<1>5. recorded(rec, i, status) = [rec EXCEPT !.proc = proc, !.state = job_state(proc)]
  BY <1>4 DEF recorded
<1>6. job_state(proc) \in States
  BY StateTypes
<1> QED BY <1>3, <1>5, <1>6 DEF Job

(* The handler keeps the shape of the table.                               *)
LEMMA RecordType ==
  ASSUME NEW n \in Nat, NEW tab \in Table(n), NEW pid, NEW status \in Status
  PROVE  record(tab, pid, status) \in Table(n)
<1>1. CASE entriesOf(tab, pid) = {}
  BY <1>1 DEF record
<1>2. CASE entriesOf(tab, pid) # {}
  <2> DEFINE e == firstEntry(tab, pid)
  <2>1. e \in entriesOf(tab, pid)
    BY <1>2, FirstEntry
  <2> PICK j \in 0 .. n - 1 : \E i \in 1 .. Len(tab[j].proc) : e = <<j, i>>
    BY <2>1, EntriesOf
  <2>2. PICK i \in 1 .. Len(tab[j].proc) : e = <<j, i>>
    OBVIOUS
  <2>3. recorded(tab[j], i, status) \in Job
    BY RecordedType DEF Table
  <2>4. record(tab, pid, status) = [tab EXCEPT ![e[1]] = recorded(tab[e[1]], e[2], status)]
    BY <1>2 DEF record
  <2> HIDE DEF e
  <2>5. e[1] = j /\ e[2] = i
    BY <2>2
  <2> QED BY <2>3, <2>4, <2>5 DEF Table
<1> QED BY <1>1, <1>2

-------------------------------------------------------------------------------
(* watchjobs(). *)

(* A slot whose last status was reported.                                  *)
LEMMA ClearStatusType ==
  ASSUME NEW rec \in Job
  PROVE  clearStatus(rec) \in Job
<1>1. rec.proc \in Seq(Proc)
  BY DEF Job
<1>2. CASE rec.proc = << >>
  BY <1>1, <1>2, LenProperties DEF clearStatus, Job
<1>3. CASE rec.proc # << >>
  <2> DEFINE i    == Len(rec.proc)
             new  == [rec.proc[i] EXCEPT !.exitcode = NoStatus]
             proc == [rec.proc EXCEPT ![i] = new]
  <2>1. i \in 1 .. Len(rec.proc)
    BY <1>1, <1>3, EmptySeq
  <2>2. new \in Proc
    <3>1. rec.proc[i] \in Proc
      BY <1>1, <2>1, ElementOfSeq
    <3> QED BY <3>1 DEF Proc
  <2>3. proc \in Seq(Proc)
    BY <1>1, <2>1, <2>2, ExceptSeq
  <2>4. clearStatus(rec) = [rec EXCEPT !.proc = proc]
    BY DEF clearStatus
  <2> HIDE DEF proc
  <2> QED BY <2>3, <2>4 DEF Job
<1> QED BY <1>2, <1>3

(* A slot after its report.                                                *)
LEMMA WatchjobType ==
  ASSUME NEW rec \in Job, NEW which
  PROVE  watchjob(rec, which) \in Job
BY ClearStatusType, DeljobType DEF watchjob

(* watchjobs() keeps the size of the table and the type of its slots.      *)
LEMMA WatchjobsType ==
  ASSUME NEW n \in Nat, NEW tab \in Table(n), NEW which
  PROVE  /\ watchjobs(tab, which) \in Table(n)
         /\ \A j \in 0 .. n - 1 : j < BG => watchjobs(tab, which)[j] = tab[j]
BY WatchjobType DEF watchjobs, Table, BG

-------------------------------------------------------------------------------
(* The types of the kernel's variables under the calls of the shell. *)

(* What a change in the life of a child leaves behind.                     *)
LEMMA ChangeType ==
  ASSUME KernelType, NEW p \in Pids, NEW to \in Lives, NEW status \in Status,
         Change(p, to, status)
  PROVE  /\ life' \in [Pids -> Lives]
         /\ event' \in [Pids -> Status \cup {NoStatus}]
         /\ sigchld' = TRUE
BY DEF KernelType, Change

(* What SIGCONT to a set of processes leaves behind.                       *)
LEMMA ContinueType ==
  ASSUME KernelType, NEW S, Continue(S)
  PROVE  /\ life' \in [Pids -> Lives]
         /\ event' \in [Pids -> Status \cup {NoStatus}]
         /\ sigchld' \in BOOLEAN
<1>1. life' \in [Pids -> Lives]
  BY DEF KernelType, Continue, Lives
<1>2. event' \in [Pids -> Status \cup {NoStatus}]
  BY DEF KernelType, Continue, Status
<1>3. sigchld' \in BOOLEAN
  BY DEF Continue
<1> QED BY <1>1, <1>2, <1>3

(* watchjobs() in the main thread keeps the shape of the table.            *)
LEMMA WatchThenType ==
  ASSUME njobmax \in Nat \ {0}, NEW t \in Table(njobmax), NEW which, NEW next,
         WatchThen(t, which, next)
  PROVE  jobs' \in Table(njobmax) /\ pc' \in {next, "crashed"}
BY WatchjobsType DEF WatchThen, Goto

-------------------------------------------------------------------------------
(* Type correctness. *)

(* main() and initjobs() set up a state of the right type.                 *)
LEMMA InitType == Init => TypeOK
<1> SUFFICES ASSUME Init PROVE TypeOK
  OBVIOUS
<1>1. TableType
  BY ZeroJobType DEF Init, TableType
<1>2. FlagType
  BY DEF Init, FlagType
<1>3. MainType
  BY StagesAssumption DEF Init, MainType, Open, FG, States, FINISHED
<1>4. HandlerType
  BY DEF Init, HandlerType
<1>5. KernelType
  BY DEF Init, KernelType, Lives, Modes
<1> QED BY <1>1, <1>2, <1>3, <1>4, <1>5 DEF TypeOK

(* Steps of a child.                                                       *)
LEMMA ChildType ==
  ASSUME TypeOK, NEW p \in Pids, ChildStep(p)
  PROVE  TypeOK'
<1> USE DEF TypeOK
<1>1. /\ UNCHANGED <<jobs, njobmax, pc, todo, lead, newpid, job, state, hpc, hpid, hstatus>>
      /\ UNCHANGED <<blocked, bg>>
  BY DEF ChildStep, ChildStart, Exit, Stop, OtherCont, OtherKill, SetModes,
         table, command, handler
<1>2. TableType' /\ MainType' /\ HandlerType'
  BY <1>1 DEF TableType, MainType, HandlerType
<1>3. KernelType' /\ sigchld' \in BOOLEAN
  <2>1. CASE ChildStart(p)
    <3>1. life' \in [Pids -> Lives] /\ event' \in [Pids -> Status \cup {NoStatus}]
      BY <2>1, ChangeType DEF ChildStart, KernelType, Lives, Status
    <3>2. sigchld' \in BOOLEAN
      BY <2>1, ChangeType DEF ChildStart, FlagType, Lives, Status
    <3>3. group' \in [Pids -> Pids \cup {Shell}]
      BY <2>1 DEF ChildStart, KernelType
    <3> QED BY <2>1, <3>1, <3>2, <3>3 DEF ChildStart, KernelType, termio
  <2>2. CASE Exit(p)
    BY <2>2, ChangeType DEF Exit, KernelType, termio, Lives, Status
  <2>3. CASE Stop(p)
    BY <2>3, ChangeType DEF Stop, KernelType, termio, Lives, Status
  <2>4. CASE OtherCont(p)
    BY <2>4, ChangeType DEF OtherCont, KernelType, termio, Lives, Status
  <2>5. CASE OtherKill(p)
    BY <2>5, ChangeType DEF OtherKill, KernelType, termio, Lives, Status
  <2>6. CASE SetModes(p)
    BY <2>6 DEF SetModes, KernelType, FlagType, procs, Modes
  <2> QED BY <2>1, <2>2, <2>3, <2>4, <2>5, <2>6 DEF ChildStep
<1>4. FlagType'
  BY <1>1, <1>3 DEF FlagType
<1> QED BY <1>2, <1>3, <1>4

(* Steps of the SIGCHLD handler.                                           *)
LEMMA HandlerStepType ==
  ASSUME TypeOK, HandlerStep
  PROVE  TypeOK'
<1> USE DEF TypeOK
<1>1. UNCHANGED <<njobmax, todo, lead, newpid, job, state, pgarg, term, tty, modes>>
  BY DEF HandlerStep, HandlerEnter, HandlerWaitpid, HandlerRecord, HandlerWaitpidNone,
         HandlerReturn, table, command, procs, termio
<1>2. FlagType'
  BY DEF HandlerStep, HandlerEnter, HandlerWaitpid, HandlerRecord, HandlerWaitpidNone,
         HandlerReturn, command, procs, FlagType
<1>3. TableType'
  <2>1. CASE HandlerRecord
    BY <1>1, <2>1, RecordType DEF HandlerRecord, TableType, HandlerType, Table
  <2>2. CASE HandlerReturn
    BY <1>1, <2>2, WatchjobsType DEF HandlerReturn, TableType, Table
  <2>3. CASE ~HandlerRecord /\ ~HandlerReturn
    BY <2>3 DEF HandlerStep, HandlerEnter, HandlerWaitpid, HandlerWaitpidNone,
                TableType, table
  <2> QED BY <2>1, <2>2, <2>3
<1>4. MainType'
  <2>1. CASE HandlerReturn
    BY <1>1, <2>1 DEF HandlerReturn, MainType, awake, Critical, Open, Terminal
  <2>2. CASE ~HandlerReturn
    <3>1. pc' = pc
      BY <2>2 DEF HandlerStep, HandlerEnter, HandlerWaitpid, HandlerRecord, HandlerWaitpidNone
    <3> QED BY <1>1, <3>1 DEF MainType
  <2> QED BY <2>1, <2>2
<1>5. HandlerType' /\ KernelType'
  <2>1. CASE HandlerEnter
    BY <2>1 DEF HandlerEnter, HandlerType, KernelType, termio
  <2>2. ASSUME NEW p \in Pids, HandlerWaitpid(p) PROVE HandlerType' /\ KernelType'
    <3>1. HandlerType'
      BY <2>2 DEF HandlerWaitpid, HandlerType, KernelType
    <3>2. KernelType'
      BY <1>1, <2>2 DEF HandlerWaitpid, KernelType, Lives
    <3> QED BY <3>1, <3>2
  <2>3. CASE HandlerRecord
    BY <2>3 DEF HandlerRecord, HandlerType, KernelType, procs, termio, afterRecord
  <2>4. CASE HandlerWaitpidNone
    BY <2>4 DEF HandlerWaitpidNone, HandlerType, KernelType, procs, termio
  <2>5. CASE HandlerReturn
    BY <2>5 DEF HandlerReturn, HandlerType, KernelType, procs, termio
  <2> QED BY <2>1, <2>2, <2>3, <2>4, <2>5 DEF HandlerStep
<1> QED BY <1>2, <1>3, <1>4, <1>5

(* Steps of the main thread that change neither the table nor the kernel.  *)
LEMMA QuietType ==
  ASSUME TypeOK, UNCHANGED <<table, handler, procs, termio>>,
         MainType', blocked' \in BOOLEAN, bg' \in BOOLEAN
  PROVE  TypeOK'
<1> USE DEF TypeOK
<1>1. TableType' /\ HandlerType' /\ KernelType'
  BY DEF TableType, HandlerType, KernelType, table, handler, procs, termio
<1>2. FlagType'
  BY DEF FlagType, procs
<1> QED BY <1>1, <1>2

(* The types of the main thread from those of the variables that changed.  *)
LEMMA MainTypeStep ==
  ASSUME MainType, NEW at \in Critical \cup Open \cup Terminal, pc' = at,
         todo' \in 0 .. MaxStages, at = "fork" => todo' > 0,
         UNCHANGED <<lead, newpid, state>>, at \notin {"addjob", "addproc"},
         job' \in Nat,
         at \notin {"shutdown", "asleep shutdown"} \cup Terminal => job' < njobmax'
  PROVE  MainType'
BY DEF MainType

(* Steps that leave all but the program counter of the main thread alone.  *)
LEMMA GotoType ==
  ASSUME TypeOK, UNCHANGED <<todo, lead, newpid, job, state, njobmax>>,
         pc' \in Critical \cup Open \cup Terminal,
         pc' \notin {"fork", "addjob", "addproc"},
         pc \notin {"shutdown", "asleep shutdown"} \cup Terminal
  PROVE  MainType'
BY DEF TypeOK, MainType

(* Steps of the main thread that only move on.                             *)
LEMMA WaitType ==
  ASSUME TypeOK, NEW at, NEW next \in Critical \cup Open \cup Terminal,
         next \notin {"fork", "addjob", "addproc"},
         at \notin {"shutdown", "asleep shutdown"} \cup Terminal,
         Wait(at, next)
  PROVE  TypeOK'
<1>1. MainType'
  BY GotoType DEF Wait, MainAt, Goto, table, command
<1>2. blocked' \in BOOLEAN /\ bg' \in BOOLEAN
  BY DEF TypeOK, FlagType, Wait, command
<1> QED BY <1>1, <1>2, QuietType DEF Wait, UnchangedKernel

(* The job that `fg' and `bg' choose is in the table, if there is one.     *)
LEMMA ChosenType ==
  ASSUME TypeOK, NEW arg \in -1 .. njobmax, ~notFound(chosen(arg))
  PROVE  chosen(arg) \in 0 .. njobmax - 1
<1> DEFINE live == {j \in BG .. njobmax - 1 : jobs[j].state # FINISHED}
<1>1. njobmax \in Nat \ {0}
  BY DEF TypeOK, TableType
<1>2. CASE arg >= 0
  BY <1>1, <1>2 DEF chosen, notFound
<1>3. CASE arg < 0 /\ live = {}
  BY <1>1, <1>3 DEF chosen, FG
<1>4. CASE arg < 0 /\ live # {}
  <2>1. live \subseteq 0 .. njobmax - 1
    BY <1>1 DEF BG
  <2>2. \E j \in live : \A k \in live : k <= j
    <3>1. live \in SUBSET (0 .. njobmax - 1) /\ njobmax - 1 \in Nat /\ live # {}
      BY <1>1, <1>4, <2>1
    <3> HIDE DEF live
    <3> QED BY <3>1, GreatestNat
  <2>3. chosen(arg) \in live
    BY <1>4, <2>2 DEF chosen
  <2> QED BY <2>1, <2>3
<1> QED BY <1>1, <1>2, <1>3, <1>4

(* What the user types.                                                    *)
LEMMA UserType ==
  ASSUME TypeOK, User
  PROVE  TypeOK'
<1>t. MainType /\ njobmax \in Nat \ {0}
  BY DEF TypeOK, TableType
<1>p. pc = "readline" /\ job \in Nat /\ job < njobmax
  <2>1. pc = "readline"
    BY DEF User, Launch, DoResume, DoKill, DoJobs, DoHistory, DoQuit, Wait, MainAt
  <2> QED BY <2>1, <1>t DEF MainType, Terminal
<1>1. ASSUME NEW n \in 1 .. MaxStages, \E inBg \in BOOLEAN : Launch(n, inBg)
      PROVE  TypeOK'
  <2>1. MainType'
    <3>1. pc' = "fork" /\ todo' = n /\ UNCHANGED <<lead, newpid, job, state, njobmax>>
      BY <1>1 DEF Launch, Goto, table
    <3>2. todo' \in 0 .. MaxStages /\ todo' > 0
      BY <3>1, StagesAssumption
    <3>3. job' \in Nat /\ job' < njobmax'
      BY <1>p, <3>1
    <3>4. pc' \in Critical \cup Open \cup Terminal
      BY <3>1 DEF Critical
    <3> QED BY <1>t, <3>1, <3>2, <3>3, <3>4 DEF MainType
  <2>2. blocked' \in BOOLEAN /\ bg' \in BOOLEAN
    BY <1>1 DEF Launch
  <2> QED BY <1>1, <2>1, <2>2, QuietType DEF Launch, procs, termio
<1>2. ASSUME NEW arg \in -1 .. njobmax, \E inBg \in BOOLEAN : DoResume(arg, inBg)
      PROVE  TypeOK'
  <2>1. MainType'
    <3>1. CASE notFound(chosen(arg))
      <4>1. UNCHANGED <<todo, lead, newpid, state, job, njobmax>> /\ pc' = "unmask"
        BY <1>2, <3>1 DEF DoResume, Goto, table
      <4> QED BY <1>t, <1>p, <4>1, MainTypeStep DEF MainType, Critical
    <3>2. CASE ~notFound(chosen(arg))
      <4>1. chosen(arg) \in 0 .. njobmax - 1
        BY <3>2, ChosenType
      <4>2. UNCHANGED <<todo, lead, newpid, state, njobmax>> /\ pc' = "resume" /\ job' = chosen(arg)
        BY <1>2, <3>2 DEF DoResume, Goto, table
      <4>3. job' \in Nat /\ job' < njobmax'
        BY <1>t, <4>1, <4>2
      <4> QED BY <1>t, <4>2, <4>3, MainTypeStep DEF MainType, Critical
    <3> QED BY <3>1, <3>2
  <2>2. blocked' \in BOOLEAN /\ bg' \in BOOLEAN
    BY <1>2 DEF DoResume, TypeOK, FlagType
  <2> QED BY <1>2, <2>1, <2>2, QuietType DEF DoResume, UnchangedKernel
<1>3. ASSUME NEW j \in 0 .. njobmax, DoKill(j)
      PROVE  TypeOK'
  <2>1. MainType'
    <3>1. /\ UNCHANGED <<todo, lead, newpid, state, njobmax>>
          /\ \/ pc' = "unmask" /\ job' = job
             \/ pc' = "kill" /\ job' = j /\ ~(j >= njobmax)
      BY <1>3 DEF DoKill, Goto, notFound, table
    <3>2. job' \in Nat /\ job' < njobmax'
      <4>1. j \in Nat /\ (~(j >= njobmax) => j < njobmax)
        BY <1>t
      <4> QED BY <1>p, <3>1, <4>1
    <3> QED BY <1>t, <3>1, <3>2, MainTypeStep DEF MainType, Critical
  <2>2. blocked' \in BOOLEAN /\ bg' \in BOOLEAN
    BY <1>3 DEF DoKill, TypeOK, FlagType
  <2> QED BY <1>3, <2>1, <2>2, QuietType DEF DoKill, UnchangedKernel
<1>4. CASE DoJobs
  <2>1. jobs' \in Table(njobmax) /\ pc' \in {"loopend", "crashed"}
    BY <1>4, WatchThenType DEF DoJobs, TypeOK, TableType, Table
  <2>2. TableType'
    BY <1>4, <2>1 DEF DoJobs, TypeOK, TableType, Table
  <2>3. MainType'
    <3>1. UNCHANGED <<todo, lead, newpid, job, state, njobmax>>
      BY <1>4 DEF DoJobs, command
    <3> QED BY <1>p, <2>1, <3>1, GotoType DEF Open, Terminal
  <2> QED BY <1>4, <2>2, <2>3 DEF DoJobs, TypeOK, FlagType, HandlerType, KernelType,
                                  UnchangedKernel, command, handler, procs, termio
<1>5. CASE DoHistory
  <2>1. MainType'
    <3>1. UNCHANGED <<todo, lead, newpid, job, state, njobmax>> /\ pc' = "loopend"
      BY <1>5 DEF DoHistory, Goto, table, command
    <3> QED BY <1>p, <3>1, GotoType DEF Open, Terminal
  <2>2. TableType' /\ HandlerType'
    BY <1>5 DEF DoHistory, TypeOK, TableType, HandlerType, table, handler
  <2>3. KernelType'
    BY <1>5 DEF DoHistory, TypeOK, KernelType, termio, Lives
  <2>4. FlagType'
    BY <1>5 DEF DoHistory, TypeOK, FlagType, command
  <2> QED BY <2>1, <2>2, <2>3, <2>4 DEF TypeOK
<1>6. CASE DoQuit
  <2>1. MainType'
    <3>1. UNCHANGED <<todo, lead, newpid, state>> /\ pc' = "shutdown" /\ job' = BG
      BY <1>6 DEF DoQuit, Goto
    <3> QED BY <1>t, <3>1 DEF MainType, Critical, BG
  <2>2. blocked' \in BOOLEAN /\ bg' \in BOOLEAN
    BY <1>6 DEF DoQuit, TypeOK, FlagType
  <2> QED BY <1>6, <2>1, <2>2, QuietType DEF DoQuit, UnchangedKernel
<1>7. CASE Wait("readline", "loopend")
  BY <1>7, WaitType DEF Open, Terminal
<1> QED BY <1>1, <1>2, <1>3, <1>4, <1>5, <1>6, <1>7 DEF User

(* Launching a job. *)
LEMMA LaunchType ==
  ASSUME TypeOK, Fork \/ AddJob \/ AddProc \/ Unmask
  PROVE  TypeOK'
<1>t. /\ MainType /\ njobmax \in Nat \ {0} /\ jobs \in Table(njobmax)
      /\ todo \in 0 .. MaxStages /\ job \in Nat
      /\ lead \in Pids \cup {NoPid} /\ newpid \in Pids \cup {NoPid} /\ state \in States
  BY DEF TypeOK, TableType, MainType, Table
<1>1. CASE Fork
  <2>1. PICK p \in unused : newpid' = p /\ life' = [life EXCEPT ![p] = "forked"]
                            /\ pgarg' = [pgarg EXCEPT ![p] = stageGroup]
                            /\ lead' = IF lead = NoPid THEN p ELSE lead
    BY <1>1 DEF Fork
  <2>2. p \in Pids
    BY DEF unused
  <2>3. TableType' /\ HandlerType'
    BY <1>1 DEF Fork, TypeOK, TableType, HandlerType, table, handler
  <2>4. KernelType'
    BY <1>1, <1>t, <2>1, <2>2 DEF Fork, TypeOK, KernelType, termio, Lives, stageGroup
  <2>5. FlagType'
    BY <1>1 DEF Fork, TypeOK, FlagType
  <2>6. MainType'
    <3>1. pc = "fork" /\ todo' = todo - 1 /\ UNCHANGED <<job, state, njobmax>>
      BY <1>1 DEF Fork, MainAt, table
    <3>2. pc' \in {"addjob", "addproc"}
      BY <1>1 DEF Fork, Goto
    <3>3. todo' \in 0 .. MaxStages /\ job' < njobmax'
      BY <1>t, <3>1, StagesAssumption DEF MainType, Terminal
    <3> QED BY <1>t, <2>1, <2>2, <3>1, <3>2, <3>3 DEF MainType, Critical
  <2> QED BY <2>3, <2>4, <2>5, <2>6 DEF TypeOK
<1>2. CASE AddJob
  <2> DEFINE j == IF bg THEN allocjob(jobs, njobmax) ELSE FG
  <2>1. j \in 0 .. njobmax
    BY <1>t, AllocjobIsFree DEF FG
  <2>2. /\ jobs' = [grown(jobs, j) EXCEPT ![j] = newJob(lead)]
        /\ njobmax' = IF j = njobmax THEN njobmax + 1 ELSE njobmax
        /\ job' = j
    BY <1>2 DEF AddJob
  <2> HIDE DEF j
  <2>3. TableType'
    <3>1. grown(jobs, j) \in Table(njobmax')
      BY <1>t, <2>1, <2>2, GrownType
    <3>2. newJob(lead) \in Job
      BY <1>t, NewJobType
    <3>3. njobmax' \in Nat \ {0}
      BY <1>t, <2>2
    <3> QED BY <2>2, <3>1, <3>2, <3>3 DEF TableType, Table
  <2>4. MainType'
    <3>1. pc = "addjob" /\ pc' = "addproc" /\ UNCHANGED <<todo, lead, newpid, state>>
      BY <1>2 DEF AddJob, MainAt, Goto
    <3>2. job' \in Nat /\ job' < njobmax'
      BY <1>t, <2>1, <2>2
    <3>3. newpid \in Pids
      BY <1>t, <3>1 DEF MainType
    <3> QED BY <1>t, <3>1, <3>2, <3>3 DEF MainType, Critical
  <2> QED BY <1>2, <2>3, <2>4 DEF AddJob, TypeOK, FlagType, HandlerType, KernelType,
                                  UnchangedKernel, handler, procs, termio
<1>3. CASE AddProc
  <2>1. pc = "addproc" /\ newpid \in Pids /\ job \in 0 .. njobmax - 1
    <3>1. pc = "addproc"
      BY <1>3 DEF AddProc, MainAt
    <3> QED BY <1>t, <3>1 DEF MainType, Terminal
  <2>2. TableType'
    <3> DEFINE new == [jobs[job] EXCEPT !.proc = Append(@, newProc(newpid))]
    <3>1. jobs[job] \in Job /\ jobs[job].proc \in Seq(Proc)
      BY <1>t, <2>1 DEF Table, Job
    <3>2. Append(jobs[job].proc, newProc(newpid)) \in Seq(Proc)
      BY <2>1, <3>1, NewProcType, AppendProperties
    <3>3. new \in Job
      BY <3>1, <3>2 DEF Job
    <3>4. jobs' = [jobs EXCEPT ![job] = new] /\ njobmax' = njobmax
      BY <1>3 DEF AddProc
    <3> HIDE DEF new
    <3> QED BY <1>t, <2>1, <3>3, <3>4 DEF TableType, Table
  <2>3. MainType'
    <3>1. /\ UNCHANGED <<todo, state, njobmax>> /\ newpid' = NoPid
          /\ \/ pc' = "fork" /\ todo > 0 /\ UNCHANGED <<lead, job>>
             \/ pc' \in {"unmask", "tcsetpgrp"} /\ lead' = NoPid /\ job' = FG
      BY <1>3 DEF AddProc, Goto, moreStages
    <3>2. job' \in Nat /\ job' < njobmax'
      BY <1>t, <2>1, <3>1 DEF FG
    <3> QED BY <1>t, <3>1, <3>2 DEF MainType, Critical
  <2>4. FlagType'
    BY <1>3 DEF AddProc, TypeOK, FlagType, UnchangedKernel, procs
  <2> QED BY <1>3, <2>2, <2>3, <2>4 DEF AddProc, TypeOK, HandlerType, KernelType,
                                        UnchangedKernel, handler, procs, termio
<1>4. CASE Unmask
  <2>1. MainType'
    <3>1. UNCHANGED <<todo, lead, newpid, job, state, njobmax>>
      BY <1>4 DEF Unmask, command, table
    <3>2. pc = "unmask" /\ pc' = "loopend"
      BY <1>4 DEF Unmask, MainAt, Goto
    <3> QED BY <3>1, <3>2, GotoType DEF Open, Terminal
  <2>2. blocked' \in BOOLEAN /\ bg' \in BOOLEAN
    BY <1>4 DEF Unmask, TypeOK, FlagType, command
  <2> QED BY <1>4, <2>1, <2>2, QuietType DEF Unmask, UnchangedKernel
<1> QED BY <1>1, <1>2, <1>3, <1>4

(* SIGTERM and SIGCONT to the group of a job.                              *)
LEMMA KillJobType ==
  ASSUME TypeOK, NEW j, NEW next, KillJob(j, next)
  PROVE  /\ life' \in [Pids -> Lives]
         /\ event' \in [Pids -> Status \cup {NoStatus}]
         /\ sigchld' \in BOOLEAN
         /\ term' \subseteq Pids
         /\ pc' \in {next, "died"}
<1>1. CASE ~(canKill(jobs[j].pgid) /\ jobs[j].state = STOPPED)
  <2>1. UNCHANGED <<life, event, sigchld>>
    BY <1>1 DEF KillJob
  <2>2. life' \in [Pids -> Lives] /\ event' \in [Pids -> Status \cup {NoStatus}]
    BY <2>1 DEF TypeOK, KernelType
  <2>3. sigchld' \in BOOLEAN
    BY <2>1 DEF TypeOK, FlagType
  <2>4. term' \subseteq Pids /\ pc' \in {next, "died"}
    BY DEF TypeOK, KernelType, KillJob, members, Goto
  <2> QED BY <2>2, <2>3, <2>4
<1>2. CASE canKill(jobs[j].pgid) /\ jobs[j].state = STOPPED
  <2>1. Continue(members(groupOf(jobs[j].pgid)))
    BY <1>2 DEF KillJob
  <2>2. /\ life' \in [Pids -> Lives] /\ event' \in [Pids -> Status \cup {NoStatus}]
        /\ sigchld' \in BOOLEAN
    BY <2>1, ContinueType DEF TypeOK
  <2>3. term' \subseteq Pids /\ pc' \in {next, "died"}
    BY DEF TypeOK, KernelType, KillJob, members, Goto
  <2> QED BY <2>2, <2>3
<1> QED BY <1>1, <1>2

(* Steps that send signals: the table and the terminal stay as they are.   *)
LEMMA SignalType ==
  ASSUME TypeOK, UNCHANGED <<table, handler, group, pgarg, termio>>, MainType',
         blocked' \in BOOLEAN, bg' \in BOOLEAN, sigchld' \in BOOLEAN,
         life' \in [Pids -> Lives], event' \in [Pids -> Status \cup {NoStatus}],
         term' \subseteq Pids
  PROVE  TypeOK'
<1>1. TableType' /\ HandlerType'
  BY DEF TypeOK, TableType, HandlerType, table, handler
<1>2. KernelType'
  BY DEF TypeOK, KernelType, termio
<1>3. FlagType'
  BY DEF FlagType
<1> QED BY <1>1, <1>2, <1>3 DEF TypeOK

(* Steps that change the table and the terminal.                           *)
LEMMA TableStepType ==
  ASSUME TypeOK, UNCHANGED <<handler, procs>>, TableType', MainType',
         blocked' \in BOOLEAN, bg' \in BOOLEAN,
         tty' \in Pids \cup {Shell}, modes' \in Modes
  PROVE  TypeOK'
<1>1. HandlerType'
  BY DEF TypeOK, HandlerType, handler
<1>2. KernelType'
  BY DEF TypeOK, KernelType, procs
<1>3. FlagType'
  BY DEF TypeOK, FlagType, procs
<1> QED BY <1>1, <1>2, <1>3 DEF TypeOK

(* The signals of resumejob(), killjob() and shutdownjobs().               *)
LEMMA SignalStepType ==
  ASSUME TypeOK, ResumeCont \/ Kill \/ ShutdownJob \/ ContForeground
  PROVE  TypeOK'
<1>t. MainType /\ njobmax \in Nat \ {0}
  BY DEF TypeOK, TableType
<1>f. bg \in BOOLEAN /\ blocked \in BOOLEAN /\ sigchld \in BOOLEAN
  BY DEF TypeOK, FlagType
<1>k. life \in [Pids -> Lives] /\ event \in [Pids -> Status \cup {NoStatus}] /\ term \subseteq Pids
  BY DEF TypeOK, KernelType
<1>1. CASE ResumeCont \/ ContForeground
  <2>1. /\ life' \in [Pids -> Lives] /\ event' \in [Pids -> Status \cup {NoStatus}]
        /\ sigchld' \in BOOLEAN
    <3>1. CASE UNCHANGED <<life, event, sigchld>>
      BY <3>1, <1>f, <1>k
    <3>2. CASE ~UNCHANGED <<life, event, sigchld>>
      <4>1. PICK S : Continue(S)
        BY <1>1, <3>2 DEF ResumeCont, ContForeground
      <4> QED BY <4>1, ContinueType DEF TypeOK
    <3> QED BY <3>1, <3>2
  <2>2. UNCHANGED <<table, handler, group, pgarg, term, termio, blocked, bg>>
    BY <1>1 DEF ResumeCont, ContForeground, command
  <2>3. MainType'
    <3>1. UNCHANGED <<todo, lead, newpid, job, state, njobmax>>
      BY <1>1 DEF ResumeCont, ContForeground, command, table
    <3>2. /\ pc \in {"resume", "kill cont"}
          /\ pc' \in {"asleep resume", "before sleep stopped", "died"}
      BY <1>1 DEF ResumeCont, ContForeground, MainAt, Goto
    <3> QED BY <3>1, <3>2, GotoType DEF Critical, Open, Terminal
  <2> QED BY <1>f, <1>k, <2>1, <2>2, <2>3, SignalType
<1>2. CASE Kill
  <2>1. KillJob(job, "unmask")
    BY <1>2 DEF Kill
  <2>2. MainType'
    <3>1. job' = FG /\ UNCHANGED <<todo, lead, newpid, state, njobmax>>
      BY <1>2 DEF Kill, table
    <3>2. pc' \in {"unmask", "died"}
      BY <2>1, KillJobType
    <3>3. job' \in Nat /\ job' < njobmax'
      BY <1>t, <3>1 DEF FG
    <3> QED BY <1>t, <3>1, <3>2, <3>3 DEF MainType, Critical, Terminal
  <2> QED BY <1>2, <1>f, <2>1, <2>2, KillJobType, SignalType DEF Kill
<1>3. CASE ShutdownJob
  <2>1. /\ life' \in [Pids -> Lives] /\ event' \in [Pids -> Status \cup {NoStatus}]
        /\ sigchld' \in BOOLEAN /\ term' \subseteq Pids
        /\ pc' \in {"shutdown", "asleep shutdown", "died"}
    <3>1. CASE jobs[job].state = FINISHED
      <4>1. UNCHANGED <<life, event, sigchld, term>> /\ pc' = "shutdown"
        BY <1>3, <3>1 DEF ShutdownJob, Goto
      <4> QED BY <1>f, <1>k, <4>1
    <3>2. CASE jobs[job].state # FINISHED
      <4>1. KillJob(job, "asleep shutdown")
        BY <1>3, <3>2 DEF ShutdownJob
      <4> QED BY <4>1, KillJobType
    <3> QED BY <3>1, <3>2
  <2>2. MainType'
    <3>1. job' = job + 1 /\ UNCHANGED <<todo, lead, newpid, state, njobmax>>
      BY <1>3 DEF ShutdownJob, table
    <3>2. job' \in Nat
      <4>1. job \in Nat
        BY <1>t DEF MainType
      <4> QED BY <3>1, <4>1
    <3>3. pc' \notin {"fork", "addjob", "addproc"}
      BY <2>1
    <3>4. pc' \in Critical \cup Open \cup Terminal
      BY <2>1 DEF Critical, Terminal
    <3> QED BY <1>t, <2>1, <3>1, <3>2, <3>3, <3>4 DEF MainType, Terminal
  <2>3. UNCHANGED <<table, handler, group, pgarg, termio, blocked, bg>>
    BY <1>3 DEF ShutdownJob
  <2> QED BY <1>f, <2>1, <2>2, <2>3, SignalType
<1> QED BY <1>1, <1>2, <1>3

(* monitorjob() and the calls of watchjobs() in the main thread.           *)
LEMMA TableStepsType ==
  ASSUME TypeOK, LoopEnd \/ ResumeDone \/ ShutdownEnd
  PROVE  TypeOK'
<1>t. MainType /\ njobmax \in Nat \ {0} /\ jobs \in Table(njobmax)
  BY DEF TypeOK, TableType, Table
<1>f. bg \in BOOLEAN /\ blocked \in BOOLEAN
  BY DEF TypeOK, FlagType
<1>m. tty \in Pids \cup {Shell} /\ modes \in Modes
  BY DEF TypeOK, KernelType
<1>1. CASE LoopEnd \/ ShutdownEnd
  <2>1. /\ jobs' \in Table(njobmax)
        /\ \/ pc = "loopend" /\ pc' \in {"readline", "crashed"}
           \/ pc = "shutdown" /\ pc' \in {"exited", "crashed"}
    BY <1>1, <1>t, WatchThenType DEF LoopEnd, ShutdownEnd, MainAt
  <2>2. UNCHANGED <<njobmax, blocked, bg, todo, lead, newpid, job, state, handler, procs, termio>>
    BY <1>1 DEF LoopEnd, ShutdownEnd, command, UnchangedKernel
  <2>3. TableType'
    BY <1>t, <2>1, <2>2 DEF TableType, Table
  <2>4. MainType'
    BY <1>t, <2>1, <2>2 DEF MainType, Open, Terminal
  <2> QED BY <1>f, <1>m, <2>2, <2>3, <2>4, TableStepType DEF termio
<1>2. CASE ResumeDone
  <2>1. UNCHANGED <<njobmax, blocked, todo, lead, newpid, state, handler, procs, termio>>
        /\ bg' = FALSE /\ job' = FG /\ pc = "resume"
    BY <1>2 DEF ResumeDone, UnchangedKernel, MainAt
  <2>2. job \in 0 .. njobmax - 1
    BY <1>t, <2>1 DEF MainType, Terminal
  <2>3. /\ jobs' \in Table(njobmax)
        /\ pc' \in {"unmask", "aborted", "crashed", "tcsetpgrp"}
    <3>1. CASE bg
      <4>1. WatchThen(jobs, RUNNING, "unmask")
        BY <1>2, <3>1 DEF ResumeDone
      <4> QED BY <1>t, <4>1, WatchThenType
    <3>2. CASE ~bg /\ jobs[FG].pgid # NoPid
      <4>1. WatchThen(jobs, RUNNING, "aborted")
        BY <1>2, <3>2 DEF ResumeDone
      <4> QED BY <1>t, <4>1, WatchThenType
    <3>3. CASE ~bg /\ jobs[FG].pgid = NoPid
      <4>1. \/ jobs' = movejob(watchjobs(jobs, RUNNING), job, FG) /\ pc' = "tcsetpgrp"
            \/ jobs' = jobs /\ pc' = "crashed"
        BY <1>2, <3>3 DEF ResumeDone, Goto
      <4>2. watchjobs(jobs, RUNNING) \in Table(njobmax)
        BY <1>t, WatchjobsType
      <4>3. FG \in 0 .. njobmax - 1
        BY <1>t DEF FG
      <4> QED BY <1>t, <2>2, <4>1, <4>2, <4>3, MovejobType
    <3> QED BY <3>1, <3>2, <3>3
  <2>4. TableType'
    BY <1>t, <2>1, <2>3 DEF TableType, Table
  <2>5. MainType'
    <3>1. job' \in Nat /\ job' < njobmax'
      BY <1>t, <2>1 DEF FG
    <3>2. UNCHANGED <<todo, lead, newpid, state>>
      BY <2>1
    <3> QED BY <1>t, <2>3, <3>1, <3>2 DEF MainType, Critical, Terminal
  <2> QED BY <1>f, <1>m, <2>1, <2>4, <2>5, TableStepType DEF termio
<1> QED BY <1>1, <1>2

(* The waiting part of monitorjob().                                       *)
LEMMA WaitingType ==
  ASSUME TypeOK,
         GiveTerminal \/ WhileStopped \/ SleepStopped \/ WhileRunning \/ SleepRunning
           \/ Reread \/ Remask
  PROVE  TypeOK'
<1>t. MainType /\ njobmax \in Nat \ {0} /\ jobs \in Table(njobmax)
  BY DEF TypeOK, TableType, Table
<1>f. bg \in BOOLEAN /\ blocked \in BOOLEAN
  BY DEF TypeOK, FlagType
<1>m. tty \in Pids \cup {Shell} /\ modes \in Modes
  BY DEF TypeOK, KernelType
<1>g. FG \in 0 .. njobmax - 1
  BY <1>t DEF FG
<1>1. CASE GiveTerminal
  <2>1. UNCHANGED <<njobmax, bg, todo, lead, newpid, job, state, handler, procs, modes>>
        /\ pc = "tcsetpgrp" /\ pc' \in {"while stopped", "died"}
    BY <1>1 DEF GiveTerminal, table, command, MainAt, Goto
  <2>2. blocked' \in BOOLEAN
    BY <1>1, <1>f DEF GiveTerminal
  <2>3. TableType'
    BY <1>t, <1>1 DEF GiveTerminal, table, TableType, Table
  <2>4. MainType'
    BY <1>t, <2>1, GotoType DEF Open, Terminal
  <2>5. tty' \in Pids \cup {Shell}
    <3>1. CASE canOwnTty(jobs[FG].pgid)
      <4>1. jobs[FG].pgid \in Pids \cup {NoPid}
        BY <1>t, <1>g DEF Table, Job
      <4>2. jobs[FG].pgid \in Pids \cup {Shell}
        BY <3>1 DEF canOwnTty, TypeOK, KernelType
      <4> QED BY <1>1, <3>1, <4>2 DEF GiveTerminal
    <3>2. CASE ~canOwnTty(jobs[FG].pgid)
      BY <1>1, <1>m, <3>2 DEF GiveTerminal
    <3> QED BY <3>1, <3>2
  <2> QED BY <1>f, <1>m, <2>1, <2>2, <2>3, <2>4, <2>5, TableStepType
<1>2. CASE WhileStopped
  BY <1>2, WaitType DEF WhileStopped, Open, Terminal
<1>3. CASE SleepStopped
  BY <1>3, WaitType DEF SleepStopped, Open, Terminal
<1>4. CASE WhileRunning
  BY <1>4, WaitType DEF WhileRunning, Open, Terminal
<1>5. CASE SleepRunning
  BY <1>5, WaitType DEF SleepRunning, Open, Terminal
<1>6. CASE Reread
  <2>1. UNCHANGED <<table, todo, lead, newpid, job, handler, procs, termio, blocked, bg>>
        /\ pc = "reread" /\ pc' = "remask" /\ state' = jobs[FG].state
    BY <1>6 DEF Reread, UnchangedKernel, MainAt, Goto
  <2>2. state' \in States
    BY <1>t, <1>g, <2>1 DEF Table, Job
  <2>3. MainType'
    BY <1>t, <2>1, <2>2 DEF MainType, Open, Terminal, table
  <2> QED BY <1>f, <2>1, <2>3, QuietType
<1>7. CASE Remask
  <2>1. UNCHANGED <<table, todo, lead, newpid, job, state, handler, procs, termio, bg>>
        /\ pc = "remask" /\ pc' = "finish"
    BY <1>7 DEF Remask, UnchangedKernel, MainAt, Goto, command
  <2>2. MainType'
    BY <1>t, <2>1, GotoType DEF Critical, Terminal, table
  <2>3. blocked' \in BOOLEAN
    BY <1>7 DEF Remask
  <2> QED BY <1>f, <2>1, <2>2, <2>3, QuietType
<1> QED BY <1>1, <1>2, <1>3, <1>4, <1>5, <1>6, <1>7

(* The end of monitorjob().                                                *)
LEMMA FinishType ==
  ASSUME TypeOK, FinishStopped \/ FinishFinished \/ FinishRunning
  PROVE  TypeOK'
<1>t. MainType /\ njobmax \in Nat \ {0} /\ jobs \in Table(njobmax)
  BY DEF TypeOK, TableType, Table
<1>f. bg \in BOOLEAN /\ blocked \in BOOLEAN
  BY DEF TypeOK, FlagType
<1>m. tty \in Pids \cup {Shell} /\ modes \in Modes
  BY DEF TypeOK, KernelType
<1>g. FG \in 0 .. njobmax - 1
  BY <1>t DEF FG
<1>1. CASE FinishStopped
  <2> DEFINE j == allocjob(jobs, njobmax)
             t == [grown(jobs, j) EXCEPT ![j].state = STOPPED]
  <2>1. UNCHANGED <<blocked, bg, todo, lead, newpid, job, handler, procs>>
        /\ pc = "finish" /\ state' = FINISHED /\ tty' = Shell /\ modes' = "shell"
    BY <1>1 DEF FinishStopped, MainAt, shellModes
  <2>2. /\ njobmax' = IF j = njobmax THEN njobmax + 1 ELSE njobmax
        /\ \/ WatchThen(movejob(t, FG, j), STOPPED, "unmask")
           \/ jobs' = t /\ pc' = "aborted"
    BY <1>1 DEF FinishStopped, Goto
  <2>3. j \in 0 .. njobmax
    BY <1>t, AllocjobIsFree
  <2>4. njobmax' \in Nat \ {0} /\ j \in 0 .. njobmax' - 1 /\ FG \in 0 .. njobmax' - 1
        /\ njobmax <= njobmax'
    BY <1>t, <2>2, <2>3 DEF FG
  <2>5. t \in Table(njobmax')
    <3> HIDE DEF j
    <3>1. grown(jobs, j) \in Table(njobmax')
      BY <1>t, <2>2, <2>3, GrownType
    <3>2. grown(jobs, j)[j] \in Job
      BY <2>4, <3>1 DEF Table
    <3>3. [grown(jobs, j)[j] EXCEPT !.state = STOPPED] \in Job
      BY <3>2 DEF Job, States
    <3> QED BY <2>4, <3>1, <3>3 DEF Table
  <2> HIDE DEF t, j
  <2>6. movejob(t, FG, j) \in Table(njobmax')
    BY <2>4, <2>5, MovejobType
  <2>7. jobs' \in Table(njobmax') /\ pc' \in {"unmask", "crashed", "aborted"}
    <3>1. ASSUME WatchThen(movejob(t, FG, j), STOPPED, "unmask")
          PROVE  jobs' \in Table(njobmax') /\ pc' \in {"unmask", "crashed"}
      <4>1. watchjobs(movejob(t, FG, j), STOPPED) \in Table(njobmax')
        BY <2>4, <2>6, WatchjobsType
      <4> QED BY <2>6, <3>1, <4>1 DEF WatchThen, Goto
    <3> QED BY <2>2, <2>5, <3>1
  <2>8. TableType'
    BY <2>4, <2>7 DEF TableType, Table
  <2>9. MainType'
    <3>1. job' \in Nat /\ job' < njobmax'
      <4>1. job \in Nat /\ job < njobmax
        BY <1>t, <2>1 DEF MainType, Terminal
      <4> QED BY <1>t, <2>1, <2>4, <4>1
    <3>2. UNCHANGED <<todo, lead, newpid>> /\ state' \in States
      BY <2>1 DEF States
    <3> QED BY <1>t, <2>7, <3>1, <3>2 DEF MainType, Critical, Terminal
  <2> QED BY <1>f, <2>1, <2>8, <2>9, TableStepType DEF Modes
<1>2. CASE FinishFinished
  <2>1. UNCHANGED <<njobmax, blocked, bg, todo, lead, newpid, job, state, handler, procs>>
        /\ pc = "finish" /\ tty' = Shell /\ modes' = "shell"
    BY <1>2 DEF FinishFinished, MainAt, shellModes, command
  <2>2. \/ WatchThen([jobs EXCEPT ![FG] = deljob(@)], FINISHED, "unmask")
        \/ jobs' = jobs /\ pc' = "aborted"
    BY <1>2 DEF FinishFinished, Goto
  <2>3. [jobs EXCEPT ![FG] = deljob(@)] \in Table(njobmax)
    <3>1. deljob(jobs[FG]) \in Job
      BY <1>t, <1>g, DeljobType DEF Table
    <3> QED BY <1>t, <1>g, <3>1 DEF Table
  <2>4. jobs' \in Table(njobmax) /\ pc' \in {"unmask", "crashed", "aborted"}
    BY <1>t, <2>2, <2>3, WatchThenType
  <2>5. TableType'
    BY <1>t, <2>1, <2>4 DEF TableType, Table
  <2>6. MainType'
    BY <2>1, <2>4, GotoType DEF Critical, Terminal
  <2> QED BY <1>f, <2>1, <2>5, <2>6, TableStepType DEF Modes
<1>3. CASE FinishRunning
  <2>1. UNCHANGED <<table, blocked, bg, todo, lead, newpid, job, handler, procs, termio>>
        /\ pc = "finish" /\ state' = FINISHED /\ pc' = "unmask"
    BY <1>3 DEF FinishRunning, MainAt, Goto, UnchangedKernel
  <2>2. MainType'
    BY <1>t, <2>1 DEF MainType, Critical, Terminal, States, table
  <2> QED BY <1>f, <2>1, <2>2, QuietType
<1> QED BY <1>1, <1>2, <1>3

(* Ctrl-C.                                                                 *)
LEMMA CtrlCType ==
  ASSUME TypeOK, CtrlC
  PROVE  TypeOK'
<1>1. TableType'
  BY DEF CtrlC, TypeOK, TableType, table
<1>2. FlagType'
  BY DEF CtrlC, TypeOK, FlagType
<1>3. HandlerType'
  BY DEF CtrlC, HandlerType
<1>4. KernelType'
  BY DEF CtrlC, TypeOK, KernelType, termio, Lives
<1>5. MainType'
  <2>1. /\ pc' = "readline" /\ todo' = 0 /\ lead' = NoPid /\ newpid' = NoPid
        /\ job' = FG /\ state' = FINISHED /\ njobmax' = njobmax
    BY DEF CtrlC, Goto, table
  <2>2. 0 \in 0 .. MaxStages /\ 0 < njobmax
    BY StagesAssumption DEF TypeOK, TableType
  <2> QED BY <2>1, <2>2 DEF MainType, Open, FG, States
<1> QED BY <1>1, <1>2, <1>3, <1>4, <1>5 DEF TypeOK

(* Every step keeps every variable in its type, and the job table an array *)
(* of njobmax slots: no step uses a slot beyond the last one.              *)
LEMMA StepType == TypeOK /\ [Next]_vars => TypeOK'
<1> SUFFICES ASSUME TypeOK, [Next]_vars PROVE TypeOK'
  OBVIOUS
<1>1. CASE User
  BY <1>1, UserType
<1>2. CASE MainStep
  BY <1>2, LaunchType, SignalStepType, TableStepsType, WaitingType, FinishType DEF MainStep
<1>3. CASE HandlerStep
  BY <1>3, HandlerStepType
<1>4. CASE Children
  BY <1>4, ChildType DEF Children
<1>5. CASE UNCHANGED vars
  <2>1. UNCHANGED <<table, handler, procs, termio, pc, blocked, command>>
    BY <1>5 DEF vars
  <2>2. TableType' /\ MainType'
    <3>1. UNCHANGED <<jobs, njobmax, pc, todo, lead, newpid, job, state>>
      BY <2>1 DEF table, command
    <3> QED BY <3>1 DEF TypeOK, TableType, MainType
  <2>4. HandlerType' /\ KernelType'
    <3>1. UNCHANGED <<hpc, hpid, hstatus, life, group, pgarg, event, term, tty, modes>>
      BY <2>1 DEF handler, procs, termio
    <3> QED BY <3>1 DEF TypeOK, HandlerType, KernelType
  <2>3. FlagType'
    BY <2>1 DEF TypeOK, FlagType, procs, command
  <2> QED BY <2>2, <2>3, <2>4 DEF TypeOK
<1> QED BY <1>1, <1>2, <1>3, <1>4, <1>5 DEF Next

(* The type invariant holds in every run of the shell, whatever number of  *)
(* processes, stages and kinds of events.                                  *)
THEOREM TypeCorrect == Spec => []TypeOK
BY InitType, StepType, PTL DEF Spec

-------------------------------------------------------------------------------
(***************************************************************************)
(* The safety of the job table without Ctrl-C, for every number of         *)
(* processes, stages and slots: no notification is lost, and the table     *)
(* says of every process what the kernel last reported.                    *)
(*                                                                         *)
(* The argument: between fork() and the entry of the child in the table    *)
(* SIGCHLD is blocked and the handler is not running (WindowClosed), so    *)
(* that no report of the child can be read too early (NewChild).  Every    *)
(* report on its way, in the kernel or in the hands of the handler, agrees *)
(* with what the process last did (ReportsAreCurrent).  A process has at   *)
(* most one entry, in an occupied slot (TableSound), so that the handler   *)
(* changes the right entry and no other.  movejob(), deljob(), watchjobs() *)
(* and the growth of the table only move or drop whole slots (Moved).      *)
(***************************************************************************)

(* The inductive invariant. *)

Window == {"fork", "addjob", "addproc"}

WindowClosed == pc \in Window => blocked /\ hpc = "idle"

NewChild ==
  /\ pc \in {"addjob", "addproc"} => newpid # NoPid /\ lead # NoPid
  /\ pc \notin {"addjob", "addproc"} => newpid = NoPid
  /\ pc \notin Window => lead = NoPid
  /\ pc = "addproc" \/ (pc = "fork" /\ lead # NoPid) => jobs[job].pgid # NoPid
  /\ newpid # NoPid =>
       /\ life[newpid] # "none"
       /\ event[newpid] = NoStatus => view(life[newpid]) = RUNNING

ReportsAreCurrent ==
  /\ \A p \in Pids : event[p] # NoStatus => stateAfter(event[p]) = view(life[p])
  /\ hpc = "record" /\ event[hpid] = NoStatus => stateAfter(hstatus) = view(life[hpid])

(* A table t is sound: occupied slots only have processes; each process    *)
(* was forked and is not the one that waits to be entered; it has one      *)
(* entry; its state is the one last reported.                              *)
Occupied(t) == \A j \in DOMAIN t : \A i \in DOMAIN t[j].proc : t[j].pgid # NoPid

Forked(t) ==
  \A j \in DOMAIN t : \A i \in DOMAIN t[j].proc :
    t[j].proc[i].pid # newpid /\ life[t[j].proc[i].pid] # "none"

Once(t) ==
  \A j, k \in DOMAIN t : \A i \in DOMAIN t[j].proc, l \in DOMAIN t[k].proc :
    t[j].proc[i].pid = t[k].proc[l].pid => j = k /\ i = l

Tracks(t) ==
  \A j \in DOMAIN t : \A i \in DOMAIN t[j].proc :
    settled(t[j].proc[i].pid) => t[j].proc[i].state = view(life[t[j].proc[i].pid])

Sound(t) == Occupied(t) /\ Forked(t) /\ Once(t) /\ Tracks(t)

TableSound == Sound(jobs)

SafetyInv == TypeOK /\ WindowClosed /\ NewChild /\ ReportsAreCurrent /\ TableSound

-------------------------------------------------------------------------------
(* What moves whole slots keeps a table sound. *)

(* Two slots with the same processes in the same states.                   *)
Same(a, b) ==
  /\ a.pgid = b.pgid
  /\ DOMAIN a.proc = DOMAIN b.proc
  /\ \A i \in DOMAIN a.proc : a.proc[i].pid = b.proc[i].pid /\ a.proc[i].state = b.proc[i].state

(* A table u whose slots are empty, or those of t in another order, is     *)
(* sound if t is.                                                          *)
LEMMA Moved ==
  ASSUME NEW t, NEW u, NEW m, Sound(t),
         \A j \in DOMAIN u : DOMAIN u[j].proc # {} => m[j] \in DOMAIN t /\ Same(u[j], t[m[j]]),
         \A j, k \in DOMAIN u : DOMAIN u[j].proc # {} /\ DOMAIN u[k].proc # {} /\ m[j] = m[k] => j = k
  PROVE  Sound(u)
<1>1. ASSUME NEW j \in DOMAIN u, NEW i \in DOMAIN u[j].proc
      PROVE  /\ m[j] \in DOMAIN t /\ i \in DOMAIN t[m[j]].proc
             /\ u[j].pgid = t[m[j]].pgid
             /\ u[j].proc[i].pid = t[m[j]].proc[i].pid
             /\ u[j].proc[i].state = t[m[j]].proc[i].state
  BY DEF Same
<1>2. Occupied(u)
  BY <1>1 DEF Sound, Occupied
<1>3. Forked(u)
  BY <1>1 DEF Sound, Forked
<1>4. Once(u)
  <2> SUFFICES ASSUME NEW j \in DOMAIN u, NEW k \in DOMAIN u, NEW i \in DOMAIN u[j].proc,
                      NEW l \in DOMAIN u[k].proc, u[j].proc[i].pid = u[k].proc[l].pid
               PROVE  j = k /\ i = l
    BY DEF Once
  <2>1. m[j] = m[k] /\ i = l
    BY <1>1 DEF Sound, Once
  <2> QED BY <2>1
<1>5. Tracks(u)
  <2> SUFFICES ASSUME NEW j \in DOMAIN u, NEW i \in DOMAIN u[j].proc, settled(u[j].proc[i].pid)
               PROVE  u[j].proc[i].state = view(life[u[j].proc[i].pid])
    BY DEF Tracks
  <2> QED BY <1>1 DEF Sound, Tracks
<1> QED BY <1>2, <1>3, <1>4, <1>5 DEF Sound

(* A report changes neither the processes of a slot nor their states.      *)
LEMMA ClearStatusSame ==
  ASSUME NEW slot \in Job
  PROVE  Same(clearStatus(slot), slot)
<1> DEFINE new == [slot.proc EXCEPT ![Len(slot.proc)].exitcode = NoStatus]
<1>1. clearStatus(slot).pgid = slot.pgid /\ clearStatus(slot).proc = new
  BY DEF clearStatus, Job
<1>2. DOMAIN new = DOMAIN slot.proc
  OBVIOUS
<1>3. ASSUME NEW i \in DOMAIN slot.proc
      PROVE  new[i].pid = slot.proc[i].pid /\ new[i].state = slot.proc[i].state
  <2>1. slot.proc[i] \in Proc
    BY DEF Job
  <2> QED BY <2>1 DEF Proc
<1> HIDE DEF new
<1> QED BY <1>1, <1>2, <1>3 DEF Same

(* Nor does watchjobs(), unless it frees the slot.                         *)
LEMMA WatchjobSame ==
  ASSUME NEW slot \in Job, NEW which
  PROVE  \/ DOMAIN watchjob(slot, which).proc = {}
         \/ Same(watchjob(slot, which), slot)
<1>0. DOMAIN << >> = {}
  OBVIOUS
<1>1. watchjob(slot, which) \in {slot, clearStatus(slot), deljob(slot)}
  BY DEF watchjob
<1>2. Same(slot, slot)
  BY DEF Same
<1>3. deljob(slot).proc = << >>
  BY DEF deljob, Job
<1> QED BY <1>0, <1>1, <1>2, <1>3, ClearStatusSame

(* watchjobs() keeps a table sound.                                        *)
LEMMA WatchSound ==
  ASSUME NEW n \in Nat, NEW t \in Table(n), NEW which, Sound(t)
  PROVE  Sound(watchjobs(t, which))
<1> DEFINE u == watchjobs(t, which)
           m == [j \in DOMAIN t |-> j]
<1>1. DOMAIN u = DOMAIN t
  BY DEF watchjobs
<1>2. ASSUME NEW j \in DOMAIN u
      PROVE  m[j] = j /\ j \in DOMAIN t /\ (DOMAIN u[j].proc # {} => Same(u[j], t[j]))
  <2>1. t[j] \in Job
    BY <1>1 DEF Table
  <2>2. u[j] = t[j] \/ u[j] = watchjob(t[j], which)
    BY <1>1 DEF watchjobs
  <2>3. Same(t[j], t[j])
    BY DEF Same
  <2> QED BY <1>1, <2>1, <2>2, <2>3, WatchjobSame
<1> HIDE DEF u, m
<1>3. Sound(u)
  BY <1>2, Moved
<1> QED BY <1>3 DEF u

(* movejob() keeps a table sound.                                          *)
LEMMA MoveSound ==
  ASSUME NEW n \in Nat, NEW t \in Table(n), NEW from \in 0 .. n - 1, NEW to \in 0 .. n - 1,
         Sound(t)
  PROVE  Sound(movejob(t, from, to))
<1> DEFINE u == movejob(t, from, to)
           m == [j \in DOMAIN t |-> IF j = to THEN from ELSE j]
<1>0. DOMAIN << >> = {}
  OBVIOUS
<1>1. DOMAIN u = DOMAIN t /\ DOMAIN t = 0 .. n - 1
  BY DEF movejob, Table
<1>2. ASSUME NEW j \in DOMAIN u
      PROVE  /\ m[j] = IF j = to THEN from ELSE j
             /\ m[j] \in DOMAIN t
             /\ DOMAIN u[j].proc # {} => j # from /\ Same(u[j], t[m[j]])
  <2>1. u[from].proc = << >>
    BY <1>1 DEF movejob, ZeroJob
  <2>2. j # from => u[j] = t[m[j]]
    BY <1>1 DEF movejob
  <2>3. Same(t[m[j]], t[m[j]])
    BY DEF Same
  <2>4. m[j] = (IF j = to THEN from ELSE j) /\ m[j] \in DOMAIN t
    BY <1>1
  <2> HIDE DEF u, m
  <2> QED BY <1>0, <2>1, <2>2, <2>3, <2>4
<1> HIDE DEF u, m
<1>3. ASSUME NEW j \in DOMAIN u, NEW k \in DOMAIN u, DOMAIN u[j].proc # {},
             DOMAIN u[k].proc # {}, m[j] = m[k]
      PROVE  j = k
  BY <1>2, <1>3
<1>4. Sound(u)
  BY <1>2, <1>3, Moved
<1> QED BY <1>4 DEF u

(* The table grows by a slot without processes, and a slot may be          *)
(* overwritten by one without processes.                                   *)
LEMMA GrownSound ==
  ASSUME NEW n \in Nat \ {0}, NEW t \in Table(n), NEW j \in 0 .. n, Sound(t)
  PROVE  Sound(grown(t, j))
<1> DEFINE u == grown(t, j)
           m == [k \in DOMAIN t |-> k]
<1>0. DOMAIN << >> = {}
  OBVIOUS
<1>1. ASSUME NEW k \in DOMAIN u, DOMAIN u[k].proc # {}
      PROVE  k \in DOMAIN t /\ m[k] = k /\ Same(u[k], t[m[k]])
  BY <1>0, <1>1 DEF grown, ZeroJob, Same
<1> HIDE DEF u, m
<1>2. Sound(u)
  BY <1>1, Moved
<1> QED BY <1>2 DEF u

(* A slot with the same processes, or with none, in its place.             *)
LEMMA ReplacedSound ==
  ASSUME NEW t, NEW j, NEW slot, Sound(t), slot.proc = << >> \/ Same(slot, t[j])
  PROVE  Sound([t EXCEPT ![j] = slot])
<1> DEFINE u == [t EXCEPT ![j] = slot]
           m == [k \in DOMAIN t |-> k]
<1>0. DOMAIN << >> = {}
  OBVIOUS
<1>1. ASSUME NEW k \in DOMAIN u, DOMAIN u[k].proc # {}
      PROVE  k \in DOMAIN t /\ m[k] = k /\ Same(u[k], t[m[k]])
  BY <1>0, <1>1 DEF Same
<1> HIDE DEF u, m
<1>2. Sound(u)
  BY <1>1, Moved
<1> QED BY <1>2 DEF u

(* watchjobs() in the main thread.                                         *)
LEMMA WatchThenSound ==
  ASSUME NEW n \in Nat, NEW t \in Table(n), NEW which, NEW next, Sound(t),
         WatchThen(t, which, next)
  PROVE  Sound(jobs')
BY WatchSound DEF WatchThen

-------------------------------------------------------------------------------
(* Steps by their effect on the parts of the invariant. *)

(* Outside of the window: the main thread is not between fork() and the    *)
(* entry of the child, before nor after the step.                          *)
LEMMA OutsideWindow ==
  ASSUME NewChild, pc \notin Window, pc' \notin Window, newpid' = newpid, lead' = lead
  PROVE  WindowClosed' /\ NewChild'
<1>1. newpid = NoPid /\ lead = NoPid
  BY DEF NewChild, Window
<1>2. WindowClosed'
  BY DEF WindowClosed, Window
<1>3. NewChild'
  BY <1>1 DEF NewChild, Window
<1> QED BY <1>2, <1>3

(* What the table says of reports depends on these variables only.         *)
LEMMA SameReports ==
  ASSUME UNCHANGED <<life, event, handler, newpid>>, ReportsAreCurrent, Sound(jobs')
  PROVE  ReportsAreCurrent' /\ TableSound'
<1>1. ReportsAreCurrent'
  BY DEF ReportsAreCurrent, handler
<1>2. \A p : settled(p)' <=> settled(p)
  BY DEF settled, handler
<1>3. TableSound'
  BY <1>2 DEF TableSound, Sound, Occupied, Forked, Once, Tracks
<1> QED BY <1>1, <1>3

(* The next state of a process is a new report, or looks the same to       *)
(* waitpid().                                                              *)
Progress(q) ==
  /\ life'[q] = "none" => life[q] = "none"
  /\ \/ event'[q] = event[q] /\ view(life'[q]) = view(life[q])
     \/ event'[q] # NoStatus /\ stateAfter(event'[q]) = view(life'[q])

(* While processes make progress, the table stays sound.                   *)
LEMMA ProgressSound ==
  ASSUME TypeOK, ReportsAreCurrent, TableSound, UNCHANGED <<jobs, handler>>,
         \A q \in Pids : Progress(q),
         newpid' = newpid \/ life[newpid'] = "none"
  PROVE  ReportsAreCurrent' /\ TableSound'
<1>1. ReportsAreCurrent'
  <2>1. ASSUME NEW p \in Pids, event'[p] # NoStatus
        PROVE  stateAfter(event'[p]) = view(life'[p])
    BY <2>1 DEF ReportsAreCurrent, Progress
  <2>2. ASSUME hpc' = "record", event'[hpid'] = NoStatus
        PROVE  stateAfter(hstatus') = view(life'[hpid'])
    <3>1. hpid' = hpid /\ hstatus' = hstatus /\ hpc = "record" /\ hpid \in Pids
      BY <2>2 DEF handler, TypeOK, HandlerType
    <3> QED BY <2>2, <3>1 DEF ReportsAreCurrent, Progress
  <2> QED BY <2>1, <2>2 DEF ReportsAreCurrent
<1>2. ASSUME NEW j \in DOMAIN jobs, NEW i \in DOMAIN jobs[j].proc
      PROVE  jobs[j].proc[i].pid \in Pids
  <2>1. jobs[j] \in Job
    BY DEF TypeOK, TableType
  <2>2. jobs[j].proc[i] \in Proc
    BY <2>1 DEF Job
  <2> QED BY <2>2 DEF Proc
<1>3. ASSUME NEW p \in Pids, settled(p)'
      PROVE  settled(p) /\ view(life'[p]) = view(life[p])
  BY <1>3 DEF settled, Progress, handler
<1>4. Occupied(jobs)' /\ Once(jobs)'
  BY DEF TableSound, Sound, Occupied, Once
<1>5. Forked(jobs)'
  <2> SUFFICES ASSUME NEW j \in DOMAIN jobs, NEW i \in DOMAIN jobs[j].proc
               PROVE  jobs[j].proc[i].pid # newpid' /\ life'[jobs[j].proc[i].pid] # "none"
    BY DEF Forked
  <2>1. jobs[j].proc[i].pid # newpid /\ life[jobs[j].proc[i].pid] # "none"
    BY DEF TableSound, Sound, Forked
  <2> QED BY <1>2, <2>1 DEF Progress
<1>6. Tracks(jobs)'
  <2> SUFFICES ASSUME NEW j \in DOMAIN jobs, NEW i \in DOMAIN jobs[j].proc,
                      settled(jobs[j].proc[i].pid)'
               PROVE  jobs[j].proc[i].state = view(life'[jobs[j].proc[i].pid])
    BY DEF Tracks
  <2> QED BY <1>2, <1>3 DEF TableSound, Sound, Tracks
<1> QED BY <1>1, <1>4, <1>5, <1>6 DEF TableSound, Sound

(* A change in the life of a child is progress.                            *)
LEMMA ChangeProgress ==
  ASSUME TypeOK, NEW p \in Pids, NEW to \in Lives \ {"none"}, NEW status \in Status,
         stateAfter(status) = view(to), Change(p, to, status)
  PROVE  \A q \in Pids : Progress(q)
<1>1. status # NoStatus
  BY DEF Status, NoStatus, Exited, Stopped, Continued
<1> QED BY <1>1 DEF Change, Progress, TypeOK, KernelType, Lives

(* SIGCONT is progress.                                                    *)
LEMMA ContinueProgress ==
  ASSUME TypeOK, NEW S, Continue(S)
  PROVE  \A q \in Pids : Progress(q)
<1>1. stateAfter(Continued) = view("running") /\ Continued # NoStatus
  BY DEF stateAfter, view, Exited, Stopped, Continued, NoStatus
<1> QED BY <1>1 DEF Continue, Progress

(* A process that does not change makes progress, too.                     *)
LEMMA NoProgress ==
  ASSUME UNCHANGED <<life, event>>
  PROVE  \A q \in Pids : Progress(q)
BY DEF Progress

(* Every step of a child is progress.                                      *)
LEMMA ChildProgress ==
  ASSUME TypeOK, NEW p \in Pids, ChildStep(p)
  PROVE  \A q \in Pids : Progress(q)
<1>1. /\ stateAfter(Exited) = view("zombie") /\ stateAfter(Stopped) = view("stopped")
      /\ stateAfter(Continued) = view("running") /\ view("forked") = view("running")
  BY DEF stateAfter, view, Exited, Stopped, Continued
<1>2. /\ {Exited, Stopped, Continued} \subseteq Status
      /\ {"zombie", "stopped", "running"} \subseteq Lives \ {"none"}
  BY DEF Status, Lives
<1>3. CASE ChildStart(p)
  <2>1. CASE Change(p, "zombie", Exited)
    BY <1>1, <1>2, <2>1, ChangeProgress
  <2>2. CASE life' = [life EXCEPT ![p] = "running"] /\ UNCHANGED event
    BY <1>1, <1>3, <2>2 DEF ChildStart, Progress, TypeOK, KernelType
  <2> QED BY <1>3, <2>1, <2>2 DEF ChildStart
<1>4. CASE Exit(p) \/ OtherKill(p)
  BY <1>1, <1>2, <1>4, ChangeProgress DEF Exit, OtherKill
<1>5. CASE Stop(p)
  BY <1>1, <1>2, <1>5, ChangeProgress DEF Stop
<1>6. CASE OtherCont(p)
  BY <1>1, <1>2, <1>6, ChangeProgress DEF OtherCont
<1>7. CASE SetModes(p)
  BY <1>7, NoProgress DEF SetModes, procs
<1> QED BY <1>3, <1>4, <1>5, <1>6, <1>7 DEF ChildStep

-------------------------------------------------------------------------------
(* Every step keeps the invariant. *)

(* The invariant holds at the first prompt.                                *)
LEMMA SafetyInit == Init => SafetyInv
<1> SUFFICES ASSUME Init PROVE SafetyInv
  OBVIOUS
<1>1. WindowClosed /\ NewChild /\ ReportsAreCurrent
  BY DEF Init, WindowClosed, NewChild, ReportsAreCurrent, Window
<1>2. \A j \in DOMAIN jobs : DOMAIN jobs[j].proc = {}
  BY DEF Init, ZeroJob
<1>3. TableSound
  BY <1>2 DEF TableSound, Sound, Occupied, Forked, Once, Tracks
<1> QED BY <1>1, <1>3, InitType DEF SafetyInv

(* A child: it is waited for by nobody while it is being entered.          *)
LEMMA ChildSafe ==
  ASSUME SafetyInv, NEW p \in Pids, ChildStep(p)
  PROVE  WindowClosed' /\ NewChild' /\ ReportsAreCurrent' /\ TableSound'
<1>1. UNCHANGED <<jobs, njobmax, pc, blocked, todo, lead, newpid, job, state, handler, hpc>>
  BY DEF ChildStep, ChildStart, Exit, Stop, OtherCont, OtherKill, SetModes, table, command, handler
<1>2. \A q \in Pids : Progress(q)
  BY ChildProgress DEF SafetyInv
<1>3. ReportsAreCurrent' /\ TableSound'
  BY <1>1, <1>2, ProgressSound DEF SafetyInv
<1>4. WindowClosed'
  BY <1>1 DEF SafetyInv, WindowClosed
<1>5. newpid # NoPid => newpid \in Pids
  BY DEF SafetyInv, TypeOK, MainType
<1>6. newpid' # NoPid =>
        /\ life'[newpid'] # "none"
        /\ event'[newpid'] = NoStatus => view(life'[newpid']) = RUNNING
  BY <1>1, <1>2, <1>5 DEF SafetyInv, NewChild, Progress
<1>7. NewChild'
  BY <1>1, <1>6 DEF SafetyInv, NewChild
<1> QED BY <1>3, <1>4, <1>7

(* The handler enters a status for the process it is about, and no other.  *)
LEMMA RecordedEntries ==
  ASSUME NEW n \in Nat, NEW t \in Table(n), Occupied(t), Once(t), NEW pid,
         NEW status \in Status, NEW j \in 0 .. n - 1
  PROVE  LET slot == record(t, pid, status)[j]
         IN  /\ slot.pgid = t[j].pgid
             /\ DOMAIN slot.proc = DOMAIN t[j].proc
             /\ \A i \in DOMAIN t[j].proc :
                  /\ slot.proc[i].pid = t[j].proc[i].pid
                  /\ slot.proc[i].state = IF t[j].proc[i].pid = pid THEN stateAfter(status)
                                          ELSE t[j].proc[i].state
<1> DEFINE u == record(t, pid, status)
<1>t. DOMAIN t = 0 .. n - 1 /\ t[j] \in Job /\ t[j].proc \in Seq(Proc)
  BY DEF Table, Job
<1>1. CASE entriesOf(t, pid) = {}
  <2>1. u = t
    BY <1>1 DEF record
  <2>2. ASSUME NEW i \in DOMAIN t[j].proc PROVE t[j].proc[i].pid # pid
    <3>1. DOMAIN t[j].proc = 1 .. Len(t[j].proc)
      BY <1>t, LenProperties
    <3>2. t[j].pgid # NoPid
      BY <1>t DEF Occupied
    <3>3. t[j].proc[i].pid = pid => <<j, i>> \in entriesOf(t, pid)
      BY <3>1, <3>2, EntriesOf
    <3> QED BY <1>1, <3>3
  <2> QED BY <2>1, <2>2
<1>2. CASE entriesOf(t, pid) # {}
  <2> DEFINE e == firstEntry(t, pid)
  <2>1. e \in entriesOf(t, pid)
    BY <1>2, FirstEntry
  <2>2. PICK k \in 0 .. n - 1 : \E l \in 1 .. Len(t[k].proc) :
          e = <<k, l>> /\ t[k].pgid # NoPid /\ t[k].proc[l].pid = pid
    BY <2>1, EntriesOf
  <2>3. PICK l \in 1 .. Len(t[k].proc) : e = <<k, l>> /\ t[k].proc[l].pid = pid
    BY <2>2
  <2>4. u = [t EXCEPT ![e[1]] = recorded(t[e[1]], e[2], status)]
    BY <1>2 DEF record
  <2>5. u = [t EXCEPT ![k] = recorded(t[k], l, status)]
    <3> HIDE DEF e, u
    <3>1. e[1] = k /\ e[2] = l
      BY <2>3
    <3> QED BY <2>4, <3>1
  <2>6. t[k] \in Job /\ t[k].proc \in Seq(Proc) /\ l \in DOMAIN t[k].proc
    <3>1. t[k] \in Job /\ t[k].proc \in Seq(Proc)
      BY DEF Table, Job
    <3>2. DOMAIN t[k].proc = 1 .. Len(t[k].proc)
      BY <3>1, LenProperties
    <3> QED BY <3>1, <3>2
  <2> HIDE DEF e
  <2>7. ASSUME NEW i \in DOMAIN t[j].proc PROVE t[j].proc[i].pid = pid <=> j = k /\ i = l
    <3>1. t[j].proc[i].pid = pid => j = k /\ i = l
      BY <1>t, <2>3, <2>6 DEF Once
    <3> QED BY <2>3, <3>1
  <2>8. CASE j # k
    <3>1. u[j] = t[j]
      BY <2>5, <2>8 DEF Table
    <3> QED BY <2>7, <2>8, <3>1
  <2>9. CASE j = k
    <3> DEFINE proc == [t[k].proc EXCEPT ![l].state = stateAfter(status), ![l].exitcode = status]
    <3>1. u[j] = [t[k] EXCEPT !.proc = proc, !.state = job_state(proc)]
      BY <2>5, <2>9 DEF recorded, Table
    <3>2. u[j].pgid = t[j].pgid /\ u[j].proc = proc
      <4> HIDE DEF proc, u
      <4> QED BY <2>6, <2>9, <3>1 DEF Job
    <3>3. DOMAIN proc = DOMAIN t[k].proc
      OBVIOUS
    <3>4. ASSUME NEW i \in DOMAIN t[k].proc
          PROVE  /\ proc[i].pid = t[k].proc[i].pid
                 /\ proc[i].state = IF i = l THEN stateAfter(status) ELSE t[k].proc[i].state
      <4>1. t[k].proc[i] \in Proc
        BY <2>6
      <4> QED BY <4>1 DEF Proc
    <3> HIDE DEF proc, u
    <3> QED BY <2>7, <2>9, <3>2, <3>3, <3>4 DEF u
  <2> QED BY <2>8, <2>9
<1> QED BY <1>1, <1>2

(* Where the handler returns to is not in the window.                      *)
LEMMA AwakeOutside ==
  ASSUME pc \notin Window
  PROVE  awake(pc) \notin Window
BY DEF awake, Window

(* The handler.                                                            *)
LEMMA HandlerSafe ==
  ASSUME SafetyInv, HandlerStep
  PROVE  WindowClosed' /\ NewChild' /\ ReportsAreCurrent' /\ TableSound'
<1>t. /\ ReportsAreCurrent /\ NewChild /\ Sound(jobs)
      /\ njobmax \in Nat /\ jobs \in Table(njobmax)
      /\ event \in [Pids -> Status \cup {NoStatus}] /\ life \in [Pids -> Lives]
      /\ hpc = "record" => hpid \in Pids /\ hstatus \in Status
  BY DEF SafetyInv, TableSound, TypeOK, TableType, HandlerType, KernelType, Table
<1>u. UNCHANGED <<newpid, lead>>
  BY DEF HandlerStep, HandlerEnter, HandlerWaitpid, HandlerRecord, HandlerWaitpidNone,
         HandlerReturn, command
<1>w. pc \notin Window
  <2>1. CASE HandlerEnter
    BY <2>1 DEF HandlerEnter, deliverable, sleeping, SafetyInv, WindowClosed, Asleep, Window
  <2>2. CASE ~HandlerEnter
    <3>1. hpc # "idle"
      BY <2>2 DEF HandlerStep, HandlerWaitpid, HandlerRecord, HandlerWaitpidNone, HandlerReturn
    <3> QED BY <3>1 DEF SafetyInv, WindowClosed
  <2> QED BY <2>1, <2>2
<1>1. WindowClosed' /\ NewChild'
  <2>1. pc' = pc \/ pc' = awake(pc)
    BY DEF HandlerStep, HandlerEnter, HandlerWaitpid, HandlerRecord, HandlerWaitpidNone,
           HandlerReturn
  <2> QED BY <1>t, <1>u, <1>w, <2>1, AwakeOutside, OutsideWindow
<1>2. CASE HandlerEnter \/ HandlerWaitpidNone \/ HandlerReturn
  <2>1. UNCHANGED <<life, event, newpid>> /\ hpc # "record" /\ hpc' # "record"
    BY <1>2, <1>u DEF HandlerEnter, HandlerWaitpidNone, HandlerReturn, deliverable, procs
  <2>2. Sound(jobs')
    <3>1. jobs' = jobs \/ jobs' = watchjobs(jobs, FINISHED)
      BY <1>2 DEF HandlerEnter, HandlerWaitpidNone, HandlerReturn, table
    <3> QED BY <1>t, <3>1, WatchSound
  <2>3. ReportsAreCurrent'
    BY <1>t, <2>1 DEF ReportsAreCurrent
  <2>4. \A p : settled(p)' <=> settled(p)
    BY <2>1 DEF settled
  <2>5. TableSound'
    BY <2>1, <2>2, <2>4 DEF TableSound, Sound, Occupied, Forked, Once, Tracks
  <2> QED BY <1>1, <2>3, <2>5
<1>3. ASSUME NEW p \in Pids, HandlerWaitpid(p)
      PROVE  ReportsAreCurrent' /\ TableSound'
  <2>1. /\ event[p] # NoStatus /\ event' = [event EXCEPT ![p] = NoStatus]
        /\ life' = [life EXCEPT ![p] = IF event[p] = Exited THEN "gone" ELSE @]
        /\ hpid' = p /\ hstatus' = event[p] /\ hpc' = "record" /\ hpc = "waitpid"
        /\ jobs' = jobs
    BY <1>3 DEF HandlerWaitpid, table
  <2>2. stateAfter(event[p]) = view(life[p])
    BY <1>t, <2>1 DEF ReportsAreCurrent
  <2>3. \A q \in Pids : view(life'[q]) = view(life[q]) /\ (life'[q] = "none" => life[q] = "none")
    <3>1. event[p] = Exited => view(life[p]) = view("gone")
      BY <2>2 DEF stateAfter, view, Exited, Stopped, Continued
    <3> QED BY <1>t, <2>1, <3>1 DEF view
  <2>4. ReportsAreCurrent'
    BY <1>t, <2>1, <2>2, <2>3 DEF ReportsAreCurrent
  <2>5. ASSUME NEW q \in Pids, settled(q)' PROVE settled(q)
    BY <1>t, <2>1, <2>5 DEF settled
  <2>6. ASSUME NEW j \in DOMAIN jobs, NEW i \in DOMAIN jobs[j].proc
        PROVE  jobs[j].proc[i].pid \in Pids
    <3>1. jobs[j] \in Job
      BY <1>t DEF Table
    <3>2. jobs[j].proc[i] \in Proc
      BY <3>1 DEF Job
    <3> QED BY <3>2 DEF Proc
  <2>7. Occupied(jobs)' /\ Once(jobs)'
    BY <1>t, <2>1 DEF Sound, Occupied, Once
  <2>8. Forked(jobs)'
    BY <1>t, <1>u, <2>1, <2>3, <2>6 DEF Sound, Forked
  <2>9. Tracks(jobs)'
    <3> SUFFICES ASSUME NEW j \in DOMAIN jobs, NEW i \in DOMAIN jobs[j].proc,
                        settled(jobs[j].proc[i].pid)'
                 PROVE  jobs[j].proc[i].state = view(life'[jobs[j].proc[i].pid])
      BY <2>1 DEF Tracks
    <3>1. PICK p1 \in Pids : p1 = jobs[j].proc[i].pid
      BY <2>6
    <3>2. settled(p1)'
      BY <2>1, <3>1 DEF settled
    <3>3. settled(p1)
      BY <2>5, <3>2
    <3> QED BY <1>t, <2>3, <3>1, <3>3 DEF Sound, Tracks
  <2> QED BY <2>4, <2>7, <2>8, <2>9 DEF TableSound, Sound
<1>4. CASE HandlerRecord
  <2>1. /\ hpc = "record" /\ hpc' = "waitpid" /\ UNCHANGED <<life, event>>
        /\ jobs' = record(jobs, hpid, hstatus)
    BY <1>4 DEF HandlerRecord, procs, afterRecord
  <2>2. hpid \in Pids /\ hstatus \in Status
    BY <1>t, <2>1
  <2>3. ReportsAreCurrent'
    BY <1>t, <2>1 DEF ReportsAreCurrent
  <2>4. jobs' \in Table(njobmax)
    BY <1>t, <2>1, <2>2, RecordType
  <2>5. DOMAIN jobs' = 0 .. njobmax - 1 /\ DOMAIN jobs = 0 .. njobmax - 1
    BY <1>t, <2>4 DEF Table
  <2>6. ASSUME NEW j \in DOMAIN jobs'
        PROVE  /\ jobs'[j].pgid = jobs[j].pgid
               /\ DOMAIN jobs'[j].proc = DOMAIN jobs[j].proc
               /\ \A i \in DOMAIN jobs[j].proc :
                    /\ jobs'[j].proc[i].pid = jobs[j].proc[i].pid
                    /\ jobs'[j].proc[i].state =
                         IF jobs[j].proc[i].pid = hpid THEN stateAfter(hstatus)
                         ELSE jobs[j].proc[i].state
    BY <1>t, <2>1, <2>2, <2>5, RecordedEntries DEF Sound
  <2>7. Occupied(jobs)' /\ Forked(jobs)'
    BY <1>t, <1>u, <2>1, <2>5, <2>6 DEF Sound, Occupied, Forked
  <2>8. Once(jobs)'
    BY <1>t, <2>5, <2>6 DEF Sound, Once
  <2>9. Tracks(jobs)'
    <3> SUFFICES ASSUME NEW j \in DOMAIN jobs', NEW i \in DOMAIN jobs'[j].proc,
                        settled(jobs[j].proc[i].pid)'
                 PROVE  jobs'[j].proc[i].state = view(life'[jobs'[j].proc[i].pid])
      BY DEF Tracks
    <3> DEFINE pid == jobs[j].proc[i].pid
    <3>1. jobs'[j].proc[i].pid = pid /\ event[pid] = NoStatus
      BY <2>1, <2>6 DEF settled
    <3>2. CASE pid = hpid
      BY <1>t, <2>1, <2>6, <3>1, <3>2 DEF ReportsAreCurrent
    <3>3. CASE pid # hpid
      BY <1>t, <2>1, <2>5, <2>6, <3>1, <3>3 DEF Sound, Tracks, settled
    <3> QED BY <3>2, <3>3
  <2> QED BY <1>1, <2>3, <2>7, <2>8, <2>9 DEF TableSound, Sound
<1> QED BY <1>1, <1>2, <1>3, <1>4 DEF HandlerStep

-------------------------------------------------------------------------------
(* The main thread. *)

(* The window itself: fork(), addjob(), addproc().                         *)
LEMMA LaunchSafe ==
  ASSUME SafetyInv, Fork \/ AddJob \/ AddProc
  PROVE  WindowClosed' /\ NewChild' /\ ReportsAreCurrent' /\ TableSound'
<1>t. /\ ReportsAreCurrent /\ NewChild /\ TableSound /\ Sound(jobs) /\ TypeOK
      /\ njobmax \in Nat \ {0} /\ jobs \in Table(njobmax)
      /\ event \in [Pids -> Status \cup {NoStatus}] /\ life \in [Pids -> Lives]
      /\ lead \in Pids \cup {NoPid} /\ newpid \in Pids \cup {NoPid}
  BY DEF SafetyInv, TableSound, TypeOK, TableType, MainType, KernelType, Table
<1>w. /\ blocked /\ hpc = "idle" /\ pc \in Window /\ UNCHANGED <<blocked, handler, hpc>>
  BY DEF SafetyInv, WindowClosed, Window, Fork, AddJob, AddProc, MainAt, handler
<1>1. WindowClosed'
  BY <1>w DEF WindowClosed
<1>2. CASE Fork
  <2>1. PICK p \in unused : newpid' = p /\ life' = [life EXCEPT ![p] = "forked"]
                            /\ lead' = IF lead = NoPid THEN p ELSE lead
    BY <1>2 DEF Fork
  <2>2. p \in Pids /\ p # NoPid /\ life[p] = "none"
    BY PidAssumption DEF unused
  <2>3. UNCHANGED <<jobs, event, job>> /\ pc = "fork"
        /\ pc' = IF lead = NoPid THEN "addjob" ELSE "addproc"
    BY <1>2 DEF Fork, table, MainAt, Goto
  <2>4. \A q \in Pids : Progress(q)
    <3>1. view("forked") = view("none")
      BY DEF view
    <3> QED BY <1>t, <2>1, <2>2, <2>3, <3>1 DEF Progress
  <2>5. ReportsAreCurrent' /\ TableSound'
    BY <1>t, <1>w, <2>1, <2>2, <2>3, <2>4, ProgressSound
  <2>6. NewChild'
    <3>1. life'[newpid'] = "forked"
      BY <1>t, <2>1, <2>2
    <3>2. newpid' # NoPid /\ lead' # NoPid /\ view("forked") = RUNNING
      BY <2>1, <2>2 DEF view
    <3>3. pc' = "addproc" => jobs'[job'].pgid # NoPid
      BY <1>t, <2>3 DEF NewChild
    <3> QED BY <2>3, <3>1, <3>2, <3>3 DEF NewChild, Window
  <2> QED BY <1>1, <2>5, <2>6
<1>3. CASE AddJob
  <2> DEFINE j == IF bg THEN allocjob(jobs, njobmax) ELSE FG
  <2>1. j \in 0 .. njobmax
    BY <1>t, AllocjobIsFree DEF FG
  <2>2. /\ jobs' = [grown(jobs, j) EXCEPT ![j] = newJob(lead)] /\ job' = j
        /\ pc = "addjob" /\ pc' = "addproc" /\ UNCHANGED <<life, event, newpid, lead>>
    BY <1>3 DEF AddJob, MainAt, Goto, UnchangedKernel, procs
  <2> HIDE DEF j
  <2>3. Sound(jobs')
    <3>1. Sound(grown(jobs, j))
      BY <1>t, <2>1, GrownSound
    <3>2. newJob(lead).proc = << >>
      BY DEF newJob
    <3> QED BY <2>2, <3>1, <3>2, ReplacedSound
  <2>4. ReportsAreCurrent' /\ TableSound'
    BY <1>t, <1>w, <2>2, <2>3, SameReports
  <2>5. NewChild'
    <3>1. j \in DOMAIN grown(jobs, j) /\ lead # NoPid /\ newpid # NoPid
      BY <1>t, <2>2 DEF grown, NewChild
    <3>2. jobs'[job'].pgid # NoPid
      BY <2>2, <3>1 DEF newJob
    <3> QED BY <1>t, <2>2, <3>1, <3>2 DEF NewChild, Window
  <2> QED BY <1>1, <2>4, <2>5
<1>4. CASE AddProc
  <2>1. /\ pc = "addproc" /\ newpid' = NoPid /\ UNCHANGED <<life, event>>
        /\ jobs' = [jobs EXCEPT ![job].proc = Append(@, newProc(newpid))]
    BY <1>4 DEF AddProc, MainAt, UnchangedKernel, procs
  <2>2. newpid \in Pids /\ lead # NoPid /\ jobs[job].pgid # NoPid
        /\ life[newpid] # "none"
        /\ (event[newpid] = NoStatus => view(life[newpid]) = RUNNING)
    BY <1>t, <2>1 DEF NewChild
  <2>3. NewChild'
    <3>1. \/ pc' = "fork" /\ UNCHANGED <<lead, job>>
          \/ pc' \in {"unmask", "tcsetpgrp"} /\ lead' = NoPid
      BY <1>4 DEF AddProc, Goto
    <3>2. UNCHANGED <<lead, job>> => jobs'[job'].pgid # NoPid
      <4>1. job \in DOMAIN jobs => jobs'[job].pgid = jobs[job].pgid
        BY <1>t, <2>1 DEF Table, Job
      <4>2. job \notin DOMAIN jobs => jobs' = jobs
        BY <1>t, <2>1 DEF Table
      <4> QED BY <2>2, <4>1, <4>2
    <3> QED BY <2>1, <3>1, <3>2 DEF NewChild, Window
  <2>4. job \in 0 .. njobmax - 1 /\ DOMAIN jobs = 0 .. njobmax - 1
    <3>1. job \in Nat /\ job < njobmax
      BY <1>t, <2>1 DEF TypeOK, MainType, Terminal
    <3> QED BY <1>t, <3>1 DEF Table
  <2> DEFINE n   == Len(jobs[job].proc)
             new == Append(jobs[job].proc, newProc(newpid))
  <2>5. jobs[job] \in Job /\ jobs[job].proc \in Seq(Proc) /\ n \in Nat
    BY <1>t, <2>4, LenProperties DEF Table, Job
  <2>6. /\ DOMAIN jobs[job].proc = 1 .. n /\ DOMAIN new = 1 .. n + 1
        /\ new[n + 1] = newProc(newpid)
        /\ \A i \in 1 .. n : new[i] = jobs[job].proc[i]
    BY <2>2, <2>5, NewProcType, AppendProperties, LenProperties
  <2>7. /\ DOMAIN jobs' = DOMAIN jobs
        /\ \A k \in DOMAIN jobs : k # job => jobs'[k] = jobs[k]
        /\ jobs'[job].proc = new /\ jobs'[job].pgid = jobs[job].pgid
    <3>1. jobs' = [jobs EXCEPT ![job] = [jobs[job] EXCEPT !.proc = new]]
      BY <2>1
    <3> HIDE DEF new
    <3> QED BY <2>4, <2>5, <3>1 DEF Job
  <2> HIDE DEF n, new
  <2>8. (* An entry of the new table is one of the old table, or the child's. *)
        ASSUME NEW k \in DOMAIN jobs', NEW i \in DOMAIN jobs'[k].proc
        PROVE  \/ i \in DOMAIN jobs[k].proc /\ jobs'[k].proc[i] = jobs[k].proc[i]
                  /\ ~(k = job /\ i = n + 1)
               \/ k = job /\ i = n + 1 /\ jobs'[k].proc[i] = newProc(newpid)
    <3>1. CASE k # job
      BY <2>7, <3>1
    <3>2. CASE k = job
      BY <2>5, <2>6, <2>7, <3>2
    <3> QED BY <3>1, <3>2
  <2>9. newProc(newpid).pid = newpid /\ newProc(newpid).state = RUNNING
    BY DEF newProc
  <2>10. newpid # NoPid
    BY <2>2, PidAssumption
  <2>11. ASSUME NEW k \in DOMAIN jobs, NEW i \in DOMAIN jobs[k].proc
         PROVE  jobs[k].proc[i].pid # newpid /\ jobs[k].proc[i].pid # NoPid
    <3>1. jobs[k].proc[i].pid # newpid
      BY <1>t DEF Sound, Forked
    <3>2. jobs[k] \in Job
      BY <1>t DEF Table
    <3>3. jobs[k].proc[i] \in Proc
      BY <3>2 DEF Job
    <3> QED BY <3>1, <3>3, PidAssumption DEF Proc
  <2>12. \A p : settled(p)' <=> settled(p)
    BY <1>w, <2>1 DEF settled, handler
  <2>13. Occupied(jobs)'
    BY <1>t, <2>2, <2>7, <2>8 DEF Sound, Occupied
  <2>14. Forked(jobs)'
    BY <1>t, <2>1, <2>2, <2>7, <2>8, <2>9, <2>10, <2>11 DEF Sound, Forked
  <2>15. Once(jobs)'
    <3> SUFFICES ASSUME NEW k1 \in DOMAIN jobs', NEW k2 \in DOMAIN jobs',
                        NEW i1 \in DOMAIN jobs'[k1].proc, NEW i2 \in DOMAIN jobs'[k2].proc,
                        jobs'[k1].proc[i1].pid = jobs'[k2].proc[i2].pid
                 PROVE  k1 = k2 /\ i1 = i2
      BY DEF Once
    <3>1. CASE i1 \in DOMAIN jobs[k1].proc /\ jobs'[k1].proc[i1] = jobs[k1].proc[i1]
               /\ i2 \in DOMAIN jobs[k2].proc /\ jobs'[k2].proc[i2] = jobs[k2].proc[i2]
      BY <1>t, <2>7, <3>1 DEF Sound, Once
    <3>2. CASE jobs'[k1].proc[i1] = newProc(newpid) \/ jobs'[k2].proc[i2] = newProc(newpid)
      BY <2>7, <2>8, <2>9, <2>11, <3>2
    <3> QED BY <2>8, <3>1, <3>2
  <2>16. Tracks(jobs)'
    <3> SUFFICES ASSUME NEW k \in DOMAIN jobs', NEW i \in DOMAIN jobs'[k].proc
                 PROVE  settled(jobs'[k].proc[i].pid) =>
                          jobs'[k].proc[i].state = view(life[jobs'[k].proc[i].pid])
      BY <2>1, <2>12 DEF Tracks
    <3>1. CASE i \in DOMAIN jobs[k].proc /\ jobs'[k].proc[i] = jobs[k].proc[i]
      BY <1>t, <2>7, <3>1 DEF Sound, Tracks
    <3>2. CASE jobs'[k].proc[i] = newProc(newpid)
      BY <2>2, <2>9, <3>2 DEF settled
    <3> QED BY <2>8, <3>1, <3>2
  <2>17. ReportsAreCurrent'
    BY <1>t, <1>w, <2>1 DEF ReportsAreCurrent, handler
  <2> QED BY <1>1, <2>3, <2>13, <2>14, <2>15, <2>16, <2>17 DEF TableSound, Sound
<1> QED BY <1>2, <1>3, <1>4

(* Steps outside of the window that leave the table alone.                 *)
LEMMA QuietSafe ==
  ASSUME SafetyInv, pc \notin Window, pc' \notin Window,
         UNCHANGED <<newpid, lead, jobs, handler>>, \A q \in Pids : Progress(q)
  PROVE  WindowClosed' /\ NewChild' /\ ReportsAreCurrent' /\ TableSound'
BY OutsideWindow, ProgressSound DEF SafetyInv

(* Steps outside of the window that change the table only.                 *)
LEMMA TableSafe ==
  ASSUME SafetyInv, pc \notin Window, pc' \notin Window,
         UNCHANGED <<newpid, lead, life, event, handler>>, Sound(jobs')
  PROVE  WindowClosed' /\ NewChild' /\ ReportsAreCurrent' /\ TableSound'
BY OutsideWindow, SameReports DEF SafetyInv

(* What the user types.                                                    *)
LEMMA UserSafe ==
  ASSUME SafetyInv, User
  PROVE  WindowClosed' /\ NewChild' /\ ReportsAreCurrent' /\ TableSound'
<1>w. pc = "readline" /\ pc \notin Window /\ hpc = "idle"
  BY DEF User, Launch, DoResume, DoKill, DoJobs, DoHistory, DoQuit, Wait, MainAt, Window
<1>1. CASE \E n \in 1 .. MaxStages, inBg \in BOOLEAN : Launch(n, inBg)
  <2>1. /\ pc' = "fork" /\ blocked' = TRUE
        /\ UNCHANGED <<jobs, lead, newpid, handler, life, event, hpc>>
    BY <1>1 DEF Launch, Goto, table, handler, procs
  <2>2. lead = NoPid /\ newpid = NoPid
    BY <1>w DEF SafetyInv, NewChild
  <2>3. WindowClosed' /\ NewChild'
    BY <1>w, <2>1, <2>2 DEF WindowClosed, NewChild, Window
  <2>4. ReportsAreCurrent' /\ TableSound'
    BY <2>1, SameReports DEF SafetyInv, TableSound
  <2> QED BY <2>3, <2>4
<1>2. CASE \/ \E arg \in -1 .. njobmax, inBg \in BOOLEAN : DoResume(arg, inBg)
           \/ \E j \in 0 .. njobmax : DoKill(j)
           \/ DoQuit \/ Wait("readline", "loopend")
  <2>1. UNCHANGED <<jobs, lead, newpid, handler, life, event>>
    BY <1>2 DEF DoResume, DoKill, DoQuit, Wait, UnchangedKernel, table, command, procs
  <2>2. pc' \in {"unmask", "resume", "kill", "shutdown", "loopend"}
    BY <1>2 DEF DoResume, DoKill, DoQuit, Wait, Goto
  <2>3. pc' \notin Window
    BY <2>2 DEF Window
  <2> QED BY <1>w, <2>1, <2>3, NoProgress, QuietSafe
<1>3. CASE DoHistory
  <2>1. PICK p \in unused : life' = [life EXCEPT ![p] = "forked"]
    BY <1>3 DEF DoHistory
  <2>2. UNCHANGED <<jobs, lead, newpid, handler, event>> /\ pc' = "loopend"
    BY <1>3 DEF DoHistory, table, command, Goto
  <2>3. \A q \in Pids : Progress(q)
    <3>1. view("forked") = view("none") /\ life[p] = "none"
      BY DEF view, unused
    <3> QED BY <2>1, <2>2, <3>1 DEF Progress, SafetyInv, TypeOK, KernelType
  <2>4. pc' \notin Window
    BY <2>2 DEF Window
  <2> QED BY <1>w, <2>2, <2>3, <2>4, QuietSafe
<1>4. CASE DoJobs
  <2>1. WatchThen(jobs, ALL, "loopend") /\ UNCHANGED <<lead, newpid, handler, life, event>>
    BY <1>4 DEF DoJobs, command, UnchangedKernel, procs
  <2>2. njobmax \in Nat /\ jobs \in Table(njobmax) /\ Sound(jobs)
    BY DEF SafetyInv, TypeOK, TableType, TableSound, Table
  <2>3. Sound(jobs')
    BY <2>1, <2>2, WatchThenSound
  <2>4. pc' \notin Window
    BY <2>1 DEF WatchThen, Goto, Window
  <2> QED BY <1>w, <2>1, <2>3, <2>4, TableSafe
<1> QED BY <1>1, <1>2, <1>3, <1>4 DEF User

(* Signals of the main thread.                                             *)
LEMMA SignalsSafe ==
  ASSUME SafetyInv, ResumeCont \/ Kill \/ ShutdownJob \/ ContForeground
  PROVE  WindowClosed' /\ NewChild' /\ ReportsAreCurrent' /\ TableSound'
<1>1. UNCHANGED <<jobs, lead, newpid, handler>>
  BY DEF ResumeCont, Kill, ShutdownJob, ContForeground, table, command
<1>2. pc \notin Window
  BY DEF ResumeCont, Kill, ShutdownJob, ContForeground, MainAt, Window
<1>3. pc' \notin Window
  <2>1. pc' \in {"asleep resume", "died", "unmask", "shutdown", "asleep shutdown",
                 "before sleep stopped"}
    BY DEF ResumeCont, Kill, ShutdownJob, ContForeground, KillJob, Goto
  <2> QED BY <2>1 DEF Window
<1>4. \A q \in Pids : Progress(q)
  <2>1. CASE UNCHANGED <<life, event>>
    BY <2>1, NoProgress
  <2>2. CASE ~UNCHANGED <<life, event>>
    <3>1. PICK S : Continue(S)
      BY <2>2 DEF ResumeCont, Kill, ShutdownJob, ContForeground, KillJob
    <3> QED BY <3>1, ContinueProgress DEF SafetyInv
  <2> QED BY <2>1, <2>2
<1> QED BY <1>1, <1>2, <1>3, <1>4, QuietSafe

(* Steps of the main thread that change neither the table nor a process.   *)
LEMMA WaitsSafe ==
  ASSUME SafetyInv,
         Unmask \/ WhileStopped \/ SleepStopped \/ WhileRunning \/ SleepRunning
           \/ Reread \/ Remask \/ FinishRunning
  PROVE  WindowClosed' /\ NewChild' /\ ReportsAreCurrent' /\ TableSound'
<1>1. UNCHANGED <<jobs, lead, newpid, handler, life, event>>
  BY DEF Unmask, WhileStopped, SleepStopped, WhileRunning, SleepRunning, Reread, Remask,
         FinishRunning, Wait, UnchangedKernel, table, command, procs
<1>2. pc \notin Window
  BY DEF Unmask, WhileStopped, SleepStopped, WhileRunning, SleepRunning, Reread, Remask,
         FinishRunning, Wait, MainAt, Window
<1>3. pc' \notin Window
  BY DEF Unmask, WhileStopped, SleepStopped, WhileRunning, SleepRunning, Reread, Remask,
         FinishRunning, Wait, Goto, Window
<1> QED BY <1>1, <1>2, <1>3, NoProgress, QuietSafe

(* Steps of the main thread that change the table.                         *)
LEMMA TablesSafe ==
  ASSUME SafetyInv,
         LoopEnd \/ ShutdownEnd \/ ResumeDone \/ GiveTerminal \/ FinishStopped \/ FinishFinished
  PROVE  WindowClosed' /\ NewChild' /\ ReportsAreCurrent' /\ TableSound'
<1>t. njobmax \in Nat \ {0} /\ jobs \in Table(njobmax) /\ Sound(jobs) /\ FG \in 0 .. njobmax - 1
  BY DEF SafetyInv, TypeOK, TableType, TableSound, Table, FG
<1>1. UNCHANGED <<lead, newpid, life, event, handler>>
  BY DEF LoopEnd, ShutdownEnd, ResumeDone, GiveTerminal, FinishStopped, FinishFinished,
         UnchangedKernel, command, procs
<1>2. pc \notin Window
  BY DEF LoopEnd, ShutdownEnd, ResumeDone, GiveTerminal, FinishStopped, FinishFinished,
         MainAt, Window
<1>3. pc' \notin Window
  BY DEF LoopEnd, ShutdownEnd, ResumeDone, GiveTerminal, FinishStopped, FinishFinished,
         WatchThen, Goto, Window
<1>4. Sound(jobs')
  <2>1. CASE LoopEnd \/ ShutdownEnd
    <3>1. \E next : WatchThen(jobs, FINISHED, next)
      BY <2>1 DEF LoopEnd, ShutdownEnd
    <3> QED BY <1>t, <3>1, WatchThenSound
  <2>2. CASE ResumeDone
    <3>1. job \in 0 .. njobmax - 1
      <4>1. pc = "resume" /\ job \in Nat /\ (pc \notin {"shutdown", "asleep shutdown"} \cup Terminal => job < njobmax)
        BY <2>2 DEF ResumeDone, MainAt, SafetyInv, TypeOK, MainType
      <4>2. job < njobmax
        BY <4>1 DEF Terminal
      <4> QED BY <1>t, <4>1, <4>2
    <3>2. \/ \E next : WatchThen(jobs, RUNNING, next)
          \/ jobs' = movejob(watchjobs(jobs, RUNNING), job, FG)
          \/ jobs' = jobs
      BY <2>2 DEF ResumeDone
    <3>3. watchjobs(jobs, RUNNING) \in Table(njobmax) /\ Sound(watchjobs(jobs, RUNNING))
      BY <1>t, WatchjobsType, WatchSound
    <3>4. Sound(movejob(watchjobs(jobs, RUNNING), job, FG))
      BY <1>t, <3>1, <3>3, MoveSound
    <3> QED BY <1>t, <3>2, <3>4, WatchThenSound
  <2>3. CASE GiveTerminal
    <3>1. jobs' = jobs
      BY <2>3 DEF GiveTerminal, table
    <3> QED BY <1>t, <3>1
  <2>4. CASE FinishStopped
    <3> DEFINE j == allocjob(jobs, njobmax)
               n == IF j = njobmax THEN njobmax + 1 ELSE njobmax
               t == [grown(jobs, j) EXCEPT ![j].state = STOPPED]
    <3>1. WatchThen(movejob(t, FG, j), STOPPED, "unmask") \/ jobs' = t
      BY <2>4 DEF FinishStopped
    <3>2. j \in 1 .. njobmax
      BY <1>t, AllocjobIsFree
    <3> HIDE DEF j
    <3>3. grown(jobs, j) \in Table(n) /\ Sound(grown(jobs, j))
      BY <1>t, <3>2, GrownType, GrownSound
    <3>4. n \in Nat /\ j \in 0 .. n - 1 /\ FG \in 0 .. n - 1
      BY <1>t, <3>2 DEF FG
    <3> HIDE DEF n
    <3>5. grown(jobs, j)[j] \in Job
      BY <3>3, <3>4 DEF Table
    <3>6. t \in Table(n)
      <4>1. [grown(jobs, j)[j] EXCEPT !.state = STOPPED] \in Job
        BY <3>5 DEF Job, States
      <4> QED BY <3>3, <3>4, <4>1 DEF Table
    <3>7. Sound(t)
      <4>1. Same([grown(jobs, j)[j] EXCEPT !.state = STOPPED], grown(jobs, j)[j])
        BY <3>5 DEF Job, Same
      <4> QED BY <3>3, <4>1, ReplacedSound
    <3> HIDE DEF t
    <3>8. movejob(t, FG, j) \in Table(n) /\ Sound(movejob(t, FG, j))
      BY <3>4, <3>6, <3>7, MovejobType, MoveSound
    <3> QED BY <3>1, <3>4, <3>7, <3>8, WatchThenSound
  <2>5. CASE FinishFinished
    <3>1. \/ WatchThen([jobs EXCEPT ![FG] = deljob(@)], FINISHED, "unmask")
          \/ jobs' = jobs
      BY <2>5 DEF FinishFinished
    <3>2. deljob(jobs[FG]) \in Job /\ deljob(jobs[FG]).proc = << >>
      <4>1. jobs[FG] \in Job
        BY <1>t DEF Table
      <4>2. deljob(jobs[FG]) \in Job
        BY <4>1, DeljobType
      <4>3. deljob(jobs[FG]).proc = << >>
        BY <4>1 DEF deljob, Job
      <4> QED BY <4>2, <4>3
    <3>3. [jobs EXCEPT ![FG] = deljob(@)] \in Table(njobmax)
      BY <1>t, <3>2 DEF Table
    <3>4. Sound([jobs EXCEPT ![FG] = deljob(@)])
      BY <1>t, <3>2, ReplacedSound
    <3> QED BY <1>t, <3>1, <3>3, <3>4, WatchThenSound
  <2> QED BY <2>1, <2>2, <2>3, <2>4, <2>5
<1> QED BY <1>1, <1>2, <1>3, <1>4, TableSafe

(* Every step keeps the invariant.                                         *)
LEMMA SafetyStep == SafetyInv /\ [Next]_vars => SafetyInv'
<1> SUFFICES ASSUME SafetyInv, [Next]_vars PROVE SafetyInv'
  OBVIOUS
<1>1. TypeOK'
  BY StepType DEF SafetyInv
<1>2. WindowClosed' /\ NewChild' /\ ReportsAreCurrent' /\ TableSound'
  <2>1. CASE User
    BY <2>1, UserSafe
  <2>2. CASE MainStep
    BY <2>2, LaunchSafe, SignalsSafe, WaitsSafe, TablesSafe DEF MainStep
  <2>3. CASE HandlerStep
    BY <2>3, HandlerSafe
  <2>4. CASE Children
    BY <2>4, ChildSafe DEF Children
  <2>5. CASE UNCHANGED vars
    <3>1. UNCHANGED <<table, jobs, handler, hpc, pc, blocked, newpid, lead, job, life, event>>
      BY <2>5 DEF vars, table, command, handler, procs
    <3>2. WindowClosed' /\ NewChild'
      BY <3>1 DEF SafetyInv, WindowClosed, NewChild
    <3>3. ReportsAreCurrent' /\ TableSound'
      BY <3>1, SameReports DEF SafetyInv, TableSound
    <3> QED BY <3>2, <3>3
  <2> QED BY <2>1, <2>2, <2>3, <2>4, <2>5 DEF Next
<1> QED BY <1>1, <1>2 DEF SafetyInv

(* The table says of every process in it what the kernel last reported     *)
(* (sigchld_handler and the critical sections of do_job, do_pipeline,      *)
(* resumejob, killjob and monitorjob).                                     *)
THEOREM TableCorrect == Spec => []TableTracksKernel
<1>1. SafetyInv => TableTracksKernel
  BY DEF SafetyInv, TableSound, Sound, Tracks, TableTracksKernel
<1> QED BY <1>1, SafetyInit, SafetyStep, PTL DEF Spec

-------------------------------------------------------------------------------
(* Notifications: this invariant is inductive by itself.                   *)

(* SIGCONT to a group that wakes nobody changes no status; otherwise the   *)
(* shell gets SIGCHLD.                                                     *)
LEMMA ContinueNotifies ==
  ASSUME KernelType, NEW S, Continue(S), NEW p \in Pids
  PROVE  event'[p] = event[p] \/ sigchld'
<1> DEFINE woken == {q \in S : life[q] = "stopped"}
<1>1. event' = [q \in Pids |-> IF q \in woken THEN Continued ELSE event[q]]
  BY DEF Continue
<1>2. sigchld' = (sigchld \/ woken # {})
  BY DEF Continue
<1>3. CASE p \in woken
  <2>1. woken # {}
    BY <1>3
  <2> QED BY <1>2, <2>1
<1>4. CASE p \notin woken
  BY <1>1, <1>4
<1> QED BY <1>3, <1>4

(* A step outside of the handler.                                          *)
LEMMA NotifiedOutside ==
  ASSUME NoLostNotification, UNCHANGED handler, sigchld => sigchld',
         \A p \in Pids : event'[p] = event[p] \/ sigchld'
  PROVE  NoLostNotification'
BY DEF NoLostNotification, handler

(* Steps of a child.                                                       *)
LEMMA NotificationsChild ==
  ASSUME TypeOK, NoLostNotification, NEW p \in Pids, ChildStep(p)
  PROVE  NoLostNotification'
<1>1. UNCHANGED handler
  BY DEF ChildStep, ChildStart, Exit, Stop, OtherCont, OtherKill, SetModes
<1>2. UNCHANGED <<event, sigchld>> \/ sigchld' = TRUE
  BY DEF ChildStep, ChildStart, Exit, Stop, OtherCont, OtherKill, SetModes, Change, procs
<1> QED BY <1>1, <1>2, NotifiedOutside

(* Steps of the handler.                                                   *)
LEMMA NotificationsHandler ==
  ASSUME TypeOK, NoLostNotification, HandlerStep
  PROVE  NoLostNotification'
<1>1. CASE HandlerEnter
  BY <1>1 DEF HandlerEnter, NoLostNotification
<1>2. CASE \E p \in Pids : HandlerWaitpid(p)
  BY <1>2 DEF HandlerWaitpid, NoLostNotification
<1>3. CASE HandlerRecord
  BY <1>3 DEF HandlerRecord, afterRecord, NoLostNotification
<1>4. CASE HandlerWaitpidNone
  BY <1>4 DEF HandlerWaitpidNone, NoLostNotification, procs
<1>5. CASE HandlerReturn
  <2>1. UNCHANGED <<event, sigchld>> /\ hpc = "watchjobs"
    BY <1>5 DEF HandlerReturn, procs
  <2> QED BY <2>1 DEF NoLostNotification
<1> QED BY <1>1, <1>2, <1>3, <1>4, <1>5 DEF HandlerStep

(* Steps of the main thread.                                               *)
LEMMA NotificationsMain ==
  ASSUME TypeOK, NoLostNotification, User \/ MainStep
  PROVE  NoLostNotification'
<1>1. UNCHANGED handler
  BY DEF User, MainStep, Launch, DoResume, DoKill, DoJobs, DoHistory, DoQuit, Wait, Fork,
         AddJob, AddProc, Unmask, LoopEnd, ResumeCont, ResumeDone, Kill, ShutdownJob,
         ShutdownEnd, GiveTerminal, WhileStopped, ContForeground, SleepStopped,
         WhileRunning, SleepRunning, Reread, Remask, FinishStopped, FinishFinished,
         FinishRunning
<1>2. UNCHANGED <<event, sigchld>> \/ \E S : Continue(S)
  <2>1. CASE User
    BY <2>1 DEF User, Launch, DoResume, DoKill, DoJobs, DoHistory, DoQuit, Wait,
                UnchangedKernel, procs
  <2>2. CASE ResumeCont \/ Kill \/ ShutdownJob \/ ContForeground
    BY <2>2 DEF ResumeCont, Kill, ShutdownJob, ContForeground, KillJob
  <2>3. CASE MainStep /\ ~(ResumeCont \/ Kill \/ ShutdownJob \/ ContForeground)
    BY <2>3 DEF MainStep, Fork, AddJob, AddProc, Unmask, LoopEnd, ResumeDone, ShutdownEnd,
                GiveTerminal, WhileStopped, SleepStopped, WhileRunning, SleepRunning,
                Reread, Remask, FinishStopped, FinishFinished, FinishRunning, Wait,
                UnchangedKernel, procs
  <2> QED BY <2>1, <2>2, <2>3
<1>3. CASE UNCHANGED <<event, sigchld>>
  BY <1>1, <1>3, NotifiedOutside
<1>4. CASE \E S : Continue(S)
  <2>1. PICK S : Continue(S)
    BY <1>4
  <2>2. \A p \in Pids : event'[p] = event[p] \/ sigchld'
    BY <2>1, ContinueNotifies DEF TypeOK
  <2>3. sigchld => sigchld'
    BY <2>1 DEF Continue
  <2> QED BY <1>1, <2>2, <2>3, NotifiedOutside
<1> QED BY <1>2, <1>3, <1>4

(* Every step.                                                             *)
LEMMA NotificationsStep == TypeOK /\ NoLostNotification /\ [Next]_vars => NoLostNotification'
<1> SUFFICES ASSUME TypeOK, NoLostNotification, [Next]_vars
             PROVE  NoLostNotification'
  OBVIOUS
<1>1. CASE User \/ MainStep
  BY <1>1, NotificationsMain
<1>2. CASE HandlerStep
  BY <1>2, NotificationsHandler
<1>3. CASE Children
  BY <1>3, NotificationsChild DEF Children
<1>4. CASE UNCHANGED vars
  BY <1>4, NotifiedOutside DEF vars, procs
<1> QED BY <1>1, <1>2, <1>3, <1>4 DEF Next

(* A status change that waitpid() has not reported yet has a SIGCHLD on its *)
(* way, or the handler is going to ask again: one signal  *)
(* may stand for any number of children (the loop of sigchld_handler).     *)
THEOREM NotificationsKept == Spec => []NoLostNotification
<1>1. Init => NoLostNotification
  BY DEF Init, NoLostNotification
<1> QED BY <1>1, NotificationsStep, TypeCorrect, PTL DEF Spec

-------------------------------------------------------------------------------
(***************************************************************************)
(* What every slot of the job table looks like by itself, whatever the     *)
(* number of processes, stages and slots: a free slot is FINISHED and has  *)
(* no process, the state of a job is the summary of the states of its      *)
(* processes, and the status of a process that ended is kept.              *)
(*                                                                         *)
(* The argument: each function of jobs.c takes a sound slot to a sound     *)
(* slot, except that allocjob() and addjob() hand out a slot without       *)
(* processes.  Its state RUNNING becomes true with the first addproc(),    *)
(* and no handler runs before it (Launching with WindowClosed).            *)
(***************************************************************************)

(* S is what a free slot may look like.                                    *)
FreeSlot(S, slot) == slot.pgid = NoPid => slot.state \in S /\ slot.proc = << >>

Summary(slot) == slot.proc # << >> => slot.state = job_state(slot.proc)

(* Only the last of several processes may have ended without its status.   *)
StatusKept(slot) ==
  \A i \in DOMAIN slot.proc :
    slot.proc[i].state = FINISHED /\ slot.proc[i].exitcode # Exited =>
      i = Len(slot.proc) /\ i > 1

SlotSound(S, slot) == FreeSlot(S, slot) /\ Summary(slot) /\ StatusKept(slot)

SlotsSound(S, t) == \A j \in DOMAIN t : SlotSound(S, t[j])

(* The job that is being launched has its slot, and all of it runs.        *)
Launching ==
  /\ pc \notin Window => lead = NoPid
  /\ pc \in {"addjob", "addproc"} => lead # NoPid
  /\ pc = "addproc" \/ (pc = "fork" /\ lead # NoPid) =>
       /\ jobs[job].state = RUNNING /\ jobs[job].pgid # NoPid
       /\ \A i \in DOMAIN jobs[job].proc : jobs[job].proc[i].state = RUNNING

(* Between allocjob() and movejob() a free slot looks STOPPED (monitorjob). *)
Idle == {FINISHED, STOPPED}

SlotInv(S) == WindowClosed /\ Launching /\ SlotsSound(S, jobs)

-------------------------------------------------------------------------------
(* The functions of jobs.c on one slot. *)

(* calloc() and movejob() leave a sound slot behind.                       *)
LEMMA ZeroJobSound ==
  ASSUME NEW S, FINISHED \in S
  PROVE  SlotSound(S, ZeroJob)
BY DEF SlotSound, FreeSlot, Summary, StatusKept, ZeroJob

(* addjob() makes one.                                                     *)
LEMMA NewJobSound ==
  ASSUME NEW S, NEW p, p # NoPid
  PROVE  SlotSound(S, newJob(p))
BY DEF SlotSound, FreeSlot, Summary, StatusKept, newJob

(* deljob() leaves one behind, because it asserts that the job finished.   *)
LEMMA DeljobSound ==
  ASSUME NEW S, FINISHED \in S, NEW slot \in Job, slot.state = FINISHED
  PROVE  SlotSound(S, deljob(slot))
<1>1. deljob(slot).proc = << >> /\ deljob(slot).state = FINISHED
  BY DEF deljob, Job
<1> QED BY <1>1 DEF SlotSound, FreeSlot, Summary, StatusKept

(* A change of an entry's exit code does not change the state of the job.  *)
(* While the job has not finished, a process that has is not alone.        *)
LEMMA ClearStatusSound ==
  ASSUME NEW S, FINISHED \in S, NEW slot \in Job, SlotSound(S, slot),
         slot.state # FINISHED \/ slot.proc = << >>
  PROVE  SlotSound(S, clearStatus(slot))
<1> DEFINE new == [slot.proc EXCEPT ![Len(slot.proc)].exitcode = NoStatus]
<1>1. /\ clearStatus(slot).pgid = slot.pgid /\ clearStatus(slot).state = slot.state
      /\ clearStatus(slot).proc = new
  BY DEF clearStatus, Job
<1>2. slot.proc \in Seq(Proc)
  BY DEF Job
<1>3. DOMAIN new = DOMAIN slot.proc
  OBVIOUS
<1>4. ASSUME NEW i \in DOMAIN slot.proc PROVE new[i].state = slot.proc[i].state
  <2>1. slot.proc[i] \in Proc
    BY <1>2
  <2> QED BY <2>1 DEF Proc
<1>5. procStates(new) = procStates(slot.proc)
  <2> HIDE DEF new
  <2> QED BY <1>3, <1>4 DEF procStates
<1>6. slot.proc = << >> => new = << >>
  OBVIOUS
<1>7. new # << >> => slot.proc # << >>
  BY <1>6
<1>8. Len(new) = Len(slot.proc)
  BY <1>2
<1>9. ASSUME NEW i \in DOMAIN new, new[i].state = FINISHED, new[i].exitcode # Exited
      PROVE  i = Len(new) /\ i > 1
  <2>1. i \in 1 .. Len(slot.proc) /\ slot.proc[i].state = FINISHED
    BY <1>2, <1>3, <1>4, <1>9
  <2>2. CASE i = Len(slot.proc)
    <3>1. i # 1
      <4> SUFFICES ASSUME i = 1 PROVE FALSE
        OBVIOUS
      <4>1. DOMAIN slot.proc = {1} /\ slot.proc # << >>
        BY <1>2, <2>1, <2>2
      <4>2. procStates(slot.proc) = {FINISHED}
        BY <2>1, <4>1 DEF procStates
      <4>3. job_state(slot.proc) = FINISHED
        BY <4>2 DEF job_state, RUNNING, STOPPED, FINISHED
      <4> QED BY <4>1, <4>3 DEF SlotSound, Summary
    <3>2. Len(slot.proc) \in Nat
      BY <1>2
    <3>3. i > 1
      BY <2>1, <3>1, <3>2
    <3> HIDE DEF new
    <3> QED BY <1>8, <2>2, <3>3
  <2>3. CASE i # Len(slot.proc)
    <3>1. new[i] = slot.proc[i]
      BY <1>2, <2>1, <2>3
    <3> QED BY <1>9, <2>1, <2>3, <3>1 DEF SlotSound, StatusKept
  <2> QED BY <2>2, <2>3
<1> HIDE DEF new
<1> QED BY <1>1, <1>5, <1>6, <1>7, <1>9 DEF SlotSound, FreeSlot, Summary, StatusKept, job_state

(* watchjobs(), on each slot.                                              *)
LEMMA WatchjobSound ==
  ASSUME NEW S, FINISHED \in S, NEW slot \in Job, NEW which, SlotSound(S, slot)
  PROVE  SlotSound(S, watchjob(slot, which))
<1>1. \/ watchjob(slot, which) = slot
      \/ watchjob(slot, which) = clearStatus(slot) /\ slot.state # FINISHED
      \/ watchjob(slot, which) = deljob(slot) /\ slot.state = FINISHED
  BY DEF watchjob, RUNNING, STOPPED, FINISHED
<1> QED BY <1>1, ClearStatusSound, DeljobSound

(* The handler computes the state again with every status it enters.       *)
LEMMA RecordedSound ==
  ASSUME NEW S, FINISHED \in S, NEW slot \in Job, SlotSound(S, slot), slot.pgid # NoPid,
         NEW i, NEW status \in Status
  PROVE  SlotSound(S, recorded(slot, i, status))
<1> DEFINE proc == [slot.proc EXCEPT ![i].state = stateAfter(status), ![i].exitcode = status]
<1>1. /\ recorded(slot, i, status).pgid = slot.pgid
      /\ recorded(slot, i, status).proc = proc
      /\ recorded(slot, i, status).state = job_state(proc)
  BY DEF recorded, Job
<1>2. slot.proc \in Seq(Proc)
  BY DEF Job
<1>3. DOMAIN proc = DOMAIN slot.proc /\ Len(proc) = Len(slot.proc)
  BY <1>2
<1>4. ASSUME NEW k \in DOMAIN proc, proc[k].state = FINISHED, proc[k].exitcode # Exited
      PROVE  k = Len(proc) /\ k > 1
  <2>1. slot.proc[k] \in Proc
    BY <1>2, <1>3
  <2>2. CASE k = i
    <3>1. proc[k].state = stateAfter(status) /\ proc[k].exitcode = status
      BY <1>3, <2>1, <2>2 DEF Proc
    <3> HIDE DEF proc
    <3> QED BY <1>4, <3>1 DEF stateAfter, Status, Exited, Stopped, Continued,
                              RUNNING, STOPPED, FINISHED
  <2>3. CASE k # i
    <3>1. proc[k] = slot.proc[k]
      BY <1>3, <2>3
    <3> HIDE DEF proc
    <3> QED BY <1>3, <1>4, <3>1 DEF SlotSound, StatusKept
  <2> QED BY <2>2, <2>3
<1> HIDE DEF proc
<1> QED BY <1>1, <1>4 DEF SlotSound, FreeSlot, Summary, StatusKept

(* addproc() on a job that runs.                                           *)
LEMMA AddprocSound ==
  ASSUME NEW S, FINISHED \in S, NEW slot \in Job, NEW p \in Pids, slot.pgid # NoPid, slot.state = RUNNING,
         \A i \in DOMAIN slot.proc : slot.proc[i].state = RUNNING
  PROVE  LET new == [slot EXCEPT !.proc = Append(@, newProc(p))]
         IN  /\ SlotSound(S, new) /\ new.state = RUNNING /\ new.pgid = slot.pgid
             /\ \A i \in DOMAIN new.proc : new.proc[i].state = RUNNING
<1> DEFINE proc == Append(slot.proc, newProc(p))
           new  == [slot EXCEPT !.proc = proc]
<1>1. new.pgid = slot.pgid /\ new.state = slot.state /\ new.proc = proc
  BY DEF Job
<1>2. newProc(p) \in Proc /\ slot.proc \in Seq(Proc)
  BY NewProcType DEF Job
<1>3. Len(proc) = Len(slot.proc) + 1 /\ proc[Len(slot.proc) + 1] = newProc(p)
  BY <1>2
<1>4. proc \in Seq(Proc) /\ Len(slot.proc) \in Nat
  BY <1>2
<1>5. Len(slot.proc) + 1 \in DOMAIN proc
  BY <1>3, <1>4
<1>6. newProc(p).state = RUNNING
  BY DEF newProc
<1>10. \A i \in DOMAIN proc : proc[i].state = RUNNING
  <2>1. \A i \in DOMAIN proc : i \in DOMAIN slot.proc \/ i = Len(slot.proc) + 1
    BY <1>2
  <2>2. \A i \in DOMAIN slot.proc : proc[i] = slot.proc[i]
    BY <1>2
  <2> HIDE DEF proc
  <2> QED BY <1>3, <1>6, <2>1, <2>2
<1> HIDE DEF proc
<1>7. RUNNING \in procStates(proc)
  BY <1>3, <1>5, <1>6 DEF procStates
<1>8. job_state(proc) = RUNNING
  BY <1>7 DEF job_state
<1>9. /\ SlotSound(S, new) /\ new.state = RUNNING /\ new.pgid = slot.pgid
      /\ \A i \in DOMAIN new.proc : new.proc[i].state = RUNNING
  <2> HIDE DEF new
  <2>1. RUNNING # FINISHED
    BY DEF RUNNING, FINISHED
  <2> QED BY <1>1, <1>8, <1>10, <2>1 DEF SlotSound, FreeSlot, Summary, StatusKept
<1> QED BY <1>9 DEF proc

-------------------------------------------------------------------------------
(* The functions of jobs.c on the table. *)

(* watchjobs()                                                             *)
LEMMA WatchjobsSlots ==
  ASSUME NEW S, FINISHED \in S, NEW n \in Nat, NEW t \in Table(n), NEW which, SlotsSound(S, t)
  PROVE  SlotsSound(S, watchjobs(t, which))
<1>1. ASSUME NEW k \in DOMAIN t PROVE SlotSound(S, watchjobs(t, which)[k])
  <2>1. t[k] \in Job /\ SlotSound(S, t[k])
    BY DEF Table, SlotsSound
  <2>2. watchjobs(t, which)[k] \in {t[k], watchjob(t[k], which)}
    BY DEF watchjobs
  <2> QED BY <2>1, <2>2, WatchjobSound
<1>2. DOMAIN watchjobs(t, which) = DOMAIN t
  BY DEF watchjobs
<1> QED BY <1>1, <1>2 DEF SlotsSound

(* watchjobs() in the main thread.                                         *)
LEMMA WatchThenSlots ==
  ASSUME NEW S, FINISHED \in S, NEW n \in Nat, NEW t \in Table(n), NEW which, NEW next, SlotsSound(S, t),
         WatchThen(t, which, next)
  PROVE  SlotsSound(S, jobs')
BY WatchjobsSlots DEF WatchThen

(* One slot is replaced by another sound one.                              *)
LEMMA ReplacedSlots ==
  ASSUME NEW S, FINISHED \in S, NEW t, NEW k, NEW slot, SlotsSound(S, t), SlotSound(S, slot)
  PROVE  SlotsSound(S, [t EXCEPT ![k] = slot])
BY DEF SlotsSound

(* A slot that movejob() overwrites need not be sound before.              *)
LEMMA MovejobSlots ==
  ASSUME NEW S, FINISHED \in S, NEW t, NEW from \in DOMAIN t, NEW to \in DOMAIN t, from # to,
         \A k \in DOMAIN t : k # to => SlotSound(S, t[k])
  PROVE  SlotsSound(S, movejob(t, from, to))
<1> DEFINE u == movejob(t, from, to)
<1>1. DOMAIN u = DOMAIN t
  BY DEF movejob
<1>2. ASSUME NEW k \in DOMAIN t PROVE u[k] = ZeroJob \/ \E l \in DOMAIN t : l # to /\ u[k] = t[l]
  BY DEF movejob
<1> HIDE DEF u
<1>3. SlotsSound(S, u)
  BY <1>1, <1>2, ZeroJobSound DEF SlotsSound
<1> QED BY <1>3 DEF u

(* allocjob() may make the table grow.                                     *)
LEMMA GrownSlots ==
  ASSUME NEW S, FINISHED \in S, NEW t, NEW k, SlotsSound(S, t)
  PROVE  SlotsSound(S, grown(t, k))
BY ZeroJobSound DEF SlotsSound, grown

(* The handler changes a slot that holds the process, if there is one.     *)
LEMMA RecordSlots ==
  ASSUME NEW S, FINISHED \in S, NEW n \in Nat, NEW t \in Table(n), NEW pid, NEW status \in Status, SlotsSound(S, t)
  PROVE  SlotsSound(S, record(t, pid, status))
<1>1. CASE entriesOf(t, pid) = {}
  BY <1>1 DEF record
<1>2. CASE entriesOf(t, pid) # {}
  <2> DEFINE e == firstEntry(t, pid)
  <2>1. e \in entriesOf(t, pid)
    BY <1>2, FirstEntry
  <2>2. PICK k \in 0 .. n - 1 : \E l \in 1 .. Len(t[k].proc) :
          e = <<k, l>> /\ t[k].pgid # NoPid /\ t[k].proc[l].pid = pid
    BY <2>1, EntriesOf
  <2>3. e[1] = k /\ t[k].pgid # NoPid /\ t[k] \in Job /\ SlotSound(S, t[k])
    BY <2>2 DEF Table, SlotsSound
  <2> DEFINE new == recorded(t[k], e[2], status)
  <2>4. record(t, pid, status) = [t EXCEPT ![k] = new]
    BY <1>2, <2>3 DEF record
  <2>5. SlotSound(S, new)
    BY <2>3, RecordedSound
  <2> HIDE DEF new
  <2>6. SlotsSound(S, [t EXCEPT ![k] = new])
    BY <2>5, ReplacedSlots
  <2> QED BY <2>4, <2>6
<1> QED BY <1>1, <1>2

-------------------------------------------------------------------------------
(* The steps. *)

(* The first prompt.                                                       *)
LEMMA SlotInit ==
  ASSUME Init, NEW S, FINISHED \in S
  PROVE  SlotInv(S)
<1>1. WindowClosed /\ Launching
  BY DEF Init, WindowClosed, Launching, Window
<1>2. SlotsSound(S, jobs)
  BY ZeroJobSound DEF Init, SlotsSound
<1> QED BY <1>1, <1>2 DEF SlotInv

(* Steps outside of the launch of a job.                                   *)
LEMMA OutsideSlots ==
  ASSUME NEW S, SlotInv(S), pc \notin Window, pc' \notin Window, lead' = lead,
         SlotsSound(S, jobs)'
  PROVE  SlotInv(S)'
<1>1. WindowClosed'
  BY DEF WindowClosed, Window
<1>2. Launching'
  BY DEF SlotInv, Launching, Window
<1> QED BY <1>1, <1>2 DEF SlotInv

(* Steps that leave the table and the main thread alone.                   *)
LEMMA AsideSlots ==
  ASSUME NEW S, SlotInv(S), UNCHANGED <<jobs, pc, lead, job, blocked>>,
         hpc' = hpc \/ pc \notin Window
  PROVE  SlotInv(S)'
<1>1. WindowClosed' /\ Launching'
  BY DEF SlotInv, WindowClosed, Launching
<1> QED BY <1>1 DEF SlotInv

(* A child.                                                                *)
LEMMA ChildSlots ==
  ASSUME NEW S, SlotInv(S), NEW p \in Pids, ChildStep(p)
  PROVE  SlotInv(S)'
<1>1. UNCHANGED <<jobs, pc, lead, job, blocked, hpc>>
  BY DEF ChildStep, ChildStart, Exit, Stop, OtherCont, OtherKill, SetModes, table, command, handler
<1> QED BY <1>1, AsideSlots

(* The handler.                                                            *)
LEMMA HandlerSlots ==
  ASSUME TypeOK, NEW S, FINISHED \in S, SlotInv(S), HandlerStep
  PROVE  SlotInv(S)'
<1>1. CASE HandlerEnter
  <2>1. pc \notin Window
    BY <1>1 DEF HandlerEnter, deliverable, sleeping, Asleep, Window, SlotInv, WindowClosed
  <2>2. UNCHANGED <<jobs, pc, lead, job, blocked>>
    BY <1>1 DEF HandlerEnter, table, command
  <2> QED BY <2>1, <2>2, AsideSlots
<1>2. CASE HandlerWaitpidNone \/ \E p \in Pids : HandlerWaitpid(p)
  <2>1. pc \notin Window
    BY <1>2 DEF HandlerWaitpidNone, HandlerWaitpid, SlotInv, WindowClosed
  <2>2. UNCHANGED <<jobs, pc, lead, job, blocked>>
    BY <1>2 DEF HandlerWaitpidNone, HandlerWaitpid, table, command
  <2> QED BY <2>1, <2>2, AsideSlots
<1>3. CASE HandlerRecord \/ HandlerReturn
  <2>1. pc \notin Window
    BY <1>3 DEF HandlerRecord, HandlerReturn, SlotInv, WindowClosed
  <2>2. lead' = lead
    BY <1>3 DEF HandlerRecord, HandlerReturn, command
  <2>3. pc' \notin Window
    BY <1>3, <2>1 DEF HandlerRecord, HandlerReturn, awake, Window
  <2>4. njobmax \in Nat /\ jobs \in Table(njobmax) /\ SlotsSound(S, jobs)
    BY DEF TypeOK, TableType, Table, SlotInv
  <2>5. \/ jobs' = record(jobs, hpid, hstatus) /\ hstatus \in Status
        \/ jobs' = watchjobs(jobs, FINISHED)
    BY <1>3 DEF HandlerRecord, HandlerReturn, TypeOK, HandlerType
  <2>6. hstatus \in Status => SlotsSound(S, record(jobs, hpid, hstatus))
    BY <2>4, RecordSlots
  <2>7. SlotsSound(S, watchjobs(jobs, FINISHED))
    BY <2>4, WatchjobsSlots
  <2>8. SlotsSound(S, jobs')
    BY <2>5, <2>6, <2>7
  <2> QED BY <2>1, <2>2, <2>3, <2>8, OutsideSlots
<1> QED BY <1>1, <1>2, <1>3 DEF HandlerStep

(* The launch of a job.                                                    *)
LEMMA LaunchSlots ==
  ASSUME TypeOK, NEW S, FINISHED \in S, SlotInv(S), Fork \/ AddJob \/ AddProc
  PROVE  SlotInv(S)'
<1>t. /\ njobmax \in Nat \ {0} /\ jobs \in Table(njobmax)
      /\ lead \in Pids \cup {NoPid} /\ SlotsSound(S, jobs) /\ Launching
  BY DEF TypeOK, TableType, MainType, Table, SlotInv
<1>w. blocked /\ hpc = "idle" /\ pc \in Window /\ blocked' /\ hpc' = "idle"
  BY DEF SlotInv, WindowClosed, Window, Fork, AddJob, AddProc, MainAt, handler
<1>1. WindowClosed'
  BY <1>w DEF WindowClosed
<1>2. CASE Fork
  <2>1. PICK p \in unused : lead' = IF lead = NoPid THEN p ELSE lead
    BY <1>2 DEF Fork
  <2>2. p # NoPid
    BY PidAssumption DEF unused
  <2>3. UNCHANGED <<jobs, job>> /\ pc = "fork"
        /\ pc' = IF lead = NoPid THEN "addjob" ELSE "addproc"
    BY <1>2 DEF Fork, table, MainAt, Goto
  <2>4. Launching'
    BY <1>t, <2>1, <2>2, <2>3 DEF Launching, Window
  <2> QED BY <1>t, <1>1, <2>3, <2>4 DEF SlotInv
<1>3. CASE AddJob
  <2> DEFINE k == IF bg THEN allocjob(jobs, njobmax) ELSE FG
  <2>1. /\ jobs' = [grown(jobs, k) EXCEPT ![k] = newJob(lead)] /\ job' = k
        /\ pc = "addjob" /\ pc' = "addproc" /\ lead' = lead
    BY <1>3 DEF AddJob, MainAt, Goto
  <2> HIDE DEF k
  <2>2. k \in DOMAIN grown(jobs, k) /\ lead # NoPid
    BY <1>t, <2>1 DEF grown, Launching
  <2>3. SlotsSound(S, grown(jobs, k)) /\ SlotSound(S, newJob(lead))
    BY <1>t, <2>2, GrownSlots, NewJobSound
  <2>4. SlotsSound(S, [grown(jobs, k) EXCEPT ![k] = newJob(lead)])
    BY <2>3, ReplacedSlots
  <2>5. jobs'[job'] = newJob(lead)
    BY <2>1, <2>2
  <2>6. Launching'
    BY <2>1, <2>2, <2>5 DEF Launching, Window, newJob
  <2> QED BY <1>1, <2>1, <2>4, <2>6 DEF SlotInv
<1>4. CASE AddProc
  <2>1. /\ pc = "addproc"
        /\ jobs' = [jobs EXCEPT ![job].proc = Append(@, newProc(newpid))]
    BY <1>4 DEF AddProc, MainAt
  <2>2. newpid \in Pids /\ job \in 0 .. njobmax - 1 /\ DOMAIN jobs = 0 .. njobmax - 1
    <3>1. job \in Nat /\ job < njobmax /\ newpid \in Pids
      BY <2>1 DEF TypeOK, MainType, Terminal
    <3> QED BY <1>t, <3>1 DEF Table
  <2>3. /\ jobs[job] \in Job /\ jobs[job].state = RUNNING /\ jobs[job].pgid # NoPid /\ lead # NoPid
        /\ \A i \in DOMAIN jobs[job].proc : jobs[job].proc[i].state = RUNNING
    BY <1>t, <2>1, <2>2 DEF Table, Launching
  <2> DEFINE new == [jobs[job] EXCEPT !.proc = Append(@, newProc(newpid))]
  <2>4. /\ SlotSound(S, new) /\ new.state = RUNNING /\ new.pgid = jobs[job].pgid
        /\ \A i \in DOMAIN new.proc : new.proc[i].state = RUNNING
    BY <2>2, <2>3, AddprocSound
  <2>5. jobs' = [jobs EXCEPT ![job] = new]
    BY <2>1
  <2> HIDE DEF new
  <2>6. SlotsSound(S, [jobs EXCEPT ![job] = new])
    BY <1>t, <2>4, ReplacedSlots
  <2>7. jobs'[job] = new
    BY <2>2, <2>5
  <2>8. Launching'
    <3>1. \/ pc' = "fork" /\ UNCHANGED <<lead, job>>
          \/ pc' \in {"unmask", "tcsetpgrp"} /\ lead' = NoPid
      BY <1>4 DEF AddProc, Goto
    <3> QED BY <2>3, <2>4, <2>7, <3>1 DEF Launching, Window
  <2> QED BY <1>1, <2>5, <2>6, <2>8 DEF SlotInv
<1> QED BY <1>2, <1>3, <1>4

(* What the user types.                                                    *)
LEMMA UserSlots ==
  ASSUME TypeOK, NEW S, FINISHED \in S, SlotInv(S), User
  PROVE  SlotInv(S)'
<1>w. pc = "readline" /\ pc \notin Window /\ hpc = "idle"
  BY DEF User, Launch, DoResume, DoKill, DoJobs, DoHistory, DoQuit, Wait, MainAt, Window
<1>1. CASE \E n \in 1 .. MaxStages, inBg \in BOOLEAN : Launch(n, inBg)
  <2>1. pc' = "fork" /\ blocked' = TRUE /\ UNCHANGED <<jobs, lead, hpc>>
    BY <1>1 DEF Launch, Goto, table, handler
  <2>2. lead = NoPid
    BY <1>w DEF SlotInv, Launching
  <2>3. WindowClosed' /\ Launching'
    BY <1>w, <2>1, <2>2 DEF WindowClosed, Launching, Window
  <2> QED BY <2>1, <2>3 DEF SlotInv
<1>2. CASE \/ \E arg \in -1 .. njobmax, inBg \in BOOLEAN : DoResume(arg, inBg)
           \/ \E k \in 0 .. njobmax : DoKill(k)
           \/ DoHistory \/ DoQuit \/ Wait("readline", "loopend")
  <2>1. UNCHANGED <<jobs, lead>>
    BY <1>2 DEF DoResume, DoKill, DoHistory, DoQuit, Wait, table, command
  <2>2. pc' \in {"unmask", "resume", "kill", "shutdown", "loopend"}
    BY <1>2 DEF DoResume, DoKill, DoHistory, DoQuit, Wait, Goto
  <2>3. pc' \notin Window
    BY <2>2 DEF Window
  <2> QED BY <1>w, <2>1, <2>3, OutsideSlots DEF SlotInv
<1>3. CASE DoJobs
  <2>1. WatchThen(jobs, ALL, "loopend") /\ lead' = lead
    BY <1>3 DEF DoJobs, command
  <2>2. njobmax \in Nat /\ jobs \in Table(njobmax) /\ SlotsSound(S, jobs)
    BY DEF SlotInv, TypeOK, TableType, Table
  <2>3. SlotsSound(S, jobs')
    BY <2>1, <2>2, WatchThenSlots
  <2>4. pc' \notin Window
    BY <2>1 DEF WatchThen, Goto, Window
  <2> QED BY <1>w, <2>1, <2>3, <2>4, OutsideSlots
<1> QED BY <1>1, <1>2, <1>3 DEF User

(* Steps of the main thread that leave the table alone.                    *)
LEMMA WaitsSlots ==
  ASSUME NEW S, SlotInv(S),
         \/ Unmask \/ ResumeCont \/ Kill \/ ShutdownJob
         \/ WhileStopped \/ ContForeground \/ SleepStopped \/ WhileRunning \/ SleepRunning
         \/ Reread \/ Remask \/ FinishRunning
  PROVE  SlotInv(S)'
<1>1. UNCHANGED <<jobs, lead>> /\ pc \notin Window
  BY DEF Unmask, ResumeCont, Kill, ShutdownJob, WhileStopped, ContForeground, SleepStopped,
         WhileRunning, SleepRunning, Reread, Remask, FinishRunning, Wait, UnchangedKernel,
         table, command, MainAt, Window
<1>2. pc' \notin Window
  BY DEF Unmask, ResumeCont, Kill, ShutdownJob, WhileStopped, ContForeground, SleepStopped,
         WhileRunning, SleepRunning, Reread, Remask, FinishRunning, KillJob, Wait, Goto, Window
<1> QED BY <1>1, <1>2, OutsideSlots DEF SlotInv

(* The shell reports jobs, resumes one, or gives it the terminal.          *)
LEMMA ReportsSlots ==
  ASSUME TypeOK, NEW S, FINISHED \in S, SlotInv(S),
         LoopEnd \/ ShutdownEnd \/ ResumeDone \/ GiveTerminal
  PROVE  SlotInv(S)'
<1>t. njobmax \in Nat \ {0} /\ jobs \in Table(njobmax) /\ SlotsSound(S, jobs)
      /\ FG \in 0 .. njobmax - 1
  BY DEF SlotInv, TypeOK, TableType, Table, FG
<1>1. lead' = lead /\ pc \notin Window
  BY DEF LoopEnd, ShutdownEnd, ResumeDone, GiveTerminal, command, MainAt, Window
<1>2. pc' \notin Window
  BY DEF LoopEnd, ShutdownEnd, ResumeDone, GiveTerminal, WatchThen, Goto, Window
<1>3. SlotsSound(S, jobs')
  <2>1. CASE LoopEnd \/ ShutdownEnd
    <3>1. \E next : WatchThen(jobs, FINISHED, next)
      BY <2>1 DEF LoopEnd, ShutdownEnd
    <3> QED BY <1>t, <3>1, WatchThenSlots
  <2>2. CASE ResumeDone
    <3> DEFINE seen == watchjobs(jobs, RUNNING)
    <3>1. SlotsSound(S, seen) /\ seen \in Table(njobmax)
      BY <1>t, WatchjobsType, WatchjobsSlots
    <3>2. \/ \E next : WatchThen(jobs, RUNNING, next)
          \/ jobs' = movejob(seen, job, FG) /\ jobs[FG].pgid = NoPid /\ jobs[job].state = RUNNING
          \/ jobs' = jobs
      BY <2>2 DEF ResumeDone
    <3>3. job \in DOMAIN seen /\ FG \in DOMAIN seen
      <4>1. job \in Nat /\ job < njobmax
        BY <2>2 DEF ResumeDone, MainAt, TypeOK, MainType, Terminal
      <4> QED BY <1>t, <3>1, <4>1 DEF Table
    <3> HIDE DEF seen
    <3>4. CASE job # FG
      <4>1. SlotsSound(S, movejob(seen, job, FG))
        BY <3>1, <3>3, <3>4, MovejobSlots DEF SlotsSound
      <4> QED BY <1>t, <3>2, <4>1, WatchThenSlots
    <3>5. CASE job = FG
      <4>1. movejob(seen, FG, FG) = [seen EXCEPT ![FG] = ZeroJob]
        BY <3>1, <3>3 DEF movejob, Table
      <4>2. SlotsSound(S, [seen EXCEPT ![FG] = ZeroJob])
        BY <3>1, ReplacedSlots, ZeroJobSound
      <4> QED BY <1>t, <3>2, <3>5, <4>1, <4>2, WatchThenSlots
    <3> QED BY <3>4, <3>5
  <2>3. CASE GiveTerminal
    <3>1. jobs' = jobs
      BY <2>3 DEF GiveTerminal, table
    <3> QED BY <1>t, <3>1
  <2> QED BY <2>1, <2>2, <2>3
<1> QED BY <1>1, <1>2, <1>3, OutsideSlots

(* The end of monitorjob().                                                *)
LEMMA FinishSlots ==
  ASSUME TypeOK, NEW S, FINISHED \in S, SlotInv(S), FinishStopped \/ FinishFinished
  PROVE  SlotInv(S)'
<1>t. njobmax \in Nat \ {0} /\ jobs \in Table(njobmax) /\ SlotsSound(S, jobs)
      /\ FG \in 0 .. njobmax - 1
  BY DEF SlotInv, TypeOK, TableType, Table, FG
<1>1. lead' = lead /\ pc \notin Window
  BY DEF FinishStopped, FinishFinished, command, MainAt, Window
<1>2. pc' \notin Window
  BY DEF FinishStopped, FinishFinished, WatchThen, Goto, Window
<1>3. SlotsSound(S, jobs')
  <2>1. CASE FinishStopped
    <3> DEFINE k == allocjob(jobs, njobmax)
               n == IF k = njobmax THEN njobmax + 1 ELSE njobmax
               g == grown(jobs, k)
               t == [g EXCEPT ![k].state = STOPPED]
    <3>1. k \in 1 .. njobmax /\ (k # njobmax => jobs[k].pgid = NoPid)
      BY <1>t, AllocjobIsFree
    <3>2. \/ WatchThen(movejob(t, FG, k), STOPPED, "unmask") /\ t[k].pgid = NoPid
          \/ jobs' = t /\ t[k].pgid # NoPid
      BY <2>1 DEF FinishStopped
    <3> HIDE DEF k
    <3>3. g \in Table(n) /\ SlotsSound(S, g)
      BY <1>t, <3>1, GrownType, GrownSlots
    <3>4. n \in Nat /\ k \in 0 .. n - 1 /\ FG \in 0 .. n - 1 /\ k # FG
      BY <1>t, <3>1 DEF FG
    <3>5. g[k].pgid = NoPid
      <4>1. CASE k = njobmax
        BY <1>t, <4>1 DEF grown, ZeroJob, Table
      <4>2. CASE k # njobmax
        BY <1>t, <3>1, <4>2 DEF grown, Table
      <4> QED BY <4>1, <4>2
    <3> HIDE DEF n, g
    <3>6. /\ t \in Table(n) /\ t[k].pgid = NoPid
          /\ \A i \in DOMAIN t : i # k => t[i] = g[i]
      <4>1. g[k] \in Job /\ DOMAIN g = 0 .. n - 1
        BY <3>3, <3>4 DEF Table
      <4>2. [g[k] EXCEPT !.state = STOPPED] \in Job
        BY <4>1 DEF Job, States
      <4>3. [g[k] EXCEPT !.state = STOPPED].pgid = g[k].pgid
        BY <4>1 DEF Job
      <4> QED BY <3>3, <3>4, <3>5, <4>1, <4>2, <4>3 DEF Table
    <3>7. DOMAIN t = DOMAIN g /\ DOMAIN t = 0 .. n - 1
      BY <3>3 DEF Table
    <3> HIDE DEF t
    <3>8. \A i \in DOMAIN t : i # k => SlotSound(S, t[i])
      BY <3>3, <3>6, <3>7 DEF SlotsSound
    <3>9. SlotsSound(S, movejob(t, FG, k))
      BY <3>4, <3>7, <3>8, MovejobSlots
    <3>10. movejob(t, FG, k) \in Table(n)
      BY <3>4, <3>6, MovejobType
    <3> QED BY <3>2, <3>4, <3>6, <3>9, <3>10, WatchThenSlots
  <2>2. CASE FinishFinished
    <3> DEFINE new == deljob(jobs[FG])
               t   == [jobs EXCEPT ![FG] = new]
    <3>1. jobs[FG] \in Job
      BY <1>t DEF Table
    <3>2. \/ WatchThen(t, FINISHED, "unmask") /\ jobs[FG].state = FINISHED
          \/ jobs' = jobs
      BY <2>2 DEF FinishFinished
    <3>3. new \in Job /\ (jobs[FG].state = FINISHED => SlotSound(S, new))
      BY <3>1, DeljobType, DeljobSound
    <3> HIDE DEF new
    <3>4. t \in Table(njobmax)
      BY <1>t, <3>3 DEF Table
    <3>5. jobs[FG].state = FINISHED => SlotsSound(S, t)
      BY <1>t, <3>3, ReplacedSlots
    <3> HIDE DEF t
    <3> QED BY <1>t, <3>2, <3>4, <3>5, WatchThenSlots
  <2> QED BY <2>1, <2>2
<1> QED BY <1>1, <1>2, <1>3, OutsideSlots

(* Every step of the shell, its children and its handler.                  *)
LEMMA SlotStep ==
  ASSUME TypeOK, NEW S, FINISHED \in S, SlotInv(S), [Next]_vars
  PROVE  SlotInv(S)'
<1>1. CASE User
  BY <1>1, UserSlots
<1>2. CASE MainStep
  BY <1>2, LaunchSlots, WaitsSlots, ReportsSlots, FinishSlots DEF MainStep
<1>3. CASE HandlerStep
  BY <1>3, HandlerSlots
<1>4. CASE Children
  BY <1>4, ChildSlots DEF Children
<1>5. CASE UNCHANGED vars
  BY <1>5, AsideSlots DEF vars, table, command, handler
<1> QED BY <1>1, <1>2, <1>3, <1>4, <1>5 DEF Next

(* The invariant holds in every state of the shell.                        *)
LEMMA SlotsKept == Spec => []SlotInv({FINISHED})
<1>1. Init => SlotInv({FINISHED})
  BY SlotInit
<1>2. TypeOK /\ SlotInv({FINISHED}) /\ [Next]_vars => SlotInv({FINISHED})'
  BY SlotStep
<1> QED BY <1>1, <1>2, TypeCorrect, PTL DEF Spec

-------------------------------------------------------------------------------
(* What follows. *)

(* A free slot is FINISHED and has no process, so that fg, bg, kill and    *)
(* quit, which look at the state of a slot only, never take it for a job   *)
(* (jobs.c: allocjob, deljob, movejob, addjob).                            *)
THEOREM FreeSlotsFinished == Spec => []FreeSlotFinished
<1>1. SlotInv({FINISHED}) => FreeSlotFinished
  BY DEF SlotInv, SlotsSound, SlotSound, FreeSlot, FreeSlotFinished
<1> QED BY <1>1, SlotsKept, PTL

(* If the table tracks the kernel, and the state of a job is that of its   *)
(* entries, it is the summary of what the kernel knows of its processes.   *)
LEMMA SummaryOfViews ==
  ASSUME TypeOK, TableTracksKernel, SlotInv({FINISHED})
  PROVE  JobStateIsSummary
<1> SUFFICES ASSUME NEW k \in DOMAIN jobs,
                    {view(life[p]) : p \in pidsOf(k)} # {},
                    \A p \in pidsOf(k) : settled(p)
             PROVE  LET views == {view(life[p]) : p \in pidsOf(k)}
                    IN  /\ jobs[k].state = RUNNING  <=> RUNNING \in views
                        /\ jobs[k].state = FINISHED <=> views = {FINISHED}
  BY DEF JobStateIsSummary
<1> DEFINE proc  == jobs[k].proc
           views == {view(life[p]) : p \in pidsOf(k)}
<1>1. \A i \in DOMAIN proc : proc[i].pid \in pidsOf(k) /\ proc[i].state = view(life[proc[i].pid])
  BY DEF TableTracksKernel, pidsOf
<1>2. views = procStates(proc)
  BY <1>1 DEF procStates, pidsOf
<1>3. proc # << >>
  <2>1. views # {}
    OBVIOUS
  <2>2. DOMAIN << >> = {}
    OBVIOUS
  <2> QED BY <1>2, <2>1, <2>2 DEF procStates
<1>4. jobs[k].state = job_state(proc)
  BY <1>3 DEF SlotInv, SlotsSound, SlotSound, Summary
<1>5. \A v \in views : v \in {RUNNING, STOPPED, FINISHED}
  BY DEF view
<1>6. views # {}
  OBVIOUS
<1> HIDE DEF views, proc
<1>7. /\ jobs[k].state = RUNNING  <=> RUNNING \in views
      /\ jobs[k].state = FINISHED <=> views = {FINISHED}
  <2>1. RUNNING # STOPPED /\ RUNNING # FINISHED /\ STOPPED # FINISHED
    BY DEF RUNNING, STOPPED, FINISHED
  <2> QED BY <1>2, <1>4, <1>5, <1>6, <2>1 DEF job_state
<1> QED BY <1>7 DEF views

(* The state of a job whose processes are settled is the summary of what   *)
(* the kernel knows of them: RUNNING if one runs, FINISHED if all ended,   *)
(* else STOPPED (job_state, sigchld_handler).                              *)
THEOREM StatesSummarised == Spec => []JobStateIsSummary
BY SlotsKept, TableCorrect, TypeCorrect, SummaryOfViews, PTL

===============================================================================
