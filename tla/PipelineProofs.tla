---------------------------- MODULE PipelineProofs ----------------------------
(***************************************************************************)
(* What the runs check of Pipeline on four children holds for any number   *)
(* of children, descriptors and stages.                                    *)
(*                                                                         *)
(* The invariant PipeInv follows the two pairs of locals that take turns   *)
(* in do_pipeline(): "source" and "sink" are what the stage under way      *)
(* gets, "spare" is the read end kept for the stage after it.  A child is  *)
(* described by what it is going to read and to write (inFile, outFile),   *)
(* which no step of its own changes while it lives: the pipe is fixed at   *)
(* fork(), by Link and Fresh, whatever the children do later.              *)
(***************************************************************************)
EXTENDS Pipeline, FiniteSetTheorems, SequenceTheorems, TLAPS

(* The shell has a stage under way; it has not ended; a child that has not *)
(* ended.                                                                  *)
active == pc \in {"do_redir", "fork", "close"}
alive  == pc \notin {"died", "aborted"}
live(p) == child[p].status \in {"forked", "command", "builtin", "program"}

(* The locals of do_pipeline() by the part they play in the stage under    *)
(* way: the read end it gets, the write end it gets, the read end that is  *)
(* kept for the stage after it, the one that is not open.                  *)
source ==
  IF \/ 1 < stage /\ stage < Len(line) /\ ends["next_output"] > 0
     \/ 1 < stage /\ stage = Len(line) /\ ends["next_input"] > 0
  THEN "next_input" ELSE "input"
sink   == IF source = "next_input" THEN "next_output" ELSE "output"
spare  == IF source = "next_input" THEN "input" ELSE "next_input"
idle   == IF source = "next_input" THEN "output" ELSE "next_output"

(* Between two stages, the local with the read end of the last pipe.       *)
reader == IF ends["next_input"] > 0 THEN "next_input" ELSE "input"

(* What a program may have beside the standard descriptors: a file, or an  *)
(* end of a pipe that Ctrl-C interrupted before FD_CLOEXEC was set.        *)
Allowed(p, f) ==
  fd[p][f].kind \in {"closed", "file"} \/ (isPipe(fd[p][f]) /\ fd[p][f].id \in bare)

(* Beside the standard descriptors a process has only that, or what        *)
(* execve() is going to close.                                             *)
Kept(p) == \A f \in Fds : f > 2 => Allowed(p, f) \/ f \in cloexec[p]

(* Every end of a pipe that the shell holds is in a local of do_pipeline(),*)
(* or Ctrl-C has left it; no local is a standard descriptor or tty_fd.     *)
ShellFiles ==
  /\ \A f \in 0 .. 3 : fd[Shell][f] = Tty
  /\ \A f \in Fds : isPipe(fd[Shell][f]) =>
       (\E v \in Locals : ends[v] = f) \/ fd[Shell][f].id \in lost
  /\ \A v \in Locals : ends[v] # -1 => ends[v] \in 4 .. MaxFd

(* What the locals are open on: in a stage, the pipe before it (but in the *)
(* first) and the newest pipe (but in the last); between two stages, the   *)
(* read end of the last pipe; at the prompt nothing.                       *)
EndsInv ==
  /\ active =>
       /\ ends[source] # -1 <=> stage > 1
       /\ ends[sink] # -1 <=> stage < Len(line)
       /\ ends[spare] # -1 <=> stage < Len(line)
       /\ ends[idle] = -1
       /\ stage > 1 => fd[Shell][ends[source]].kind = "read"
       /\ stage < Len(line) => /\ fd[Shell][ends[sink]] = File("write", npipes)
                               /\ fd[Shell][ends[spare]] = File("read", npipes)
       /\ 1 < stage /\ stage < Len(line) => fd[Shell][ends[source]].id < npipes
  /\ pc = "stage" /\ stage > 1 =>
       /\ ends[reader] # -1 /\ fd[Shell][ends[reader]].kind = "read"
       /\ \A v \in Locals : v # reader => ends[v] = -1
  /\ pc = "prompt" \/ (pc = "stage" /\ stage = 1) => \A v \in Locals : ends[v] = -1

(* The stage is one of the command line; the children that are still to be *)
(* forked for it are within the bound of the model.                        *)
LineInv ==
  /\ active \/ pc = "stage" => stage \in 1 .. Len(line)
  /\ pc \in {"stage", "close"} => Len(line) > 1
  /\ pc = "prompt" => arg = NoArg /\ redirs = 0
  /\ pc \in {"stage", "do_redir", "fork"} => nprocs + (Len(line) - stage) < NProcs
  /\ pc = "close" => nprocs + (Len(line) - stage) <= NProcs

(* The last redirection in a direction among the first k of a stage.       *)
upTo(s, dir, k) == {i \in DOMAIN s.redirs : i <= k /\ s.redirs[i] = dir}
greatest(S) == IF S = {} THEN 0 ELSE CHOOSE i \in S : \A j \in S : j <= i
lastUpTo(s, dir, k) == greatest(upTo(s, dir, k))

(* A descriptor that is the last redirection so far, else a local.         *)
Given(d, dir, local) ==
  LET k == lastUpTo(line[stage], dir, redirs)
  IN  IF k > 0 THEN d \in 4 .. MaxFd /\ fd[Shell][d] = File("file", k) ELSE d = ends[local]

(* What do_redir() has made of the two ends that the stage was given.      *)
ArgInv ==
  pc \in {"do_redir", "fork"} =>
    /\ redirs <= Len(line[stage].redirs) /\ (pc = "fork" => redirs = Len(line[stage].redirs))
    /\ Given(arg.input, "in", source)
    /\ Given(arg.output, "out", sink)
    /\ arg.input = arg.output => arg.input = -1

ShellInv ==
  /\ LineInv
  /\ Kept(Shell) /\ cloexec[Shell] \subseteq 3 .. MaxFd
  /\ \A f \in Fds : isPipe(fd[Shell][f]) => fd[Shell][f].id <= npipes
  /\ alive => ShellFiles /\ EndsInv /\ ArgInv

(* What a child is going to read and to write.                             *)
inFile(p) ==
  IF At(p, "forked") THEN IF child[p].input = -1 THEN Tty ELSE fd[p][child[p].input] ELSE fd[p][0]
outFile(p) ==
  IF At(p, "forked") THEN IF child[p].output = -1 THEN Tty ELSE fd[p][child[p].output] ELSE fd[p][1]

(* They are those of its stage.                                            *)
FilesOf(p) ==
  LET s   == child[p].stage
      in  == lastRedir(s, "in")
      out == lastRedir(s, "out")
  IN  /\ inFile(p) = IF in > 0 THEN File("file", in)
                     ELSE IF child[p].first THEN Tty ELSE File("read", inFile(p).id)
      /\ outFile(p) = IF out > 0 THEN File("file", out)
                      ELSE IF child[p].last THEN Tty ELSE File("write", outFile(p).id)

ChildInv(p) ==
  /\ live(p) => p <= nprocs /\ FilesOf(p) /\ cloexec[p] \subseteq 3 .. MaxFd
  /\ At(p, "forked") => /\ fd[p][0] = Tty /\ fd[p][1] = Tty
                        /\ child[p].input \in {-1} \cup 4 .. MaxFd
                        /\ child[p].output \in {-1} \cup 4 .. MaxFd
                        /\ child[p].input = child[p].output => child[p].input = -1
  /\ At(p, "forked") \/ At(p, "command") => Kept(p)
  /\ At(p, "program") => \A f \in Fds : f > 2 => Allowed(p, f)
  /\ live(p) /\ inFile(p).kind = "read" => inFile(p).id \in 0 .. npipes
  /\ live(p) /\ outFile(p).kind = "write" => outFile(p).id \in 0 .. npipes

(* Two children share a pipe exactly when they are neighbours.             *)
Pairs ==
  \A p, q \in Procs :
    live(p) /\ live(q) /\ outFile(p).kind = "write" /\ inFile(q).kind = "read" =>
      (inFile(q).id = outFile(p).id <=> q = p + 1)

(* The read end that the next child is going to get; of all the children   *)
(* only the newest may write to it.                                        *)
nextIn == CASE pc = "stage" -> ends[reader] [] pc = "close" -> ends[spare] [] OTHER -> ends[source]

Link ==
  (active \/ pc = "stage") /\ nextIn # -1 =>
    \A p \in Procs : live(p) /\ outFile(p).kind = "write" =>
      (outFile(p).id = fd[Shell][nextIn].id <=> p = nprocs)

(* Nobody has the newest pipe before the stage that it was made for.       *)
Fresh ==
  pc \in {"do_redir", "fork"} /\ stage < Len(line) =>
    \A p \in Procs : live(p) =>
      /\ inFile(p).kind = "read" => inFile(p).id < npipes
      /\ outFile(p).kind = "write" => outFile(p).id < npipes

(* The inductive invariant.                                                *)
PipeInv == TypeOK /\ ShellInv /\ (\A p \in Procs : ChildInv(p)) /\ Pairs /\ Link /\ Fresh

-------------------------------------------------------------------------------
(* Descriptors. *)

(* Of the free descriptors there is a lowest one: their initial segments   *)
(* are finite sets, ordered by inclusion.                                  *)
LEMMA LowestIsMember ==
  ASSUME NEW S \in SUBSET Fds, S # {}
  PROVE  lowest(S) \in S
<1> DEFINE T == {0 .. k : k \in S}
           R == StrictSubsetOrdering(Nat)
<1>s. S \subseteq Nat
  BY MaxFdAssumption DEF Fds
<1>1. IsWellFoundedOn(R, FiniteSubsetsOf(Nat))
  BY FS_StrictSubsetOrderingWellFounded
<1>2. T \subseteq FiniteSubsetsOf(Nat)
  <2> SUFFICES ASSUME NEW k \in S PROVE 0 .. k \in FiniteSubsetsOf(Nat)
    OBVIOUS
  <2> QED BY <1>s, FS_Interval DEF FiniteSubsetsOf
<1>3. T # {}
  OBVIOUS
<1>4. PICK x \in T : \A y \in T : <<y, x>> \notin R
  <2> HIDE DEF T, R
  <2> QED BY <1>1, <1>2, <1>3, WFMin
<1>5. PICK m \in S : x = 0 .. m
  OBVIOUS
<1>6. \A k \in S : m <= k
  <2> SUFFICES ASSUME NEW k \in S, k < m PROVE FALSE
    BY <1>s
  <2>1. 0 .. k \subseteq 0 .. m /\ 0 .. k # 0 .. m
    <3>1. m \in 0 .. m /\ m \notin 0 .. k
      BY <1>s
    <3> QED BY <1>s, <3>1
  <2>2. <<0 .. k, 0 .. m>> \in R
    BY <1>s, <2>1 DEF StrictSubsetOrdering
  <2> QED BY <2>2, <1>4, <1>5
<1> QED BY <1>6 DEF lowest

(* pipe() finds two free descriptors.                                      *)
LEMMA TwoFree ==
  ASSUME canPipe
  PROVE  /\ lowest(free) \in free
         /\ lowest(free \ {lowest(free)}) \in free \ {lowest(free)}
<1>1. free \subseteq Fds
  BY DEF free
<1>2. IsFiniteSet(free)
  <2>1. IsFiniteSet(Fds)
    BY MaxFdAssumption, FS_Interval DEF Fds
  <2> QED BY <1>1, <2>1, FS_Subset
<1>3. Cardinality(free) >= 2 /\ Cardinality(free) \in Nat
  BY <1>2, FS_CardinalityType DEF canPipe
<1>4. free # {}
  BY <1>2, <1>3, FS_EmptySet
<1>5. lowest(free) \in free
  BY <1>1, <1>4, LowestIsMember
<1>6. free \ {lowest(free)} # {}
  <2> DEFINE x == lowest(free)
  <2> HIDE DEF x
  <2>1. Cardinality(free \ {x}) = Cardinality(free) - 1
    BY <1>2, <1>5, FS_RemoveElement DEF x
  <2>2. Cardinality(free \ {x}) # 0
    BY <1>3, <2>1
  <2> QED BY <2>2, FS_EmptySet DEF x
<1> QED BY <1>1, <1>5, <1>6, LowestIsMember

-------------------------------------------------------------------------------
(* Redirections. *)

(* One more redirection.                                                   *)
LEMMA LastUpToNext ==
  ASSUME NEW s \in StageType, NEW dir, NEW k \in Nat, k < Len(s.redirs)
  PROVE  /\ lastUpTo(s, dir, k + 1) = IF s.redirs[k + 1] = dir THEN k + 1 ELSE lastUpTo(s, dir, k)
         /\ s.redirs[k + 1] \in {"in", "out"}
<1>1. s.redirs \in Seq({"in", "out"}) /\ DOMAIN s.redirs = 1 .. Len(s.redirs) /\ Len(s.redirs) \in Nat
  BY LenProperties DEF StageType
<1>2. k + 1 \in DOMAIN s.redirs /\ s.redirs[k + 1] \in {"in", "out"}
  BY <1>1, ElementOfSeq
<1>3. CASE s.redirs[k + 1] = dir
  <2> DEFINE S == upTo(s, dir, k + 1)
  <2>1. k + 1 \in S /\ \A i \in S : i <= k + 1 /\ i \in Nat
    BY <1>1, <1>2, <1>3 DEF upTo
  <2> HIDE DEF S
  <2>2. greatest(S) = k + 1
    <3>1. \A i \in S : (\A j \in S : j <= i) => i = k + 1
      BY <2>1
    <3> QED BY <2>1, <3>1 DEF greatest
  <2> QED BY <1>2, <1>3, <2>2 DEF lastUpTo, S
<1>4. CASE s.redirs[k + 1] # dir
  <2>1. upTo(s, dir, k + 1) = upTo(s, dir, k)
    BY <1>1, <1>4 DEF upTo
  <2> QED BY <1>2, <1>4, <2>1 DEF lastUpTo
<1> QED BY <1>3, <1>4

(* None yet, and all of them.                                              *)
LEMMA LastUpToEnds ==
  ASSUME NEW s \in StageType, NEW dir
  PROVE  lastUpTo(s, dir, 0) = 0 /\ lastUpTo(s, dir, Len(s.redirs)) = lastRedir(s, dir)
<1>1. DOMAIN s.redirs = 1 .. Len(s.redirs) /\ Len(s.redirs) \in Nat
  BY LenProperties DEF StageType
<1>2. lastUpTo(s, dir, 0) = 0
  <2>1. upTo(s, dir, 0) = {}
    BY <1>1 DEF upTo
  <2> QED BY <2>1 DEF lastUpTo, greatest
<1>3. lastUpTo(s, dir, Len(s.redirs)) = lastRedir(s, dir)
  <2>1. upTo(s, dir, Len(s.redirs)) = {i \in DOMAIN s.redirs : s.redirs[i] = dir}
    BY <1>1 DEF upTo
  <2>2. lastRedir(s, dir) = greatest({i \in DOMAIN s.redirs : s.redirs[i] = dir})
    BY DEF lastRedir, greatest
  <2> QED BY <2>1, <2>2 DEF lastUpTo
<1> QED BY <1>2, <1>3

-------------------------------------------------------------------------------
(* Steps of the shell and the children. *)

(* The type invariant by what a step changes: descriptors, the shell's     *)
(* variables, children.                                                    *)
FdType ==
  /\ fd \in [{Shell} \cup Procs -> [Fds -> FileType]]
  /\ cloexec \in [{Shell} \cup Procs -> SUBSET Fds]
  /\ \A p \in {Shell} \cup Procs : \A f \in cloexec[p] : fd[p][f] # Closed
MainType ==
  /\ npipes \in Nat /\ nprocs \in 0 .. NProcs
  /\ pc \in {"prompt", "stage", "do_redir", "fork", "close", "died", "aborted"}
  /\ line \in Seq(Stages) /\ bg \in BOOLEAN /\ stage \in 0 .. Len(line)
  /\ ends \in [Locals -> FdOrNone]
  /\ arg \in [input : FdOrNone, output : FdOrNone] /\ redirs \in Nat
ChildType ==
  child \in [Procs -> [status : {"none", "forked", "command", "builtin", "program",
                                 "clone", "ended"},
                       stage : Stages \cup {NoStage}, first : BOOLEAN, last : BOOLEAN,
                       input : FdOrNone, output : FdOrNone]]

CtrlType == hits \in 0 .. MaxCtrlC /\ lost \cup bare \subseteq Nat

(* The parts make the whole.                                               *)
LEMMA TypeParts ==
  /\ TypeOK <=> FdType /\ MainType /\ ChildType /\ CtrlType
  /\ TypeOK' <=> FdType' /\ MainType' /\ ChildType' /\ CtrlType'
BY DEF TypeOK, FdType, MainType, ChildType, CtrlType

(* A step that is not Ctrl-C.                                              *)
LEMMA CtrlKept ==
  ASSUME PipeInv, UNCHANGED ctrlc
  PROVE  CtrlType' /\ lost' = lost /\ bare' = bare /\ bare \subseteq bare'
<1>1. CtrlType
  BY TypeParts DEF PipeInv
<1>2. hits' = hits /\ lost' = lost /\ bare' = bare
  BY DEF ctrlc
<1> QED BY <1>1, <1>2 DEF CtrlType

(* A step that leaves the children alone keeps what is said of them.       *)
LEMMA ChildrenKept ==
  ASSUME PipeInv, UNCHANGED <<child, nprocs>>, npipes' \in Nat, npipes <= npipes',
         bare \subseteq bare',
         \A p \in Procs : fd'[p] = fd[p] /\ cloexec'[p] = cloexec[p]
  PROVE  /\ ChildType' /\ (\A p \in Procs : ChildInv(p))' /\ Pairs'
         /\ \A p \in Procs : /\ live(p)' = live(p)
                             /\ (inFile(p))' = inFile(p)
                             /\ (outFile(p))' = outFile(p)
                             /\ live(p) => p <= nprocs
                             /\ live(p) /\ inFile(p).kind = "read" => inFile(p).id \in 0 .. npipes
                             /\ live(p) /\ outFile(p).kind = "write" => outFile(p).id \in 0 .. npipes
<1>t. FdType /\ MainType /\ ChildType
  BY TypeParts DEF PipeInv
<1>1. \A p \in Procs : /\ live(p)' = live(p) /\ (inFile(p))' = inFile(p)
                       /\ (outFile(p))' = outFile(p)
  BY DEF live, inFile, outFile, At
<1>2. ASSUME NEW p \in Procs PROVE ChildInv(p)'
  <2>1. ChildInv(p)
    BY DEF PipeInv
  <2>2. FilesOf(p)' = FilesOf(p)
    BY <1>1 DEF FilesOf
  <2>3. /\ Kept(p) => Kept(p)'
        /\ \A f \in Fds : Allowed(p, f) => Allowed(p, f)'
    BY DEF Kept, Allowed
  <2> QED BY <1>1, <1>t, <2>1, <2>2, <2>3 DEF ChildInv, At, MainType
<1>3. Pairs'
  BY <1>1 DEF PipeInv, Pairs
<1>4. ASSUME NEW p \in Procs
      PROVE  /\ live(p) => p <= nprocs
             /\ live(p) /\ inFile(p).kind = "read" => inFile(p).id \in 0 .. npipes
             /\ live(p) /\ outFile(p).kind = "write" => outFile(p).id \in 0 .. npipes
  <2>1. ChildInv(p)
    BY DEF PipeInv
  <2> QED BY <2>1 DEF ChildInv
<1> QED BY <1>1, <1>2, <1>3, <1>4, <1>t DEF ChildType

(* The shell ends.                                                         *)
LEMMA EndStep ==
  ASSUME PipeInv, NEW how \in {"died", "aborted"}, End(how)
  PROVE  PipeInv'
<1>t. FdType /\ MainType /\ ChildType
  BY TypeParts DEF PipeInv
<1>1. /\ fd' = [fd EXCEPT ![Shell] = [f \in Fds |-> Closed]]
      /\ cloexec' = [cloexec EXCEPT ![Shell] = {}]
      /\ pc' = how /\ UNCHANGED <<npipes, line, bg, stage, ends, arg, redirs, nprocs, child>>
      /\ UNCHANGED ctrlc
  BY DEF End
<1>k. CtrlType' /\ bare \subseteq bare'
  BY <1>1, CtrlKept
<1>2. \A p \in Procs : p # Shell
  BY DEF Procs, Shell
<1>3. \A p \in Procs : fd'[p] = fd[p] /\ cloexec'[p] = cloexec[p]
  BY <1>1, <1>2, <1>t DEF FdType
<1>4. fd'[Shell] = [f \in Fds |-> Closed] /\ cloexec'[Shell] = {}
  BY <1>1, <1>t DEF FdType
<1>5. Closed \in FileType
  BY DEF Closed, File, FileType
<1>6. FdType'
  BY <1>1, <1>3, <1>4, <1>5, <1>t DEF FdType
<1>7. MainType'
  BY <1>1, <1>t DEF MainType
<1>8. ChildType' /\ (\A p \in Procs : ChildInv(p))' /\ Pairs'
  BY <1>1, <1>3, <1>k, <1>t, ChildrenKept DEF MainType
<1>9. ~active' /\ ~alive' /\ pc' \notin {"stage", "prompt"}
  BY <1>1 DEF active, alive
<1>10. ShellInv'
  BY <1>1, <1>4, <1>9 DEF ShellInv, LineInv, Kept, Allowed, isPipe, Closed, File, active
<1>11. Link' /\ Fresh'
  BY <1>1, <1>9 DEF Link, Fresh
<1> QED BY <1>6, <1>7, <1>8, <1>10, <1>11, <1>k, TypeParts DEF PipeInv

(* A command line is read.                                                 *)
LEMMA EvalStep ==
  ASSUME PipeInv, NEW l \in Lines, NEW inBg \in BOOLEAN, Eval(l, inBg)
  PROVE  PipeInv'
<1>t. FdType /\ MainType /\ ChildType
  BY TypeParts DEF PipeInv
<1>1. /\ pc = "prompt" /\ nprocs + Len(l) <= NProcs /\ line' = l /\ stage' = 1
      /\ pc' = (IF Len(l) = 1 THEN "do_redir" ELSE "stage") /\ bg' \in BOOLEAN
      /\ UNCHANGED <<fd, cloexec, npipes, ctrlc, ends, arg, redirs, nprocs, child>>
  BY DEF Eval
<1>k. CtrlType' /\ lost' = lost /\ bare' = bare /\ bare \subseteq bare'
  BY <1>1, CtrlKept
<1>2. l \in Seq(Stages) /\ Len(l) \in Nat /\ Len(l) # 0
  <2>1. PICK n \in 1 .. NProcs : l \in [1 .. n -> Stages]
    BY DEF Lines
  <2>2. n \in Nat /\ n # 0
    BY <2>1, NProcsAssumption
  <2>3. l \in Seq(Stages)
    BY <2>1, <2>2, SeqDef
  <2>4. Len(l) = n
    BY <2>1, <2>2, <2>3, LenProperties, SMT
  <2> QED BY <2>2, <2>3, <2>4
<1>p. \/ pc' = "do_redir" /\ Len(line') = 1 /\ stage' = 1
      \/ pc' = "stage" /\ Len(line') > 1 /\ stage' = 1
  <2>0. \A n \in Nat : n # 0 => n = 1 \/ (n > 1 /\ n # 1)
    OBVIOUS
  <2>1. Len(l) = 1 \/ (Len(l) > 1 /\ Len(l) # 1)
    BY <1>2, <2>0, Zenon
  <2>2. Len(line') = Len(l)
    BY <1>1
  <2> QED BY <1>1, <2>1, <2>2
<1>3. FdType' /\ MainType'
  BY <1>1, <1>2, <1>t DEF FdType, MainType
<1>4. /\ ChildType' /\ (\A p \in Procs : ChildInv(p))' /\ Pairs'
      /\ \A p \in Procs : live(p)' = live(p) /\ (inFile(p))' = inFile(p)
                          /\ (outFile(p))' = outFile(p)
  BY <1>1, <1>k, <1>t, ChildrenKept DEF MainType
<1>5. LineInv'
  <2>1. nprocs \in Nat /\ NProcs \in Nat
    BY <1>t, NProcsAssumption DEF MainType
  <2>2. nprocs + (Len(l) - 1) < NProcs
    BY <1>1, <1>2, <2>1
  <2>3. nprocs' + (Len(line') - stage') < NProcs /\ stage' \in 1 .. Len(line')
    BY <1>1, <1>2, <2>2
  <2> QED BY <1>p, <2>3 DEF LineInv, active
<1>6. alive /\ ShellFiles /\ arg = NoArg /\ redirs = 0 /\ \A v \in Locals : ends[v] = -1
  BY <1>1 DEF alive, PipeInv, ShellInv, LineInv, EndsInv
<1>7. Kept(Shell)' /\ (cloexec[Shell] \subseteq 3 .. MaxFd)' /\ ShellFiles'
      /\ (\A f \in Fds : isPipe(fd[Shell][f]) => fd[Shell][f].id <= npipes)'
  BY <1>1, <1>6, <1>k DEF PipeInv, ShellInv, Kept, Allowed, ShellFiles
<1>8. \A v \in Locals : ends'[v] = -1
  BY <1>1, <1>6
<1>9. EndsInv'
  <2>1. active' => ~(stage' < Len(line'))
    BY <1>p DEF active
  <2>2. source' \in Locals /\ sink' \in Locals /\ spare' \in Locals /\ idle' \in Locals
    BY DEF source, sink, spare, idle, Locals
  <2>3. ~(stage' > 1)
    BY <1>1
  <2> QED BY <1>1, <1>8, <2>1, <2>2, <2>3 DEF EndsInv
<1>10. ArgInv'
  <2>1. line'[stage'] \in StageType
    BY <1>1, <1>2, StagesAssumption, ElementOfSeq
  <2>2. \A dir : lastUpTo(line'[stage'], dir, 0) = 0
    BY <2>1, LastUpToEnds
  <2>3. pc' = "do_redir" => Len(line'[stage'].redirs) \in Nat
    BY <2>1, LenProperties DEF StageType
  <2>4. source' \in Locals /\ sink' \in Locals
    BY DEF source, sink, Locals
  <2>5. arg'.input = -1 /\ arg'.output = -1 /\ redirs' = 0
    BY <1>1, <1>6 DEF NoArg
  <2>6. Given(arg.input, "in", source)' /\ Given(arg.output, "out", sink)'
    BY <1>8, <2>2, <2>4, <2>5 DEF Given
  <2> QED BY <1>1, <2>3, <2>5, <2>6 DEF ArgInv
<1>11. Link' /\ Fresh'
  <2>1. nextIn' = -1
    BY <1>8 DEF nextIn, source, spare, reader, Locals
  <2>2. pc' \in {"do_redir", "fork"} => ~(stage' < Len(line'))
    BY <1>p
  <2> QED BY <2>1, <2>2 DEF Link, Fresh
<1> QED BY <1>3, <1>4, <1>5, <1>7, <1>9, <1>10, <1>11, <1>k, TypeParts DEF PipeInv, ShellInv

(* A new pipe gets two descriptors of its own, above those of the shell.   *)
LEMMA PipeFds ==
  ASSUME PipeInv, alive, canPipe, NEW marked \in SUBSET {readFd, writeFd}, Pipe(marked),
         bare \subseteq bare', marked = {readFd, writeFd} \/ npipes + 1 \in bare'
  PROVE  /\ FdType' /\ npipes' = npipes + 1
         /\ \A p \in Procs : fd'[p] = fd[p] /\ cloexec'[p] = cloexec[p]
         /\ Kept(Shell)' /\ (cloexec[Shell] \subseteq 3 .. MaxFd)'
         /\ (\A f \in Fds : isPipe(fd[Shell][f]) => fd[Shell][f].id <= npipes)'
         /\ readFd \in 4 .. MaxFd /\ writeFd \in 4 .. MaxFd
         /\ fd[Shell][readFd] = Closed /\ fd[Shell][writeFd] = Closed
         /\ fd'[Shell][readFd] = File("read", npipes') /\ fd'[Shell][writeFd] = File("write", npipes')
         /\ \A f \in Fds : f # readFd /\ f # writeFd => fd'[Shell][f] = fd[Shell][f]
         /\ \A f \in 0 .. 3 : fd'[Shell][f] = Tty
<1> DEFINE a == readFd
           b == writeFd
<1>t. FdType /\ MainType /\ Shell \notin Procs
  BY TypeParts DEF PipeInv, Procs, Shell
<1>s. ShellInv /\ ShellFiles
  BY DEF PipeInv, ShellInv
<1>f. Closed # Tty /\ Closed.kind = "closed" /\ Tty.kind = "tty"
  BY DEF Closed, Tty, File
<1>1. /\ a \in free /\ b \in free /\ a # b
  BY TwoFree DEF readFd, writeFd
<1>2. /\ npipes' = npipes + 1 /\ marked \subseteq {a, b}
      /\ fd' = [fd EXCEPT ![Shell][a] = File("read", npipes + 1),
                          ![Shell][b] = File("write", npipes + 1)]
      /\ cloexec' = [cloexec EXCEPT ![Shell] = @ \cup marked]
  BY DEF Pipe
<1>m. marked = {a, b} \/ npipes + 1 \in bare'
  OBVIOUS
<1> HIDE DEF a, b
<1>3. a \in Fds /\ b \in Fds /\ fd[Shell][a] = Closed /\ fd[Shell][b] = Closed
  BY <1>1 DEF free
<1>4. a \in 4 .. MaxFd /\ b \in 4 .. MaxFd
  <2>1. \A f \in Fds : fd[Shell][f] = Closed => f \notin 0 .. 3
    BY <1>f, <1>s DEF ShellFiles
  <2>2. a \notin 0 .. 3 /\ b \notin 0 .. 3
    BY <1>3, <2>1
  <2>3. \A f \in Fds : f \notin 0 .. 3 => f \in 4 .. MaxFd
    BY MaxFdAssumption DEF Fds
  <2> QED BY <1>3, <2>2, <2>3
<1>5. /\ fd'[Shell] = [fd[Shell] EXCEPT ![a] = File("read", npipes + 1), ![b] = File("write", npipes + 1)]
      /\ cloexec'[Shell] = cloexec[Shell] \cup marked
      /\ \A p \in Procs : fd'[p] = fd[p] /\ cloexec'[p] = cloexec[p]
  BY <1>2, <1>t DEF FdType
<1>6. /\ fd'[Shell][a] = File("read", npipes + 1) /\ fd'[Shell][b] = File("write", npipes + 1)
      /\ \A f \in Fds : f # a /\ f # b => fd'[Shell][f] = fd[Shell][f]
  <2>1. fd[Shell] \in [Fds -> FileType]
    BY <1>t DEF FdType
  <2> QED BY <1>1, <1>3, <1>5, <2>1
<1>8. npipes \in Nat /\ npipes + 1 \in Nat /\ npipes < npipes + 1
  BY <1>t DEF MainType
<1>9. File("read", npipes + 1) \in FileType /\ File("write", npipes + 1) \in FileType
      /\ File("read", npipes + 1) # Closed /\ File("write", npipes + 1) # Closed
      /\ isPipe(File("read", npipes + 1)) /\ isPipe(File("write", npipes + 1))
      /\ File("read", npipes + 1).id = npipes + 1 /\ File("write", npipes + 1).id = npipes + 1
  BY <1>8 DEF File, FileType, Closed, isPipe
<1>10. FdType'
  <2>1. fd' \in [{Shell} \cup Procs -> [Fds -> FileType]]
    BY <1>2, <1>9, <1>t DEF FdType
  <2>2. cloexec' \in [{Shell} \cup Procs -> SUBSET Fds]
    BY <1>2, <1>3, <1>t DEF FdType
  <2>3. ASSUME NEW f \in cloexec'[Shell] PROVE fd'[Shell][f] # Closed
    <3>1. f \in cloexec[Shell] => fd[Shell][f] # Closed /\ f \in Fds
      BY <1>t DEF FdType
    <3> QED BY <1>2, <1>5, <1>6, <1>9, <2>3, <3>1
  <2>4. \A p \in Procs : \A f \in cloexec'[p] : fd'[p][f] # Closed
    BY <1>5, <1>t DEF FdType
  <2> QED BY <2>1, <2>2, <2>3, <2>4 DEF FdType
<1>11. Kept(Shell)'
  <2> SUFFICES ASSUME NEW f \in Fds, f > 2 PROVE Allowed(Shell, f)' \/ f \in cloexec'[Shell]
    BY DEF Kept
  <2>1. CASE f = a \/ f = b
    BY <1>5, <1>6, <1>9, <1>m, <2>1 DEF Allowed
  <2>2. CASE f # a /\ f # b
    BY <1>5, <1>6, <1>s, <2>2 DEF ShellInv, Kept, Allowed
  <2> QED BY <2>1, <2>2
<1>12. (cloexec[Shell] \subseteq 3 .. MaxFd)'
  BY <1>2, <1>4, <1>5, <1>s DEF ShellInv
<1>13. (\A f \in Fds : isPipe(fd[Shell][f]) => fd[Shell][f].id <= npipes)'
  <2> SUFFICES ASSUME NEW f \in Fds, isPipe(fd'[Shell][f])
               PROVE  fd'[Shell][f].id <= npipes + 1
    BY <1>2
  <2>1. CASE f = a \/ f = b
    BY <1>6, <1>8, <1>9, <2>1
  <2>2. CASE f # a /\ f # b
    <3>1. fd'[Shell][f] = fd[Shell][f] /\ fd[Shell][f].id \in Nat
      BY <1>6, <1>t, <2>2 DEF FdType, FileType
    <3>2. fd[Shell][f].id <= npipes
      BY <1>s, <3>1 DEF ShellInv
    <3> QED BY <1>8, <3>1, <3>2
  <2> QED BY <2>1, <2>2
<1>14. \A f \in 0 .. 3 : fd'[Shell][f] = Tty
  <2>1. \A f \in 0 .. 3 : f \in Fds /\ f # a /\ f # b
    BY <1>4, MaxFdAssumption DEF Fds
  <2> QED BY <1>6, <1>s, <2>1 DEF ShellFiles
<1> QED BY <1>2, <1>3, <1>4, <1>5, <1>6, <1>10, <1>11, <1>12, <1>13, <1>14 DEF a, b

(* mkpipe() puts them into two locals that were not open.                  *)
LEMMA MkpipeFds ==
  ASSUME PipeInv, alive, canPipe, NEW r \in Locals, NEW w \in Locals, r # w, Mkpipe(r, w),
         ends[r] = -1, ends[w] = -1, UNCHANGED ctrlc
  PROVE  /\ FdType' /\ ends' \in [Locals -> FdOrNone] /\ npipes' = npipes + 1
         /\ \A p \in Procs : fd'[p] = fd[p] /\ cloexec'[p] = cloexec[p]
         /\ Kept(Shell)' /\ (cloexec[Shell] \subseteq 3 .. MaxFd)' /\ ShellFiles'
         /\ (\A f \in Fds : isPipe(fd[Shell][f]) => fd[Shell][f].id <= npipes)'
         /\ ends'[r] \in 4 .. MaxFd /\ ends'[w] \in 4 .. MaxFd
         /\ fd'[Shell][ends'[r]] = File("read", npipes')
         /\ fd'[Shell][ends'[w]] = File("write", npipes')
         /\ \A v \in Locals : v # r /\ v # w => ends'[v] = ends[v]
         /\ \A f \in Fds : fd[Shell][f] # Closed => fd'[Shell][f] = fd[Shell][f]
<1> DEFINE a == readFd
           b == writeFd
<1>t. MainType
  BY TypeParts DEF PipeInv
<1>s. ShellFiles
  BY DEF PipeInv, ShellInv
<1>k. lost' = lost /\ bare \subseteq bare'
  BY CtrlKept
<1>1. Pipe({readFd, writeFd}) /\ ends' = [ends EXCEPT ![r] = a, ![w] = b]
  BY DEF Mkpipe, closeOnExec
<1>2. /\ FdType' /\ npipes' = npipes + 1
      /\ \A p \in Procs : fd'[p] = fd[p] /\ cloexec'[p] = cloexec[p]
      /\ Kept(Shell)' /\ (cloexec[Shell] \subseteq 3 .. MaxFd)'
      /\ (\A f \in Fds : isPipe(fd[Shell][f]) => fd[Shell][f].id <= npipes)'
      /\ a \in 4 .. MaxFd /\ b \in 4 .. MaxFd
      /\ fd[Shell][a] = Closed /\ fd[Shell][b] = Closed
      /\ fd'[Shell][a] = File("read", npipes') /\ fd'[Shell][b] = File("write", npipes')
      /\ \A f \in Fds : f # a /\ f # b => fd'[Shell][f] = fd[Shell][f]
      /\ \A f \in 0 .. 3 : fd'[Shell][f] = Tty
  BY <1>1, <1>k, PipeFds
<1> HIDE DEF a, b
<1>3. ends'[r] = a /\ ends'[w] = b /\ \A v \in Locals : v # r /\ v # w => ends'[v] = ends[v]
  BY <1>1, <1>t DEF MainType
<1>4. a \in FdOrNone /\ b \in FdOrNone
  BY <1>2, MaxFdAssumption DEF FdOrNone, Fds
<1>5. ShellFiles'
  <2>1. \A v \in Locals : ends'[v] # -1 => ends'[v] \in 4 .. MaxFd
    BY <1>2, <1>3, <1>s DEF ShellFiles
  <2>2. ASSUME NEW f \in Fds, isPipe(fd'[Shell][f])
        PROVE  (\E v \in Locals : ends'[v] = f) \/ fd'[Shell][f].id \in lost'
    <3>1. CASE f = a \/ f = b
      BY <1>3, <3>1
    <3>2. CASE f # a /\ f # b
      <4>1. fd'[Shell][f] = fd[Shell][f]
        BY <1>2, <3>2
      <4>2. (\E v \in Locals : ends[v] = f) \/ fd[Shell][f].id \in lost
        BY <1>s, <2>2, <4>1 DEF ShellFiles
      <4>3. ASSUME NEW v \in Locals, ends[v] = f PROVE ends'[v] = f
        <5>1. f # -1
          BY MaxFdAssumption DEF Fds
        <5> QED BY <1>3, <4>3, <5>1
      <4> QED BY <1>k, <4>1, <4>2, <4>3
    <3> QED BY <3>1, <3>2
  <2> QED BY <1>2, <2>1, <2>2 DEF ShellFiles
<1>6. ends' \in [Locals -> FdOrNone]
  BY <1>1, <1>4, <1>t DEF MainType
<1> QED BY <1>2, <1>3, <1>5, <1>6

(* do_stage() is called with the ends it reads from and writes to.         *)
LEMMA StageCalled ==
  ASSUME PipeInv, pc = "stage", UNCHANGED <<line, bg, stage, nprocs, child>>,
         pc' = "do_redir", redirs' = 0,
         arg' = [input |-> ends'[source'], output |-> ends'[sink']],
         npipes' \in Nat, ends' \in [Locals -> FdOrNone],
         (ends[source] = -1 \/ ends[source] # ends[sink])'
  PROVE  MainType' /\ LineInv' /\ ArgInv'
<1>t. MainType /\ LineInv
  BY TypeParts DEF PipeInv, ShellInv
<1>1. source' \in Locals /\ sink' \in Locals
  BY DEF source, sink, Locals
<1>2. MainType'
  BY <1>1, <1>t DEF MainType
<1>3. LineInv'
  BY <1>t DEF LineInv, active
<1>4. line[stage] \in StageType
  <2>1. stage \in 1 .. Len(line) /\ line \in Seq(Stages)
    BY <1>t DEF LineInv, MainType
  <2> QED BY <2>1, StagesAssumption, ElementOfSeq
<1>5. \A dir : lastUpTo(line[stage], dir, 0) = 0
  BY <1>4, LastUpToEnds
<1>6. Len(line[stage].redirs) \in Nat
  BY <1>4, LenProperties DEF StageType
<1>7. Given(arg.input, "in", source)' /\ Given(arg.output, "out", sink)'
  BY <1>5 DEF Given
<1>8. ArgInv'
  <2>1. 0 <= Len(line[stage].redirs)
    BY <1>6
  <2> QED BY <1>7, <2>1 DEF ArgInv
<1> QED BY <1>2, <1>3, <1>8

(* The first stage reads what the shell reads.                             *)
LEMMA FirstStageStep ==
  ASSUME PipeInv, FirstStage
  PROVE  PipeInv'
<1>t. MainType /\ LineInv /\ pc = "stage" /\ stage = 1 /\ alive /\ Len(line) > 1
  BY TypeParts DEF PipeInv, ShellInv, LineInv, FirstStage, alive
<1>1. CASE End("died")
  BY <1>1, EndStep
<1>2. CASE canPipe /\ Mkpipe("next_input", "output") /\ CallStage("input", "output")
  <2>k. UNCHANGED ctrlc /\ CtrlType' /\ lost' = lost /\ bare' = bare /\ bare \subseteq bare'
    BY <1>2, CtrlKept DEF CallStage
  <2>1. \A v \in Locals : ends[v] = -1
    BY <1>t DEF PipeInv, ShellInv, EndsInv
  <2>2. "next_input" \in Locals /\ "output" \in Locals /\ "input" \in Locals /\ "next_output" \in Locals
    BY DEF Locals
  <2>3. /\ FdType' /\ ends' \in [Locals -> FdOrNone] /\ npipes' = npipes + 1
        /\ \A p \in Procs : fd'[p] = fd[p] /\ cloexec'[p] = cloexec[p]
        /\ Kept(Shell)' /\ (cloexec[Shell] \subseteq 3 .. MaxFd)' /\ ShellFiles'
        /\ (\A f \in Fds : isPipe(fd[Shell][f]) => fd[Shell][f].id <= npipes)'
        /\ ends'["next_input"] \in 4 .. MaxFd /\ ends'["output"] \in 4 .. MaxFd
        /\ fd'[Shell][ends'["next_input"]] = File("read", npipes')
        /\ fd'[Shell][ends'["output"]] = File("write", npipes')
        /\ \A v \in Locals : v # "next_input" /\ v # "output" => ends'[v] = ends[v]
    BY <1>2, <1>t, <2>1, <2>2, <2>k, MkpipeFds
  <2>4. /\ arg' = [input |-> ends'["input"], output |-> ends'["output"]]
        /\ redirs' = 0 /\ pc' = "do_redir" /\ UNCHANGED <<line, bg, stage, nprocs, child>>
    BY <1>2 DEF CallStage
  <2>5. npipes \in Nat /\ npipes' \in Nat /\ npipes < npipes' /\ npipes <= npipes'
    BY <1>t, <2>3 DEF MainType
  <2>6. /\ source' = "input" /\ sink' = "output" /\ spare' = "next_input" /\ idle' = "next_output"
    BY <1>t, <2>4 DEF source, sink, spare, idle
  <2>7. ends'["input"] = -1 /\ ends'["next_output"] = -1
    BY <2>1, <2>2, <2>3
  <2>8. MainType' /\ LineInv' /\ ArgInv'
    BY <1>t, <2>3, <2>4, <2>5, <2>6, <2>7, StageCalled
  <2>9. /\ ChildType' /\ (\A p \in Procs : ChildInv(p))' /\ Pairs'
        /\ \A p \in Procs :
             /\ live(p)' = live(p) /\ (inFile(p))' = inFile(p) /\ (outFile(p))' = outFile(p)
             /\ live(p) /\ inFile(p).kind = "read" => inFile(p).id \in 0 .. npipes
             /\ live(p) /\ outFile(p).kind = "write" => outFile(p).id \in 0 .. npipes
    BY <2>3, <2>4, <2>5, <2>k, ChildrenKept
  <2>10. EndsInv'
    <3>1. ends'["next_input"] # -1 /\ ends'["output"] # -1
      BY <2>3
    <3>2. stage' = 1 /\ stage' < Len(line')
      BY <1>t, <2>4
    <3> QED BY <2>3, <2>4, <2>6, <2>7, <3>1, <3>2 DEF EndsInv, active
  <2>11. Fresh'
    <3>1. \A k \in 0 .. npipes : k < npipes'
      BY <2>5
    <3> QED BY <2>9, <3>1 DEF Fresh
  <2>12. Link'
    <3>1. nextIn' = -1
      BY <2>4, <2>6, <2>7 DEF nextIn
    <3> QED BY <3>1 DEF Link
  <2>13. ShellInv'
    BY <2>3, <2>8, <2>10 DEF ShellInv
  <2> QED BY <2>3, <2>8, <2>9, <2>11, <2>12, <2>13, <2>k, TypeParts DEF PipeInv
<1> QED BY <1>1, <1>2 DEF FirstStage

(* The end that the next stage reads from, when it is its turn.            *)
LEMMA ReaderOpen ==
  ASSUME PipeInv, pc = "stage", stage > 1
  PROVE  /\ reader \in {"input", "next_input"} /\ ends[reader] \in 4 .. MaxFd
         /\ fd[Shell][ends[reader]].kind = "read" /\ fd[Shell][ends[reader]].id \in 0 .. npipes
         /\ \A v \in Locals : v # reader => ends[v] = -1
         /\ reader = "next_input" <=> ends["next_input"] > 0
         /\ nextIn = ends[reader]
<1>t. FdType /\ MainType
  BY TypeParts DEF PipeInv
<1>1. reader \in {"input", "next_input"} /\ reader \in Locals
  BY DEF reader, Locals
<1>2. /\ ends[reader] # -1 /\ fd[Shell][ends[reader]].kind = "read"
      /\ \A v \in Locals : v # reader => ends[v] = -1
  BY DEF PipeInv, ShellInv, EndsInv, alive
<1>3. ends[reader] \in 4 .. MaxFd
  BY <1>1, <1>2 DEF PipeInv, ShellInv, ShellFiles, alive
<1>4. ends[reader] \in Fds
  BY <1>3, MaxFdAssumption DEF Fds
<1>5. fd[Shell][ends[reader]].id \in 0 .. npipes
  <2>1. fd[Shell][ends[reader]] \in FileType /\ isPipe(fd[Shell][ends[reader]])
    BY <1>2, <1>4, <1>t DEF FdType, isPipe
  <2>2. fd[Shell][ends[reader]].id <= npipes
    BY <1>4, <2>1 DEF PipeInv, ShellInv
  <2>3. fd[Shell][ends[reader]].id \in Nat
    BY <2>1 DEF FileType
  <2> QED BY <1>t, <2>2, <2>3 DEF MainType
<1>6. reader = "next_input" <=> ends["next_input"] > 0
  BY DEF reader
<1>7. nextIn = ends[reader]
  BY DEF nextIn
<1> QED BY <1>1, <1>2, <1>3, <1>5, <1>6, <1>7

(* A stage in the middle gets a pipe of its own, behind the one it reads.  *)
LEMMA NextPipe ==
  ASSUME PipeInv, pc = "stage", 1 < stage, moreStages, canPipe,
         NEW r \in {"input", "next_input"}, NEW w \in {"output", "next_output"},
         (r = "input") = (w = "next_output"), r # reader,
         Mkpipe(r, w), CallStage(reader, w)
  PROVE  PipeInv'
<1>t. MainType /\ LineInv /\ alive /\ stage \in Nat /\ stage < Len(line)
  BY TypeParts DEF PipeInv, ShellInv, LineInv, alive, MainType, moreStages
<1>r. /\ reader \in {"input", "next_input"} /\ ends[reader] \in 4 .. MaxFd
      /\ fd[Shell][ends[reader]].kind = "read" /\ fd[Shell][ends[reader]].id \in 0 .. npipes
      /\ \A v \in Locals : v # reader => ends[v] = -1
      /\ nextIn = ends[reader]
  BY ReaderOpen
<1>l. r \in Locals /\ w \in Locals /\ reader \in Locals /\ r # w /\ w # reader
      /\ Locals = {"input", "output", "next_input", "next_output"}
  BY <1>r DEF Locals
<1>k. UNCHANGED ctrlc /\ CtrlType' /\ lost' = lost /\ bare' = bare /\ bare \subseteq bare'
  BY CtrlKept DEF CallStage
<1>2. ends[r] = -1 /\ ends[w] = -1
  BY <1>l, <1>r
<1>3. /\ FdType' /\ ends' \in [Locals -> FdOrNone] /\ npipes' = npipes + 1
      /\ \A p \in Procs : fd'[p] = fd[p] /\ cloexec'[p] = cloexec[p]
      /\ Kept(Shell)' /\ (cloexec[Shell] \subseteq 3 .. MaxFd)' /\ ShellFiles'
      /\ (\A f \in Fds : isPipe(fd[Shell][f]) => fd[Shell][f].id <= npipes)'
      /\ ends'[r] \in 4 .. MaxFd /\ ends'[w] \in 4 .. MaxFd
      /\ fd'[Shell][ends'[r]] = File("read", npipes')
      /\ fd'[Shell][ends'[w]] = File("write", npipes')
      /\ \A v \in Locals : v # r /\ v # w => ends'[v] = ends[v]
      /\ \A f \in Fds : fd[Shell][f] # Closed => fd'[Shell][f] = fd[Shell][f]
  BY <1>2, <1>k, <1>l, <1>t, MkpipeFds
<1>4. /\ arg' = [input |-> ends'[reader], output |-> ends'[w]]
      /\ redirs' = 0 /\ pc' = "do_redir" /\ UNCHANGED <<line, bg, stage, nprocs, child>>
  BY DEF CallStage
<1>5. npipes \in Nat /\ npipes' \in Nat /\ npipes < npipes' /\ npipes <= npipes'
  BY <1>3, <1>t DEF MainType
<1>6. \A k \in 0 .. npipes : k < npipes'
  BY <1>5
<1>7. ends'[reader] = ends[reader] /\ fd'[Shell][ends'[reader]] = fd[Shell][ends[reader]]
  <2>1. ends'[reader] = ends[reader]
    BY <1>3, <1>l
  <2>2. ends[reader] \in Fds /\ fd[Shell][ends[reader]] # Closed
    BY <1>r, MaxFdAssumption DEF Fds, Closed, File
  <2> QED BY <1>3, <2>1, <2>2
<1>8. source' = reader /\ sink' = w /\ spare' = r
  <2>1. ends'["next_output"] > 0 <=> w = "next_output"
    <3>1. CASE w = "next_output"
      <4>1. \A k \in 4 .. MaxFd : k > 0
        BY MaxFdAssumption
      <4> QED BY <1>3, <3>1, <4>1
    <3>2. CASE w # "next_output"
      <4>1. ends'["next_output"] = -1
        BY <1>3, <1>l, <1>r, <3>2
      <4> QED BY <3>2, <4>1
    <3> QED BY <3>1, <3>2
  <2>2. 1 < stage' /\ stage' < Len(line') /\ stage' # Len(line')
    BY <1>4, <1>t
  <2>3. source' = IF w = "next_output" THEN "next_input" ELSE "input"
    BY <2>1, <2>2 DEF source
  <2>4. source' = reader
    BY <1>r, <2>3
  <2>5. sink' = w
    BY <1>r, <2>3 DEF sink
  <2>6. spare' = r
    BY <1>r, <2>3 DEF spare
  <2> QED BY <2>4, <2>5, <2>6
<1>9. idle' \in Locals /\ idle' # reader /\ idle' # w /\ idle' # r
  BY <1>8, <1>l, <1>r DEF idle, Locals
<1>10. ends'[idle'] = -1
  BY <1>3, <1>9, <1>r
<1>11. ends'[reader] # -1 /\ ends'[r] # -1 /\ ends'[w] # -1
  BY <1>3, <1>7, <1>r, MaxFdAssumption
<1>12. ends'[reader] # ends'[w]
  <2>1. File("write", npipes').kind = "write"
    BY DEF File
  <2> QED BY <1>3, <1>7, <1>r, <2>1
<1>13. MainType' /\ LineInv' /\ ArgInv'
  BY <1>3, <1>4, <1>5, <1>8, <1>12, StageCalled
<1>14. /\ ChildType' /\ (\A p \in Procs : ChildInv(p))' /\ Pairs'
       /\ \A p \in Procs :
            /\ live(p)' = live(p) /\ (inFile(p))' = inFile(p) /\ (outFile(p))' = outFile(p)
            /\ live(p) /\ inFile(p).kind = "read" => inFile(p).id \in 0 .. npipes
            /\ live(p) /\ outFile(p).kind = "write" => outFile(p).id \in 0 .. npipes
  BY <1>3, <1>4, <1>5, <1>k, ChildrenKept
<1>15. EndsInv'
  <2>1. 1 < stage' /\ stage' < Len(line') /\ stage' > 1
    BY <1>4, <1>t
  <2>2. fd'[Shell][ends'[reader]].kind = "read" /\ fd'[Shell][ends'[reader]].id < npipes'
    BY <1>6, <1>7, <1>r
  <2> QED BY <1>3, <1>4, <1>8, <1>10, <1>11, <2>1, <2>2 DEF EndsInv, active
<1>16. Fresh'
  BY <1>6, <1>14 DEF Fresh
<1>17. Link'
  <2>1. nextIn' = ends'[reader]
    BY <1>4, <1>8 DEF nextIn
  <2>2. Link /\ nextIn # -1
    BY <1>11, <1>7, <1>r DEF PipeInv
  <2>3. fd'[Shell][nextIn'].id = fd[Shell][nextIn].id
    BY <1>7, <1>r, <2>1
  <2> QED BY <1>4, <1>14, <2>2, <2>3 DEF Link
<1>18. ShellInv'
  BY <1>3, <1>13, <1>15 DEF ShellInv
<1> QED BY <1>3, <1>13, <1>14, <1>16, <1>17, <1>18, <1>k, TypeParts DEF PipeInv

(* A middle stage reads from whichever pair of locals is the older.        *)
LEMMA MiddleStageStep ==
  ASSUME PipeInv, MiddleStage
  PROVE  PipeInv'
<1>1. pc = "stage" /\ 1 < stage /\ moreStages /\ stage > 1
  <2>1. stage \in Nat
    BY TypeParts DEF PipeInv, MainType
  <2> QED BY <2>1 DEF MiddleStage
<1>2. CASE End("aborted") \/ End("died")
  BY <1>2, EndStep
<1>3. CASE canPipe /\ ends["next_input"] > 0 /\ Mkpipe("input", "next_output")
           /\ CallStage("next_input", "next_output")
  <2>1. reader = "next_input"
    BY <1>3 DEF reader
  <2> QED BY <1>1, <1>3, <2>1, NextPipe
<1>4. CASE canPipe /\ ~(ends["next_input"] > 0) /\ Mkpipe("next_input", "output")
           /\ CallStage("input", "output")
  <2>1. reader = "input"
    BY <1>4 DEF reader
  <2> QED BY <1>1, <1>4, <2>1, NextPipe
<1> QED BY <1>2, <1>3, <1>4 DEF MiddleStage

(* The last stage writes where the shell writes.                           *)
LEMMA LastStageStep ==
  ASSUME PipeInv, LastStage
  PROVE  PipeInv'
<1>t. /\ FdType /\ MainType /\ LineInv /\ alive /\ pc = "stage" /\ 1 < stage /\ stage = Len(line)
      /\ stage \in Nat /\ stage > 1
  <2>1. FdType /\ MainType /\ LineInv /\ alive /\ pc = "stage" /\ 1 < stage /\ stage = Len(line)
        /\ stage \in Nat
    BY TypeParts DEF PipeInv, ShellInv, LineInv, alive, MainType, LastStage
  <2> QED BY <2>1
<1>r. /\ reader \in {"input", "next_input"} /\ ends[reader] \in 4 .. MaxFd
      /\ fd[Shell][ends[reader]].kind = "read" /\ fd[Shell][ends[reader]].id \in 0 .. npipes
      /\ \A v \in Locals : v # reader => ends[v] = -1
      /\ reader = "next_input" <=> ends["next_input"] > 0
      /\ nextIn = ends[reader]
  BY <1>t, ReaderOpen
<1>1. CASE End("aborted")
  BY <1>1, EndStep
<1>2. CASE /\ UNCHANGED <<fd, cloexec, npipes, ctrlc, ends>>
           /\ IF ends["next_input"] > 0 THEN CallStage("next_input", "next_output")
              ELSE CallStage("input", "output")
  <2>k. UNCHANGED ctrlc /\ CtrlType' /\ lost' = lost /\ bare' = bare /\ bare \subseteq bare'
    BY <1>2, CtrlKept
  <2>1. /\ redirs' = 0 /\ pc' = "do_redir" /\ UNCHANGED <<line, bg, stage, nprocs, child>>
    BY <1>2 DEF CallStage
  <2>2. source' = reader
    <3>1. source' = IF ends["next_input"] > 0 THEN "next_input" ELSE "input"
      BY <1>2, <1>t, <2>1 DEF source
    <3> QED BY <1>r, <3>1
  <2>3. arg' = [input |-> ends'[source'], output |-> ends'[sink']]
    BY <1>2, <1>r, <2>2 DEF CallStage, sink
  <2>4. /\ sink' \in Locals /\ spare' \in Locals /\ idle' \in Locals
        /\ sink' # reader /\ spare' # reader /\ idle' # reader
    BY <1>r, <2>2 DEF sink, spare, idle, Locals
  <2>5. ends'[sink'] = -1 /\ ends'[spare'] = -1 /\ ends'[idle'] = -1
    BY <1>2, <1>r, <2>4
  <2>6. ends'[reader] = ends[reader] /\ ends'[reader] # -1
    BY <1>2, <1>r, MaxFdAssumption
  <2>7. MainType' /\ LineInv' /\ ArgInv'
    BY <1>2, <1>t, <2>1, <2>2, <2>3, <2>5, <2>6, StageCalled DEF MainType
  <2>8. /\ ChildType' /\ (\A p \in Procs : ChildInv(p))' /\ Pairs'
        /\ \A p \in Procs :
             live(p)' = live(p) /\ (inFile(p))' = inFile(p) /\ (outFile(p))' = outFile(p)
    <3>1. npipes' \in Nat /\ npipes <= npipes'
      BY <1>2, <1>t DEF MainType
    <3> QED BY <1>2, <2>1, <2>k, <3>1, ChildrenKept
  <2>9. EndsInv'
    <3>1. ~(stage' < Len(line')) /\ stage' > 1
      BY <1>t, <2>1
    <3> QED BY <1>2, <1>r, <2>1, <2>2, <2>5, <2>6, <3>1 DEF EndsInv, active
  <2>10. Fresh'
    <3>1. ~(stage' < Len(line'))
      BY <1>t, <2>1
    <3> QED BY <3>1 DEF Fresh
  <2>11. Link'
    <3>1. nextIn' = ends[reader]
      BY <2>1, <2>2, <2>6 DEF nextIn
    <3>2. Link /\ nextIn # -1
      BY <1>r, <2>6 DEF PipeInv
    <3> QED BY <1>2, <1>r, <1>t, <2>1, <2>8, <3>1, <3>2 DEF Link
  <2>12. FdType' /\ ShellFiles' /\ Kept(Shell)' /\ (cloexec[Shell] \subseteq 3 .. MaxFd)'
         /\ (\A f \in Fds : isPipe(fd[Shell][f]) => fd[Shell][f].id <= npipes)'
    BY <1>2, <1>t, <2>k DEF FdType, PipeInv, ShellInv, ShellFiles, Kept, Allowed
  <2> QED BY <2>7, <2>8, <2>9, <2>10, <2>11, <2>12, <2>k, TypeParts DEF PipeInv, ShellInv
<1> QED BY <1>1, <1>2 DEF LastStage

(* There are four locals.                                                  *)
LEMMA FourLocals ==
  /\ {source, sink, spare, idle} = Locals
  /\ source # sink /\ source # spare /\ sink # spare
  /\ source \in {"input", "next_input"} /\ sink \in {"output", "next_output"}
<1>1. source \in {"input", "next_input"}
  BY DEF source
<1> QED BY <1>1 DEF sink, spare, idle, Locals

(* What the locals of do_pipeline() are open on, while a stage starts.      *)
LEMMA EndsOpen ==
  ASSUME PipeInv, active
  PROVE  /\ stage > 1 => /\ ends[source] \in 4 .. MaxFd
                         /\ fd[Shell][ends[source]].kind = "read"
                         /\ fd[Shell][ends[source]].id \in 0 .. npipes
         /\ ~(stage > 1) => ends[source] = -1
         /\ stage < Len(line) => /\ ends[sink] \in 4 .. MaxFd /\ ends[spare] \in 4 .. MaxFd
                                 /\ fd[Shell][ends[sink]] = File("write", npipes)
                                 /\ fd[Shell][ends[spare]] = File("read", npipes)
         /\ ~(stage < Len(line)) => ends[sink] = -1 /\ ends[spare] = -1
         /\ stage > 1 /\ stage < Len(line) => fd[Shell][ends[source]].id < npipes
         /\ ends[idle] = -1
         /\ stage \in 1 .. Len(line) /\ line[stage] \in Stages /\ line[stage] \in StageType
         /\ alive
<1>t. FdType /\ MainType /\ alive
  BY TypeParts DEF PipeInv, active, alive
<1>1. ShellFiles /\ EndsInv /\ LineInv
  BY <1>t DEF PipeInv, ShellInv
<1>2. stage \in 1 .. Len(line) /\ line[stage] \in Stages /\ line[stage] \in StageType
  BY <1>1, <1>t, ElementOfSeq, StagesAssumption DEF LineInv, MainType
<1>3. source \in Locals /\ sink \in Locals /\ spare \in Locals
  BY FourLocals
<1>4. /\ ends[source] # -1 => ends[source] \in 4 .. MaxFd
      /\ ends[sink] # -1 => ends[sink] \in 4 .. MaxFd
      /\ ends[spare] # -1 => ends[spare] \in 4 .. MaxFd
  BY <1>1, <1>3 DEF ShellFiles
<1>5. stage > 1 => fd[Shell][ends[source]].id \in 0 .. npipes
  <2> SUFFICES ASSUME stage > 1 PROVE fd[Shell][ends[source]].id \in 0 .. npipes
    OBVIOUS
  <2>1. ends[source] \in Fds /\ fd[Shell][ends[source]].kind = "read"
    BY <1>1, <1>4, MaxFdAssumption DEF EndsInv, Fds
  <2>2. fd[Shell][ends[source]] \in FileType
    BY <1>t, <2>1 DEF FdType
  <2>3. fd[Shell][ends[source]].id <= npipes
    BY <2>1 DEF PipeInv, ShellInv, isPipe
  <2>4. fd[Shell][ends[source]].id \in Nat
    BY <2>2 DEF FileType
  <2> QED BY <1>t, <2>3, <2>4 DEF MainType
<1>6. stage > 1 <=> 1 < stage
  OBVIOUS
<1> QED BY <1>1, <1>2, <1>4, <1>5, <1>6, <1>t DEF EndsInv

(* What the child of a stage is going to read and to write.                *)
LEMMA ArgOpen ==
  ASSUME PipeInv, pc \in {"do_redir", "fork"}
  PROVE  LET in  == lastUpTo(line[stage], "in", redirs)
             out == lastUpTo(line[stage], "out", redirs)
         IN  /\ in > 0 => arg.input \in 4 .. MaxFd /\ fd[Shell][arg.input] = File("file", in)
             /\ ~(in > 0) => arg.input = ends[source]
             /\ out > 0 => arg.output \in 4 .. MaxFd /\ fd[Shell][arg.output] = File("file", out)
             /\ ~(out > 0) => arg.output = ends[sink]
             /\ arg.input # -1 => arg.input \in 4 .. MaxFd /\ fd[Shell][arg.input] # Closed
             /\ arg.output # -1 => arg.output \in 4 .. MaxFd /\ fd[Shell][arg.output] # Closed
             /\ arg.input = arg.output => arg.input = -1
<1> DEFINE in  == lastUpTo(line[stage], "in", redirs)
           out == lastUpTo(line[stage], "out", redirs)
<1>1. active /\ alive
  BY DEF active, alive
<1>2. /\ in > 0 => arg.input \in 4 .. MaxFd /\ fd[Shell][arg.input] = File("file", in)
      /\ ~(in > 0) => arg.input = ends[source]
      /\ out > 0 => arg.output \in 4 .. MaxFd /\ fd[Shell][arg.output] = File("file", out)
      /\ ~(out > 0) => arg.output = ends[sink]
      /\ arg.input = arg.output => arg.input = -1
  BY <1>1 DEF PipeInv, ShellInv, ArgInv, Given
<1> HIDE DEF in, out
<1>3. \A k : File("file", k) # Closed /\ File("write", k) # Closed
  BY DEF File, Closed
<1>4. Closed.kind # "read"
  BY DEF Closed, File
<1>5. arg.input # -1 => arg.input \in 4 .. MaxFd /\ fd[Shell][arg.input] # Closed
  BY <1>1, <1>2, <1>3, <1>4, EndsOpen
<1>6. arg.output # -1 => arg.output \in 4 .. MaxFd /\ fd[Shell][arg.output] # Closed
  BY <1>1, <1>2, <1>3, EndsOpen
<1> QED BY <1>2, <1>5, <1>6 DEF in, out

(* A redirection opens a descriptor of its own.                            *)
LEMMA RedirectStep ==
  ASSUME PipeInv, Redirect
  PROVE  PipeInv'
<1> DEFINE x == lowest(free)
<1>t. FdType /\ MainType /\ active /\ alive /\ pc = "do_redir" /\ ShellFiles /\ EndsInv /\ ArgInv
  BY TypeParts DEF PipeInv, ShellInv, Redirect, active, alive
<1>1. CASE End("aborted")
  BY <1>1, EndStep
<1>2. CASE /\ free # {}
           /\ fd' = [fd EXCEPT ![Shell][x] = File("file", redirs + 1)]
           /\ arg' = IF line[stage].redirs[redirs + 1] = "in"
                     THEN [arg EXCEPT !.input = x] ELSE [arg EXCEPT !.output = x]
           /\ redirs' = redirs + 1
           /\ UNCHANGED <<cloexec, npipes, ctrlc, pc, line, bg, stage, ends, nprocs, child>>
  <2>k. UNCHANGED ctrlc /\ CtrlType' /\ lost' = lost /\ bare' = bare /\ bare \subseteq bare'
    BY <1>2, CtrlKept
  <2>1. x \in Fds /\ fd[Shell][x] = Closed
    <3>1. x \in free
      BY <1>2, LowestIsMember DEF free
    <3> QED BY <3>1 DEF free
  <2> HIDE DEF x
  <2>2. x \in 4 .. MaxFd
    <3>1. Closed # Tty
      BY DEF Closed, Tty, File
    <3>2. x \notin 0 .. 3
      BY <1>t, <2>1, <3>1 DEF ShellFiles
    <3> QED BY <2>1, <3>2, MaxFdAssumption DEF Fds
  <2>3. /\ fd'[Shell][x] = File("file", redirs + 1)
        /\ \A f \in Fds : f # x => fd'[Shell][f] = fd[Shell][f]
        /\ \A f \in Fds : fd[Shell][f] # Closed => fd'[Shell][f] = fd[Shell][f]
        /\ \A p \in Procs : fd'[p] = fd[p] /\ cloexec'[p] = cloexec[p]
    <3>1. Shell \notin Procs
      BY DEF Procs, Shell
    <3>2. fd[Shell] \in [Fds -> FileType]
      BY <1>t DEF FdType
    <3>3. fd'[Shell] = [fd[Shell] EXCEPT ![x] = File("file", redirs + 1)]
      BY <1>2, <1>t DEF FdType
    <3>4. \A p \in Procs : fd'[p] = fd[p] /\ cloexec'[p] = cloexec[p]
      BY <1>2, <1>t, <3>1 DEF FdType
    <3> QED BY <2>1, <3>2, <3>3, <3>4
  <2>4. redirs \in Nat /\ redirs + 1 \in Nat /\ redirs + 1 > 0
    BY <1>t DEF MainType
  <2>5. /\ File("file", redirs + 1) \in FileType /\ File("file", redirs + 1) # Closed
        /\ ~isPipe(File("file", redirs + 1)) /\ File("file", redirs + 1).kind = "file"
    BY <2>4 DEF File, FileType, Closed, isPipe
  <2>6. FdType'
    <3>1. fd' \in [{Shell} \cup Procs -> [Fds -> FileType]]
      BY <1>2, <1>t, <2>5 DEF FdType
    <3>2. \A f \in cloexec[Shell] : fd'[Shell][f] # Closed
      <4>1. \A f \in cloexec[Shell] : f \in Fds /\ fd[Shell][f] # Closed
        BY <1>t DEF FdType
      <4> QED BY <2>3, <4>1
    <3> QED BY <1>2, <1>t, <2>3, <3>1, <3>2 DEF FdType
  <2>7. MainType'
    <3>1. x \in FdOrNone
      BY <2>1 DEF FdOrNone
    <3> QED BY <1>2, <1>t, <2>4, <3>1 DEF MainType
  <2>8. /\ ChildType' /\ (\A p \in Procs : ChildInv(p))' /\ Pairs'
        /\ \A p \in Procs :
             live(p)' = live(p) /\ (inFile(p))' = inFile(p) /\ (outFile(p))' = outFile(p)
    <3>1. npipes' \in Nat /\ npipes <= npipes'
      BY <1>2, <1>t DEF MainType
    <3> QED BY <1>2, <2>3, <2>k, <3>1, ChildrenKept
  <2>9. source' = source /\ sink' = sink /\ spare' = spare /\ idle' = idle
    BY <1>2 DEF source, sink, spare, idle
  <2>10. LineInv'
    BY <1>2, <1>t DEF PipeInv, ShellInv, LineInv, active
  <2>11. /\ Kept(Shell)' /\ (cloexec[Shell] \subseteq 3 .. MaxFd)'
         /\ (\A f \in Fds : isPipe(fd[Shell][f]) => fd[Shell][f].id <= npipes)'
    <3>1. Kept(Shell) /\ cloexec[Shell] \subseteq 3 .. MaxFd
          /\ \A f \in Fds : isPipe(fd[Shell][f]) => fd[Shell][f].id <= npipes
      BY DEF PipeInv, ShellInv
    <3>2. Kept(Shell)'
      BY <1>2, <2>3, <2>5, <2>k, <3>1 DEF Kept, Allowed
    <3>3. \A f \in Fds : isPipe(fd'[Shell][f]) => fd'[Shell][f].id <= npipes'
      BY <1>2, <2>3, <2>5, <3>1
    <3> QED BY <1>2, <3>1, <3>2, <3>3
  <2>12. ShellFiles'
    <3>1. \A f \in 0 .. 3 : fd'[Shell][f] = Tty
      <4>1. \A f \in 0 .. 3 : f \in Fds /\ f # x
        BY <2>2, MaxFdAssumption DEF Fds
      <4> QED BY <1>t, <2>3, <4>1 DEF ShellFiles
    <3>2. \A f \in Fds : isPipe(fd'[Shell][f]) =>
            (\E v \in Locals : ends'[v] = f) \/ fd'[Shell][f].id \in lost'
      BY <1>2, <1>t, <2>3, <2>5, <2>k DEF ShellFiles
    <3> QED BY <1>2, <1>t, <3>1, <3>2 DEF ShellFiles
  <2>13. /\ stage > 1 => fd'[Shell][ends[source]] = fd[Shell][ends[source]]
         /\ stage < Len(line) => /\ fd'[Shell][ends[sink]] = fd[Shell][ends[sink]]
                                 /\ fd'[Shell][ends[spare]] = fd[Shell][ends[spare]]
    <3>1. \A f \in 4 .. MaxFd : f \in Fds
      BY MaxFdAssumption DEF Fds
    <3>2. \A k : File("read", k) # Closed /\ File("write", k) # Closed
      BY DEF File, Closed
    <3>3. Closed.kind # "read"
      BY DEF Closed, File
    <3> QED BY <1>t, <2>3, <3>1, <3>2, <3>3, EndsOpen
  <2>14. EndsInv'
    <3>1. active' /\ pc' = "do_redir"
      BY <1>2, <1>t DEF active
    <3>2. 1 < stage <=> stage > 1
      OBVIOUS
    <3> QED BY <1>2, <1>t, <2>9, <2>13, <3>1, <3>2 DEF EndsInv
  <2>15. ArgInv'
    <3> DEFINE s == line[stage]
    <3>1. s \in StageType /\ redirs < Len(s.redirs) /\ Len(s.redirs) \in Nat
      <4>1. s \in StageType
        BY <1>t, EndsOpen
      <4> QED BY <4>1, LenProperties DEF Redirect, StageType
    <3>2. redirs + 1 <= Len(s.redirs)
      BY <2>4, <3>1
    <3> HIDE DEF s
    <3>3. ASSUME NEW dir
          PROVE  /\ lastUpTo(s, dir, redirs + 1) =
                      IF s.redirs[redirs + 1] = dir THEN redirs + 1 ELSE lastUpTo(s, dir, redirs)
                 /\ s.redirs[redirs + 1] \in {"in", "out"}
      <4>1. \A k \in Nat : k < Len(s.redirs) =>
              /\ lastUpTo(s, dir, k + 1) =
                   IF s.redirs[k + 1] = dir THEN k + 1 ELSE lastUpTo(s, dir, k)
              /\ s.redirs[k + 1] \in {"in", "out"}
        BY <3>1, LastUpToNext
      <4> QED BY <2>4, <3>1, <4>1
    <3>4. ASSUME NEW d, NEW dir, NEW v, Given(d, dir, v), s.redirs[redirs + 1] # dir
          PROVE  LET k == lastUpTo(s, dir, redirs + 1)
                 IN  IF k > 0 THEN d \in 4 .. MaxFd /\ fd'[Shell][d] = File("file", k)
                     ELSE d = ends[v]
      <4>1. \A f \in 4 .. MaxFd : f \in Fds
        BY MaxFdAssumption DEF Fds
      <4>2. \A k : File("file", k) # Closed
        BY DEF File, Closed
      <4> QED BY <2>3, <3>3, <3>4, <4>1, <4>2 DEF Given, s
    <3>5. CASE s.redirs[redirs + 1] = "in"
      <4>1. arg'.input = x /\ arg'.output = arg.output
        BY <1>2, <1>t, <3>5 DEF MainType, s
      <4>2. x # arg.output
        BY <1>t, <2>1, <2>2, ArgOpen
      <4>3. Given(arg.output, "out", sink)
        BY <1>t DEF ArgInv
      <4>4. Given(arg.output, "out", sink)'
        <5>1. LET k == lastUpTo(s, "out", redirs + 1)
              IN  IF k > 0 THEN arg.output \in 4 .. MaxFd /\ fd'[Shell][arg.output] = File("file", k)
                  ELSE arg.output = ends[sink]
          BY <3>4, <3>5, <4>3
        <5>2. line'[stage'] = s /\ redirs' = redirs + 1 /\ ends'[sink'] = ends[sink]
          BY <1>2, <2>9 DEF s
        <5> QED BY <4>1, <5>1, <5>2 DEF Given
      <4>5. Given(arg.input, "in", source)'
        BY <1>2, <2>2, <2>3, <2>4, <3>3, <3>5, <4>1 DEF Given, s
      <4> QED BY <1>2, <1>t, <3>2, <4>1, <4>2, <4>4, <4>5 DEF ArgInv, s
    <3>6. CASE s.redirs[redirs + 1] = "out"
      <4>1. arg'.input = arg.input /\ arg'.output = x
        BY <1>2, <1>t, <3>6 DEF MainType, s
      <4>2. x # arg.input
        BY <1>t, <2>1, <2>2, ArgOpen
      <4>3. Given(arg.input, "in", source)
        BY <1>t DEF ArgInv
      <4>4. Given(arg.input, "in", source)'
        BY <1>2, <2>9, <3>4, <3>6, <4>1, <4>3 DEF Given, s
      <4>5. Given(arg.output, "out", sink)'
        BY <1>2, <2>2, <2>3, <2>4, <3>3, <3>6, <4>1 DEF Given, s
      <4> QED BY <1>2, <1>t, <3>2, <4>1, <4>2, <4>4, <4>5 DEF ArgInv, s
    <3> QED BY <3>3, <3>5, <3>6
  <2>16. Link' /\ Fresh'
    <3>1. nextIn' = ends[source] /\ nextIn = ends[source]
      BY <1>2, <1>t, <2>9 DEF nextIn
    <3>2. nextIn # -1 => fd'[Shell][nextIn'] = fd[Shell][nextIn]
      BY <1>t, <2>13, <3>1, EndsOpen
    <3>3. Link'
      BY <1>2, <1>t, <2>8, <3>1, <3>2 DEF Link, PipeInv, active
    <3>4. Fresh'
      BY <1>2, <2>8 DEF Fresh, PipeInv
    <3> QED BY <3>3, <3>4
  <2> QED BY <2>6, <2>7, <2>8, <2>10, <2>11, <2>12, <2>14, <2>15, <2>16, <2>k, TypeParts
          DEF PipeInv, ShellInv
<1> QED BY <1>1, <1>2 DEF Redirect

(* Back at the prompt, with no end of a pipe but what Ctrl-C has left.     *)
LEMMA PromptReached ==
  ASSUME PipeInv, Prompt, FdType', ChildType', CtrlType', (\A p \in Procs : ChildInv(p))', Pairs',
         npipes' \in Nat, nprocs' \in 0 .. NProcs,
         Kept(Shell)', (cloexec[Shell] \subseteq 3 .. MaxFd)',
         \A f \in 0 .. 3 : fd'[Shell][f] = Tty,
         (\A f \in Fds : isPipe(fd[Shell][f]) => fd[Shell][f].id <= npipes)',
         \A f \in Fds : isPipe(fd'[Shell][f]) => fd'[Shell][f].id \in lost'
  PROVE  PipeInv'
<1>1. /\ pc' = "prompt" /\ line' = << >> /\ bg' = FALSE /\ stage' = 0 /\ redirs' = 0
      /\ ends' = [v \in Locals |-> -1] /\ arg' = NoArg
  BY DEF Prompt
<1>2. \A v \in Locals : ends'[v] = -1
  BY <1>1
<1>3. MainType'
  <2>1. line' \in Seq(Stages) /\ Len(line') = 0
    BY <1>1
  <2>2. stage' \in 0 .. Len(line')
    BY <1>1, <2>1
  <2>3. ends' \in [Locals -> FdOrNone] /\ arg' \in [input : FdOrNone, output : FdOrNone]
    BY <1>1 DEF FdOrNone, NoArg
  <2> QED BY <1>1, <2>1, <2>2, <2>3 DEF MainType
<1>4. ~active' /\ pc' \notin {"stage", "do_redir", "fork", "close"}
  BY <1>1 DEF active
<1>5. LineInv'
  BY <1>1, <1>4 DEF LineInv
<1>6. ShellFiles'
  BY <1>2 DEF ShellFiles
<1>7. EndsInv' /\ ArgInv'
  BY <1>2, <1>4 DEF EndsInv, ArgInv
<1>8. Link' /\ Fresh'
  BY <1>4 DEF Link, Fresh
<1>9. ShellInv'
  BY <1>5, <1>6, <1>7 DEF ShellInv, isPipe
<1> QED BY <1>3, <1>8, <1>9, TypeParts DEF PipeInv

(* A single command that has no stage after it has no pipe of its own.     *)
LEMMA NoEnds ==
  ASSUME PipeInv, active, stage = 1, stage = Len(line)
  PROVE  \A f \in Fds : isPipe(fd[Shell][f]) => fd[Shell][f].id \in lost
<1>1. ends[source] = -1 /\ ends[sink] = -1 /\ ends[spare] = -1 /\ ends[idle] = -1
  <2>1. ~(1 > 1) /\ ~(1 < 1)
    OBVIOUS
  <2>2. ~(stage > 1) /\ ~(stage < Len(line))
    BY <2>1, Zenon
  <2> QED BY <2>2, EndsOpen
<1>2. \A v \in Locals : ends[v] = -1
  BY <1>1, FourLocals
<1>3. ShellFiles
  BY EndsOpen DEF PipeInv, ShellInv
<1>4. \A f \in Fds : f # -1
  BY MaxFdAssumption DEF Fds
<1> QED BY <1>2, <1>3, <1>4 DEF ShellFiles

(* The redirections of a stage are done.                                   *)
LEMMA RedirectedStep ==
  ASSUME PipeInv, Redirected
  PROVE  PipeInv'
<1>t. /\ FdType /\ MainType /\ ChildType /\ ShellInv /\ Pairs /\ Link /\ Fresh
      /\ active /\ alive /\ pc = "do_redir" /\ redirs = Len(line[stage].redirs)
  BY TypeParts DEF PipeInv, Redirected, active, alive
<1>i. LineInv /\ ShellFiles /\ EndsInv /\ ArgInv
  BY <1>t DEF ShellInv
<1>1. CASE line[stage].command = "none"
  <2>1. End("aborted") \/ End("died")
    BY <1>1 DEF Redirected
  <2> QED BY <2>1, EndStep
<1>2. CASE Len(line) = 1 /\ Prompt /\ UNCHANGED <<fd, cloexec, npipes, ctrlc, nprocs, child>>
  <2>k. UNCHANGED ctrlc /\ CtrlType' /\ lost' = lost /\ bare' = bare /\ bare \subseteq bare'
    BY <1>2, CtrlKept
  <2>1. stage = 1 /\ stage = Len(line)
    BY <1>2, <1>i, <1>t DEF LineInv
  <2>2. \A f \in Fds : isPipe(fd[Shell][f]) => fd[Shell][f].id \in lost
    BY <1>t, <2>1, NoEnds
  <2>3. ChildType' /\ (\A p \in Procs : ChildInv(p))' /\ Pairs'
    <3>1. npipes' \in Nat /\ npipes <= npipes'
      BY <1>2, <1>t DEF MainType
    <3> QED BY <1>2, <2>k, <3>1, ChildrenKept
  <2>4. FdType' /\ Kept(Shell)' /\ (cloexec[Shell] \subseteq 3 .. MaxFd)'
    BY <1>2, <1>t, <2>k DEF FdType, ShellInv, Kept, Allowed
  <2>5. npipes' \in Nat /\ nprocs' \in 0 .. NProcs /\ \A f \in 0 .. 3 : fd'[Shell][f] = Tty
    BY <1>2, <1>i, <1>t DEF MainType, ShellFiles
  <2>6. \A f \in Fds : isPipe(fd'[Shell][f]) => fd'[Shell][f].id \in lost'
    BY <1>2, <2>2, <2>k
  <2>7. (\A f \in Fds : isPipe(fd[Shell][f]) => fd[Shell][f].id <= npipes)'
    BY <1>2, <1>t DEF ShellInv
  <2> QED BY <1>2, <2>3, <2>4, <2>5, <2>6, <2>7, <2>k, PromptReached
<1>3. CASE /\ pc' = "fork" /\ UNCHANGED <<line, bg, stage, ends, arg, redirs>>
           /\ UNCHANGED <<fd, cloexec, npipes, ctrlc, nprocs, child>>
  <2>k. UNCHANGED ctrlc /\ CtrlType' /\ lost' = lost /\ bare' = bare /\ bare \subseteq bare'
    BY <1>3, CtrlKept
  <2>1. /\ ChildType' /\ (\A p \in Procs : ChildInv(p))' /\ Pairs'
        /\ \A p \in Procs :
             live(p)' = live(p) /\ (inFile(p))' = inFile(p) /\ (outFile(p))' = outFile(p)
    <3>1. npipes' \in Nat /\ npipes <= npipes'
      BY <1>3, <1>t DEF MainType
    <3> QED BY <1>3, <2>k, <3>1, ChildrenKept
  <2>2. FdType' /\ MainType'
    BY <1>3, <1>t DEF FdType, MainType
  <2>3. active' /\ alive'
    BY <1>3 DEF active, alive
  <2>4. source' = source /\ sink' = sink /\ spare' = spare /\ idle' = idle
    BY <1>3 DEF source, sink, spare, idle
  <2>5. LineInv'
    BY <1>3, <1>i, <1>t, <2>3 DEF LineInv
  <2>6. ShellFiles'
    BY <1>3, <1>i, <2>k DEF ShellFiles
  <2>7. EndsInv'
    BY <1>3, <1>i, <1>t, <2>4 DEF EndsInv
  <2>8. ArgInv'
    <3>1. Len(line[stage].redirs) \in Nat
      BY <1>t DEF MainType
    <3>2. Given(arg.input, "in", source)' /\ Given(arg.output, "out", sink)'
      BY <1>3, <1>i, <1>t, <2>4 DEF ArgInv, Given
    <3> QED BY <1>3, <1>i, <1>t, <3>1, <3>2 DEF ArgInv
  <2>9. ShellInv'
    BY <1>3, <1>t, <2>5, <2>6, <2>7, <2>8, <2>k DEF ShellInv, Kept, Allowed
  <2>10. Link'
    <3>1. nextIn' = ends[source] /\ nextIn = ends[source]
      BY <1>3, <1>t, <2>4 DEF nextIn
    <3> QED BY <1>3, <1>t, <2>1, <3>1 DEF Link
  <2>11. Fresh'
    BY <1>3, <1>t, <2>1 DEF Fresh
  <2> QED BY <2>1, <2>2, <2>9, <2>10, <2>11, <2>k, TypeParts DEF PipeInv
<1> QED BY <1>1, <1>2, <1>3 DEF Redirected

(* A file is its kind and its number.                                      *)
LEMMA FileParts ==
  ASSUME NEW x \in FileType
  PROVE  x = File(x.kind, x.id)
BY DEF FileType, File

(* The new child's files are those that its stage is to get.               *)
LEMMA ForkedFiles ==
  ASSUME PipeInv, Fork, NEW p, p = nprocs + 1
  PROVE  /\ p \in Procs /\ ~live(p)
         /\ FdType' /\ ChildType' /\ nprocs' = p
         /\ child'[p] = [status |-> "forked", stage |-> line[stage],
                         first |-> stage = 1, last |-> stage = Len(line),
                         input |-> arg.input, output |-> arg.output]
         /\ fd'[p] = fd[Shell] /\ cloexec'[p] = cloexec[Shell]
         /\ \A q \in {Shell} \cup Procs : q # p => fd'[q] = fd[q] /\ cloexec'[q] = cloexec[q]
         /\ \A q \in Procs : q # p => child'[q] = child[q]
         /\ FilesOf(p)'
         /\ (inFile(p))'.kind = "read" =>
              stage > 1 /\ (inFile(p))' = fd[Shell][ends[source]]
         /\ (outFile(p))'.kind = "write" =>
              stage < Len(line) /\ (outFile(p))' = File("write", npipes)
<1> DEFINE s   == line[stage]
           in  == lastRedir(s, "in")
           out == lastRedir(s, "out")
<1>t. /\ FdType /\ MainType /\ ChildType /\ active /\ alive /\ pc = "fork" /\ LineInv /\ ArgInv
  BY TypeParts DEF PipeInv, ShellInv, Fork, active, alive
<1>e. /\ stage \in 1 .. Len(line) /\ s \in Stages /\ s \in StageType
  BY <1>t, EndsOpen
<1>1. p \in Procs /\ p # Shell /\ p \in Nat /\ nprocs \in Nat
  <2>1. nprocs \in Nat /\ Len(line) \in Nat /\ stage \in Nat /\ stage <= Len(line)
        /\ nprocs + (Len(line) - stage) < NProcs /\ NProcs \in Nat
    BY <1>e, <1>t, NProcsAssumption DEF MainType, LineInv
  <2> QED BY <2>1 DEF Procs, Shell
<1>2. ~live(p)
  <2>1. ChildInv(p)
    BY <1>1 DEF PipeInv
  <2> QED BY <1>1, <2>1 DEF ChildInv
<1>3. /\ fd' = [fd EXCEPT ![p] = fd[Shell]]
      /\ cloexec' = [cloexec EXCEPT ![p] = cloexec[Shell]]
      /\ child' = [child EXCEPT ![p] =
              [status |-> "forked", stage |-> s, first |-> stage = 1, last |-> stage = Len(line),
               input |-> arg.input, output |-> arg.output]]
      /\ nprocs' = p
  BY DEF Fork
<1> HIDE DEF s
<1>4. /\ child'[p] = [status |-> "forked", stage |-> s, first |-> stage = 1,
                      last |-> stage = Len(line), input |-> arg.input, output |-> arg.output]
      /\ fd'[p] = fd[Shell] /\ cloexec'[p] = cloexec[Shell]
      /\ \A q \in {Shell} \cup Procs : q # p => fd'[q] = fd[q] /\ cloexec'[q] = cloexec[q]
      /\ \A q \in Procs : q # p => child'[q] = child[q]
  BY <1>1, <1>3, <1>t DEF FdType, ChildType
<1>5. FdType'
  <2>1. /\ fd' \in [{Shell} \cup Procs -> [Fds -> FileType]]
        /\ cloexec' \in [{Shell} \cup Procs -> SUBSET Fds]
    BY <1>1, <1>3, <1>t DEF FdType
  <2>2. \A q \in {Shell} \cup Procs : \A f \in cloexec'[q] : fd'[q][f] # Closed
    BY <1>4, <1>t DEF FdType
  <2> QED BY <2>1, <2>2 DEF FdType
<1>6. ChildType'
  <2>1. arg.input \in FdOrNone /\ arg.output \in FdOrNone
    BY <1>t DEF MainType
  <2> QED BY <1>1, <1>3, <1>e, <1>t, <2>1 DEF ChildType
<1>7. /\ child'[p].status = "forked" /\ child'[p].stage = s /\ child'[p].input = arg.input
      /\ child'[p].output = arg.output /\ child'[p].first = (stage = 1)
      /\ child'[p].last = (stage = Len(line))
  BY <1>4
<1>8. /\ (inFile(p))' = IF arg.input = -1 THEN Tty ELSE fd[Shell][arg.input]
      /\ (outFile(p))' = IF arg.output = -1 THEN Tty ELSE fd[Shell][arg.output]
  BY <1>4, <1>7 DEF inFile, outFile, At
<1>9. lastUpTo(s, "in", redirs) = in /\ lastUpTo(s, "out", redirs) = out
  <2>1. redirs = Len(s.redirs)
    BY <1>t DEF ArgInv, s
  <2> QED BY <1>e, <2>1, LastUpToEnds
<1> HIDE DEF in, out
<1>10. /\ in > 0 => arg.input \in 4 .. MaxFd /\ fd[Shell][arg.input] = File("file", in)
       /\ ~(in > 0) => arg.input = ends[source]
       /\ out > 0 => arg.output \in 4 .. MaxFd /\ fd[Shell][arg.output] = File("file", out)
       /\ ~(out > 0) => arg.output = ends[sink]
  BY <1>9, <1>t, ArgOpen DEF s
<1>11. /\ -1 \notin 4 .. MaxFd /\ Tty.kind = "tty"
       /\ \A k : File("file", k).kind = "file"
       /\ \A k : File("write", k) = File("write", File("write", k).id)
  BY MaxFdAssumption DEF Tty, File
<1>12. /\ (inFile(p))' = IF in > 0 THEN File("file", in)
                         ELSE IF stage > 1 THEN fd[Shell][ends[source]] ELSE Tty
       /\ stage > 1 => fd[Shell][ends[source]].kind = "read"
  BY <1>8, <1>10, <1>11, <1>t, EndsOpen
<1>13. (outFile(p))' = IF out > 0 THEN File("file", out)
                       ELSE IF stage < Len(line) THEN File("write", npipes) ELSE Tty
  BY <1>8, <1>10, <1>11, <1>t, EndsOpen
<1>14. (stage = 1 <=> ~(stage > 1)) /\ (stage = Len(line) <=> ~(stage < Len(line)))
  BY <1>e
<1>15. FilesOf(p)'
  <2>1. stage > 1 => fd[Shell][ends[source]] = File("read", fd[Shell][ends[source]].id)
    <3> SUFFICES ASSUME stage > 1
                 PROVE  fd[Shell][ends[source]] = File("read", fd[Shell][ends[source]].id)
      OBVIOUS
    <3>1. ends[source] \in Fds
      BY <1>t, EndsOpen, MaxFdAssumption DEF Fds
    <3>2. fd[Shell][ends[source]] \in FileType
      BY <1>t, <3>1 DEF FdType
    <3> QED BY <1>12, <3>2, FileParts
  <2>2. (inFile(p))' = IF in > 0 THEN File("file", in)
                       ELSE IF stage = 1 THEN Tty ELSE File("read", (inFile(p))'.id)
    BY <1>12, <1>14, <2>1
  <2>3. (outFile(p))' = IF out > 0 THEN File("file", out)
                        ELSE IF stage = Len(line) THEN Tty ELSE File("write", (outFile(p))'.id)
    BY <1>11, <1>13, <1>14
  <2> QED BY <1>7, <2>2, <2>3 DEF FilesOf, in, out
<1>16. /\ (inFile(p))'.kind = "read" => stage > 1 /\ (inFile(p))' = fd[Shell][ends[source]]
       /\ (outFile(p))'.kind = "write" => stage < Len(line) /\ (outFile(p))' = File("write", npipes)
  BY <1>11, <1>12, <1>13
<1> QED BY <1>1, <1>2, <1>3, <1>4, <1>5, <1>6, <1>15, <1>16 DEF s

(* A stage gets its child: connected to the one before it by the pipe that *)
(* the shell still holds, to the one after it by the newest pipe.          *)
LEMMA ForkStep ==
  ASSUME PipeInv, Fork
  PROVE  PipeInv'
<1> PICK p : p = nprocs + 1
  OBVIOUS
<1>t. /\ FdType /\ MainType /\ ChildType /\ active /\ alive /\ pc = "fork"
      /\ LineInv /\ ShellFiles /\ EndsInv /\ Pairs /\ Link /\ Fresh
  BY TypeParts DEF PipeInv, ShellInv, Fork, active, alive
<1>1. /\ p \in Procs /\ ~live(p)
      /\ FdType' /\ ChildType' /\ nprocs' = p
      /\ child'[p] = [status |-> "forked", stage |-> line[stage],
                      first |-> stage = 1, last |-> stage = Len(line),
                      input |-> arg.input, output |-> arg.output]
      /\ fd'[p] = fd[Shell] /\ cloexec'[p] = cloexec[Shell]
      /\ \A q \in {Shell} \cup Procs : q # p => fd'[q] = fd[q] /\ cloexec'[q] = cloexec[q]
      /\ \A q \in Procs : q # p => child'[q] = child[q]
      /\ FilesOf(p)'
      /\ (inFile(p))'.kind = "read" => stage > 1 /\ (inFile(p))' = fd[Shell][ends[source]]
      /\ (outFile(p))'.kind = "write" =>
           stage < Len(line) /\ (outFile(p))' = File("write", npipes)
  BY ForkedFiles
<1>2. nprocs \in Nat /\ p \in Nat /\ p # Shell /\ npipes' = npipes /\ npipes \in Nat
      /\ p \in 0 .. NProcs
  BY <1>1, <1>t, NProcsAssumption DEF MainType, Procs, Shell, Fork
<1>k. UNCHANGED ctrlc /\ CtrlType' /\ lost' = lost /\ bare' = bare /\ bare \subseteq bare'
  BY CtrlKept DEF Fork
<1>3. fd'[Shell] = fd[Shell] /\ cloexec'[Shell] = cloexec[Shell]
  BY <1>1, <1>2
<1>4. ASSUME NEW q \in Procs, q # p
      PROVE  /\ live(q)' = live(q) /\ (inFile(q))' = inFile(q) /\ (outFile(q))' = outFile(q)
             /\ live(q) => q <= nprocs /\ q # nprocs'
             /\ ChildInv(q)'
             /\ live(q) /\ inFile(q).kind = "read" => inFile(q).id \in 0 .. npipes
             /\ live(q) /\ outFile(q).kind = "write" => outFile(q).id \in 0 .. npipes
  <2>1. fd'[q] = fd[q] /\ cloexec'[q] = cloexec[q] /\ child'[q] = child[q]
    BY <1>1, <1>4
  <2>2. live(q)' = live(q) /\ (inFile(q))' = inFile(q) /\ (outFile(q))' = outFile(q)
    BY <2>1 DEF live, inFile, outFile, At
  <2>3. ChildInv(q)
    BY DEF PipeInv
  <2>4. live(q) => q <= nprocs /\ q <= p
    BY <1>2, <2>3 DEF ChildInv, Procs
  <2>5. FilesOf(q)' = FilesOf(q) /\ Kept(q)' = Kept(q)
    BY <1>k, <2>1, <2>2 DEF FilesOf, Kept, Allowed
  <2>6. ChildInv(q)'
    BY <1>1, <1>2, <1>k, <2>1, <2>2, <2>3, <2>4, <2>5 DEF ChildInv, At, Allowed
  <2>7. /\ live(q) /\ inFile(q).kind = "read" => inFile(q).id \in 0 .. npipes
        /\ live(q) /\ outFile(q).kind = "write" => outFile(q).id \in 0 .. npipes
    BY <2>3 DEF ChildInv
  <2> QED BY <1>1, <1>4, <2>2, <2>4, <2>6, <2>7
<1>5. /\ (inFile(p))'.kind = "read" => (inFile(p))'.id \in 0 .. npipes
      /\ (inFile(p))'.kind = "read" /\ stage < Len(line) => (inFile(p))'.id < npipes
      /\ (outFile(p))'.kind = "write" => (outFile(p))'.id = npipes /\ npipes \in 0 .. npipes
  <2>1. File("write", npipes).id = npipes
    BY DEF File
  <2> QED BY <1>1, <1>2, <1>t, <2>1, EndsOpen
<1>6. ChildInv(p)'
  <2>1. child'[p].status = "forked" /\ child'[p].input = arg.input
        /\ child'[p].output = arg.output
    BY <1>1
  <2>2. fd[Shell][0] = Tty /\ fd[Shell][1] = Tty /\ Kept(Shell) /\ cloexec[Shell] \subseteq 3 .. MaxFd
    BY <1>t DEF ShellFiles, PipeInv, ShellInv
  <2>3. /\ arg.input \in {-1} \cup 4 .. MaxFd /\ arg.output \in {-1} \cup 4 .. MaxFd
        /\ arg.input = arg.output => arg.input = -1
    BY <1>t, ArgOpen
  <2>4. Kept(p)'
    BY <1>1, <1>k, <2>2 DEF Kept, Allowed
  <2>5. p <= nprocs'
    BY <1>1, <1>2
  <2> QED BY <1>1, <1>2, <1>5, <2>1, <2>2, <2>3, <2>4, <2>5 DEF ChildInv, At
<1>7. (\A q \in Procs : ChildInv(q))'
  BY <1>4, <1>6
<1>8. Pairs'
  <2> SUFFICES ASSUME NEW q \in Procs, NEW r \in Procs, live(q)', live(r)',
                      (outFile(q))'.kind = "write", (inFile(r))'.kind = "read"
               PROVE  (inFile(r))'.id = (outFile(q))'.id <=> r = q + 1
    BY DEF Pairs
  <2>1. CASE q # p /\ r # p
    BY <1>4, <1>t, <2>1 DEF Pairs
  <2>2. CASE q = p /\ r = p
    <3>1. (inFile(r))'.id < npipes /\ (outFile(q))'.id = npipes /\ r # q + 1
      BY <1>1, <1>2, <1>5, <2>2
    <3> QED BY <1>2, <1>5, <2>2, <3>1
  <2>3. CASE q = p /\ r # p
    <3>1. (outFile(q))'.id = npipes /\ stage < Len(line)
      BY <1>1, <1>5, <2>3
    <3>2. inFile(r).id < npipes /\ inFile(r).id \in 0 .. npipes
      BY <1>4, <1>t, <2>3, <3>1 DEF Fresh
    <3>3. r # q + 1
      <4>1. r <= nprocs /\ r \in Nat
        BY <1>4, <2>3 DEF Procs
      <4> QED BY <1>2, <2>3, <4>1
    <3> QED BY <1>2, <1>4, <2>3, <3>1, <3>2, <3>3
  <2>4. CASE q # p /\ r = p
    <3>1. stage > 1 /\ (inFile(r))' = fd[Shell][ends[source]]
      BY <1>1, <2>4
    <3>2. nextIn = ends[source] /\ nextIn # -1
      <4>1. -1 \notin 4 .. MaxFd
        OBVIOUS
      <4> QED BY <1>t, <3>1, <4>1, EndsOpen DEF nextIn
    <3>3. outFile(q).id = fd[Shell][nextIn].id <=> q = nprocs
      BY <1>4, <1>t, <2>4, <3>2 DEF Link
    <3>4. r = q + 1 <=> q = nprocs
      BY <1>2, <2>4 DEF Procs
    <3> QED BY <1>4, <2>4, <3>1, <3>2, <3>3, <3>4
  <2> QED BY <2>1, <2>2, <2>3, <2>4
<1>9. Kept(Shell)' /\ (cloexec[Shell] \subseteq 3 .. MaxFd)'
      /\ (\A f \in Fds : isPipe(fd[Shell][f]) => fd[Shell][f].id <= npipes)'
  BY <1>2, <1>3, <1>k DEF PipeInv, ShellInv, Kept, Allowed
<1>10. CASE Len(line) = 1 /\ Prompt
  <2>1. stage = 1 /\ stage = Len(line)
    BY <1>10, <1>t DEF LineInv
  <2>2. \A f \in Fds : isPipe(fd'[Shell][f]) => fd'[Shell][f].id \in lost'
    BY <1>3, <1>k, <1>t, <2>1, NoEnds
  <2>3. \A f \in 0 .. 3 : fd'[Shell][f] = Tty
    BY <1>3, <1>t DEF ShellFiles
  <2> QED BY <1>1, <1>2, <1>7, <1>8, <1>9, <1>10, <1>k, <2>2, <2>3, PromptReached
<1>11. CASE /\ Len(line) # 1 /\ pc' = "close" /\ arg' = NoArg /\ redirs' = 0
            /\ UNCHANGED <<line, bg, stage, ends>>
  <2>1. MainType'
    BY <1>1, <1>2, <1>11, <1>t DEF MainType, NoArg, FdOrNone
  <2>2. source' = source /\ sink' = sink /\ spare' = spare /\ idle' = idle
    BY <1>11 DEF source, sink, spare, idle
  <2>3. LineInv'
    <3>1. Len(line) \in Nat /\ stage \in 1 .. Len(line) /\ stage \in Nat /\ NProcs \in Nat
      BY <1>t, NProcsAssumption DEF LineInv, MainType
    <3>2. nprocs + (Len(line) - stage) < NProcs
      BY <1>t DEF LineInv
    <3>3. nprocs' + (Len(line') - stage') <= NProcs /\ Len(line') > 1 /\ stage' \in 1 .. Len(line')
      <4>1. \A n, s, k, m \in Nat : n # 1 /\ s \in 1 .. n /\ k + (n - s) < m =>
              n > 1 /\ (k + 1) + (n - s) <= m
        OBVIOUS
      <4>2. Len(line) > 1 /\ (nprocs + 1) + (Len(line) - stage) <= NProcs
        BY <1>2, <1>11, <3>1, <3>2, <4>1, Zenon
      <4>3. nprocs' = nprocs + 1 /\ line' = line /\ stage' = stage
        BY <1>1, <1>11
      <4> QED BY <3>1, <4>2, <4>3, Zenon
    <3> QED BY <1>11, <3>3 DEF LineInv, active
  <2>4. ShellFiles'
    BY <1>3, <1>11, <1>k, <1>t DEF ShellFiles
  <2>5. EndsInv'
    BY <1>2, <1>3, <1>11, <1>t, <2>2 DEF EndsInv
  <2>6. ArgInv' /\ Fresh'
    BY <1>11 DEF ArgInv, Fresh
  <2>7. Link'
    <3> SUFFICES ASSUME nextIn' # -1, NEW q \in Procs, live(q)', (outFile(q))'.kind = "write"
                 PROVE  (outFile(q))'.id = fd'[Shell][nextIn'].id <=> q = nprocs'
      BY DEF Link
    <3>1. nextIn' = ends[spare]
      BY <1>11, <2>2 DEF nextIn
    <3>2. stage < Len(line) /\ fd'[Shell][nextIn'].id = npipes
      <4>1. File("read", npipes).id = npipes
        BY DEF File
      <4> QED BY <1>3, <1>t, <3>1, <4>1, EndsOpen
    <3>3. CASE q = p
      BY <1>1, <1>5, <3>2, <3>3
    <3>4. CASE q # p
      <4>1. outFile(q).id < npipes /\ outFile(q).id \in 0 .. npipes
        BY <1>4, <1>t, <3>2, <3>4 DEF Fresh
      <4> QED BY <1>2, <1>4, <3>2, <3>4, <4>1
    <3> QED BY <3>3, <3>4
  <2>8. ShellInv'
    BY <1>9, <2>3, <2>4, <2>5, <2>6 DEF ShellInv
  <2> QED BY <1>1, <1>7, <1>8, <1>k, <2>1, <2>6, <2>7, <2>8, TypeParts DEF PipeInv
<1> QED BY <1>10, <1>11 DEF Fork

(* The locals that are closed are those that the stage has used: only what *)
(* the stage did not get is left.                                          *)
LEMMA UsedEnds ==
  ASSUME PipeInv, pc = "close"
  PROVE  /\ used \subseteq {source, sink}
         /\ \A v \in {source, sink} : v \notin used => ends[v] = -1
         /\ spare \notin used
<1>t. /\ LineInv /\ active /\ MainType
  BY TypeParts DEF PipeInv, ShellInv, active
<1>1. Len(line) \in Nat /\ stage \in 1 .. Len(line) /\ Len(line) > 1
  BY <1>t DEF LineInv, MainType
<1>2. CASE stage = 1
  <2>1. used = {"output"} /\ source = "input" /\ sink = "output" /\ spare = "next_input"
    <3>1. stage # Len(line) /\ ~(1 < stage)
      <4>1. \A n \in Nat : n > 1 => 1 # n /\ ~(1 < 1)
        OBVIOUS
      <4> QED BY <1>1, <1>2, <4>1, Zenon
    <3>2. used = {"output"}
      BY <1>2, <3>1 DEF used
    <3>3. source = "input"
      BY <3>1 DEF source
    <3> QED BY <3>2, <3>3 DEF sink, spare
  <2>2. ends[source] = -1
    BY <1>2, <1>t, EndsOpen
  <2> QED BY <2>1, <2>2
<1>3. CASE stage # 1 /\ stage = Len(line)
  <2>1. used = {source}
    BY <1>1, <1>3 DEF used, source
  <2>2. ends[sink] = -1
    BY <1>1, <1>3, <1>t, EndsOpen
  <2> QED BY <2>1, <2>2, FourLocals
<1>4. CASE stage # 1 /\ stage # Len(line)
  <2>1. used = {source, sink}
    BY <1>1, <1>4 DEF used, source, sink
  <2> QED BY <2>1, FourLocals
<1> QED BY <1>2, <1>3, <1>4

(* Close() of some descriptors of the shell, none of them a standard one.  *)
LEMMA CloseFds ==
  ASSUME PipeInv, alive, NEW fds \in SUBSET (4 .. MaxFd),
         fd' = [fd EXCEPT ![Shell] = [f \in Fds |-> IF f \in fds THEN Closed ELSE @[f]]],
         cloexec' = [cloexec EXCEPT ![Shell] = @ \ fds],
         npipes' = npipes, bare' = bare
  PROVE  /\ \A f \in Fds : fd'[Shell][f] = IF f \in fds THEN Closed ELSE fd[Shell][f]
         /\ \A p \in Procs : fd'[p] = fd[p] /\ cloexec'[p] = cloexec[p]
         /\ FdType' /\ Kept(Shell)' /\ (cloexec[Shell] \subseteq 3 .. MaxFd)'
         /\ (\A f \in Fds : isPipe(fd[Shell][f]) => fd[Shell][f].id <= npipes)'
         /\ \A f \in 0 .. 3 : fd'[Shell][f] = Tty
<1>t. FdType /\ ShellFiles
  BY TypeParts DEF PipeInv, ShellInv
<1>4. /\ \A f \in Fds : fd'[Shell][f] = IF f \in fds THEN Closed ELSE fd[Shell][f]
      /\ cloexec'[Shell] = cloexec[Shell] \ fds
      /\ \A p \in Procs : fd'[p] = fd[p] /\ cloexec'[p] = cloexec[p]
  <2>1. Shell \notin Procs
    BY DEF Procs, Shell
  <2>2. fd'[Shell] = [f \in Fds |-> IF f \in fds THEN Closed ELSE fd[Shell][f]]
    BY <1>t DEF FdType
  <2>3. cloexec'[Shell] = cloexec[Shell] \ fds
    BY <1>t DEF FdType
  <2>4. \A p \in Procs : fd'[p] = fd[p] /\ cloexec'[p] = cloexec[p]
    BY <1>t, <2>1 DEF FdType
  <2> QED BY <2>2, <2>3, <2>4
<1>6. FdType'
  <2>1. Closed \in FileType
    BY DEF Closed, File, FileType
  <2>2. fd' \in [{Shell} \cup Procs -> [Fds -> FileType]]
    BY <1>t, <2>1 DEF FdType
  <2>3. cloexec' \in [{Shell} \cup Procs -> SUBSET Fds]
    BY <1>t DEF FdType
  <2>4. \A f \in cloexec'[Shell] : fd'[Shell][f] # Closed
    BY <1>4, <1>t DEF FdType
  <2>5. \A p \in Procs : \A f \in cloexec'[p] : fd'[p][f] # Closed
    BY <1>4, <1>t DEF FdType
  <2> QED BY <2>2, <2>3, <2>4, <2>5 DEF FdType
<1>7. ~isPipe(Closed) /\ Closed.kind = "closed"
  BY DEF isPipe, Closed, File
<1>8. Kept(Shell)' /\ (cloexec[Shell] \subseteq 3 .. MaxFd)'
      /\ (\A f \in Fds : isPipe(fd[Shell][f]) => fd[Shell][f].id <= npipes)'
  <2>1. Kept(Shell) /\ cloexec[Shell] \subseteq 3 .. MaxFd
        /\ \A f \in Fds : isPipe(fd[Shell][f]) => fd[Shell][f].id <= npipes
    BY DEF PipeInv, ShellInv
  <2>2. Kept(Shell)'
    BY <1>4, <1>7, <2>1 DEF Kept, Allowed
  <2>3. \A f \in Fds : isPipe(fd'[Shell][f]) => fd'[Shell][f].id <= npipes'
    BY <1>4, <1>7, <2>1
  <2> QED BY <1>4, <2>1, <2>2, <2>3
<1>9. \A f \in 0 .. 3 : fd'[Shell][f] = Tty
  <2>1. \A f \in 0 .. 3 : f \in Fds /\ f \notin 4 .. MaxFd
    BY MaxFdAssumption DEF Fds
  <2> QED BY <1>4, <1>t, <2>1 DEF ShellFiles
<1> QED BY <1>4, <1>6, <1>8, <1>9

(* After the fork the shell closes what the child got; the read end of the *)
(* newest pipe is left, until the last stage has it.                       *)
LEMMA CloseUsedStep ==
  ASSUME PipeInv, CloseUsed
  PROVE  PipeInv'
<1> DEFINE fds == {ends[v] : v \in used} \ {-1}
<1>t. /\ FdType /\ MainType /\ ChildType /\ active /\ alive /\ pc = "close"
      /\ LineInv /\ ShellFiles /\ EndsInv /\ Link
  BY TypeParts DEF PipeInv, ShellInv, CloseUsed, active, alive
<1>1. /\ fd' = [fd EXCEPT ![Shell] = [f \in Fds |-> IF f \in fds THEN Closed ELSE @[f]]]
      /\ cloexec' = [cloexec EXCEPT ![Shell] = @ \ fds]
      /\ UNCHANGED <<npipes, nprocs, child>>
  BY DEF CloseUsed
<1>k. UNCHANGED ctrlc /\ CtrlType' /\ lost' = lost /\ bare' = bare /\ bare \subseteq bare'
  BY CtrlKept DEF CloseUsed
<1>u. /\ used \subseteq {source, sink}
      /\ \A v \in {source, sink} : v \notin used => ends[v] = -1
      /\ spare \notin used
  BY <1>t, UsedEnds
<1>2. fds \subseteq 4 .. MaxFd /\ \A v \in used : ends[v] # -1 => ends[v] \in fds
  <2>1. source \in Locals /\ sink \in Locals
    BY FourLocals
  <2> QED BY <1>t, <1>u, <2>1 DEF ShellFiles
<1>3. \A f \in fds : \E v \in {source, sink} : ends[v] = f /\ f # -1
  BY <1>u
<1> HIDE DEF fds
<1>4. /\ \A f \in Fds : fd'[Shell][f] = IF f \in fds THEN Closed ELSE fd[Shell][f]
      /\ \A p \in Procs : fd'[p] = fd[p] /\ cloexec'[p] = cloexec[p]
      /\ FdType' /\ Kept(Shell)' /\ (cloexec[Shell] \subseteq 3 .. MaxFd)'
      /\ (\A f \in Fds : isPipe(fd[Shell][f]) => fd[Shell][f].id <= npipes)'
      /\ \A f \in 0 .. 3 : fd'[Shell][f] = Tty
  BY <1>1, <1>2, <1>k, <1>t, CloseFds
<1>5. /\ ChildType' /\ (\A p \in Procs : ChildInv(p))' /\ Pairs'
      /\ \A p \in Procs :
           live(p)' = live(p) /\ (inFile(p))' = inFile(p) /\ (outFile(p))' = outFile(p)
      /\ npipes' \in Nat /\ nprocs' \in 0 .. NProcs
  <2>1. npipes' \in Nat /\ npipes <= npipes' /\ nprocs' \in 0 .. NProcs
    BY <1>1, <1>t DEF MainType
  <2> QED BY <1>1, <1>4, <1>k, <2>1, ChildrenKept
<1>7. ~isPipe(Closed) /\ Closed.kind = "closed"
  BY DEF isPipe, Closed, File
<1>10. ASSUME NEW f \in Fds, isPipe(fd'[Shell][f])
       PROVE  (ends[spare] = f /\ f # -1) \/ fd'[Shell][f].id \in lost'
  <2>1. f \notin fds /\ fd'[Shell][f] = fd[Shell][f]
    BY <1>4, <1>7, <1>10
  <2>2. (\E v \in Locals : ends[v] = f) \/ fd'[Shell][f].id \in lost'
    BY <1>10, <1>k, <1>t, <2>1 DEF ShellFiles
  <2>3. f # -1
    BY MaxFdAssumption DEF Fds
  <2>4. ASSUME NEW v \in Locals, ends[v] = f PROVE v = spare
    <3>1. v \notin {source, sink}
      BY <1>2, <1>u, <2>1, <2>3, <2>4
    <3>2. v # idle
      BY <1>t, <2>3, <2>4, EndsOpen
    <3> QED BY <3>1, <3>2, FourLocals
  <2> QED BY <2>2, <2>3, <2>4
<1>s. stage \in 1 .. Len(line) /\ Len(line) \in Nat /\ stage \in Nat /\ Len(line) > 1
      /\ nprocs \in Nat /\ NProcs \in Nat /\ nprocs + (Len(line) - stage) <= NProcs
  BY <1>t, NProcsAssumption DEF LineInv, MainType
<1>11. CASE /\ moreStages /\ pc' = "stage" /\ stage' = stage + 1
            /\ ends' = [v \in Locals |-> IF v \in used THEN -1 ELSE ends[v]]
            /\ UNCHANGED <<line, bg, arg, redirs>>
  <2>m. stage < Len(line)
    BY <1>11 DEF moreStages
  <2>1. /\ ends[spare] \in 4 .. MaxFd /\ fd[Shell][ends[spare]] = File("read", npipes)
        /\ fd[Shell][ends[sink]] = File("write", npipes)
        /\ ends[idle] = -1
        /\ ends[source] # -1 => /\ fd[Shell][ends[source]].id < npipes
                                /\ fd[Shell][ends[source]].id \in 0 .. npipes
    BY <1>t, <2>m, EndsOpen
  <2>2. File("read", npipes).id = npipes /\ File("read", npipes) # File("write", npipes)
        /\ File("read", npipes).kind = "read" /\ npipes \in Nat
    BY <1>t DEF File, MainType
  <2>3. ends[spare] \notin fds
    BY <1>3, <2>1, <2>2
  <2>4. ends[spare] \in Fds /\ fd'[Shell][ends[spare]] = fd[Shell][ends[spare]]
    <3>1. ends[spare] \in Fds
      BY <2>1, MaxFdAssumption DEF Fds
    <3> QED BY <1>4, <2>3, <3>1
  <2>5. \A v \in Locals : ends'[v] = IF v = spare THEN ends[spare] ELSE -1
    BY <1>11, <1>u, <2>1, FourLocals
  <2>6. reader' = spare
    <3>1. spare \in {"input", "next_input"} /\ "input" \in Locals /\ "next_input" \in Locals
      BY DEF spare, Locals
    <3>2. ends'["next_input"] = IF "next_input" = spare THEN ends[spare] ELSE -1
      BY <2>5, <3>1
    <3>3. ~(-1 > 0) /\ \A k \in 4 .. MaxFd : k > 0
      BY MaxFdAssumption
    <3>4. CASE spare = "next_input"
      BY <2>1, <3>2, <3>3, <3>4 DEF reader
    <3>5. CASE spare = "input"
      BY <3>2, <3>3, <3>5 DEF reader
    <3> QED BY <3>1, <3>4, <3>5
  <2>7. spare \in Locals
    BY FourLocals
  <2>8. ends'[spare] = ends[spare] /\ ends[spare] # -1
    BY <2>1, <2>5, <2>7
  <2>9. LineInv'
    <3>1. \A n, s, k, m \in Nat : s \in 1 .. n /\ s < n /\ k + (n - s) <= m =>
            s + 1 \in 1 .. n /\ k + (n - (s + 1)) < m
      OBVIOUS
    <3>2. stage + 1 \in 1 .. Len(line) /\ nprocs + (Len(line) - (stage + 1)) < NProcs
      BY <1>s, <2>m, <3>1, Zenon
    <3> QED BY <1>1, <1>11, <1>s, <3>2 DEF LineInv, active
  <2>10. MainType'
    <3>1. stage + 1 \in 0 .. Len(line)
      BY <1>s, <2>m
    <3>2. ends' \in [Locals -> FdOrNone]
      BY <1>11, <1>t DEF MainType, FdOrNone
    <3> QED BY <1>1, <1>11, <1>t, <1>5, <3>1, <3>2 DEF MainType
  <2>11. ShellFiles'
    <3>1. \A f \in Fds : isPipe(fd'[Shell][f]) => ends'[spare] = f \/ fd'[Shell][f].id \in lost'
      BY <1>10, <2>8
    <3>2. \A v \in Locals : ends'[v] # -1 => ends'[v] \in 4 .. MaxFd
      BY <2>1, <2>5
    <3> QED BY <1>4, <2>7, <3>1, <3>2 DEF ShellFiles
  <2>12. EndsInv'
    <3>1. ~active' /\ pc' = "stage" /\ stage' # 1
      BY <1>11, <1>s DEF active
    <3>2. fd'[Shell][ends'[spare]].kind = "read"
      BY <2>1, <2>2, <2>4, <2>8
    <3> QED BY <2>5, <2>6, <2>8, <3>1, <3>2 DEF EndsInv
  <2>13. ArgInv' /\ Fresh'
    BY <1>11 DEF ArgInv, Fresh
  <2>14. Link'
    <3>1. nextIn' = ends[spare] /\ nextIn = ends[spare]
      <4>1. nextIn' = ends'[reader']
        BY <1>11 DEF nextIn
      <4>2. nextIn = ends[spare]
        BY <1>t DEF nextIn
      <4> QED BY <2>6, <2>8, <4>1, <4>2
    <3>2. nprocs' = nprocs
      BY <1>1
    <3> QED BY <1>5, <1>t, <2>4, <2>8, <3>1, <3>2 DEF Link
  <2>15. ShellInv'
    BY <1>4, <2>9, <2>11, <2>12, <2>13 DEF ShellInv
  <2> QED BY <1>4, <1>5, <1>k, <2>10, <2>13, <2>14, <2>15, TypeParts DEF PipeInv
<1>12. CASE ~moreStages /\ Prompt
  <2>1. ~(stage < Len(line))
    BY <1>12 DEF moreStages
  <2>2. ends[spare] = -1
    BY <1>t, <2>1, EndsOpen
  <2>3. \A f \in Fds : isPipe(fd'[Shell][f]) => fd'[Shell][f].id \in lost'
    BY <1>10, <2>2
  <2> QED BY <1>4, <1>5, <1>12, <1>k, <2>3, PromptReached
<1> QED BY <1>11, <1>12 DEF CloseUsed

-------------------------------------------------------------------------------
(* Steps of the children. *)

(* A step of one child: the shell and the other children are as before,    *)
(* and while the child lives it is going to read and to write the same.    *)
LEMMA OthersKept ==
  ASSUME PipeInv, NEW p \in Procs, UNCHANGED <<npipes, shellvars>>, FdType', ChildType',
         CtrlType', bare' = bare, lost \subseteq lost',
         \A q \in {Shell} \cup Procs : q # p => fd'[q] = fd[q] /\ cloexec'[q] = cloexec[q],
         \A q \in Procs : q # p => child'[q] = child[q],
         live(p)' => live(p) /\ (inFile(p))' = inFile(p) /\ (outFile(p))' = outFile(p),
         ChildInv(p)'
  PROVE  PipeInv'
<1>t. MainType /\ ShellInv /\ Pairs /\ Link /\ Fresh
  BY TypeParts DEF PipeInv
<1>1. /\ pc' = pc /\ line' = line /\ bg' = bg /\ stage' = stage /\ ends' = ends /\ arg' = arg
      /\ redirs' = redirs /\ nprocs' = nprocs /\ npipes' = npipes
  BY DEF shellvars
<1>2. fd'[Shell] = fd[Shell] /\ cloexec'[Shell] = cloexec[Shell]
  BY DEF Procs, Shell
<1>3. \A q \in Procs :
        live(q)' => live(q) /\ (inFile(q))' = inFile(q) /\ (outFile(q))' = outFile(q)
  <2> SUFFICES ASSUME NEW q \in Procs, q # p
               PROVE  live(q)' = live(q) /\ (inFile(q))' = inFile(q) /\ (outFile(q))' = outFile(q)
    OBVIOUS
  <2>1. fd'[q] = fd[q] /\ child'[q] = child[q]
    OBVIOUS
  <2> QED BY <2>1 DEF live, inFile, outFile, At
<1>4. ASSUME NEW q \in Procs PROVE ChildInv(q)'
  <2>1. CASE q = p
    BY <2>1
  <2>2. CASE q # p
    <3>1. fd'[q] = fd[q] /\ child'[q] = child[q] /\ cloexec'[q] = cloexec[q]
      BY <2>2
    <3>2. live(q)' = live(q) /\ (inFile(q))' = inFile(q) /\ (outFile(q))' = outFile(q)
      BY <3>1 DEF live, inFile, outFile, At
    <3>3. FilesOf(q)' = FilesOf(q) /\ Kept(q)' = Kept(q)
      BY <3>1, <3>2 DEF FilesOf, Kept, Allowed
    <3>4. ChildInv(q)
      BY DEF PipeInv
    <3> QED BY <1>1, <3>1, <3>2, <3>3, <3>4 DEF ChildInv, At, Allowed
  <2> QED BY <2>1, <2>2
<1>5. MainType'
  BY <1>1, <1>t DEF MainType
<1>6. ShellInv'
  <2>1. active' = active /\ alive' = alive /\ source' = source /\ sink' = sink
        /\ spare' = spare /\ idle' = idle /\ reader' = reader
    BY <1>1 DEF active, alive, source, sink, spare, idle, reader
  <2>2. LineInv'
    BY <1>1, <1>t, <2>1 DEF ShellInv, LineInv
  <2>3. Kept(Shell)' /\ (cloexec[Shell] \subseteq 3 .. MaxFd)'
        /\ (\A f \in Fds : isPipe(fd[Shell][f]) => fd[Shell][f].id <= npipes)'
    BY <1>1, <1>2, <1>t DEF ShellInv, Kept, Allowed
  <2>4. alive => ShellFiles'
    BY <1>1, <1>2, <1>t DEF ShellInv, ShellFiles
  <2>5. alive => EndsInv'
    BY <1>1, <1>2, <1>t, <2>1 DEF ShellInv, EndsInv
  <2>6. alive => ArgInv'
    <3> SUFFICES ASSUME alive PROVE ArgInv'
      OBVIOUS
    <3>1. ArgInv
      BY <1>t DEF ShellInv
    <3>2. Given(arg.input, "in", source)' = Given(arg.input, "in", source)
          /\ Given(arg.output, "out", sink)' = Given(arg.output, "out", sink)
      BY <1>1, <1>2, <2>1 DEF Given
    <3> QED BY <1>1, <3>1, <3>2 DEF ArgInv
  <2> QED BY <2>1, <2>2, <2>3, <2>4, <2>5, <2>6 DEF ShellInv
<1>7. Pairs'
  BY <1>3, <1>t DEF Pairs
<1>8. Link' /\ Fresh'
  <2>1. nextIn' = nextIn /\ active' = active
    BY <1>1 DEF nextIn, reader, source, spare, active
  <2>2. Link'
    BY <1>1, <1>2, <1>3, <1>t, <2>1 DEF Link
  <2>3. Fresh'
    BY <1>1, <1>3, <1>t DEF Fresh
  <2> QED BY <2>2, <2>3
<1> QED BY <1>4, <1>5, <1>6, <1>7, <1>8, TypeParts DEF PipeInv

(* Dup2() and Close() of one descriptor.                                   *)
LEMMA Moved ==
  ASSUME NEW m \in [Fds -> FileType], NEW from \in {-1} \cup 4 .. MaxFd, NEW to \in {0, 1}
  PROVE  /\ moved(m, from, to) \in [Fds -> FileType]
         /\ \A f \in Fds : moved(m, from, to)[f] =
              IF from = -1 THEN m[f]
              ELSE IF f = from THEN Closed ELSE IF f = to THEN m[from] ELSE m[f]
<1>1. to \in Fds /\ Closed \in FileType
  BY MaxFdAssumption DEF Fds, Closed, File, FileType
<1>2. CASE from = -1
  BY <1>2 DEF moved
<1>3. CASE from # -1
  <2>1. from \in Fds /\ from # to
    BY <1>3, MaxFdAssumption DEF Fds
  <2>2. moved(m, from, to) = [m EXCEPT ![to] = m[from], ![from] = Closed]
    BY <1>3 DEF moved
  <2>3. m[from] \in FileType
    BY <2>1
  <2> QED BY <1>1, <1>3, <2>1, <2>2, <2>3
<1> QED BY <1>2, <1>3

(* A child moves what it got to its standard descriptors.                  *)
LEMMA ChildRedirectStep ==
  ASSUME PipeInv, NEW p \in Procs, ChildRedirect(p)
  PROVE  PipeInv'
<1> DEFINE in  == child[p].input
           out == child[p].output
<1>t. FdType /\ MainType /\ ChildType /\ ChildInv(p) /\ Shell \notin Procs
  BY TypeParts DEF PipeInv, Procs, Shell
<1>1. /\ child[p].status = "forked"
      /\ fd' = [fd EXCEPT ![p] = moved(moved(fd[p], in, 0), out, 1)]
      /\ cloexec' = [cloexec EXCEPT ![p] = @ \ {in, out}]
      /\ child' = [child EXCEPT ![p].status = "command"]
      /\ UNCHANGED <<npipes, shellvars>>
  BY <1>t DEF ChildRedirect, At, GotoIn, stdout, FdType
<1>k. UNCHANGED ctrlc /\ CtrlType' /\ lost' = lost /\ bare' = bare /\ bare \subseteq bare'
  BY CtrlKept DEF ChildRedirect
<1>2. /\ live(p) /\ p <= nprocs /\ FilesOf(p) /\ cloexec[p] \subseteq 3 .. MaxFd
      /\ fd[p][0] = Tty /\ fd[p][1] = Tty
      /\ in \in {-1} \cup 4 .. MaxFd /\ out \in {-1} \cup 4 .. MaxFd
      /\ in = out => in = -1
      /\ Kept(p)
      /\ inFile(p) = IF in = -1 THEN Tty ELSE fd[p][in]
      /\ outFile(p) = IF out = -1 THEN Tty ELSE fd[p][out]
  BY <1>1, <1>t DEF ChildInv, live, At, inFile, outFile
<1> HIDE DEF in, out
<1>3. /\ \A q \in {Shell} \cup Procs : q # p => fd'[q] = fd[q] /\ cloexec'[q] = cloexec[q]
      /\ \A q \in Procs : q # p => child'[q] = child[q]
      /\ fd'[p] = moved(moved(fd[p], in, 0), out, 1)
      /\ cloexec'[p] = cloexec[p] \ {in, out}
      /\ child'[p] = [child[p] EXCEPT !.status = "command"]
  BY <1>1, <1>t DEF FdType, ChildType
<1>4. /\ 0 \in Fds /\ 1 \in Fds /\ fd[p] \in [Fds -> FileType] /\ Closed \in FileType
      /\ \A f \in 4 .. MaxFd : f \in Fds /\ f > 2 /\ f # 0 /\ f # 1
      /\ -1 \notin 4 .. MaxFd
  BY <1>t, MaxFdAssumption DEF FdType, Fds, Closed, File, FileType
<1>5. /\ fd'[p] \in [Fds -> FileType]
      /\ \A f \in Fds : fd'[p][f] =
           IF f = 0 THEN inFile(p) ELSE IF f = 1 THEN outFile(p)
           ELSE IF f \in {in, out} THEN Closed ELSE fd[p][f]
  <2> DEFINE m == moved(fd[p], in, 0)
             n == moved(m, out, 1)
  <2>1. /\ m \in [Fds -> FileType]
        /\ \A f \in Fds : m[f] =
             IF in = -1 THEN fd[p][f]
             ELSE IF f = in THEN Closed ELSE IF f = 0 THEN fd[p][in] ELSE fd[p][f]
    BY <1>2, <1>4, Moved
  <2> HIDE DEF m
  <2>2. /\ n \in [Fds -> FileType]
        /\ \A f \in Fds : n[f] =
             IF out = -1 THEN m[f]
             ELSE IF f = out THEN Closed ELSE IF f = 1 THEN m[out] ELSE m[f]
    BY <1>2, <2>1, Moved
  <2>3. fd'[p] = n
    BY <1>3 DEF m
  <2> HIDE DEF n
  <2>4. in # 0 /\ in # 1 /\ out # 0 /\ out # 1 /\ -1 \notin Fds
    BY <1>2, <1>4, MaxFdAssumption DEF Fds
  <2>5. n[0] = inFile(p)
    BY <1>2, <1>4, <2>1, <2>2, <2>4
  <2>6. out # -1 => m[out] = fd[p][out] /\ out \in Fds
    BY <1>2, <1>4, <2>1, <2>4
  <2>7. n[1] = outFile(p)
    BY <1>2, <1>4, <2>1, <2>2, <2>4, <2>6
  <2>8. ASSUME NEW f \in Fds, f # 0, f # 1
        PROVE  n[f] = IF f \in {in, out} THEN Closed ELSE fd[p][f]
    BY <1>2, <2>1, <2>2, <2>4, <2>8
  <2> QED BY <2>2, <2>3, <2>5, <2>7, <2>8
<1>6. FdType'
  <2>1. fd' \in [{Shell} \cup Procs -> [Fds -> FileType]]
    BY <1>1, <1>3, <1>5, <1>t DEF FdType
  <2>2. cloexec' \in [{Shell} \cup Procs -> SUBSET Fds]
    BY <1>1, <1>t DEF FdType
  <2>3. \A f \in cloexec'[p] : fd'[p][f] # Closed
    <3> SUFFICES ASSUME NEW f \in cloexec'[p] PROVE fd'[p][f] # Closed
      OBVIOUS
    <3>1. f \in cloexec[p] /\ f \notin {in, out} /\ f \in Fds /\ fd[p][f] # Closed
      BY <1>3, <1>t DEF FdType
    <3>2. f # 0 /\ f # 1
      BY <1>2, <3>1
    <3> QED BY <1>5, <3>1, <3>2
  <2>4. \A q \in {Shell} \cup Procs : q # p => \A f \in cloexec'[q] : fd'[q][f] # Closed
    BY <1>3, <1>t DEF FdType
  <2> QED BY <2>1, <2>2, <2>3, <2>4 DEF FdType
<1>7. /\ child'[p].status = "command" /\ child'[p].stage = child[p].stage
      /\ child'[p].first = child[p].first /\ child'[p].last = child[p].last
      /\ ChildType'
  BY <1>1, <1>3, <1>t DEF ChildType
<1>8. live(p)' /\ (inFile(p))' = inFile(p) /\ (outFile(p))' = outFile(p)
  BY <1>4, <1>5, <1>7 DEF live, inFile, outFile, At
<1>9. FilesOf(p)'
  BY <1>2, <1>7, <1>8 DEF FilesOf
<1>10. Kept(p)'
  <2> SUFFICES ASSUME NEW f \in Fds, f > 2
               PROVE  Allowed(p, f)' \/ f \in cloexec'[p]
    BY DEF Kept
  <2>1. f # 0 /\ f # 1
    OBVIOUS
  <2>2. CASE f \in {in, out}
    BY <1>5, <2>1, <2>2 DEF Closed, File, Allowed
  <2>3. CASE f \notin {in, out}
    BY <1>2, <1>3, <1>5, <1>k, <2>1, <2>3 DEF Kept, Allowed
  <2> QED BY <2>2, <2>3
<1>11. ChildInv(p)'
  <2>1. cloexec'[p] \subseteq 3 .. MaxFd /\ p <= nprocs' /\ npipes' = npipes
    BY <1>1, <1>2, <1>3 DEF shellvars
  <2> QED BY <1>2, <1>7, <1>8, <1>9, <1>10, <1>t, <2>1 DEF ChildInv, At
<1> QED BY <1>1, <1>2, <1>3, <1>6, <1>7, <1>8, <1>11, <1>k, OthersKept

(* A child comes to its command: a builtin goes on as it is, execve()      *)
(* closes what no program is to have.                                      *)
LEMMA ChildCommandStep ==
  ASSUME PipeInv, NEW p \in Procs, ChildCommand(p)
  PROVE  PipeInv'
<1>t. FdType /\ MainType /\ ChildType /\ ChildInv(p) /\ Shell \notin Procs
  BY TypeParts DEF PipeInv, Procs, Shell
<1>1. child[p].status = "command" /\ npipes' = npipes /\ UNCHANGED shellvars /\ nprocs' = nprocs
  BY DEF ChildCommand, At, shellvars
<1>k. UNCHANGED ctrlc /\ CtrlType' /\ lost' = lost /\ bare' = bare /\ bare \subseteq bare'
  BY CtrlKept DEF ChildCommand
<1>2. live(p) /\ p <= nprocs /\ FilesOf(p) /\ cloexec[p] \subseteq 3 .. MaxFd /\ Kept(p)
      /\ inFile(p) = fd[p][0] /\ outFile(p) = fd[p][1]
  BY <1>1, <1>t DEF ChildInv, live, At, inFile, outFile
<1>3. ASSUME NEW status \in {"builtin", "program"}, child' = [child EXCEPT ![p].status = status]
      PROVE  /\ child'[p].status = status /\ child'[p].stage = child[p].stage
             /\ child'[p].first = child[p].first /\ child'[p].last = child[p].last
             /\ \A q \in Procs : q # p => child'[q] = child[q]
             /\ ChildType'
  <2>1. child'[p] = [child[p] EXCEPT !.status = status]
        /\ \A q \in Procs : q # p => child'[q] = child[q]
    BY <1>3, <1>t DEF ChildType
  <2>2. ChildType'
    BY <1>3, <1>t DEF ChildType
  <2> QED BY <1>t, <2>1, <2>2 DEF ChildType
<1>4. ASSUME NEW status \in {"builtin", "program"}, child' = [child EXCEPT ![p].status = status],
             fd'[p][0] = fd[p][0], fd'[p][1] = fd[p][1]
      PROVE  live(p)' /\ (inFile(p))' = inFile(p) /\ (outFile(p))' = outFile(p) /\ FilesOf(p)'
  <2>1. live(p)' /\ (inFile(p))' = inFile(p) /\ (outFile(p))' = outFile(p)
    BY <1>2, <1>3, <1>4 DEF live, inFile, outFile, At
  <2> QED BY <1>2, <1>3, <1>4, <2>1 DEF FilesOf
<1>5. CASE GotoIn(p, "builtin") /\ UNCHANGED <<fd, cloexec>>
  <2>1. child' = [child EXCEPT ![p].status = "builtin"]
    BY <1>5 DEF GotoIn
  <2>2. /\ child'[p].status = "builtin" /\ (\A q \in Procs : q # p => child'[q] = child[q])
        /\ ChildType'
    BY <1>3, <2>1
  <2>3. live(p)' /\ (inFile(p))' = inFile(p) /\ (outFile(p))' = outFile(p) /\ FilesOf(p)'
    BY <1>4, <1>5, <2>1
  <2>4. FdType'
    BY <1>5, <1>t DEF FdType
  <2>5. ChildInv(p)'
    BY <1>1, <1>2, <1>5, <1>t, <2>2, <2>3 DEF ChildInv, At
  <2> QED BY <1>1, <1>2, <1>5, <1>k, <2>2, <2>3, <2>4, <2>5, OthersKept
<1>6. CASE /\ GotoIn(p, "program")
           /\ fd' = [fd EXCEPT ![p] = [f \in Fds |-> IF f \in cloexec[p] THEN Closed ELSE @[f]]]
           /\ cloexec' = [cloexec EXCEPT ![p] = {}]
  <2>1. child' = [child EXCEPT ![p].status = "program"]
    BY <1>6 DEF GotoIn
  <2>2. /\ child'[p].status = "program" /\ (\A q \in Procs : q # p => child'[q] = child[q])
        /\ ChildType'
    BY <1>3, <2>1
  <2>3. /\ fd'[p] = [f \in Fds |-> IF f \in cloexec[p] THEN Closed ELSE fd[p][f]]
        /\ cloexec'[p] = {}
        /\ \A q \in {Shell} \cup Procs : q # p => fd'[q] = fd[q] /\ cloexec'[q] = cloexec[q]
    BY <1>6, <1>t DEF FdType
  <2>4. fd'[p][0] = fd[p][0] /\ fd'[p][1] = fd[p][1]
    <3>1. 0 \in Fds /\ 1 \in Fds /\ 0 \notin cloexec[p] /\ 1 \notin cloexec[p]
      BY <1>2, MaxFdAssumption DEF Fds
    <3> QED BY <2>3, <3>1
  <2>5. live(p)' /\ (inFile(p))' = inFile(p) /\ (outFile(p))' = outFile(p) /\ FilesOf(p)'
    BY <1>4, <2>1, <2>4
  <2>6. FdType'
    <3>1. Closed \in FileType
      BY DEF Closed, File, FileType
    <3>2. fd' \in [{Shell} \cup Procs -> [Fds -> FileType]]
      BY <1>6, <1>t, <3>1 DEF FdType
    <3>3. cloexec' \in [{Shell} \cup Procs -> SUBSET Fds]
      BY <1>6, <1>t DEF FdType
    <3>4. \A q \in {Shell} \cup Procs : \A f \in cloexec'[q] : fd'[q][f] # Closed
      BY <1>t, <2>3 DEF FdType
    <3> QED BY <3>2, <3>3, <3>4 DEF FdType
  <2>7. \A f \in Fds : f > 2 => Allowed(p, f)'
    <3>1. Closed.kind = "closed"
      BY DEF Closed, File
    <3> QED BY <1>2, <1>k, <2>3, <3>1 DEF Kept, Allowed
  <2>8. ChildInv(p)'
    <3>1. cloexec'[p] \subseteq 3 .. MaxFd
      BY <2>3
    <3> QED BY <1>1, <1>2, <1>t, <2>2, <2>5, <2>7, <3>1 DEF ChildInv, At
  <2> QED BY <1>1, <1>2, <1>k, <2>2, <2>3, <2>5, <2>6, <2>8, OthersKept
<1> QED BY <1>5, <1>6 DEF ChildCommand

(* A command ends.                                                         *)
LEMMA ChildEndStep ==
  ASSUME PipeInv, NEW p \in Procs, ChildEnd(p)
  PROVE  PipeInv'
<1>t. FdType /\ MainType /\ ChildType /\ Shell \notin Procs
  BY TypeParts DEF PipeInv, Procs, Shell
<1>1. /\ child' = [child EXCEPT ![p] = [NoChild EXCEPT !.status = "ended"]]
      /\ fd' = [fd EXCEPT ![p] = [f \in Fds |-> Closed]]
      /\ cloexec' = [cloexec EXCEPT ![p] = {}]
      /\ UNCHANGED <<npipes, shellvars>>
  BY DEF ChildEnd
<1>k. UNCHANGED ctrlc /\ CtrlType' /\ lost' = lost /\ bare' = bare /\ bare \subseteq bare'
  BY CtrlKept DEF ChildEnd
<1>2. /\ child'[p] = [NoChild EXCEPT !.status = "ended"]
      /\ fd'[p] = [f \in Fds |-> Closed] /\ cloexec'[p] = {}
      /\ \A q \in {Shell} \cup Procs : q # p => fd'[q] = fd[q] /\ cloexec'[q] = cloexec[q]
      /\ \A q \in Procs : q # p => child'[q] = child[q]
  BY <1>1, <1>t DEF FdType, ChildType
<1>3. child'[p].status = "ended" /\ ChildType'
  <2>1. [NoChild EXCEPT !.status = "ended"] \in
          [status : {"none", "forked", "command", "builtin", "program", "clone", "ended"},
           stage : Stages \cup {NoStage}, first : BOOLEAN, last : BOOLEAN,
           input : FdOrNone, output : FdOrNone]
    BY DEF NoChild, FdOrNone
  <2> QED BY <1>1, <1>2, <1>t, <2>1 DEF ChildType, NoChild
<1>4. FdType'
  <2>1. Closed \in FileType
    BY DEF Closed, File, FileType
  <2>2. fd' \in [{Shell} \cup Procs -> [Fds -> FileType]]
    BY <1>1, <1>t, <2>1 DEF FdType
  <2>3. cloexec' \in [{Shell} \cup Procs -> SUBSET Fds]
    BY <1>1, <1>t DEF FdType
  <2>4. \A q \in {Shell} \cup Procs : \A f \in cloexec'[q] : fd'[q][f] # Closed
    BY <1>2, <1>t DEF FdType
  <2> QED BY <2>2, <2>3, <2>4 DEF FdType
<1>5. ~live(p)' /\ ChildInv(p)'
  BY <1>3 DEF live, ChildInv, At
<1> QED BY <1>1, <1>2, <1>3, <1>4, <1>5, <1>k, OthersKept

-------------------------------------------------------------------------------
(* Ctrl-C. *)

(* What Ctrl-C leaves is remembered.                                       *)
LEMMA LostGrows ==
  ASSUME PipeInv, NEW files \in [Fds -> FileType], CtrlC,
         lost' = lost \cup pipesOf(files), bare' \in SUBSET Nat
  PROVE  /\ CtrlType' /\ lost \subseteq lost'
         /\ \A f \in Fds : isPipe(files[f]) => files[f].id \in lost'
<1>1. CtrlType
  BY TypeParts DEF PipeInv
<1>2. pipesOf(files) \subseteq Nat
  BY DEF pipesOf, FileType
<1>3. hits' \in 0 .. MaxCtrlC
  BY <1>1, CtrlCAssumption DEF CtrlC, CtrlType
<1>4. \A f \in Fds : isPipe(files[f]) => files[f].id \in pipesOf(files)
  BY DEF pipesOf
<1> QED BY <1>1, <1>2, <1>3, <1>4 DEF CtrlType

(* The shell jumps to the prompt.                                          *)
LEMMA JumpStep ==
  ASSUME PipeInv, Jump, bare \subseteq bare', bare' \in SUBSET Nat,
         FdType', npipes' \in Nat, npipes <= npipes',
         \A p \in Procs : fd'[p] = fd[p] /\ cloexec'[p] = cloexec[p],
         Kept(Shell)', (cloexec[Shell] \subseteq 3 .. MaxFd)',
         \A f \in 0 .. 3 : fd'[Shell][f] = Tty,
         (\A f \in Fds : isPipe(fd[Shell][f]) => fd[Shell][f].id <= npipes)'
  PROVE  PipeInv'
<1>1. Prompt /\ CtrlC /\ lost' = lost \cup pipesOf(fd'[Shell]) /\ UNCHANGED <<child, nprocs>>
  BY DEF Jump
<1>2. fd'[Shell] \in [Fds -> FileType]
  BY DEF FdType
<1>3. /\ CtrlType'
      /\ \A f \in Fds : isPipe(fd'[Shell][f]) => fd'[Shell][f].id \in lost'
  BY <1>1, <1>2, LostGrows
<1>4. ChildType' /\ (\A p \in Procs : ChildInv(p))' /\ Pairs'
  BY <1>1, <1>3, ChildrenKept
<1>5. nprocs' \in 0 .. NProcs
  BY <1>1, TypeParts DEF PipeInv, MainType
<1> QED BY <1>1, <1>3, <1>4, <1>5, PromptReached

(* Between two steps, or in mkpipe(), or between two Close().              *)
LEMMA InterruptStep ==
  ASSUME PipeInv, Interrupt
  PROVE  PipeInv'
<1>1. UNCHANGED <<fd, cloexec, npipes, bare>> /\ Jump /\ alive
  BY DEF Interrupt, alive
<1>2. /\ FdType /\ MainType /\ CtrlType /\ ShellFiles
      /\ Kept(Shell) /\ cloexec[Shell] \subseteq 3 .. MaxFd
      /\ \A f \in Fds : isPipe(fd[Shell][f]) => fd[Shell][f].id <= npipes
  BY <1>1, TypeParts DEF PipeInv, ShellInv
<1>3. FdType' /\ npipes' \in Nat /\ npipes <= npipes' /\ bare \subseteq bare' /\ bare' \in SUBSET Nat
  BY <1>1, <1>2 DEF FdType, MainType, CtrlType
<1>4. Kept(Shell)' /\ (cloexec[Shell] \subseteq 3 .. MaxFd)'
  BY <1>1, <1>2 DEF Kept, Allowed
<1>5. \A f \in 0 .. 3 : fd'[Shell][f] = Tty
  BY <1>1, <1>2 DEF ShellFiles
<1>6. \A p \in Procs : fd'[p] = fd[p] /\ cloexec'[p] = cloexec[p]
  BY <1>1
<1>7. (\A f \in Fds : isPipe(fd[Shell][f]) => fd[Shell][f].id <= npipes)'
  BY <1>1, <1>2
<1> QED BY <1>1, <1>3, <1>4, <1>5, <1>6, <1>7, JumpStep

LEMMA InterruptMkpipeStep ==
  ASSUME PipeInv, InterruptMkpipe
  PROVE  PipeInv'
<1>1. alive /\ canPipe /\ Jump /\ bare' = bare \cup {npipes + 1}
  BY DEF InterruptMkpipe, alive
<1>2. PICK marked \in {{}, {readFd}} : Pipe(marked)
  BY DEF InterruptMkpipe
<1>3. marked \in SUBSET {readFd, writeFd} /\ bare \subseteq bare' /\ npipes + 1 \in bare'
  BY <1>1
<1>4. /\ FdType' /\ npipes' = npipes + 1
      /\ \A p \in Procs : fd'[p] = fd[p] /\ cloexec'[p] = cloexec[p]
      /\ Kept(Shell)' /\ (cloexec[Shell] \subseteq 3 .. MaxFd)'
      /\ \A f \in 0 .. 3 : fd'[Shell][f] = Tty
      /\ (\A f \in Fds : isPipe(fd[Shell][f]) => fd[Shell][f].id <= npipes)'
  BY <1>1, <1>2, <1>3, PipeFds
<1>5. npipes' \in Nat /\ npipes <= npipes' /\ bare' \in SUBSET Nat
  BY <1>1, <1>4, TypeParts DEF PipeInv, MainType, CtrlType
<1> QED BY <1>1, <1>3, <1>4, <1>5, JumpStep

LEMMA InterruptCloseStep ==
  ASSUME PipeInv, InterruptClose
  PROVE  PipeInv'
<1> DEFINE fds == {ends[v] : v \in used \cap {"input", "next_input"}} \ {-1}
<1>1. /\ alive /\ Jump /\ npipes' = npipes /\ bare' = bare
      /\ fd' = [fd EXCEPT ![Shell] = [f \in Fds |-> IF f \in fds THEN Closed ELSE @[f]]]
      /\ cloexec' = [cloexec EXCEPT ![Shell] = @ \ fds]
  BY DEF InterruptClose, alive
<1>2. fds \in SUBSET (4 .. MaxFd)
  <2>1. ShellFiles
    BY <1>1 DEF PipeInv, ShellInv
  <2> QED BY <2>1 DEF ShellFiles, Locals
<1> HIDE DEF fds
<1>3. /\ FdType' /\ Kept(Shell)' /\ (cloexec[Shell] \subseteq 3 .. MaxFd)'
      /\ \A p \in Procs : fd'[p] = fd[p] /\ cloexec'[p] = cloexec[p]
      /\ \A f \in 0 .. 3 : fd'[Shell][f] = Tty
      /\ (\A f \in Fds : isPipe(fd[Shell][f]) => fd[Shell][f].id <= npipes)'
  BY <1>1, <1>2, CloseFds
<1>4. npipes' \in Nat /\ npipes <= npipes' /\ bare \subseteq bare' /\ bare' \in SUBSET Nat
  BY <1>1, TypeParts DEF PipeInv, MainType, CtrlType
<1> QED BY <1>1, <1>3, <1>4, JumpStep

(* A child jumps.                                                          *)
LEMMA InterruptChildStep ==
  ASSUME PipeInv, NEW p \in Procs, InterruptChild(p)
  PROVE  PipeInv'
<1>t. FdType /\ ChildType
  BY TypeParts DEF PipeInv
<1>1. /\ CtrlC /\ child' = [child EXCEPT ![p].status = "clone"]
      /\ lost' = lost \cup pipesOf(fd[p]) /\ UNCHANGED <<fd, cloexec, npipes, bare, shellvars>>
  BY DEF InterruptChild, GotoIn
<1>2. fd[p] \in [Fds -> FileType] /\ bare' \in SUBSET Nat
  BY <1>1, <1>t, TypeParts DEF PipeInv, FdType, CtrlType, Procs
<1>3. CtrlType' /\ lost \subseteq lost'
  BY <1>1, <1>2, LostGrows
<1>4. /\ child'[p].status = "clone" /\ ChildType'
      /\ \A q \in Procs : q # p => child'[q] = child[q]
  BY <1>1, <1>t DEF ChildType
<1>5. FdType'
  BY <1>1, <1>t DEF FdType
<1>6. ~live(p)' /\ ChildInv(p)'
  BY <1>4 DEF live, ChildInv, At
<1> QED BY <1>1, <1>3, <1>4, <1>5, <1>6, OthersKept

-------------------------------------------------------------------------------
(* The invariant. *)

(* It holds at first.                                                      *)
LEMMA PipeInit ==
  Init => PipeInv
<1> SUFFICES ASSUME Init PROVE PipeInv
  OBVIOUS
<1>1. /\ fd = [p \in {Shell} \cup Procs |->
                 [f \in Fds |-> IF p = Shell /\ f <= 3 THEN Tty ELSE Closed]]
      /\ cloexec = [p \in {Shell} \cup Procs |-> IF p = Shell THEN {3} ELSE {}]
      /\ npipes = 0 /\ pc = "prompt" /\ line = << >> /\ bg = FALSE /\ stage = 0
      /\ ends = [v \in Locals |-> -1] /\ arg = NoArg /\ redirs = 0 /\ nprocs = 0
      /\ child = [p \in Procs |-> NoChild]
      /\ hits = 0 /\ lost = {} /\ bare = {}
  BY DEF Init
<1>2. /\ Tty \in FileType /\ Closed \in FileType /\ Tty # Closed
      /\ Tty.kind = "tty" /\ Closed.kind = "closed" /\ ~isPipe(Tty) /\ ~isPipe(Closed)
  BY DEF Tty, Closed, File, FileType, isPipe
<1>3. 3 \in Fds /\ \A f \in Fds : f > 2 /\ f <= 3 => f = 3
  BY MaxFdAssumption DEF Fds
<1>4. Shell \notin Procs
  BY DEF Shell, Procs
<1>5. FdType
  <2>1. fd \in [{Shell} \cup Procs -> [Fds -> FileType]]
    BY <1>1, <1>2
  <2>2. cloexec \in [{Shell} \cup Procs -> SUBSET Fds]
    BY <1>1, <1>3
  <2>3. cloexec[Shell] = {3} /\ fd[Shell][3] = Tty /\ \A p \in Procs : cloexec[p] = {}
    BY <1>1, <1>3, <1>4
  <2>4. \A p \in {Shell} \cup Procs : \A f \in cloexec[p] : fd[p][f] # Closed
    BY <1>2, <2>3
  <2> QED BY <2>1, <2>2, <2>4 DEF FdType
<1>6. MainType
  <2>1. line \in Seq(Stages) /\ Len(line) = 0
    BY <1>1
  <2>2. stage \in 0 .. Len(line) /\ nprocs \in 0 .. NProcs /\ npipes \in Nat /\ redirs \in Nat
    BY <1>1, <2>1, NProcsAssumption
  <2>3. ends \in [Locals -> FdOrNone] /\ arg \in [input : FdOrNone, output : FdOrNone]
    BY <1>1 DEF FdOrNone, NoArg
  <2> QED BY <1>1, <2>1, <2>2, <2>3 DEF MainType
<1>7. ChildType
  <2>1. NoChild \in [status : {"none", "forked", "command", "builtin", "program", "clone", "ended"},
                     stage : Stages \cup {NoStage}, first : BOOLEAN, last : BOOLEAN,
                     input : FdOrNone, output : FdOrNone]
    BY DEF NoChild, FdOrNone
  <2> QED BY <1>1, <2>1 DEF ChildType
<1>8. \A p \in Procs : child[p].status = "none"
  BY <1>1 DEF NoChild
<1>9. (\A p \in Procs : ~live(p)) /\ (\A p \in Procs : ChildInv(p)) /\ Pairs
  BY <1>8 DEF live, ChildInv, At, Pairs
<1>10. ~active
  BY <1>1 DEF active
<1>11. \A f \in Fds : fd[Shell][f] = IF f <= 3 THEN Tty ELSE Closed
  BY <1>1
<1>12. ShellInv
  <2>1. LineInv
    BY <1>1, <1>10 DEF LineInv
  <2>2. Kept(Shell) /\ cloexec[Shell] \subseteq 3 .. MaxFd
    <3>1. cloexec[Shell] = {3} /\ 3 \in 3 .. MaxFd
      BY <1>1, MaxFdAssumption
    <3> QED BY <1>2, <1>3, <1>11, <3>1 DEF Kept, Allowed
  <2>3. \A f \in Fds : ~isPipe(fd[Shell][f])
    BY <1>2, <1>11
  <2>4. ShellFiles
    <3>1. \A f \in 0 .. 3 : f \in Fds /\ f <= 3
      BY MaxFdAssumption DEF Fds
    <3>2. \A v \in Locals : ends[v] = -1
      BY <1>1
    <3> QED BY <1>11, <2>3, <3>1, <3>2 DEF ShellFiles
  <2>5. EndsInv /\ ArgInv
    BY <1>1, <1>10 DEF EndsInv, ArgInv
  <2> QED BY <2>1, <2>2, <2>3, <2>4, <2>5 DEF ShellInv
<1>13. Link /\ Fresh
  BY <1>1, <1>10 DEF Link, Fresh
<1>14. CtrlType
  BY <1>1, CtrlCAssumption DEF CtrlType
<1> QED BY <1>5, <1>6, <1>7, <1>9, <1>12, <1>13, <1>14, TypeParts DEF PipeInv

(* Every step keeps it.                                                    *)
LEMMA PipeStep ==
  PipeInv /\ [Next]_vars => PipeInv'
<1> SUFFICES ASSUME PipeInv, [Next]_vars PROVE PipeInv'
  OBVIOUS
<1>1. ASSUME NEW l \in Lines, NEW inBg \in BOOLEAN, Eval(l, inBg) PROVE PipeInv'
  BY <1>1, EvalStep
<1>2. CASE FirstStage
  BY <1>2, FirstStageStep
<1>3. CASE MiddleStage
  BY <1>3, MiddleStageStep
<1>4. CASE LastStage
  BY <1>4, LastStageStep
<1>5. CASE Redirect
  BY <1>5, RedirectStep
<1>6. CASE Redirected
  BY <1>6, RedirectedStep
<1>7. CASE Fork
  BY <1>7, ForkStep
<1>8. CASE CloseUsed
  BY <1>8, CloseUsedStep
<1>9. ASSUME NEW p \in Procs, ChildRedirect(p) PROVE PipeInv'
  BY <1>9, ChildRedirectStep
<1>10. ASSUME NEW p \in Procs, ChildCommand(p) PROVE PipeInv'
  BY <1>10, ChildCommandStep
<1>11. ASSUME NEW p \in Procs, ChildEnd(p) PROVE PipeInv'
  BY <1>11, ChildEndStep
<1>13. CASE Interrupt
  BY <1>13, InterruptStep
<1>14. CASE InterruptMkpipe
  BY <1>14, InterruptMkpipeStep
<1>15. CASE InterruptClose
  BY <1>15, InterruptCloseStep
<1>16. ASSUME NEW p \in Procs, InterruptChild(p) PROVE PipeInv'
  BY <1>16, InterruptChildStep
<1>12. CASE UNCHANGED vars
  <2>1. PICK p \in Procs : TRUE
    <3>1. 1 \in Procs
      BY NProcsAssumption DEF Procs
    <3> QED BY <3>1
  <2>2. UNCHANGED <<fd, cloexec, npipes, ctrlc, shellvars, child>>
    BY <1>12 DEF vars
  <2>3. FdType' /\ ChildType' /\ nprocs' = nprocs
    BY <2>2, TypeParts DEF PipeInv, FdType, ChildType, shellvars
  <2>4. live(p)' = live(p) /\ (inFile(p))' = inFile(p) /\ (outFile(p))' = outFile(p)
    BY <2>2 DEF live, inFile, outFile, At
  <2>7. CtrlType' /\ lost' = lost /\ bare' = bare
    BY <2>2, CtrlKept
  <2>5. FilesOf(p)' = FilesOf(p) /\ Kept(p)' = Kept(p)
    BY <2>2, <2>4, <2>7 DEF FilesOf, Kept, Allowed
  <2>6. ChildInv(p)'
    <3>1. ChildInv(p)
      BY DEF PipeInv
    <3> QED BY <2>2, <2>3, <2>4, <2>5, <2>7, <3>1 DEF ChildInv, At, Allowed
  <2> QED BY <2>2, <2>3, <2>4, <2>6, <2>7, OthersKept
<1> QED BY <1>1, <1>2, <1>3, <1>4, <1>5, <1>6, <1>7, <1>8, <1>9, <1>10, <1>11, <1>12,
            <1>13, <1>14, <1>15, <1>16
        DEF Next, ShellStep, ChildStart

(* So it always holds.                                                     *)
LEMMA PipeInvariant ==
  Spec => []PipeInv
<1>1. Init => PipeInv
  BY PipeInit
<1>2. PipeInv /\ [Next]_vars => PipeInv'
  BY PipeStep
<1> QED BY <1>1, <1>2, PTL DEF Spec

(* Every descriptor that the shell and its children touch is one of their  *)
(* own table, and FD_CLOEXEC is never left on a closed one, whatever the   *)
(* stages, their redirections and the order the children run in.           *)
THEOREM DescriptorsTyped == Spec => []TypeOK
<1>1. PipeInv => TypeOK
  BY DEF PipeInv
<1> QED BY <1>1, PipeInvariant, PTL

(* Every command that runs reads from its last input redirection, else     *)
(* from the pipe of the stage before it, else from the terminal, and       *)
(* writes accordingly; two commands share a pipe exactly when one is the   *)
(* stage before the other (do_redir(), do_stage() and the two pairs of     *)
(* locals that do_pipeline() uses in turn).                                *)
THEOREM StagesAreConnected == Spec => []StagesConnected
<1>1. PipeInv => StagesConnected
  <2> SUFFICES ASSUME PipeInv PROVE StagesConnected
    OBVIOUS
  <2>1. ASSUME NEW p \in Procs, runs(p)
        PROVE  live(p) /\ inFile(p) = fd[p][0] /\ outFile(p) = fd[p][1]
    BY <2>1 DEF runs, live, inFile, outFile, At
  <2>2. ASSUME NEW p \in Procs, runs(p)
        PROVE  FilesOf(p)
    <3>1. ChildInv(p)
      BY DEF PipeInv
    <3> QED BY <2>1, <2>2, <3>1 DEF ChildInv
  <2>3. ASSUME NEW p \in Procs, NEW q \in Procs, runs(p), runs(q),
               fd[q][0].kind = "read", fd[p][1].kind = "write"
        PROVE  fd[q][0].id = fd[p][1].id <=> q = p + 1
    BY <2>1, <2>3 DEF PipeInv, Pairs
  <2> QED BY <2>1, <2>2, <2>3 DEF StagesConnected, FilesOf
<1> QED BY <1>1, PipeInvariant, PTL

(* A program gets no end of a pipe and no copy of tty_fd beside its        *)
(* standard descriptors: FD_CLOEXEC of mkpipe() and initjobs(), together   *)
(* with the Dup2() and Close() of the child, leave it nothing but files,   *)
(* and pipes whose mkpipe() was broken off by Ctrl-C.                      *)
THEOREM ProgramsGetFilesOnly == Spec => []ProgramDescriptors
<1>1. PipeInv => ProgramDescriptors
  BY DEF PipeInv, ChildInv, ProgramDescriptors, Allowed
<1> QED BY <1>1, PipeInvariant, PTL

(* However many stages a pipeline had, do_pipeline() has closed every end  *)
(* of every pipe when it returns to the prompt; the shell holds there only *)
(* pipes of command lines that Ctrl-C broke off.                           *)
THEOREM PromptHoldsNoPipe == Spec => []NoPipeAtPrompt
<1>1. PipeInv => NoPipeAtPrompt
  <2> SUFFICES ASSUME PipeInv, pc = "prompt", NEW f \in Fds, isPipe(fd[Shell][f])
               PROVE  fd[Shell][f].id \in lost
    BY DEF NoPipeAtPrompt, pipesOf
  <2>1. ShellFiles /\ EndsInv
    BY DEF PipeInv, ShellInv, alive
  <2>2. f # -1
    BY MaxFdAssumption DEF Fds
  <2> QED BY <2>1, <2>2 DEF ShellFiles, EndsInv
<1> QED BY <1>1, PipeInvariant, PTL

===============================================================================
