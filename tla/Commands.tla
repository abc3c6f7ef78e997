------------------------------- MODULE Commands -------------------------------
(***************************************************************************)
(* How command.c runs one simple command: a builtin, or a program that a   *)
(* child looks for in the directories of PATH, after its arguments that    *)
(* are file name patterns have been expanded.                              *)
(*                                                                         *)
(* Words are told apart by what glob() makes of them, directories by       *)
(* whether the program is in them.                                         *)
(***************************************************************************)
EXTENDS Integers, Sequences, SequencesExt

CONSTANTS
  MaxArgs,    (* bound: arguments of a command                              *)
  MaxDirs,    (* bound: directories in PATH                                 *)
  MaxBeyond   (* bound: colons in the memory behind PATH                    *)

ASSUME CommandsAssumption == {MaxArgs, MaxDirs, MaxBeyond} \subseteq Nat

Words    == {"-o", "name", "pattern", "other"}
Programs == {"prog", "./prog"}
Dirs     == {"has it", "has not", ""}

(* glob() without GLOB_NOCHECK: the files that a word matches.  A plain    *)
(* name matches itself if there is such a file.                            *)
matches(word) ==
  CASE word = "name"    -> <<"name">>
    [] word = "pattern" -> <<"file1", "file2">>
    [] OTHER            -> << >>

VARIABLES
  argv,     (* the command that runs                                        *)
  path,     (* directories of PATH; "none" if it is not set                 *)
  doing,    (* "shell", "search", "exec", "exit"                            *)
  dir,      (* directory that comes next                                    *)
  beyond,   (* directories found behind the end of PATH                     *)
  program,  (* what execve() was given: the place of the program, that is,  *)
            (* which directory of the search it was found in (0 if it is    *)
            (* run as typed), and its arguments                             *)
  cwd       (* working directory                                            *)

cmdVars == <<argv, path, doing, dir, beyond, program, cwd>>

NotRun == [place |-> 0, args |-> << >>]

CommandsType ==
  /\ argv \in Seq(Words \cup Programs \cup {"cd", "kill", "%1"})
  /\ path \in Seq(Dirs) \cup {<<"unset">>}
  /\ doing \in {"shell", "search", "exec", "exit"}
  /\ dir \in 1 .. MaxDirs + 1
  /\ beyond \in 0 .. MaxBeyond
  /\ program.place \in 0 .. MaxDirs + MaxBeyond
  /\ cwd \in {"home", "name", "start"}

CommandsInit ==
  /\ argv = << >> /\ path = << >>
  /\ doing = "shell" /\ dir = 1 /\ beyond = 0
  /\ program = NotRun
  /\ cwd = "start"

-------------------------------------------------------------------------------
(* Builtins. *)

(* do_chdir(): the directory must be the only match; without an argument   *)
(* it is the home directory.                                               *)
chdir(args) ==
  LET found == IF args = << >> THEN <<"home">> ELSE matches(args[1])
  IN  IF Len(found) = 1 /\ found[1] \in {"home", "name"} THEN found[1] ELSE cwd

(* do_kill(): -1, so that the program `kill' runs, unless its argument is  *)
(* a job.                                                                  *)
killsJob(args) == args # << >> /\ args[1] = "%1"

(* builtin_command() of the shell. *)
RunBuiltin(args) ==
  /\ doing = "shell"
  /\ \/ args[1] = "cd" /\ cwd' = chdir(Tail(args))
     \/ args[1] = "kill" /\ killsJob(Tail(args)) /\ UNCHANGED cwd
  /\ UNCHANGED <<argv, path, doing, dir, beyond, program>>

(* builtin_command() returned -1: a child runs external_command().         *)
RunProgram(args, dirs) ==
  /\ doing = "shell"
  /\ args[1] # "cd" /\ ~(args[1] = "kill" /\ killsJob(Tail(args)))
  /\ argv' = args /\ path' = dirs
  /\ doing' = "search" /\ dir' = 1 /\ beyond' = 0
  /\ program' = NotRun
  /\ UNCHANGED cwd

-------------------------------------------------------------------------------
(* expand_wildcard(). *)

isOption(i) == i > 1 /\ argv[i] = "-o"
opt         == Cardinality({i \in DOMAIN argv : isOption(i)})

(* mutant: the matches replace each other *)
globbed_last == matches(argv[Len(argv)])

(* The words behind position opt + 1, each replaced by its matches: the    *)
(* options are taken to stand in front.                                    *)
globbed == FlattenSeq([i \in 1 .. Len(argv) - opt - 1 |-> matches(argv[opt + 1 + i])])

(* The arguments of the program: those of expand_wildcard(), or, if no     *)
(* word matches, those that were typed (external_command).                 *)
arguments ==
  IF Len(argv) - opt > 1 /\ globbed # << >>
  THEN SubSeq(argv, 1, opt + 1) \o globbed
  ELSE argv

-------------------------------------------------------------------------------
(* external_command() in the child.  A name with a slash, or any name if   *)
(* PATH is not set, is run as it was typed, patterns and all.              *)

searches == argv[1] # "./prog" /\ path # <<"unset">>

AsTyped ==
  /\ doing = "search" /\ ~searches
  /\ \/ program' = [place |-> 0, args |-> argv] /\ doing' = "exec"
     \/ doing' = "exit" /\ UNCHANGED program
  /\ UNCHANGED <<argv, path, dir, beyond, cwd>>

(* mutant: the search begins behind the first directory *)
nextDir_skips == dir + 2

(* path += pos + 1 *)
nextDir == dir + 1

(* execve() succeeds where the program is, and does not return.            *)
TryDirectory ==
  /\ doing = "search" /\ searches
  /\ dir <= Len(path) /\ path[dir] # ""
  /\ IF path[dir] = "has it"
     THEN /\ program' = [place |-> dir, args |-> arguments]
          /\ doing' = "exec"
          /\ UNCHANGED dir
     ELSE dir' = nextDir /\ UNCHANGED <<program, doing>>
  /\ UNCHANGED <<argv, path, beyond, cwd>>

(* Behind the last directory the pointer is behind the end of the string,  *)
(* where other strings of the environment lie.  They are searched, too,    *)
(* and what stands behind a colon in one of them may be a directory that   *)
(* has the program.                                                        *)
TryBeyond ==
  /\ doing = "search" /\ searches
  /\ dir > Len(path) /\ path # << >>
  /\ beyond < MaxBeyond
  /\ beyond' = beyond + 1
  /\ \/ /\ program' = [place |-> Len(path) + beyond + 1, args |-> arguments]
        /\ doing' = "exec"
     \/ UNCHANGED <<doing, program>>
  /\ UNCHANGED <<argv, path, dir, cwd>>

(* An empty directory ends the search, or an empty string behind PATH.     *)
NotFound ==
  /\ doing = "search" /\ searches
  /\ dir <= Len(path) => path[dir] = ""
  /\ doing' = "exit"
  /\ UNCHANGED <<argv, path, dir, beyond, program, cwd>>

(* The shell goes on. *)
NextCommand ==
  /\ doing \in {"exec", "exit"}
  /\ doing' = "shell"
  /\ argv' = << >> /\ path' = << >> /\ dir' = 1 /\ beyond' = 0 /\ program' = NotRun
  /\ UNCHANGED cwd

words(k) == UNION {[1 .. i -> Words] : i \in 0 .. k}

CommandsNext ==
  \/ \E c \in {"cd", "kill"}, w \in words(1) \cup {<<"%1">>} : RunBuiltin(<<c>> \o w)
  \/ \E p \in Programs, w \in words(MaxArgs),
        dirs \in (UNION {[1 .. i -> Dirs] : i \in 0 .. MaxDirs}) \cup {<<"unset">>} :
       RunProgram(<<p>> \o w, dirs)
  \/ \E w \in words(1), dirs \in [1 .. 1 -> Dirs] : RunProgram(<<"kill">> \o w, dirs)
  \/ AsTyped \/ TryDirectory \/ TryBeyond \/ NotFound \/ NextCommand

CommandsSpec == CommandsInit /\ [][CommandsNext]_cmdVars

-------------------------------------------------------------------------------
(* The directories of PATH are tried in their order, up to the first empty *)
(* one: the program runs from the first of these that has it.  If none has *)
(* it, and no directory is empty, the search goes on behind PATH, and only *)
(* then a program may run from there (external_command).                   *)
FirstProgramRuns ==
  doing \in {"exec", "exit"} /\ searches =>
    LET front  == {i \in DOMAIN path : \A k \in 1 .. i : path[k] # ""}
        having == {i \in front : path[i] = "has it"}
    IN  IF having # {}
        THEN /\ doing = "exec"
             /\ program.place \in having /\ \A i \in having : program.place <= i
        ELSE doing = "exec" =>
               program.place > Len(path) /\ path # << >> /\ front = DOMAIN path

Outcomes == {"typed", "files", "dropped"}

(* What an argument is for the program. *)
outcome(word, how) ==
  CASE how = "typed" -> <<word>>
    [] how = "files" -> matches(word)
    [] OTHER         -> << >>

(* The program gets the words in the order they were typed, in whatever    *)
(* order options and patterns stand: each as it was typed, or as the files *)
(* it matches, or, if it matches none and another word does, not at all    *)
(* (expand_wildcard drops it).  The files stand for every matching word if *)
(* the options are in front, and then the options stay; a program that is  *)
(* not searched for gets its words as they were typed (external_command).  *)
ArgumentsArrive ==
  doing = "exec" =>
    \E how \in [DOMAIN argv -> Outcomes] :
      LET files == {i \in DOMAIN argv : how[i] = "files"}
      IN  /\ program.args = FlattenSeq([i \in DOMAIN argv |-> outcome(argv[i], how[i])])
          /\ how[1] = "typed"
          /\ \A i \in files : matches(argv[i]) # << >>
          /\ \A i \in DOMAIN argv : how[i] = "dropped" => matches(argv[i]) = << >> /\ files # {}
          /\ ~searches => \A i \in DOMAIN argv : how[i] = "typed"
          /\ searches /\ (\A i \in 2 .. Len(argv) : isOption(i) <=> i <= opt + 1) =>
               \A i \in 2 .. Len(argv) :
                 /\ matches(argv[i]) # << >> => i \in files
                 /\ isOption(i) => how[i] = "typed"

===============================================================================
