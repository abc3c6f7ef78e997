--------------------------------- MODULE Prompt ---------------------------------
(***************************************************************************)
(* The prompt (set_line() of shell.c): the working directory, with the     *)
(* name of the home directory replaced by a tilde.  A name is a sequence   *)
(* of characters.                                                          *)
(*                                                                         *)
(* The code copies within one buffer, which leaves the text undefined in   *)
(* common cases: no property is stated of it.  Left out: names that do not *)
(* fit into MAXLINE, text that runs over its end, and HOME not being set.  *)
(***************************************************************************)
EXTENDS Integers, Sequences, SequencesExt

CONSTANTS
  Letters,    (* characters of names, the slash among them                  *)
  Home,       (* the variable HOME                                          *)
  MaxName     (* bound: length of the name of a directory                   *)

ASSUME PromptAssumption == Home \in Seq(Letters) /\ MaxName \in Nat

VARIABLES
  directory,   (* the working directory; "removed" if it is gone            *)
  shown        (* buf, up to the final zero                                 *)

promptVars == <<directory, shown>>

NoDirectory == << >>

Directories ==
  {<<"/">> \o d : d \in UNION {[1 .. i -> Letters] : i \in 0 .. MaxName - 1}}

PromptInit == directory = <<"/">> /\ shown = << >>

(* Between two prompts `cd' or another process changes the directory.      *)
ChangeDirectory(d) == directory' = d /\ UNCHANGED shown

(* strstr(buf, homedir) *)
occurrence(name) ==
  LET at == {i \in 1 .. Len(name) - Len(Home) + 1 : SubSeq(name, i, i + Len(Home) - 1) = Home}
  IN  IF at = {} THEN 0 ELSE CHOOSE i \in at : \A j \in at : i <= j

(* strcpy(buf + 1, pos + strlen(homedir)) with the final zero.  As offsets *)
(* in buf, the copy goes from `source' to 1; the behaviour of strcpy() is   *)
(* undefined if the two places overlap.                                    *)
source(name) == occurrence(name) + Len(Home) - 1
overlap(name) ==
  LET length == Len(name) - source(name) + 1
  IN  IF source(name) < 1 THEN 1 - source(name) < length ELSE source(name) - 1 < length

(* What buf may hold then: the name as it is; the tilde and what stands    *)
(* behind the occurrence (what stands before it is gone, too); or, if the  *)
(* copy overlaps, the tilde and any text.  (With HOME = "/" the copy goes  *)
(* from a place to itself.)                                                *)
abbreviations(name) ==
  LET behind == IF overlap(name) /\ source(name) # 1
                THEN UNION {[1 .. i -> Letters] : i \in 0 .. MaxName}
                ELSE {SubSeq(name, occurrence(name) + Len(Home), Len(name))}
  IN  IF occurrence(name) = 0 THEN {name} ELSE {<<"~">> \o text : text \in behind}

(* set_line() *)
SetLine ==
  /\ \/ directory = NoDirectory /\ shown' = <<"#", " ">>
     \/ /\ directory # NoDirectory
        /\ \E text \in abbreviations(directory) : shown' = text \o <<"$", " ">>
  /\ UNCHANGED directory

PromptNext ==
  \/ \E d \in Directories \cup {NoDirectory} : ChangeDirectory(d)
  \/ SetLine

PromptSpec == PromptInit /\ [][PromptNext]_promptVars

===============================================================================
