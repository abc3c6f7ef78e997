------------------------------ MODULE MCComponents ------------------------------
(***************************************************************************)
(* The sequential components beside each other: they share no state, so a  *)
(* behaviour runs one of them and leaves the others where they began.      *)
(***************************************************************************)
EXTENDS Rio, OpenSocket, Lexer, Commands, SafePrint, Prompt,
        RBTree, Splay, Queues, Hash, BitString

VARIABLE part      (* the component that runs                               *)

Parts == {"rio", "sockets", "lexer", "commands", "printing", "prompt",
          "rbtree", "splay", "queues", "hash", "bits"}

MCInit ==
  /\ part \in Parts
  /\ RioInit /\ SocketInit /\ LexerInit /\ CommandsInit /\ PrintInit /\ PromptInit
  /\ RBTreeInit /\ SplayInit /\ QueuesInit /\ HashInit /\ BitInit
  /\ part # "queues" => kind = "SLIST"
  /\ part # "hash"   => order = "little"
  /\ part # "bits"   => nbits = 1

Keeps(p, vars) == IF part = p THEN TRUE ELSE UNCHANGED vars

(* The components that do not run keep their state. *)
OthersIdle ==
  /\ UNCHANGED part
  /\ Keeps("rio", rioVars) /\ Keeps("sockets", netVars) /\ Keeps("lexer", lexVars)
  /\ Keeps("commands", cmdVars) /\ Keeps("printing", printVars) /\ Keeps("prompt", promptVars)
  /\ Keeps("rbtree", rbVars) /\ Keeps("splay", spVars) /\ Keeps("queues", queueVars)
  /\ Keeps("hash", hashVars) /\ Keeps("bits", bitVars)

MCNext ==
  /\ OthersIdle
  /\ \/ (part = "rio" /\ RioNext)
     \/ (part = "sockets" /\ SocketNext)
     \/ (part = "lexer" /\ LexerNext)
     \/ (part = "commands" /\ CommandsNext)
     \/ (part = "printing" /\ PrintNext)
     \/ (part = "prompt" /\ PromptNext)
     \/ (part = "rbtree" /\ RBTreeNext)
     \/ (part = "splay" /\ SplayNext)
     \/ (part = "queues" /\ QueuesNext)
     \/ (part = "hash" /\ HashNext)
     \/ (part = "bits" /\ BitNext)

MCVars == <<part, rioVars, netVars, lexVars, cmdVars, printVars, promptVars,
            rbVars, spVars, queueVars, hashVars, bitVars>>

MCSpec == MCInit /\ [][MCNext]_MCVars

-------------------------------------------------------------------------------
(* Every component's state is of its type.                                 *)
ComponentsType ==
  /\ RioType /\ SocketType /\ LexerType /\ CommandsType
  /\ RBTreeType /\ SplayType /\ QueuesType

MCInts    == {-4, -1, 0, 3}
MCLongs   == {-128, -1, 20, 127}
MCHome    == <<"/", "h">>

===============================================================================
