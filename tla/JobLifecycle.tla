----------------------------- MODULE JobLifecycle -----------------------------
(***************************************************************************)
(* What the shell promises about jobs, without its table, its handler and  *)
(* its critical sections: a job starts once, runs and stops any number of  *)
(* times, finishes, and is gone only after it has finished.  At most one   *)
(* job is in front, i.e. the shell waits for it; a job that runs stays in  *)
(* front.                                                                  *)
(***************************************************************************)
CONSTANTS
  Jobs,    (* the names of jobs *)
  None     (* no job is in front *)

Phases == {"absent", "RUNNING", "STOPPED", "FINISHED"}

VARIABLES phase, front

LifeInit == phase = [i \in Jobs |-> "absent"] /\ front = None

Start(i, inFront) ==
  /\ phase[i] = "absent"
  /\ phase' = [phase EXCEPT ![i] = "RUNNING"]
  /\ IF inFront THEN front = None /\ front' = i ELSE UNCHANGED front

(* The processes of the job stop, go on or end. *)
Change(i, to) ==
  /\ phase[i] \in {"RUNNING", "STOPPED"} /\ to \in Phases \ {"absent"}
  /\ phase' = [phase EXCEPT ![i] = to]
  /\ UNCHANGED front

Bring(i) ==
  /\ front = None
  /\ phase[i] = "RUNNING"
  /\ front' = i
  /\ UNCHANGED phase

PutAway ==
  /\ front # None
  /\ phase[front] = "STOPPED"
  /\ front' = None
  /\ UNCHANGED phase

(* Jobs that have finished are forgotten, several at a time. *)
Forget(S) ==
  /\ \A i \in S : phase[i] = "FINISHED"
  /\ phase' = [i \in Jobs |-> IF i \in S THEN "absent" ELSE phase[i]]
  /\ front' = IF front \in S THEN None ELSE front

LifeNext ==
  \/ \E i \in Jobs : Bring(i) \/ Start(i, TRUE) \/ Start(i, FALSE)
  \/ \E i \in Jobs, to \in Phases : Change(i, to)
  \/ \E S \in SUBSET Jobs : Forget(S)
  \/ PutAway

LifeSpec == LifeInit /\ [][LifeNext]_<<phase, front>>

===============================================================================
