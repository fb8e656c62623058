-------------------------- MODULE CommandContract --------------------------
(***************************************************************************)
(* What a caller of `execute` may rely on, with no thread, pipe or system  *)
(* call in it.  A command is called, runs, is contained, and its answer is *)
(* returned.  While it runs its process group is `owned`: it may have a    *)
(* member that was not sent SIGKILL.  Only a group that cannot be stopped  *)
(* is abandoned, and then the answer is "Io".                              *)
(***************************************************************************)
CONSTANT Refusals  \* what starting a process may fail with

VARIABLES
  phase,      \* "called", "running", "contained" or "returned"
  owned,      \* a group member is alive and was not signalled
  answer,     \* "none" until the command returned
  cancelled,  \* Control.cancelled
  expired     \* Control.deadline has passed

cvars == <<phase, owned, answer, cancelled, expired>>

Interrupted == cancelled \/ expired

\* An interrupt is named after the flag that is set.
Named(value) ==
  /\ value = "Cancelled" => cancelled
  /\ value = "Deadline" => expired

CInit ==
  /\ phase = "called" /\ ~owned /\ answer = "none"
  /\ ~cancelled /\ ~expired

\* The command is refused; no process was started.
Refuse ==
  /\ phase = "called" /\ phase' = "returned"
  /\ answer' \in Refusals \cup {"Cancelled", "Deadline"} /\ Named(answer')
  /\ UNCHANGED <<owned, cancelled, expired>>

Start ==
  /\ phase = "called" /\ phase' = "running"
  /\ owned' = TRUE
  /\ UNCHANGED <<answer, cancelled, expired>>

\* The group empties, or is signalled.  It never comes back.
GroupEnds ==
  /\ owned /\ owned' = FALSE
  /\ UNCHANGED <<phase, answer, cancelled, expired>>

Contain ==
  /\ phase = "running" /\ phase' = "contained"
  /\ ~owned
  /\ UNCHANGED <<owned, answer, cancelled, expired>>

\* A command that succeeded was not interrupted before it was answered.
Answer ==
  /\ phase = "contained" /\ phase' = "returned"
  /\ answer' \in {"Ok", "Child", "Limit", "Io", "Cancelled", "Deadline"}
  /\ Named(answer')
  /\ answer' = "Ok" => ~Interrupted
  /\ UNCHANGED <<owned, cancelled, expired>>

Abandon ==
  /\ phase = "running" /\ phase' = "returned"
  /\ answer' = "Io"
  /\ UNCHANGED <<owned, cancelled, expired>>

Interrupt ==
  /\ cancelled => cancelled'
  /\ expired => expired'
  /\ UNCHANGED <<phase, owned, answer>>

Conclude == Refuse \/ Contain \/ Answer \/ Abandon

CNext == Conclude \/ Start \/ GroupEnds \/ Interrupt

\* An interrupted command returns: the wait for it is bounded.
CSpec == CInit /\ [][CNext]_cvars /\ WF_cvars(Interrupted /\ Conclude)

\* The safety part alone.
CSafety == CInit /\ [][CNext]_cvars
=============================================================================
