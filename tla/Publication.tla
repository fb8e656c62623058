---------------------------- MODULE Publication ----------------------------
(***************************************************************************)
(* What a caller of `run` may rely on, with no family, stage or command in *)
(* it.  Runs follow one another over one output path.  A run admits its    *)
(* inputs, withdraws the index it finds, produces, publishes, and answers. *)
(* The path may hold a part of an index, but only from the run that        *)
(* withdrew the one before, and only until that run publishes or ends;     *)
(* "Ok" is answered of a published index only.                             *)
(***************************************************************************)
EXTENDS Naturals

CONSTANT Errors  \* what a run may be answered with besides "Ok"

VARIABLES
  phase,        \* "idle", "admitting", "producing" or "published"
  run,          \* how many runs were started
  index,        \* the output path: "absent", "partial" or "complete", and the
                \* run it is of
  answer,       \* of the last run; "none" while it runs and if it was killed
  interrupted   \* the caller asked the run to end

pvars == <<phase, run, index, answer, interrupted>>

Of(form) == [form |-> form, run |-> run]

PInit ==
  /\ phase = "idle" /\ run = 0
  /\ index = Of("absent")
  /\ answer = "none" /\ interrupted = FALSE

Start ==
  /\ phase = "idle" /\ phase' = "admitting"
  /\ run' = run + 1 /\ answer' = "none" /\ interrupted' \in BOOLEAN
  /\ UNCHANGED index

\* A run ends with an answer, or is killed and leaves none.
EndsWith(answers) ==
  phase' = "idle" /\ answer' \in answers /\ UNCHANGED <<run, interrupted>>
Goes(next) == phase' = next /\ UNCHANGED <<run, answer, interrupted>>

\* What is refused leaves the index of an earlier run as it is.
Refuse == phase = "admitting" /\ EndsWith(Errors \cup {"none"}) /\ UNCHANGED index

Withdraw == phase = "admitting" /\ Goes("producing") /\ index' = Of("absent")

Written == {index, Of("partial")}
Produce == phase = "producing" /\ Goes("producing") /\ index' \in Written

\* Only what this run wrote is completed.
Publish ==
  /\ phase = "producing" /\ Goes("published")
  /\ index = Of("partial") /\ index' = Of("complete")

\* An interrupt may come after the index is complete and before the answer.
GiveUp ==
  /\ phase = "producing" /\ EndsWith(Errors \cup {"none"})
  /\ index' \in Written \cup {Of("complete")}

Answer ==
  /\ phase = "published" /\ EndsWith(Errors \cup {"Ok", "none"})
  /\ answer' = "Ok" => ~interrupted
  /\ UNCHANGED index

Interrupt ==
  /\ phase # "idle" /\ ~interrupted /\ interrupted' = TRUE
  /\ UNCHANGED <<phase, run, index, answer>>

Conclude == Refuse \/ GiveUp \/ Answer

PNext == Start \/ Withdraw \/ Produce \/ Publish \/ Conclude \/ Interrupt

PSafety == PInit /\ [][PNext]_pvars

\* A run that was interrupted ends: every wait in it is bounded.
PSpec == PSafety /\ WF_pvars(interrupted /\ Conclude)
=============================================================================
