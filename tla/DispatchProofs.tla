--------------------------- MODULE DispatchProofs ---------------------------
(***************************************************************************)
(* For every set of families, files and solutions, and any number of runs  *)
(* and edits: `run` is a run of Publication and accepts only an index of   *)
(* its own; every variable keeps its type; what the index command is       *)
(* pointed at was finished; and in a .NET workspace every project is       *)
(* indexed once.  RunInv and StateInv are inductive, and so is each of     *)
(* PreparedInv, WalkInv and CoverInv together with StateInv.               *)
(***************************************************************************)
EXTENDS Dispatch, ListProofs, TLAPS

Forms == {"absent", "empty", "malformed", "whole", "complete"}
Places == {"idle", "preflight", "walk", "remove", "stages", "accept", "normalize",
           "last"}

\* A command is in flight only in a stage, and nothing is answered before the
\* end.
PlaceInv ==
  /\ pc \in Places
  /\ cancelled \in BOOLEAN /\ expired \in BOOLEAN
  /\ settings.fault \in {"none", "Config", "Limit", "Input"}
  /\ pc \notin {"idle", "stages"} => active = NoCommand
  /\ pc # "idle" => answer = "none"

\* Once the old index was withdrawn, what is at the output path is this run's,
\* and it is complete when it was normalised and not before.
OutputInv ==
  /\ output = [form |-> output.form, run |-> output.run]
  /\ output.form \in Forms
  /\ pc \in {"stages", "accept", "normalize", "last"} => output.run = runs
  /\ pc \in {"stages", "accept", "normalize"} => output.form # "complete"
  /\ pc = "last" => output.form = "complete"

RunInv == PlaceInv /\ OutputInv /\ OnlyFreshAccepted

(* The initial states satisfy the invariant. *)
LEMMA RunInvInit == ASSUME Init PROVE RunInv
<1>1. PlaceInv
  <2>1. settings = [host |-> FALSE, name |-> "short", fault |-> "none"]
    BY DEF Init
  <2>2. settings.fault = "none"
    BY <2>1
  <2>3. QED
    BY <2>2 DEF Init, PlaceInv, Places
<1>2. output = [form |-> "absent", run |-> runs] /\ pc = "idle" /\ answer = "none"
  BY DEF Init, Produced
<1>3. OutputInv /\ OnlyFreshAccepted
  BY <1>2 DEF OutputInv, OnlyFreshAccepted, Forms
<1>4. QED
  BY <1>1, <1>3 DEF RunInv

(* What a command leaves when it does not succeed: only a producer touches the
   output, and it writes no complete index. *)
LEMMA LeftoverWrites ==
  ASSUME Leftover, output' # output
  PROVE  /\ active # NoCommand
         /\ \E f \in Forms \ {"absent", "complete"} : output' = Produced(f)
<1>1. Tool = "index" /\ output' \in {Produced(f) : f \in {"empty", "malformed", "whole"}}
  BY DEF Leftover
<1>2. active # NoCommand
  BY <1>1 DEF Tool, NoCommand
<1>3. QED
  BY <1>1, <1>2 DEF Forms

(* Every answer of a run is one of Publication's. *)
LEMMA CheckAnswers ==
  ASSUME PlaceInv
  PROVE  /\ Check \in {"Ok", "Cancelled", "Deadline"}
         /\ Check = "Ok" <=> ~Interrupted
BY DEF Check, PlaceInv, Interrupted

(* The steps of the program before a command and after the last one. *)
LEMMA RunInvProgram ==
  ASSUME RunInv,
         \/ Preflight \/ Walk \/ Admit \/ RemoveOutput
         \/ (\E step \in ToSet(Stages) : EnterStage(step))
         \/ StageFails \/ MetadataTooLong \/ Launch
         \/ Accept \/ Normalize \/ LastCheck
  PROVE  RunInv'
<1>. USE DEF RunInv, PlaceInv, OutputInv, OnlyFreshAccepted, Places, Return, Stay,
             fixed, locals, place, control, disk
<1>0. /\ Check \in {"Ok", "Cancelled", "Deadline"}
      /\ Check = "Ok" <=> ~Interrupted
  BY CheckAnswers
<1>1. CASE Preflight
  <2>1. \A value \in Unfit \cup {"Io"} : value # "Ok"
    BY DEF Unfit
  <2>2. /\ output' = output /\ runs' = runs /\ active' = active
        /\ settings' = settings /\ cancelled' = cancelled /\ expired' = expired
        /\ \/ pc' = "walk" /\ answer' = answer
           \/ pc' = "idle" /\ answer' # "Ok"
    BY <1>0, <1>1, <2>1 DEF Preflight, Untouched
  <2>3. QED
    BY <1>1, <2>2 DEF Preflight, Produced
<1>2. CASE Walk
  <2>1. /\ output' = output /\ runs' = runs /\ active' = active
        /\ settings' = settings /\ cancelled' = cancelled /\ expired' = expired
        /\ \/ pc' = pc /\ answer' = answer
           \/ pc' = "idle" /\ answer' # "Ok"
    BY <1>0, <1>2 DEF Walk
  <2>2. QED
    BY <1>2, <2>1 DEF Walk, Produced
<1>3. CASE Admit
  BY <1>0, <1>3 DEF Admit, Produced
<1>4. CASE RemoveOutput
  BY <1>4 DEF RemoveOutput, Removed, Produced, Forms
<1>5. CASE \E step \in ToSet(Stages) : EnterStage(step)
  BY <1>5 DEF EnterStage, AtStage, Produced
<1>6. CASE StageFails
  BY <1>6 DEF StageFails, AtStage, Produced
<1>7. CASE MetadataTooLong
  BY <1>7 DEF MetadataTooLong, AtStage, Produced
<1>8. CASE Launch
  BY <1>0, <1>8 DEF Launch, Produced
<1>9. CASE Accept
  BY <1>0, <1>9 DEF Accept, Acceptable, Produced
<1>10. CASE Normalize
  BY <1>0, <1>10 DEF Normalize, Produced, Forms
<1>11. CASE LastCheck
  BY <1>0, <1>11 DEF LastCheck, Produced
<1>12. QED
  BY <1>1, <1>2, <1>3, <1>4, <1>5, <1>6, <1>7, <1>8, <1>9, <1>10, <1>11
(* The end of a command, whatever it did. *)
LEMMA RunInvCommand ==
  ASSUME RunInv, CommandFails \/ CommandInterrupted \/ CommandSucceeds
  PROVE  RunInv'
<1>. USE DEF RunInv, PlaceInv, OutputInv, OnlyFreshAccepted, Places, Return, Stay,
             fixed, locals, place, control, InFlight
<1>1. CASE CommandFails
  <2>1. \A value \in Failures : value # "Ok"
    BY DEF Failures
  <2>2. /\ pc' = "idle" /\ answer' # "Ok" /\ runs' = runs /\ settings' = settings
        /\ cancelled' = cancelled /\ expired' = expired /\ Leftover
    BY <1>1, <2>1 DEF CommandFails
  <2>3. output' = output \/ \E f \in Forms \ {"absent", "complete"} : output' = Produced(f)
    BY <2>2, LeftoverWrites
  <2>4. QED
    BY <2>2, <2>3 DEF Produced, Forms
<1>2. CASE CommandInterrupted
  <2>1. /\ pc' = "idle" /\ runs' = runs /\ settings' = settings
        /\ cancelled' = cancelled /\ expired' = expired
        /\ Leftover \/ output' = output
        /\ answer' = Check /\ Interrupted
    BY <1>2 DEF CommandInterrupted
  <2>2. answer' # "Ok"
    BY <2>1, CheckAnswers
  <2>3. output' = output \/ \E f \in Forms \ {"absent", "complete"} : output' = Produced(f)
    BY <2>1, LeftoverWrites
  <2>4. QED
    BY <2>1, <2>2, <2>3 DEF Produced, Forms
<1>3. CASE CommandSucceeds
  <2>1. /\ pc' \in {"stages", "accept"} /\ answer' = answer /\ runs' = runs
        /\ settings' = settings /\ cancelled' = cancelled /\ expired' = expired
        /\ active' = NoCommand /\ pc = "stages"
    BY <1>3 DEF CommandSucceeds
  <2>2. output' = output \/ \E f \in Forms \ {"absent", "complete"} : output' = Produced(f)
    BY <1>3 DEF CommandSucceeds, Forms
  <2>3. QED
    BY <2>1, <2>2 DEF Produced, Forms
<1>4. QED
  BY <1>1, <1>2, <1>3

(* Whoever starts, interrupts or kills a run, or edits the workspace. *)
LEMMA RunInvOthers ==
  ASSUME RunInv, Start \/ Interrupt \/ Killed \/ Edit
  PROVE  RunInv'
<1>. USE DEF RunInv, PlaceInv, OutputInv, OnlyFreshAccepted, Places, Stay,
             fixed, disk, locals, place, control
<1>1. CASE Start
  <2>1. settings'.fault \in {"none", "Config", "Limit", "Input"}
    BY <1>1 DEF Start, Settings
  <2>2. QED
    BY <1>1, <2>1 DEF Start, Produced
<1>2. CASE Interrupt
  BY <1>2 DEF Interrupt, Produced
<1>3. CASE Killed
  <2>1. output' = output \/ \E f \in Forms \ {"absent", "complete"} : output' = Produced(f)
    BY <1>3, LeftoverWrites DEF Killed
  <2>2. QED
    BY <1>3, <2>1 DEF Killed, Produced, Forms
<1>4. CASE Edit
  BY <1>4 DEF Edit, Produced
<1>5. QED
  BY <1>1, <1>2, <1>3, <1>4

(* The invariant holds in every state. *)
LEMMA RunInvStep == ASSUME RunInv, [Next]_vars PROVE RunInv'
<1>1. CASE UNCHANGED vars
  BY <1>1 DEF vars, fixed, disk, locals, place, control, RunInv, PlaceInv, OutputInv,
     OnlyFreshAccepted, Produced
<1>2. CASE Step
  BY <1>2, RunInvProgram, RunInvCommand DEF Step
<1>3. QED
  BY <1>1, <1>2, RunInvOthers DEF Next

(* The invariant of control holds in every state of a run. *)
THEOREM Invariance == Spec => []RunInv
BY RunInvInit, RunInvStep, PTL DEF Spec

(* A run that answers Ok left a complete index that it produced itself. *)
THEOREM OnlyFresh == Spec => []OnlyFreshAccepted
<1>1. RunInv => OnlyFreshAccepted
  BY DEF RunInv
<1>2. QED
  BY <1>1, Invariance, PTL
-----------------------------------------------------------------------------
(* The refinement.  Each step of `run` is a step of Publication, or leaves  *)
(* all that Publication sees as it is.                                      *)

Seen == <<Phase, runs, Index, answer, Interrupted>>

(* What Publication sees of the place and the output. *)
LEMMA Mapping ==
  ASSUME RunInv
  PROVE  /\ Phase = "idle" <=> pc = "idle"
         /\ Phase = "admitting" <=> pc \in {"preflight", "walk", "remove"}
         /\ Phase = "producing" <=> pc \in {"stages", "accept", "normalize"}
         /\ Phase = "published" <=> pc = "last"
         /\ output.form \in {"absent", "complete"} => Index = output
         /\ output.form \notin {"absent", "complete"} =>
              Index = [form |-> "partial", run |-> output.run]
<1>1. pc \in Places
  BY DEF RunInv, PlaceInv
<1>2. output = [form |-> output.form, run |-> output.run]
  BY DEF RunInv, OutputInv
<1>3. Index = [output EXCEPT !.form = IF output.form \in {"absent", "complete"}
                                     THEN output.form ELSE "partial"]
  BY DEF Index
<1>4. /\ output.form \in {"absent", "complete"} => Index = output
      /\ output.form \notin {"absent", "complete"} =>
           Index = [form |-> "partial", run |-> output.run]
  BY <1>2, <1>3
<1>5. QED
  BY <1>1, <1>4 DEF Phase, Places

(* Answers are answers of Publication. *)
LEMMA AnswersAreErrors ==
  ASSUME RunInv
  PROVE  /\ Failures \subseteq Errors
         /\ Unfit \cup {"Io"} \subseteq Errors
         /\ Interrupted => Check \in Errors
<1>1. Failures \subseteq Errors
  BY DEF Failures, Errors
<1>2. Unfit \cup {"Io"} \subseteq Errors
  BY DEF Unfit, Errors
<1>3. QED
  BY <1>1, <1>2, CheckAnswers DEF RunInv, Errors

(* While the inputs are admitted, the index is only looked at. *)
LEMMA AdmittingRefines ==
  ASSUME RunInv, RunInv', Preflight \/ Walk \/ Admit
  PROVE  Abstract!Refuse \/ UNCHANGED Seen
<1>1. /\ pc \in {"preflight", "walk"} /\ output' = output /\ runs' = runs
      /\ Interrupted' = Interrupted
      /\ \/ pc' = "idle" /\ answer' \in Errors
         \/ pc' \in {"walk", "remove"} /\ answer' = answer
  <2>. USE AnswersAreErrors DEF Return, Stay, disk, fixed, control, Interrupted
  <2>1. CASE Preflight
    <3>1. settings.fault # "none" => settings.fault \in Errors
      BY DEF RunInv, PlaceInv, Errors
    <3>2. QED
      BY <2>1, <3>1 DEF Preflight, Untouched
  <2>2. CASE Walk
    <3>1. {"Io", "Limit"} \subseteq Errors
      BY DEF Errors
    <3>2. QED
      BY <2>2, <3>1 DEF Walk
  <2>3. CASE Admit
    <3>1. {"Io", "Input"} \subseteq Errors
      BY DEF Errors
    <3>2. QED
      BY <2>3, <3>1 DEF Admit
  <2>4. QED
    BY <2>1, <2>2, <2>3
<1>2. Index' = Index
  BY <1>1 DEF Index
<1>3. Phase = "admitting" /\ (pc' = "idle" => Phase' = "idle")
      /\ (pc' # "idle" => Phase' = "admitting")
  BY <1>1, Mapping DEF Phase
<1>4. QED
  BY <1>1, <1>2, <1>3 DEF Seen, Abstract!Refuse, Abstract!EndsWith
(* The old index is withdrawn, or cannot be removed and stays. *)
LEMMA WithdrawalRefines ==
  ASSUME RunInv, RunInv', RemoveOutput
  PROVE  Abstract!Withdraw \/ Abstract!Refuse
<1>1. /\ pc = "remove" /\ runs' = runs /\ Interrupted' = Interrupted
      /\ \/ pc' = "idle" /\ answer' = "Io" /\ output' = output
         \/ /\ pc' = "stages" /\ answer' = answer
            /\ output' = [form |-> "absent", run |-> runs]
  BY DEF RemoveOutput, Removed, Produced, Return, Stay, fixed, control, Interrupted
<1>2. Phase = "admitting" /\ (pc' = "idle" => Phase' = "idle")
      /\ (pc' = "stages" => Phase' = "producing")
  BY <1>1, Mapping DEF Phase
<1>3. CASE pc' = "idle"
  BY <1>1, <1>2, <1>3 DEF Abstract!Refuse, Abstract!EndsWith, Errors, Index
<1>4. CASE pc' = "stages"
  <2>1. Index' = [form |-> "absent", run |-> runs]
    BY <1>1, <1>4 DEF Index
  <2>2. QED
    BY <1>1, <1>2, <1>4, <2>1 DEF Abstract!Withdraw, Abstract!Goes, Abstract!Of
<1>5. QED
  BY <1>1, <1>3, <1>4

(* What a command may do to the output, seen from above. *)
LEMMA PartsRefine ==
  ASSUME RunInv, RunInv', runs' = runs, pc \in {"stages", "accept", "normalize"},
         output' = output \/ \E f \in Forms \ {"absent", "complete"} : output' = Produced(f)
  PROVE  Index' \in Abstract!Written
<1>1. CASE output' = output
  BY <1>1 DEF Index, Abstract!Written
<1>2. CASE \E f \in Forms \ {"absent", "complete"} : output' = Produced(f)
  <2>1. PICK f \in Forms \ {"absent", "complete"} : output' = Produced(f)
    BY <1>2
  <2>2. Index' = [form |-> "partial", run |-> runs]
    BY <2>1 DEF Index, Produced
  <2>3. QED
    BY <2>2 DEF Abstract!Written, Abstract!Of
<1>3. QED
  BY <1>1, <1>2

(* Between withdrawal and normalisation: a stage, a command or the look at
   what it left. *)
LEMMA ProducingRefines ==
  ASSUME RunInv, RunInv',
         \/ \E step \in ToSet(Stages) : EnterStage(step)
         \/ StageFails \/ MetadataTooLong \/ Launch
         \/ CommandFails \/ CommandInterrupted \/ CommandSucceeds \/ Accept
  PROVE  Abstract!Produce \/ Abstract!GiveUp
<1>. DEFINE Parts ==
       output' = output \/ \E f \in Forms \ {"absent", "complete"} : output' = Produced(f)
<1>1. /\ pc \in {"stages", "accept"} /\ runs' = runs /\ Interrupted' = Interrupted
      /\ Parts
      /\ \/ pc' = "idle" /\ answer' \in Errors
         \/ pc' \in {"stages", "accept", "normalize"} /\ answer' = answer
  <2>. USE AnswersAreErrors, LeftoverWrites DEF Return, Stay, disk, fixed, control,
           Interrupted, InFlight
  <2>1. CASE \E step \in ToSet(Stages) : EnterStage(step)
    BY <2>1 DEF EnterStage, AtStage
  <2>2. CASE StageFails
    BY <2>2 DEF StageFails, AtStage, Errors
  <2>3. CASE MetadataTooLong
    BY <2>3 DEF MetadataTooLong, AtStage, Errors
  <2>4. CASE Launch
    BY <2>4 DEF Launch
  <2>5. CASE CommandFails
    BY <2>5 DEF CommandFails
  <2>6. CASE CommandInterrupted
    BY <2>6 DEF CommandInterrupted
  <2>7. CASE CommandSucceeds
    <3>1. Parts
      BY <2>7 DEF CommandSucceeds, Forms
    <3>2. QED
      BY <2>7, <3>1 DEF CommandSucceeds
  <2>8. CASE Accept
    BY <2>8 DEF Accept, Errors
  <2>9. QED
    BY <2>1, <2>2, <2>3, <2>4, <2>5, <2>6, <2>7, <2>8
<1>2. Index' \in Abstract!Written
  BY <1>1, PartsRefine
<1>3. Phase = "producing" /\ (pc' = "idle" => Phase' = "idle")
      /\ (pc' # "idle" => Phase' = "producing")
  BY <1>1, Mapping DEF Phase
<1>4. CASE pc' = "idle"
  BY <1>1, <1>2, <1>3, <1>4 DEF Abstract!GiveUp, Abstract!EndsWith
<1>5. CASE pc' # "idle"
  BY <1>1, <1>2, <1>3, <1>5 DEF Abstract!Produce, Abstract!Goes
<1>6. QED
  BY <1>4, <1>5

(* Normalisation completes this run's index, or leaves it; a late interrupt
   gives a complete index up. *)
LEMMA NormalizeRefines ==
  ASSUME RunInv, RunInv', Normalize
  PROVE  Abstract!Publish \/ Abstract!GiveUp
<1>1. /\ pc = "normalize" /\ runs' = runs /\ Interrupted' = Interrupted
      /\ output.form # "complete" /\ output.run = runs
  BY DEF Normalize, Stay, fixed, control, Interrupted, RunInv, OutputInv
<1>2. Phase = "producing" /\ (pc' = "idle" => Phase' = "idle")
      /\ (pc' = "last" => Phase' = "published")
  BY <1>1, Mapping DEF Phase
<1>3. CASE output' = output /\ pc' = "idle" /\ answer' \in Errors
  <2>1. Index' \in Abstract!Written
    BY <1>3 DEF Abstract!Written, Index
  <2>2. QED
    BY <1>1, <1>2, <1>3, <2>1 DEF Abstract!GiveUp, Abstract!EndsWith
<1>4. CASE output.form = "whole" /\ output' = [output EXCEPT !.form = "complete"]
  <2>1. Index' = [form |-> "complete", run |-> runs]
    BY <1>1, <1>4 DEF Index, RunInv, OutputInv
  <2>2. Index = [form |-> "partial", run |-> runs]
    BY <1>1, <1>4, Mapping
  <2>3. \/ pc' = "idle" /\ answer' \in Errors
        \/ pc' = "last" /\ answer' = answer
    BY <1>4, AnswersAreErrors DEF Normalize, Return, Errors, RunInv, OutputInv
  <2>4. CASE pc' = "idle"
    BY <1>1, <1>2, <2>1, <2>3, <2>4 DEF Abstract!GiveUp, Abstract!EndsWith, Abstract!Of
  <2>5. CASE pc' = "last"
    BY <1>1, <1>2, <2>1, <2>2, <2>3, <2>5 DEF Abstract!Publish, Abstract!Goes, Abstract!Of
  <2>6. QED
    BY <2>3, <2>4, <2>5
<1>5. QED
  BY <1>1, <1>3, <1>4, AnswersAreErrors DEF Normalize, Return, Errors
(* The answer, and what happens to a run from outside. *)
LEMMA AnswerRefines ==
  ASSUME RunInv, RunInv', LastCheck
  PROVE  Abstract!Answer
<1>1. /\ pc = "last" /\ pc' = "idle" /\ runs' = runs /\ Interrupted' = Interrupted
      /\ answer' = Check /\ output' = output
  BY DEF LastCheck, Return, Stay, disk, fixed, control, Interrupted
<1>2. Phase = "published" /\ Phase' = "idle" /\ Index' = Index
  BY <1>1, Mapping DEF Phase, Index
<1>3. answer' \in Errors \cup {"Ok"} /\ (answer' = "Ok" => ~Interrupted)
  BY <1>1, CheckAnswers DEF Errors, RunInv
<1>4. QED
  BY <1>1, <1>2, <1>3 DEF Abstract!Answer, Abstract!EndsWith

(* A run that is killed refuses, gives up or answers. *)
LEMMA KilledRefines ==
  ASSUME RunInv, RunInv', Killed
  PROVE  Abstract!Refuse \/ Abstract!GiveUp \/ Abstract!Answer
<1>1. /\ pc # "idle" /\ pc' = "idle" /\ runs' = runs /\ Interrupted' = Interrupted
      /\ answer' = "none" /\ Leftover
  BY DEF Killed, Stay, fixed, control, Interrupted, RunInv, PlaceInv
<1>2. Phase' = "idle"
  BY <1>1 DEF Phase
<1>3. CASE pc \in {"preflight", "walk", "remove", "last"}
  <2>1. output' = output
    BY <1>1, <1>3, LeftoverWrites DEF RunInv, PlaceInv
  <2>2. Phase \in {"admitting", "published"} /\ Index' = Index
    BY <1>3, <2>1, Mapping DEF Index
  <2>3. QED
    BY <1>1, <1>2, <2>2 DEF Abstract!Refuse, Abstract!Answer, Abstract!EndsWith
<1>4. CASE pc \in {"stages", "accept", "normalize"}
  <2>1. output' = output \/ \E f \in Forms \ {"absent", "complete"} : output' = Produced(f)
    BY <1>1, LeftoverWrites
  <2>2. Index' \in Abstract!Written /\ Phase = "producing"
    BY <1>1, <1>4, <2>1, PartsRefine, Mapping
  <2>3. QED
    BY <1>1, <1>2, <2>2 DEF Abstract!GiveUp, Abstract!EndsWith
<1>5. QED
  BY <1>1, <1>3, <1>4 DEF RunInv, PlaceInv, Places

(* A step from outside starts or interrupts the run, or is not seen at all. *)
LEMMA OthersRefine ==
  ASSUME RunInv, RunInv', Start \/ Interrupt \/ Edit
  PROVE  Abstract!Start \/ Abstract!Interrupt \/ UNCHANGED Seen
<1>1. CASE Start
  <2>1. Phase = "idle" /\ Phase' = "admitting"
    BY <1>1, Mapping DEF Start, Phase
  <2>2. Index' = Index /\ Interrupted' = FALSE
    BY <1>1 DEF Start, disk, Index, Interrupted
  <2>3. QED
    BY <1>1, <2>1, <2>2 DEF Start, Abstract!Start
<1>2. CASE Interrupt
  <2>1. Phase # "idle" /\ Phase' = Phase /\ Index' = Index /\ runs' = runs /\ answer' = answer
    BY <1>2, Mapping DEF Interrupt, disk, fixed, Phase, Index
  <2>2. Interrupted' = TRUE
    BY <1>2 DEF Interrupt, Interrupted, RunInv, PlaceInv
  <2>3. CASE Interrupted
    <3>1. Interrupted = TRUE
      BY <2>3 DEF Interrupted, RunInv, PlaceInv
    <3>2. QED
      BY <2>1, <2>2, <3>1 DEF Seen
  <2>4. CASE ~Interrupted
    BY <2>1, <2>2, <2>4 DEF Abstract!Interrupt
  <2>5. QED
    BY <2>3, <2>4
<1>3. CASE Edit
  BY <1>3 DEF Edit, Seen, Phase, Index, Interrupted, control
<1>4. QED
  BY <1>1, <1>2, <1>3

(* Every step of the run is a step of the publication, or changes nothing that is
   seen. *)
LEMMA PublicationStep ==
  ASSUME RunInv, RunInv', [Next]_vars
  PROVE  [Abstract!PNext]_(Abstract!pvars)
<1>. USE DEF Abstract!PNext, Abstract!Conclude, Abstract!pvars, Seen
<1>1. CASE UNCHANGED vars
  BY <1>1 DEF vars, fixed, disk, locals, place, control, Phase, Index, Interrupted
<1>2. CASE Preflight \/ Walk \/ Admit
  BY <1>2, AdmittingRefines
<1>3. CASE RemoveOutput
  BY <1>3, WithdrawalRefines
<1>4. CASE \/ \E step \in ToSet(Stages) : EnterStage(step)
           \/ StageFails \/ MetadataTooLong \/ Launch
           \/ CommandFails \/ CommandInterrupted \/ CommandSucceeds \/ Accept
  BY <1>4, ProducingRefines
<1>5. CASE Normalize
  BY <1>5, NormalizeRefines
<1>6. CASE LastCheck
  BY <1>6, AnswerRefines
<1>7. CASE Killed
  BY <1>7, KilledRefines
<1>8. CASE Start \/ Interrupt \/ Edit
  BY <1>8, OthersRefine
<1>9. QED
  BY <1>1, <1>2, <1>3, <1>4, <1>5, <1>6, <1>7, <1>8 DEF Next, Step

(* Every behaviour of `run` is a behaviour of the safety part of Publication. *)
THEOREM ImplementsPublication == Spec => PublishesSafely
<1>1. Init => Abstract!PInit
  <2>. SUFFICES ASSUME Init PROVE Abstract!PInit
    OBVIOUS
  <2>1. /\ pc = "idle" /\ runs = 0 /\ output = [form |-> "absent", run |-> 0]
        /\ answer = "none" /\ cancelled = FALSE /\ expired = FALSE
    BY DEF Init, Produced
  <2>2. Index = [form |-> "absent", run |-> 0] /\ Phase = "idle"
    BY <2>1 DEF Index, Phase
  <2>3. QED
    BY <2>1, <2>2 DEF Abstract!PInit, Abstract!Of, Interrupted
<1>2. QED
  BY <1>1, PublicationStep, Invariance, PTL DEF Spec, PublishesSafely, Abstract!PSafety

-----------------------------------------------------------------------------
(* Types, lists and commands.                                              *)

StageNames == Cached \cup {"pip", "list", "restore", "install", "metadata", "index"}

(* What the families' stages are like. *)
LEMMA StagesProperties ==
  /\ Stages \in Seq(StageNames) /\ Len(Stages) \in Nat \ {0}
  /\ IsInjective(Stages)
  /\ \A k \in 1..Len(Stages) : Stages[k] = "index" <=> k = Len(Stages)
  /\ \A k \in 1..Len(Stages) : Stages[k] \in {"list", "restore"} => family = "Dotnet"
  /\ \A k \in 1..Len(Stages) : Stages[k] = "config" => family = "TypeScript"
  /\ family = "Dotnet" => Stages = <<"list", "restore", "index">>
  /\ ToSet(Stages) = {Stages[k] : k \in 1..Len(Stages)}
<1>. USE DEF Stages, StageNames, Cached, IsInjective, ToSet
<1>1. CASE family = "TypeScript"
  BY <1>1
<1>2. CASE family = "Python"
  BY <1>2
<1>3. CASE family = "Clang"
  BY <1>3
<1>4. CASE family = "Dotnet"
  BY <1>4
<1>5. CASE family = "Ruby"
  BY <1>5
<1>6. CASE family = "Dart"
  BY <1>6
<1>7. CASE family \notin {"TypeScript", "Python", "Clang", "Dotnet", "Ruby", "Dart"}
  BY <1>7
<1>8. QED
  BY <1>1, <1>2, <1>3, <1>4, <1>5, <1>6, <1>7

(* What is looked for is a list without duplicates. *)
LEMMA WantedProperties ==
  /\ Wanted \in Seq(Seq(STRING)) /\ IsInjective(Wanted)
  /\ ToSet(Wanted) = {Wanted[i] : i \in 1..Len(Wanted)}
  /\ family = "Dotnet" => Wanted = Solutions \o Projects
<1>1. Solutions \o Projects \in Seq(Seq(STRING)) /\ Gemspecs \in Seq(Seq(STRING))
  BY TreeAssumption, ConcatProperties
<1>2. IsInjective(<<>>) /\ <<>> \in Seq(Seq(STRING))
  BY DEF IsInjective
<1>3. Wanted \in {Solutions \o Projects, Gemspecs, <<>>}
  BY DEF Wanted
<1>4. Wanted \in Seq(Seq(STRING))
  BY <1>1, <1>2, <1>3
<1>5. ToSet(Wanted) = {Wanted[i] : i \in 1..Len(Wanted)}
  BY <1>4, LenProperties DEF ToSet
<1>6. IsInjective(Wanted)
  BY <1>2, <1>3, TreeAssumption
<1>7. QED
  BY <1>4, <1>5, <1>6 DEF Wanted

Caches == [Cached -> {"absent", "torn", "ready"}]

\* What was found is a part of what was looked for, in its order.
FoundInv ==
  /\ found \in Seq(Seq(STRING)) /\ IsInjective(found)
  /\ ToSet(found) \subseteq ToSet(Wanted) /\ Len(found) <= MaxDiscovery

\* What every variable holds.
TypeInv ==
  /\ pc \in Places
  /\ runs \in 0..MaxRuns /\ edits \in 0..MaxEdits
  /\ settings \in Settings /\ workspace \subseteq LooksFor(family)
  /\ cache \in Caches
  /\ output \in [form : Forms, run : 0..runs]
  /\ config \in BOOLEAN /\ gem \in {"none", "short", "long"}
  /\ uses \subseteq Cached
  /\ calls \subseteq Commands
  /\ answer \in {"none", "Ok", "Config", "Input", "Limit", "Io", "MissingTool",
                 "DeniedTool", "Child", "Cancelled", "Deadline"}
  /\ start = [output |-> start.output, cache |-> start.cache, edits |-> start.edits,
              stable |-> start.stable]
  /\ start.cache \in Caches /\ start.edits \in 0..edits
  /\ start.stable \subseteq workspace

\* The commands of a stage are those of its name, one unless it is for files.
StageInv ==
  /\ stage \in 1..Len(Stages)
  /\ \A i \in 1..Len(queue) : queue[i][1] = Stages[stage]
  /\ active # NoCommand => active[1] = Stages[stage] /\ active \in calls
  /\ Stages[stage] \notin {"list", "restore"} =>
       \/ queue = <<>> /\ active \in {NoCommand, Command(Stages[stage])}
       \/ queue = <<Command(Stages[stage])>> /\ active = NoCommand

\* Each command is run once, and none before the stages are reached.
QueueInv ==
  /\ queue \in Seq(Commands) /\ IsInjective(queue)
  /\ active \in Commands \cup {NoCommand} /\ active \notin ToSet(queue)
  /\ pc \in {"preflight", "walk", "remove"} =>
       stage = 1 /\ queue = <<>> /\ active = NoCommand
  /\ pc = "stages" => StageInv

(* Every command is a pair of a tool and a file, and none is NoCommand. *)
LEMMA CommandsProperties ==
  /\ \A s \in Cached \cup {"pip", "install", "metadata", "index"} : Command(s) \in Commands
  /\ \A s \in {"list", "restore"}, f \in ToSet(Solutions \o Projects) : <<s, f>> \in Commands
  /\ NoCommand \notin Commands
  /\ \A c \in Commands : c = <<c[1], c[2]>>
  /\ \A s : Command(s)[1] = s
BY DEF Commands, Command, NoCommand, Cached

(* A list of commands for a list of files. *)
LEMMA EachProperties ==
  ASSUME NEW step \in {"list", "restore"}, NEW fs \in Seq(Seq(STRING)), IsInjective(fs),
         ToSet(fs) \subseteq ToSet(Solutions \o Projects)
  PROVE  /\ Each(step, fs) \in Seq(Commands) /\ IsInjective(Each(step, fs))
         /\ Len(Each(step, fs)) = Len(fs)
         /\ \A i \in 1..Len(Each(step, fs)) : Each(step, fs)[i] = <<step, fs[i]>>
         /\ ToSet(Each(step, fs)) = {<<step, f>> : f \in ToSet(fs)}
<1>. DEFINE e == [i \in 1..Len(fs) |-> <<step, fs[i]>>]
<1>1. DOMAIN fs = 1..Len(fs) /\ Len(fs) \in Nat
  BY LenProperties
<1>2. Each(step, fs) = e
  BY <1>1 DEF Each
<1>3. \A i \in 1..Len(fs) : <<step, fs[i]>> \in Commands
  <2>1. \A i \in 1..Len(fs) : fs[i] \in ToSet(Solutions \o Projects)
    BY <1>1 DEF ToSet
  <2>2. QED
    BY <2>1, CommandsProperties
<1>4. e \in Seq(Commands) /\ Len(e) = Len(fs) /\ DOMAIN e = 1..Len(fs)
  BY <1>1, <1>3
<1>5. IsInjective(e)
  BY <1>1, <1>4 DEF IsInjective
<1>6. ToSet(e) = {<<step, f>> : f \in ToSet(fs)}
  BY <1>1, <1>4 DEF ToSet
<1>7. QED
  BY <1>1, <1>2, <1>4, <1>5, <1>6

(* Inputs and the solutions are parts of what was found. *)
LEMMA FoundParts ==
  ASSUME FoundInv, NEW S
  PROVE  /\ InOrder(found, S) \in Seq(Seq(STRING)) /\ IsInjective(InOrder(found, S))
         /\ ToSet(InOrder(found, S)) = ToSet(found) \cap S
<1>. DEFINE part == InOrder(found, S)
<1>1. /\ part \in Seq(Seq(STRING)) /\ IsInjective(part)
      /\ {part[k] : k \in 1..Len(part)} = {found[i] : i \in 1..Len(found)} \cap S
  <2>1. found \in Seq(Seq(STRING)) /\ IsInjective(found)
    BY DEF FoundInv
  <2>. DEFINE U == Seq(STRING)
  <2>. HIDE DEF U
  <2>2. found \in Seq(U) => part \in Seq(U)
    BY InOrderProperties
  <2>3. found \in Seq(U) =>
          {part[k] : k \in 1..Len(part)} = {found[i] : i \in 1..Len(found)} \cap S
    BY InOrderProperties
  <2>4. found \in Seq(U) /\ IsInjective(found) => IsInjective(part)
    BY InOrderProperties
  <2>5. QED
    BY <2>1, <2>2, <2>3, <2>4 DEF U
<1>2. DOMAIN part = 1..Len(part) /\ DOMAIN found = 1..Len(found)
  BY <1>1, LenProperties DEF FoundInv
<1>. HIDE DEF part
<1>3. ToSet(part) = ToSet(found) \cap S
  BY <1>1, <1>2 DEF ToSet
<1>4. QED
  BY <1>1, <1>3 DEF part

(* What a stage has to do. *)
LEMMA WorkProperties ==
  ASSUME FoundInv, NEW k \in 1..Len(Stages), NEW step, step = Stages[k]
  PROVE  /\ Work(step) \in Seq(Commands) /\ IsInjective(Work(step))
         /\ \A i \in 1..Len(Work(step)) : Work(step)[i][1] = step
         /\ step \notin {"list", "restore"} => Work(step) \in {<<>>, <<Command(step)>>}
         /\ step = "index" => Work(step) = <<Command(step)>>
         /\ step \notin {"list", "restore"} /\ Needed(step) => Work(step) = <<Command(step)>>
         /\ NoCommand \notin ToSet(Work(step))
<1>1. Work(step) \in Seq(Commands) =>
        NoCommand \notin ToSet(Work(step))
  <2>1. ASSUME Work(step) \in Seq(Commands) PROVE \A i \in DOMAIN Work(step) : Work(step)[i] \in Commands
    BY <2>1, LenProperties, ElementOfSeq
  <2>2. QED
    BY <2>1, CommandsProperties DEF ToSet
<1>2. step \in StageNames
  BY StagesProperties, ElementOfSeq
<1>3. CASE step \in {"list", "restore"}
  <2>1. family = "Dotnet"
    BY <1>3, StagesProperties
  <2>2. ToSet(found) \subseteq ToSet(Solutions \o Projects)
    BY <2>1, WantedProperties DEF FoundInv
  <2>3. PICK S : Work(step) = Each(step, InOrder(found, S))
    BY <1>3 DEF Work, Inputs
  <2>4. ToSet(InOrder(found, S)) \subseteq ToSet(Solutions \o Projects)
    BY <2>2, FoundParts
  <2>. DEFINE fs == InOrder(found, S)
  <2>5. fs \in Seq(Seq(STRING)) /\ IsInjective(fs) /\ ToSet(fs) \subseteq ToSet(Solutions \o Projects)
    BY <2>4, FoundParts
  <2>. HIDE DEF fs
  <2>6. /\ Each(step, fs) \in Seq(Commands) /\ IsInjective(Each(step, fs))
        /\ \A i \in 1..Len(Each(step, fs)) : Each(step, fs)[i] = <<step, fs[i]>>
    BY <1>3, <2>5, EachProperties
  <2>7. Work(step) = Each(step, fs)
    BY <2>3 DEF fs
  <2>8. \A i \in 1..Len(Work(step)) : Work(step)[i][1] = step
    BY <2>6, <2>7
  <2>9. QED
    BY <1>1, <1>3, <2>6, <2>7, <2>8
<1>4. CASE step \notin {"list", "restore"}
  <2>1. Work(step) = IF Needed(step) THEN <<Command(step)>> ELSE <<>>
    BY <1>2, <1>4 DEF Work, StageNames
  <2>2. Command(step) \in Commands /\ Command(step)[1] = step
    BY <1>2, <1>4, CommandsProperties DEF StageNames
  <2>3. <<>> \in Seq(Commands) /\ <<Command(step)>> \in Seq(Commands)
    BY <2>2
  <2>4. IsInjective(<<>>) /\ IsInjective(<<Command(step)>>)
    BY DEF IsInjective
  <2>5. step = "index" => Needed(step)
    BY DEF Needed
  <2>6. \A i \in 1..Len(Work(step)) : Work(step)[i][1] = step
    BY <2>1, <2>2
  <2>7. QED
    BY <1>1, <1>4, <2>1, <2>3, <2>4, <2>5, <2>6
<1>5. QED
  BY <1>3, <1>4

(* What a command leaves has the types it should have. *)
LEMMA LeftoverTypes ==
  ASSUME TypeInv, Leftover
  PROVE  /\ cache' \in Caches /\ workspace' = workspace
         /\ output' \in [form : Forms, run : 0..runs]
         /\ \A item \in Cached : cache'[item] = cache[item] \/ item = Tool
<1>1. cache' \in Caches /\ \A item \in Cached : cache'[item] = cache[item] \/ item = Tool
  <2>1. cache' = cache \/ (Tool \in Cached /\ cache' = [cache EXCEPT ![Tool] = "torn"])
    BY DEF Leftover
  <2>2. cache \in Caches
    BY DEF TypeInv
  <2>3. QED
    BY <2>1, <2>2 DEF Caches
<1>2. output' \in [form : Forms, run : 0..runs]
  <2>1. runs \in 0..runs
    BY DispatchAssumption DEF TypeInv
  <2>2. \A f \in {"empty", "malformed", "whole"} : Produced(f) \in [form : Forms, run : 0..runs]
    BY <2>1 DEF Produced, Forms
  <2>3. QED
    BY <2>2 DEF Leftover, TypeInv
<1>3. QED
  BY <1>1, <1>2 DEF Leftover

Answers == {"none", "Ok", "Config", "Input", "Limit", "Io", "MissingTool",
            "DeniedTool", "Child", "Cancelled", "Deadline"}

(* Before a command: every variable keeps its type. *)
LEMMA TypeProgram ==
  ASSUME TypeInv, PlaceInv, QueueInv, FoundInv,
         \/ Preflight \/ Walk \/ Admit \/ RemoveOutput
         \/ (\E step \in ToSet(Stages) : EnterStage(step))
         \/ StageFails \/ MetadataTooLong \/ Launch
         \/ Accept \/ Normalize \/ LastCheck
  PROVE  TypeInv'
<1>. USE DEF TypeInv, Return, Stay, fixed, locals, place, control, disk, Places
<1>0. Check \in Answers
  BY DEF Check, Answers
<1>1. CASE Preflight
  <2>1. \A value \in Unfit \cup {"Io"} : value \in Answers
    BY DEF Unfit, Answers
  <2>2. settings.fault \in Answers
    BY DEF PlaceInv, Answers
  <2>3. pc' \in {"idle", "walk"} /\ answer' \in Answers /\ config' \in BOOLEAN
        /\ gem' = gem /\ uses' = uses
    BY <1>0, <1>1, <2>1, <2>2 DEF Preflight, Answers
  <2>4. QED
    BY <1>1, <2>3 DEF Preflight, Untouched, Answers
<1>2. CASE Walk
  <2>1. pc' \in {"idle", "walk"} /\ answer' \in Answers /\ config' = config
        /\ gem' = gem /\ uses' = uses
    BY <1>0, <1>2 DEF Walk, Answers
  <2>2. QED
    BY <1>2, <2>1 DEF Walk, Answers
<1>3. CASE Admit
  BY <1>0, <1>3 DEF Admit, Answers
<1>4. CASE RemoveOutput
  <2>1. runs \in 0..runs
    BY DispatchAssumption
  <2>2. Removed \in [form : Forms, run : 0..runs]
    BY <2>1 DEF Removed, Produced, Forms
  <2>3. output' \in [form : Forms, run : 0..runs]
    BY <1>4, <2>2 DEF RemoveOutput
  <2>4. pc' \in {"idle", "stages"} /\ answer' \in Answers
    BY <1>4 DEF RemoveOutput, Answers
  <2>5. QED
    BY <1>4, <2>3, <2>4 DEF RemoveOutput, Answers
<1>5. CASE \E step \in ToSet(Stages) : EnterStage(step)
  <2>1. PICK step \in ToSet(Stages) : EnterStage(step)
    BY <1>5
  <2>2. uses' \subseteq Cached
    <3>1. PointsAt(step) => step \in Cached
      BY DEF PointsAt, Cached
    <3>2. QED
      BY <2>1, <3>1 DEF EnterStage
  <2>3. QED
    BY <2>1, <2>2 DEF EnterStage
<1>6. CASE StageFails
  BY <1>6 DEF StageFails
<1>7. CASE MetadataTooLong
  BY <1>7 DEF MetadataTooLong
<1>8. CASE Launch
  <2>1. calls' \subseteq Commands
    BY <1>8, HeadTailProperties DEF Launch, QueueInv
  <2>2. pc' \in Places /\ answer' \in Answers
    BY <1>0, <1>8 DEF Launch, Answers
  <2>3. QED
    BY <1>8, <2>1, <2>2 DEF Launch, Answers
<1>9. CASE Accept
  BY <1>0, <1>9 DEF Accept, Answers
<1>10. CASE Normalize
  <2>1. output' \in [form : Forms, run : 0..runs]
    <3>1. output \in [form : Forms, run : 0..runs]
      OBVIOUS
    <3>2. output' = output \/ output' = [output EXCEPT !.form = "complete"]
      BY <1>10 DEF Normalize
    <3>3. QED
      BY <3>1, <3>2 DEF Forms
  <2>2. pc' \in Places /\ answer' \in Answers
    BY <1>0, <1>10 DEF Normalize, Answers
  <2>3. QED
    BY <1>10, <2>1, <2>2 DEF Normalize, Answers
<1>11. CASE LastCheck
  BY <1>0, <1>11 DEF LastCheck, Answers
<1>12. QED
  BY <1>1, <1>2, <1>3, <1>4, <1>5, <1>6, <1>7, <1>8, <1>9, <1>10, <1>11

(* The end of a command, and what happens to a run. *)
LEMMA TypeCommand ==
  ASSUME TypeInv, PlaceInv, CommandFails \/ CommandInterrupted \/ CommandSucceeds \/ Killed
  PROVE  TypeInv'
<1>. USE DEF TypeInv, Return, Stay, fixed, locals, place, control, Places
<1>0. Check \in Answers
  BY DEF Check, Answers
<1>1. CASE CommandFails
  <2>1. answer' \in Answers
    BY <1>1 DEF CommandFails, Failures, Answers
  <2>2. QED
    BY <1>1, <2>1, LeftoverTypes DEF CommandFails, Answers
<1>2. CASE CommandInterrupted
  <2>1. Tool \in Cached => [cache EXCEPT ![Tool] = "ready"] \in Caches
    BY DEF Caches
  <2>2. workspace' = workspace /\ cache' \in Caches /\ output' \in [form : Forms, run : 0..runs]
    BY <1>2, <2>1, LeftoverTypes DEF CommandInterrupted
  <2>3. QED
    BY <1>0, <1>2, <2>2 DEF CommandInterrupted, Answers
<1>3. CASE CommandSucceeds
  <2>1. cache' \in Caches
    <3>1. cache \in Caches
      OBVIOUS
    <3>2. cache' = IF Tool \in Cached THEN [cache EXCEPT ![Tool] = "ready"] ELSE cache
      BY <1>3 DEF CommandSucceeds
    <3>3. QED
      BY <3>1, <3>2 DEF Caches
  <2>2. output' \in [form : Forms, run : 0..runs]
    <3>1. runs \in 0..runs
      BY DispatchAssumption
    <3>2. \A f \in {"empty", "malformed", "whole"} : Produced(f) \in [form : Forms, run : 0..runs]
      BY <3>1 DEF Produced, Forms
    <3>3. QED
      BY <1>3, <3>2 DEF CommandSucceeds
  <2>3. gem' \in {"none", "short", "long"} /\ pc' \in Places
    BY <1>3 DEF CommandSucceeds
  <2>4. QED
    BY <1>3, <2>1, <2>2, <2>3 DEF CommandSucceeds
<1>4. CASE Killed
  BY <1>4, LeftoverTypes DEF Killed
<1>5. QED
  BY <1>1, <1>2, <1>3, <1>4

(* A new run, an interrupt and an edit keep the types. *)
LEMMA TypeOthers ==
  ASSUME TypeInv, Start \/ Interrupt \/ Edit
  PROVE  TypeInv'
<1>. USE DEF TypeInv, Stay, fixed, locals, place, control, disk, Places
<1>1. CASE Start
  <2>1. runs' \in 0..MaxRuns /\ \A r \in 0..runs : r \in 0..runs'
    BY <1>1, DispatchAssumption DEF Start
  <2>2. output' \in [form : Forms, run : 0..runs']
    <3>1. output \in [form : Forms, run : 0..runs] /\ output' = output
      BY <1>1 DEF Start
    <3>2. QED
      BY <2>1, <3>1
  <2>3. start' = [output |-> output, cache |-> cache, edits |-> edits, stable |-> workspace]
    BY <1>1 DEF Start
  <2>4. /\ start'.cache = cache /\ start'.edits = edits /\ start'.stable = workspace
        /\ start' = [output |-> start'.output, cache |-> start'.cache,
                     edits |-> start'.edits, stable |-> start'.stable]
    BY <2>3
  <2>5. edits \in 0..edits
    BY DispatchAssumption
  <2>6. settings' \in Settings /\ edits' = edits /\ cache' = cache /\ workspace' = workspace
        /\ family' = family
    BY <1>1 DEF Start
  <2>7. uses' = {} /\ calls' = {} /\ answer' = "none" /\ pc' = "preflight"
        /\ config' = FALSE /\ gem' = "none"
    BY <1>1 DEF Start
  <2>. HIDE DEF TypeInv
  <2>8. LooksFor(family)' = LooksFor(family)
    BY <2>6 DEF LooksFor
  <2>9. edits \in 0..MaxEdits /\ workspace \subseteq LooksFor(family) /\ cache \in Caches
    BY DEF TypeInv
  <2>10. QED
    BY <2>1, <2>2, <2>4, <2>5, <2>6, <2>7, <2>8, <2>9 DEF TypeInv
<1>2. CASE Interrupt
  BY <1>2 DEF Interrupt
<1>3. CASE Edit
  <2>1. PICK f \in LooksFor(family) \ Fixtures :
          /\ workspace' = (workspace \ {f}) \cup ({f} \ workspace)
          /\ start' = [start EXCEPT !.stable = start.stable \ {f}]
    BY <1>3 DEF Edit
  <2>2. workspace' \subseteq LooksFor(family) /\ start.stable \ {f} \subseteq workspace'
    BY <2>1
  <2>3. /\ start'.cache = start.cache /\ start'.edits = start.edits
        /\ start'.stable = start.stable \ {f}
        /\ start' = [output |-> start'.output, cache |-> start'.cache,
                     edits |-> start'.edits, stable |-> start'.stable]
    BY <2>1
  <2>4. edits' \in 0..MaxEdits /\ \A e \in 0..edits : e \in 0..edits'
    BY <1>3, DispatchAssumption DEF Edit
  <2>5. /\ family' = family /\ pc' = pc /\ runs' = runs /\ settings' = settings
        /\ cache' = cache /\ output' = output /\ config' = config /\ gem' = gem
        /\ uses' = uses /\ calls' = calls /\ answer' = answer
    BY <1>3 DEF Edit
  <2>. HIDE DEF TypeInv
  <2>6. LooksFor(family)' = LooksFor(family)
    BY <2>5 DEF LooksFor
  <2>7. TypeInv
    OBVIOUS
  <2>8. QED
    BY <2>2, <2>3, <2>4, <2>5, <2>6, <2>7 DEF TypeInv
<1>4. QED
  BY <1>1, <1>2, <1>3

(* Only Walk and Start change what was found. *)
LEMMA FoundStep ==
  ASSUME FoundInv, [Next]_vars
  PROVE  FoundInv'
<1>1. CASE Start
  <2>1. found' = <<>> /\ family' = family
    BY <1>1 DEF Start
  <2>2. Wanted' = Wanted
    BY <2>1 DEF Wanted
  <2>3. <<>> \in Seq(Seq(STRING)) /\ IsInjective(<<>>) /\ ToSet(<<>>) = {} /\ Len(<<>>) <= MaxDiscovery
    BY DispatchAssumption DEF IsInjective, ToSet
  <2>4. QED
    BY <2>1, <2>2, <2>3 DEF FoundInv
<1>2. CASE Walk /\ found' # found
  <2>1. PICK S : found' = InOrder(Wanted, S) /\ Len(InOrder(Wanted, S)) <= MaxDiscovery
    BY <1>2 DEF Walk, locals
  <2>2. Wanted' = Wanted
    BY <1>2 DEF Walk, fixed, Wanted
  <2>. DEFINE U == Seq(STRING)
  <2>. HIDE DEF U
  <2>3. Wanted \in Seq(U) /\ IsInjective(Wanted)
    BY WantedProperties DEF U
  <2>4. /\ found' \in Seq(U) /\ IsInjective(found')
        /\ {found'[k] : k \in 1..Len(found')} = {Wanted[i] : i \in 1..Len(Wanted)} \cap S
    BY <2>1, <2>3, InOrderProperties
  <2>5. ToSet(found') \subseteq ToSet(Wanted)
    <3>1. DOMAIN found' = 1..Len(found')
      BY <2>4, LenProperties
    <3>2. QED
      BY <2>4, <3>1, WantedProperties DEF ToSet
  <2>6. QED
    BY <2>1, <2>2, <2>4, <2>5 DEF FoundInv, U
<1>3. CASE found' = found /\ family' = family
  BY <1>3 DEF FoundInv, Wanted
<1>4. (found' = found \/ Walk \/ Start) /\ family' = family
  <2>. USE DEF Stay, fixed, locals, place, disk
  <2>1. CASE UNCHANGED vars
    BY <2>1 DEF vars
  <2>2. CASE Step
    BY <2>2 DEF Step, Preflight, Walk, Admit, RemoveOutput, EnterStage, StageFails,
       MetadataTooLong, Launch, CommandFails, CommandInterrupted, CommandSucceeds,
       Accept, Normalize, LastCheck
  <2>3. CASE Start \/ Interrupt \/ Killed \/ Edit
    BY <2>3 DEF Start, Interrupt, Killed, Edit
  <2>4. QED
    BY <2>1, <2>2, <2>3 DEF Next
<1>5. QED
  BY <1>1, <1>2, <1>3, <1>4

(* A command at the head of a list without duplicates leaves one. *)
LEMMA Dequeue ==
  ASSUME NEW q \in Seq(Commands), q # <<>>, IsInjective(q)
  PROVE  /\ Head(q) \in Commands /\ Head(q) = q[1] /\ 1 \in 1..Len(q)
         /\ Tail(q) \in Seq(Commands) /\ IsInjective(Tail(q))
         /\ Head(q) \notin ToSet(Tail(q))
         /\ ToSet(q) = {Head(q)} \cup ToSet(Tail(q))
         /\ \A i \in 1..Len(Tail(q)) : i + 1 \in 1..Len(q) /\ Tail(q)[i] = q[i + 1]
         /\ Len(Tail(q)) = Len(q) - 1
<1>. DEFINE t == Tail(q)
<1>1. /\ Head(q) \in Commands /\ Head(q) = q[1] /\ t \in Seq(Commands)
      /\ Len(t) = Len(q) - 1 /\ \A i \in 1..Len(t) : t[i] = q[i + 1]
  BY HeadTailProperties
<1>2. DOMAIN q = 1..Len(q) /\ DOMAIN t = 1..Len(t) /\ Len(q) \in Nat /\ Len(q) # 0
  BY <1>1, LenProperties, EmptySeq
<1>. HIDE DEF t
<1>3. 1 \in 1..Len(q) /\ \A i \in 1..Len(t) : i + 1 \in 1..Len(q) /\ i + 1 # 1
  BY <1>1, <1>2
<1>4. IsInjective(t)
  <2>1. ASSUME NEW i \in 1..Len(t), NEW j \in 1..Len(t), t[i] = t[j] PROVE i = j
    <3>1. q[i + 1] = q[j + 1]
      BY <1>1, <2>1
    <3>2. i + 1 = j + 1
      BY <1>2, <1>3, <3>1 DEF IsInjective
    <3>3. QED
      BY <1>1, <1>2, <3>2
  <2>2. QED
    BY <1>2, <2>1 DEF IsInjective
<1>5. \A i \in 1..Len(t) : t[i] # Head(q)
  BY <1>1, <1>2, <1>3 DEF IsInjective
<1>6. Head(q) \notin ToSet(t)
  BY <1>2, <1>5 DEF ToSet
<1>7. ToSet(q) = {Head(q)} \cup ToSet(t)
  <2>1. \A k \in 1..Len(q) : k = 1 \/ (k - 1 \in 1..Len(t) /\ q[k] = t[k - 1])
    <3>1. ASSUME NEW k \in 1..Len(q), k # 1 PROVE k - 1 \in 1..Len(t) /\ q[k] = t[k - 1]
      <4>1. k - 1 \in 1..Len(t) /\ (k - 1) + 1 = k
        BY <1>1, <1>2, <3>1
      <4>2. QED
        BY <1>1, <4>1
    <3>2. QED
      BY <3>1
  <2>2. ToSet(q) \subseteq {Head(q)} \cup ToSet(t)
    <3>1. ASSUME NEW k \in 1..Len(q) PROVE q[k] \in {Head(q)} \cup {t[i] : i \in 1..Len(t)}
      BY <1>1, <2>1
    <3>2. QED
      BY <1>2, <3>1 DEF ToSet
  <2>3. {Head(q)} \cup ToSet(t) \subseteq ToSet(q)
    BY <1>1, <1>2, <1>3 DEF ToSet
  <2>4. QED
    BY <2>2, <2>3
<1>8. QED
  BY <1>1, <1>3, <1>4, <1>6, <1>7 DEF t

(* A stage that is entered, with work to do or without. *)
LEMMA QueueEnters ==
  ASSUME QueueInv, FoundInv, NEW step \in ToSet(Stages), EnterStage(step)
  PROVE  QueueInv'
<1>1. /\ Stages[stage] = step /\ pc = "stages" /\ active = NoCommand /\ queue = <<>>
      /\ stage \in 1..Len(Stages)
  BY DEF EnterStage, AtStage, QueueInv, StageInv
<1>2. /\ Work(step) \in Seq(Commands) /\ IsInjective(Work(step))
      /\ \A i \in 1..Len(Work(step)) : Work(step)[i][1] = step
      /\ step \notin {"list", "restore"} => Work(step) \in {<<>>, <<Command(step)>>}
      /\ step = "index" => Work(step) = <<Command(step)>>
      /\ NoCommand \notin ToSet(Work(step))
  BY <1>1, WorkProperties
<1>3. /\ queue' = Work(step) /\ active' = NoCommand /\ pc' = "stages" /\ Stages' = Stages
      /\ IF queue' = <<>> THEN stage' = stage + 1 ELSE stage' = stage
  BY <1>1 DEF EnterStage, fixed, Stages
<1>4. CASE queue' = <<>>
  <2>1. <<Command(step)>> # <<>>
    OBVIOUS
  <2>2. step # "index"
    BY <1>2, <1>3, <1>4, <2>1
  <2>3. stage' \in 1..Len(Stages)
    <3>1. stage # Len(Stages) /\ Len(Stages) \in Nat
      BY <1>1, <2>2, StagesProperties
    <3>2. QED
      BY <1>1, <1>3, <1>4, <3>1
  <2>4. Len(<<>>) = 0 /\ ToSet(<<>>) = {}
    BY DEF ToSet
  <2>5. QED
    BY <1>2, <1>3, <1>4, <2>3, <2>4 DEF QueueInv, StageInv
<1>5. CASE queue' # <<>>
  BY <1>1, <1>2, <1>3, <1>5 DEF QueueInv, StageInv
<1>6. QED
  BY <1>4, <1>5

(* A command is started, or is done. *)
LEMMA QueueMoves ==
  ASSUME QueueInv, Launch \/ CommandSucceeds
  PROVE  QueueInv'
<1>. USE DEF Stay, fixed, place, StageInv
<1>1. Stages' = Stages
  BY DEF Launch, CommandSucceeds, Stages
<1>2. CASE Launch /\ active' # active
  <2>1. /\ pc = "stages" /\ active = NoCommand /\ queue # <<>> /\ pc' = pc
        /\ active' = Head(queue) /\ queue' = Tail(queue) /\ stage' = stage
        /\ calls' = calls \cup {Head(queue)}
    BY <1>2 DEF Launch
  <2>2. /\ queue \in Seq(Commands) /\ IsInjective(queue)
        /\ \A i \in 1..Len(queue) : queue[i][1] = Stages[stage]
    BY <2>1 DEF QueueInv
  <2>3. /\ Head(queue) \in Commands /\ Head(queue) = queue[1] /\ 1 \in 1..Len(queue)
        /\ Tail(queue) \in Seq(Commands) /\ IsInjective(Tail(queue))
        /\ Head(queue) \notin ToSet(Tail(queue))
        /\ \A i \in 1..Len(Tail(queue)) : i + 1 \in 1..Len(queue) /\ Tail(queue)[i] = queue[i + 1]
    BY <2>1, <2>2, Dequeue
  <2>4. active'[1] = Stages[stage] /\ \A i \in 1..Len(Tail(queue)) : Tail(queue)[i][1] = Stages[stage]
    BY <2>1, <2>2, <2>3
  <2>5. Stages[stage] \notin {"list", "restore"} =>
          Tail(queue) = <<>> /\ Head(queue) = Command(Stages[stage])
    <3>1. SUFFICES ASSUME Stages[stage] \notin {"list", "restore"}
                   PROVE  Tail(queue) = <<>> /\ Head(queue) = Command(Stages[stage])
      OBVIOUS
    <3>2. queue = <<Command(Stages[stage])>>
      BY <2>1, <3>1 DEF QueueInv
    <3>3. QED
      BY <3>2
  <2>6. QED
    BY <1>1, <2>1, <2>3, <2>4, <2>5 DEF QueueInv
<1>3. CASE Launch /\ active' = active
  <2>1. Head(queue) # active
    BY <1>3, CommandsProperties, Dequeue DEF Launch, QueueInv
  <2>2. queue' = queue /\ calls' = calls /\ stage' = stage /\ pc' = "idle"
    BY <1>3, <2>1 DEF Launch, Return
  <2>3. QED
    BY <1>3, <2>2 DEF QueueInv
<1>4. CASE CommandSucceeds
  <2>1. /\ pc' \in {"stages", "accept"} /\ active' = NoCommand /\ queue' = queue
        /\ calls' = calls /\ (pc' = "stages" => Tool # "index") /\ active # NoCommand
        /\ IF queue = <<>> THEN stage' = stage + 1 ELSE stage' = stage
    BY <1>4 DEF CommandSucceeds, InFlight
  <2>2. active \in Commands /\ NoCommand \notin ToSet(queue)
    <3>1. \A i \in DOMAIN queue : queue[i] \in Commands
      BY LenProperties, ElementOfSeq DEF QueueInv
    <3>2. QED
      BY <2>1, <3>1, CommandsProperties DEF QueueInv, ToSet
  <2>3. CASE pc' = "stages" /\ queue = <<>>
    <3>1. stage \in 1..Len(Stages) /\ Stages[stage] # "index" /\ Len(Stages) \in Nat
      BY <1>4, <2>1, <2>3, StagesProperties DEF CommandSucceeds, InFlight, QueueInv, Tool
    <3>2. stage + 1 \in 1..Len(Stages)
      BY <3>1, StagesProperties
    <3>3. QED
      BY <1>1, <2>1, <2>2, <2>3, <3>2 DEF QueueInv
  <2>4. CASE pc' = "stages" /\ queue # <<>>
    <3>1. pc = "stages"
      BY <1>4 DEF CommandSucceeds, InFlight
    <3>2. QED
      BY <1>1, <2>1, <2>2, <2>4, <3>1 DEF QueueInv
  <2>5. CASE pc' = "accept"
    BY <1>1, <2>1, <2>2, <2>5 DEF QueueInv
  <2>6. QED
    BY <2>1, <2>3, <2>4, <2>5
<1>5. QED
  BY <1>2, <1>3, <1>4

(* What happens elsewhere leaves the queue, or empties it. *)
LEMMA QueueStep ==
  ASSUME QueueInv, FoundInv, PlaceInv, [Next]_vars
  PROVE  QueueInv'
<1>. USE DEF Stay, fixed, locals, place, disk
<1>1. CASE Launch \/ CommandSucceeds
  BY <1>1, QueueMoves
<1>2. CASE \E step \in ToSet(Stages) : EnterStage(step)
  BY <1>2, QueueEnters
<1>3. CASE Start
  <2>1. /\ pc' = "preflight" /\ stage' = 1 /\ queue' = <<>> /\ active' = NoCommand
    BY <1>3 DEF Start
  <2>2. <<>> \in Seq(Commands) /\ IsInjective(<<>>) /\ ToSet(<<>>) = {}
    BY DEF IsInjective, ToSet
  <2>3. QED
    BY <2>1, <2>2 DEF QueueInv
<1>4. CASE UNCHANGED vars
  BY <1>4 DEF vars, QueueInv, StageInv, Stages
<1>5. CASE Preflight \/ Walk \/ Admit \/ RemoveOutput
  <2>1. /\ pc \in {"preflight", "walk", "remove"}
        /\ pc' \in {"idle", "walk", "remove", "stages"} /\ family' = family
        /\ stage' = stage /\ queue' = queue /\ active' = active
    BY <1>5 DEF Preflight, Walk, Admit, RemoveOutput, Return
  <2>2. stage = 1 /\ queue = <<>> /\ active = NoCommand
    BY <2>1 DEF QueueInv
  <2>3. Stages' = Stages /\ 1 \in 1..Len(Stages)
    BY <2>1, StagesProperties DEF Stages
  <2>4. QED
    BY <2>1, <2>2, <2>3 DEF QueueInv, StageInv
<1>6. CASE StageFails \/ MetadataTooLong \/ CommandFails \/ CommandInterrupted \/ LastCheck
           \/ Killed \/ Accept \/ Normalize
  <2>1. /\ pc' \in {"idle", "normalize", "last"}
        /\ stage' = stage /\ queue' = queue /\ active' = active
    BY <1>6 DEF StageFails, MetadataTooLong, CommandFails, CommandInterrupted, LastCheck,
       Killed, Accept, Normalize, Return
  <2>2. QED
    BY <2>1 DEF QueueInv
<1>7. CASE Interrupt \/ Edit
  <2>1. /\ pc' = pc /\ family' = family /\ calls' = calls
        /\ stage' = stage /\ queue' = queue /\ active' = active
    BY <1>7 DEF Interrupt, Edit
  <2>2. QED
    BY <2>1 DEF QueueInv, StageInv, Stages
<1>8. QED
  BY <1>1, <1>2, <1>3, <1>4, <1>5, <1>6, <1>7 DEF Next, Step

\* Only an index with something in it is ever normalised.
AcceptedInv == pc \in {"normalize", "last"} => output.form \notin {"absent", "empty"}

(* What was accepted is only ever completed. *)
LEMMA AcceptedStep ==
  ASSUME AcceptedInv, RunInv, [Next]_vars
  PROVE  AcceptedInv'
<1>. USE DEF AcceptedInv, Stay, fixed, locals, place, disk, Return
<1>1. CASE Accept
  BY <1>1 DEF Accept, Acceptable
<1>2. CASE Normalize
  <2>1. output' = output \/ output' = [output EXCEPT !.form = "complete"]
    BY <1>2 DEF Normalize
  <2>2. output'.form \in {output.form, "complete"}
    BY <2>1 DEF RunInv, OutputInv
  <2>3. QED
    BY <1>2, <2>2 DEF Normalize
<1>3. CASE Interrupt \/ Edit \/ UNCHANGED vars
  BY <1>3 DEF Interrupt, Edit, vars
<1>4. CASE pc' \notin {"normalize", "last"}
  BY <1>4
<1>5. Accept \/ Normalize \/ Interrupt \/ Edit \/ UNCHANGED vars
        \/ pc' \notin {"normalize", "last"}
  BY DEF Next, Step, Start, Killed, Preflight, Walk, Admit, RemoveOutput, EnterStage, AtStage,
     StageFails, MetadataTooLong, Launch, CommandFails, CommandInterrupted,
     CommandSucceeds, LastCheck, InFlight
<1>6. QED
  BY <1>1, <1>2, <1>3, <1>4, <1>5

\* Types, lists and places, of every variable.
StateInv == RunInv /\ TypeInv /\ FoundInv /\ QueueInv /\ AcceptedInv

(* The initial states have it. *)
LEMMA StateInvInit == ASSUME Init PROVE StateInv
<1>1. RunInv
  BY RunInvInit
<1>2. TypeInv
  <2>1. /\ settings = [host |-> FALSE, name |-> "short", fault |-> "none"]
        /\ cache = [item \in Cached |-> "absent"]
        /\ output = [form |-> "absent", run |-> 0] /\ runs = 0 /\ edits = 0
        /\ start = [output |-> output, cache |-> cache, edits |-> 0, stable |-> {}]
    BY DEF Init, Produced
  <2>2. settings \in Settings
    BY <2>1, DispatchAssumption DEF Settings
  <2>3. /\ cache \in Caches /\ output \in [form : Forms, run : 0..runs]
        /\ runs \in 0..MaxRuns /\ edits \in 0..MaxEdits
    BY <2>1, DispatchAssumption DEF Caches, Forms
  <2>4. /\ start = [output |-> start.output, cache |-> start.cache, edits |-> start.edits,
                    stable |-> start.stable]
        /\ start.cache \in Caches /\ start.edits \in 0..edits /\ start.stable \subseteq workspace
    BY <2>1, <2>3
  <2>5. QED
    BY <2>2, <2>3, <2>4 DEF Init, TypeInv, Places
<1>3. FoundInv /\ QueueInv /\ AcceptedInv
  <2>1. <<>> \in Seq(Seq(STRING)) /\ <<>> \in Seq(Commands) /\ IsInjective(<<>>)
        /\ ToSet(<<>>) = {} /\ Len(<<>>) = 0
    BY DEF IsInjective, ToSet
  <2>2. QED
    BY <2>1, DispatchAssumption DEF Init, FoundInv, QueueInv, AcceptedInv
<1>4. QED
  BY <1>1, <1>2, <1>3 DEF StateInv

(* Every step keeps it. *)
LEMMA StateInvStep == ASSUME StateInv, [Next]_vars PROVE StateInv'
<1>1. RunInv'
  BY RunInvStep DEF StateInv
<1>2. TypeInv'
  <2>1. CASE UNCHANGED vars
    <3>1. TypeInv
      BY DEF StateInv
    <3>2. LooksFor(family)' = LooksFor(family)
      BY <2>1 DEF vars, fixed, LooksFor
    <3>3. QED
      BY <2>1, <3>1, <3>2 DEF TypeInv, vars, fixed, disk, locals, place, control
  <2>2. QED
    BY <2>1, TypeProgram, TypeCommand, TypeOthers DEF StateInv, RunInv, Next, Step
<1>3. FoundInv' /\ QueueInv' /\ AcceptedInv'
  BY FoundStep, QueueStep, AcceptedStep DEF StateInv, RunInv
<1>4. QED
  BY <1>1, <1>2, <1>3 DEF StateInv

(* It holds in every reachable state. *)
THEOREM StateInvariance == Spec => []StateInv
BY StateInvInit, StateInvStep, PTL DEF Spec

(* Every variable keeps its type, for every tree, cap and number of runs: the
   locals of `run`, its commands and what is on the disk. *)
THEOREM TypeCorrect == Spec => []TypeOK
<1>1. ASSUME StateInv PROVE TypeOK
  <2>1. pc = "stages" => stage \in DOMAIN Stages
    BY <1>1, StagesProperties, LenProperties DEF StateInv, QueueInv, StageInv
  <2>2. cache \in [Cached -> {"absent", "torn", "ready"}]
    BY <1>1 DEF StateInv, TypeInv, Caches
  <2>3. QED
    BY <1>1, <2>1, <2>2 DEF StateInv, TypeInv, FoundInv, QueueInv, AcceptedInv, TypeOK, Places, Forms
<1>2. QED
  BY <1>1, StateInvariance, PTL

-----------------------------------------------------------------------------
(* What the index command is pointed at.                                   *)

Before == {"preflight", "walk", "remove"}

\* What the stages to come leave in the cache was not touched yet by this run.
CacheInv ==
  /\ pc \in Before => cache = start.cache
  /\ pc = "stages" => \A k \in stage..Len(Stages) :
       Stages[k] \in Cached => cache[Stages[k]] = start.cache[Stages[k]]

\* What the index command will be pointed at is prepared, or is being prepared.
UsesInv ==
  /\ pc \in Before => uses = {}
  /\ pc = "stages" => \A item \in uses :
       Prepared(item) \/ (item = Stages[stage] /\ (queue # <<>> \/ active # NoCommand))

\* A configuration is not generated only if there was one, here or in the cache.
ConfigInv ==
  pc \notin {"idle", "preflight"} /\ family = "TypeScript" /\ ~config =>
    \/ <<"tsconfig.json">> \in workspace \/ edits # start.edits
    \/ start.cache["config"] # "absent"

PreparedInv == CacheInv /\ UsesInv /\ ConfigInv

(* An edit does not change what the run began with, but for what was edited. *)
LEMMA EditChanges ==
  ASSUME TypeInv, Edit
  PROVE  /\ start'.cache = start.cache /\ start'.edits = start.edits
         /\ start'.stable \subseteq start.stable
         /\ edits' = edits + 1 /\ edits' # start.edits
<1>1. PICK f : start' = [start EXCEPT !.stable = start.stable \ {f}]
  BY DEF Edit
<1>2. start = [output |-> start.output, cache |-> start.cache, edits |-> start.edits,
               stable |-> start.stable]
  BY DEF TypeInv
<1>3. /\ start'.cache = start.cache /\ start'.edits = start.edits
      /\ start'.stable = start.stable \ {f}
  BY <1>1, <1>2
<1>4. edits' = edits + 1 /\ edits' # start.edits
  BY DispatchAssumption DEF Edit, TypeInv
<1>5. QED
  BY <1>3, <1>4

(* What is prepared stays prepared. *)
LEMMA PreparedKept ==
  ASSUME NEW item, Prepared(item), cache'[item] \in {cache[item], "ready"},
         calls \subseteq calls', start'.cache = start.cache, start'.edits = start.edits,
         edits' = edits \/ edits' # start.edits
  PROVE  Prepared(item)'
BY DEF Prepared

(* A command that succeeds and is not the last one. *)
LEMMA SucceedsInStage ==
  ASSUME StateInv, CommandSucceeds, pc' = "stages"
  PROVE  /\ pc = "stages" /\ active # NoCommand /\ active' = NoCommand /\ active \in calls
         /\ stage \in 1..Len(Stages) /\ Stages' = Stages /\ Tool = Stages[stage]
         /\ calls' = calls /\ queue' = queue /\ uses' = uses /\ found' = found /\ family' = family
         /\ start' = start /\ edits' = edits /\ workspace' = workspace
         /\ IF queue = <<>> THEN stage' = stage + 1 ELSE stage' = stage
         /\ queue # <<>> => Tool \in {"list", "restore"}
         /\ Tool \notin {"list", "restore"} => active = Command(Tool)
         /\ \A item \in Cached : cache'[item] = IF item = Tool THEN "ready" ELSE cache[item]
<1>1. /\ pc = "stages" /\ active # NoCommand /\ active' = NoCommand
      /\ calls' = calls /\ queue' = queue /\ uses' = uses /\ found' = found /\ family' = family
      /\ start' = start /\ edits' = edits /\ workspace' = workspace
      /\ IF queue = <<>> THEN stage' = stage + 1 ELSE stage' = stage
      /\ cache' = IF Tool \in Cached THEN [cache EXCEPT ![Tool] = "ready"] ELSE cache
  BY DEF CommandSucceeds, InFlight, fixed
<1>2. StageInv
  BY <1>1 DEF StateInv, QueueInv
<1>3. /\ Tool = Stages[stage] /\ active \in calls /\ stage \in 1..Len(Stages)
      /\ queue # <<>> => Tool \in {"list", "restore"}
      /\ Tool \notin {"list", "restore"} => active = Command(Tool)
  BY <1>1, <1>2 DEF StageInv, Tool
<1>4. \A item \in Cached : cache'[item] = IF item = Tool THEN "ready" ELSE cache[item]
  BY <1>1 DEF StateInv, TypeInv, Caches
<1>5. QED
  BY <1>1, <1>3, <1>4 DEF Stages

(* A stage changes only its own product in the cache. *)
LEMMA CacheStep ==
  ASSUME StateInv, CacheInv, [Next]_vars
  PROVE  CacheInv'
<1>. USE DEF Stay, fixed, locals, place, disk, Return
<1>1. CASE Start
  <2>1. pc' = "preflight" /\ cache' = cache /\ start'.cache = cache
    BY <1>1 DEF Start
  <2>2. QED
    BY <2>1 DEF CacheInv, Before
<1>2. CASE Preflight \/ Walk \/ Admit \/ RemoveOutput
  <2>1. /\ pc \in Before /\ pc' \in Before \cup {"idle", "stages"}
        /\ cache' = cache /\ start' = start
    BY <1>2 DEF Preflight, Walk, Admit, RemoveOutput, Untouched, Before
  <2>2. QED
    BY <2>1, StagesProperties DEF CacheInv, Before
<1>3. CASE (\E step \in ToSet(Stages) : EnterStage(step)) \/ (Launch /\ pc' = "stages")
  <2>1. /\ pc = "stages" /\ pc' = "stages" /\ cache' = cache /\ start' = start
        /\ stage' \in {stage, stage + 1} /\ family' = family
    BY <1>3 DEF EnterStage, AtStage, Launch
  <2>2. Stages' = Stages /\ stage \in 1..Len(Stages) /\ Len(Stages) \in Nat
    BY <2>1, StagesProperties DEF Stages, StateInv, QueueInv, StageInv
  <2>3. \A k \in stage'..Len(Stages) : k \in stage..Len(Stages)
    BY <2>1, <2>2
  <2>4. QED
    BY <2>1, <2>2, <2>3 DEF CacheInv, Before
<1>4. CASE CommandSucceeds /\ pc' = "stages"
  <2>. USE <1>4, SucceedsInStage
  <2>1. CASE queue = <<>>
    <3>1. ASSUME NEW k \in stage'..Len(Stages), Stages[k] \in Cached
          PROVE  cache'[Stages[k]] = start.cache[Stages[k]]
      <4>1. /\ k \in stage..Len(Stages) /\ k \in 1..Len(Stages) /\ k # stage
            /\ DOMAIN Stages = 1..Len(Stages)
        BY <2>1, StagesProperties, LenProperties
      <4>2. Stages[k] # Tool
        <5>1. IsInjective(Stages) /\ Tool = Stages[stage] /\ stage \in 1..Len(Stages)
          BY StagesProperties DEF Tool, StateInv, QueueInv, StageInv
        <5>2. QED
          BY <4>1, <5>1 DEF IsInjective
      <4>3. QED
        BY <3>1, <4>1, <4>2 DEF CacheInv
    <3>2. QED
      BY <3>1 DEF CacheInv, Before
  <2>2. CASE queue # <<>>
    <3>1. \A item \in Cached : cache'[item] = cache[item]
      BY <2>2 DEF Cached
    <3>2. QED
      BY <2>2, <3>1 DEF CacheInv, Before
  <2>3. QED
    BY <2>1, <2>2
<1>5. CASE pc' \notin Before \cup {"stages"}
  BY <1>5 DEF CacheInv
<1>6. CASE Interrupt \/ Edit \/ UNCHANGED vars
  <2>1. pc' = pc /\ cache' = cache /\ start'.cache = start.cache /\ family' = family /\ stage' = stage
    BY <1>6, EditChanges DEF Interrupt, Edit, vars, StateInv
  <2>2. QED
    BY <2>1 DEF CacheInv, Stages
<1>7. \/ Start \/ Preflight \/ Walk \/ Admit \/ RemoveOutput
      \/ (\E step \in ToSet(Stages) : EnterStage(step)) \/ (Launch /\ pc' = "stages")
      \/ (CommandSucceeds /\ pc' = "stages") \/ pc' \notin Before \cup {"stages"}
      \/ Interrupt \/ Edit \/ UNCHANGED vars
  BY DEF Next, Step, Killed, StageFails, MetadataTooLong, Launch, CommandFails,
     CommandInterrupted, CommandSucceeds, Accept, Normalize, LastCheck, InFlight, Before
<1>8. QED
  BY <1>1, <1>2, <1>3, <1>4, <1>5, <1>6, <1>7

(* A stage that is reached and has nothing to do is prepared already. *)
LEMMA NothingToDo ==
  ASSUME StateInv, CacheInv, ConfigInv, NEW step \in ToSet(Stages), EnterStage(step),
         PointsAt(step), Work(step) = <<>>
  PROVE  Prepared(step)
<1>1. /\ pc = "stages" /\ Stages[stage] = step /\ stage \in 1..Len(Stages)
      /\ Len(Stages) \in Nat
  BY StagesProperties DEF EnterStage, AtStage, StateInv, QueueInv, StageInv
<1>2. step \in {"config", "cmake", "filter", "venv", "gemfile", "activate"}
  BY DEF PointsAt
<1>3. ~Needed(step)
  <2>1. <<Command(step)>> # <<>>
    OBVIOUS
  <2>2. QED
    BY <1>1, <1>2, <2>1, WorkProperties DEF StateInv
<1>4. step \in {"config", "venv", "activate"}
  BY <1>2, <1>3 DEF Needed
<1>5. cache[step] = start.cache[step] /\ cache[step] \in {"absent", "torn", "ready"}
  <2>1. stage \in stage..Len(Stages) /\ step \in Cached
    BY <1>1, <1>2 DEF Cached
  <2>2. QED
    BY <1>1, <2>1 DEF CacheInv, StateInv, TypeInv, Caches
<1>6. CASE step \in {"venv", "activate"}
  BY <1>3, <1>5, <1>6 DEF Needed, Prepared
<1>7. CASE step = "config"
  <2>1. <<"tsconfig.json">> \notin workspace /\ ~config
    BY <1>3, <1>7 DEF Needed, PointsAt
  <2>2. family = "TypeScript"
    BY <1>1, <1>7, StagesProperties
  <2>3. QED
    BY <1>1, <1>5, <1>7, <2>1, <2>2 DEF ConfigInv, Prepared
<1>8. QED
  BY <1>4, <1>6, <1>7

(* What is to be used was prepared when its stage is over. *)
LEMMA UsesStep ==
  ASSUME StateInv, CacheInv, UsesInv, ConfigInv, [Next]_vars
  PROVE  UsesInv'
<1>. USE DEF Stay, fixed, locals, place, disk, Return
<1>1. CASE Start
  <2>1. pc' = "preflight" /\ uses' = {}
    BY <1>1 DEF Start
  <2>2. QED
    BY <2>1 DEF UsesInv
<1>2. CASE Preflight \/ Walk \/ Admit \/ RemoveOutput
  <2>1. pc \in Before /\ uses' = uses
    BY <1>2 DEF Preflight, Walk, Admit, RemoveOutput, Before
  <2>2. QED
    BY <2>1 DEF UsesInv
<1>3. CASE \E step \in ToSet(Stages) : EnterStage(step)
  <2>1. PICK step \in ToSet(Stages) : EnterStage(step)
    BY <1>3
  <2>2. /\ pc = "stages" /\ pc' = "stages" /\ queue = <<>> /\ active = NoCommand
        /\ queue' = Work(step) /\ step = Stages[stage] /\ Stages' = Stages
        /\ uses' = IF PointsAt(step) THEN uses \cup {step} ELSE uses
        /\ IF queue' = <<>> THEN stage' = stage + 1 ELSE stage' = stage
        /\ cache' = cache /\ calls' = calls /\ start' = start /\ edits' = edits
    BY <2>1 DEF EnterStage, AtStage, Stages
  <2>3. ASSUME NEW item \in uses PROVE Prepared(item)'
    BY <2>2, <2>3, PreparedKept DEF UsesInv
  <2>4. ASSUME PointsAt(step), Work(step) = <<>> PROVE Prepared(step)'
    BY <2>1, <2>2, <2>4, NothingToDo, PreparedKept
  <2>5. QED
    BY <2>2, <2>3, <2>4 DEF UsesInv, Before
<1>4. CASE Launch /\ pc' = "stages"
  <2>1. /\ pc = "stages" /\ queue # <<>> /\ stage' = stage /\ uses' = uses
        /\ cache' = cache /\ start' = start /\ edits' = edits /\ calls \subseteq calls'
        /\ Stages' = Stages
        /\ active' = Head(queue)
    BY <1>4 DEF Launch, Stages
  <2>2. active' # NoCommand
    BY <2>1, Dequeue, CommandsProperties DEF StateInv, QueueInv
  <2>3. ASSUME NEW item \in uses, Prepared(item) PROVE Prepared(item)'
    BY <2>1, <2>3, PreparedKept
  <2>4. QED
    BY <1>4, <2>1, <2>2, <2>3 DEF UsesInv, Before
<1>5. CASE CommandSucceeds /\ pc' = "stages"
  <2>. USE <1>5, SucceedsInStage
  <2>1. \A item \in uses : item \in Cached
    BY DEF StateInv, TypeInv
  <2>2. ASSUME NEW item \in uses, Prepared(item) PROVE Prepared(item)'
    BY <2>1, <2>2, PreparedKept
  <2>3. ASSUME NEW item \in uses, item = Tool PROVE Prepared(item)'
    <3>1. active = Command(item) /\ cache'[item] = "ready"
      BY <2>1, <2>3 DEF Cached
    <3>2. QED
      BY <3>1 DEF Prepared
  <2>4. QED
    BY <2>2, <2>3 DEF UsesInv, Before
<1>6. CASE pc' \notin Before \cup {"stages"}
  BY <1>6 DEF UsesInv
<1>7. CASE Interrupt \/ Edit \/ UNCHANGED vars
  <2>1. /\ pc' = pc /\ cache' = cache /\ start'.cache = start.cache /\ Stages' = Stages
        /\ stage' = stage /\ uses' = uses /\ calls' = calls /\ queue' = queue
        /\ active' = active /\ start'.edits = start.edits
        /\ edits' = edits \/ edits' # start.edits
    BY <1>7, EditChanges DEF Interrupt, Edit, vars, StateInv, Stages
  <2>2. ASSUME NEW item \in uses, Prepared(item) PROVE Prepared(item)'
    BY <2>1, <2>2, PreparedKept
  <2>3. QED
    BY <2>1, <2>2 DEF UsesInv
<1>8. \/ Start \/ Preflight \/ Walk \/ Admit \/ RemoveOutput
      \/ (\E step \in ToSet(Stages) : EnterStage(step)) \/ (Launch /\ pc' = "stages")
      \/ (CommandSucceeds /\ pc' = "stages") \/ pc' \notin Before \cup {"stages"}
      \/ Interrupt \/ Edit \/ UNCHANGED vars
  BY DEF Next, Step, Killed, StageFails, MetadataTooLong, Launch, CommandFails,
     CommandInterrupted, CommandSucceeds, Accept, Normalize, LastCheck, InFlight, Before
<1>9. QED
  BY <1>1, <1>2, <1>3, <1>4, <1>5, <1>6, <1>7, <1>8

(* No configuration appears or goes between preflight and its stage, but by an
   edit. *)
LEMMA ConfigStep ==
  ASSUME StateInv, CacheInv, ConfigInv, [Next]_vars
  PROVE  ConfigInv'
<1>. USE DEF Stay, fixed, locals, place, disk, Return
<1>1. CASE Preflight
  <2>1. pc' = "idle" \/ config' = (family = "TypeScript" /\ Generates)
    BY <1>1 DEF Preflight
  <2>2. /\ pc = "preflight" /\ cache' = cache /\ workspace' = workspace /\ start' = start
        /\ family' = family
    BY <1>1 DEF Preflight, Untouched
  <2>3. cache = start.cache
    BY <2>2 DEF CacheInv, Before
  <2>4. QED
    BY <2>1, <2>2, <2>3 DEF ConfigInv, Generates
<1>2. CASE Start
  BY <1>2 DEF Start, ConfigInv
<1>3. CASE Edit
  BY <1>3, EditChanges DEF ConfigInv, StateInv
<1>4. CASE /\ config' = config /\ family' = family /\ workspace' = workspace
           /\ start' = start /\ edits' = edits
           /\ pc' # "idle" => pc \notin {"idle", "preflight"} \/ pc' = pc
  BY <1>4 DEF ConfigInv
<1>5. \/ Preflight \/ Start \/ Edit
      \/ /\ config' = config /\ family' = family /\ workspace' = workspace
         /\ start' = start /\ edits' = edits
         /\ pc' # "idle" => pc \notin {"idle", "preflight"} \/ pc' = pc
  <2>1. CASE UNCHANGED vars
    BY <2>1 DEF vars
  <2>2. CASE Killed
    BY <2>2 DEF Killed, Leftover
  <2>3. CASE Interrupt
    BY <2>3 DEF Interrupt
  <2>4. CASE CommandFails \/ CommandInterrupted
    BY <2>4 DEF CommandFails, CommandInterrupted, Leftover
  <2>5. CASE Step /\ ~CommandFails /\ ~CommandInterrupted /\ ~Preflight
    BY <2>5 DEF Step, Walk, Admit, RemoveOutput, EnterStage, AtStage, StageFails,
       MetadataTooLong, Launch, CommandSucceeds, InFlight, Accept, Normalize, LastCheck
  <2>6. QED
    BY <2>1, <2>2, <2>3, <2>4, <2>5 DEF Next, Step
<1>6. QED
  BY <1>1, <1>2, <1>3, <1>4, <1>5

(* When the index command runs, all it is pointed at was finished. *)
THEOREM WellPrepared == Spec => []IndexWellPrepared
<1>1. Init => PreparedInv
  BY DEF Init, PreparedInv, CacheInv, UsesInv, ConfigInv, Before
<1>2. StateInv /\ PreparedInv /\ [Next]_vars => PreparedInv'
  BY CacheStep, UsesStep, ConfigStep DEF PreparedInv
<1>3. ASSUME StateInv, PreparedInv PROVE IndexWellPrepared
  <2>1. ASSUME InFlight, active = Command("index"), NEW item \in uses PROVE Prepared(item)
    <3>1. pc = "stages" /\ active # NoCommand /\ item \in Cached
      BY <1>3, <2>1 DEF InFlight, StateInv, TypeInv
    <3>2. Stages[stage] = "index"
      BY <1>3, <2>1, <3>1, CommandsProperties DEF StateInv, QueueInv, StageInv
    <3>3. item # Stages[stage]
      BY <3>1, <3>2 DEF Cached
    <3>4. QED
      BY <1>3, <3>1, <3>3 DEF PreparedInv, UsesInv
  <2>2. QED
    BY <2>1 DEF IndexWellPrepared
<1>4. QED
  BY <1>1, <1>2, <1>3, StateInvariance, PTL DEF Spec

-----------------------------------------------------------------------------
(* The walk.                                                               *)

\* A directory the walk may descend into.
Open(dir) ==
  /\ dir \in Seq(STRING)
  /\ \A i \in 1..Len(dir) :
       dir[i] \notin Hidden \cup Generated /\ SubSeq(dir, 1, i) \notin Links

\* The files that must be found.
Sought == {f \in start.stable \cap ToSet(Wanted) : InTree(f)}

\* A directory on the way to f is still to be read.
ToCome(f) == \E k \in 0..Len(f) - 1 : SubSeq(f, 1, k) \in pending

WalkInv ==
  family = "Dotnet" =>
    /\ pc \notin {"idle", "preflight"} => \A f \in ToSet(found) : InTree(f)
    /\ pc = "walk" => \A dir \in pending : Open(dir)
    /\ pc = "walk" => \A f \in Sought : f \in ToSet(found) \/ ToCome(f)
    /\ pc \notin {"idle", "preflight", "walk"} => Sought \subseteq ToSet(found)
    /\ pc = "preflight" => found = <<>>

(* A prefix, name by name. *)
LEMMA PrefixNames ==
  ASSUME NEW s \in Seq(STRING), NEW t \in Seq(STRING)
  PROVE  IsStrictPrefix(s, t) <=> Len(s) < Len(t) /\ \A i \in 1..Len(s) : s[i] = t[i]
<1>. DEFINE U == STRING
<1>. HIDE DEF U
<1>1. s \in Seq(U) /\ t \in Seq(U) /\ Len(s) \in Nat /\ Len(t) \in Nat
  BY LenProperties DEF U
<1>2. ASSUME Len(s) <= Len(t)
      PROVE  /\ SubSeq(t, 1, Len(s)) \in Seq(U) /\ Len(SubSeq(t, 1, Len(s))) = Len(s)
             /\ \A i \in 1..Len(s) : SubSeq(t, 1, Len(s))[i] = t[i]
  <2>1. \A i \in 1..Len(s) : t[i] \in U
    BY <1>1, <1>2, ElementOfSeq
  <2>2. QED
    BY <1>1, <2>1, SubSeqProperties
<1>3. SubSeq(s, 1, Len(s)) = s
  BY <1>1
<1>4. ASSUME IsStrictPrefix(s, t)
      PROVE  Len(s) < Len(t) /\ \A i \in 1..Len(s) : s[i] = t[i]
  <2>1. Len(s) <= Len(t) /\ s = SubSeq(t, 1, Len(s)) /\ s # t
    BY <1>3, <1>4 DEF IsStrictPrefix, IsPrefix
  <2>2. \A i \in 1..Len(s) : s[i] = t[i]
    BY <1>2, <2>1
  <2>3. Len(s) # Len(t)
    BY <1>1, <2>1, <2>2, SeqEqual
  <2>4. QED
    BY <1>1, <2>1, <2>2, <2>3
<1>5. ASSUME Len(s) < Len(t), \A i \in 1..Len(s) : s[i] = t[i]
      PROVE  IsStrictPrefix(s, t)
  <2>1. s = SubSeq(t, 1, Len(s))
    BY <1>1, <1>2, <1>5, SeqEqual
  <2>2. s # t /\ Len(s) <= Len(t)
    BY <1>1, <1>5
  <2>3. QED
    BY <1>3, <2>1, <2>2 DEF IsStrictPrefix, IsPrefix
<1>6. QED
  BY <1>4, <1>5

(* A path up to one of its names. *)
LEMMA UpToName ==
  ASSUME NEW f \in Seq(STRING), NEW k \in 0..Len(f)
  PROVE  /\ SubSeq(f, 1, k) \in Seq(STRING) /\ Len(SubSeq(f, 1, k)) = k
         /\ \A i \in 1..k : SubSeq(f, 1, k)[i] = f[i]
         /\ \A i \in 1..k : SubSeq(SubSeq(f, 1, k), 1, i) = SubSeq(f, 1, i)
         /\ k = Len(f) => SubSeq(f, 1, k) = f
<1>. DEFINE U == STRING
<1>. HIDE DEF U
<1>1. f \in Seq(U) /\ Len(f) \in Nat /\ k \in Nat
  BY LenProperties DEF U
<1>2. ASSUME NEW g \in Seq(U), NEW m \in 0..Len(g)
      PROVE  /\ SubSeq(g, 1, m) \in Seq(U) /\ Len(SubSeq(g, 1, m)) = m
             /\ \A i \in 1..m : SubSeq(g, 1, m)[i] = g[i]
  <2>1. Len(g) \in Nat /\ \A i \in 1..m : i \in 1..Len(g)
    BY LenProperties
  <2>2. \A i \in 1..m : g[i] \in U
    BY <2>1, ElementOfSeq
  <2>3. QED
    BY <2>1, <2>2, SubSeqProperties
<1>3. /\ SubSeq(f, 1, k) \in Seq(U) /\ Len(SubSeq(f, 1, k)) = k
      /\ \A i \in 1..k : SubSeq(f, 1, k)[i] = f[i]
  BY <1>1, <1>2
<1>4. ASSUME NEW i \in 1..k PROVE SubSeq(SubSeq(f, 1, k), 1, i) = SubSeq(f, 1, i)
  <2>. DEFINE g == SubSeq(f, 1, k)
  <2>1. i \in 0..Len(g) /\ i \in 0..Len(f) /\ \A j \in 1..i : j \in 1..k
    BY <1>1, <1>3
  <2>2. g \in Seq(U) /\ \A j \in 1..k : g[j] = f[j]
    BY <1>3
  <2>. HIDE DEF g
  <2>3. /\ SubSeq(g, 1, i) \in Seq(U) /\ Len(SubSeq(g, 1, i)) = i
        /\ \A j \in 1..i : SubSeq(g, 1, i)[j] = g[j]
    BY <1>2, <2>1, <2>2
  <2>4. /\ SubSeq(f, 1, i) \in Seq(U) /\ Len(SubSeq(f, 1, i)) = i
        /\ \A j \in 1..i : SubSeq(f, 1, i)[j] = f[j]
    BY <1>1, <1>2, <2>1
  <2>5. \A j \in 1..i : SubSeq(g, 1, i)[j] = SubSeq(f, 1, i)[j]
    BY <2>1, <2>2, <2>3, <2>4
  <2>6. SubSeq(g, 1, i) = SubSeq(f, 1, i)
    BY <2>3, <2>4, <2>5, SeqEqual
  <2>7. QED
    BY <2>6 DEF g
<1>5. k = Len(f) => SubSeq(f, 1, k) = f
  BY <1>1
<1>6. QED
  BY <1>3, <1>4, <1>5 DEF U

(* An entry of a directory is the next name on the way to a file below it. *)
LEMMA EntryProperties ==
  ASSUME NEW dir \in Seq(STRING), NEW files \in SUBSET Seq(STRING), NEW e \in Entries(dir, files)
  PROVE  /\ e \in Seq(STRING) /\ Len(e) = Len(dir) + 1 /\ Last(e) = e[Len(dir) + 1]
         /\ \A i \in 1..Len(dir) : e[i] = dir[i] /\ SubSeq(e, 1, i) = SubSeq(dir, 1, i)
         /\ SubSeq(e, 1, Len(e)) = e
<1>1. PICK g \in files : IsStrictPrefix(dir, g) /\ e = SubSeq(g, 1, Len(dir) + 1)
  BY DEF Entries
<1>2. g \in Seq(STRING) /\ Len(dir) \in Nat /\ Len(g) \in Nat
  BY LenProperties
<1>3. Len(dir) < Len(g) /\ \A i \in 1..Len(dir) : dir[i] = g[i]
  BY <1>1, <1>2, PrefixNames
<1>4. Len(dir) + 1 \in 0..Len(g) /\ Len(dir) \in 0..Len(g)
  BY <1>2, <1>3
<1>5. /\ e \in Seq(STRING) /\ Len(e) = Len(dir) + 1
      /\ \A i \in 1..Len(dir) + 1 : e[i] = g[i] /\ SubSeq(e, 1, i) = SubSeq(g, 1, i)
  BY <1>1, <1>2, <1>4, UpToName
<1>6. ASSUME NEW i \in 1..Len(dir) PROVE e[i] = dir[i] /\ SubSeq(e, 1, i) = SubSeq(dir, 1, i)
  <2>1. i \in 1..Len(dir) + 1
    BY <1>2
  <2>2. SubSeq(g, 1, Len(dir)) = dir
    <3>1. /\ SubSeq(g, 1, Len(dir)) \in Seq(STRING) /\ Len(SubSeq(g, 1, Len(dir))) = Len(dir)
          /\ \A j \in 1..Len(dir) : SubSeq(g, 1, Len(dir))[j] = g[j]
      BY <1>2, <1>4, UpToName
    <3>2. \A j \in 1..Len(dir) : SubSeq(g, 1, Len(dir))[j] = dir[j]
      BY <1>3, <3>1
    <3>. DEFINE U == STRING
    <3>. HIDE DEF U
    <3>3. SubSeq(g, 1, Len(dir)) \in Seq(U) /\ dir \in Seq(U)
      BY <3>1 DEF U
    <3>4. QED
      BY <3>1, <3>2, <3>3, SeqEqual
  <2>3. SubSeq(dir, 1, i) = SubSeq(g, 1, i)
    BY <1>2, <1>4, <2>2, UpToName
  <2>4. QED
    BY <1>3, <1>5, <2>1, <2>3
<1>7. SubSeq(e, 1, Len(e)) = e
  BY <1>5
<1>8. QED
  BY <1>5, <1>6, <1>7 DEF Last

(* The files of a .NET workspace. *)
LEMMA DotnetFiles ==
  ASSUME TypeInv, family = "Dotnet"
  PROVE  /\ ToSet(Wanted) = ToSet(Solutions \o Projects)
         /\ ToSet(Wanted) = ToSet(Solutions) \cup ToSet(Projects)
         /\ ToSet(Wanted) \in SUBSET Seq(STRING)
         /\ workspace \subseteq ToSet(Wanted) /\ start.stable \subseteq workspace
         /\ \A f, g \in ToSet(Wanted) : f # <<>> /\ ~IsStrictPrefix(f, g)
<1>1. Wanted = Solutions \o Projects /\ Wanted \in Seq(Seq(STRING))
  BY WantedProperties
<1>2. ToSet(Wanted) \in SUBSET Seq(STRING)
  <2>1. \A i \in DOMAIN Wanted : Wanted[i] \in Seq(STRING)
    <3>. DEFINE U == Seq(STRING)
    <3>. HIDE DEF U
    <3>1. Wanted \in Seq(U)
      BY <1>1 DEF U
    <3>2. \A i \in DOMAIN Wanted : Wanted[i] \in U
      BY <3>1, LenProperties, ElementOfSeq
    <3>3. QED
      BY <3>2 DEF U
  <2>2. QED
    BY <2>1 DEF ToSet
<1>3. ToSet(Solutions \o Projects) = ToSet(Solutions) \cup ToSet(Projects)
  <2>. DEFINE U == Seq(STRING)
       both == Solutions \o Projects
       m == Len(Solutions)
       n == Len(Projects)
  <2>. HIDE DEF U
  <2>1. Solutions \in Seq(U) /\ Projects \in Seq(U)
    BY TreeAssumption DEF U
  <2>2. /\ Len(both) = m + n /\ \A i \in 1..m : both[i] = Solutions[i]
        /\ \A j \in 1..n : both[m + j] = Projects[j]
        /\ both \in Seq(U)
    <3>1. /\ Len(both) = m + n /\ both \in Seq(U)
          /\ \A i \in 1..m + n : both[i] = IF i <= m THEN Solutions[i] ELSE Projects[i - m]
      BY <2>1, ConcatProperties
    <3>2. m \in Nat /\ n \in Nat
      BY <2>1, LenProperties
    <3>. HIDE DEF both, m, n
    <3>3. \A i \in 1..m : i \in 1..m + n /\ i <= m
      BY <3>2
    <3>4. \A j \in 1..n : m + j \in 1..m + n /\ ~(m + j <= m) /\ (m + j) - m = j
      BY <3>2
    <3>5. QED
      BY <3>1, <3>3, <3>4
  <2>3. /\ DOMAIN both = 1..m + n /\ DOMAIN Solutions = 1..m /\ DOMAIN Projects = 1..n
        /\ m \in Nat /\ n \in Nat
    BY <2>1, <2>2, LenProperties
  <2>4. \A k \in 1..m + n : k \in 1..m \/ (k - m \in 1..n /\ m + (k - m) = k)
    BY <2>3
  <2>5. \A i \in 1..m : i \in 1..m + n
    BY <2>3
  <2>6. \A j \in 1..n : m + j \in 1..m + n
    BY <2>3
  <2>. HIDE DEF both, m, n
  <2>7. ToSet(both) \subseteq ToSet(Solutions) \cup ToSet(Projects)
    <3>1. ASSUME NEW k \in 1..m + n PROVE both[k] \in ToSet(Solutions) \cup ToSet(Projects)
      <4>1. CASE k \in 1..m
        BY <2>2, <2>3, <4>1 DEF ToSet
      <4>2. CASE k - m \in 1..n /\ m + (k - m) = k
        <5>1. both[k] = Projects[k - m]
          BY <2>2, <4>2
        <5>2. QED
          BY <2>3, <4>2, <5>1 DEF ToSet
      <4>3. QED
        BY <2>4, <4>1, <4>2
    <3>2. QED
      BY <2>3, <3>1 DEF ToSet
  <2>8. ToSet(Solutions) \subseteq ToSet(both)
    BY <2>2, <2>3, <2>5 DEF ToSet
  <2>9. ToSet(Projects) \subseteq ToSet(both)
    BY <2>2, <2>3, <2>6 DEF ToSet
  <2>10. QED
    BY <2>7, <2>8, <2>9 DEF both
<1>4. workspace \subseteq ToSet(Solutions) \cup ToSet(Projects)
  BY DEF TypeInv, LooksFor
<1>5. QED
  BY <1>1, <1>2, <1>3, <1>4, TreeAssumption DEF TypeInv

(* What a directory of the tree holds is in the tree. *)
LEMMA WalkFinds ==
  ASSUME TypeInv, family = "Dotnet", NEW dir, Open(dir)
  PROVE  /\ \A f \in Matches(dir, TRUE, workspace, ToSet(Wanted)) : InTree(f)
         /\ \A d \in Subdirectories(dir, TRUE, workspace) : Open(d)
<1>1. workspace \in SUBSET Seq(STRING) /\ dir \in Seq(STRING) /\ Len(dir) \in Nat
  BY DotnetFiles, LenProperties DEF Open
<1>2. \A i \in 1..Len(dir) : dir[i] \notin Hidden \cup Generated /\ SubSeq(dir, 1, i) \notin Links
  BY DEF Open
<1>3. ASSUME NEW e \in Entries(dir, workspace), Visible(e), e \notin Links
      PROVE  /\ e \in Seq(STRING) /\ Len(e) = Len(dir) + 1 /\ DOMAIN e = 1..Len(e)
             /\ Last(e) = e[Len(e)]
             /\ \A i \in 1..Len(e) : e[i] \notin Hidden /\ SubSeq(e, 1, i) \notin Links
             /\ \A i \in 1..Len(dir) : e[i] \notin Generated
  <2>1. /\ e \in Seq(STRING) /\ Len(e) = Len(dir) + 1 /\ Last(e) = e[Len(dir) + 1]
        /\ \A i \in 1..Len(dir) : e[i] = dir[i] /\ SubSeq(e, 1, i) = SubSeq(dir, 1, i)
        /\ SubSeq(e, 1, Len(e)) = e
    BY <1>1, EntryProperties
  <2>2. \A i \in 1..Len(e) : i \in 1..Len(dir) \/ i = Len(e)
    BY <1>1, <2>1
  <2>3. e[Len(e)] \notin Hidden
    BY <1>3, <2>1 DEF Visible
  <2>4. \A i \in 1..Len(e) : e[i] \notin Hidden /\ SubSeq(e, 1, i) \notin Links
    BY <1>2, <1>3, <2>1, <2>2, <2>3
  <2>5. QED
    BY <1>2, <2>1, <2>4, LenProperties
<1>4. ASSUME NEW f \in Matches(dir, TRUE, workspace, ToSet(Wanted)) PROVE InTree(f)
  <2>1. f \in Entries(dir, workspace) /\ Visible(f) /\ f \notin Links
    BY DEF Matches, IsFile
  <2>2. \A i \in 1..Len(f) - 1 : i \in 1..Len(dir)
    BY <1>1, <1>3, <2>1
  <2>3. QED
    BY <1>3, <2>1, <2>2 DEF InTree
<1>5. ASSUME NEW d \in Subdirectories(dir, TRUE, workspace) PROVE Open(d)
  <2>1. /\ d \in Entries(dir, workspace) /\ Visible(d) /\ d \notin Links
        /\ Last(d) \notin Generated
    BY DEF Subdirectories, IsDirectory
  <2>2. \A i \in 1..Len(d) : i \in 1..Len(dir) \/ i = Len(d)
    BY <1>1, <1>3, <2>1
  <2>3. QED
    BY <1>3, <2>1, <2>2 DEF Open
<1>6. QED
  BY <1>4, <1>5

(* A file the walk must find is an entry of the directory, or below one. *)
LEMMA WalkGoesOn ==
  ASSUME TypeInv, family = "Dotnet", NEW f \in Sought, NEW k \in 0..Len(f) - 1
  PROVE  \/ f \in Matches(SubSeq(f, 1, k), TRUE, workspace, ToSet(Wanted))
         \/ /\ k + 1 \in 0..Len(f) - 1
            /\ SubSeq(f, 1, k + 1) \in Subdirectories(SubSeq(f, 1, k), TRUE, workspace)
<1>. DEFINE dir == SubSeq(f, 1, k)
     e == SubSeq(f, 1, k + 1)
<1>1. f \in ToSet(Wanted) /\ f \in workspace /\ InTree(f) /\ f \in Seq(STRING)
  BY DotnetFiles DEF Sought
<1>2. Len(f) \in Nat /\ k \in 0..Len(f) /\ k + 1 \in 0..Len(f) /\ k + 1 \in 1..Len(f) /\ k < Len(f)
      /\ DOMAIN f = 1..Len(f)
  BY <1>1, LenProperties
<1>3. /\ dir \in Seq(STRING) /\ Len(dir) = k /\ \A i \in 1..k : dir[i] = f[i]
      /\ e \in Seq(STRING) /\ Len(e) = k + 1 /\ \A i \in 1..k + 1 : e[i] = f[i]
      /\ SubSeq(f, 1, Len(f)) = f
  BY <1>1, <1>2, UpToName
<1>4. IsStrictPrefix(dir, f)
  BY <1>1, <1>2, <1>3, PrefixNames
<1>5. e \in Entries(dir, workspace)
  BY <1>1, <1>3, <1>4 DEF Entries
<1>6. /\ \A i \in 1..Len(f) : f[i] \notin Hidden /\ SubSeq(f, 1, i) \notin Links
      /\ \A i \in 1..Len(f) - 1 : f[i] \notin Generated
  BY <1>1, <1>2 DEF InTree
<1>7. Last(e) = f[k + 1] /\ Visible(e) /\ e \notin Links
  <2>1. k + 1 \in 1..k + 1
    BY <1>2
  <2>2. QED
    BY <1>2, <1>3, <1>6, <2>1 DEF Last, Visible
<1>8. CASE k + 1 = Len(f)
  <2>1. e = f
    BY <1>3, <1>8
  <2>2. QED
    BY <1>1, <1>5, <1>7, <2>1 DEF Matches, IsFile
<1>9. CASE k + 1 # Len(f)
  <2>1. k + 1 \in 0..Len(f) - 1 /\ k + 1 \in 1..Len(f) - 1 /\ k + 1 < Len(f)
    <3>1. Len(f) \in Nat /\ k \in Nat /\ k + 1 <= Len(f)
      BY <1>2
    <3>2. QED
      BY <1>9, <3>1
  <2>2. IsStrictPrefix(e, f)
    BY <1>1, <1>3, <2>1, PrefixNames
  <2>3. e \notin workspace
    BY <1>1, <2>2, DotnetFiles
  <2>4. QED
    BY <1>5, <1>6, <1>7, <2>1, <2>3 DEF Subdirectories, IsDirectory
<1>10. QED
  BY <1>8, <1>9

(* A directory of the walk is read. *)
LEMMA WalkReads ==
  ASSUME StateInv, WalkInv, Walk, family = "Dotnet", pc' = "walk"
  PROVE  WalkInv'
<1>. USE DEF Stay, fixed, locals, place, disk
<1>1. PICK dir \in pending :
        LET matching == Matches(dir, Recursive, workspace, ToSet(Wanted)) IN
          /\ pending' = (pending \ {dir}) \cup Subdirectories(dir, Recursive, workspace)
          /\ found' = InOrder(Wanted, ToSet(found) \cup matching)
  BY DEF Walk, Return
<1>. DEFINE matching == Matches(dir, TRUE, workspace, ToSet(Wanted))
     below == Subdirectories(dir, TRUE, workspace)
<1>2. /\ pc = "walk" /\ family' = family /\ start' = start /\ workspace' = workspace
      /\ Wanted' = Wanted
  BY DEF Walk, Wanted
<1>3. pending' = (pending \ {dir}) \cup below /\ found' = InOrder(Wanted, ToSet(found) \cup matching)
  BY <1>1 DEF Recursive
<1>4. ToSet(found') = ToSet(found) \cup matching
  <2>. DEFINE U == Seq(STRING)
       S == ToSet(found) \cup matching
  <2>. HIDE DEF U
  <2>1. Wanted \in Seq(U) /\ ToSet(Wanted) = {Wanted[i] : i \in 1..Len(Wanted)}
    BY WantedProperties DEF U
  <2>2. ToSet(found) \subseteq ToSet(Wanted) /\ matching \subseteq ToSet(Wanted)
    BY DEF StateInv, FoundInv, Matches
  <2>. HIDE DEF S, matching
  <2>3. found' = InOrder(Wanted, S)
    BY <1>3 DEF S
  <2>4. found' \in Seq(U) /\ {found'[i] : i \in 1..Len(found')} = ToSet(Wanted) \cap S
    BY <2>1, <2>3, InOrderProperties
  <2>5. DOMAIN found' = 1..Len(found')
    BY <2>4, LenProperties
  <2>6. ToSet(found') = ToSet(Wanted) \cap S
    BY <2>4, <2>5 DEF ToSet
  <2>7. QED
    BY <2>2, <2>6 DEF S
<1>5. TypeInv /\ Open(dir)
  BY <1>2 DEF StateInv, WalkInv
<1>6. \A f \in ToSet(found') : InTree(f)
  BY <1>2, <1>4, <1>5, WalkFinds DEF WalkInv
<1>7. \A d \in pending' : Open(d)
  BY <1>2, <1>3, <1>5, WalkFinds DEF WalkInv
<1>8. ASSUME NEW f \in Sought
      PROVE  f \in ToSet(found') \/ \E k \in 0..Len(f) - 1 : SubSeq(f, 1, k) \in pending'
  <2>1. f \in ToSet(found) \/ \E k \in 0..Len(f) - 1 : SubSeq(f, 1, k) \in pending
    BY <1>2 DEF WalkInv, ToCome
  <2>2. CASE f \in ToSet(found)
    BY <1>4, <2>2
  <2>3. ASSUME NEW k \in 0..Len(f) - 1, SubSeq(f, 1, k) \in pending
        PROVE  f \in ToSet(found') \/ \E l \in 0..Len(f) - 1 : SubSeq(f, 1, l) \in pending'
    <3>1. CASE SubSeq(f, 1, k) # dir
      BY <1>3, <2>3, <3>1
    <3>2. CASE SubSeq(f, 1, k) = dir
      <4>1. f \in matching \/ (k + 1 \in 0..Len(f) - 1 /\ SubSeq(f, 1, k + 1) \in below)
        BY <1>5, <3>2, WalkGoesOn
      <4>2. QED
        BY <1>3, <1>4, <4>1
    <3>3. QED
      BY <3>1, <3>2
  <2>4. QED
    BY <2>1, <2>2, <2>3
<1>9. Sought' = Sought
  BY <1>2 DEF Sought
<1>10. QED
  <2>1. \A f \in Sought' : f \in ToSet(found)' \/ ToCome(f)'
    BY <1>8, <1>9 DEF ToCome
  <2>2. QED
    BY <1>6, <1>7, <2>1 DEF WalkInv, Open, InTree

(* No step loses a file that must be found. *)
LEMMA WalkStep ==
  ASSUME StateInv, WalkInv, [Next]_vars
  PROVE  WalkInv'
<1>. USE DEF Stay, fixed, locals, place, disk, Return
<1>1. CASE family' # "Dotnet"
  BY <1>1 DEF WalkInv
<1>2. CASE pc' = "idle"
  BY <1>2 DEF WalkInv
<1>3. CASE Start
  BY <1>3 DEF Start, WalkInv
<1>4. CASE Walk /\ pc' = "walk" /\ family' = "Dotnet"
  <2>1. family = "Dotnet"
    BY <1>4 DEF Walk
  <2>2. QED
    BY <1>4, <2>1, WalkReads
<1>5. CASE Preflight /\ pc' = "walk" /\ family' = "Dotnet"
  <2>1. /\ pc = "preflight" /\ family = "Dotnet" /\ found' = found /\ pending' = {<<>>}
        /\ start' = start /\ family' = family
    BY <1>5 DEF Preflight, Discovers
  <2>2. found' = <<>> /\ ToSet(found') = {}
    BY <2>1 DEF WalkInv, ToSet
  <2>3. Open(<<>>)
    <3>1. <<>> \in Seq(STRING) /\ Len(<<>>) = 0 /\ 1..0 = {}
      BY EmptySeq
    <3>2. QED
      BY <3>1 DEF Open
  <2>4. ASSUME NEW f \in Sought PROVE 0 \in 0..Len(f) - 1 /\ SubSeq(f, 1, 0) = <<>>
    <3>1. f \in Seq(STRING) /\ f # <<>>
      BY <2>1, DotnetFiles DEF Sought, StateInv
    <3>2. Len(f) \in Nat /\ Len(f) # 0
      BY <3>1, LenProperties, EmptySeq
    <3>3. SubSeq(f, 1, 0) = <<>>
      BY <3>1, <3>2
    <3>4. QED
      BY <3>2, <3>3
  <2>5. Sought' = Sought
    BY <2>1 DEF Sought, Wanted
  <2>6. \A f \in Sought' : ToCome(f)'
    BY <2>1, <2>4, <2>5 DEF ToCome
  <2>7. \A dir \in pending' : Open(dir)
    BY <2>1, <2>3
  <2>8. QED
    BY <1>5, <2>1, <2>2, <2>6, <2>7 DEF WalkInv, Open
<1>6. CASE Admit /\ pc' # "idle"
  <2>1. /\ pc = "walk" /\ pc' = "remove" /\ pending = {} /\ found' = found /\ start' = start
        /\ family' = family
    BY <1>6 DEF Admit
  <2>2. \A f \in Sought : ~ToCome(f)
    BY <2>1 DEF ToCome
  <2>3. Sought' = Sought
    BY <2>1 DEF Sought, Wanted
  <2>4. QED
    BY <2>1, <2>2, <2>3 DEF WalkInv, InTree
<1>7. CASE /\ pc \notin {"idle", "preflight", "walk"} /\ pc' \notin {"idle", "preflight", "walk"}
           /\ found' = found /\ start' = start /\ family' = family
  <2>1. Sought' = Sought
    BY <1>7 DEF Sought, Wanted
  <2>2. QED
    BY <1>7, <2>1 DEF WalkInv, InTree
<1>8. CASE Interrupt \/ Edit \/ UNCHANGED vars
  <2>1. /\ pc' = pc /\ found' = found /\ family' = family /\ pending' = pending
        /\ start'.stable \subseteq start.stable
    BY <1>8, EditChanges DEF Interrupt, Edit, vars, StateInv
  <2>2. Sought' \subseteq Sought
    BY <2>1 DEF Sought, Wanted
  <2>3. \A f \in Sought' : ToCome(f) => ToCome(f)'
    BY <2>1 DEF ToCome
  <2>4. QED
    BY <2>1, <2>2, <2>3 DEF WalkInv, InTree, Open
<1>9. \/ pc' = "idle" \/ family' # "Dotnet" \/ Start
      \/ (Walk /\ pc' = "walk" /\ family' = "Dotnet")
      \/ (Preflight /\ pc' = "walk" /\ family' = "Dotnet") \/ (Admit /\ pc' # "idle")
      \/ /\ pc \notin {"idle", "preflight", "walk"} /\ pc' \notin {"idle", "preflight", "walk"}
         /\ found' = found /\ start' = start /\ family' = family
      \/ Interrupt \/ Edit \/ UNCHANGED vars
  <2>1. CASE Preflight \/ Walk \/ Admit
    BY <2>1 DEF Preflight, Walk, Admit
  <2>2. CASE RemoveOutput \/ Launch \/ CommandSucceeds \/ (\E step \in ToSet(Stages) : EnterStage(step))
    BY <2>2 DEF RemoveOutput, Launch, CommandSucceeds, InFlight, EnterStage, AtStage
  <2>3. CASE StageFails \/ MetadataTooLong \/ CommandFails \/ CommandInterrupted \/ Killed \/ LastCheck
    BY <2>3 DEF StageFails, MetadataTooLong, CommandFails, CommandInterrupted, Killed, LastCheck
  <2>4. CASE Accept \/ Normalize
    BY <2>4 DEF Accept, Normalize
  <2>5. QED
    BY <2>1, <2>2, <2>3, <2>4 DEF Next, Step
<1>10. QED
  BY <1>1, <1>2, <1>3, <1>4, <1>5, <1>6, <1>7, <1>8, <1>9

-----------------------------------------------------------------------------
(* The solutions.                                                          *)

Solved == ToSet(found) \cap ToSet(Solutions)
CoveredBy(s) == {Covers(s, line) : line \in Listed[s]}
Entered == queue # <<>> \/ active # NoCommand
Waiting(c) == c \in ToSet(queue) \cup {active}

\* A solution is listed, or its command is still to come; then its projects are
\* restored.
CoverInv ==
  family = "Dotnet" =>
    /\ pc \in Before => covered = {}
    /\ pc = "stages" =>
         /\ covered \subseteq UNION {CoveredBy(s) : s \in Solved}
         /\ \A s \in Solved : CoveredBy(s) \subseteq covered
              \/ (stage = 1 /\ (Entered => Waiting(<<"list", s>>)))
         /\ \A c \in Commands : stage = 1 /\ Waiting(c) => c[2] \in Solved
         /\ \A f \in ToSet(Inputs) : stage = 1 \/ <<"restore", f>> \in calls
              \/ (stage = 2 /\ (Entered => Waiting(<<"restore", f>>)))

(* What a .NET stage has to do. *)
LEMMA DotnetWork ==
  ASSUME FoundInv, family = "Dotnet"
  PROVE  /\ ToSet(Work("list")) = {<<"list", s>> : s \in Solved}
         /\ ToSet(Work("restore")) = {<<"restore", f>> : f \in ToSet(Inputs)}
         /\ Work("index") = <<Command("index")>>
         /\ Solved \subseteq ToSet(Solutions)
         /\ ToSet(Inputs) = {f \in ToSet(found) : Workspace \o f \notin covered}
<1>1. ToSet(found) \subseteq ToSet(Solutions \o Projects)
  BY WantedProperties DEF FoundInv
<1>2. ASSUME NEW S, NEW step \in {"list", "restore"}
      PROVE  ToSet(Each(step, InOrder(found, S))) = {<<step, f>> : f \in ToSet(found) \cap S}
  <2>. DEFINE part == InOrder(found, S)
  <2>1. /\ part \in Seq(Seq(STRING)) /\ IsInjective(part)
        /\ ToSet(part) = ToSet(found) \cap S
    BY FoundParts
  <2>2. ToSet(part) \subseteq ToSet(Solutions \o Projects)
    BY <1>1, <2>1
  <2>. HIDE DEF part
  <2>3. ToSet(Each(step, part)) = {<<step, f>> : f \in ToSet(part)}
    BY <2>1, <2>2, EachProperties
  <2>4. QED
    BY <2>1, <2>3 DEF part
<1>3. ToSet(Inputs) = {f \in ToSet(found) : Workspace \o f \notin covered}
  BY FoundParts DEF Inputs
<1>4. ToSet(Work("list")) = {<<"list", s>> : s \in Solved}
  BY <1>2 DEF Work, Solved
<1>5. ToSet(Work("restore")) = {<<"restore", f>> : f \in ToSet(Inputs)}
  <2>. DEFINE S == {f \in ToSet(found) : Workspace \o f \notin covered}
  <2>1. Work("restore") = Each("restore", InOrder(found, S))
    BY DEF Work, Inputs
  <2>2. ToSet(Inputs) = ToSet(found) \cap S
    BY <1>3
  <2>. HIDE DEF S
  <2>3. QED
    BY <1>2, <2>1, <2>2
<1>6. Work("index") = <<Command("index")>>
  BY DEF Work, Needed
<1>7. QED
  BY <1>3, <1>4, <1>5, <1>6 DEF Solved

(* A .NET stage is entered: its commands wait, one for each file. *)
LEMMA CoverEnters ==
  ASSUME StateInv, CoverInv, family = "Dotnet", NEW step \in ToSet(Stages), EnterStage(step)
  PROVE  CoverInv'
<1>1. /\ pc = "stages" /\ pc' = "stages" /\ active = NoCommand /\ active' = NoCommand
      /\ queue = <<>> /\ queue' = Work(step) /\ step = Stages[stage]
      /\ found' = found /\ covered' = covered /\ calls' = calls /\ family' = family
      /\ IF queue' = <<>> THEN stage' = stage + 1 ELSE stage' = stage
  BY DEF EnterStage, AtStage, fixed
<1>2. /\ stage \in 1..3 /\ Stages = <<"list", "restore", "index">> /\ FoundInv
  BY <1>1, StagesProperties DEF StateInv, QueueInv, StageInv
<1>3. /\ ToSet(Work("list")) = {<<"list", s>> : s \in Solved}
      /\ ToSet(Work("restore")) = {<<"restore", f>> : f \in ToSet(Inputs)}
      /\ Work("index") = <<Command("index")>>
  BY <1>2, DotnetWork
<1>4. /\ covered \subseteq UNION {CoveredBy(s) : s \in Solved}
      /\ \A s \in Solved : CoveredBy(s) \subseteq covered \/ stage = 1
      /\ \A f \in ToSet(Inputs) : stage \in {1, 2} \/ <<"restore", f>> \in calls
  BY <1>1 DEF CoverInv
<1>5. /\ Solved' = Solved /\ Inputs' = Inputs /\ \A s : CoveredBy(s)' = CoveredBy(s)
  BY <1>1 DEF Solved, Inputs, CoveredBy
<1>6. ToSet(<<>>) = {}
  BY DEF ToSet
<1>7. \A c \in Commands : c # NoCommand
  BY CommandsProperties
<1>8. CASE step = "list"
  <2>1. stage = 1
    BY <1>1, <1>2, <1>8
  <2>2. ToSet(queue') = {<<"list", s>> : s \in Solved}
    BY <1>1, <1>3, <1>8
  <2>3. \A c \in ToSet(queue') : c[2] \in Solved
    BY <2>2
  <2>4. CASE queue' = <<>>
    <3>1. \A s \in Solved : FALSE
      BY <1>6, <2>2, <2>4
    <3>2. Solved = {} /\ stage' = 2 /\ ~Entered'
      BY <1>1, <2>1, <2>4, <3>1 DEF Entered
    <3>3. QED
      BY <1>1, <1>4, <1>5, <3>2 DEF CoverInv, Before
  <2>5. CASE queue' # <<>>
    <3>1. stage' = 1 /\ \A s \in Solved : Waiting(<<"list", s>>)'
      BY <1>1, <2>1, <2>2, <2>5 DEF Waiting
    <3>2. \A c \in Commands : Waiting(c)' => c[2] \in Solved
      BY <1>1, <1>7, <2>3 DEF Waiting
    <3>3. Commands' = Commands
      BY DEF Commands, Command
    <3>4. QED
      BY <1>1, <1>4, <1>5, <3>1, <3>2, <3>3 DEF CoverInv, Before
  <2>6. QED
    BY <2>4, <2>5
<1>9. CASE step = "restore"
  <2>1. stage = 2 /\ stage' # 1
    BY <1>1, <1>2, <1>9
  <2>2. ToSet(queue') = {<<"restore", f>> : f \in ToSet(Inputs)}
    BY <1>1, <1>3, <1>9
  <2>3. CASE queue' = <<>>
    <3>1. ToSet(Inputs) = {}
      BY <1>6, <2>2, <2>3
    <3>2. QED
      BY <1>1, <1>4, <1>5, <2>1, <3>1 DEF CoverInv, Before
  <2>4. CASE queue' # <<>>
    <3>1. stage' = 2 /\ \A f \in ToSet(Inputs) : Waiting(<<"restore", f>>)'
      BY <1>1, <2>1, <2>2, <2>4 DEF Waiting
    <3>2. QED
      BY <1>1, <1>4, <1>5, <2>1, <3>1 DEF CoverInv, Before
  <2>5. QED
    BY <2>3, <2>4
<1>10. CASE step = "index"
  <2>1. stage = 3 /\ stage' = 3
    BY <1>1, <1>2, <1>3, <1>10
  <2>2. QED
    BY <1>1, <1>4, <1>5, <2>1 DEF CoverInv, Before
<1>11. step \in {"list", "restore", "index"}
  BY <1>1, <1>2
<1>12. QED
  BY <1>8, <1>9, <1>10, <1>11

(* A .NET command succeeds: a solution was listed, or an input restored. *)
LEMMA CoverSucceeds ==
  ASSUME StateInv, CoverInv, family = "Dotnet", CommandSucceeds, pc' = "stages"
  PROVE  CoverInv'
<1>1. /\ pc = "stages" /\ active # NoCommand /\ active' = NoCommand /\ active \in calls
      /\ calls' = calls /\ queue' = queue /\ found' = found /\ family' = family
      /\ stage \in 1..Len(Stages) /\ Tool = Stages[stage]
      /\ IF queue = <<>> THEN stage' = stage + 1 ELSE stage' = stage
  BY SucceedsInStage
<1>2. /\ stage \in 1..3 /\ Stages = <<"list", "restore", "index">>
  BY <1>1, StagesProperties
<1>3. covered' = IF Tool = "list" THEN covered \cup CoveredBy(active[2]) ELSE covered
  BY DEF CommandSucceeds, CoveredBy
<1>4. Tool # "index"
  BY DEF CommandSucceeds
<1>5. active \in Commands /\ Waiting(active) /\ active = <<active[1], active[2]>>
  BY <1>1, CommandsProperties DEF StateInv, QueueInv, Waiting
<1>6. /\ covered \subseteq UNION {CoveredBy(s) : s \in Solved}
      /\ \A s \in Solved : CoveredBy(s) \subseteq covered
           \/ (stage = 1 /\ Waiting(<<"list", s>>))
      /\ \A c \in Commands : stage = 1 /\ Waiting(c) => c[2] \in Solved
      /\ \A f \in ToSet(Inputs) : stage = 1 \/ <<"restore", f>> \in calls
           \/ (stage = 2 /\ Waiting(<<"restore", f>>))
  BY <1>1 DEF CoverInv, Entered
<1>7. Solved' = Solved /\ Commands' = Commands /\ \A s : CoveredBy(s)' = CoveredBy(s)
  BY <1>1 DEF Solved, CoveredBy, Commands, Command
<1>8. ASSUME NEW c PROVE Waiting(c) => c = active \/ (queue # <<>> /\ Waiting(c)')
  BY <1>1 DEF Waiting, ToSet
<1>9. ASSUME NEW c \in Commands, Waiting(c)' PROVE Waiting(c)
  BY <1>1, <1>9, CommandsProperties DEF Waiting
<1>10. CASE stage = 1
  <2>1. Tool = "list" /\ active = <<"list", active[2]>> /\ active[2] \in Solved
    BY <1>1, <1>2, <1>5, <1>6, <1>10 DEF Tool
  <2>2. covered' = covered \cup CoveredBy(active[2])
    BY <1>3, <2>1
  <2>3. covered' \subseteq UNION {CoveredBy(s) : s \in Solved}
    BY <1>6, <2>1, <2>2
  <2>4. ASSUME NEW s \in Solved
        PROVE  CoveredBy(s) \subseteq covered' \/ (stage' = 1 /\ Waiting(<<"list", s>>)')
    <3>1. CASE CoveredBy(s) \subseteq covered
      BY <2>2, <3>1
    <3>2. CASE Waiting(<<"list", s>>)
      <4>1. CASE <<"list", s>> = active
        BY <2>2, <4>1
      <4>2. CASE queue # <<>> /\ Waiting(<<"list", s>>)'
        BY <1>1, <1>10, <4>2
      <4>3. QED
        BY <1>8, <3>2, <4>1, <4>2
    <3>3. QED
      BY <1>6, <3>1, <3>2
  <2>5. \A c \in Commands : Waiting(c)' => c[2] \in Solved
    BY <1>6, <1>9, <1>10
  <2>6. stage' = 1 \/ (stage' = 2 /\ ~Entered')
    BY <1>1, <1>10 DEF Entered
  <2>7. QED
    BY <1>1, <1>7, <2>3, <2>4, <2>5, <2>6 DEF CoverInv, Before
<1>11. CASE stage = 2
  <2>1. Tool = "restore" /\ covered' = covered /\ stage' # 1
    BY <1>1, <1>2, <1>3, <1>11
  <2>2. Inputs' = Inputs
    BY <1>1, <2>1 DEF Inputs
  <2>3. ASSUME NEW f \in ToSet(Inputs)
        PROVE  <<"restore", f>> \in calls \/ (stage' = 2 /\ Waiting(<<"restore", f>>)')
    BY <1>1, <1>6, <1>8, <1>11
  <2>4. QED
    BY <1>1, <1>6, <1>7, <1>11, <2>1, <2>2, <2>3 DEF CoverInv, Before
<1>12. CASE stage = 3
  BY <1>1, <1>2, <1>4, <1>12
<1>13. QED
  BY <1>2, <1>10, <1>11, <1>12

(* What the solutions cover is known when their listing is over. *)
LEMMA CoverStep ==
  ASSUME StateInv, CoverInv, [Next]_vars
  PROVE  CoverInv'
<1>. USE DEF Stay, fixed, locals, place, disk, Return
<1>1. CASE family' # "Dotnet" \/ pc' \notin Before \cup {"stages"}
  BY <1>1 DEF CoverInv
<1>2. CASE Start
  BY <1>2 DEF Start, CoverInv, Before
<1>3. CASE (Preflight \/ Walk \/ Admit) /\ pc' \in Before /\ family' = "Dotnet"
  <2>1. pc \in Before /\ covered' = covered /\ family' = family /\ pc' # "stages"
    BY <1>3 DEF Preflight, Walk, Admit, Before
  <2>2. QED
    BY <1>3, <2>1 DEF CoverInv
<1>4. CASE RemoveOutput /\ pc' = "stages" /\ family' = "Dotnet"
  <2>1. /\ pc \in Before /\ covered' = covered /\ family' = family /\ found' = found
        /\ stage' = stage /\ queue' = queue /\ active' = active
    BY <1>4 DEF RemoveOutput, Before
  <2>2. stage = 1 /\ queue = <<>> /\ active = NoCommand /\ covered = {}
    BY <1>4, <2>1 DEF StateInv, QueueInv, CoverInv, Before
  <2>3. ~Entered' /\ \A c \in Commands : ~Waiting(c)'
    BY <2>1, <2>2, CommandsProperties DEF Entered, Waiting, ToSet
  <2>4. Commands' = Commands
    BY DEF Commands, Command
  <2>5. QED
    BY <1>4, <2>1, <2>2, <2>3, <2>4 DEF CoverInv, Before
<1>5. CASE (\E step \in ToSet(Stages) : EnterStage(step)) /\ family' = "Dotnet"
  <2>1. family = "Dotnet"
    BY <1>5 DEF EnterStage
  <2>2. QED
    BY <1>5, <2>1, CoverEnters
<1>6. CASE Launch /\ pc' = "stages" /\ family' = "Dotnet"
  <2>1. /\ pc = "stages" /\ active = NoCommand /\ queue # <<>> /\ stage' = stage
        /\ active' = Head(queue) /\ queue' = Tail(queue) /\ calls \subseteq calls'
        /\ found' = found /\ covered' = covered /\ family' = family
    BY <1>6 DEF Launch
  <2>2. /\ Head(queue) \in Commands /\ ToSet(queue) = {Head(queue)} \cup ToSet(Tail(queue))
    BY <2>1, Dequeue DEF StateInv, QueueInv
  <2>3. ASSUME NEW c PROVE c # NoCommand => (Waiting(c)' <=> Waiting(c))
    BY <2>1, <2>2 DEF Waiting
  <2>4. Entered
    BY <2>1 DEF Entered
  <2>5. /\ Commands' = Commands /\ Solved' = Solved /\ Inputs' = Inputs
        /\ \A s : CoveredBy(s)' = CoveredBy(s)
    BY <2>1 DEF Commands, Command, Solved, Inputs, CoveredBy
  <2>6. \A s : <<"list", s>> # NoCommand /\ <<"restore", s>> # NoCommand
    BY DEF NoCommand
  <2>7. \A c \in Commands : c # NoCommand
    BY CommandsProperties
  <2>8. /\ covered \subseteq UNION {CoveredBy(s) : s \in Solved}
        /\ \A s \in Solved : CoveredBy(s) \subseteq covered
             \/ (stage = 1 /\ Waiting(<<"list", s>>))
        /\ \A c \in Commands : stage = 1 /\ Waiting(c) => c[2] \in Solved
        /\ \A f \in ToSet(Inputs) : stage = 1 \/ <<"restore", f>> \in calls
             \/ (stage = 2 /\ Waiting(<<"restore", f>>))
    BY <1>6, <2>1, <2>4 DEF CoverInv
  <2>9. QED
    BY <1>6, <2>1, <2>3, <2>5, <2>6, <2>7, <2>8 DEF CoverInv, Before
<1>7. CASE CommandSucceeds /\ pc' = "stages" /\ family' = "Dotnet"
  <2>1. family = "Dotnet"
    BY <1>7 DEF CommandSucceeds
  <2>2. QED
    BY <1>7, <2>1, CoverSucceeds
<1>8. CASE Interrupt \/ Edit \/ UNCHANGED vars
  <2>1. /\ pc' = pc /\ found' = found /\ family' = family /\ covered' = covered
        /\ stage' = stage /\ queue' = queue /\ active' = active /\ calls' = calls
    BY <1>8 DEF Interrupt, Edit, vars
  <2>2. QED
    BY <2>1 DEF CoverInv, Solved, Inputs, CoveredBy, Entered, Waiting, Commands, Command
<1>9. \/ family' # "Dotnet" \/ pc' \notin Before \cup {"stages"} \/ Start
      \/ (Preflight \/ Walk \/ Admit) /\ pc' \in Before /\ family' = "Dotnet"
      \/ RemoveOutput /\ pc' = "stages" /\ family' = "Dotnet"
      \/ (\E step \in ToSet(Stages) : EnterStage(step)) /\ family' = "Dotnet"
      \/ Launch /\ pc' = "stages" /\ family' = "Dotnet"
      \/ CommandSucceeds /\ pc' = "stages" /\ family' = "Dotnet"
      \/ Interrupt \/ Edit \/ UNCHANGED vars
  <2>1. CASE Preflight \/ Walk \/ Admit \/ RemoveOutput
    BY <2>1 DEF Preflight, Walk, Admit, RemoveOutput, Before
  <2>2. CASE Launch \/ CommandSucceeds
    BY <2>2 DEF Launch, CommandSucceeds, InFlight, Before
  <2>3. CASE StageFails \/ MetadataTooLong \/ CommandFails \/ CommandInterrupted \/ Killed \/ LastCheck
             \/ Accept \/ Normalize
    BY <2>3 DEF StageFails, MetadataTooLong, CommandFails, CommandInterrupted, Killed, LastCheck,
       Accept, Normalize, Before
  <2>4. QED
    BY <2>1, <2>2, <2>3 DEF Next, Step
<1>10. QED
  BY <1>1, <1>2, <1>3, <1>4, <1>5, <1>6, <1>7, <1>8, <1>9

(* Without its dots a path has the same last name. *)
LEMMA DotlessProperties ==
  ASSUME NEW U, NEW path \in Seq(U)
  PROVE  /\ Dotless(path) \in Seq(U)
         /\ path # <<>> /\ Last(path) # "." =>
              Dotless(path) # <<>> /\ Last(Dotless(path)) = Last(path)
<1>. DEFINE S == ToSet(path) \ {"."}
<1>1. Len(path) \in Nat /\ DOMAIN path = 1..Len(path)
  BY LenProperties
<1>2. Dotless(path) = InOrder(path, S)
  BY DEF Dotless
<1>3. path # <<>> => Len(path) \in DOMAIN path
  BY <1>1, EmptySeq
<1>4. path # <<>> /\ Last(path) # "." => path[Len(path)] \in S
  BY <1>3 DEF Last, ToSet
<1>. HIDE DEF S
<1>5. InOrder(path, S) \in Seq(U)
  BY InOrderProperties
<1>6. path # <<>> /\ Last(path) # "." =>
        /\ InOrder(path, S) # <<>>
        /\ InOrder(path, S)[Len(InOrder(path, S))] = path[Len(path)]
  BY <1>4, InOrderLast
<1>7. QED
  BY <1>2, <1>5, <1>6 DEF Last

(* What a line covers is where it leads, and that is never a solution. *)
LEMMA CoversProperties ==
  ASSUME NEW s \in ToSet(Solutions), NEW line \in Listed[s]
  PROVE  /\ Covers(s, line) = Place(Dotless(Workspace \o Front(s) \o line))
         /\ \A t \in ToSet(Solutions) : Workspace \o t # Covers(s, line)
<1>. DEFINE path == Workspace \o Front(s) \o line
     U == STRING \cup {"workspace"}
<1>. HIDE DEF U
<1>0. \A t \in Seq(STRING) : t \in Seq(U)
  <2>1. ASSUME NEW t \in Seq(STRING) PROVE t \in Seq(U)
    <3>1. Len(t) \in Nat /\ t \in [1..Len(t) -> STRING]
      BY LenProperties
    <3>2. t \in [1..Len(t) -> U]
      BY <3>1 DEF U
    <3>3. QED
      BY <3>1, <3>2, SeqDef
  <2>2. QED
    BY <2>1
<1>1. \A t \in ToSet(Solutions) : t \in Seq(STRING) /\ t # <<>>
  <2>. DEFINE V == Seq(STRING)
  <2>1. Solutions \in Seq(V) /\ Projects \in Seq(V)
    BY TreeAssumption
  <2>. HIDE DEF V
  <2>2. /\ DOMAIN Solutions = 1..Len(Solutions) /\ Len(Solutions) \in Nat /\ Len(Projects) \in Nat
        /\ Len(Solutions \o Projects) = Len(Solutions) + Len(Projects)
        /\ Solutions \o Projects \in Seq(V)
        /\ \A i \in 1..Len(Solutions) + Len(Projects) :
             (Solutions \o Projects)[i] = IF i <= Len(Solutions) THEN Solutions[i]
                                          ELSE Projects[i - Len(Solutions)]
    BY <2>1, LenProperties, ConcatProperties
  <2>3. DOMAIN (Solutions \o Projects) = 1..Len(Solutions) + Len(Projects)
    BY <2>2, LenProperties
  <2>4. \A i \in 1..Len(Solutions) : i \in 1..Len(Solutions) + Len(Projects) /\ i <= Len(Solutions)
    BY <2>2
  <2>5. \A i \in DOMAIN Solutions : Solutions[i] \in ToSet(Solutions \o Projects)
    BY <2>2, <2>3, <2>4 DEF ToSet
  <2>6. \A i \in DOMAIN Solutions : Solutions[i] \in V
    BY <2>1, <2>2, ElementOfSeq
  <2>7. QED
    BY <2>5, <2>6, TreeAssumption DEF ToSet, V
<1>2. line \in Seq(U) /\ s \in Seq(U) /\ Workspace \in Seq(U) /\ line # <<>>
  <2>1. Listed[s] \in SUBSET Seq(STRING) /\ line # <<>>
    BY ListedAssumption
  <2>2. line \in Seq(STRING)
    BY <2>1
  <2>3. "workspace" \in U
    BY DEF U
  <2>4. Workspace \in Seq(U)
    BY <2>3 DEF Workspace
  <2>5. QED
    BY <1>0, <1>1, <2>1, <2>2, <2>4
<1>3. Front(s) \in Seq(U)
  BY <1>2, DropLast DEF Front
<1>4. path \in Seq(U) /\ path # <<>> /\ Last(path) = Last(line)
  <2>. DEFINE head == Workspace \o Front(s)
  <2>1. head \in Seq(U)
    BY <1>2, <1>3, ConcatProperties
  <2>. HIDE DEF head
  <2>2. /\ head \o line \in Seq(U) /\ Len(head \o line) = Len(head) + Len(line)
        /\ \A i \in 1..Len(head) + Len(line) :
             (head \o line)[i] = IF i <= Len(head) THEN head[i] ELSE line[i - Len(head)]
    BY <1>2, <2>1, ConcatProperties
  <2>3. Len(head) \in Nat /\ Len(line) \in Nat /\ Len(line) # 0
    BY <1>2, <2>1, LenProperties, EmptySeq
  <2>4. /\ Len(head) + Len(line) \in 1..Len(head) + Len(line)
        /\ ~(Len(head) + Len(line) <= Len(head))
        /\ (Len(head) + Len(line)) - Len(head) = Len(line)
    BY <2>3
  <2>5. (head \o line)[Len(head) + Len(line)] = line[Len(line)]
    BY <2>2, <2>4
  <2>6. head \o line # <<>>
    BY <2>2, <2>3, EmptySeq
  <2>7. QED
    BY <2>2, <2>5, <2>6 DEF head, Last
<1>. HIDE DEF path
<1>5. Last(line) \notin {".", ".."} \cup {Last(t) : t \in ToSet(Solutions)}
  BY ListedAssumption
<1>6. Dotless(path) \in Seq(U) /\ Dotless(path) # <<>> /\ Last(Dotless(path)) = Last(line)
  BY <1>4, <1>5, DotlessProperties
<1>7. Covers(s, line) = Normal(Dotless(path))
  BY DEF Covers, Resolve, path
<1>8. Last(Normal(Dotless(path))) = Last(line)
  <2>. DEFINE q == Dotless(path)
  <2>1. q \in Seq(U) /\ q # <<>> /\ q[Len(q)] = Last(line) /\ q[Len(q)] # ".."
    BY <1>5, <1>6 DEF Last
  <2>. HIDE DEF q
  <2>2. Normal(q)[Len(Normal(q))] = q[Len(q)]
    BY <2>1, NormalLast
  <2>3. QED
    BY <2>1, <2>2 DEF q, Last
<1>9. Normal(Dotless(path)) = Place(Dotless(path))
  BY <1>6, NormalIsPlace
<1>10. ASSUME NEW t \in ToSet(Solutions) PROVE Last(Workspace \o t) = Last(t)
  <2>1. t \in Seq(U) /\ Len(t) \in Nat /\ Len(t) # 0 /\ Len(Workspace) = 1
    BY <1>0, <1>1, LenProperties, EmptySeq DEF Workspace
  <2>2. /\ Len(Workspace \o t) = 1 + Len(t)
        /\ \A i \in 1..1 + Len(t) :
             (Workspace \o t)[i] = IF i <= 1 THEN Workspace[i] ELSE t[i - 1]
    <3>1. /\ Len(Workspace \o t) = Len(Workspace) + Len(t)
          /\ \A i \in 1..Len(Workspace) + Len(t) :
               (Workspace \o t)[i] = IF i <= Len(Workspace) THEN Workspace[i]
                                     ELSE t[i - Len(Workspace)]
      BY <1>2, <2>1, ConcatProperties
    <3>2. QED
      BY <2>1, <3>1
  <2>3. 1 + Len(t) \in 1..1 + Len(t) /\ ~(1 + Len(t) <= 1) /\ (1 + Len(t)) - 1 = Len(t)
    BY <2>1
  <2>4. QED
    BY <2>2, <2>3 DEF Last
<1>11. ASSUME NEW t \in ToSet(Solutions) PROVE Workspace \o t # Covers(s, line)
  <2>1. Last(t) # Last(line)
    BY <1>5
  <2>2. Last(Workspace \o t) = Last(t)
    BY <1>10
  <2>3. Last(Covers(s, line)) = Last(line)
    BY <1>7, <1>8
  <2>4. QED
    BY <2>1, <2>2, <2>3
<1>12. QED
  BY <1>7, <1>9, <1>11 DEF path

(* .NET: when the index command runs, every project that was there from the
   start is indexed once, as an input or as a member of a solution that is. *)
THEOREM ProjectsIndexed == Spec => []EveryProjectIndexed
<1>1. Init => WalkInv /\ CoverInv
  BY DEF Init, WalkInv, CoverInv, Before
<1>2. StateInv /\ WalkInv /\ CoverInv /\ [Next]_vars => WalkInv' /\ CoverInv'
  BY WalkStep, CoverStep
<1>3. ASSUME StateInv, WalkInv, CoverInv PROVE EveryProjectIndexed
  <2>1. SUFFICES ASSUME InFlight, active = Command("index"), family = "Dotnet"
                 PROVE  /\ \A f \in {g \in start.stable \cap ToSet(Projects) : InTree(g)} :
                             f \in ToSet(Inputs)
                               <=> \A s \in ToSet(Solutions) \cap ToSet(Inputs) : f \notin Members[s]
                        /\ \A f \in {g \in start.stable \cap ToSet(Solutions) : InTree(g)} :
                             f \in ToSet(Inputs)
                        /\ \A f \in ToSet(Inputs) : InTree(f) /\ <<"restore", f>> \in calls
    BY DEF EveryProjectIndexed
  <2>2. pc = "stages" /\ stage \notin {1, 2}
    <3>1. pc = "stages" /\ active # NoCommand
      BY <2>1 DEF InFlight
    <3>2. Stages[stage] = "index"
      BY <1>3, <2>1, <3>1, CommandsProperties DEF StateInv, QueueInv, StageInv
    <3>3. Stages = <<"list", "restore", "index">>
      BY <2>1, StagesProperties
    <3>4. QED
      BY <3>1, <3>2, <3>3
  <2>3. /\ covered \subseteq UNION {CoveredBy(s) : s \in Solved}
        /\ \A s \in Solved : CoveredBy(s) \subseteq covered
        /\ \A f \in ToSet(Inputs) : <<"restore", f>> \in calls
    BY <1>3, <2>1, <2>2 DEF CoverInv
  <2>4. ToSet(Inputs) = {f \in ToSet(found) : Workspace \o f \notin covered}
        /\ Solved \subseteq ToSet(Solutions)
    BY <1>3, <2>1, DotnetWork DEF StateInv
  <2>5. \A f \in ToSet(found) : InTree(f)
    BY <1>3, <2>1, <2>2 DEF WalkInv
  <2>6. ASSUME NEW f \in start.stable \cap (ToSet(Solutions) \cup ToSet(Projects)), InTree(f)
        PROVE  f \in ToSet(found)
    <3>1. ToSet(Wanted) = ToSet(Solutions) \cup ToSet(Projects)
      BY <1>3, <2>1, DotnetFiles DEF StateInv
    <3>2. QED
      BY <1>3, <2>1, <2>2, <2>6, <3>1 DEF WalkInv, Sought
  <2>7. ASSUME NEW t \in ToSet(Solutions) PROVE Workspace \o t \notin covered
    <3>1. ASSUME NEW s \in Solved, Workspace \o t \in CoveredBy(s) PROVE FALSE
      BY <2>4, <3>1, CoversProperties DEF CoveredBy
    <3>2. QED
      BY <2>3, <3>1
  <2>8. ToSet(Solutions) \cap ToSet(Inputs) = Solved
    BY <2>4, <2>7 DEF Solved
  <2>9. ASSUME NEW f \in ToSet(Projects)
        PROVE  Workspace \o f \in covered <=> \E s \in Solved : f \in Members[s]
    <3>1. ASSUME NEW s \in Solved
          PROVE  Workspace \o f \in CoveredBy(s) <=> f \in Members[s]
      <4>1. s \in ToSet(Solutions)
        BY <2>4
      <4>2. Members[s] = {p \in ToSet(Projects) :
              \E line \in Listed[s] :
                Workspace \o p = Place(Dotless(Workspace \o Front(s) \o line))}
        BY <4>1, ListedAssumption
      <4>3. QED
        BY <4>1, <4>2, CoversProperties DEF CoveredBy
    <3>2. Workspace \o f \in covered <=> \E s \in Solved : Workspace \o f \in CoveredBy(s)
      BY <2>3
    <3>3. QED
      BY <3>1, <3>2
  <2>10. QED
    BY <2>3, <2>4, <2>5, <2>6, <2>7, <2>8, <2>9
<1>4. QED
  BY <1>1, <1>2, <1>3, StateInvariance, PTL DEF Spec
=============================================================================
