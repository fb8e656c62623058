------------------------- MODULE ExecuteProperties -------------------------
(* What execute promises, and the contract it implements. *)
EXTENDS Execute

Labels == {"enter", "spawn", "thread", "check", "recv", "poll", "kill",
           "retry", "rekill", "reap", "drain", "settle", "final", "done"}
Verdicts == {"Ok", "Limit", "Io"}

(* The variables have their types: in particular the reader never keeps
   more than CaptureLimit units, whatever a read returns. *)
TypeOK ==
  /\ pc \in Labels /\ stopped \in BOOLEAN
  /\ result \in {"none", "Ok", "Child", "Limit", "Io"} \cup Interrupts
  /\ captured \in {"none"} \cup Verdicts
  /\ captureRes \in {"none"} \cup Verdicts
  /\ answer \in {"none", "Ok"} \cup Errors
  /\ rd \in {"off", "starting", "reading", "sending", "sent", "finished"}
  /\ verdict \in {"none"} \cup Verdicts
  /\ chan \in {"none"} \cup Verdicts
  /\ bytes \in 0..CaptureLimit
  /\ proc \in [Procs -> {"none", "member", "escaped", "zombie", "gone"}]
  /\ doomed \subseteq Procs /\ holders \subseteq Procs
  /\ exit \in {"none", "success", "failure", "sigpipe", "killed"}
  /\ pipe \in 0..PipeSize /\ written \in 0..MaxWrites
  /\ cancelled \in BOOLEAN /\ expired \in BOOLEAN
  /\ failed \in BOOLEAN

Returned == pc = "done"
Spawned == proc[Leader] # "none"

(* When execute has returned, the leader is reaped and every process still in
   its group was sent SIGKILL, however forks raced with the signal; a group
   that could not be stopped is never hidden behind another answer. *)
GroupContained ==
  Returned /\ Spawned =>
    \/ proc[Leader] = "gone" /\ Members \subseteq doomed
    \/ answer = "Io"

(* A capture that succeeded is the whole output: everything any process wrote
   to the pipe, within the limit, and nobody can write to it any more. *)
CaptureComplete ==
  Capture /\ Returned /\ answer = "Ok" =>
    /\ bytes = written /\ pipe = 0
    /\ holders = {}

(* The child is blamed only for a failure of its own: not for the SIGPIPE it
   gets when the reader gave up on an oversized or unreadable output, and not
   for the SIGKILL execute sent. *)
ChildNotBlamed ==
  Returned /\ answer = "Child" => exit = "failure" /\ captureRes = "Ok"

(* "Io" is answered only after an operation failed or the drain timed out: a
   group that is already empty, or whose leader died unnoticed, is no error
   on any platform, nor is a reader that ended early. *)
IoHasCause == answer = "Io" => failed

(* Once the deadline passed, the run was cancelled or the leader died, execute
   returns, though a process outside the group may keep the pipe open. *)
Returns ==
  cancelled \/ expired \/ proc[Leader] \in {"zombie", "gone"} ~> Returned

(* execute implements the contract its callers rely on. *)
Phase ==
  IF Returned THEN "returned"
  ELSE IF ~Spawned THEN "called"
  ELSE IF stopped THEN "contained"
  ELSE "running"

Contract == INSTANCE CommandContract WITH
  Refusals <- SpawnErrors,
  phase    <- Phase,
  owned    <- Members \ doomed # {},
  answer   <- IF Returned THEN answer ELSE "none"

Implements == Contract!CSpec
ImplementsSafely == Contract!CSafety
----------------------------------------------------------------------------
(* The inductive invariant behind these properties, in named parts. *)

\* The group: nothing exists before spawn, and a group that was stopped, or
\* signalled and not yet waited for, has no member without SIGKILL.
GroupInv ==
  /\ pc \in {"enter", "spawn"} => ~Spawned
  /\ ~Spawned => /\ pc \in {"enter", "spawn", "done"} /\ rd = "off"
                 /\ exit = "none" /\ \A p \in Procs : proc[p] = "none"
  /\ stopped => /\ proc[Leader] = "gone" /\ Members \subseteq doomed
                /\ pc \in {"drain", "settle", "final", "done"}
  /\ pc = "reap" => Members \subseteq doomed
  /\ pc = "final" => stopped
  /\ doomed # {} => pc \in {"kill", "retry", "rekill", "reap", "drain", "settle",
                            "final", "done"}

\* The answer is chosen last; with the group still unstopped it is "Io".
AnswerInv ==
  /\ answer # "none" => pc \in {"kill", "retry", "rekill", "reap", "done"}
  /\ pc = "done" => answer # "none"
  /\ answer # "none" /\ Spawned /\ ~stopped => answer = "Io"
  /\ "Cancelled" \in {result, answer} => cancelled
  /\ "Deadline" \in {result, answer} => expired

\* The reader's verdict is sent once and received at most once; "Ok" means
\* that everything written was kept and that nobody can write any more.
ReaderInv ==
  /\ rd \in {"off", "starting", "reading"} =>
       verdict = "none" /\ bytes + pipe = written
  /\ rd \in {"sending", "sent"} => verdict # "none"
  /\ rd \in {"off", "starting", "reading", "sending"} => chan = "none" /\ captured = "none"
  /\ chan \in {"none", verdict} /\ captured \in {"none", verdict}
  /\ verdict = "Ok" => bytes = written /\ pipe = 0 /\ holders = {}
  /\ pc \notin {"settle", "final", "done"} /\ answer = "none" /\ rd \in {"sent", "finished"} =>
       verdict \in {chan, captured}
  /\ pc \in {"thread", "recv", "drain"} => Capture
  /\ pc = "thread" => rd = "off"
  /\ IF Capture
     THEN /\ captureRes = "Ok" => verdict = "Ok"
          /\ pc \in {"settle", "final"} => captureRes # "none"
     ELSE holders = {} /\ rd = "off" /\ captureRes = "Ok"

\* How the leader's end and the answer are related.
ChildInv ==
  /\ proc[Leader] \in {"zombie", "gone"} => exit # "none"
  /\ exit = "killed" => doomed # {}
  /\ exit = "sigpipe" =>
       /\ Capture /\ rd \in {"off", "finished"} /\ verdict # "Ok"
       /\ pc \notin {"enter", "spawn", "thread"}
  /\ result = "Child" => proc[Leader] = "gone" /\ exit \in {"failure", "sigpipe"}
  /\ pc \in {"enter", "spawn", "thread", "check", "recv", "poll"} => result = "none"
  /\ pc \in {"kill", "retry", "rekill", "reap"} => result # "none" \/ answer # "none"
  /\ pc \in {"drain", "settle", "final"} => result # "none"
  /\ answer \in {"Ok", "Child"} => captureRes = "Ok"
  /\ answer = "Child" => result = "Child"
  /\ pc = "final" => captureRes = "Ok"

\* Where an "Io" comes from.
CauseInv ==
  /\ "Io" \in {result, answer, verdict, captureRes} => failed
  /\ rd = "finished" /\ verdict = "none" => failed
  /\ pc \in {"drain", "settle"} /\ ~stopped => failed
  /\ pc = "retry" => failed \/ proc[Leader] # "member"
  /\ pc = "rekill" => proc[Leader] = "gone"
  /\ Spawned => proc[Leader] # "escaped"

IndInv == TypeOK /\ GroupInv /\ AnswerInv /\ ReaderInv /\ ChildInv /\ CauseInv
=============================================================================
