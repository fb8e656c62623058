------------------------------ MODULE Execute ------------------------------
(***************************************************************************)
(* One call of `execute` (dispatch/process.rs) and the operating system    *)
(* under it.  Four kinds of actors interleave:                             *)
(*   - the calling thread, which spawns the child, polls it, stops its     *)
(*     process group and decides the answer (variable pc);                 *)
(*   - the "scip-metadata" thread that reads the child's stdout (rd);      *)
(*   - the child, its descendants, and those of them that left the group   *)
(*     or session (proc);                                                  *)
(*   - the signal handler and the clock (cancelled, expired).              *)
(* stdout is counted in units: a unit stands for any number of bytes, and  *)
(* which bytes they are does not matter here.                              *)
(***************************************************************************)
EXTENDS Naturals

CONSTANTS
  Platform,     \* which #[cfg(...)] branches are built
  Capture,      \* the argument `capture`
  Leader,       \* the direct child, leader of its process group
  Forked,       \* the processes that may be forked under it (a bound)
  CaptureLimit, \* MAX_CAPTURE_BYTES, in units
  PipeSize,     \* what the pipe holds before a writer blocks, in units
  MaxWrites,    \* bound: the units written to stdout in one run
  Faults        \* the operations that may fail in this run

Procs == {Leader} \cup Forked
FaultKinds == {"spawn", "thread", "reserve", "read", "poll", "kill", "wait"}

ASSUME ExecuteAssumption ==
  /\ Platform \in {"linux", "darwin", "windows"}
  /\ Capture \in BOOLEAN
  /\ Leader \notin Forked
  /\ CaptureLimit \in Nat
  /\ PipeSize \in Nat \ {0}
  /\ MaxWrites \in Nat
  /\ Faults \subseteq FaultKinds

VARIABLES
  pc,         \* where the calling thread is
  stopped,    \* OwnedChild.stopped
  result,     \* the local `result`: why the polling loop was left
  captured,   \* the local `captured`: what was received, or "none"
  answer,     \* what execute returns; returned once pc = "done"
  rd,         \* where the reader thread is
  verdict,    \* the reader's own `result`: "Ok", an error, or "none"
  chan,       \* the one slot of sync_channel(1)
  bytes,      \* units kept by the reader
  captureRes, \* the local `capture_result`
  proc,       \* the processes: see Alive
  doomed,     \* processes that were sent SIGKILL
  exit,       \* the leader's exit status
  holders,    \* processes with the pipe's write end open
  pipe,       \* units in the pipe
  written,    \* units written so far
  cancelled,  \* Control.cancelled
  expired,    \* Control.deadline has passed
  failed      \* history: some operation failed, or the drain timed out

callerVars == <<pc, stopped, result, captured, answer, captureRes>>
readerVars == <<rd, verdict, bytes>>
procVars   == <<proc, doomed, exit, holders, written>>
controlVars == <<cancelled, expired>>
\* What the calling thread, and what the process tree, leave alone.
around == <<readerVars, procVars, controlVars, pipe>>
threads == <<callerVars, readerVars, controlVars, chan, failed>>
vars == <<callerVars, around, chan, failed>>

Errors == {"Cancelled", "Deadline", "Limit", "Io", "MissingTool",
           "DeniedTool", "Child"}
Interrupts == {"Cancelled", "Deadline"}

\* A process runs in the leader's group ("member") or outside of it
\* ("escaped"); the dead leader is a "zombie" until it is reaped ("gone").
Alive(p) == proc[p] \in {"member", "escaped"}
Members == {p \in Procs : proc[p] = "member"}

\* Somebody still owns the pipe's read end: execute itself before the
\* reader starts, the reader until its closure is dropped.
ReadEndOpen == rd \in {"starting", "reading", "sending", "sent"} \/ pc = "thread"

Init ==
  /\ pc = "enter" /\ stopped = FALSE /\ result = "none" /\ captured = "none"
  /\ answer = "none"
  /\ captureRes = IF Capture THEN "none" ELSE "Ok"
  /\ rd = "off" /\ verdict = "none" /\ chan = "none" /\ bytes = 0
  /\ proc = [p \in Procs |-> "none"] /\ doomed = {} /\ exit = "none"
  /\ holders = {} /\ pipe = 0 /\ written = 0
  /\ cancelled = FALSE /\ expired = FALSE /\ failed = FALSE

----------------------------------------------------------------------------
(* The calling thread.                                                     *)

Goto(label) == pc' = label

\* Control::check: cancellation is looked at before the deadline.
Check == IF cancelled THEN "Cancelled" ELSE IF expired THEN "Deadline" ELSE "Ok"

\* Leaving the function drops OwnedChild, which stops it once more unless it
\* is stopped already; that second result is ignored.
Leave(value) ==
  /\ answer' = value
  /\ Goto(IF stopped THEN "done" ELSE "kill")

Break(value) == result' = value /\ Goto("kill")

Fail(kind) == kind \in Faults /\ failed' = TRUE

Enter ==
  /\ pc = "enter"
  /\ IF Check = "Ok" THEN Goto("spawn") /\ UNCHANGED answer
                     ELSE Goto("done") /\ answer' = Check
  /\ UNCHANGED <<stopped, result, captured, captureRes, chan, failed, around>>

SpawnErrors == {"MissingTool", "DeniedTool", "Io"}
                 \cup (IF Platform = "windows" THEN {"Limit"} ELSE {})

Spawn ==
  /\ pc = "spawn"
  /\ \/ /\ proc' = [proc EXCEPT ![Leader] = "member"]
        /\ holders' = IF Capture THEN {Leader} ELSE {}
        /\ Goto(IF Capture THEN "thread" ELSE "check")
        /\ UNCHANGED <<answer, failed>>
     \/ /\ Fail("spawn")
        /\ answer' \in SpawnErrors
        /\ Goto("done")
        /\ UNCHANGED <<proc, holders>>
  /\ UNCHANGED <<stopped, result, captured, captureRes, readerVars, doomed,
                 exit, written, controlVars, chan, pipe>>

StartReader ==
  /\ pc = "thread"
  /\ \/ rd' = "starting" /\ Goto("check") /\ UNCHANGED <<answer, failed>>
     \/ Fail("thread") /\ Leave("Io") /\ UNCHANGED rd
  /\ UNCHANGED <<stopped, result, captured, captureRes, verdict, bytes,
                 procVars, controlVars, chan, pipe>>

CheckControl ==
  /\ pc = "check"
  /\ IF Check = "Ok" THEN Goto(IF Capture THEN "recv" ELSE "poll") /\ UNCHANGED result
                     ELSE Break(Check)
  /\ UNCHANGED <<stopped, captured, answer, captureRes, chan, failed, around>>

\* try_recv without blocking.  The sender is dropped when the reader ends, so
\* an empty channel then means that its value was received, or never sent.
Receive ==
  /\ pc = "recv"
  /\ \/ /\ chan # "none"
        /\ captured' = chan /\ chan' = "none"
        /\ IF chan = "Ok" THEN Goto("poll") /\ UNCHANGED result ELSE Break(chan)
     \/ /\ chan = "none" /\ rd = "finished" /\ captured = "none"
        /\ Break("Io")
        /\ UNCHANGED <<captured, chan>>
     \/ /\ chan = "none" /\ (rd # "finished" \/ captured # "none")
        /\ Goto("poll")
        /\ UNCHANGED <<result, captured, chan>>
  /\ UNCHANGED <<stopped, answer, captureRes, failed, around>>

ExitStatus == IF exit = "success" THEN "Ok" ELSE "Child"

\* try_wait reaps the leader when it has exited.
Poll ==
  /\ pc = "poll"
  /\ \/ /\ proc[Leader] = "zombie"
        /\ proc' = [proc EXCEPT ![Leader] = "gone"]
        /\ Break(ExitStatus)
        /\ UNCHANGED failed
     \/ /\ proc[Leader] = "member"
        /\ Goto("check")
        /\ UNCHANGED <<result, proc, failed>>
     \/ /\ Fail("poll")
        /\ Break("Io")
        /\ UNCHANGED proc
  /\ UNCHANGED <<stopped, captured, answer, captureRes, readerVars, doomed,
                 exit, holders, written, controlVars, chan, pipe>>

----------------------------------------------------------------------------
(* OwnedChild::stop, called after the loop and again by drop.              *)

\* Where stop returns to: drop runs once the answer is decided.
StopReturns ==
  Goto(IF answer # "none" THEN "done" ELSE IF Capture THEN "drain" ELSE "settle")

\* Darwin does not find a group whose only process is its unreaped leader.
OnlyZombie == Platform = "darwin" /\ Members = {} /\ proc[Leader] = "zombie"

\* Mutant: the direct child is killed in place of its group.
LeaderAlone == Members \cap {Leader}
\* The processes killpg reaches.
Signalled == Members

\* Mutant: the exited leader is not looked for.
NeverRetries == FALSE
MayRetry == pc = "kill" /\ Platform = "darwin"

\* start_kill: every member is signalled, or none is.  A group that is gone
\* answers ESRCH, which is accepted (a job object exists until it is closed).
\* A refusal ends stop, except that Darwin first looks for a zombie leader.
Kill ==
  /\ pc \in {"kill", "rekill"}
  /\ \/ /\ ~OnlyZombie
        /\ doomed' = doomed \cup Signalled
        /\ Goto("reap")
        /\ UNCHANGED failed
     \/ /\ \/ OnlyZombie /\ UNCHANGED failed
           \/ (Members # {} \/ Platform = "windows") /\ Fail("kill")
        /\ IF MayRetry THEN Goto("retry") ELSE StopReturns
        /\ UNCHANGED doomed
  /\ UNCHANGED <<stopped, result, captured, answer, captureRes, readerVars,
                 proc, exit, holders, written, controlVars, chan, pipe>>

\* Darwin's second look: reap the leader if it is dead, then signal again.
ReapThenRetry ==
  /\ pc = "retry"
  /\ \/ /\ proc[Leader] \in {"zombie", "gone"}
        /\ proc' = [proc EXCEPT ![Leader] = "gone"]
        /\ Goto("rekill")
        /\ UNCHANGED failed
     \/ /\ proc[Leader] = "member"
        /\ StopReturns
        /\ UNCHANGED <<proc, failed>>
     \/ /\ Fail("poll")
        /\ StopReturns
        /\ UNCHANGED proc
  /\ UNCHANGED <<stopped, result, captured, answer, captureRes, readerVars,
                 doomed, exit, holders, written, controlVars, chan, pipe>>

\* wait blocks until the leader (the whole job, on Windows) has died.
Reap ==
  /\ pc = "reap"
  /\ proc[Leader] \in {"zombie", "gone"}
  /\ Platform = "windows" => Members = {}
  /\ proc' = [proc EXCEPT ![Leader] = "gone"]
  /\ stopped' = TRUE
  /\ StopReturns
  /\ UNCHANGED <<result, captured, answer, captureRes, readerVars, doomed,
                 exit, holders, written, controlVars, chan, pipe, failed>>

WaitFails ==
  /\ pc = "reap" /\ Fail("wait")
  /\ StopReturns
  /\ UNCHANGED <<stopped, result, captured, answer, captureRes, chan, around>>

----------------------------------------------------------------------------
(* After stop: collect the capture, then choose the answer.                *)

\* A reader that ended without a verdict panicked: join fails and execute
\* returns before it looks at anything else.
Join ==
  /\ pc = "drain" /\ rd = "finished"
  /\ IF verdict = "none"
     THEN Leave("Io") /\ UNCHANGED <<captureRes, chan>>
     ELSE /\ captureRes' = IF captured # "none" THEN captured ELSE chan
          /\ chan' = "none"
          /\ Goto("settle")
          /\ UNCHANGED answer
  /\ UNCHANGED <<stopped, result, captured, failed, around>>

\* Mutant: the reader is joined whatever it takes.
JoinsAlways == FALSE
\* DRAIN may have elapsed with the reader still running.
GivesUp == rd # "finished"

\* The reader is left behind.
DrainTimeout ==
  /\ pc = "drain" /\ GivesUp
  /\ captureRes' = "Io"
  /\ failed' = TRUE
  /\ Goto("settle")
  /\ UNCHANGED <<stopped, result, captured, answer, chan, around>>

\* Mutant: the child's own failure is answered before the capture's.
ChildFirst ==
  IF ~stopped THEN "Io"
  ELSE IF result # "Ok" THEN result
  ELSE captureRes
\* A failed stop, then an interrupt, then the capture, then the child.
Outcome ==
  IF ~stopped THEN "Io"
  ELSE IF result \in Interrupts THEN result
  ELSE IF captureRes # "Ok" THEN captureRes
  ELSE result

Settle ==
  /\ pc = "settle"
  /\ IF Outcome = "Ok" THEN Goto("final") /\ UNCHANGED answer ELSE Leave(Outcome)
  /\ UNCHANGED <<stopped, result, captured, captureRes, chan, failed, around>>

\* Mutant: success is not checked against a late interrupt.
Unchecked == "Ok"
FinalAnswer == Check

FinalCheck ==
  /\ pc = "final"
  /\ Leave(FinalAnswer)
  /\ UNCHANGED <<stopped, result, captured, captureRes, chan, failed, around>>

Caller ==
  \/ Enter \/ Spawn \/ StartReader \/ CheckControl \/ Receive \/ Poll
  \/ Kill \/ ReapThenRetry \/ Reap
  \/ Join \/ DrainTimeout \/ Settle \/ FinalCheck

----------------------------------------------------------------------------
(* The reader thread.                                                      *)

Decide(value) == verdict' = value /\ rd' = "sending"

Reserve ==
  /\ rd = "starting"
  /\ \/ rd' = "reading" /\ UNCHANGED <<verdict, failed>>
     \/ Fail("reserve") /\ Decide("Limit")
  /\ UNCHANGED <<bytes, callerVars, procVars, controlVars, chan, pipe>>

\* Mutant: the limit is tested on what is held already.
OverLimitLate(count) == bytes > CaptureLimit
OverLimit(count) == bytes + count > CaptureLimit

ReadChunk ==
  /\ rd = "reading"
  /\ \E count \in 1..pipe :
       /\ pipe' = pipe - count
       /\ IF OverLimit(count)
          THEN Decide("Limit") /\ UNCHANGED bytes
          ELSE bytes' = bytes + count /\ UNCHANGED <<rd, verdict>>
  /\ UNCHANGED <<callerVars, procVars, controlVars, chan, failed>>

\* Mutant: the capture ends when the leader's own output does.
EndOfLeader == pipe = 0 /\ Leader \notin holders
\* read returns 0 once the pipe is empty and nobody can write to it.
EndOfFile == pipe = 0 /\ holders = {}

ReadEnd ==
  /\ rd = "reading" /\ EndOfFile
  /\ Decide("Ok")
  /\ UNCHANGED <<bytes, callerVars, procVars, controlVars, chan, pipe, failed>>

\* A read error is printed to stderr; printing panics when stderr is closed.
ReadError ==
  /\ rd = "reading" /\ Fail("read")
  /\ \/ Decide("Io")
     \/ rd' = "finished" /\ UNCHANGED verdict
  /\ UNCHANGED <<bytes, callerVars, procVars, controlVars, chan, pipe>>

\* Nobody looks at the channel any more when the reader was left behind.
Send ==
  /\ rd = "sending" /\ chan = "none"
  /\ chan' = verdict
  /\ rd' = "sent"
  /\ UNCHANGED <<verdict, bytes, callerVars, procVars, controlVars, pipe,
                 failed>>

EndThread ==
  /\ rd = "sent"
  /\ rd' = "finished"
  /\ UNCHANGED <<verdict, bytes, callerVars, procVars, controlVars, chan,
                 pipe, failed>>

Reader == Reserve \/ ReadChunk \/ ReadEnd \/ Send \/ EndThread

----------------------------------------------------------------------------
(* The child and its descendants.                                          *)

\* Process p dies; for the leader, `status` is what wait will report.
Dies(p, status) ==
  /\ proc' = [proc EXCEPT ![p] = IF p = Leader THEN "zombie" ELSE "gone"]
  /\ exit' = IF p = Leader THEN status ELSE exit
  /\ holders' = holders \ {p}

Exit(p) ==
  /\ Alive(p)
  /\ \E status \in {"success", "failure"} : Dies(p, status)
  /\ UNCHANGED <<doomed, written, pipe, threads>>

\* SIGKILL takes effect some time after it was sent.
DieOfKill(p) ==
  /\ Alive(p) /\ p \in doomed
  /\ Dies(p, "killed")
  /\ UNCHANGED <<doomed, written, pipe, threads>>

Write(p) ==
  /\ Alive(p) /\ p \in holders /\ ReadEndOpen
  /\ pipe < PipeSize /\ written < MaxWrites
  /\ pipe' = pipe + 1 /\ written' = written + 1
  /\ UNCHANGED <<proc, doomed, exit, holders, threads>>

\* Writing to a pipe nobody reads kills or fails the writer.
BrokenPipe(p) ==
  /\ Alive(p) /\ p \in holders /\ ~ReadEndOpen
  /\ Dies(p, "sigpipe")
  /\ UNCHANGED <<doomed, written, pipe, threads>>

CloseStdout(p) ==
  /\ Alive(p) /\ p \in holders
  /\ holders' = holders \ {p}
  /\ UNCHANGED <<proc, doomed, exit, written, pipe, threads>>

\* A fork is refused while a fatal signal is pending.
Fork(p, q) ==
  /\ Alive(p) /\ p \notin doomed /\ proc[q] = "none"
  /\ proc' = [proc EXCEPT ![q] = proc[p]]
  /\ holders' = IF p \in holders THEN holders \cup {q} ELSE holders
  /\ UNCHANGED <<doomed, exit, written, pipe, threads>>

\* setsid or setpgid; a leader cannot leave, a Windows job cannot be left.
Escape(p) ==
  /\ Platform # "windows" /\ proc[p] = "member"
  /\ proc' = [proc EXCEPT ![p] = "escaped"]
  /\ UNCHANGED <<doomed, exit, holders, written, pipe, threads>>

Killed == \E p \in Procs : DieOfKill(p)
Tree ==
  \/ \E p \in Procs : Exit(p) \/ Write(p) \/ BrokenPipe(p) \/ CloseStdout(p)
  \/ \E p \in Procs, q \in Forked : Fork(p, q)
  \/ \E p \in Forked : Escape(p)

----------------------------------------------------------------------------
(* The signal handler of scip-run and the clock.                           *)

Cancel ==
  /\ ~cancelled /\ cancelled' = TRUE
  /\ UNCHANGED <<expired, callerVars, readerVars, procVars, chan, pipe, failed>>

Expire ==
  /\ ~expired /\ expired' = TRUE
  /\ UNCHANGED <<cancelled, callerVars, readerVars, procVars, chan, pipe,
                 failed>>

Next ==
  \/ Caller \/ WaitFails \/ Reader \/ ReadError
  \/ Killed \/ Tree \/ Cancel \/ Expire

\* Threads are scheduled, DRAIN elapses and SIGKILL takes effect.  Nothing is
\* assumed of what the child's own tree does, nor of the signal or deadline,
\* and a call that blocks is never owed a failure.
Fairness == WF_vars(Caller) /\ WF_vars(Reader) /\ \A p \in Procs : WF_vars(DieOfKill(p))

Spec == Init /\ [][Next]_vars /\ Fairness
=============================================================================
