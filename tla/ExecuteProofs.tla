--------------------------- MODULE ExecuteProofs ---------------------------
(***************************************************************************)
(* Proofs about Execute for every platform, capture limit, pipe size and   *)
(* number of forked processes.  IndInv is inductive; each lemma below      *)
(* shows that a step preserves one of its parts, action by action.         *)
(***************************************************************************)
EXTENDS ExecuteProperties, TLAPS

(* The history variable is a Boolean. *)
LEMMA FailedStep ==
  ASSUME failed \in BOOLEAN, [Next]_vars
  PROVE  failed' \in BOOLEAN
BY DEF Next, Caller, Reader, Killed, Tree, Enter, Spawn, StartReader,
       CheckControl, Receive, Poll, Kill, ReapThenRetry, Reap, WaitFails, Join,
       DrainTimeout, Settle, FinalCheck, Reserve, ReadChunk, ReadEnd, ReadError,
       Send, EndThread, Exit, DieOfKill, Write, BrokenPipe, CloseStdout, Fork,
       Escape, Cancel, Expire, Fail, vars, around, threads

(* The types are preserved: no single step leaves them. *)
LEMMA TypeStep ==
  ASSUME TypeOK, [Next]_vars
  PROVE  TypeOK'
<1>. USE ExecuteAssumption DEF TypeOK, Procs, Labels, Verdicts, Interrupts,
         Errors, FaultKinds, Goto, callerVars, readerVars, procVars,
         controlVars, around, threads
<1>a. failed' \in BOOLEAN
  BY FailedStep DEF TypeOK
<1>1. CASE Enter
  BY <1>1, <1>a DEF Enter, Check
<1>2. CASE Spawn
  BY <1>2, <1>a DEF Spawn, SpawnErrors
<1>3. CASE StartReader
  BY <1>3, <1>a DEF StartReader, Leave
<1>4. CASE CheckControl
  BY <1>4, <1>a DEF CheckControl, Check, Break
<1>5. CASE Receive
  BY <1>5, <1>a DEF Receive, Break
<1>6. CASE Poll
  BY <1>6, <1>a DEF Poll, Break, ExitStatus
<1>7. CASE Kill
  BY <1>7, <1>a DEF Kill, OnlyZombie, MayRetry, StopReturns, Signalled, Members
<1>8. CASE ReapThenRetry
  BY <1>8, <1>a DEF ReapThenRetry, StopReturns
<1>9. CASE Reap
  BY <1>9, <1>a DEF Reap, StopReturns, Members
<1>10. CASE WaitFails
  BY <1>10, <1>a DEF WaitFails, StopReturns
<1>11. CASE Join
  BY <1>11, <1>a DEF Join, Leave
<1>12. CASE DrainTimeout
  BY <1>12, <1>a DEF DrainTimeout, GivesUp
<1>13. CASE Settle
  BY <1>13, <1>a DEF Settle, Outcome, Leave, Interrupts
<1>14. CASE FinalCheck
  BY <1>14, <1>a DEF FinalCheck, FinalAnswer, Check, Leave
<1>15. CASE Reader \/ ReadError
  BY <1>15, <1>a DEF Reader, Reserve, ReadChunk, ReadEnd, ReadError, Send,
         EndThread, Decide, OverLimit, EndOfFile
<1>16. ASSUME NEW p \in Procs, Exit(p) \/ DieOfKill(p) \/ BrokenPipe(p) PROVE TypeOK'
  BY <1>16, <1>a DEF Exit, DieOfKill, BrokenPipe, Alive, Dies, ReadEndOpen
<1>17. ASSUME NEW p \in Procs, Write(p) \/ CloseStdout(p) PROVE TypeOK'
  BY <1>17, <1>a DEF Write, CloseStdout, Alive, ReadEndOpen
<1>18. ASSUME NEW p \in Procs, NEW q \in Forked, Fork(p, q) PROVE TypeOK'
  BY <1>18, <1>a DEF Fork, Alive
<1>19. ASSUME NEW p \in Forked, Escape(p) PROVE TypeOK'
  BY <1>19, <1>a DEF Escape
<1>20. CASE Cancel
  BY <1>20 DEF Cancel
<1>21. CASE Expire
  BY <1>21 DEF Expire
<1>22. CASE UNCHANGED vars
  BY <1>22 DEF vars
<1>. QED
  BY <1>1, <1>2, <1>3, <1>4, <1>5, <1>6, <1>7, <1>8, <1>9, <1>10, <1>11, <1>12,
     <1>13, <1>14, <1>15, <1>16, <1>17, <1>18, <1>19, <1>20, <1>21, <1>22 DEF
     Next, Caller, Killed, Tree

(* A stopped or signalled group stays without an unsignalled member: a fork
   copies its parent's membership and is refused to a signalled process. *)
LEMMA GroupStep ==
  ASSUME TypeOK, GroupInv, [Next]_vars
  PROVE  GroupInv'
<1>. USE ExecuteAssumption DEF GroupInv, Spawned, Members, TypeOK, Procs, Goto,
         callerVars, readerVars, procVars, controlVars, around, threads
<1>1. CASE Enter
  BY <1>1 DEF Enter, Check
<1>2. CASE Spawn
  BY <1>2 DEF Spawn, SpawnErrors, Fail
<1>3. CASE StartReader
  BY <1>3 DEF StartReader, Leave, Fail
<1>4. CASE CheckControl
  BY <1>4 DEF CheckControl, Check, Break
<1>5. CASE Receive
  BY <1>5 DEF Receive, Break
<1>6. CASE Poll
  BY <1>6 DEF Poll, Break, ExitStatus, Fail
<1>7. CASE Kill
  BY <1>7 DEF Kill, OnlyZombie, MayRetry, StopReturns, Signalled, Members, Fail
<1>8. CASE ReapThenRetry
  BY <1>8 DEF ReapThenRetry, StopReturns, Fail
<1>9. CASE Reap
  BY <1>9 DEF Reap, StopReturns, Members
<1>10. CASE WaitFails
  BY <1>10 DEF WaitFails, StopReturns, Fail
<1>11. CASE Join
  BY <1>11 DEF Join, Leave
<1>12. CASE DrainTimeout
  BY <1>12 DEF DrainTimeout, GivesUp
<1>13. CASE Settle
  BY <1>13 DEF Settle, Outcome, Leave, Interrupts
<1>14. CASE FinalCheck
  BY <1>14 DEF FinalCheck, FinalAnswer, Check, Leave
<1>15. CASE Reader \/ ReadError
  BY <1>15 DEF Reader, Reserve, ReadChunk, ReadEnd, ReadError, Send, EndThread,
         Decide, OverLimit, EndOfFile, Fail
<1>16. ASSUME NEW p \in Procs, Exit(p) \/ DieOfKill(p) \/ BrokenPipe(p) PROVE GroupInv'
  BY <1>16 DEF Exit, DieOfKill, BrokenPipe, Alive, Dies, ReadEndOpen
<1>17. ASSUME NEW p \in Procs, Write(p) \/ CloseStdout(p) PROVE GroupInv'
  BY <1>17 DEF Write, CloseStdout, Alive, ReadEndOpen
<1>18. ASSUME NEW p \in Procs, NEW q \in Forked, Fork(p, q) PROVE GroupInv'
  BY <1>18 DEF Fork, Alive
<1>19. ASSUME NEW p \in Forked, Escape(p) PROVE GroupInv'
  BY <1>19 DEF Escape
<1>20. CASE Cancel \/ Expire \/ UNCHANGED vars
  BY <1>20 DEF Cancel, Expire, vars
<1>. QED
  BY <1>1, <1>2, <1>3, <1>4, <1>5, <1>6, <1>7, <1>8, <1>9, <1>10, <1>11, <1>12,
     <1>13, <1>14, <1>15, <1>16, <1>17, <1>18, <1>19, <1>20 DEF Next, Caller,
     Killed, Tree

(* The answer is chosen once, after stop, and an interrupt is named truly. *)
LEMMA AnswerStep ==
  ASSUME IndInv, [Next]_vars
  PROVE  AnswerInv'
<1>. USE ExecuteAssumption DEF IndInv, AnswerInv, GroupInv, ReaderInv,
         ChildInv, Spawned, TypeOK, Procs, Verdicts, Interrupts, Goto,
         callerVars, readerVars, procVars, controlVars, around, threads
<1>1. CASE Enter
  BY <1>1 DEF Enter, Check
<1>2. CASE Spawn
  BY <1>2 DEF Spawn, SpawnErrors, Fail
<1>3. CASE StartReader
  BY <1>3 DEF StartReader, Leave, Fail
<1>4. CASE CheckControl
  BY <1>4 DEF CheckControl, Check, Break
<1>5. CASE Receive
  BY <1>5 DEF Receive, Break
<1>6. CASE Poll
  BY <1>6 DEF Poll, Break, ExitStatus, Fail
<1>7. CASE Kill
  BY <1>7 DEF Kill, OnlyZombie, MayRetry, StopReturns, Signalled, Members, Fail
<1>8. CASE ReapThenRetry
  BY <1>8 DEF ReapThenRetry, StopReturns, Fail
<1>9. CASE Reap
  BY <1>9 DEF Reap, StopReturns, Members
<1>10. CASE WaitFails
  BY <1>10 DEF WaitFails, StopReturns, Fail
<1>11. CASE Join
  BY <1>11 DEF Join, Leave
<1>12. CASE DrainTimeout
  BY <1>12 DEF DrainTimeout, GivesUp
<1>13. CASE Settle
  BY <1>13 DEF Settle, Outcome, Leave, Interrupts
<1>14. CASE FinalCheck
  BY <1>14 DEF FinalCheck, FinalAnswer, Check, Leave
<1>15. CASE Reader \/ ReadError
  BY <1>15 DEF Reader, Reserve, ReadChunk, ReadEnd, ReadError, Send, EndThread,
         Decide, OverLimit, EndOfFile, Fail
<1>16. ASSUME NEW p \in Procs, Exit(p) \/ DieOfKill(p) \/ BrokenPipe(p) PROVE AnswerInv'
  BY <1>16 DEF Exit, DieOfKill, BrokenPipe, Alive, Dies, ReadEndOpen
<1>17. ASSUME NEW p \in Procs, Write(p) \/ CloseStdout(p) PROVE AnswerInv'
  BY <1>17 DEF Write, CloseStdout, Alive, ReadEndOpen
<1>18. ASSUME NEW p \in Procs, NEW q \in Forked, Fork(p, q) PROVE AnswerInv'
  BY <1>18 DEF Fork, Alive
<1>19. ASSUME NEW p \in Forked, Escape(p) PROVE AnswerInv'
  BY <1>19 DEF Escape
<1>20. CASE Cancel \/ Expire \/ UNCHANGED vars
  BY <1>20 DEF Cancel, Expire, vars
<1>. QED
  BY <1>1, <1>2, <1>3, <1>4, <1>5, <1>6, <1>7, <1>8, <1>9, <1>10, <1>11, <1>12,
     <1>13, <1>14, <1>15, <1>16, <1>17, <1>18, <1>19, <1>20 DEF Next, Caller,
     Killed, Tree

(* The reader's verdict travels through the channel unchanged and once. *)
LEMMA ReaderStep ==
  ASSUME IndInv, [Next]_vars
  PROVE  ReaderInv'
<1>. USE ExecuteAssumption DEF IndInv, ReaderInv, ChildInv, AnswerInv,
         GroupInv, Spawned, TypeOK, Procs, Verdicts, Goto, callerVars,
         readerVars, procVars, controlVars, around, threads
<1>1. CASE Enter
  BY <1>1 DEF Enter, Check
<1>2. CASE Spawn
  BY <1>2 DEF Spawn, SpawnErrors, Fail
<1>3. CASE StartReader
  BY <1>3 DEF StartReader, Leave, Fail
<1>4. CASE CheckControl
  BY <1>4 DEF CheckControl, Check, Break
<1>5. CASE Receive
  BY <1>5 DEF Receive, Break
<1>6. CASE Poll
  BY <1>6 DEF Poll, Break, ExitStatus, Fail
<1>7. CASE Kill
  BY <1>7 DEF Kill, OnlyZombie, MayRetry, StopReturns, Signalled, Members, Fail
<1>8. CASE ReapThenRetry
  BY <1>8 DEF ReapThenRetry, StopReturns, Fail
<1>9. CASE Reap
  BY <1>9 DEF Reap, StopReturns, Members
<1>10. CASE WaitFails
  BY <1>10 DEF WaitFails, StopReturns, Fail
<1>11. CASE Join
  BY <1>11 DEF Join, Leave
<1>12. CASE DrainTimeout
  BY <1>12 DEF DrainTimeout, GivesUp
<1>13. CASE Settle
  BY <1>13 DEF Settle, Outcome, Leave, Interrupts
<1>14. CASE FinalCheck
  BY <1>14 DEF FinalCheck, FinalAnswer, Check, Leave
<1>15. CASE Reader \/ ReadError
  BY <1>15 DEF Reader, Reserve, ReadChunk, ReadEnd, ReadError, Send, EndThread,
         Decide, OverLimit, EndOfFile, Fail
<1>16. ASSUME NEW p \in Procs, Exit(p) \/ DieOfKill(p) \/ BrokenPipe(p) PROVE ReaderInv'
  BY <1>16 DEF Exit, DieOfKill, BrokenPipe, Alive, Dies, ReadEndOpen
<1>17. ASSUME NEW p \in Procs, Write(p) \/ CloseStdout(p) PROVE ReaderInv'
  BY <1>17 DEF Write, CloseStdout, Alive, ReadEndOpen
<1>18. ASSUME NEW p \in Procs, NEW q \in Forked, Fork(p, q) PROVE ReaderInv'
  BY <1>18 DEF Fork, Alive
<1>19. ASSUME NEW p \in Forked, Escape(p) PROVE ReaderInv'
  BY <1>19 DEF Escape
<1>20. CASE Cancel \/ Expire \/ UNCHANGED vars
  BY <1>20 DEF Cancel, Expire, vars
<1>. QED
  BY <1>1, <1>2, <1>3, <1>4, <1>5, <1>6, <1>7, <1>8, <1>9, <1>10, <1>11, <1>12,
     <1>13, <1>14, <1>15, <1>16, <1>17, <1>18, <1>19, <1>20 DEF Next, Caller,
     Killed, Tree

(* The leader's exit status, once reported as a failure, is its own. *)
LEMMA ChildStep ==
  ASSUME IndInv, [Next]_vars
  PROVE  ChildInv'
<1>. USE ExecuteAssumption DEF IndInv, ChildInv, CauseInv, ReaderInv,
         AnswerInv, GroupInv, Spawned, TypeOK, Procs, Verdicts, Goto,
         callerVars, readerVars, procVars, controlVars, around, threads
<1>1. CASE Enter
  BY <1>1 DEF Enter, Check
<1>2. CASE Spawn
  BY <1>2 DEF Spawn, SpawnErrors, Fail
<1>3. CASE StartReader
  BY <1>3 DEF StartReader, Leave, Fail
<1>4. CASE CheckControl
  BY <1>4 DEF CheckControl, Check, Break
<1>5. CASE Receive
  BY <1>5 DEF Receive, Break
<1>6. CASE Poll
  BY <1>6 DEF Poll, Break, ExitStatus, Fail
<1>7. CASE Kill
  BY <1>7 DEF Kill, OnlyZombie, MayRetry, StopReturns, Signalled, Members, Fail
<1>8. CASE ReapThenRetry
  BY <1>8 DEF ReapThenRetry, StopReturns, Fail
<1>9. CASE Reap
  BY <1>9 DEF Reap, StopReturns, Members
<1>10. CASE WaitFails
  BY <1>10 DEF WaitFails, StopReturns, Fail
<1>11. CASE Join
  BY <1>11 DEF Join, Leave
<1>12. CASE DrainTimeout
  BY <1>12 DEF DrainTimeout, GivesUp
<1>13. CASE Settle
  BY <1>13 DEF Settle, Outcome, Leave, Interrupts
<1>14. CASE FinalCheck
  BY <1>14 DEF FinalCheck, FinalAnswer, Check, Leave
<1>15. CASE Reader \/ ReadError
  BY <1>15 DEF Reader, Reserve, ReadChunk, ReadEnd, ReadError, Send, EndThread,
         Decide, OverLimit, EndOfFile, Fail
<1>16. ASSUME NEW p \in Procs, Exit(p) \/ DieOfKill(p) \/ BrokenPipe(p) PROVE ChildInv'
  BY <1>16 DEF Exit, DieOfKill, BrokenPipe, Alive, Dies, ReadEndOpen
<1>17. ASSUME NEW p \in Procs, Write(p) \/ CloseStdout(p) PROVE ChildInv'
  BY <1>17 DEF Write, CloseStdout, Alive, ReadEndOpen
<1>18. ASSUME NEW p \in Procs, NEW q \in Forked, Fork(p, q) PROVE ChildInv'
  BY <1>18 DEF Fork, Alive
<1>19. ASSUME NEW p \in Forked, Escape(p) PROVE ChildInv'
  BY <1>19 DEF Escape
<1>20. CASE Cancel \/ Expire \/ UNCHANGED vars
  BY <1>20 DEF Cancel, Expire, vars
<1>. QED
  BY <1>1, <1>2, <1>3, <1>4, <1>5, <1>6, <1>7, <1>8, <1>9, <1>10, <1>11, <1>12,
     <1>13, <1>14, <1>15, <1>16, <1>17, <1>18, <1>19, <1>20 DEF Next, Caller,
     Killed, Tree

(* An "Io" anywhere follows a failure or a timeout. *)
LEMMA CauseStep ==
  ASSUME IndInv, [Next]_vars
  PROVE  CauseInv'
<1>. USE ExecuteAssumption DEF IndInv, CauseInv, ChildInv, ReaderInv,
         AnswerInv, GroupInv, Spawned, Members, TypeOK, Procs, Verdicts, Goto,
         callerVars, readerVars, procVars, controlVars, around, threads
<1>1. CASE Enter
  BY <1>1 DEF Enter, Check
<1>2. CASE Spawn
  BY <1>2 DEF Spawn, SpawnErrors, Fail
<1>3. CASE StartReader
  BY <1>3 DEF StartReader, Leave, Fail
<1>4. CASE CheckControl
  BY <1>4 DEF CheckControl, Check, Break
<1>5. CASE Receive
  BY <1>5 DEF Receive, Break
<1>6. CASE Poll
  BY <1>6 DEF Poll, Break, ExitStatus, Fail
<1>7. CASE Kill
  BY <1>7 DEF Kill, OnlyZombie, MayRetry, StopReturns, Signalled, Members, Fail
<1>8. CASE ReapThenRetry
  BY <1>8 DEF ReapThenRetry, StopReturns, Fail
<1>9. CASE Reap
  BY <1>9 DEF Reap, StopReturns, Members
<1>10. CASE WaitFails
  BY <1>10 DEF WaitFails, StopReturns, Fail
<1>11. CASE Join
  BY <1>11 DEF Join, Leave
<1>12. CASE DrainTimeout
  BY <1>12 DEF DrainTimeout, GivesUp
<1>13. CASE Settle
  BY <1>13 DEF Settle, Outcome, Leave, Interrupts
<1>14. CASE FinalCheck
  BY <1>14 DEF FinalCheck, FinalAnswer, Check, Leave
<1>15. CASE Reader \/ ReadError
  BY <1>15 DEF Reader, Reserve, ReadChunk, ReadEnd, ReadError, Send, EndThread,
         Decide, OverLimit, EndOfFile, Fail
<1>16. ASSUME NEW p \in Procs, Exit(p) \/ DieOfKill(p) \/ BrokenPipe(p) PROVE CauseInv'
  BY <1>16 DEF Exit, DieOfKill, BrokenPipe, Alive, Dies, ReadEndOpen
<1>17. ASSUME NEW p \in Procs, Write(p) \/ CloseStdout(p) PROVE CauseInv'
  BY <1>17 DEF Write, CloseStdout, Alive, ReadEndOpen
<1>18. ASSUME NEW p \in Procs, NEW q \in Forked, Fork(p, q) PROVE CauseInv'
  BY <1>18 DEF Fork, Alive
<1>19. ASSUME NEW p \in Forked, Escape(p) PROVE CauseInv'
  BY <1>19 DEF Escape
<1>20. CASE Cancel \/ Expire \/ UNCHANGED vars
  BY <1>20 DEF Cancel, Expire, vars
<1>. QED
  BY <1>1, <1>2, <1>3, <1>4, <1>5, <1>6, <1>7, <1>8, <1>9, <1>10, <1>11, <1>12,
     <1>13, <1>14, <1>15, <1>16, <1>17, <1>18, <1>19, <1>20 DEF Next, Caller,
     Killed, Tree

----------------------------------------------------------------------------
(* execute starts with no process, no reader and no answer. *)
LEMMA InitIndInv == Init => IndInv
<1>. SUFFICES ASSUME Init PROVE IndInv
  OBVIOUS
<1>. USE ExecuteAssumption DEF Init, Procs
<1>1. TypeOK
  <2>1. stopped \in BOOLEAN /\ cancelled \in BOOLEAN /\ expired \in BOOLEAN
    OBVIOUS
  <2>2. failed \in BOOLEAN
    OBVIOUS
  <2>3. captureRes \in {"none"} \cup Verdicts
    BY DEF Verdicts
  <2>4. proc \in [Procs -> {"none", "member", "escaped", "zombie", "gone"}]
    OBVIOUS
  <2>5. bytes \in 0..CaptureLimit /\ pipe \in 0..PipeSize /\ written \in 0..MaxWrites
    OBVIOUS
  <2>. QED
    BY <2>1, <2>2, <2>3, <2>4, <2>5 DEF TypeOK, Labels, Verdicts, Interrupts
<1>2. GroupInv
  BY DEF GroupInv, Spawned
<1>3. AnswerInv
  BY DEF AnswerInv, Spawned
<1>4. ReaderInv
  BY DEF ReaderInv
<1>5. ChildInv /\ CauseInv
  BY DEF ChildInv, CauseInv, Spawned
<1>. QED
  BY <1>1, <1>2, <1>3, <1>4, <1>5 DEF IndInv

(* The inductive invariant holds of every behaviour of execute. *)
THEOREM Invariance == Spec => []IndInv
<1>1. IndInv /\ [Next]_vars => IndInv'
  BY TypeStep, GroupStep, AnswerStep, ReaderStep, ChildStep, CauseStep DEF IndInv
<1>. QED
  BY InitIndInv, <1>1, PTL DEF Spec

(* The variables keep their types; the reader holds at most CaptureLimit. *)
THEOREM TypeCorrect == Spec => []TypeOK
<1>1. IndInv => TypeOK
  BY DEF IndInv
<1>. QED
  BY Invariance, <1>1, PTL

(* However processes fork while the group is signalled, a returned execute
   leaves a reaped leader and no unsignalled member, or answers "Io". *)
THEOREM GroupAlwaysContained == Spec => []GroupContained
<1>1. IndInv => GroupContained
  BY DEF IndInv, GroupInv, AnswerInv, GroupContained, Returned
<1>. QED
  BY Invariance, <1>1, PTL

(* A successful capture is everything that was written to the pipe. *)
THEOREM CaptureAlwaysComplete == Spec => []CaptureComplete
<1>1. IndInv => CaptureComplete
  BY DEF IndInv, ReaderInv, ChildInv, CaptureComplete, Returned
<1>. QED
  BY Invariance, <1>1, PTL

(* "Child" is answered only for a failure the child caused itself. *)
THEOREM ChildNeverBlamed == Spec => []ChildNotBlamed
<1>1. IndInv => ChildNotBlamed
  BY DEF IndInv, ReaderInv, ChildInv, ChildNotBlamed, Returned
<1>. QED
  BY Invariance, <1>1, PTL

(* "Io" is answered only after an operation failed or the drain timed out. *)
THEOREM IoAlwaysHasCause == Spec => []IoHasCause
<1>1. IndInv => IoHasCause
  BY DEF IndInv, CauseInv, IoHasCause
<1>. QED
  BY Invariance, <1>1, PTL

----------------------------------------------------------------------------
(* A step of execute is a step of its contract, or leaves it unchanged. *)
LEMMA ContractStep ==
  ASSUME IndInv, IndInv', [Next]_vars
  PROVE  [Contract!CNext]_(Contract!cvars)
<1>. USE ExecuteAssumption DEF IndInv, TypeOK, Verdicts, Interrupts, GroupInv,
         AnswerInv, ChildInv, ReaderInv, Spawned, Returned, Phase, Procs,
         Members, Goto, callerVars, readerVars, procVars, controlVars, around,
         threads, Contract!CNext, Contract!cvars, Contract!Conclude,
         Contract!Refuse, Contract!Start, Contract!GroupEnds, Contract!Contain,
         Contract!Answer, Contract!Abandon, Contract!Interrupt, Contract!Named,
         Contract!Interrupted
<1>1. CASE Enter
  BY <1>1 DEF Enter, Check
<1>2. CASE Spawn
  BY <1>2 DEF Spawn, SpawnErrors, Fail
<1>3. CASE StartReader
  BY <1>3 DEF StartReader, Leave, Fail
<1>4. CASE CheckControl
  BY <1>4 DEF CheckControl, Check, Break
<1>5. CASE Receive
  BY <1>5 DEF Receive, Break
<1>6. CASE Poll
  BY <1>6 DEF Poll, Break, ExitStatus, Fail
<1>7. CASE Kill
  BY <1>7 DEF Kill, OnlyZombie, MayRetry, StopReturns, Signalled, Members, Fail
<1>8. CASE ReapThenRetry
  BY <1>8 DEF ReapThenRetry, StopReturns, Fail
<1>9. CASE Reap
  BY <1>9 DEF Reap, StopReturns, Members
<1>10. CASE WaitFails
  BY <1>10 DEF WaitFails, StopReturns, Fail
<1>11. CASE Join
  BY <1>11 DEF Join, Leave
<1>12. CASE DrainTimeout
  BY <1>12 DEF DrainTimeout, GivesUp
<1>13. CASE Settle
  BY <1>13 DEF Settle, Outcome, Leave, Interrupts
<1>14. CASE FinalCheck
  BY <1>14 DEF FinalCheck, FinalAnswer, Check, Leave
<1>15. CASE Reader \/ ReadError
  BY <1>15 DEF Reader, Reserve, ReadChunk, ReadEnd, ReadError, Send, EndThread,
         Decide, OverLimit, EndOfFile, Fail
<1>16. ASSUME NEW p \in Procs, Exit(p) \/ DieOfKill(p) \/ BrokenPipe(p) 
      PROVE  [Contract!CNext]_(Contract!cvars)
  BY <1>16 DEF Exit, DieOfKill, BrokenPipe, Alive, Dies, ReadEndOpen
<1>17. ASSUME NEW p \in Procs, Write(p) \/ CloseStdout(p) 
      PROVE  [Contract!CNext]_(Contract!cvars)
  BY <1>17 DEF Write, CloseStdout, Alive, ReadEndOpen
<1>18. ASSUME NEW p \in Procs, NEW q \in Forked, Fork(p, q) 
      PROVE  [Contract!CNext]_(Contract!cvars)
  BY <1>18 DEF Fork, Alive
<1>19. ASSUME NEW p \in Forked, Escape(p) 
      PROVE  [Contract!CNext]_(Contract!cvars)
  BY <1>19 DEF Escape
<1>20. CASE Cancel \/ Expire \/ UNCHANGED vars
  BY <1>20 DEF Cancel, Expire, vars
<1>. QED
  BY <1>1, <1>2, <1>3, <1>4, <1>5, <1>6, <1>7, <1>8, <1>9, <1>10, <1>11, <1>12,
     <1>13, <1>14, <1>15, <1>16, <1>17, <1>18, <1>19, <1>20 DEF Next, Caller,
     Killed, Tree

(* execute implements the safety part of the contract its callers rely on. *)
THEOREM ImplementsContract == Spec => ImplementsSafely
<1>1. Init => Contract!CInit
  BY DEF Init, Contract!CInit, Phase, Returned, Spawned, Members, Procs
<1>. QED
  BY <1>1, ContractStep, Invariance, PTL DEF Spec, ImplementsSafely, Contract!CSafety
=============================================================================
