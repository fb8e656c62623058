----------------------------- MODULE Container -----------------------------
(***************************************************************************)
(* A container from its start to its end: the entrypoint, then scip-run,   *)
(* which the entrypoint becomes, and in it one `run`, seen as Publication  *)
(* describes it (module Dispatch shows that it is).  Both are process 1:   *)
(* until scip-run installs its handler a signal that asks it to end is     *)
(* ignored.  The container may be killed at any step.                      *)
(***************************************************************************)
EXTENDS Entrypoint

CONSTANT Errors  \* what `run` may be answered with besides "Ok" (a bound)

VARIABLES
  step,         \* of scip-run: "parse", "handler", "settings", "run" or "main"
  stop,         \* the caller's signal: "none", "ignored", "sent", or "late" when
                \* `run` had returned
  phase, run, index, answer, interrupted,   \* of Publication
  history       \* the index when the container started; whether it started `run`

published == <<phase, run, index, answer, interrupted>>
allvars == <<vars, step, stop, published, history>>

\* Error::exit_code; a child's code is its own.
Code ==
  [Ok |-> "0", Io |-> "1", Config |-> "2", Input |-> "2", Limit |-> "2", Deadline |-> "124",
   DeniedTool |-> "126", MissingTool |-> "127", Cancelled |-> "130", Child |-> "upstream"]
ASSUME ContainerAssumption == Errors \subseteq DOMAIN Code \ {"Ok"}
Run == INSTANCE Publication

CInit ==
  /\ Init /\ Run!PInit
  /\ step = "parse" /\ stop = "none"
  /\ history = [index |-> index, ran |-> FALSE]

Boot ==
  /\ Start
  /\ step' = "parse" /\ stop' = "none"
  /\ history' = [index |-> index, ran |-> FALSE]
  /\ UNCHANGED published

Enter == Setup /\ UNCHANGED <<step, stop, published, history>>

-----------------------------------------------------------------------------
(* scip-run.                                                               *)

At(label) == pc = "dispatch" /\ step = label
\* Mutant: main prints the error and returns.
AlwaysZero(value) == pc' = "off" /\ exit' = "0"
ExitsWith(value) == pc' = "off" /\ exit' = Code[value]
Onward(next) == step' = next /\ UNCHANGED <<pc, exit>>
unmoved == <<around, identity, host, stop>>

\* Arguments, and a timeout that is a number of milliseconds the clock can add.
Parse ==
  /\ At("parse")
  /\ IF env.timeout = "invalid" THEN ExitsWith("Config") /\ UNCHANGED step
     ELSE Onward("handler") \/ (ExitsWith("Config") /\ UNCHANGED step)
  /\ UNCHANGED <<unmoved, published, history>>

SetHandler ==
  /\ At("handler")
  /\ Onward("settings") \/ (ExitsWith("Io") /\ UNCHANGED step)
  /\ UNCHANGED <<unmoved, published, history>>

\* Settings::container, and the call of `run` with what the flag is by then.
Settle ==
  /\ At("settings")
  /\ \/ /\ \E value \in {"Config", "Input", "Limit"} : ExitsWith(value)
        /\ UNCHANGED <<step, published, history>>
     \/ /\ Run!Start /\ Onward("run")
        /\ stop = "sent" => interrupted'
        /\ interrupted' => stop = "sent" \/ env.timeout = "valid"
        /\ history' = [index |-> history.index, ran |-> TRUE]
  /\ UNCHANGED unmoved

Works ==
  /\ At("run")
  /\ Run!Withdraw \/ Run!Produce \/ Run!Publish
  /\ UNCHANGED <<vars, step, stop, history>>

\* The commands of a run write to the workspace.
Index ==
  /\ At("run") /\ phase = "producing" /\ mounted
  /\ overlay' = [overlay EXCEPT !["upper"].files = @ \cup {container}]
  /\ UNCHANGED <<pc, exit, around, identity, output, cache, step, stop, published, history>>

Returns ==
  /\ At("run")
  /\ Run!Conclude /\ answer' # "none" /\ Onward("main")
  /\ UNCHANGED <<unmoved, history>>

Main ==
  /\ At("main")
  /\ ExitsWith(answer)
  /\ UNCHANGED <<unmoved, step, published, history>>

-----------------------------------------------------------------------------
(* What happens to a container.                                            *)

\* Mutant: the handler sets the flag of another Control.
Unwired == FALSE
Wired == TRUE
\* SIGINT, SIGTERM or SIGHUP, sent again if it was ignored.
Stop ==
  /\ pc # "off" /\ stop \in {"none", "ignored"}
  /\ stop' = CASE pc # "dispatch" \/ step \in {"parse", "handler"} -> "ignored"
               [] step = "main" -> "late"
               [] OTHER -> "sent"
  /\ interrupted' = (interrupted \/ (At("run") /\ Wired))
  /\ UNCHANGED <<vars, step, phase, run, index, answer, history>>

Deadline ==
  /\ At("run") /\ env.timeout = "valid" /\ Run!Interrupt
  /\ UNCHANGED <<vars, step, stop, history>>

Killed ==
  /\ pc # "off" /\ pc' = "off" /\ exit' = "killed"
  /\ IF phase = "idle" THEN UNCHANGED published ELSE Run!Conclude /\ answer' = "none"
  /\ UNCHANGED <<unmoved, step, history>>

ScipRun == Parse \/ SetHandler \/ Settle \/ Main \/ (interrupted /\ Returns)
CNext ==
  \/ Boot \/ Enter \/ Parse \/ SetHandler \/ Settle \/ Works \/ Index \/ Returns \/ Main
  \/ Stop \/ Deadline \/ Killed

\* scip-run takes its next step, but `run` may take any time, unless it is
\* interrupted: then it returns, as Publication says.
CSpec == CInit /\ [][CNext]_allvars /\ WF_allvars(ScipRun)

-----------------------------------------------------------------------------
(* Properties; the others are those of Entrypoint.                         *)

\* docs/scip-dispatch.md, "0: Upstream sequence succeeded and nonempty regular
\* output exists": the index is complete, was produced by the run of this very
\* container, over nothing but the source and what this run wrote there, and
\* nobody who asked it to end in time was told so.
ZeroMeansIndex ==
  pc = "off" /\ exit = "0" =>
    /\ index = [form |-> "complete", run |-> run] /\ history.ran
    /\ env.overlay => mounted /\ overlay["upper"].files \subseteq {container}
    /\ env.timeout # "invalid" /\ stop # "sent"

\* A container that never came to call `run` leaves the index it found, and
\* one that was refused for its identity leaves all it was given.
RefusedLeavesAll ==
  /\ ~history.ran => index = history.index
  /\ pc = "off" /\ exit = "1" /\ identity = Nobody =>
       given = [overlay |-> overlay, output |-> output, cache |-> cache]

\* Once the handler is there, a signal (and the deadline) ends the container,
\* and never with status 0; only what comes before the handler is lost.
StopEnds ==
  pc = "dispatch" /\ (stop = "sent" \/ (step = "run" /\ interrupted))
    ~> pc = "off" /\ exit # "0"
=============================================================================
