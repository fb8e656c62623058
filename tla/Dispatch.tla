------------------------------ MODULE Dispatch ------------------------------
(***************************************************************************)
(* `run` (dispatch.rs): one image serves one family, and runs follow one   *)
(* another over the same workspace, cache and output path.  A run checks   *)
(* its inputs, removes the previous index, works through the stages of its *)
(* family one command at a time, and accepts the index it finds only after *)
(* normalising it.  It may be interrupted, or killed, at any step.         *)
(* A command is one `execute`, seen as CommandContract describes it: it    *)
(* succeeds only if no interrupt came before its answer.                   *)
(***************************************************************************)
EXTENDS Discovery

CONSTANTS
  Families,    \* the families run (a bound)
  Solutions,   \* the .sln and .slnx files there may be, in sorted order
  Projects,    \* the .csproj and .vbproj files there may be, in sorted order
  Gemspecs,    \* the .gemspec files there may be, in sorted order
  Fixtures,    \* files among them that are always there
  Members,     \* the projects each solution is made of
  Listed,      \* the paths `dotnet sln list` prints for each solution
  Names,       \* GRAPHIT_SCIP_PROJECT_NAME is "short", or "long": within the
               \* metadata cap, but not with the suffix @0.0.0
  MaxRuns,     \* bound: runs
  MaxEdits     \* bound: changes of the workspace by its user

ASSUME DispatchAssumption ==
  /\ Families \subseteq {"Go", "TypeScript", "Python", "Java", "Clang", "Dotnet",
                         "Rust", "Ruby", "Dart", "Php"}
  /\ "short" \in Names /\ Names \subseteq {"short", "long"}
  /\ MaxRuns \in Nat /\ MaxEdits \in Nat /\ MaxDiscovery \in Nat

\* Each file is there once, below the workspace, and none is ever a directory.
ASSUME TreeAssumption ==
  /\ Solutions \in Seq(Seq(STRING)) /\ Projects \in Seq(Seq(STRING))
  /\ Gemspecs \in Seq(Seq(STRING))
  /\ IsInjective(Solutions \o Projects) /\ IsInjective(Gemspecs)
  /\ \A f, g \in ToSet(Solutions \o Projects) : f # <<>> /\ ~IsStrictPrefix(f, g)

\* What the SDK prints for a solution leads from its directory to its members.
\* Only a line that ends in .csproj or .vbproj is read, so none ends like the
\* path of a solution.
ASSUME ListedAssumption ==
  /\ Listed \in [ToSet(Solutions) -> SUBSET Seq(STRING)]
  /\ \A s \in ToSet(Solutions) : \A line \in Listed[s] :
       line # <<>> /\ Last(line) \notin {".", ".."} \cup {Last(t) : t \in ToSet(Solutions)}
  /\ Members =
       [s \in ToSet(Solutions) |->
          {p \in ToSet(Projects) :
             \E line \in Listed[s] :
               Workspace \o p = Place(Dotless(Workspace \o Front(s) \o line))}]

\* What a stage leaves in the cache is named after the stage.
Cached == {"config", "venv", "cmake", "filter", "gemfile", "activate"}

VARIABLES
  pc,          \* "idle", "preflight", "walk", "remove", "stages", "accept",
               \* "normalize", "last"
  runs,        \* how many runs were started
  family,      \* Settings.family, fixed by the image
  settings,    \* the other Settings that matter: see Settings below
  workspace,   \* the files `run` looks for that are there
  cache,       \* "absent", "torn" or "ready", for each of Cached
  output,      \* the file at the output path and the run that wrote it
  config,      \* the local ts_config is Some
  pending,     \* `directories` in candidates
  found,       \* `candidates` there, and `discovered` in run
  covered,     \* `covered` in dotnet_inputs
  gem,         \* the name and version a gemspec gave: "none", "short", "long"
  uses,        \* what the index command is pointed at in the cache
  stage,       \* position in Stages
  queue,       \* the commands of the stage still to run
  active,      \* the command in flight
  answer,      \* the answer of the last run
  cancelled, expired,
  calls,       \* history: the commands this run started
  start,       \* history: output, cache and edits when this run started, and the
               \* files that were there then and were not edited since
  edits        \* how often the user changed the workspace

control == <<cancelled, expired>>
disk == <<workspace, cache, output>>
locals == <<config, pending, found, covered, gem, uses>>
place == <<stage, queue, active, calls>>
fixed == <<runs, family, settings, start, edits>>
vars == <<pc, fixed, disk, locals, place, answer, control>>

Interrupted == cancelled \/ expired
Check == IF cancelled THEN "Cancelled" ELSE IF expired THEN "Deadline" ELSE "Ok"

NoCommand == <<"none", <<>>>>
Command(tool) == <<tool, <<>>>>
\* The index is "absent", "empty", "malformed" (normalize rejects it), "whole"
\* as its producer wrote it, or "complete": whole and normalised.
Produced(form) == [form |-> form, run |-> runs]

\* Settings: GRAPHIT_SCIP_HOST_ROOT is read by one family, the project name's
\* length matters to one, and `fault` is what validate answers.
Settings == [host : BOOLEAN, name : Names, fault : {"none", "Config", "Limit", "Input"}]
Meaningful(s) == (s.host => family = "Clang") /\ (s.name = "long" => family = "Ruby")

\* The workspace files a family's steps look for.
LooksFor(f) ==
  CASE f = "TypeScript" -> {<<"tsconfig.json">>}
    [] f = "Python" -> {<<"requirements.txt">>}
    [] f = "Clang" -> {<<"compile_commands.json">>, <<"build", "compile_commands.json">>,
                       <<"CMakeLists.txt">>}
    [] f = "Dotnet" -> ToSet(Solutions) \cup ToSet(Projects)
    [] f = "Ruby" -> ToSet(Gemspecs)
    [] f = "Php" -> {<<"composer.json">>, <<"composer.lock">>}
    [] OTHER -> {}

Init ==
  /\ family \in Families
  /\ workspace \in SUBSET LooksFor(family) /\ Fixtures \cap LooksFor(family) \subseteq workspace
  /\ pc = "idle" /\ runs = 0 /\ edits = 0
  /\ settings = [host |-> FALSE, name |-> "short", fault |-> "none"]
  /\ cache = [item \in Cached |-> "absent"]
  /\ output = Produced("absent")
  /\ config = FALSE /\ pending = {} /\ found = <<>> /\ covered = {} /\ gem = "none" /\ uses = {}
  /\ stage = 1 /\ queue = <<>> /\ active = NoCommand /\ calls = {}
  /\ answer = "none" /\ cancelled = FALSE /\ expired = FALSE
  /\ start = [output |-> output, cache |-> cache, edits |-> 0, stable |-> {}]

\* A new container: its process starts with fresh locals and flags.
Start ==
  /\ pc = "idle" /\ runs < MaxRuns
  /\ pc' = "preflight" /\ runs' = runs + 1
  /\ settings' \in {s \in Settings : Meaningful(s)}
  /\ start' = [output |-> output, cache |-> cache, edits |-> edits, stable |-> workspace]
  /\ config' = FALSE /\ pending' = {} /\ found' = <<>> /\ covered' = {} /\ gem' = "none" /\ uses' = {}
  /\ stage' = 1 /\ queue' = <<>> /\ active' = NoCommand /\ calls' = {}
  /\ answer' = "none" /\ cancelled' = FALSE /\ expired' = FALSE
  /\ UNCHANGED <<family, edits, disk>>

\* `run` returns; what the process still held is dropped.
Return(value) == pc' = "idle" /\ answer' = value
Stay == UNCHANGED <<fixed, locals, place, control>>

\* typescript_config: the configuration is generated only when there is none.
Generates == workspace \cap {<<"tsconfig.json">>} = {} /\ cache["config"] = "absent"

\* What candidates looks for, and whether it descends.
Wanted ==
  CASE family = "Dotnet" -> Solutions \o Projects
    [] family = "Ruby" -> Gemspecs
    [] OTHER -> <<>>
Recursive == family = "Dotnet"
Discovers == family \in {"Dotnet", "Ruby"}

InputMissing ==
  \/ family = "Dotnet" /\ found = <<>>
  \/ family = "Php" /\ workspace # {<<"composer.json">>, <<"composer.lock">>}
  \/ family = "Clang" /\ workspace = {}

\* What the data a family reads before any effect may be refused for: a
\* pyproject.toml, a PATH, a directory too large.
Unfit == CASE family = "Python" -> {"Input", "Limit", "Config"}
           [] family = "TypeScript" -> {"Limit"}
           [] OTHER -> {}

\* Mutant: the previous index is removed before the inputs are looked at.
RemovesFirst == output' = Produced("absent") /\ UNCHANGED <<workspace, cache>>
Untouched == UNCHANGED disk

\* Lines 528-559.  One fault is enough to refuse; nothing was touched yet.
Preflight ==
  /\ pc = "preflight"
  /\ \/ /\ \/ Interrupted /\ Return(Check)
           \/ settings.fault # "none" /\ Return(settings.fault)
           \/ /\ settings.fault = "none"
              /\ \E value \in Unfit \cup {"Io"} : Return(value)
        /\ UNCHANGED locals
     \/ /\ settings.fault = "none" /\ ~Interrupted
        /\ pc' = "walk"
        /\ config' = (family = "TypeScript" /\ Generates)
        /\ pending' = IF Discovers THEN {<<>>} ELSE {}
        /\ UNCHANGED <<answer, found, covered, gem, uses>>
  /\ Untouched /\ UNCHANGED <<fixed, place, control>>

\* candidates, a directory at a time.  The result is in the order of Wanted:
\* solutions before projects, each group sorted.  A directory that cannot be
\* read, and a path too long, are refused.
Walk ==
  /\ pc = "walk"
  /\ \E dir \in pending :
       LET matching == Matches(dir, Recursive, workspace, ToSet(Wanted))
           all == InOrder(Wanted, ToSet(found) \cup matching)
       IN  \/ Interrupted /\ Return(Check) /\ UNCHANGED locals
           \/ \E value \in {"Io", "Limit"} : Return(value) /\ UNCHANGED locals
           \/ /\ ~Interrupted /\ Len(all) <= MaxDiscovery
              /\ pending' = (pending \ {dir}) \cup Subdirectories(dir, Recursive, workspace)
              /\ found' = all
              /\ UNCHANGED <<pc, answer, config, covered, gem, uses>>
  /\ UNCHANGED <<disk, fixed, place, control>>

\* Lines 570-586.
Admit ==
  /\ pc = "walk" /\ pending = {}
  /\ \/ Interrupted /\ Return(Check)
     \/ InputMissing /\ Return("Input")
     \/ family \in {"Php", "Clang"} /\ Return("Io")
     \/ ~InputMissing /\ ~Interrupted /\ pc' = "remove" /\ UNCHANGED answer
  /\ UNCHANGED disk /\ Stay

\* Lines 587-591.  A missing file is as good as a removed one.
\* Mutant: nothing is removed, the producer is expected to overwrite.
NotRemoved == output
Removed == Produced("absent")
RemoveOutput ==
  /\ pc = "remove"
  /\ \/ Return("Io") /\ UNCHANGED output
     \/ pc' = "stages" /\ output' = Removed /\ UNCHANGED answer
  /\ UNCHANGED <<workspace, cache>> /\ Stay

-----------------------------------------------------------------------------
(* The stages of each family: lines 598-815.                               *)

Stages ==
  CASE family = "TypeScript" -> <<"config", "index">>
    [] family = "Python" -> <<"venv", "pip", "index">>
    [] family = "Clang" -> <<"cmake", "filter", "index">>
    [] family = "Dotnet" -> <<"list", "restore", "index">>
    [] family = "Ruby" -> <<"gemfile", "install", "metadata", "index">>
    [] family = "Dart" -> <<"activate", "index">>
    [] OTHER -> <<"index">>

\* What is read when the stage is reached decides whether the index command
\* will be pointed at the stage's product.
PointsAt(step) ==
  CASE step = "config" -> <<"tsconfig.json">> \notin workspace
    [] step = "cmake" ->
         {<<"compile_commands.json">>, <<"build", "compile_commands.json">>} \cap workspace = {}
    [] step = "filter" -> settings.host
    [] step \in {"venv", "gemfile", "activate"} -> TRUE
    [] OTHER -> FALSE

\* Mutant: a database translated by an earlier run is not translated again.
NeededOnce(step) ==
  CASE step = "config" -> PointsAt(step) /\ config
    [] step = "filter" -> PointsAt(step) /\ cache[step] = "absent"
    [] step \in {"venv", "activate"} -> cache[step] = "absent"
    [] step = "cmake" -> PointsAt(step)
    [] step = "pip" -> <<"requirements.txt">> \in workspace
    [] step = "metadata" -> found # <<>>
    [] OTHER -> TRUE

\* A stage that is not needed is passed over.  The virtual environment and
\* scip_dart are kept from an earlier run, and so is a configuration that
\* was there at preflight.
Needed(step) ==
  CASE step = "config" -> PointsAt(step) /\ config
    [] step \in {"cmake", "filter"} -> PointsAt(step)
    [] step \in {"venv", "activate"} -> cache[step] = "absent"
    [] step = "pip" -> <<"requirements.txt">> \in workspace
    [] step = "metadata" -> found # <<>>
    [] OTHER -> TRUE

\* dotnet_inputs: what no solution covers.
Inputs == InOrder(found, {f \in ToSet(found) : Workspace \o f \notin covered})
Each(tool, fs) == [i \in DOMAIN fs |-> <<tool, fs[i]>>]
Work(step) ==
  CASE step = "list" ->
         Each(step, InOrder(found, ToSet(Solutions)))
    [] step = "restore" -> Each(step, Inputs)
    [] OTHER -> IF Needed(step) THEN <<Command(step)>> ELSE <<>>

\* Ruby: NAME@VERSION from the gemspec, else from the project name.
MetadataFits == gem = "short" \/ (gem = "none" /\ settings.name = "short")

AtStage(step) == pc = "stages" /\ active = NoCommand /\ queue = <<>> /\ Stages[stage] = step

\* A stage is reached: what it depends on is read now.
EnterStage(step) ==
  /\ AtStage(step)
  /\ (step = "index" /\ family = "Ruby") => MetadataFits
  /\ uses' = IF PointsAt(step) THEN uses \cup {step} ELSE uses
  /\ queue' = Work(step)
  /\ IF queue' = <<>> THEN stage' = stage + 1 ELSE UNCHANGED stage
  /\ UNCHANGED <<pc, fixed, disk, config, pending, found, covered, gem, active, calls,
                 answer, control>>

\* A file the stage asks for cannot be looked at.
StageFails ==
  /\ \E step \in {"config", "venv", "pip", "cmake", "gemfile"} : AtStage(step)
  /\ Return("Io") /\ UNCHANGED disk /\ Stay

\* bounded_text(&metadata), after the bundle was installed.
MetadataTooLong ==
  /\ AtStage("index") /\ family = "Ruby" /\ ~MetadataFits
  /\ Return("Limit") /\ UNCHANGED disk /\ Stay

\* `execute` and `write` check first; a refused one leaves no trace.
Launch ==
  /\ pc = "stages" /\ active = NoCommand /\ queue # <<>>
  /\ \/ Interrupted /\ Return(Check) /\ UNCHANGED <<active, queue, calls>>
     \/ /\ ~Interrupted
        /\ active' = Head(queue) /\ queue' = Tail(queue)
        /\ calls' = calls \cup {Head(queue)}
        /\ UNCHANGED <<pc, answer>>
  /\ UNCHANGED <<fixed, disk, locals, stage, control>>

InFlight == pc = "stages" /\ active # NoCommand
Tool == active[1]

\* What is left by a command that did not succeed: nothing, or some of it.
\* A producer may have written all of its index and failed afterwards.
Leftover ==
  /\ \/ UNCHANGED cache
     \/ Tool \in Cached /\ cache' = [cache EXCEPT ![Tool] = "torn"]
  /\ \/ UNCHANGED output
     \/ Tool = "index" /\ output' \in {Produced(f) : f \in {"empty", "malformed", "whole"}}
  /\ UNCHANGED workspace

\* "config" and "gemfile" are fs::write; "list" and "metadata" are captured,
\* and what they print may be too long or unreadable.
Failures ==
  CASE Tool \in {"config", "gemfile"} -> {"Io"}
    [] Tool \in {"list", "metadata"} ->
         {"Io", "Child", "MissingTool", "DeniedTool", "Limit", "Input"}
    [] OTHER -> {"Io", "Child", "MissingTool", "DeniedTool"}

CommandFails ==
  /\ InFlight
  /\ \E value \in Failures : Return(value)
  /\ Leftover /\ Stay

\* The interrupt wins over success, whatever the command had done by then.
CommandInterrupted ==
  /\ InFlight /\ Interrupted
  /\ Return(Check)
  /\ \/ Leftover
     \/ /\ Tool \in Cached /\ cache' = [cache EXCEPT ![Tool] = "ready"]
        /\ UNCHANGED <<workspace, output>>
  /\ Stay

\* A producer that exits 0 may still have left no index, or a bad one.
CommandSucceeds ==
  /\ InFlight /\ ~Interrupted
  /\ cache' = IF Tool \in Cached THEN [cache EXCEPT ![Tool] = "ready"] ELSE cache
  /\ \/ Tool # "index" /\ UNCHANGED output
     \/ Tool = "index" /\ UNCHANGED output
     \/ /\ Tool = "index"
        /\ output' \in {Produced(f) : f \in {"empty", "malformed", "whole"}}
  /\ covered' = IF Tool = "list" THEN covered \cup {Covers(active[2], line) : line \in Listed[active[2]]}
                ELSE covered
  /\ IF Tool = "metadata" THEN gem' \in {"none", "short", "long"} ELSE UNCHANGED gem
  /\ active' = NoCommand
  /\ IF queue = <<>> THEN stage' = stage + 1 ELSE UNCHANGED stage
  /\ pc' = IF Tool = "index" THEN "accept" ELSE pc
  /\ UNCHANGED <<fixed, workspace, config, pending, found, uses, queue, calls, answer, control>>

-----------------------------------------------------------------------------
(* Acceptance: lines 816-822.                                              *)

\* Mutant: the length of the index is not looked at.
Exists == output.form # "absent"
Acceptable == output.form \notin {"absent", "empty"}
Accept ==
  /\ pc = "accept"
  /\ IF Interrupted THEN Return(Check)
     ELSE \/ Return("Io")
          \/ Acceptable /\ pc' = "normalize" /\ UNCHANGED answer
  /\ UNCHANGED disk /\ Stay

\* encoding::normalize, as module Encoding shows it: the index is replaced
\* only by a completed one, and an interrupt may come after that.
Normalize ==
  /\ pc = "normalize"
  /\ \/ Return("Io") /\ UNCHANGED output
     \/ Interrupted /\ Return(Check) /\ UNCHANGED output
     \/ output.form = "malformed" /\ Return("Input") /\ UNCHANGED output
     \/ /\ output.form \in {"whole", "complete"}
        /\ output' = [output EXCEPT !.form = "complete"]
        /\ IF Interrupted THEN Return(Check) ELSE pc' = "last" /\ UNCHANGED answer
  /\ UNCHANGED <<workspace, cache>> /\ Stay

LastCheck == pc = "last" /\ Return(Check) /\ UNCHANGED disk /\ Stay

-----------------------------------------------------------------------------
(* What happens to a run.                                                  *)

Interrupt ==
  /\ pc # "idle"
  /\ \/ ~cancelled /\ cancelled' = TRUE /\ UNCHANGED expired
     \/ ~expired /\ expired' = TRUE /\ UNCHANGED cancelled
  /\ UNCHANGED <<pc, fixed, disk, locals, place, answer>>

\* SIGKILL, or the container is stopped: nothing is answered, and a command in
\* flight dies with it.
Killed ==
  /\ pc # "idle" /\ pc' = "idle"
  /\ Leftover
  /\ UNCHANGED answer /\ Stay

\* The user adds or deletes a file.
Edit ==
  /\ edits < MaxEdits /\ edits' = edits + 1
  /\ \E f \in LooksFor(family) \ Fixtures :
       /\ workspace' = (workspace \ {f}) \cup ({f} \ workspace)
       /\ start' = [start EXCEPT !.stable = @ \ {f}]
  /\ UNCHANGED <<pc, runs, family, settings, cache, output, locals, place,
                 answer, control>>

Step ==
  \/ Preflight \/ Walk \/ Admit \/ RemoveOutput
  \/ \E step \in ToSet(Stages) : EnterStage(step)
  \/ StageFails \/ MetadataTooLong
  \/ Launch \/ CommandFails \/ CommandInterrupted \/ CommandSucceeds
  \/ Accept \/ Normalize \/ LastCheck

Next == Start \/ Step \/ Interrupt \/ Killed \/ Edit

Spec == Init /\ [][Next]_vars

\* The program takes its next step, but a command may run for ever; one that is
\* interrupted returns, as CommandContract says.
Fairness == WF_vars(Step /\ (~InFlight \/ Interrupted))
FairSpec == Spec /\ Fairness

-----------------------------------------------------------------------------
(* The abstract run: see Publication.                                      *)

Phase ==
  CASE pc \in {"preflight", "walk", "remove"} -> "admitting"
    [] pc \in {"stages", "accept", "normalize"} -> "producing"
    [] pc = "last" -> "published"
    [] OTHER -> "idle"
Index == [output EXCEPT !.form = IF @ \in {"absent", "complete"} THEN @ ELSE "partial"]
Errors == {"Config", "Input", "Limit", "Io", "MissingTool", "DeniedTool", "Child",
           "Cancelled", "Deadline"}

Abstract == INSTANCE Publication
  WITH phase <- Phase, run <- runs, index <- Index, interrupted <- Interrupted

-----------------------------------------------------------------------------
(* Properties.                                                             *)

Commands == {Command("index")} \cup
  {Command(s) : s \in Cached \cup {"pip", "install", "metadata"}} \cup
  {<<s, f>> : s \in {"list", "restore"}, f \in ToSet(Solutions \o Projects)}

\* The variables keep their types, a stage is always one of the family's,
\* a queued command is never in flight as well, and only a nonempty index is
\* ever normalised.
TypeOK ==
  /\ pc \in {"idle", "preflight", "walk", "remove", "stages", "accept", "normalize", "last"}
  /\ runs \in 0..MaxRuns /\ edits \in 0..MaxEdits
  /\ settings \in Settings /\ workspace \subseteq LooksFor(family)
  /\ cache \in [Cached -> {"absent", "torn", "ready"}]
  /\ output \in [form : {"absent", "empty", "malformed", "whole", "complete"},
                 run : 0..runs]
  /\ config \in BOOLEAN /\ gem \in {"none", "short", "long"}
  /\ uses \subseteq Cached /\ Len(found) <= MaxDiscovery
  /\ calls \subseteq Commands /\ active \in Commands \cup {NoCommand}
  /\ active \notin ToSet(queue)
  /\ pc = "stages" => stage \in DOMAIN Stages
  /\ pc \in {"normalize", "last"} => output.form \notin {"absent", "empty"}
  /\ answer \in {"none", "Ok", "Config", "Input", "Limit", "Io", "MissingTool",
                 "DeniedTool", "Child", "Cancelled", "Deadline"}

\* A run that answers Ok left a complete index that it produced itself: an
\* index of an earlier run is never accepted, not even when the producer exits
\* 0 without writing anything, and never when the run was killed half-way.
OnlyFreshAccepted ==
  pc = "idle" /\ answer = "Ok" => output = Produced("complete")

\* docs/scip-dispatch.md promises one index, published whole or not at all: every
\* run, whatever its family, its commands and those who stop it do, is a run of
\* Publication.  An index of an earlier run goes only once the inputs of this
\* one were admitted, is never taken for the new one, what a producer wrote is
\* never answered for before it was completed, and a run that is interrupted
\* ends.
Publishes == Abstract!PSpec
PublishesSafely == Abstract!PSafety

\* A product of a stage that is as good as the code means it to be.
Prepared(item) ==
  IF item \in {"cmake", "filter", "gemfile"}
  THEN cache[item] = "ready" /\ Command(item) \in calls
  ELSE \/ cache[item] = "ready"
       \/ start.cache[item] = "torn"
       \/ item = "config" /\ edits # start.edits

\* When the index command runs, everything in the cache it is pointed at was
\* finished.  A compilation database or a Gemfile is of this run.  Only an
\* environment, scip_dart or a configuration may be unfinished, when an
\* earlier run was stopped while making it, and only a tsconfig.json deleted
\* during the run can leave the index command without a configuration.
IndexWellPrepared ==
  InFlight /\ active = Command("index") => \A item \in uses : Prepared(item)

\* A project the walk must find: no name on its way is hidden, generated or a
\* link.
InTree(f) ==
  /\ \A i \in DOMAIN f : f[i] \notin Hidden /\ SubSeq(f, 1, i) \notin Links
  /\ \A i \in 1..Len(f) - 1 : f[i] \notin Generated

\* .NET: when the index command runs, every project that was in the tree from
\* the start, however deep it lies and whatever the user did to the others, is
\* indexed once: as an input of its own, or as a member of a solution that is an
\* input.  Nothing outside the tree is an input, and all inputs were restored.
EveryProjectIndexed ==
  InFlight /\ active = Command("index") /\ family = "Dotnet" =>
    /\ \A f \in {g \in start.stable \cap ToSet(Projects) : InTree(g)} :
         f \in ToSet(Inputs)
           <=> \A s \in ToSet(Solutions) \cap ToSet(Inputs) : f \notin Members[s]
    /\ \A f \in {g \in start.stable \cap ToSet(Solutions) : InTree(g)} : f \in ToSet(Inputs)
    /\ \A f \in ToSet(Inputs) : InTree(f) /\ <<"restore", f>> \in calls

\* docs/scip-dispatch.md: "Rejected configurations preserve previous output and
\* start no subprocess."  With no gemspec or solution found, what is over a cap
\* can only be the configuration.
RejectedConfigurationStartsNothing ==
  pc = "idle" /\ answer \in {"Config", "Limit"} /\ found = <<>> =>
    calls = {} /\ output = start.output
=============================================================================
