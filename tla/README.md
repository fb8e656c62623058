# TLA+ models of graphit-scip

graphit-scip packages third-party SCIP indexers as container images. One image
serves one language family. A container prepares its mounts and identity
(`scip-entrypoint`), then becomes the dispatcher (`scip-run`), which drives the
commands of the family one after another, finds the index the last of them
wrote, completes its position encodings and answers with an exit code. For C
and C++ a separate program translates and selects the entries of the
compilation database on the way. Another program lists the images of a release
for the workflow that builds them.

This directory holds TLA+ modules of that system, the configurations with which
TLC checks them on small instances, and proofs for TLAPS. Every definition that
models code is listed with its lines in `PROJECT.json` ("map"), next to the
runs, a broken variant of the code for every property ("mutants"), the hazards
the properties are for, and the theorems.

    tlc -workers 2 -config MCDispatch.cfg MCDispatch    # one run
    tlapm DispatchProofs.tla                            # the proofs about it

## The system and its parts

| Part | State | Operations | What is hard |
| --- | --- | --- | --- |
| `execute` (dispatch/process.rs) | one child in its own process group, a reader thread, a one-slot channel | spawn, poll, stop, drain, answer | threads and a process tree interleave with signals, the clock and each other; three platforms differ |
| `Control` (dispatch.rs) | a flag and a deadline | `check` | polled everywhere, may turn true between any two steps |
| `run` (dispatch.rs) | local; cache and output on disk outlive it | preflight, remove, the stages of ten families, accept | runs share a cache; a run may be interrupted or killed at any step |
| `candidates`, `dotnet_inputs` (dispatch.rs) | the directories still to read | walk, resolve what a solution lists | the user edits the tree meanwhile; links, exclusions, the limit, `..` |
| configuration readers (dispatch.rs) | none | TOML, Python versions, PATH | limits |
| `normalize` (dispatch/encoding.rs) | a temporary file | rewrite, rename | errors pass through a library that hides their cause; the file must never be half new |
| `scip-entrypoint` | identity; overlay, cache and output directories on the host | resolve, prepare, mount, exec | containers follow one another over the same mounts, some of them killed |
| `scip-run` | the process | parse, install the handler, run, exit code | signals before, during and after the run |
| `compdb.rs` | none | parse, select, translate, respell, serialize | paths of three kinds, quoting, case folding, `..` |
| `filter-clang-compdb` | open files | identify, read, write | others work on the same files |
| `release.rs`, `release-metadata` | the rows of the matrix | discover, render, compare, append, print | others change images/ and the output; a failed append |
| `xtask`, images, workflows, vendored patches | | | not modelled |

`scip-entrypoint` execs `scip-run`, so one process number carries both. `run`
calls `execute` for every command and `normalize` at its end; all three share
one `Control`, which the signal handler writes from another thread. For clang,
one of the commands is `filter-clang-compdb`, whose two files are a user's and
the cache's. Nothing else is shared but the file system.

What makes each part correct, in short:

- `execute`: on return nothing of the group is left unsignalled, the answer
  names the true cause, a capture is whole or refused, and it returns.
- `run`: the output path goes from an old index to nothing and then to a complete
  one of this run; what is refused beforehand leaves everything as it was; a run
  that is interrupted ends; every project is indexed once.
- `normalize`: at every moment the output path holds all of one index.
- container: one identity, chosen before any effect; a fresh overlay; status 0
  means an index; a signal ends it.
- `compdb.rs`: an entry becomes the file it stood for, in one spelling, in its
  paths and in its command.
- `filter-clang-compdb`: the host's database is never damaged.
- `release-metadata`: the matrix lists the images that were there, whole or with
  an error, and no image is written to.

## Modules

| Module | Models | Relies on |
| --- | --- | --- |
| `CommandContract` | what a caller may rely on in `execute` | |
| `Execute` | `execute`, its reader thread, the processes under it | |
| `ExecuteProperties` | properties of `Execute`, the refinement mapping, the inductive invariant | `Execute`, `CommandContract` |
| `Encoding` | `normalize` | |
| `Publication` | what a caller may rely on in `run` | |
| `Order`, `Paths` | two algorithms, as functions: a list put in order, a path resolved; the reference for the second | |
| `Discovery` | the directory walk and what a solution covers, as operators | `Order`, `Paths` |
| `Dispatch` | `run`, its mapping to `Publication` | `Discovery`; a command as `CommandContract`, normalisation as `Encoding` shows them |
| `Entrypoint` | `scip-entrypoint`, and the mounts containers share | |
| `Container` | the entrypoint, then `scip-run`, from start to exit code | `Entrypoint`; `run` as `Publication` |
| `Selection` | path translation and selection of `transform` | `Paths` |
| `SelectionProperties` | its properties and their reference | `Selection` |
| `Rewrite` | what `transform` does to `command` and `arguments` | |
| `RewriteProperties` | its properties and the references on words and characters | `Rewrite` |
| `CompdbFilter` | `filter-clang-compdb` | `transform` as a step that may refuse |
| `Release` | `release-metadata` | `Order` |
| `ListProofs` | what the other proofs need of numbers, lists, `Order` and `Paths` | |
| `...Proofs` | theorems and proofs about the module they are named after | |
| `CompdbFilterProofs` | also those about `Rewrite` | `RewriteProperties` |
| `MC...` | constants, bounds and references for TLC | |

So the parts are joined by two contracts: `Execute` is shown to implement
`CommandContract`, `Dispatch` uses commands that behave like that and is shown
to implement `Publication`, and `Container` uses a run that behaves like that.

### Execute

`pc` is the place of the calling thread: `check`, `recv`, `poll` are the loop of
lines 171-206; `kill`, `retry`, `rekill`, `reap` are `OwnedChild::stop`, which is
also reached through `Drop` once the answer is chosen; `drain`, `settle`,
`final` are lines 210-234. `rd` is the place of the thread scip-metadata, `chan`
the slot of its `sync_channel(1)`. `proc` gives for each process whether it is in
the leader's group, has left it, is a zombie or gone; `doomed` who was sent
SIGKILL; `holders` who has the pipe's write end. Bytes are counted in units.
`failed` is a history variable: some operation failed, or the drain timed out.

Taken as given: the kernel signals all or none of a group; a group leader cannot
leave its group; a process with a fatal signal pending cannot fork; a Windows job
cannot be left and its `wait` waits for the whole job; SIGKILL takes effect some
time later. The reader may panic when it reports an error on a closed stderr.
The number of a reaped leader is not used again by another group.

`CommandContract` has no thread, pipe or system call: a command is called,
running, contained and returned. It says that the group is never owned after
containment, that an interrupt is named after the flag that is set, that success
means no interrupt so far, and that an interrupted command returns. `Implements`
states the refinement with its liveness.

### Encoding

An index is a sequence of top-level fields, each a record of what the rewriter
looks at. `buffer` stands for both buffered writers, `temporary` for what reached
the file. `Notice` is a control check that fails inside the reading or writing
adapter, from which the library makes an input or an I/O error. There is no
fairness, so every state is also one in which the process may have been killed.
`MCEncoding` defines well-formedness and completion again without cursor or
stack, by counting. Power loss (fsync) is outside.

### Dispatch, Discovery and Publication

One state machine of runs. `Stages` lists for each family what lines 598-815 do
in order, `Needed` under which condition, `Work` with which commands. What a
stage leaves in the cache is named after it and is absent, torn (there, made by
a stage that did not finish) or ready. A command is one step that starts and one
that ends: with success only if there was no interrupt, as the contract says;
otherwise leaving some part of its product. `uses` holds what the index command
is pointed at, so that its readiness can be stated. Files whose presence only
chooses an argument (lock files, the source Gemfile, sorbet/config) are left out,
and so are two containers at once over one cache.

The walk of `candidates` reads one directory a step; `pending` is its stack of
directories and `found` what it collected. Between any two steps of the whole
run the user may add or delete one of the files the run looks for. A file is the
sequence of names that leads to it, so that a hidden or generated directory, a
link and the limit are told apart as the code tells them apart; what
`dotnet sln list` prints is joined to the solution's directory and resolved name
by name, as the code does, before it is compared.

`Publication` has no family, stage or command: a run admits, withdraws the old
index, produces, publishes and answers, or is refused, gives up or is killed.
`Phase` and `Index` map a run to it: everything before the removal is admitting,
everything up to the renaming by `normalize` is producing, and every output that
is there and not normalised is a partial index. Its one fairness condition is
that an interrupted run ends.

### Entrypoint and Container

One identity stands for the pair UID and GID. `Start` is the caller: it chooses
the environment and may hand over fresh layers or those of an earlier
container. Creating, looking at and chowning a directory may each fail; a refused
chown of cache and output is ignored as in the code. `Container` goes on after
the exec: `step` is the place of `scip-run`, the run inside is an instance of
`Publication`, and `Index` lets its commands write to the workspace, which is
what a later container must not see. `stop` is the caller's signal: before the
handler is installed process 1 ignores it, and it may be sent again; then it
sets the flag of the control the run was given. `Code` is `Error::exit_code`. A
killed container takes its children with it, since `exec` keeps the dispatcher
as process 1.

### Selection

A path is an anchor (POSIX, drive, relative) and its components. `Lower` and
`Fold` are the two ways the code ignores case, which differ ("ß" folds to "ss"
but is not lowered to it). Entries are independent of each other, so one entry
per database is enough. `SelectionProperties` finds where a path leads by levels
instead of a stack (`Place` of `Paths`). A path that climbs above the root and
comes back is not said to be resolved (`StaysBelow`): the code walks a relative
source from where its directory lies in /workspace, where there is nothing above
the root to come back from. Climbing within the directory itself is harmless, since
the directory is resolved on its own first. Left out: roots that
normalise to "/", Windows paths that begin with one separator.

### Rewrite

A text is a sequence of symbols: a spelling of the root, a joined flag and the
letter "ß" are one symbol each, anything else is a character. `Roots` is the
regular expressions and the loop of `Rewriter`, `Canonical` the respelling of one
pair of names with its two cursors, in the original and in the folded text,
`Flags` the separators of include and output flags. The references work on words
(where a shell would begin an argument) and on characters (which stretches fold
to the name and lie between boundaries), with no regular expression or cursor.

What writing the references showed, and the properties therefore say:

- On Windows a backslash escapes no blank, but the expression that finds the end
  of an argument takes it so (compdb.rs:469). After an argument that begins with
  the root and ends in a backslash, a second such argument stays untranslated.
  `RootsTranslated` names this case `Swallowed`, together with the quote that
  closes a quotation just before a root.
- A name is matched after "-" and after a letter that is not of ASCII, which
  `Boundary` lists.
- A later spelling of the root inside the rest of an argument that was already
  translated is only slashed.

### CompdbFilter

Files are identified as `same_file` does, and a name leads to a file; each call
to the file system is a step of its own. Between them others may replace INPUT
with a new file, extend it, make OUTPUT a link to it, remove OUTPUT or the
manifest. They never give a name back to a file that lost it. `late` remembers
that OUTPUT was made a link which no comparison sees. That is so after the last
comparison, and also between the two of `check_alias`: if INPUT was replaced
once it had been compared and OUTPUT is then linked to the replacement, the
second comparison, with the file identified first, passes. The documentation
excludes such moments ("a cooperative filesystem check").

### Release

An entry of images/ is of one of four kinds; `ReadEntry` takes the entries in
any order and looks at each as it is by then. The comparison of the output with
the Dockerfiles is one family a step, and others may change an entry or make the
output a link to a Dockerfile between any two steps. Any call may fail. The
output's own text is a sequence of lines. `late` is as in `CompdbFilter`.

## Runs

| Run | Question | Bounds |
| --- | --- | --- |
| `execute_capture` | Is the group contained, the capture whole, the child blamed justly? | Linux, leader and two descendants, 3 units written against a limit of 2, pipe of 2, thread or reservation may fail |
| `execute_darwin` | Has Io a cause; is the contract implemented; does it return? | Darwin, leader and one descendant, read, poll and kill may fail |
| `execute_windows` | Is the contract implemented with inherited stdout? | Windows, leader and two descendants, everything may fail |
| `encoding` | Is the output path whole at every moment, and every refusal deserved? | all indexes of up to 4 fields, groups of two numbers, a family with and one without a contract |
| `dispatch` | Is a run one of `Publication`; is its index made from what was ready, and of every project once? | all families, two runs, one edit by the user, two solutions sharing a project, six projects (two in excluded directories, one behind a link), three gemspecs, a limit of 4 candidates |
| `dispatch_rejected` | Does a rejected configuration start nothing? Violated | Ruby, as above |
| `entrypoint` | Fresh overlay, right identity, no effect of a refusal; what do status 0 and a signal mean? | two containers, two identities, three errors of a run |
| `selection` | Does every entry become the file it stood for, in the manifest's spelling? | sources of up to 3 components, none with "workspace" after a "..", eight directories, four roots, four manifests |
| `selection_escape` | The same, with a sibling of the root called workspace. Violated | as above |
| `rewrite` | Is every argument that begins with the root translated, every name respelled, and nothing lost? | all texts of up to 5 symbols for the roots, of up to 4 for the names |
| `compdb_filter` | Does the host's database survive others, and is what is reported true? | inputs of up to 3 chunks against a limit of 2, three steps of others |
| `release` | Is the matrix exact, the append whole or reported, every Dockerfile unharmed? | four entries, at most 2 families, two steps of others |

Why the bounds are enough. Two descendants are the least with which one forks
while another holds the pipe and a third escapes; the limit is exceeded by one
unit and by two. Four fields are the least for a group inside a group. Two runs
show what one leaves for the next, and nothing but the disk passes between them;
a third could only meet other combinations of torn and finished items, each of
which one run already leaves alone. One edit at any step of the walk is enough to
take away or bring a file before, while or after its directory is read; two are
two such files, and the walk relates no two of them but through the limit, which
six projects exceed. Two containers are one that leaves something and one that
finds it. Three components go down, up and past the root. Five symbols are a
quoted flag with a root and what follows it, or two arguments that begin with the
root; four characters are a name of two with a neighbour on each side, and a
letter that folds to two at either end. Three steps of others are what the window
inside `check_alias` takes: a replacement, a link and an extension of what is
being written through it. Two changes are
one entry and one link of the output. The processes forked are symmetric, and
symmetry is used only where no liveness is checked.

`CHECK_DEADLOCK FALSE` is in every configuration because each of these programs
ends: one call returns, one index is normalised, the bounded number of runs or
containers is used up.

Two runs find what the documentation says violated by what the code does:

- `dispatch_rejected`: docs/scip-dispatch.md:104, "Rejected configurations
  preserve previous output and start no subprocess." The suffix of Ruby's gem
  metadata is added and checked (dispatch.rs:774) when the output is gone and
  the bundle installed.
- `selection_escape`: docs/compdb-filter.md:86, an "escaping relative path" is
  retained as unresolved. `source_relative` (compdb.rs:401) resolves it among the
  container's names, where `../workspace/a.c` beside the root is inside again.

## Fairness

- `Execute`: weak fairness of the calling thread and the reader thread (the
  operating system schedules threads, and the drain's clock advances) and of the
  death of a process that was sent SIGKILL. Nothing is assumed of what the child
  and its descendants do, of the signal handler or of the deadline; a blocking
  read, and a `wait` that may fail, are never owed an answer: `ReadError` and
  `WaitFails` are in no fair action.
- `Dispatch`: weak fairness of the program's own step, when no command is in
  flight or the run is interrupted. A command may run for ever; one that is
  interrupted returns, which is what `CommandContract` promises and `Execute` is
  checked to keep.
- `Container`: weak fairness of `scip-run`'s own steps, and of the return of an
  interrupted run, which is what `Publication` promises and `Dispatch` is checked
  to keep. The run itself may take for ever, and nothing is assumed of the
  entrypoint, of the caller or of kills.

The other modules have no fairness, so all that is said of them is also said of
processes that stop anywhere.

## Proofs

Each invariant below was checked by TLC on the instances of the runs first.

`ExecuteProofs`, for every platform, set of processes, limits and set of faults
that satisfy `ExecuteAssumption`:

- `Invariance`: `IndInv` is an invariant. `TypeOK` alone is not enough for
  anything else. `GroupInv` says that a group that was signalled and not yet
  waited for has no unsignalled member, which a fork keeps because it copies its
  parent's membership and is refused to a signalled parent. `AnswerInv` says when
  the answer is chosen and that Io is the answer while the group is unstopped.
  `ReaderInv` says that the verdict is sent once, is in the channel or received,
  and that "Ok" means an empty pipe with no writer. `ChildInv` relates how the
  leader ended to the answer: a SIGPIPE needs a reader without a good verdict.
  `CauseInv` follows "Io" back to a failure.
- `TypeCorrect`, `GroupAlwaysContained`, `CaptureAlwaysComplete`,
  `ChildNeverBlamed`, `IoAlwaysHasCause`: the safety properties of the runs.
- `ImplementsContract`: the safety part of `Implements`; `ContractStep` maps
  every action to a step of the contract or to a stutter.

`DispatchProofs`, for every set of families, solutions, projects, files and
names, any limit and any number of runs and edits. The first three need no
assumption; the others need `DispatchAssumption` (the constants have their
types), `TreeAssumption` (every file is in the tree once, and none lies below another)
and `ListedAssumption` (what `dotnet sln list` prints leads from the solution to
its members, and no line that is read, since it ends in .csproj or .vbproj, is
called like a solution):

- `Invariance`: `RunInv` says where the run is (`PlaceInv`: a command is in
  flight only in a stage, nothing is answered before the end) and whose the
  output is there (`OutputInv`: from the removal on it is this run's, and complete
  exactly after the renaming). Without the second part a producer that writes
  nothing could not be told from one that did. `LeftoverWrites` is the one fact
  about commands that fail.
- `OnlyFresh` follows from it; `ImplementsPublication` is the safety part of
  `Publishes`, one lemma for each kind of step.
- `StateInvariance`: `StateInv` adds the types, that the walk only ever found
  what is sorted afterwards (`FoundInv`), and that the commands waiting and in
  flight are the rest of what this stage has to do (`QueueInv`), without which
  the type of the place in a stage does not follow. `TypeCorrect` is `TypeOK`.
- `WellPrepared`: `PreparedInv`. `CacheInv` says that what a stage to come leaves
  in the cache has not been touched by this run, so that "torn" there is an earlier
  run's; `UsesInv` that everything in use is prepared or is being prepared by the
  stage at work; `ConfigInv` why the stage that generates a configuration was not
  taken.
- `ProjectsIndexed`: `WalkInv` says of every file that was there from the start
  that it was found or that a directory on its way is still to be read (`ToCome`),
  though the user edits others meanwhile; `CoverInv` follows the solutions and
  projects whose commands are still waiting. `CoversProperties` needs that resolving
  ".." by a stack gives the path itself when it has none, and that one name has
  one place.

`ContainerProofs`, for every set of identities and errors, any number of
containers and whatever layers the first of them finds:

- `Invariance`: `ContainerInv` is the types, `RunInv` (what `scip-run` has done
  and been answered at each of its steps) and `HostInv` (what the entrypoint has
  checked and made at each of its places: that a layer is its own from the moment
  it was found empty, that the identity was selected by what was there at the
  start, that nothing was touched before). It uses only what `Publication` says of
  the run.
- `Typed`, `AlwaysFresh`, `OccupiedStays`, `AlwaysAsSelected`,
  `RefusalLeavesAll`, `ZeroAlwaysIndex`: all safety properties of the run.

`CompdbFilterProofs`, for inputs of every length, every limit and any number of
steps of others:

- `Invariance`: files are numbered as they come and INPUT only goes to newer
  ones, so two comparisons with equal results mean that the same file was there
  all the time between them (`OrderInv`). `ReadInv` relates what was read to that
  file, `FileInv` says that every file but OUTPUT only grows, `LinkInv` what the
  comparisons of OUTPUT leave possible. The attempt to prove this with the first
  definition of `late` failed at a step that turned out to be the window inside
  `check_alias` described above, which two steps of others do not reach; the run
  now allows three.
- `LimitNeverExceeded` (types, and the limit while the input grows),
  `InputAlwaysSurvives`, `RefusalAlwaysKeepsFiles`, `AlwaysTranslatesInput`,
  `AlwaysReportedComplete`, `ManifestNeverIgnored`: all properties of the run.

`EncodingProofs`, for indexes of every length and nesting, every set of groups
and families, and interrupts at any moment:

- `Invariance`: `StackInv` says that the stack is as long as the depth counted
  from the start, and that each entry is the group of the field that opened that
  level and was not left since; so the field that closes a level matches its top
  exactly if it matches its opener (`OpenerOfTop`, which needs that the opener is
  unique, `OpenerIs`). `PrefixInv` says that nothing read so far makes the index
  ill-formed, `BufferInv` that the buffer is the completion of what was read,
  `PlaceInv` and `CauseInv` where the index is and why the rewriting stopped.
- `IndexAlwaysWhole`, `SuccessAlwaysCompleted`, `InterruptNeverMasked`,
  `RejectionAlwaysDeserved`: all properties of the run.

`ListProofs`, for lists and paths of every length:

- `NormalIsPlace`: the stack of components with which `normalize` and
  `dotnet_inputs` resolve ".." gives what the reference without a stack says. The
  library's induction theorems have an operator as a parameter and cannot be
  used; `Induction` and `Recursion` state the same of sets and functions, which
  can. What is to be shown for all n is then the set of those it holds of.
- `InOrderProperties`, `NormalWalk` and the other lemmas are what the proofs about
  `Dispatch`, `Release` and `Selection` rest on.

`ReleaseProofs`, for any set of entries, cap and number of steps of others, under
`ReleaseAssumption` (the order has every family once, and no family is an invalid
name or is called like a state of the output):

- `EntriesInv` follows the directory: what was read of an entry that is
  stable is what it still is, and what was listed was an image at some time.
  `OutputInv` says which comparisons the output has passed, and that a link made
  since then is `late`. `AppendInv` says that what was appended is a beginning of
  the record, and which one at each place. All three are needed at once: the
  record is made of what was read.
- `AppendedOrReported`, `NoDockerfileWritten`, `PrintedExactly`: all properties of
  the run.

`SelectionProofs`, for every root, file name, database and manifest, and any two
ways of ignoring case, under `SelectionAssumption` (the constants have their
types; the root is absolute, lines 752-754, and not the top itself):

- `SelectionInv` says of each entry kept that it is one of the outcomes its own
  source has, and of each left out that it could be; root and manifest are read
  once. So every property becomes one of the operators: `WorkspacePathIs` and
  `SourceInPlace` say where `workspace_path` and `source_relative` lead in terms of
  the reference. For a relative source two walks, on the host and in the
  container, take the same steps below the root (`SameSteps`), until one of them
  would climb above it (`NeverAtTheTop`).
- `ResolvesInside` and `DirectoryLeads` hold of every database.
- `KeepsInPlace` and `SelectsExactly` have the hypothesis `NoClimber`: no relative
  source has a component "workspace" after a "..". Such a source can leave the
  root and come back by a sibling of that name, and refutes both: that is the run
  `selection_escape`. The sources of the run `selection` are all others, those
  named "workspace" included, so `NoClimber` holds there.

The second part of `CompdbFilterProofs` is about `Rewrite`, for texts of every
length, every table of spellings and every list of names, under `WellFormed`, the
assumption that `Rewrite` states and TLC evaluates. It says what lines 406-437 make
so: a spelling of a root is not a character that the code tells apart nor one of a
name, a Windows root is looked for with either separator, and the two names of a
pair fold alike, because the manifest is looked up by the folded name:

- `RewriteInv` relates the text that was given, what the roots made of it and what
  it is now. `Kept` says that each symbol stays, is a translated root, or is a
  separator turned behind one; `Sought` that a root with which an argument begins
  is translated or lies in the rest of an argument before it. Both are stronger
  than `RootsTranslated`: they say it of arguments as the code finds them, before
  and behind, so that the next prefix may be passed over what the last one made
  (`PassKeeps`: the boundaries that the code looks for neither come nor go).
- `TranslatesRoots` then compares that with a shell's words: every word begins
  where the code looks (`WordsAreSought`), and what the code takes to be inside an
  argument without being so is `Swallowed` (`CoveredWords`).
- `LosesNothing` needs that folding a text is folding its parts (`FoldSplit`), and
  that where both cursors of `replace_windows_source` hit, the part between them
  folds to the name (`FoundFolds`), so that each replacement leaves the folded text
  as it was.

- `RespellsSource` compares `canonicalize` with the reference on characters. It
  also assumes `AlphabetKnown`, which `RewriteProperties` states and TLC evaluates:
  on Windows every symbol of a text, or of a name of the manifest, is a boundary of
  the reference or what a name goes on with, and none is both. The boundaries that
  `Boundary` lists stand for any other character that is no ASCII letter or digit
  and none of `_./\`. A cursor that only moves on finds what one from the start would
  find (`AdvanceFinds`), because no two places of a text are one place of the folded
  text (`FoldedIs`); so the code finds a name at a place exactly when the reference
  does (`SpellsWhen`). `Decided` is the invariant of the search over the overlapping
  places: what is written, what was not copied yet and what the reference makes of
  the rest are together what it makes of all (`FoundDecides`, `NoRoomLeft`).
  `RespelledInv` carries this, and that the text stays in the alphabet, from one pair
  of names to the next.

Every safety invariant and action property of a passing run is so stated by a
theorem. Only model-checked: liveness (`Returns`, `StopEnds`, the fairness parts of
`Implements` and `Publishes`), which this prover does not reach.

## Not modelled

`xtask` (drives cargo and docker, keeps nothing), images and workflows (build
recipes), vendored patches (an indexer is seen by what it leaves at the output
path). Of what is modelled: the JSON reader and writer of compdb.rs (duplicate
keys, encodings, numbers) are refusals in `CompdbFilter`; the parsing of TOML, of
Python versions and of the timeout is a choice between accepted and refused;
reuse of process numbers; two containers at once over one cache and output,
against which the code has no guard; power loss.

## Plan

Done, in this order: `Execute` with `CommandContract` and its proofs, `Encoding`,
`Dispatch`, `Entrypoint`, `Selection`, `CompdbFilter`; then `Publication`,
`Discovery` with the edited walk, `Container`, `Rewrite`, `Release`, and the proofs
about `Dispatch`, `Container`, `CompdbFilter` and `Encoding`; then `ListProofs` and
the proofs about `Release`, `Selection`, the rest of `Dispatch` and `Rewrite`.

What is left:

1. The configuration readers: the grammar of a Python requirement and the limits
   of `bounded_read` against a reference.
2. Two containers at once over one cache and one output, as a run that shows what
   the caller has to exclude.
