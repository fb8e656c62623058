---------------------------- MODULE CompdbFilter ----------------------------
(***************************************************************************)
(* The command filter-clang-compdb (bin/filter-clang-compdb.rs): it reads  *)
(* INPUT, translates it (Selection) and writes OUTPUT.  Its calls to the   *)
(* file system are steps of their own, between which others work on the    *)
(* same files: they replace and extend INPUT, make OUTPUT a link to it,    *)
(* remove OUTPUT or the manifest.  A file is a sequence of chunks, named   *)
(* by its identity (same_file::Handle, which keeps it from being reused).  *)
(***************************************************************************)
EXTENDS Integers, Sequences, SequencesExt

CONSTANTS
  InputLimit,  \* --max-input-bytes, in chunks
  MaxLength,   \* bound: length of an input
  MaxMeddling  \* bound: steps of others

ASSUME CompdbFilterAssumption ==
  InputLimit \in Nat \ {0} /\ MaxLength \in Nat /\ MaxMeddling \in Nat

Files == 0..MaxMeddling + 2
Missing == MaxMeddling + 3  \* no file
Chunks == {"part", "end", "old", "new"}
\* A translated database, and the chunks of it that are written one by one.
Translation == <<"new", "new">>

VARIABLES
  pc,
  name,      \* the file each of INPUT and OUTPUT leads to
  content,   \* chunks of each file
  manifest,  \* the allowed-source manifest
  identity,  \* the handle on INPUT that was taken first
  source,    \* the file that is read
  bytes,     \* chunks read so far
  selecting, \* a manifest was read
  target,    \* the file opened for writing
  written,   \* chunks write_all has written
  answer,    \* exit of the process
  meddled,   \* steps of others so far
  original,  \* history: what others put in each file
  late       \* history: OUTPUT was made a link that no comparison would see

process == <<pc, identity, source, bytes, selecting, target, written, answer>>
history == <<meddled, original, late>>
vars == <<process, name, content, manifest, history>>

\* A database is whole when its bracket is closed, once and at the end.
Parses(chunks) ==
  /\ chunks # <<>>
  /\ \A i \in DOMAIN chunks : chunks[i] = IF i = Len(chunks) THEN "end" ELSE "part"

Start(input, output) ==
  [f \in Files |-> IF f = 0 THEN input ELSE IF f = 1 THEN output ELSE <<>>]

Init ==
  /\ pc = "identify"
  /\ name \in [input : {0}, output : {0, 1, Missing}]
  /\ \E input \in BoundedSeq({"part", "end"}, MaxLength) : content = Start(input, <<"old">>)
  /\ manifest \in {"valid", "invalid", "missing"}
  /\ identity = Missing /\ source = Missing /\ bytes = <<>> /\ selecting = FALSE
  /\ target = Missing /\ written = 0 /\ answer = "none"
  /\ meddled = 0 /\ original = content /\ late = FALSE

Goto(next) == pc' = next /\ UNCHANGED answer
Refuse == pc' = "done" /\ answer' = "refused"

Identify ==
  /\ pc = "identify"
  /\ identity' = name.input
  /\ Goto("input1")
  /\ UNCHANGED <<source, bytes, selecting, target, written, name, content, manifest, history>>

\* Mutant: INPUT is compared the first time only.
ComparedOnce(file) == pc = "input1" => file = identity
SameInput(file) == file = identity
\* Mutant: OUTPUT is compared the first time only.
AliasOnce(file) == pc = "output1" => file # identity
Separate(file) == file # identity

\* check_alias: INPUT still is the file it was, OUTPUT is not that file.
CheckInput ==
  /\ pc \in {"input1", "input2"}
  /\ IF SameInput(name.input)
     THEN Goto(IF pc = "input1" THEN "output1" ELSE "output2") ELSE Refuse
  /\ UNCHANGED <<identity, source, bytes, selecting, target, written, name, content, manifest, history>>
CheckOutput ==
  /\ pc \in {"output1", "output2"}
  /\ IF Separate(name.output)
     THEN Goto(IF pc = "output1" THEN "open" ELSE "create") ELSE Refuse
  /\ UNCHANGED <<identity, source, bytes, selecting, target, written, name, content, manifest, history>>

\* read_bounded: the length is looked at when the file is opened.
Open ==
  /\ pc = "open"
  /\ source' = name.input
  /\ IF Len(content[name.input]) <= InputLimit THEN Goto("read") ELSE Refuse
  /\ UNCHANGED <<identity, bytes, selecting, target, written, name, content, manifest, history>>

\* Mutant: only the length at the opening counts.
Unbounded(chunks) == TRUE
\* BoundedBytes takes the chunk.
Fits(chunks) == Len(chunks) <= InputLimit

Read ==
  /\ pc = "read" /\ Len(bytes) < Len(content[source])
  /\ LET more == Append(bytes, content[source][Len(bytes) + 1]) IN
     IF Fits(more) THEN bytes' = more /\ Goto("read") ELSE Refuse /\ UNCHANGED bytes
  /\ UNCHANGED <<identity, source, selecting, target, written, name, content, manifest, history>>

\* End of file, and parse_commands.
Parse ==
  /\ pc = "read" /\ Len(bytes) = Len(content[source])
  /\ IF Parses(bytes) THEN Goto("manifest") ELSE Refuse
  /\ UNCHANGED <<identity, source, bytes, selecting, target, written, name, content, manifest, history>>

\* Mutant: a manifest that cannot be used counts as none.
Unusable == manifest # "valid"
NoManifest == manifest = "missing"

\* Only a manifest that is not there disables selection.
LookForManifest ==
  /\ pc = "manifest"
  /\ Goto(IF NoManifest THEN "transform" ELSE "parse_manifest")
  /\ UNCHANGED <<identity, source, bytes, selecting, target, written, name, content, manifest, history>>
ReadManifest ==
  /\ pc = "parse_manifest"
  /\ IF manifest = "valid" THEN selecting' = TRUE /\ Goto("transform")
                           ELSE Refuse /\ UNCHANGED selecting
  /\ UNCHANGED <<identity, source, bytes, target, written, name, content, manifest, history>>

\* Mutant: OUTPUT is opened before the entries are serialized.
OpensFirst ==
  /\ pc = "transform" /\ name.output \in Files
  /\ content' = [content EXCEPT ![name.output] = <<>>]
  /\ Goto("input2") \/ Refuse
  /\ UNCHANGED <<identity, source, bytes, selecting, target, written, name, manifest, history>>
\* transform and serialize, either of which may refuse the entries.
Transform ==
  /\ pc = "transform"
  /\ Goto("input2") \/ Refuse
  /\ UNCHANGED <<identity, source, bytes, selecting, target, written, name, content, manifest, history>>

\* File::create: a file that exists is emptied.
Create ==
  /\ pc = "create"
  /\ target' = IF name.output = Missing THEN MaxMeddling + 2 ELSE name.output
  /\ name' = [name EXCEPT !.output = target']
  /\ content' = [content EXCEPT ![target'] = <<>>]
  /\ Goto("write")
  /\ UNCHANGED <<identity, source, bytes, selecting, written, manifest, history>>

\* Mutant: one write is taken for write_all.
FirstWrite == written > 0
Written == written = Len(Translation)

Write ==
  /\ pc = "write" /\ ~Written
  /\ content' = [content EXCEPT ![target] = Append(@, Translation[written + 1])]
  /\ written' = written + 1
  /\ UNCHANGED <<pc, identity, source, bytes, selecting, target, answer, name, manifest, history>>
Report ==
  /\ pc = "write" /\ Written
  /\ pc' = "done" /\ answer' = "Ok"
  /\ UNCHANGED <<identity, source, bytes, selecting, target, written, name, content, manifest, history>>

\* Any of the calls may fail; a process may be killed at any time.
IoFails ==
  /\ pc \notin {"transform", "done"}
  /\ pc' = "done" /\ answer' = IF pc = "write" THEN "write failed" ELSE "refused"
  /\ UNCHANGED <<identity, source, bytes, selecting, target, written, name, content, manifest, history>>
Killed ==
  /\ pc # "done" /\ pc' = "done" /\ answer' = "killed"
  /\ UNCHANGED <<identity, source, bytes, selecting, target, written, name, content, manifest, history>>

-----------------------------------------------------------------------------
(* Others, who only put new files in the place of INPUT: its name never goes
   back to a file that lost it.  A new file has one chunk, until it is extended. *)
Replace ==
  /\ \E input \in {<<"part">>, <<"end">>} :
       /\ content' = [content EXCEPT ![meddled + 2] = input]
       /\ original' = [original EXCEPT ![meddled + 2] = input]
  /\ name' = [name EXCEPT !.input = meddled + 2]
  /\ UNCHANGED <<manifest, late>>
Extend ==
  /\ Len(content[name.input]) < MaxLength
  /\ \E chunk \in {"part", "end"} :
       content' = [content EXCEPT ![name.input] = Append(@, chunk)]
  /\ UNCHANGED <<manifest, name, original, late>>
Alias ==
  /\ name' = [name EXCEPT !.output = name.input]
  /\ late' = (late \/ pc = "create" \/ (pc = "output2" /\ name.input # identity))
  /\ UNCHANGED <<content, manifest, original>>
Unlink ==
  /\ name' = [name EXCEPT !.output = Missing]
  /\ UNCHANGED <<content, manifest, original, late>>
RemoveManifest ==
  /\ manifest # "missing" /\ manifest' = "missing"
  /\ UNCHANGED <<content, name, original, late>>

Others ==
  /\ pc # "done" /\ meddled < MaxMeddling /\ meddled' = meddled + 1
  /\ Replace \/ Extend \/ Alias \/ Unlink \/ RemoveManifest
  /\ UNCHANGED process

Next ==
  \/ Identify \/ CheckInput \/ CheckOutput \/ Open \/ Read \/ Parse
  \/ LookForManifest \/ ReadManifest \/ Transform \/ Create \/ Write \/ Report
  \/ IoFails \/ Killed \/ Others

Spec == Init /\ [][Next]_vars

-----------------------------------------------------------------------------
(* The variables keep their types; what is retained keeps to the limit. *)
TypeOK ==
  /\ name \in [input : Files, output : Files \cup {Missing}]
  /\ content \in [Files -> Seq(Chunks)]
  /\ {identity, source, target} \subseteq Files \cup {Missing}
  /\ bytes \in Seq(Chunks) /\ Len(bytes) <= InputLimit
  /\ selecting \in BOOLEAN /\ late \in BOOLEAN
  /\ answer \in {"none", "Ok", "refused", "write failed", "killed"}

Grown(file) == IsPrefix(original[file], content[file])

(* The file INPUT led to when it was identified is not changed by the filter,
   even when OUTPUT becomes a link to it while the filter works, unless that
   happens after the last comparison that would see it: docs/compdb-filter.md,
   "the host database remains unchanged", "a cooperative filesystem check". *)
InputSurvives == identity # Missing /\ ~late => Grown(identity)

(* Refusals leave every file as others made it, OUTPUT included, whichever step
   refuses: docs/compdb-filter.md, "Validation/read/serialization failures
   leave OUTPUT untouched". *)
RefusalKeepsFiles == answer = "refused" => \A file \in Files : Grown(file)

(* What is reported as translated is the whole database of the file that was
   identified, although INPUT may be replaced between that and its opening, and
   grow while it is read. *)
TranslatesInput ==
  answer = "Ok" => /\ source = identity /\ Parses(bytes)
                   /\ late \/ IsPrefix(bytes, content[identity])

(* Success is reported for a complete OUTPUT only. *)
ReportedComplete == answer = "Ok" /\ ~late => content[target] = Translation

(* A manifest that is there but cannot be used never disables the selection. *)
ManifestNotIgnored == answer = "Ok" /\ ~selecting => manifest = "missing"
=============================================================================
