------------------------------ MODULE Encoding ------------------------------
(***************************************************************************)
(* `normalize` (dispatch/encoding.rs) streams the index a producer wrote   *)
(* into a temporary file beside it, fills the position encodings that are  *)
(* unspecified, and renames the temporary over the index.                  *)
(* An index is a sequence of top-level protobuf fields.  A field is a      *)
(* record: what the rewriter sees of it (kind), a document's encoding      *)
(* (enc, Unspecified for 0) and a group's field number (group).            *)
(***************************************************************************)
EXTENDS Naturals, Sequences

CONSTANTS
  Groups,       \* field numbers of unknown groups
  Families,     \* the families run (a bound)
  Explicit,     \* the encodings producers write themselves (a bound)
  Streams       \* the indexes a producer may have written (a bound)

ASSUME EncodingAssumption ==
  /\ Families \subseteq {"Go", "Clang", "Php", "Ruby", "TypeScript", "Python",
                         "Java", "Dotnet", "Dart", "Rust"}
  /\ Explicit \subseteq {"UTF8", "UTF16"}

Unspecified == "unspecified"  \* the enum value 0
NoContract == "none"

\* producer_encoding: no contract is verified for rust-analyzer.
ProducerEncoding(f) ==
  IF f \in {"Go", "Clang", "Php", "Ruby"} THEN "UTF8"
  ELSE IF f = "Rust" THEN NoContract
  ELSE "UTF16"

\* "opaque": symbols and unknown scalar or bytes fields, copied as they are.
\* "broken": a known message whose body does not parse.
\* "malformed": field number 0, an unknown wire type, or a truncated field.
Field(kind) == [kind |-> kind, enc |-> Unspecified, group |-> 0]
Document(enc) == [kind |-> "document", enc |-> enc, group |-> 0]
Open(g) == [kind |-> "open", enc |-> Unspecified, group |-> g]
Close(g) == [kind |-> "close", enc |-> Unspecified, group |-> g]
Fields ==
  {Field(kind) : kind \in {"metadata", "opaque", "broken", "malformed"}}
    \cup {Document(enc) : enc \in Explicit \cup {Unspecified}}
    \cup {Open(g) : g \in Groups} \cup {Close(g) : g \in Groups}

ASSUME StreamsAssumption == Streams \subseteq Seq(Fields)

VARIABLES
  pc,
  family,     \* the family the index is normalised for
  source,     \* history: the index as the producer left it
  index,      \* the file at the output path
  temporary,  \* what reached the temporary file
  buffer,     \* what was encoded and not flushed yet
  at,         \* fields read so far
  groups,     \* the stack of open unknown groups
  metadata,   \* metadata_seen
  result,     \* the local `result` of rewrite
  answer,     \* what normalize returns
  trouble,    \* history: what stopped rewrite besides the index: "io", "interrupt"
  cancelled, expired

given == <<family, source>>
files == <<index, temporary>>
control == <<cancelled, expired>>
parse == <<buffer, at, groups, metadata>>
vars == <<pc, given, files, parse, result, answer, trouble, control>>

Interrupted == cancelled \/ expired
Check == IF cancelled THEN "Cancelled" ELSE IF expired THEN "Deadline" ELSE "Ok"

Init ==
  /\ pc = "start" /\ family \in Families /\ source \in Streams /\ index = source
  /\ temporary = <<>> /\ buffer = <<>> /\ at = 0 /\ groups = <<>>
  /\ metadata = FALSE /\ result = "none" /\ answer = "none"
  /\ trouble = "none" /\ cancelled = FALSE /\ expired = FALSE

Return(value) == answer' = value /\ pc' = "done"

\* Lines 54-57: a check, then open the index and create the temporary.
Begin ==
  /\ pc = "start"
  /\ \/ Check # "Ok" /\ Return(Check)
     \/ Check = "Ok" /\ Return("Io")
     \/ Check = "Ok" /\ pc' = "rewrite" /\ UNCHANGED answer
  /\ UNCHANGED <<given, files, parse, result, trouble, control>>

----------------------------------------------------------------------------
(* rewrite, one field at a time.                                           *)

Stop(value) == result' = value /\ pc' = "rewritten"
Emit(field) == buffer' = Append(buffer, field) /\ at' = at + 1

Next1 == source[at + 1]
More == pc = "rewrite" /\ ~Interrupted /\ at < Len(source)
AtTop == groups = <<>>

\* Mutant: an explicit encoding is replaced as well.
Overwritten(enc) == ProducerEncoding(family)
\* The encoding a document leaves with.
Filled(enc) == IF enc = Unspecified THEN ProducerEncoding(family) ELSE enc

Metadata ==
  /\ More /\ AtTop /\ Next1.kind = "metadata"
  /\ Emit(Next1) /\ metadata' = TRUE
  /\ UNCHANGED <<pc, given, files, groups, result, answer, trouble, control>>

Refused(enc) == Filled(enc) = NoContract

DocumentField ==
  /\ More /\ AtTop /\ Next1.kind = "document"
  /\ IF Refused(Next1.enc)
     THEN Stop("Input") /\ UNCHANGED <<buffer, at>>
     ELSE Emit(Document(Filled(Next1.enc))) /\ UNCHANGED <<pc, result>>
  /\ UNCHANGED <<given, files, groups, metadata, answer, trouble, control>>

\* Inside an unknown group every length-delimited field is only bytes.
Copied == IF AtTop THEN {"opaque"} ELSE {"opaque", "metadata", "document", "broken"}

CopyField ==
  /\ More /\ Next1.kind \in Copied
  /\ Emit(Next1)
  /\ UNCHANGED <<pc, given, files, groups, metadata, result, answer, trouble, control>>

OpenGroup ==
  /\ More /\ Next1.kind = "open"
  /\ Emit(Next1) /\ groups' = Append(groups, Next1.group)
  /\ UNCHANGED <<pc, given, files, metadata, result, answer, trouble, control>>

Matches == groups # <<>> /\ groups[Len(groups)] = Next1.group

CloseGroup ==
  /\ More /\ Next1.kind = "close" /\ Matches
  /\ Emit(Next1) /\ groups' = SubSeq(groups, 1, Len(groups) - 1)
  /\ UNCHANGED <<pc, given, files, metadata, result, answer, trouble, control>>

\* Mutant: messages are parsed inside unknown groups as well.
TornAnywhere == Next1.kind = "broken"
Torn == Next1.kind = "broken" /\ AtTop

Reject ==
  /\ More
  /\ \/ Next1.kind = "close" /\ ~Matches
     \/ Torn
     \/ Next1.kind = "malformed"
  /\ Stop("Input")
  /\ UNCHANGED <<given, files, parse, answer, trouble, control>>

\* The end of the index: legal outside groups, and only after metadata.
LegalEnd == AtTop /\ metadata

\* Mutant: the buffered writer is not flushed.
Unflushed == temporary
\* Both flushes precede the last check; buffered output is lost without them.
Flushed == temporary \o buffer

EndOfIndex ==
  /\ pc = "rewrite" /\ ~Interrupted /\ at = Len(source)
  /\ IF LegalEnd
     THEN /\ temporary' = Flushed /\ buffer' = <<>>
          /\ Stop("Ok")
     ELSE Stop("Input") /\ UNCHANGED <<temporary, buffer>>
  /\ UNCHANGED <<given, index, at, groups, metadata, answer, trouble, control>>

\* Reading the index or writing the temporary fails.
IoFails ==
  /\ pc = "rewrite" /\ ~Interrupted
  /\ \E value \in {"Input", "Io"} : Stop(value)
  /\ trouble' = "io"
  /\ UNCHANGED <<given, files, parse, answer, control>>

\* A control check fails.  Made by the loop it is returned as it is; made by
\* the reading or writing adapter it comes back as a decoding or I/O error.
Notice ==
  /\ pc = "rewrite" /\ Interrupted
  /\ \E value \in {Check, "Input", "Io"} : Stop(value)
  /\ trouble' = "interrupt"
  /\ UNCHANGED <<given, files, parse, answer, control>>

----------------------------------------------------------------------------
(* Publication, lines 66-69.                                               *)

\* Mutant: the error of rewrite is returned first.
ResultFirst == IF result # "Ok" THEN result ELSE Check
Verdict == IF Check # "Ok" THEN Check ELSE result

Conclude ==
  /\ pc = "rewritten"
  /\ IF Verdict = "Ok" THEN pc' = "persist" /\ UNCHANGED answer ELSE Return(Verdict)
  /\ UNCHANGED <<given, files, parse, result, trouble, control>>

Persist ==
  /\ pc = "persist"
  /\ \/ index' = temporary /\ pc' = "published" /\ UNCHANGED answer
     \/ Return("Io") /\ UNCHANGED index
  /\ UNCHANGED <<given, temporary, parse, result, trouble, control>>

LastCheck ==
  /\ pc = "published" /\ Return(Check)
  /\ UNCHANGED <<given, files, parse, result, trouble, control>>

Cancel ==
  /\ pc # "done" /\ ~cancelled /\ cancelled' = TRUE
  /\ UNCHANGED <<pc, given, files, parse, result, answer, trouble, expired>>

Expire ==
  /\ pc # "done" /\ ~expired /\ expired' = TRUE
  /\ UNCHANGED <<pc, given, files, parse, result, answer, trouble, cancelled>>

Rewrite ==
  \/ Metadata \/ DocumentField \/ CopyField \/ OpenGroup \/ CloseGroup
  \/ Reject \/ EndOfIndex \/ IoFails \/ Notice

Next == Begin \/ Rewrite \/ Conclude \/ Persist \/ LastCheck \/ Cancel \/ Expire

Spec == Init /\ [][Next]_vars
=============================================================================
