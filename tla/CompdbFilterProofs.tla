------------------------ MODULE CompdbFilterProofs ------------------------
(***************************************************************************)
(* Theorems about CompdbFilter, for every limit, every length of an input  *)
(* and any number of steps of others.  FilterInv is inductive.  The files  *)
(* INPUT leads to are numbered as they come, so that a name that is        *)
(* compared equal twice led to the same file in between (OrderInv), and a  *)
(* link that is made in time is seen (LinkInv).                            *)
(*                                                                         *)
(* The second part is about Rewrite, what becomes of the text of a command *)
(* that the filter translates, for every text and every table of           *)
(* spellings.  RewriteInv is inductive.                                    *)
(***************************************************************************)
EXTENDS CompdbFilter, RewriteProperties, ListProofs

BeforeOpen == {"identify", "input1", "output1", "open"}
Selected == {"transform", "input2", "output2", "create", "write"}
Parsed == {"manifest", "parse_manifest"} \cup Selected
Places == BeforeOpen \cup {"read", "done"} \cup Parsed

\* The files there are, but the one OUTPUT is created as.
Known == 0..meddled + 1

TypeInv ==
  /\ pc \in Places /\ meddled \in 0..MaxMeddling
  /\ name \in [input : Known, output : Known \cup {MaxMeddling + 2, Missing}]
  /\ content \in [Files -> Seq(Chunks)] /\ original \in [Files -> Seq(Chunks)]
  /\ identity \in Known \cup {Missing} /\ source \in Known \cup {Missing}
  /\ target \in Known \cup {MaxMeddling + 2, Missing}
  /\ bytes \in Seq(Chunks) /\ written \in 0..2
  /\ manifest \in {"valid", "invalid", "missing"} /\ late \in BOOLEAN

\* What each place has come by.
PlaceInv ==
  /\ pc # "done" => answer = "none"
  /\ pc # "identify" /\ pc # "done" => identity # Missing
  /\ pc \in BeforeOpen => source = Missing /\ bytes = <<>>
  /\ pc \notin BeforeOpen \cup {"done"} => source # Missing
  /\ pc \notin {"write", "done"} => target = Missing /\ written = 0
  /\ pc = "write" => target # Missing
  /\ target # Missing => answer # "refused"
  /\ answer = "Ok" => target # Missing /\ written = 2 /\ identity # Missing

OrderInv ==
  /\ identity # Missing => identity <= name.input
  /\ source # Missing => identity # Missing /\ identity <= source /\ source <= name.input
  /\ pc \in {"output2", "create", "write"} \/ answer = "Ok" => source = identity

ReadInv ==
  /\ pc \in Parsed \/ answer = "Ok" => Parses(bytes)
  /\ source # Missing => source = target \/ IsPrefix(bytes, content[source])

SelectInv == pc \in Selected \/ answer = "Ok" => selecting = TRUE \/ manifest = "missing"

FileInv == \A file \in Files : file = target \/ IsPrefix(original[file], content[file])

LinkInv ==
  late = FALSE =>
    /\ pc = "output2" /\ name.input # identity => name.output # name.input
    /\ pc = "create" => name.output # identity /\ name.output # name.input
    /\ target # Missing =>
         /\ target # identity /\ target # name.input
         /\ content[target] = SubSeq(Translation, 1, written)

FilterInv ==
  /\ TypeInv /\ PlaceInv /\ OrderInv /\ ReadInv /\ SelectInv /\ FileInv /\ LinkInv

-----------------------------------------------------------------------------
(* Prefixes.                                                               *)

(* A sequence is a prefix of another when the other has its members in their places.
   *)
LEMMA Elements ==
  ASSUME NEW s \in Seq(Chunks), NEW t \in Seq(Chunks)
  PROVE  IsPrefix(s, t) <=> Len(s) <= Len(t) /\ \A i \in 1..Len(s) : s[i] = t[i]
<1>. DEFINE u == SubSeq(s, 1, Len(s))
            v == SubSeq(t, 1, Len(s))
<1>1. CASE Len(s) <= Len(t)
  <2>1. u = s
    BY SubSeqFull
  <2>2. v = [i \in 1..Len(s) |-> t[i]]
    <3>1. Len(s) \in 0..Len(t)
      BY <1>1
    <3>. QED BY <3>1, SubSeqRestrict DEF Restrict
  <2>3. s = [i \in 1..Len(s) |-> s[i]]
    OBVIOUS
  <2>4. s = v <=> \A i \in 1..Len(s) : s[i] = t[i]
    BY ONLY <2>2, <2>3
  <2>. QED BY <1>1, <2>1, <2>4 DEF IsPrefix
<1>2. CASE ~(Len(s) <= Len(t))
  BY <1>2 DEF IsPrefix
<1>. QED BY <1>1, <1>2

(* The empty sequence and the sequence itself are prefixes of a sequence. *)
LEMMA Reflexive == ASSUME NEW s \in Seq(Chunks) PROVE IsPrefix(s, s) /\ IsPrefix(<<>>, s)
<1>1. <<>> \in Seq(Chunks) /\ Len(<<>>) = 0 /\ Len(s) \in Nat
  OBVIOUS
<1>2. IsPrefix(s, s) BY <1>1 DEF IsPrefix
<1>3. IsPrefix(<<>>, s) BY <1>1, SubSeqEmpty DEF IsPrefix
<1>. QED BY <1>2, <1>3

\* A file that grows keeps its prefixes.
LEMMA Grows ==
  ASSUME NEW s \in Seq(Chunks), NEW t \in Seq(Chunks), NEW c \in Chunks, IsPrefix(s, t)
  PROVE  Append(t, c) \in Seq(Chunks) /\ IsPrefix(s, Append(t, c))
<1>1. /\ Append(t, c) \in Seq(Chunks) /\ Len(Append(t, c)) = Len(t) + 1
      /\ \A i \in 1..Len(t) : Append(t, c)[i] = t[i]
  OBVIOUS
<1>2. Len(s) <= Len(t) /\ \A i \in 1..Len(s) : s[i] = t[i]
  BY Elements
<1>3. Len(s) <= Len(Append(t, c)) /\ \A i \in 1..Len(s) : s[i] = Append(t, c)[i]
  BY <1>1, <1>2
<1>. QED BY <1>1, <1>3, Elements

\* What is read goes on as the file does.
LEMMA Reads ==
  ASSUME NEW s \in Seq(Chunks), NEW t \in Seq(Chunks), IsPrefix(s, t), Len(s) < Len(t)
  PROVE  /\ Append(s, t[Len(s) + 1]) \in Seq(Chunks)
         /\ IsPrefix(Append(s, t[Len(s) + 1]), t)
<1>. DEFINE c == t[Len(s) + 1]
            r == Append(s, c)
<1>1. c \in Chunks
  OBVIOUS
<1>2. /\ r \in Seq(Chunks) /\ Len(r) = Len(s) + 1 /\ r[Len(s) + 1] = c
      /\ \A i \in 1..Len(s) : r[i] = s[i]
  BY <1>1
<1>3. \A i \in 1..Len(s) : s[i] = t[i]
  BY Elements
<1>4. Len(r) <= Len(t) /\ \A i \in 1..Len(r) : r[i] = t[i]
  BY <1>2, <1>3
<1>. QED BY <1>2, <1>4, Elements

-----------------------------------------------------------------------------
(* The steps that change no file.                                          *)

Quiet ==
  \/ Identify \/ CheckInput \/ CheckOutput \/ Open \/ Parse \/ LookForManifest
  \/ ReadManifest \/ Transform \/ Report \/ IoFails \/ Killed

(* The bounds of the run are numbers, and a file that is new is none of those known.
   *)
LEMMA Numbers ==
  ASSUME TypeInv
  PROVE  /\ MaxMeddling \in Nat /\ Missing \in Nat /\ Missing \notin Files
         /\ Known \subseteq Files /\ MaxMeddling + 2 \in Files /\ MaxMeddling + 2 \notin Known
         /\ Missing \notin Known /\ name.input \in Known
         /\ \A file \in Known : file \in Nat /\ file < meddled + 2
         /\ Len(Translation) = 2
<1>1. name.input \in Known /\ meddled \in 0..MaxMeddling
  BY DEF TypeInv
<1>2. Len(Translation) = 2
  BY DEF Translation
<1>. QED BY <1>1, <1>2, CompdbFilterAssumption DEF Known, Files, Missing

(* A step that touches no file keeps the invariant. *)
LEMMA QuietStep == ASSUME FilterInv, Quiet PROVE FilterInv'
<1>. USE DEF FilterInv, Quiet, Goto, Refuse, history
<1>0. UNCHANGED <<name, content, manifest, meddled, original, late>>
  BY DEF Identify, CheckInput, CheckOutput, Open, Parse, LookForManifest, ReadManifest, Transform,
         Report, IoFails, Killed
<1>a. UNCHANGED <<bytes, target, written>>
  BY DEF Identify, CheckInput, CheckOutput, Open, Parse, LookForManifest, ReadManifest, Transform,
         Report, IoFails, Killed
<1>1. TypeInv'
  <2>1. /\ pc' \in Places
        /\ identity' \in {identity, name.input} /\ source' \in {source, name.input}
    BY DEF TypeInv, Places, BeforeOpen, Parsed, Selected, Identify, CheckInput, CheckOutput, Open,
           Parse, LookForManifest, ReadManifest, Transform, Report, IoFails, Killed
  <2>2. name.input \in Known
    BY DEF TypeInv
  <2>. QED BY <1>0, <1>a, <2>1, <2>2 DEF TypeInv, Known
<1>2. PlaceInv'
  BY <1>0, <1>a, Numbers DEF PlaceInv, BeforeOpen, Parsed, Selected, Identify, CheckInput,
         CheckOutput, Open, Parse, LookForManifest, ReadManifest, Transform, Report, IoFails, Killed,
         Written
<1>3. OrderInv'
  <2>1. identity \in Nat /\ source \in Nat /\ name.input \in Nat /\ name.input # Missing
    BY Numbers DEF TypeInv
  <2>2. identity' = identity \/ (identity' = name.input /\ source = Missing /\ source' = source)
    BY DEF PlaceInv, BeforeOpen, Identify, CheckInput, CheckOutput, Open, Parse, LookForManifest,
           ReadManifest, Transform, Report, IoFails, Killed
  <2>3. source' = source \/ (source' = name.input /\ identity # Missing)
    BY DEF PlaceInv, Identify, CheckInput, CheckOutput, Open, Parse, LookForManifest,
           ReadManifest, Transform, Report, IoFails, Killed
  <2>4. pc' \in {"output2", "create", "write"} \/ answer' = "Ok" =>
          /\ source' = source /\ identity' = identity
          /\ \/ pc \in {"output2", "create", "write"} \/ answer = "Ok"
             \/ pc = "input2" /\ name.input = identity
    BY DEF PlaceInv, Identify, CheckInput, CheckOutput, Open, Parse, LookForManifest,
           ReadManifest, Transform, Report, IoFails, Killed, SameInput
  <2>5. pc = "input2" => source # Missing
    BY DEF PlaceInv, BeforeOpen
  <2>. QED BY <1>0, <2>1, <2>2, <2>3, <2>4, <2>5 DEF OrderInv
<1>4. ReadInv'
  <2>1. pc' \in Parsed \/ answer' = "Ok" => Parses(bytes)
    BY DEF ReadInv, PlaceInv, Parsed, Selected, Identify, CheckInput, CheckOutput, Open, Parse,
           LookForManifest, ReadManifest, Transform, Report, IoFails, Killed
  <2>2. source' = source \/ bytes = <<>>
    BY DEF PlaceInv, BeforeOpen, Identify, CheckInput, CheckOutput, Open, Parse, LookForManifest,
           ReadManifest, Transform, Report, IoFails, Killed
  <2>3. source' # Missing => content[source'] \in Seq(Chunks)
    <3>1. source' \in Known \cup {Missing}
      BY <1>1, <1>0 DEF TypeInv, Known
    <3>. QED BY <3>1, Numbers DEF TypeInv
  <2>. QED BY <1>0, <1>a, <2>1, <2>2, <2>3, Reflexive DEF ReadInv, Parses
<1>5. SelectInv'
  BY <1>0 DEF SelectInv, PlaceInv, Selected, Identify, CheckInput, CheckOutput, Open, Parse,
         LookForManifest, ReadManifest, Transform, Report, IoFails, Killed, NoManifest
<1>6. FileInv'
  BY <1>0, <1>a DEF FileInv
<1>7. LinkInv'
  BY <1>0, <1>a DEF LinkInv, PlaceInv, Identify, CheckInput, CheckOutput, Open,
         Parse, LookForManifest, ReadManifest, Transform, Report, IoFails, Killed, SameInput, Separate
<1>. QED BY <1>1, <1>2, <1>3, <1>4, <1>5, <1>6, <1>7

(* Reading a chunk of the input keeps the invariant. *)
LEMMA ReadStep == ASSUME FilterInv, Read PROVE FilterInv'
<1>. USE DEF FilterInv, Goto, Refuse, history
<1>. DEFINE more == Append(bytes, content[source][Len(bytes) + 1])
<1>1. /\ UNCHANGED <<name, content, manifest, meddled, original, late, identity, source, target, written>>
      /\ pc = "read" /\ pc' \in {"read", "done"} /\ answer' \in {"none", "refused"}
      /\ (pc' = "read" => answer' = "none")
      /\ bytes' \in {bytes, more} /\ Len(bytes) < Len(content[source])
  BY DEF Read, PlaceInv
<1>2. source # Missing /\ target = Missing /\ source \in Files
  BY <1>1, Numbers DEF PlaceInv, BeforeOpen, Parsed, Selected, TypeInv
<1>3. content[source] \in Seq(Chunks) /\ bytes \in Seq(Chunks)
  BY <1>2 DEF TypeInv
<1>4. IsPrefix(bytes, content[source])
  BY <1>2 DEF ReadInv
<1>5. bytes' \in Seq(Chunks) /\ IsPrefix(bytes', content[source])
  BY <1>1, <1>3, <1>4, Reads
<1>6. TypeInv' BY <1>1, <1>5 DEF TypeInv, Known, Places
<1>7. PlaceInv' BY <1>1 DEF PlaceInv, BeforeOpen, Parsed, Selected
<1>8. OrderInv' BY <1>1 DEF OrderInv
<1>9. ReadInv' BY <1>1, <1>5 DEF ReadInv, Parsed, Selected
<1>10. SelectInv' /\ FileInv' BY <1>1 DEF SelectInv, FileInv, Selected
<1>11. LinkInv' BY <1>1 DEF LinkInv
<1>. QED BY <1>6, <1>7, <1>8, <1>9, <1>10, <1>11

-----------------------------------------------------------------------------
(* The steps that write OUTPUT.                                            *)

(* Creating the private file keeps the invariant: nobody knew the file before. *)
LEMMA CreateStep == ASSUME FilterInv, Create PROVE FilterInv'
<1>. USE DEF FilterInv, Goto, history
<1>1. /\ UNCHANGED <<identity, source, bytes, selecting, written, manifest, meddled, original, late, answer>>
      /\ pc = "create" /\ pc' = "write"
      /\ target' = (IF name.output = Missing THEN MaxMeddling + 2 ELSE name.output)
      /\ name' = [name EXCEPT !.output = target']
      /\ content' = [content EXCEPT ![target'] = <<>>]
  BY DEF Create
<1>2. /\ name = [input |-> name.input, output |-> name.output] /\ name.input \in Known
      /\ name.output \in Known \cup {MaxMeddling + 2, Missing}
  BY DEF TypeInv
<1>3. /\ target' \in Known \cup {MaxMeddling + 2} /\ target' \in Files /\ target' # Missing
      /\ name' = [input |-> name.input, output |-> target']
  BY <1>1, <1>2, Numbers
<1>4. /\ content' \in [Files -> Seq(Chunks)] /\ content'[target'] = <<>>
      /\ \A file \in Files \ {target'} : content'[file] = content[file]
  BY <1>1, <1>3 DEF TypeInv
<1>5. /\ target = Missing /\ written = 0 /\ source = identity /\ source \in Files
      /\ identity # Missing /\ answer = "none"
  BY <1>1, Numbers DEF TypeInv, PlaceInv, OrderInv
<1>6. TypeInv' BY <1>1, <1>2, <1>3, <1>4 DEF TypeInv, Known, Places, Parsed, Selected
<1>7. PlaceInv' BY <1>1, <1>3, <1>5 DEF PlaceInv, BeforeOpen, Parsed, Selected
<1>8. OrderInv' BY <1>1, <1>3, <1>5 DEF OrderInv
<1>9. ReadInv' BY <1>1, <1>4, <1>5 DEF ReadInv, Parsed, Selected
<1>10. SelectInv' BY <1>1 DEF SelectInv, Selected
<1>11. FileInv' BY <1>1, <1>4, <1>5, Numbers DEF FileInv
<1>12. LinkInv'
  <2>1. late = FALSE => target' # identity /\ target' # name.input
    BY <1>1, <1>2, <1>5, Numbers DEF LinkInv, TypeInv
  <2>2. SubSeq(Translation, 1, 0) = <<>>
    BY SubSeqEmpty
  <2>. QED BY <1>1, <1>3, <1>4, <1>5, <2>1, <2>2 DEF LinkInv
<1>. QED BY <1>6, <1>7, <1>8, <1>9, <1>10, <1>11, <1>12

(* Writing the private file keeps the invariant: nobody else has it. *)
LEMMA WriteStep == ASSUME FilterInv, Write PROVE FilterInv'
<1>. USE DEF FilterInv, history
<1>1. /\ UNCHANGED <<pc, identity, source, bytes, selecting, target, answer, name, manifest, meddled,
                      original, late>>
      /\ pc = "write" /\ written # 2 /\ written' = written + 1
      /\ content' = [content EXCEPT ![target] = Append(@, Translation[written + 1])]
  BY Numbers DEF Write, Written
<1>2. target # Missing /\ target \in Files /\ written \in 0..1 /\ answer = "none"
  BY <1>1, Numbers DEF PlaceInv, TypeInv
<1>3. Translation[written + 1] = "new" /\ "new" \in Chunks
  BY <1>2 DEF Translation, Chunks
<1>4. content[target] \in Seq(Chunks)
  BY <1>2 DEF TypeInv
<1>5. /\ content' \in [Files -> Seq(Chunks)] /\ content'[target] = Append(content[target], "new")
      /\ \A file \in Files \ {target} : content'[file] = content[file]
  BY <1>1, <1>2, <1>3, <1>4 DEF TypeInv
<1>6. TypeInv' BY <1>1, <1>2, <1>5 DEF TypeInv, Known
<1>7. PlaceInv' BY <1>1, <1>2 DEF PlaceInv
<1>8. OrderInv' BY <1>1 DEF OrderInv
<1>9. ReadInv' BY <1>1, <1>5, Numbers DEF ReadInv, TypeInv
<1>10. SelectInv' BY <1>1 DEF SelectInv
<1>11. FileInv' BY <1>1, <1>5 DEF FileInv
<1>12. LinkInv'
  <2>1. Append(SubSeq(Translation, 1, written), "new") = SubSeq(Translation, 1, written + 1)
    BY <1>2 DEF Translation
  <2>. QED BY <1>1, <1>5, <2>1 DEF LinkInv
<1>. QED BY <1>6, <1>7, <1>8, <1>9, <1>10, <1>11, <1>12

-----------------------------------------------------------------------------
(* Others.                                                                 *)

(* Another program that puts a new file under a name keeps the invariant. *)
LEMMA ReplaceStep == ASSUME FilterInv, Others, Replace PROVE FilterInv'
<1>. USE DEF FilterInv, process
<1>. DEFINE new == meddled + 2
<1>1. PICK input \in {<<"part">>, <<"end">>} :
        /\ content' = [content EXCEPT ![new] = input]
        /\ original' = [original EXCEPT ![new] = input]
  BY DEF Replace
<1>2. /\ UNCHANGED <<pc, identity, source, bytes, selecting, target, written, answer, manifest, late>>
      /\ name' = [name EXCEPT !.input = new] /\ meddled' = meddled + 1
      /\ pc # "done" /\ meddled < MaxMeddling
  BY DEF Others, Replace
<1>3. /\ meddled \in Nat /\ new \in Files /\ new # Missing /\ new # MaxMeddling + 2
      /\ new \notin Known /\ Known' = Known \cup {new} /\ meddled' \in 0..MaxMeddling
  <2>1. meddled \in Nat /\ MaxMeddling \in Nat /\ meddled' \in 0..MaxMeddling
    BY <1>2, CompdbFilterAssumption DEF TypeInv
  <2>2. 0..meddled + 1 + 1 = (0..meddled + 1) \cup {meddled + 2}
    BY <2>1
  <2>. QED BY <1>2, <2>1, <2>2 DEF Known, Files, Missing
<1>4. name' = [input |-> new, output |-> name.output]
  BY <1>2 DEF TypeInv
<1>5. input \in Seq(Chunks)
  <2>1. <<"part">> \in Seq(Chunks) /\ <<"end">> \in Seq(Chunks)
    BY DEF Chunks
  <2>. QED BY <2>1
<1>6. /\ content' \in [Files -> Seq(Chunks)] /\ original' \in [Files -> Seq(Chunks)]
      /\ content'[new] = input /\ original'[new] = input
      /\ \A file \in Files \ {new} : content'[file] = content[file] /\ original'[file] = original[file]
  BY <1>1, <1>3, <1>5 DEF TypeInv
<1>7. /\ identity # new /\ source # new /\ target # new /\ name.output # new
      /\ source \in Files \cup {Missing} /\ target \in Files \cup {Missing}
  BY <1>3, Numbers DEF TypeInv
<1>8. TypeInv' BY <1>2, <1>3, <1>4, <1>6 DEF TypeInv
<1>9. PlaceInv' BY <1>2 DEF PlaceInv
<1>10. OrderInv'
  <2>1. \A file \in Known : file <= new
    BY <1>3, Numbers
  <2>2. identity # Missing => identity \in Known
    BY DEF TypeInv
  <2>3. source # Missing => source \in Known
    BY DEF TypeInv
  <2>. QED BY <1>2, <1>4, <2>1, <2>2, <2>3 DEF OrderInv
<1>11. ReadInv' BY <1>2, <1>6, <1>7 DEF ReadInv
<1>12. SelectInv' BY <1>2 DEF SelectInv
<1>13. FileInv' BY <1>2, <1>5, <1>6, Reflexive DEF FileInv
<1>14. LinkInv' BY <1>2, <1>4, <1>6, <1>7 DEF LinkInv
<1>. QED BY <1>8, <1>9, <1>10, <1>11, <1>12, <1>13, <1>14

(* Another program that writes to a file it knows keeps the invariant. *)
LEMMA ExtendStep == ASSUME FilterInv, Others, Extend PROVE FilterInv'
<1>. USE DEF FilterInv, process
<1>1. PICK chunk \in {"part", "end"} :
        content' = [content EXCEPT ![name.input] = Append(@, chunk)]
  BY DEF Extend
<1>2. /\ UNCHANGED <<pc, identity, source, bytes, selecting, target, written, answer, manifest, late,
                      name, original>>
      /\ meddled' = meddled + 1 /\ meddled < MaxMeddling
  BY DEF Others, Extend
<1>3. /\ meddled' \in 0..MaxMeddling /\ Known \subseteq Known'
  BY <1>2, CompdbFilterAssumption DEF TypeInv, Known
<1>4. name.input \in Files /\ content[name.input] \in Seq(Chunks) /\ chunk \in Chunks
  BY Numbers DEF TypeInv, Chunks
<1>5. /\ content' \in [Files -> Seq(Chunks)]
      /\ content'[name.input] = Append(content[name.input], chunk)
      /\ \A file \in Files \ {name.input} : content'[file] = content[file]
  BY <1>1, <1>4 DEF TypeInv
<1>6. \A s \in Seq(Chunks) : \A file \in Files :
        IsPrefix(s, content[file]) => IsPrefix(s, content'[file])
  BY <1>4, <1>5, Grows
<1>7. TypeInv' BY <1>2, <1>3, <1>5 DEF TypeInv
<1>8. PlaceInv' BY <1>2 DEF PlaceInv
<1>9. OrderInv' BY <1>2 DEF OrderInv
<1>10. ReadInv' BY <1>2, <1>6, Numbers DEF ReadInv, TypeInv
<1>11. SelectInv' BY <1>2 DEF SelectInv
<1>12. FileInv' BY <1>2, <1>6 DEF FileInv, TypeInv
<1>13. LinkInv' BY <1>2, <1>5, Numbers DEF LinkInv, TypeInv
<1>. QED BY <1>7, <1>8, <1>9, <1>10, <1>11, <1>12, <1>13

(* Another program that gives or takes a name keeps the invariant. *)
LEMMA NamesStep ==
  ASSUME FilterInv, Others, Alias \/ Unlink \/ RemoveManifest PROVE FilterInv'
<1>. USE DEF FilterInv, process
<1>1. /\ UNCHANGED <<pc, identity, source, bytes, selecting, target, written, answer, content, original>>
      /\ meddled' = meddled + 1 /\ meddled < MaxMeddling /\ pc # "done"
      /\ manifest' \in {manifest, "missing"}
  BY DEF Others, Alias, Unlink, RemoveManifest
<1>2. /\ meddled' \in 0..MaxMeddling /\ Known \subseteq Known'
  BY <1>1, CompdbFilterAssumption DEF TypeInv, Known
<1>3. PICK file \in {name.output, name.input, Missing} :
        /\ name' = [input |-> name.input, output |-> file]
        /\ \/ file = name.output /\ late' = late
           \/ file = Missing /\ late' = late
           \/ file = name.input
              /\ late' = (late \/ pc = "create" \/ (pc = "output2" /\ name.input # identity))
  BY DEF Others, Alias, Unlink, RemoveManifest, TypeInv
<1>4. TypeInv' BY <1>1, <1>2, <1>3, Numbers DEF TypeInv
<1>5. PlaceInv' BY <1>1 DEF PlaceInv
<1>6. OrderInv' BY <1>1, <1>3 DEF OrderInv
<1>7. ReadInv' BY <1>1 DEF ReadInv
<1>8. SelectInv' BY <1>1 DEF SelectInv
<1>9. FileInv' BY <1>1 DEF FileInv
<1>10. LinkInv'
  <2>1. name'.input = name.input /\ name'.output = file
    BY <1>3
  <2>2. name.input # Missing
    BY Numbers
  <2>. QED BY <1>1, <1>3, <2>1, <2>2, <1>4 DEF LinkInv, PlaceInv, TypeInv
<1>. QED BY <1>4, <1>5, <1>6, <1>7, <1>8, <1>9, <1>10

-----------------------------------------------------------------------------
(* Theorems.                                                               *)

(* Every step keeps the invariant. *)
LEMMA FilterStep == ASSUME FilterInv, [Next]_vars PROVE FilterInv'
<1>1. CASE UNCHANGED vars
  BY <1>1 DEF vars, process, history, FilterInv, TypeInv, Known, PlaceInv, OrderInv, ReadInv,
              SelectInv, FileInv, LinkInv
<1>2. CASE Quiet BY <1>2, QuietStep
<1>3. CASE Others
  BY <1>3, ReplaceStep, ExtendStep, NamesStep DEF Others
<1>. QED BY <1>1, <1>2, <1>3, ReadStep, CreateStep, WriteStep DEF Next, Quiet

(* The invariant holds when the program starts. *)
LEMMA FilterInit == Init => FilterInv
<1>. SUFFICES ASSUME Init PROVE FilterInv
  OBVIOUS
<1>1. PICK input \in BoundedSeq({"part", "end"}, MaxLength) : content = Start(input, <<"old">>)
  BY DEF Init
<1>2. input \in Seq(Chunks)
  <2>1. PICK m \in 0..MaxLength : input \in [1..m -> {"part", "end"}]
    BY <1>1 DEF BoundedSeq, SeqOf
  <2>2. m \in Nat
    BY CompdbFilterAssumption
  <2>. QED BY <2>1, <2>2 DEF Chunks
<1>3. content \in [Files -> Seq(Chunks)] /\ original = content
  <2>1. <<"old">> \in Seq(Chunks) /\ <<>> \in Seq(Chunks)
    BY DEF Chunks
  <2>. QED BY <1>1, <1>2, <2>1 DEF Start, Init
<1>4. TypeInv
  <2>1. {0, 1} \subseteq Known /\ meddled \in 0..MaxMeddling
    BY CompdbFilterAssumption DEF Init, Known
  <2>2. name \in [input : Known, output : Known \cup {MaxMeddling + 2, Missing}]
    <3>1. name \in [input : {0}, output : {0, 1, Missing}]
      BY DEF Init
    <3>. QED BY <2>1, <3>1
  <2>3. /\ identity = Missing /\ source = Missing /\ target = Missing /\ bytes = <<>> /\ written = 0
        /\ pc = "identify" /\ late = FALSE /\ manifest \in {"valid", "invalid", "missing"}
    BY DEF Init
  <2>4. pc \in Places
    BY <2>3 DEF Places, BeforeOpen
  <2>5. bytes \in Seq(Chunks) /\ written \in 0..2 /\ late \in BOOLEAN
    <3>1. <<>> \in Seq(Chunks) /\ 0 \in 0..2
      OBVIOUS
    <3>. QED BY <2>3, <3>1
  <2>6. identity \in Known \cup {Missing} /\ source \in Known \cup {Missing}
        /\ target \in Known \cup {MaxMeddling + 2, Missing}
    BY <2>3
  <2>. QED BY <1>3, <2>1, <2>2, <2>3, <2>4, <2>5, <2>6 DEF TypeInv
<1>5. PlaceInv /\ OrderInv /\ ReadInv /\ SelectInv /\ LinkInv
  BY DEF Init, PlaceInv, OrderInv, ReadInv, SelectInv, LinkInv, BeforeOpen, Parsed, Selected
<1>6. FileInv
  BY <1>3, Reflexive DEF FileInv
<1>. QED BY <1>4, <1>5, <1>6 DEF FilterInv

\* The invariant holds of every run of the filter, whatever others do.
THEOREM Invariance == Spec => []FilterInv
<1>. QED BY FilterInit, FilterStep, PTL DEF Spec

\* The identified input is never written to by the filter, but through a link
\* that no comparison would see (check_alias).
THEOREM InputAlwaysSurvives == Spec => []InputSurvives
<1>1. FilterInv => InputSurvives
  <2>. SUFFICES ASSUME FilterInv, identity # Missing, ~late PROVE Grown(identity)
    BY DEF InputSurvives
  <2>1. identity \in Files /\ late = FALSE
    BY Numbers DEF FilterInv, TypeInv
  <2>2. identity # target
    BY <2>1 DEF FilterInv, LinkInv
  <2>. QED BY <2>1, <2>2 DEF FilterInv, FileInv, Grown
<1>. QED BY <1>1, Invariance, PTL

\* A refusal leaves every file as others made it (run).
THEOREM RefusalAlwaysKeepsFiles == Spec => []RefusalKeepsFiles
<1>1. FilterInv => RefusalKeepsFiles
  <2>. SUFFICES ASSUME FilterInv, answer = "refused", NEW file \in Files PROVE Grown(file)
    BY DEF RefusalKeepsFiles
  <2>1. file # target
    BY Numbers DEF FilterInv, PlaceInv
  <2>. QED BY <2>1 DEF FilterInv, FileInv, Grown
<1>. QED BY <1>1, Invariance, PTL

\* What is reported as translated is the database that was identified.
THEOREM AlwaysTranslatesInput == Spec => []TranslatesInput
<1>1. FilterInv => TranslatesInput
  <2>. SUFFICES ASSUME FilterInv, answer = "Ok"
       PROVE  source = identity /\ Parses(bytes) /\ (late \/ IsPrefix(bytes, content[identity]))
    BY DEF TranslatesInput
  <2>1. source = identity /\ Parses(bytes) /\ identity # Missing /\ target # Missing
    BY DEF FilterInv, OrderInv, ReadInv, PlaceInv
  <2>2. late = FALSE => target # identity
    BY <2>1 DEF FilterInv, LinkInv
  <2>. QED BY <2>1, <2>2 DEF FilterInv, ReadInv, TypeInv
<1>. QED BY <1>1, Invariance, PTL

\* Success is reported for a complete OUTPUT only (write_all).
THEOREM AlwaysReportedComplete == Spec => []ReportedComplete
<1>1. FilterInv => ReportedComplete
  <2>1. SubSeq(Translation, 1, 2) = Translation
    <3>1. Translation \in Seq({"new"}) /\ Len(Translation) = 2
      BY DEF Translation
    <3>. QED BY <3>1, SubSeqFull
  <2>. QED BY <2>1 DEF FilterInv, PlaceInv, LinkInv, ReportedComplete, TypeInv
<1>. QED BY <1>1, Invariance, PTL

\* A manifest that cannot be used never disables the selection (run).
THEOREM ManifestNeverIgnored == Spec => []ManifestNotIgnored
<1>1. FilterInv => ManifestNotIgnored
  BY DEF FilterInv, SelectInv, ManifestNotIgnored
<1>. QED BY <1>1, Invariance, PTL

-----------------------------------------------------------------------------
(* What FilterInv has no use for.                                          *)

RestInv ==
  /\ Len(bytes) <= InputLimit /\ selecting \in BOOLEAN
  /\ answer \in {"none", "Ok", "refused", "write failed", "killed"}

(* So does the invariant of the rewriting. *)
LEMMA RestInit == Init => RestInv
<1>1. Len(<<>>) <= InputLimit
  BY CompdbFilterAssumption
<1>2. Init => bytes = <<>> /\ selecting = FALSE /\ answer = "none"
  BY DEF Init
<1>. QED BY <1>1, <1>2 DEF RestInv

(* Every step of the rewriting keeps it. *)
LEMMA RestStep == RestInv /\ [Next]_vars => RestInv'
<1>. SUFFICES ASSUME RestInv, [Next]_vars PROVE RestInv'
  OBVIOUS
<1>. USE DEF RestInv, Goto, Refuse
<1>1. CASE Read
  <2>. DEFINE more == Append(bytes, content[source][Len(bytes) + 1])
  <2>1. bytes' = bytes \/ (bytes' = more /\ Fits(more))
    BY <1>1 DEF Read
  <2>2. Len(bytes') <= InputLimit
    BY <2>1 DEF Fits
  <2>. QED BY <1>1, <2>2 DEF Read
<1>2. CASE UNCHANGED vars \/ Others
  BY <1>2 DEF Others, vars, process
<1>3. CASE Identify \/ CheckInput \/ CheckOutput \/ Open \/ Parse
  BY <1>3 DEF Identify, CheckInput, CheckOutput, Open, Parse
<1>4. CASE LookForManifest \/ ReadManifest \/ Transform
  BY <1>4 DEF LookForManifest, ReadManifest, Transform
<1>5. CASE Create \/ Write \/ Report \/ IoFails \/ Killed
  BY <1>5 DEF Create, Write, Report, IoFails, Killed
<1>. QED BY <1>1, <1>2, <1>3, <1>4, <1>5 DEF Next

\* The variables keep their types, and however the input grows while it is read
\* no more of it is held than the limit (BoundedBytes).
THEOREM LimitNeverExceeded == Spec => []TypeOK
<1>1. FilterInv /\ RestInv => TypeOK
  BY Numbers DEF FilterInv, TypeInv, RestInv, TypeOK
<1>. QED BY <1>1, Invariance, RestInit, RestStep, PTL DEF Spec

-----------------------------------------------------------------------------
(* What becomes of a text (Rewrite): folding.                              *)

\* The symbols that the code itself writes.
OfTheCode == {"s", "c:/w", "/", "C:/W", "/workspace"}

(* A character is never folded to nothing, and turned it is folded alike. *)
LEMMA FoldOfIs ==
  ASSUME NEW U, OfTheCode \subseteq U, NEW c \in U
  PROVE  /\ FoldOf(c) \in Seq(U) /\ Len(FoldOf(c)) > 0
         /\ Slash(c) \in U /\ FoldOf(Slash(c)) = FoldOf(c)
<1>1. {"s", "c:/w", "/", "C:/W"} \subseteq U
  BY DEF OfTheCode
<1>2. /\ Slash(c) \in U
      /\ Slash(c) = IF c = "\\" THEN "/" ELSE IF c = "C:\\W" THEN "C:/W" ELSE c
  BY <1>1 DEF Slash, Turned
<1>3. CASE c = "eszett"
  <2>1. FoldOf(c) = <<"s", "s">> /\ Slash(c) = c
    BY <1>2, <1>3 DEF FoldOf
  <2>2. QED
    BY <1>1, <1>2, <2>1
<1>4. CASE c = "S"
  <2>1. FoldOf(c) = <<"s">> /\ Slash(c) = c
    BY <1>2, <1>4 DEF FoldOf
  <2>2. QED
    BY <1>1, <1>2, <2>1
<1>5. CASE c \in {"C:/W", "C:\\W", "c:/w"}
  <2>1. FoldOf(c) = <<"c:/w">> /\ Slash(c) \in {"C:/W", "c:/w"}
    BY <1>2, <1>5 DEF FoldOf
  <2>2. FoldOf(Slash(c)) = <<"c:/w">>
    BY <2>1 DEF FoldOf
  <2>3. QED
    BY <1>1, <1>2, <2>1, <2>2
<1>6. CASE c \notin {"eszett", "S", "C:/W", "C:\\W", "c:/w"}
  <2>1. FoldOf(c) = <<Slash(c)>>
    BY <1>6 DEF FoldOf
  <2>2. Slash(c) = (IF c = "\\" THEN "/" ELSE c) /\ Slash(Slash(c)) = Slash(c)
    BY <1>2, <1>6 DEF Slash, Turned
  <2>3. Slash(c) \notin {"eszett", "S", "C:/W", "C:\\W", "c:/w"}
    BY <1>6, <2>2
  <2>4. FoldOf(Slash(c)) = <<Slash(c)>>
    BY <2>2, <2>3 DEF FoldOf
  <2>5. QED
    BY <1>2, <2>1, <2>4
<1>7. QED
  BY <1>3, <1>4, <1>5, <1>6

(* Folded, a text is the last value of a function that takes one character at
   a time. *)
LEMMA FoldDef ==
  ASSUME NEW U, OfTheCode \subseteq U, NEW t \in Seq(U)
  PROVE  \E upTo \in [0..Len(t) -> Seq(U)] :
           /\ upTo[0] = <<>>
           /\ \A i \in 1..Len(t) : upTo[i] = upTo[i - 1] \o FoldOf(t[i])
           /\ Fold(t) = upTo[Len(t)]
<1>. DEFINE N == Len(t)
     next == [p \in Nat \X Seq(U) |->
                IF p[1] + 1 \in 1..N THEN p[2] \o FoldOf(t[p[1] + 1]) ELSE p[2]]
     Body(g) == [i \in 0..N |-> IF i = 0 THEN <<>> ELSE g[i - 1] \o FoldOf(t[i])]
     g == CHOOSE g : g = Body(g)
<1>1. N \in Nat /\ <<>> \in Seq(U)
  BY EmptySeq, LenProperties
<1>0. \A i \in 1..N : FoldOf(t[i]) \in Seq(U)
  BY FoldOfIs, ElementOfSeq
<1>2. next \in [Nat \X Seq(U) -> Seq(U)]
  <2>1. ASSUME NEW p \in Nat \X Seq(U), p[1] + 1 \in 1..N
        PROVE  p[2] \o FoldOf(t[p[1] + 1]) \in Seq(U)
    BY <1>0, <2>1, ConcatProperties
  <2>2. QED
    BY <2>1
<1>3. PICK f \in [0..N -> Seq(U)] :
        f[0] = <<>> /\ \A i \in 1..N : f[i] = next[<<i - 1, f[i - 1]>>]
  <2>. HIDE DEF next, N
  <2>1. \E f : Unfolds(f, N, Seq(U), <<>>, next)
    BY <1>1, <1>2, Recursion
  <2>2. QED
    BY <2>1 DEF Unfolds
<1>4. ASSUME NEW i \in 1..N
      PROVE  f[i] = f[i - 1] \o FoldOf(t[i])
  <2>1. i - 1 \in 0..N /\ i - 1 \in Nat /\ (i - 1) + 1 = i
    BY <1>1
  <2>2. <<i - 1, f[i - 1]>> \in Nat \X Seq(U)
    BY <1>3, <2>1
  <2>3. QED
    BY <1>3, <2>1, <2>2
<1>5. f = Body(f)
  <2>1. ASSUME NEW i \in 0..N PROVE f[i] = Body(f)[i]
    <3>1. i = 0 \/ i \in 1..N
      BY <1>1
    <3>2. QED
      BY <1>3, <1>4, <3>1
  <2>2. QED
    BY <1>3, <2>1
<1>6. g = Body(g)
  BY <1>5
<1>7. Fold(t) = g[N]
  BY DEF Fold
<1>. HIDE DEF g
<1>8. g[0] = <<>> /\ \A i \in 1..N : g[i] = g[i - 1] \o FoldOf(t[i])
  <2>1. 0 \in 0..N /\ \A i \in 1..N : i \in 0..N /\ i # 0
    BY <1>1
  <2>2. \A i \in 0..N : g[i] = Body(g)[i]
    BY <1>6
  <2>3. g[0] = Body(g)[0]
    BY <2>1, <2>2
  <2>4. \A i \in 1..N : g[i] = Body(g)[i]
    BY <2>1, <2>2
  <2>. HIDE DEF N
  <2>5. QED
    BY <2>1, <2>3, <2>4
<1>9. g \in [0..N -> Seq(U)]
  <2>. DEFINE T == {i \in 0..N : g[i] \in Seq(U)}
  <2>1. 0 \in T
    <3>1. 0 \in 0..N /\ g[0] \in Seq(U)
      BY <1>1, <1>8
    <3>2. QED
      BY <3>1
  <2>2. ASSUME NEW i \in 0..N, i \in T, i < N PROVE i + 1 \in T
    <3>1. i + 1 \in 1..N /\ i + 1 \in 0..N /\ (i + 1) - 1 = i
      BY <1>1, <2>2
    <3>2. FoldOf(t[i + 1]) \in Seq(U)
      BY <1>0, <3>1
    <3>3. g[i] \in Seq(U)
      BY <2>2
    <3>4. g[i] \o FoldOf(t[i + 1]) \in Seq(U)
      BY <3>2, <3>3, ConcatProperties
    <3>5. QED
      BY <1>8, <3>1, <3>3, <3>4
  <2>3. T = 0..N
    <3>. HIDE DEF N
    <3>1. T \in SUBSET (0..N)
      OBVIOUS
    <3>. HIDE DEF T
    <3>2. QED
      BY <1>1, <2>1, <2>2, <3>1, InductionUpTo
  <2>4. g = [i \in 0..N |-> g[i]]
    BY <1>6
  <2>5. QED
    BY <2>3, <2>4
<1>10. QED
  BY <1>7, <1>8, <1>9

(* It grows with every character. *)
LEMMA FoldAppend ==
  ASSUME NEW U, OfTheCode \subseteq U, NEW s \in Seq(U), NEW c \in U
  PROVE  Fold(Append(s, c)) = Fold(s) \o FoldOf(c)
<1>. DEFINE t == Append(s, c)
     N == Len(s)
<1>1. /\ t \in Seq(U) /\ Len(t) = N + 1 /\ N \in Nat
      /\ \A i \in 1..N : t[i] = s[i]
      /\ t[N + 1] = c
  BY AppendProperties, LenProperties
<1>. HIDE DEF t, N
<1>2. PICK f \in [0..N -> Seq(U)] :
        /\ f[0] = <<>>
        /\ \A i \in 1..N : f[i] = f[i - 1] \o FoldOf(s[i])
        /\ Fold(s) = f[N]
  BY FoldDef DEF N
<1>3. PICK g \in [0..N + 1 -> Seq(U)] :
        /\ g[0] = <<>>
        /\ \A i \in 1..N + 1 : g[i] = g[i - 1] \o FoldOf(t[i])
        /\ Fold(t) = g[N + 1]
  <2>1. \E g \in [0..Len(t) -> Seq(U)] :
        /\ g[0] = <<>>
        /\ \A i \in 1..Len(t) : g[i] = g[i - 1] \o FoldOf(t[i])
        /\ Fold(t) = g[Len(t)]
    BY <1>1, FoldDef
  <2>2. QED
    BY <1>1, <2>1
<1>. DEFINE T == {i \in 0..N : g[i] = f[i]}
<1>4. 0 \in T
  BY <1>1, <1>2, <1>3
<1>5. ASSUME NEW i \in 0..N, i \in T, i < N PROVE i + 1 \in T
  <2>1. i + 1 \in 1..N /\ i + 1 \in 1..N + 1 /\ i + 1 \in 0..N /\ (i + 1) - 1 = i
    <3>1. N \in Nat /\ i \in 0..N /\ i < N
      BY <1>1, <1>5
    <3>. HIDE DEF T
    <3>2. QED
      BY <3>1
  <2>2. g[i + 1] = g[i] \o FoldOf(t[i + 1]) /\ f[i + 1] = f[i] \o FoldOf(s[i + 1])
    <3>1. \A k \in 1..N : f[k] = f[k - 1] \o FoldOf(s[k])
      BY <1>2
    <3>2. \A k \in 1..N + 1 : g[k] = g[k - 1] \o FoldOf(t[k])
      BY <1>3
    <3>3. f[i + 1] = f[(i + 1) - 1] \o FoldOf(s[i + 1])
      BY <2>1, <3>1, Zenon
    <3>4. g[i + 1] = g[(i + 1) - 1] \o FoldOf(t[i + 1])
      BY <2>1, <3>2, Zenon
    <3>5. QED
      BY <2>1, <3>3, <3>4, Zenon
  <2>3. t[i + 1] = s[i + 1] /\ g[i] = f[i]
    BY <1>1, <1>5, <2>1
  <2>4. g[i + 1] = f[i + 1]
    BY <2>2, <2>3
  <2>5. QED
    BY <2>1, <2>4
<1>6. N \in T
  <2>1. T \in SUBSET (0..N) /\ N \in 0..N
    BY <1>1
  <2>. HIDE DEF T
  <2>2. QED
    BY <1>1, <1>4, <1>5, <2>1, InductionUpTo
<1>7. g[N + 1] = g[N] \o FoldOf(c) /\ g[N] = f[N]
  <2>1. N + 1 \in 1..N + 1 /\ (N + 1) - 1 = N
    BY <1>1
  <2>2. QED
    BY <1>1, <1>3, <1>6, <2>1
<1>8. QED
  BY <1>2, <1>3, <1>7 DEF t

(* Folded, a text is a text, not shorter than it was. *)
LEMMA FoldTyped ==
  ASSUME NEW U, OfTheCode \subseteq U, NEW t \in Seq(U)
  PROVE  Fold(t) \in Seq(U)
<1>1. PICK f \in [0..Len(t) -> Seq(U)] : Fold(t) = f[Len(t)]
  BY FoldDef
<1>2. Len(t) \in 0..Len(t)
  BY LenProperties
<1>3. QED
  BY <1>1, <1>2

(* No text, folded, is no text. *)
LEMMA FoldEmpty == Fold(<<>>) = <<>>
<1>. DEFINE U == OfTheCode
<1>1. <<>> \in Seq(U) /\ Len(<<>>) = 0 /\ OfTheCode \subseteq U
  BY EmptySeq
<1>. HIDE DEF U
<1>2. PICK t : t = <<>>
  OBVIOUS
<1>3. t \in Seq(U) /\ OfTheCode \subseteq U
  BY <1>1, <1>2
<1>4. PICK upTo \in [0..Len(t) -> Seq(U)] : upTo[0] = <<>> /\ Fold(t) = upTo[Len(t)]
  BY <1>3, FoldDef
<1>5. QED
  BY <1>1, <1>2, <1>4

(* Two texts, one after the other, are folded one after the other. *)
LEMMA FoldConcat ==
  ASSUME NEW U, OfTheCode \subseteq U, NEW s \in Seq(U), NEW t \in Seq(U)
  PROVE  Fold(s \o t) = Fold(s) \o Fold(t)
<1>. DEFINE N == Len(t)
     T == {n \in 0..N : Fold(s \o SubSeq(t, 1, n)) = Fold(s) \o Fold(SubSeq(t, 1, n))}
<1>1. N \in Nat /\ SubSeq(t, 1, 0) = <<>> /\ SubSeq(t, 1, N) = t
  BY LenProperties, SubSeqEmpty, SubSeqFull
<1>2. \A n \in 0..N : SubSeq(t, 1, n) \in Seq(U)
  <2>1. ASSUME NEW n \in 0..N PROVE SubSeq(t, 1, n) \in Seq(U)
    <3>1. \A i \in 1..n : t[i] \in U
      BY <1>1, ElementOfSeq
    <3>2. QED
      BY <3>1, SubSeqProperties
  <2>2. QED
    BY <2>1
<1>3. Fold(s) \in Seq(U)
  BY FoldTyped
<1>4. 0 \in T
  <2>1. s \o <<>> = s /\ Fold(s) \o <<>> = Fold(s)
    BY <1>3, ConcatEmptySeq
  <2>2. 0 \in 0..N
    BY <1>1
  <2>3. QED
    BY <1>1, <2>1, <2>2, FoldEmpty
<1>5. ASSUME NEW n \in 0..N, n \in T, n < N PROVE n + 1 \in T
  <2>. DEFINE u == SubSeq(t, 1, n)
       c == t[n + 1]
  <2>1. n + 1 \in 1..N /\ n + 1 \in 0..N /\ 1 \in 1..N /\ n + 1 \in 1..Len(t) /\ (n + 1) - 1 = n
    BY <1>1, <1>5
  <2>2. u \in Seq(U) /\ c \in U
    BY <1>2, <2>1, ElementOfSeq
  <2>3. SubSeq(t, 1, n + 1) = u \o <<c>>
    BY <2>1, SubSeqRecursiveSecond
  <2>4. Fold(s \o u) = Fold(s) \o Fold(u)
    BY <1>5
  <2>. HIDE DEF u, c
  <2>5. <<c>> \in Seq(U) /\ u \o <<c>> = Append(u, c)
    BY <2>2, AppendIsConcat
  <2>6. s \o u \in Seq(U) /\ s \o (u \o <<c>>) = Append(s \o u, c)
    <3>1. s \o u \in Seq(U)
      BY <2>2, ConcatProperties
    <3>2. (s \o u) \o <<c>> = s \o (u \o <<c>>)
      <4>1. Associates(s, u, <<c>>)
        BY <2>2, <2>5, Associate
      <4>2. QED
        BY <4>1 DEF Associates
    <3>3. Append(s \o u, c) = (s \o u) \o <<c>>
      BY <2>2, <3>1, AppendIsConcat
    <3>4. QED
      BY <3>1, <3>2, <3>3
  <2>7. Fold(Append(s \o u, c)) = Fold(s \o u) \o FoldOf(c)
    BY <2>2, <2>6, FoldAppend
  <2>8. Fold(Append(u, c)) = Fold(u) \o FoldOf(c)
    BY <2>2, FoldAppend
  <2>9. (Fold(s) \o Fold(u)) \o FoldOf(c) = Fold(s) \o (Fold(u) \o FoldOf(c))
    <3>1. Fold(s) \in Seq(U) /\ Fold(u) \in Seq(U) /\ FoldOf(c) \in Seq(U)
      BY <1>3, <2>2, FoldTyped, FoldOfIs
    <3>2. Associates(Fold(s), Fold(u), FoldOf(c))
      BY <3>1, Associate
    <3>3. QED
      BY <3>2 DEF Associates
  <2>10. Fold(s \o SubSeq(t, 1, n + 1)) = Fold(s) \o Fold(SubSeq(t, 1, n + 1))
    BY <2>3, <2>4, <2>5, <2>6, <2>7, <2>8, <2>9
  <2>11. QED
    BY <2>1, <2>10
<1>6. N \in T
  <2>1. T \in SUBSET (0..N) /\ N \in 0..N
    BY <1>1
  <2>. HIDE DEF T, N
  <2>2. QED
    BY <1>1, <1>4, <1>5, <2>1, InductionUpTo
<1>7. QED
  BY <1>1, <1>6

-----------------------------------------------------------------------------
(* Respelling the source.                                                  *)

(* A part of a text is a text. *)
LEMMA PartTyped ==
  ASSUME NEW U, NEW t \in Seq(U), NEW a \in Nat, NEW b \in 0..Len(t), a > 0
  PROVE  SubSeq(t, a, b) \in Seq(U)
<1>1. a \in Int /\ b \in Int /\ \A i \in a..b : i \in 1..Len(t)
  BY LenProperties
<1>2. \A i \in a..b : t[i] \in U
  BY <1>1, ElementOfSeq
<1>3. QED
  BY <1>1, <1>2, SubSeqProperties

(* What is folded before a place and after it. *)
LEMMA FoldSplit ==
  ASSUME NEW U, OfTheCode \subseteq U, NEW t \in Seq(U),
         NEW n \in 0..Len(t), NEW m \in n..Len(t)
  PROVE  /\ Fold(SubSeq(t, 1, m)) = Fold(SubSeq(t, 1, n)) \o Fold(SubSeq(t, n + 1, m))
         /\ Fold(SubSeq(t, 1, n)) \in Seq(U) /\ Fold(SubSeq(t, n + 1, m)) \in Seq(U)
         /\ Folded(t, m) = Folded(t, n) + Len(Fold(SubSeq(t, n + 1, m)))
         /\ Folded(t, n) \in Nat /\ Folded(t, m) \in Nat
         /\ Folded(t, n) <= Folded(t, m)
<1>1. /\ Len(t) \in Nat /\ n \in Nat /\ m \in 0..Len(t) /\ n + 1 \in Nat /\ n + 1 > 0
      /\ 1 \in 1..Len(t) + 1 /\ n \in 1 - 1..Len(t) /\ 1 \in Nat
  BY LenProperties
<1>2. SubSeq(t, 1, m) = SubSeq(t, 1, n) \o SubSeq(t, n + 1, m)
  BY <1>1, ConcatAdjacentSubSeq
<1>3. SubSeq(t, 1, n) \in Seq(U) /\ SubSeq(t, n + 1, m) \in Seq(U)
  BY <1>1, PartTyped
<1>. DEFINE a == SubSeq(t, 1, n)
     b == SubSeq(t, n + 1, m)
<1>4. Fold(a \o b) = Fold(a) \o Fold(b)
  <2>. HIDE DEF a, b
  <2>1. a \in Seq(U) /\ b \in Seq(U)
    BY <1>3 DEF a, b
  <2>2. QED
    BY <2>1, FoldConcat
<1>5. Fold(a) \in Seq(U) /\ Fold(b) \in Seq(U)
  BY <1>3, FoldTyped
<1>6. Len(Fold(a) \o Fold(b)) = Len(Fold(a)) + Len(Fold(b))
      /\ Len(Fold(a)) \in Nat /\ Len(Fold(b)) \in Nat
  BY <1>5, ConcatProperties, LenProperties
<1>7. Folded(t, n) = Len(Fold(a)) /\ Folded(t, m) = Len(Fold(a) \o Fold(b))
  BY <1>2, <1>4 DEF Folded
<1>. HIDE DEF a, b
<1>8. QED
  <2>1. Folded(t, m) = Folded(t, n) + Len(Fold(b)) /\ Folded(t, n) \in Nat
        /\ Folded(t, m) \in Nat /\ Folded(t, n) <= Folded(t, m)
    BY <1>6, <1>7
  <2>2. Fold(SubSeq(t, 1, m)) = Fold(a) \o Fold(b)
    BY <1>2, <1>4 DEF a, b
  <2>3. QED
    BY <1>5, <2>1, <2>2 DEF a, b

(* A position in the text is one the text has: the first not before its aim. *)
LEMMA AdvanceIs ==
  ASSUME NEW U, OfTheCode \subseteq U, NEW t \in Seq(U),
         NEW taken \in 0..Len(t), NEW aim \in Int
  PROVE  /\ Advance(t, taken, aim) \in taken..Len(t)
         /\ Advance(t, taken, aim) = Len(t) \/ Folded(t, Advance(t, taken, aim)) >= aim
         /\ \A m \in taken..Advance(t, taken, aim) - 1 : Folded(t, m) < aim
<1>. DEFINE T == {n \in taken..Len(t) : n = Len(t) \/ Folded(t, n) >= aim}
<1>1. Len(t) \in Nat /\ taken \in Nat /\ taken <= Len(t)
  BY LenProperties
<1>2. T \in SUBSET Nat /\ T # {}
  <2>1. Len(t) \in T
    BY <1>1
  <2>2. QED
    BY <1>1, <2>1
<1>3. PICK n \in T : \A m \in T : n <= m
  <2>. HIDE DEF T
  <2>1. QED
    BY <1>2, LeastNat
<1>4. ASSUME NEW m \in taken..n - 1 PROVE Folded(t, m) < aim
  <2>1. m \in taken..Len(t) /\ m < n /\ m \in 0..Len(t) /\ m \in m..Len(t)
    BY <1>1, <1>3
  <2>2. m \notin T
    <3>1. m \in Int /\ n \in Int
      BY <1>1, <1>3
    <3>2. m \in T => n <= m
      BY <1>3
    <3>. HIDE DEF T
    <3>3. QED
      BY <2>1, <3>1, <3>2
  <2>3. Folded(t, m) \in Nat
    BY <2>1, FoldSplit
  <2>4. QED
    BY <2>1, <2>2, <2>3
<1>5. /\ n \in taken..Len(t)
      /\ n = Len(t) \/ Folded(t, n) >= aim
      /\ \A m \in taken..n - 1 : Folded(t, m) < aim
  BY <1>3, <1>4
<1>. DEFINE Least(k) == /\ k = Len(t) \/ Folded(t, k) >= aim
                       /\ \A m \in taken..k - 1 : Folded(t, m) < aim
<1>6. Advance(t, taken, aim) = CHOOSE k \in taken..Len(t) : Least(k)
  BY DEF Advance
<1>7. \E k \in taken..Len(t) : Least(k)
  BY <1>5
<1>. HIDE DEF Least
<1>8. Advance(t, taken, aim) \in taken..Len(t) /\ Least(Advance(t, taken, aim))
  BY <1>6, <1>7
<1>9. QED
  BY <1>8 DEF Least

(* What stands between two texts. *)
LEMMA MiddlePart ==
  ASSUME NEW U, NEW a \in Seq(U), NEW b \in Seq(U), NEW c \in Seq(U), Len(b) > 0
  PROVE  SubSeq((a \o b) \o c, Len(a) + 1, Len(a) + Len(b)) = b
<1>1. /\ Len(a) \in Nat /\ Len(b) \in Nat /\ a \o b \in Seq(U)
      /\ Len(a \o b) = Len(a) + Len(b)
  BY ConcatProperties, LenProperties
<1>. DEFINE from == Len(a) + 1
     to == Len(a) + Len(b)
<1>2. from \in 1..Len(a \o b) /\ to \in 1..Len(a \o b)
  BY <1>1
<1>3. SubSeq((a \o b) \o c, from, to) = SubSeq(a \o b, from, to)
  <2>. DEFINE ab == a \o b
  <2>1. ab \in Seq(U) /\ from \in 1..Len(ab) /\ to \in 1..Len(ab)
    BY <1>1, <1>2
  <2>. HIDE DEF ab, from, to
  <2>2. SubSeq(ab \o c, from, to) = SubSeq(ab, from, to)
    BY <2>1, SubSeqOfConcat1
  <2>3. QED
    BY <2>2 DEF ab
<1>4. SubSeq(a \o b, from, to) = SubSeq(b, from - Len(a), to - Len(a))
  <2>1. from \in Len(a) + 1..Len(a) + Len(b) /\ to \in Len(a) + 1..Len(a) + Len(b)
    BY <1>1
  <2>. HIDE DEF from, to
  <2>2. QED
    BY <2>1, SubSeqOfConcat2
<1>5. from - Len(a) = 1 /\ to - Len(a) = Len(b)
  BY <1>1
<1>6. QED
  BY <1>3, <1>4, <1>5, SubSeqFull

\* What ReplaceSource keeps while it searches.
Search(U, t) == [from : 0..Len(t), to : 0..Len(t), cursor : 0..Len(t), out : Seq(U)]

(* It keeps its type. *)
LEMMA FoundTyped ==
  ASSUME NEW U, OfTheCode \subseteq U, NEW t \in Seq(U), NEW new \in Seq(U),
         NEW needle \in Seq(U), NEW acc \in Search(U, t), NEW k \in Nat
  PROVE  Found(t, new, needle, acc, k) \in Search(U, t)
<1>. DEFINE from == Advance(t, acc.from, k - 1)
     to == Advance(t, acc.to, k - 1 + Len(needle))
     part == SubSeq(t, acc.cursor + 1, from)
     Else == [acc EXCEPT !.from = from, !.to = to]
     Then == [from |-> from, to |-> to, cursor |-> to, out |-> (acc.out \o part) \o new]
<1>1. /\ acc.from \in 0..Len(t) /\ acc.to \in 0..Len(t) /\ acc.cursor \in 0..Len(t)
      /\ acc.out \in Seq(U) /\ Len(needle) \in Nat /\ Len(t) \in Nat
  BY LenProperties DEF Search
<1>2. from \in 0..Len(t) /\ to \in 0..Len(t)
  <2>1. k - 1 \in Int /\ k - 1 + Len(needle) \in Int
    BY <1>1
  <2>2. from \in acc.from..Len(t) /\ to \in acc.to..Len(t)
    BY <1>1, <2>1, AdvanceIs
  <2>3. QED
    BY <1>1, <2>2
<1>3. Found(t, new, needle, acc, k) \in {acc, Else, Then}
  BY DEF Found
<1>. HIDE DEF from, to
<1>4. part \in Seq(U)
  <2>1. acc.cursor + 1 \in Nat /\ acc.cursor + 1 > 0
    BY <1>1
  <2>2. QED
    BY <1>2, <2>1, PartTyped
<1>. HIDE DEF part
<1>5. (acc.out \o part) \o new \in Seq(U)
  <2>1. acc.out \o part \in Seq(U)
    BY <1>1, <1>4, ConcatProperties
  <2>2. QED
    BY <2>1, ConcatProperties
<1>6. Else \in Search(U, t) /\ Then \in Search(U, t)
  BY <1>1, <1>2, <1>5 DEF Search
<1>. HIDE DEF Else, Then
<1>7. QED
  BY <1>3, <1>6

\* The search of the folded needle, place by place.
Searches(t, new, needle, g) ==
  LET places == Len(Fold(t)) + 1 - Len(needle)
  IN /\ g[0] = [from |-> 0, to |-> 0, cursor |-> 0, out |-> <<>>]
     /\ \A k \in 1..places : g[k] = Found(t, new, needle, g[k - 1], k)

(* ReplaceSource is what its search, place by place, has come to at the end. *)
LEMMA ReplaceDef ==
  ASSUME NEW U, OfTheCode \subseteq U, NEW t \in Seq(U), NEW old \in Seq(U), NEW new \in Seq(U),
         Fold(t) # Fold(old), Fold(old) # <<>>, Len(Fold(t)) + 1 - Len(Fold(old)) > 0
  PROVE  /\ Len(Fold(t)) + 1 - Len(Fold(old)) \in Nat
         /\ \E g : /\ Searches(t, new, Fold(old), g)
                   /\ ReplaceSource(t, old, new) =
                        LET all == g[Len(Fold(t)) + 1 - Len(Fold(old))]
                        IN all.out \o SubSeq(t, all.cursor + 1, Len(t))
<1>. DEFINE needle == Fold(old)
     places == Len(Fold(t)) + 1 - Len(needle)
     start == [from |-> 0, to |-> 0, cursor |-> 0, out |-> <<>>]
     Body(g) == [k \in 0..places |->
                   IF k = 0 THEN start ELSE Found(t, new, needle, g[k - 1], k)]
     g == CHOOSE g : g = Body(g)
     all == g[places]
     next == [p \in Nat \X Search(U, t) |-> Found(t, new, needle, p[2], p[1] + 1)]
<1>1. places \in Nat /\ needle \in Seq(U)
  <2>1. Len(Fold(t)) \in Nat /\ Len(needle) \in Nat /\ needle \in Seq(U)
    BY FoldTyped, LenProperties
  <2>2. places > 0
    OBVIOUS
  <2>. HIDE DEF needle
  <2>3. QED
    BY <2>1, <2>2
<1>2. ReplaceSource(t, old, new) = all.out \o SubSeq(t, all.cursor + 1, Len(t))
  <2>1. ReplaceSource(t, old, new) =
          IF Fold(t) = needle THEN new
          ELSE IF needle = <<>> \/ places <= 0 THEN t
          ELSE all.out \o SubSeq(t, all.cursor + 1, Len(t))
    BY DEF ReplaceSource
  <2>2. Fold(t) # needle /\ needle # <<>> /\ places > 0
    OBVIOUS
  <2>. HIDE DEF needle, places, all
  <2>3. ~(places <= 0)
    BY <1>1, <2>2
  <2>4. QED
    BY <2>1, <2>2, <2>3
<1>. HIDE DEF needle
<1>3. start \in Search(U, t)
  BY EmptySeq, LenProperties DEF Search
<1>4. next \in [Nat \X Search(U, t) -> Search(U, t)]
  <2>1. \A p \in Nat \X Search(U, t) : p[1] + 1 \in Nat /\ p[2] \in Search(U, t)
    OBVIOUS
  <2>2. \A acc \in Search(U, t) : \A k \in Nat : Found(t, new, needle, acc, k) \in Search(U, t)
    BY <1>1, FoundTyped
  <2>3. QED
    BY <2>1, <2>2
<1>5. PICK f \in [0..places -> Search(U, t)] :
        f[0] = start /\ \A i \in 1..places : f[i] = next[<<i - 1, f[i - 1]>>]
  <2>. HIDE DEF next, places, start
  <2>1. \E f : Unfolds(f, places, Search(U, t), start, next)
    BY <1>1, <1>3, <1>4, Recursion
  <2>2. QED
    BY <2>1 DEF Unfolds
<1>6. ASSUME NEW i \in 1..places PROVE f[i] = Found(t, new, needle, f[i - 1], i)
  <2>1. i - 1 \in 0..places /\ i - 1 \in Nat /\ (i - 1) + 1 = i
    BY <1>1
  <2>2. <<i - 1, f[i - 1]>> \in Nat \X Search(U, t)
    BY <1>5, <2>1
  <2>. HIDE DEF places, start
  <2>3. QED
    BY <1>5, <2>1, <2>2
<1>7. f = Body(f)
  <2>. HIDE DEF start, places
  <2>1. ASSUME NEW i \in 0..places PROVE f[i] = Body(f)[i]
    <3>1. i = 0 \/ i \in 1..places
      BY <1>1
    <3>2. QED
      BY <1>5, <1>6, <3>1
  <2>2. QED
    BY <1>5, <2>1
<1>8. g = Body(g)
  BY <1>7
<1>. HIDE DEF g
<1>9. g[0] = start /\ \A i \in 1..places : g[i] = Found(t, new, needle, g[i - 1], i)
  <2>1. 0 \in 0..places /\ \A i \in 1..places : i \in 0..places /\ i # 0
    BY <1>1
  <2>. HIDE DEF start, places
  <2>2. \A i \in 0..places : g[i] = Body(g)[i]
    BY <1>8
  <2>3. g[0] = Body(g)[0]
    BY <2>1, <2>2
  <2>4. \A i \in 1..places : g[i] = Body(g)[i]
    BY <2>1, <2>2
  <2>5. QED
    BY <2>1, <2>3, <2>4
<1>10. QED
  BY <1>1, <1>2, <1>9 DEF Searches, needle

\* How far ReplaceSource has come: what it has written is folded like what it
\* has read.
Come(U, t) ==
  {acc \in [from : 0..Len(t), to : 0..Len(t), cursor : 0..Len(t), out : Seq(U)] :
     Fold(acc.out) = Fold(SubSeq(t, 1, acc.cursor))}

(* Replacing one place changes nothing in the folded text. *)
LEMMA FoundFolds ==
  ASSUME NEW U, OfTheCode \subseteq U, NEW t \in Seq(U), NEW new \in Seq(U),
         Fold(new) # <<>>, NEW acc \in Come(U, t), NEW k \in Nat, k > 0
  PROVE  Found(t, new, Fold(new), acc, k) \in Come(U, t)
<1>. DEFINE needle == Fold(new)
     N == Len(t)
     from == Advance(t, acc.from, k - 1)
     to == Advance(t, acc.to, k - 1 + Len(needle))
     part == SubSeq(t, acc.cursor + 1, from)
<1>1. /\ N \in Nat /\ needle \in Seq(U) /\ Len(needle) \in Nat /\ Len(needle) > 0
      /\ acc.from \in 0..N /\ acc.to \in 0..N /\ acc.cursor \in 0..N /\ acc.out \in Seq(U)
      /\ Fold(acc.out) = Fold(SubSeq(t, 1, acc.cursor))
  <2>1. needle \in Seq(U)
    BY FoldTyped
  <2>2. Len(needle) \in Nat /\ Len(needle) > 0
    BY <2>1, LenProperties, EmptySeq
  <2>3. QED
    BY <2>1, <2>2, LenProperties DEF Come
<1>2. from \in 0..N /\ to \in 0..N
  <2>1. k - 1 \in Int /\ k - 1 + Len(needle) \in Int
    BY <1>1
  <2>. HIDE DEF needle
  <2>2. from \in acc.from..N /\ to \in acc.to..N
    BY <1>1, <2>1, AdvanceIs
  <2>3. QED
    BY <1>1, <2>2
<1>. DEFINE Else == [acc EXCEPT !.from = from, !.to = to]
     Then == [from |-> from, to |-> to, cursor |-> to, out |-> (acc.out \o part) \o new]
     Here == SubSeq(Fold(t), k, k - 1 + Len(needle)) = needle
     Whole == /\ Hit(t, from, k - 1) /\ Hit(t, to, k - 1 + Len(needle))
              /\ from >= acc.cursor /\ WholeName(t, from, to)
<1>3. Found(t, new, needle, acc, k) = IF ~Here THEN acc ELSE IF Whole THEN Then ELSE Else
  BY DEF Found
<1>4. Else \in Come(U, t)
  <2>. HIDE DEF from, to
  <2>1. QED
    BY <1>1, <1>2 DEF Come
<1>5. ASSUME Here, Whole PROVE Then \in Come(U, t)
  <2>1. /\ Folded(t, from) = k - 1 /\ Folded(t, to) = k - 1 + Len(needle)
        /\ acc.cursor <= from
    <3>1. from >= acc.cursor
      BY <1>5
    <3>2. QED
      BY <1>1, <1>2, <1>5, <3>1 DEF Hit
  <2>. HIDE DEF needle, from, to
  <2>2. from <= to
    <3>1. SUFFICES ASSUME to < from PROVE FALSE
      BY <1>1, <1>2
    <3>2. from \in to..N
      BY <1>1, <1>2, <3>1
    <3>3. Folded(t, to) <= Folded(t, from)
      BY <1>2, <3>2, FoldSplit
    <3>4. QED
      BY <1>1, <2>1, <3>3
  <2>. DEFINE a == Fold(SubSeq(t, 1, from))
       b == Fold(SubSeq(t, from + 1, to))
       c == Fold(SubSeq(t, to + 1, N))
  <2>3. /\ Fold(SubSeq(t, 1, to)) = a \o b /\ a \in Seq(U) /\ b \in Seq(U)
        /\ Folded(t, to) = Folded(t, from) + Len(b)
    <3>1. to \in from..N
      BY <1>1, <1>2, <2>2
    <3>2. QED
      BY <1>2, <3>1, FoldSplit
  <2>4. Fold(t) = (a \o b) \o c /\ c \in Seq(U)
    <3>1. N \in to..N
      BY <1>1, <1>2
    <3>2. SubSeq(t, 1, N) = t
      BY SubSeqFull
    <3>3. Fold(SubSeq(t, 1, N)) = Fold(SubSeq(t, 1, to)) \o c /\ c \in Seq(U)
      BY <1>2, <3>1, FoldSplit
    <3>4. QED
      BY <2>3, <3>2, <3>3
  <2>5. /\ Len(a) = k - 1 /\ Len(b) = Len(needle)
    <3>1. Folded(t, from) = Len(a) /\ Len(b) \in Nat
      BY <2>3, LenProperties DEF Folded
    <3>. HIDE DEF a, b
    <3>2. Len(a) = k - 1 /\ k - 1 + Len(needle) = Len(a) + Len(b)
      BY <2>1, <2>3, <3>1
    <3>3. Len(needle) \in Nat /\ Len(b) \in Nat
      BY <1>1, <3>1
    <3>4. QED
      BY <3>2, <3>3
  <2>6. b = needle
    <3>. HIDE DEF a, b, c
    <3>1. SubSeq((a \o b) \o c, Len(a) + 1, Len(a) + Len(b)) = b
      BY <1>1, <2>3, <2>4, <2>5, MiddlePart
    <3>2. Len(a) + 1 = k /\ Len(a) + Len(b) = k - 1 + Len(needle)
      BY <1>1, <2>5
    <3>3. QED
      BY <1>5, <2>4, <3>1, <3>2
  <2>7. /\ part \in Seq(U)
        /\ a = Fold(SubSeq(t, 1, acc.cursor)) \o Fold(part)
    <3>1. from \in acc.cursor..N /\ acc.cursor + 1 \in Nat /\ acc.cursor + 1 > 0
      <4>1. acc.cursor \in 0..N /\ acc.cursor <= from /\ N \in Nat
        BY <1>1, <2>1
      <4>. HIDE DEF part, a, b, c, N
      <4>2. QED
        BY <1>2, <4>1
    <3>2. QED
      BY <1>1, <1>2, <3>1, FoldSplit, PartTyped
  <2>8. Fold((acc.out \o part) \o new) = a \o needle /\ (acc.out \o part) \o new \in Seq(U)
    <3>. HIDE DEF part, a, b, c
    <3>1. acc.out \o part \in Seq(U) /\ (acc.out \o part) \o new \in Seq(U)
      <4>1. acc.out \o part \in Seq(U)
        BY <1>1, <2>7, ConcatProperties
      <4>2. QED
        BY <4>1, ConcatProperties
    <3>2. Fold(acc.out \o part) = Fold(acc.out) \o Fold(part)
      BY <1>1, <2>7, FoldConcat
    <3>3. Fold((acc.out \o part) \o new) = Fold(acc.out \o part) \o Fold(new)
      BY <3>1, FoldConcat
    <3>4. QED
      BY <1>1, <2>7, <3>1, <3>2, <3>3 DEF needle
  <2>9. Fold((acc.out \o part) \o new) = Fold(SubSeq(t, 1, to))
    BY <2>3, <2>6, <2>8
  <2>. HIDE DEF part, a, b, c
  <2>10. QED
    BY <1>2, <2>8, <2>9 DEF Come
<1>6. QED
  <2>. HIDE DEF Else, Then, Here, Whole, needle
  <2>1. Found(t, new, needle, acc, k) \in Come(U, t)
    BY <1>3, <1>4, <1>5
  <2>2. QED
    BY <2>1 DEF needle

\* Folded, r is what t is.
FoldsAlike(U, r, t) == r \in Seq(U) /\ Fold(r) = Fold(t)

(* ReplaceSource leaves the folded text as it is, when the name and what is put
   in its place are folded alike. *)
LEMMA ReplaceFolds ==
  ASSUME NEW U, OfTheCode \subseteq U, NEW t \in Seq(U), NEW old \in Seq(U), NEW new \in Seq(U),
         Fold(old) = Fold(new)
  PROVE  FoldsAlike(U, ReplaceSource(t, old, new), t)
<1>. DEFINE needle == Fold(old)
     places == Len(Fold(t)) + 1 - Len(needle)
<1>1. \/ Fold(t) = needle /\ ReplaceSource(t, old, new) = new
      \/ ReplaceSource(t, old, new) = t
      \/ Fold(t) # needle /\ needle # <<>> /\ ~(places <= 0)
  BY DEF ReplaceSource
<1>2. CASE Fold(t) # needle /\ needle # <<>> /\ ~(places <= 0)
  <2>1. places > 0
    <3>1. Len(Fold(t)) \in Nat /\ Len(needle) \in Nat
      BY FoldTyped, LenProperties
    <3>. HIDE DEF needle
    <3>2. QED
      BY <1>2, <3>1
  <2>2. /\ places \in Nat
        /\ \E g : /\ Searches(t, new, needle, g)
                  /\ ReplaceSource(t, old, new)
                       = g[places].out \o SubSeq(t, g[places].cursor + 1, Len(t))
    BY <1>2, <2>1, ReplaceDef
  <2>3. PICK g : /\ Searches(t, new, needle, g)
                 /\ ReplaceSource(t, old, new)
                      = g[places].out \o SubSeq(t, g[places].cursor + 1, Len(t))
    BY <2>2
  <2>4. /\ g[0] = [from |-> 0, to |-> 0, cursor |-> 0, out |-> <<>>]
        /\ \A k \in 1..places : g[k] = Found(t, new, needle, g[k - 1], k)
    BY <2>3 DEF Searches
  <2>5. \A acc \in Come(U, t) : \A k \in Nat : k > 0 => Found(t, new, needle, acc, k) \in Come(U, t)
    <3>1. Fold(new) # <<>>
      BY <1>2
    <3>2. ASSUME NEW acc \in Come(U, t), NEW k \in Nat, k > 0
          PROVE  Found(t, new, Fold(new), acc, k) \in Come(U, t)
      BY <3>1, <3>2, FoundFolds
    <3>3. QED
      BY <3>2
  <2>. DEFINE T == {i \in 0..places : g[i] \in Come(U, t)}
       all == g[places]
  <2>6. all \in Come(U, t)
    <3>. HIDE DEF places, needle
    <3>1. 0 \in T
      <4>1. SubSeq(t, 1, 0) = <<>> /\ <<>> \in Seq(U) /\ 0 \in 0..Len(t) /\ 0 \in 0..places
        BY <2>2, SubSeqEmpty, EmptySeq, LenProperties
      <4>2. [from |-> 0, to |-> 0, cursor |-> 0, out |-> <<>>] \in Come(U, t)
        BY <4>1 DEF Come
      <4>3. QED
        BY <2>4, <4>1, <4>2
    <3>2. ASSUME NEW i \in 0..places, i \in T, i < places PROVE i + 1 \in T
      <4>1. i + 1 \in 1..places /\ i + 1 \in 0..places /\ (i + 1) - 1 = i /\ i + 1 \in Nat
            /\ i + 1 > 0
        <5>. HIDE DEF T
        <5>1. QED
          BY <2>2, <3>2
      <4>2. g[i] \in Come(U, t)
        BY <3>2
      <4>3. Found(t, new, needle, g[i], i + 1) \in Come(U, t)
        BY <2>5, <4>1, <4>2
      <4>4. g[i + 1] = Found(t, new, needle, g[i], i + 1)
        <5>1. g[i + 1] = Found(t, new, needle, g[(i + 1) - 1], i + 1)
          BY <2>4, <4>1, Zenon
        <5>2. QED
          BY <4>1, <5>1
      <4>5. QED
        BY <4>1, <4>3, <4>4
    <3>3. places \in T
      <4>1. T \in SUBSET (0..places) /\ places \in 0..places
        BY <2>2
      <4>. HIDE DEF T
      <4>2. QED
        BY <2>2, <3>1, <3>2, <4>1, InductionUpTo
    <3>4. QED
      BY <3>3
  <2>. HIDE DEF all
  <2>. DEFINE rest == SubSeq(t, all.cursor + 1, Len(t))
  <2>7. /\ all.out \in Seq(U) /\ all.cursor \in 0..Len(t)
        /\ Fold(all.out) = Fold(SubSeq(t, 1, all.cursor))
    BY <2>6 DEF Come
  <2>8. /\ Fold(t) = Fold(SubSeq(t, 1, all.cursor)) \o Fold(rest)
        /\ rest \in Seq(U)
    <3>1. /\ Len(t) \in all.cursor..Len(t) /\ Len(t) \in 0..Len(t)
          /\ all.cursor + 1 \in Nat /\ all.cursor + 1 > 0
      BY <2>7, LenProperties
    <3>2. SubSeq(t, 1, Len(t)) = t
      BY SubSeqFull
    <3>3. Fold(SubSeq(t, 1, Len(t))) = Fold(SubSeq(t, 1, all.cursor)) \o Fold(rest)
      BY <2>7, <3>1, FoldSplit
    <3>4. rest \in Seq(U)
      BY <2>7, <3>1, PartTyped
    <3>5. QED
      BY <3>2, <3>3, <3>4
  <2>9. ReplaceSource(t, old, new) = all.out \o rest
    BY <2>3 DEF all
  <2>10. all.out \o rest \in Seq(U) /\ Fold(all.out \o rest) = Fold(all.out) \o Fold(rest)
    <3>. HIDE DEF rest
    <3>1. QED
      BY <2>7, <2>8, FoldConcat, ConcatProperties
  <2>11. QED
    BY <2>7, <2>8, <2>9, <2>10 DEF FoldsAlike
<1>3. QED
  BY <1>1, <1>2 DEF FoldsAlike

(* So does canonicalize. *)
LEMMA CanonicalizeFolds ==
  ASSUME NEW U, OfTheCode \subseteq U, NEW t \in Seq(U), NEW pair,
         pair.old \in Seq(U), pair.new \in Seq(U), Fold(pair.old) = Fold(pair.new)
  PROVE  Canonicalize(t, pair) \in Seq(U) /\ Fold(Canonicalize(t, pair)) = Fold(t)
<1>. DEFINE old == pair.old
     new == pair.new
     top == <<"/workspace", "/">>
<1>1. top \in Seq(U)
  BY DEF OfTheCode
<1>2. old \in Seq(U) /\ new \in Seq(U) /\ Fold(old) = Fold(new)
  OBVIOUS
<1>3. InWorkspace(old) = top \o old /\ InWorkspace(new) = top \o new
  BY DEF InWorkspace
<1>. HIDE DEF old, new, top
<1>4. /\ InWorkspace(old) \in Seq(U) /\ InWorkspace(new) \in Seq(U)
      /\ Fold(InWorkspace(old)) = Fold(InWorkspace(new))
  <2>1. Fold(top \o old) = Fold(top) \o Fold(old) /\ Fold(top \o new) = Fold(top) \o Fold(new)
    BY <1>1, <1>2, FoldConcat
  <2>2. QED
    BY <1>1, <1>2, <1>3, <2>1, ConcatProperties
<1>. DEFINE once == ReplaceSource(t, InWorkspace(old), InWorkspace(new))
<1>5. FoldsAlike(U, once, t)
  BY <1>4, ReplaceFolds
<1>6. Canonicalize(t, pair) = ReplaceSource(once, old, new)
  BY DEF Canonicalize, old, new
<1>. HIDE DEF once
<1>7. FoldsAlike(U, ReplaceSource(once, old, new), once)
  <2>1. once \in Seq(U)
    BY <1>5 DEF FoldsAlike
  <2>2. QED
    BY <1>2, <2>1, ReplaceFolds
<1>8. QED
  BY <1>5, <1>6, <1>7 DEF FoldsAlike

(* Turning separators, of any characters, changes nothing in the folded text. *)
LEMMA TurnedFolds ==
  ASSUME NEW U, OfTheCode \subseteq U, NEW t \in Seq(U), NEW s,
         s = [i \in DOMAIN t |-> s[i]],
         \A i \in DOMAIN t : s[i] = t[i] \/ s[i] = Slash(t[i])
  PROVE  s \in Seq(U) /\ Fold(s) = Fold(t)
<1>. DEFINE N == Len(t)
<1>1. /\ N \in Nat /\ DOMAIN t = 1..N
      /\ \A i \in 1..N : t[i] \in U
  BY LenProperties, ElementOfSeq
<1>2. ASSUME NEW i \in 1..N PROVE s[i] \in U /\ FoldOf(s[i]) = FoldOf(t[i])
  BY <1>1, FoldOfIs
<1>3. s \in Seq(U) /\ Len(s) = N
  <2>1. s \in [1..N -> U]
    BY <1>1, <1>2
  <2>. HIDE DEF N
  <2>2. QED
    BY <1>1, <2>1
<1>4. PICK f \in [0..N -> Seq(U)] :
        /\ f[0] = <<>>
        /\ \A i \in 1..N : f[i] = f[i - 1] \o FoldOf(t[i])
        /\ Fold(t) = f[N]
  BY FoldDef
<1>5. PICK g \in [0..N -> Seq(U)] :
        /\ g[0] = <<>>
        /\ \A i \in 1..N : g[i] = g[i - 1] \o FoldOf(s[i])
        /\ Fold(s) = g[N]
  <2>1. \E g \in [0..Len(s) -> Seq(U)] :
        /\ g[0] = <<>>
        /\ \A i \in 1..Len(s) : g[i] = g[i - 1] \o FoldOf(s[i])
        /\ Fold(s) = g[Len(s)]
    BY <1>3, FoldDef
  <2>2. QED
    BY <1>3, <2>1
<1>. DEFINE T == {i \in 0..N : g[i] = f[i]}
<1>. HIDE DEF N
<1>6. 0 \in T
  BY <1>1, <1>4, <1>5
<1>7. ASSUME NEW i \in 0..N, i \in T, i < N PROVE i + 1 \in T
  <2>1. i + 1 \in 1..N /\ i + 1 \in 0..N /\ (i + 1) - 1 = i
    <3>. HIDE DEF T
    <3>1. QED
      BY <1>1, <1>7
  <2>2. f[i + 1] = f[(i + 1) - 1] \o FoldOf(t[i + 1])
    BY <1>4, <2>1, Zenon
  <2>3. g[i + 1] = g[(i + 1) - 1] \o FoldOf(s[i + 1])
    BY <1>5, <2>1, Zenon
  <2>4. g[i] = f[i]
    BY <1>7
  <2>5. FoldOf(s[i + 1]) = FoldOf(t[i + 1])
    BY <1>2, <2>1
  <2>6. g[i + 1] = f[i + 1]
    BY <2>1, <2>2, <2>3, <2>4, <2>5
  <2>7. QED
    BY <2>1, <2>6
<1>8. N \in T
  <2>1. T \in SUBSET (0..N) /\ N \in 0..N
    BY <1>1
  <2>. HIDE DEF T
  <2>2. QED
    BY <1>1, <1>6, <1>7, <2>1, InductionUpTo
<1>9. QED
  BY <1>3, <1>4, <1>5, <1>8

-----------------------------------------------------------------------------
(* Roots.                                                                  *)

(* An argument that begins with a root goes on until it stops. *)
LEMMA SuffixEndIs ==
  ASSUME NEW t, Len(t) \in Nat, NEW i \in 1..Len(t)
  PROVE  /\ SuffixEnd(t, i) \in i + 1..Len(t) + 1
         /\ \A k \in i + 1..SuffixEnd(t, i) - 1 : ~Stops(t, i, k)
<1>. DEFINE N == Len(t)
     T == {k \in i + 1..N + 1 : k > N \/ Stops(t, i, k)}
<1>1. N \in Nat /\ i \in Nat /\ N + 1 \in T
  OBVIOUS
<1>2. T \in SUBSET Nat /\ T # {}
  BY <1>1
<1>3. PICK n \in T : \A m \in T : n <= m
  <2>. HIDE DEF T
  <2>1. QED
    BY <1>2, LeastNat
<1>4. n \in i + 1..N + 1 /\ (n > N \/ Stops(t, i, n))
  BY <1>3
<1>5. ASSUME NEW m \in i + 1..n - 1 PROVE ~Stops(t, i, m)
  <2>1. m \in i + 1..N + 1 /\ ~(n <= m)
    <3>. HIDE DEF T, N
    <3>1. QED
      BY <1>1, <1>4
  <2>2. m \in T => n <= m
    <3>. HIDE DEF T
    <3>1. QED
      BY <1>3
  <2>3. QED
    BY <2>1, <2>2
<1>. DEFINE Ends(k) == /\ k > N \/ Stops(t, i, k)
                       /\ \A j \in i + 1..k - 1 : ~Stops(t, i, j)
<1>6. n \in i + 1..N + 1 /\ Ends(n)
  BY <1>4, <1>5
<1>7. SuffixEnd(t, i) = CHOOSE k \in i + 1..N + 1 : Ends(k)
  BY DEF SuffixEnd
<1>. HIDE DEF Ends
<1>8. SuffixEnd(t, i) \in i + 1..N + 1 /\ Ends(SuffixEnd(t, i))
  BY <1>6, <1>7
<1>9. QED
  BY <1>8 DEF Ends

\* s is a, b, x and c, one after the other.
Joins(U, s, a, b, x, c) ==
  /\ s \in Seq(U) /\ Len(s) = Len(a) + Len(b) + 1 + Len(c)
  /\ \A m \in 1..Len(a) + Len(b) + 1 + Len(c) :
       s[m] = IF m <= Len(a) THEN a[m]
              ELSE IF m <= Len(a) + Len(b) THEN b[m - Len(a)]
              ELSE IF m = Len(a) + Len(b) + 1 THEN x
              ELSE c[m - (Len(a) + Len(b) + 1)]

(* What stands where in a text that is put together. *)
LEMMA ThreeParts ==
  ASSUME NEW U, NEW a \in Seq(U), NEW b \in Seq(U), NEW x \in U, NEW c \in Seq(U)
  PROVE  Joins(U, a \o b \o <<x>> \o c, a, b, x, c)
<1>. DEFINE la == Len(a)
     lb == Len(b)
     lc == Len(c)
     ab == a \o b
     abx == ab \o <<x>>
     all == abx \o c
<1>1. la \in Nat /\ lb \in Nat /\ lc \in Nat /\ <<x>> \in Seq(U) /\ Len(<<x>>) = 1
      /\ <<x>>[1] = x
  BY LenProperties
<1>2. /\ ab \in Seq(U) /\ Len(ab) = la + lb
      /\ \A i \in 1..la + lb : ab[i] = IF i <= la THEN a[i] ELSE b[i - la]
  BY ConcatProperties
<1>. HIDE DEF ab
<1>3. /\ abx \in Seq(U) /\ Len(abx) = la + lb + 1
      /\ \A i \in 1..la + lb + 1 : abx[i] = IF i <= la + lb THEN ab[i] ELSE x
  <2>1. /\ abx \in Seq(U) /\ Len(abx) = Len(ab) + 1
        /\ \A i \in 1..Len(ab) + 1 : abx[i] = IF i <= Len(ab) THEN ab[i] ELSE <<x>>[i - Len(ab)]
    <3>. DEFINE one == <<x>>
    <3>1. one \in Seq(U) /\ Len(one) = 1
      BY <1>1
    <3>. HIDE DEF one, la, lb
    <3>2. /\ ab \o one \in Seq(U) /\ Len(ab \o one) = Len(ab) + Len(one)
          /\ \A i \in 1..Len(ab) + Len(one) :
               (ab \o one)[i] = IF i <= Len(ab) THEN ab[i] ELSE one[i - Len(ab)]
      BY <1>2, <3>1, ConcatProperties
    <3>3. QED
      BY <3>1, <3>2 DEF one
  <2>. HIDE DEF abx, la, lb
  <2>2. \A i \in 1..la + lb + 1 : ~(i <= la + lb) => i - (la + lb) = 1
    BY <1>1
  <2>3. QED
    BY <1>1, <1>2, <2>1, <2>2
<1>. HIDE DEF abx
<1>4. /\ all \in Seq(U) /\ Len(all) = la + lb + 1 + lc
      /\ \A i \in 1..la + lb + 1 + lc :
           all[i] = IF i <= la + lb + 1 THEN abx[i] ELSE c[i - (la + lb + 1)]
  <2>1. /\ all \in Seq(U) /\ Len(all) = Len(abx) + lc
        /\ \A i \in 1..Len(abx) + lc :
             all[i] = IF i <= Len(abx) THEN abx[i] ELSE c[i - Len(abx)]
    BY <1>3, ConcatProperties
  <2>. HIDE DEF all, la, lb, lc
  <2>2. QED
    BY <1>1, <1>3, <2>1
<1>. HIDE DEF all
<1>5. all = a \o b \o <<x>> \o c
  BY DEF all, abx, ab
<1>6. ASSUME NEW m \in 1..la + lb + 1 + lc
      PROVE  all[m] = IF m <= la THEN a[m]
                      ELSE IF m <= la + lb THEN b[m - la]
                      ELSE IF m = la + lb + 1 THEN x ELSE c[m - (la + lb + 1)]
  <2>1. m \in 1..la + lb + 1 + lc
    OBVIOUS
  <2>. HIDE DEF la, lb, lc
  <2>2. all[m] = IF m <= la + lb + 1 THEN abx[m] ELSE c[m - (la + lb + 1)]
    BY <1>4, <2>1
  <2>3. m \in 1..la + lb + 1 => abx[m] = IF m <= la + lb THEN ab[m] ELSE x
    BY <1>3
  <2>4. m \in 1..la + lb => ab[m] = IF m <= la THEN a[m] ELSE b[m - la]
    BY <1>2
  <2>5. /\ m <= la + lb + 1 => m \in 1..la + lb + 1
        /\ m <= la + lb => m \in 1..la + lb /\ m <= la + lb + 1
        /\ m <= la => m <= la + lb
        /\ m = la + lb + 1 => ~(m <= la + lb) /\ m <= la + lb + 1
        /\ m <= la + lb + 1 /\ ~(m <= la + lb) => m = la + lb + 1
    BY <1>1, <2>1
  <2>6. QED
    BY <2>2, <2>3, <2>4, <2>5
<1>7. QED
  BY <1>4, <1>5, <1>6 DEF Joins

\* How far one prefix has come: what is written is as long as what is read.
Progress(U, t) ==
  {acc \in [out : Seq(U), cursor : 1..Len(t) + 1] : Len(acc.out) = acc.cursor - 1}

\* A root at i whose argument is to be translated.
Begins(t, spellings, i) == t[i] \in spellings /\ Replaceable(t, i)

(* One place either changes nothing, or is a root: what is before it is copied,
   and it and the rest of its argument are translated. *)
LEMMA ScannedStep ==
  ASSUME NEW U, OfTheCode \subseteq U, NEW t \in Seq(U), NEW spellings,
         NEW acc \in Progress(U, t), NEW i \in 1..Len(t)
  PROVE  LET next == Scanned(t, spellings, acc, i)
             end == SuffixEnd(t, i)
         IN /\ next \in Progress(U, t)
            /\ i < acc.cursor \/ ~Begins(t, spellings, i) => next = acc
            /\ ~(i < acc.cursor) /\ Begins(t, spellings, i) =>
                 /\ next.cursor = end
                 /\ \A m \in 1..end - 1 :
                      next.out[m] = IF m < acc.cursor THEN acc.out[m]
                                    ELSE IF m < i THEN t[m]
                                    ELSE IF m = i THEN "/workspace"
                                    ELSE IF windows THEN Slash(t[m]) ELSE t[m]
<1>. DEFINE N == Len(t)
     next == Scanned(t, spellings, acc, i)
     end == SuffixEnd(t, i)
     part == SubSeq(t, acc.cursor, i - 1)
     suffix == SubSeq(t, i + 1, end - 1)
     turned == IF windows THEN Slashed(suffix) ELSE suffix
<1>1. /\ N \in Nat /\ acc.out \in Seq(U) /\ acc.cursor \in 1..N + 1
      /\ Len(acc.out) = acc.cursor - 1 /\ "/workspace" \in U
  BY LenProperties DEF Progress, OfTheCode
<1>2. CASE i < acc.cursor \/ ~Begins(t, spellings, i)
  <2>1. next = acc
    BY <1>2 DEF Scanned, Begins
  <2>2. QED
    BY <1>2, <2>1
<1>3. CASE ~(i < acc.cursor) /\ Begins(t, spellings, i)
  <2>1. next = [out |-> acc.out \o part \o <<"/workspace">> \o turned, cursor |-> end]
    BY <1>3 DEF Scanned, Begins
  <2>2. end \in i + 1..N + 1
    BY <1>1, SuffixEndIs
  <2>3. acc.cursor <= i /\ i - 1 \in 0..N /\ end - 1 \in 0..N
    <3>. HIDE DEF end
    <3>1. QED
      BY <1>1, <1>3, <2>2
  <2>. DEFINE c == acc.cursor
  <2>. HIDE DEF end
  <2>4. /\ part \in Seq(U) /\ Len(part) = i - c
        /\ \A m \in 1..i - c : part[m] = t[c + m - 1]
    <3>1. part \in Seq(U)
      BY <1>1, <2>3, PartTyped
    <3>2. c \in Int /\ i - 1 \in Int /\ \A m \in c..i - 1 : t[m] \in U
      <4>1. \A m \in c..i - 1 : m \in 1..N
        BY <1>1, <2>3
      <4>2. QED
        BY <1>1, <4>1, ElementOfSeq
    <3>3. /\ Len(part) = IF c <= i - 1 THEN (i - 1) - c + 1 ELSE 0
          /\ \A m \in 1..(i - 1) - c + 1 : part[m] = t[c + m - 1]
      BY <3>2, SubSeqProperties
    <3>. HIDE DEF part, c
    <3>4. /\ (i - 1) - c + 1 = i - c
          /\ (IF c <= i - 1 THEN (i - 1) - c + 1 ELSE 0) = i - c
      BY <1>1, <2>3, <3>2 DEF c
    <3>5. QED
      BY <3>1, <3>3, <3>4
  <2>5. /\ suffix \in Seq(U) /\ Len(suffix) = end - 1 - i
        /\ \A m \in 1..end - 1 - i : suffix[m] = t[i + m]
    <3>1. suffix \in Seq(U)
      BY <1>1, <2>3, PartTyped
    <3>2. i + 1 \in Int /\ end - 1 \in Int /\ \A m \in i + 1..end - 1 : t[m] \in U
      <4>1. \A m \in i + 1..end - 1 : m \in 1..N
        BY <1>1, <2>2
      <4>2. QED
        BY <1>1, <2>2, <4>1, ElementOfSeq
    <3>3. /\ Len(suffix) = IF i + 1 <= end - 1 THEN (end - 1) - (i + 1) + 1 ELSE 0
          /\ \A m \in 1..(end - 1) - (i + 1) + 1 : suffix[m] = t[(i + 1) + m - 1]
      BY <3>2, SubSeqProperties
    <3>. HIDE DEF suffix
    <3>4. /\ (end - 1) - (i + 1) + 1 = end - 1 - i
          /\ (IF i + 1 <= end - 1 THEN (end - 1) - (i + 1) + 1 ELSE 0) = end - 1 - i
          /\ \A m \in 1..end - 1 - i : (i + 1) + m - 1 = i + m
      BY <1>1, <2>2
    <3>5. QED
      BY <3>1, <3>3, <3>4
  <2>. HIDE DEF part, suffix
  <2>6. /\ turned \in Seq(U) /\ Len(turned) = end - 1 - i
        /\ \A m \in 1..end - 1 - i : turned[m] = IF windows THEN Slash(t[i + m]) ELSE t[i + m]
    <3>1. /\ DOMAIN suffix = 1..end - 1 - i /\ \A m \in 1..end - 1 - i : Slash(suffix[m]) \in U
          /\ end - 1 - i \in Nat
      <4>1. DOMAIN suffix = 1..Len(suffix) /\ Len(suffix) \in Nat
            /\ \A m \in 1..Len(suffix) : suffix[m] \in U
        BY <2>5, LenProperties, ElementOfSeq
      <4>2. QED
        BY <2>5, <4>1, FoldOfIs
    <3>2. Slashed(suffix) = [m \in 1..end - 1 - i |-> Slash(suffix[m])]
      BY <3>1 DEF Slashed
    <3>. DEFINE L == end - 1 - i
    <3>3. L \in Nat /\ L = end - 1 - i
      BY <3>1
    <3>4. /\ Slashed(suffix) \in Seq(U) /\ Len(Slashed(suffix)) = L
          /\ \A m \in 1..L : Slashed(suffix)[m] = Slash(suffix[m])
      <4>. HIDE DEF L
      <4>1. Slashed(suffix) \in [1..L -> U]
        BY <3>1, <3>2, <3>3
      <4>2. QED
        BY <3>2, <3>3, <4>1
    <3>5. QED
      BY <2>5, <3>4
  <2>. HIDE DEF turned
  <2>. DEFINE new == acc.out \o part \o <<"/workspace">> \o turned
  <2>. DEFINE out == acc.out
  <2>7. /\ Len(out) + Len(part) = i - 1
        /\ Len(out) + Len(part) + 1 = i
        /\ Len(out) + Len(part) + 1 + Len(turned) = end - 1
        /\ c \in Nat /\ end \in Nat /\ i \in Nat /\ end > i /\ c <= i
        /\ Len(out) = c - 1 /\ out \in Seq(U)
    <3>1. /\ c \in 1..N + 1 /\ c <= i /\ Len(out) = c - 1 /\ Len(part) = i - c
          /\ Len(turned) = end - 1 - i /\ out \in Seq(U)
      BY <1>1, <2>3, <2>4, <2>6
    <3>. HIDE DEF c, out
    <3>2. QED
      BY <1>1, <2>2, <3>1
  <2>8. /\ new \in Seq(U) /\ Len(new) = end - 1
        /\ \A m \in 1..end - 1 :
             new[m] = IF m < c THEN acc.out[m]
                      ELSE IF m < i THEN t[m]
                      ELSE IF m = i THEN "/workspace"
                      ELSE IF windows THEN Slash(t[m]) ELSE t[m]
    <3>. HIDE DEF c, out
    <3>. DEFINE w == "/workspace"
    <3>0. w \in U
      BY <1>1
    <3>. HIDE DEF w
    <3>1. Joins(U, out \o part \o <<w>> \o turned, out, part, w, turned)
      BY <2>4, <2>6, <2>7, <3>0, ThreeParts
    <3>5. new = out \o part \o <<w>> \o turned
      BY DEF out, w
    <3>. HIDE DEF new
    <3>3. new \in Seq(U) /\ Len(new) = end - 1
      BY <2>7, <3>1, <3>5 DEF Joins
    <3>4. ASSUME NEW m \in 1..end - 1
          PROVE  new[m] = IF m < c THEN out[m]
                          ELSE IF m < i THEN t[m]
                          ELSE IF m = i THEN "/workspace"
                          ELSE IF windows THEN Slash(t[m]) ELSE t[m]
      <4>1. new[m] = IF m <= Len(out) THEN out[m]
                     ELSE IF m <= i - 1 THEN part[m - Len(out)]
                     ELSE IF m = i THEN w
                     ELSE turned[m - i]
        BY <2>7, <3>1, <3>5 DEF Joins
      <4>2. /\ m <= Len(out) <=> m < c
            /\ m <= i - 1 <=> m < i
            /\ ~(m < c) /\ m < i =>
                 m - Len(out) \in 1..i - c /\ c + (m - Len(out)) - 1 = m
            /\ ~(m < i) /\ m # i => m - i \in 1..end - 1 - i /\ i + (m - i) = m
        BY <2>7
      <4>3. ~(m < c) /\ m < i => part[m - Len(out)] = t[m]
        <5>1. \A k \in 1..i - c : part[k] = t[c + k - 1]
          BY <2>4 DEF c
        <5>2. QED
          BY <4>2, <5>1
      <4>4. ~(m < i) /\ m # i => turned[m - i] = IF windows THEN Slash(t[m]) ELSE t[m]
        BY <2>6, <4>2
      <4>5. QED
        BY <4>1, <4>2, <4>3, <4>4 DEF w
    <3>6. QED
      BY <3>3, <3>4 DEF out
  <2>. HIDE DEF new
  <2>9. next.out = new /\ next.cursor = end /\ next = [out |-> new, cursor |-> end]
    BY <2>1 DEF new
  <2>10. next \in Progress(U, t)
    <3>1. end \in 1..N + 1
      BY <1>1, <2>2
    <3>2. QED
      BY <2>8, <2>9, <3>1 DEF Progress
  <2>. HIDE DEF next
  <2>11. QED
    BY <1>3, <2>8, <2>9, <2>10 DEF next, end, c
<1>4. QED
  BY <1>2, <1>3

\* The root at j is translated in r, and so is i, behind it in its argument.
Moved(t, spellings, r, j) == t[j] \in spellings /\ r[j] = "/workspace"
Behind(t, spellings, r, i) ==
  \E j \in 1..i - 1 : Moved(t, spellings, r, j) /\ i < SuffixEnd(t, j)

\* What one prefix makes of a text.
Passed(t, spellings, r, i) ==
  /\ \/ Moved(t, spellings, r, i) /\ Begins(t, spellings, i)
     \/ r[i] = t[i]
     \/ windows /\ r[i] = Slash(t[i]) /\ Behind(t, spellings, r, i)
  /\ Begins(t, spellings, i) => Moved(t, spellings, r, i) \/ Behind(t, spellings, r, i)

(* A pass is what its scan, place by place, has come to at the end. *)
LEMMA PassDef ==
  ASSUME NEW U, OfTheCode \subseteq U, NEW t \in Seq(U), NEW spellings
  PROVE  \E upTo \in [0..Len(t) -> Progress(U, t)] :
           /\ upTo[0] = [out |-> <<>>, cursor |-> 1]
           /\ \A i \in 1..Len(t) : upTo[i] = Scanned(t, spellings, upTo[i - 1], i)
           /\ Pass(t, spellings) =
                upTo[Len(t)].out \o SubSeq(t, upTo[Len(t)].cursor, Len(t))
<1>. DEFINE N == Len(t)
     A == Progress(U, t)
     start == [out |-> <<>>, cursor |-> 1]
     next == [p \in Nat \X A |->
                IF p[1] + 1 \in 1..N THEN Scanned(t, spellings, p[2], p[1] + 1) ELSE p[2]]
     Body(g) == [i \in 0..N |-> IF i = 0 THEN start ELSE Scanned(t, spellings, g[i - 1], i)]
     g == CHOOSE g : g = Body(g)
<1>1. N \in Nat /\ start \in A
  BY EmptySeq, LenProperties DEF Progress
<1>0. \A acc \in A : \A i \in 1..N : Scanned(t, spellings, acc, i) \in A
  BY ScannedStep
<1>. HIDE DEF A, start
<1>2. next \in [Nat \X A -> A]
  <2>1. \A p \in Nat \X A : p[2] \in A
    OBVIOUS
  <2>. HIDE DEF N
  <2>2. QED
    BY <1>0, <2>1
<1>3. PICK f \in [0..N -> A] :
        f[0] = start /\ \A i \in 1..N : f[i] = next[<<i - 1, f[i - 1]>>]
  <2>. HIDE DEF next, N
  <2>1. \E f : Unfolds(f, N, A, start, next)
    BY <1>1, <1>2, Recursion
  <2>2. QED
    BY <2>1 DEF Unfolds
<1>4. ASSUME NEW i \in 1..N
      PROVE  f[i] = Scanned(t, spellings, f[i - 1], i)
  <2>1. i - 1 \in 0..N /\ i - 1 \in Nat /\ (i - 1) + 1 = i
    BY <1>1
  <2>2. <<i - 1, f[i - 1]>> \in Nat \X A
    BY <1>3, <2>1
  <2>. HIDE DEF N
  <2>3. QED
    BY <1>3, <2>1, <2>2
<1>5. f = Body(f)
  <2>. HIDE DEF N
  <2>1. ASSUME NEW i \in 0..N PROVE f[i] = Body(f)[i]
    <3>1. i = 0 \/ i \in 1..N
      BY <1>1
    <3>2. QED
      BY <1>3, <1>4, <3>1
  <2>2. QED
    BY <1>3, <2>1
<1>6. g = Body(g)
  BY <1>5
<1>7. Pass(t, spellings) = g[N].out \o SubSeq(t, g[N].cursor, N)
  BY DEF Pass, start
<1>. HIDE DEF g
<1>8. g[0] = start /\ \A i \in 1..N : g[i] = Scanned(t, spellings, g[i - 1], i)
  <2>1. 0 \in 0..N /\ \A i \in 1..N : i \in 0..N /\ i # 0
    BY <1>1
  <2>. HIDE DEF N
  <2>2. \A i \in 0..N : g[i] = Body(g)[i]
    BY <1>6
  <2>3. g[0] = Body(g)[0]
    BY <2>1, <2>2
  <2>4. \A i \in 1..N : g[i] = Body(g)[i]
    BY <2>1, <2>2
  <2>5. QED
    BY <2>1, <2>3, <2>4
<1>9. g \in [0..N -> A]
  <2>. DEFINE T == {i \in 0..N : g[i] \in A}
  <2>. HIDE DEF N
  <2>1. 0 \in T
    BY <1>1, <1>8
  <2>2. ASSUME NEW i \in 0..N, i \in T, i < N PROVE i + 1 \in T
    <3>1. i + 1 \in 1..N /\ i + 1 \in 0..N /\ (i + 1) - 1 = i
      <4>. HIDE DEF T
      <4>1. QED
        BY <1>1, <2>2
    <3>2. g[i] \in A
      BY <2>2
    <3>3. g[i + 1] = Scanned(t, spellings, g[(i + 1) - 1], i + 1)
      BY <1>8, <3>1, Zenon
    <3>4. Scanned(t, spellings, g[i], i + 1) \in A
      BY <1>0, <3>1, <3>2
    <3>5. QED
      BY <3>1, <3>3, <3>4
  <2>3. T = 0..N
    <3>1. T \in SUBSET (0..N)
      OBVIOUS
    <3>. HIDE DEF T
    <3>2. QED
      BY <1>1, <2>1, <2>2, <3>1, InductionUpTo
  <2>4. g = [i \in 0..N |-> g[i]]
    BY <1>6
  <2>5. QED
    BY <2>3, <2>4
<1>10. QED
  BY <1>7, <1>8, <1>9 DEF A, start

(* One prefix: every root that begins an argument is translated, or is in the
   rest of an argument that began before it; nothing else is. *)
LEMMA PassProperties ==
  ASSUME NEW U, OfTheCode \subseteq U, NEW t \in Seq(U), NEW spellings
  PROVE  /\ Pass(t, spellings) \in Seq(U) /\ Len(Pass(t, spellings)) = Len(t)
         /\ \A i \in 1..Len(t) : Passed(t, spellings, Pass(t, spellings), i)
<1>. DEFINE N == Len(t)
     M(r, j) == Moved(t, spellings, r, j)
     B(r, i) == Behind(t, spellings, r, i)
     H(i) == Begins(t, spellings, i)
<1>0. \E upTo \in [0..Len(t) -> Progress(U, t)] :
        /\ upTo[0] = [out |-> <<>>, cursor |-> 1]
        /\ \A i \in 1..Len(t) : upTo[i] = Scanned(t, spellings, upTo[i - 1], i)
        /\ Pass(t, spellings) = upTo[Len(t)].out \o SubSeq(t, upTo[Len(t)].cursor, Len(t))
  BY PassDef, ZenonT(60)
<1>1. PICK f \in [0..N -> Progress(U, t)] :
        /\ f[0] = [out |-> <<>>, cursor |-> 1]
        /\ \A i \in 1..N : f[i] = Scanned(t, spellings, f[i - 1], i)
        /\ Pass(t, spellings) = f[N].out \o SubSeq(t, f[N].cursor, N)
  BY <1>0
<1>2. N \in Nat /\ 0 \in 0..N /\ N \in 0..N
  BY LenProperties
<1>3. \A i \in 0..N : /\ f[i].out \in Seq(U) /\ f[i].cursor \in 1..N + 1
                      /\ Len(f[i].out) = f[i].cursor - 1
  BY <1>1 DEF Progress
\* What is written, and what is read, after i.
<1>. DEFINE Good(i) ==
       /\ \A m \in 1..f[i].cursor - 1 :
            \/ M(f[i].out, m) /\ H(m)
            \/ f[i].out[m] = t[m]
            \/ windows /\ f[i].out[m] = Slash(t[m]) /\ B(f[i].out, m)
       /\ \A m \in 1..N : (m <= i \/ m < f[i].cursor) /\ H(m) =>
            m < f[i].cursor /\ (M(f[i].out, m) \/ B(f[i].out, m))
     T == {i \in 0..N : Good(i)}
<1>4. 0 \in T
  <2>1. f[0].cursor = 1
    BY <1>1
  <2>2. \A m \in 1..N : ~(m <= 0 \/ m < 1)
    OBVIOUS
  <2>3. \A m \in 1..1 - 1 : FALSE
    OBVIOUS
  <2>. HIDE DEF M, B, H
  <2>4. Good(0)
    BY <2>1, <2>2, <2>3
  <2>5. QED
    BY <1>2, <2>4
<1>5. ASSUME NEW n \in 0..N, n \in T, n < N PROVE n + 1 \in T
  <2>. DEFINE i == n + 1
       acc == f[n]
       new == f[i]
       end == SuffixEnd(t, i)
       c == acc.cursor
  <2>1. i \in 1..N /\ i \in 0..N /\ i - 1 = n /\ n \in Nat /\ i \in Nat
    <3>. HIDE DEF T
    <3>1. QED
      BY <1>2, <1>5
  <2>2. Good(n)
    BY <1>5
  <2>3. /\ new \in Progress(U, t)
        /\ i < c \/ ~H(i) => new = acc
        /\ ~(i < c) /\ H(i) =>
             /\ new.cursor = end
             /\ \A m \in 1..end - 1 :
                  new.out[m] = IF m < c THEN acc.out[m]
                               ELSE IF m < i THEN t[m]
                               ELSE IF m = i THEN "/workspace"
                               ELSE IF windows THEN Slash(t[m]) ELSE t[m]
    <3>1. new = Scanned(t, spellings, acc, i)
      <4>1. new = Scanned(t, spellings, f[i - 1], i)
        BY <1>1, <2>1, Zenon
      <4>2. QED
        BY <2>1, <4>1
    <3>2. acc \in Progress(U, t)
      BY <1>1
    <3>. HIDE DEF i, acc, new
    <3>3. QED
      BY <2>1, <3>1, <3>2, ScannedStep
  <2>4. c \in 1..N + 1 /\ end \in i + 1..N + 1
    <3>1. c \in 1..N + 1
      BY <1>3
    <3>2. end \in i + 1..N + 1
      BY <1>2, <2>1, SuffixEndIs
    <3>3. QED
      BY <3>1, <3>2
  <2>. DEFINE Goes(r, k) ==
         /\ \A m \in 1..k - 1 :
              \/ M(r, m) /\ H(m)
              \/ r[m] = t[m]
              \/ windows /\ r[m] = Slash(t[m]) /\ B(r, m)
         /\ \A m \in 1..N : (m <= i \/ m < k) /\ H(m) =>
              m < k /\ (M(r, m) \/ B(r, m))
  <2>5. CASE i < c \/ ~H(i)
    <3>1. new = acc
      BY <2>3, <2>5
    <3>2. Goes(acc.out, c)
      <4>1. \A m \in 1..N : m <= i => m <= n \/ m = i
        BY <2>1
      <4>. HIDE DEF M, B, H
      <4>2. ASSUME NEW m \in 1..N, m <= i \/ m < c, H(m)
            PROVE  m < c /\ (M(acc.out, m) \/ B(acc.out, m))
        <5>1. m <= n \/ m < c
          <6>. HIDE DEF i, c, Good, Goes
          <6>1. QED
            BY <2>5, <4>1, <4>2
        <5>2. QED
          BY <2>2, <4>2, <5>1
      <4>3. QED
        BY <2>2, <4>2
    <3>3. Good(i)
      BY <3>1, <3>2
    <3>4. QED
      BY <2>1, <3>3
  <2>6. CASE ~(i < c) /\ H(i)
    <3>1. /\ new.cursor = end
          /\ \A m \in 1..end - 1 :
                  new.out[m] = IF m < c THEN acc.out[m]
                               ELSE IF m < i THEN t[m]
                               ELSE IF m = i THEN "/workspace"
                               ELSE IF windows THEN Slash(t[m]) ELSE t[m]
      BY <2>3, <2>6
    <3>. DEFINE r == new.out
         old == acc.out
    <3>2. /\ \A m \in 1..c - 1 : m \in 1..end - 1 /\ m < c
          /\ c <= i /\ i \in 1..end - 1
      <4>. HIDE DEF i, c, end
      <4>1. QED
        BY <1>2, <2>1, <2>4, <2>6
    <3>3. \A m \in 1..c - 1 : r[m] = old[m]
      BY <3>1, <3>2
    <3>4. \A m \in 1..c - 1 : (M(old, m) => M(r, m)) /\ (B(old, m) => B(r, m))
      <4>1. ASSUME NEW m \in 1..c - 1 PROVE M(old, m) => M(r, m)
        BY <3>3 DEF Moved
      <4>2. ASSUME NEW m \in 1..c - 1, B(old, m) PROVE B(r, m)
        <5>1. PICK j \in 1..m - 1 : Moved(t, spellings, old, j) /\ m < SuffixEnd(t, j)
          BY <4>2 DEF Behind
        <5>2. j \in 1..c - 1
          BY <2>4
        <5>3. Moved(t, spellings, r, j)
          BY <4>1, <5>1, <5>2
        <5>4. QED
          BY <5>1, <5>3 DEF Behind
      <4>3. QED
        BY <4>1, <4>2
    <3>5. M(r, i)
      <4>1. ~(i < c) /\ ~(i < i)
        BY <2>1, <2>6
      <4>2. r[i] = "/workspace"
        BY <3>1, <3>2, <4>1
      <4>3. QED
        BY <2>6, <4>2 DEF Moved, Begins
    <3>6. ASSUME NEW m \in i + 1..end - 1 PROVE B(r, m)
      <4>1. i \in 1..m - 1 /\ m < SuffixEnd(t, i)
        BY <2>1, <2>4
      <4>2. QED
        BY <3>5, <4>1 DEF Behind
    <3>. HIDE DEF r, old
    <3>7. Goes(r, end)
      <4>1. ASSUME NEW m \in 1..end - 1
            PROVE  \/ M(r, m) /\ H(m)
                   \/ r[m] = t[m]
                   \/ windows /\ r[m] = Slash(t[m]) /\ B(r, m)
        <5>1. CASE m < c
          <6>1. m \in 1..c - 1
            BY <2>4, <5>1
          <6>. HIDE DEF M, B, H
          <6>2. \/ M(old, m) /\ H(m)
                \/ old[m] = t[m]
                \/ windows /\ old[m] = Slash(t[m]) /\ B(old, m)
            BY <2>2, <6>1 DEF old
          <6>3. QED
            BY <3>3, <3>4, <6>1, <6>2
        <5>2. CASE ~(m < c) /\ m < i
          BY <3>1, <5>2 DEF r
        <5>3. CASE m = i
          BY <2>6, <3>5, <5>3
        <5>4. CASE ~(m < c) /\ ~(m < i) /\ m # i
          <6>1. m \in i + 1..end - 1
            BY <2>1, <2>4, <5>4
          <6>2. B(r, m)
            BY <3>6, <6>1
          <6>3. r[m] = IF windows THEN Slash(t[m]) ELSE t[m]
            BY <3>1, <5>4 DEF r
          <6>. HIDE DEF M, B, H
          <6>4. QED
            BY <6>2, <6>3
        <5>5. c <= i /\ m \in Int /\ c \in Int /\ i \in Int
          BY <2>1, <2>4, <3>2
        <5>. HIDE DEF M, B, H, c, i, end
        <5>6. QED
          BY <5>1, <5>2, <5>3, <5>4, <5>5
      <4>2. ASSUME NEW m \in 1..N, m <= i \/ m < end, H(m)
            PROVE  m < end /\ (M(r, m) \/ B(r, m))
        <5>1. m < end
          BY <2>1, <2>4, <4>2
        <5>2. CASE m < i
          <6>1. m <= n /\ m \in 1..N
            BY <2>1, <5>2
          <6>. HIDE DEF M, B, H
          <6>2. m < c /\ (M(old, m) \/ B(old, m))
            BY <2>2, <4>2, <6>1 DEF old
          <6>3. m \in 1..c - 1
            BY <2>4, <6>2
          <6>4. QED
            BY <3>4, <5>1, <6>2, <6>3
        <5>3. CASE m = i
          BY <3>5, <5>1, <5>3
        <5>4. CASE m > i
          <6>1. m \in i + 1..end - 1
            BY <2>1, <2>4, <5>1, <5>4
          <6>2. QED
            BY <3>6, <5>1, <6>1
        <5>5. m < i \/ m = i \/ m > i
          BY <2>1
        <5>6. QED
          BY <5>2, <5>3, <5>4, <5>5
      <4>3. QED
        BY <4>1, <4>2
    <3>8. Good(i)
      BY <3>1, <3>7 DEF r
    <3>9. QED
      BY <2>1, <3>8
  <2>7. QED
    BY <2>5, <2>6
<1>6. Good(N)
  <2>1. T \in SUBSET (0..N)
    OBVIOUS
  <2>. HIDE DEF T
  <2>2. T = 0..N
    BY <1>2, <1>4, <1>5, <2>1, InductionUpTo
  <2>3. N \in T
    BY <1>2, <2>2
  <2>4. QED
    BY <2>3 DEF T
<1>. DEFINE out == f[N].out
     c == f[N].cursor
     rest == SubSeq(t, c, N)
     r == out \o rest
<1>7. /\ out \in Seq(U) /\ c \in 1..N + 1 /\ Len(out) = c - 1
  BY <1>2, <1>3
<1>8. /\ rest \in Seq(U) /\ Len(rest) = N - c + 1
      /\ \A m \in 1..N - c + 1 : rest[m] = t[c + m - 1]
  <2>1. c \in Int /\ N \in Int /\ \A m \in c..N : t[m] \in U
    <3>1. \A m \in c..N : m \in 1..N
      BY <1>2, <1>7
    <3>2. QED
      BY <1>2, <1>7, <3>1, ElementOfSeq
  <2>2. /\ rest \in Seq(U) /\ Len(rest) = IF c <= N THEN N - c + 1 ELSE 0
        /\ \A m \in 1..N - c + 1 : rest[m] = t[c + m - 1]
    BY <2>1, SubSeqProperties
  <2>3. (IF c <= N THEN N - c + 1 ELSE 0) = N - c + 1
    BY <1>2, <1>7
  <2>4. QED
    BY <2>2, <2>3
<1>9. r = Pass(t, spellings)
  BY <1>1
<1>10. /\ r \in Seq(U) /\ Len(r) = N
       /\ \A m \in 1..N : r[m] = IF m < c THEN out[m] ELSE t[m]
  <2>. HIDE DEF out, rest, c
  <2>1. /\ r \in Seq(U) /\ Len(r) = Len(out) + Len(rest)
        /\ \A m \in 1..Len(out) + Len(rest) :
             r[m] = IF m <= Len(out) THEN out[m] ELSE rest[m - Len(out)]
    BY <1>7, <1>8, ConcatProperties
  <2>. HIDE DEF r
  <2>2. Len(out) + Len(rest) = N
    BY <1>2, <1>7, <1>8
  <2>3. ASSUME NEW m \in 1..N PROVE r[m] = IF m < c THEN out[m] ELSE t[m]
    <3>1. r[m] = IF m <= Len(out) THEN out[m] ELSE rest[m - Len(out)]
      BY <2>1, <2>2
    <3>2. (m <= Len(out) <=> m < c)
          /\ (~(m < c) => m - Len(out) \in 1..N - c + 1 /\ c + (m - Len(out)) - 1 = m)
      BY <1>2, <1>7
    <3>3. ~(m < c) => rest[m - Len(out)] = t[m]
      BY <1>8, <3>2
    <3>4. QED
      BY <3>1, <3>2, <3>3
  <2>4. QED
    BY <2>1, <2>2, <2>3
<1>11. \A m \in 1..c - 1 : /\ m \in 1..N /\ r[m] = out[m]
                           /\ M(out, m) => M(r, m)
                           /\ B(out, m) => B(r, m)
  <2>1. ASSUME NEW m \in 1..c - 1 PROVE m \in 1..N /\ m < c
    BY <1>2, <1>7
  <2>2. ASSUME NEW m \in 1..c - 1 PROVE r[m] = out[m]
    BY <1>10, <2>1
  <2>. HIDE DEF r, out
  <2>3. ASSUME NEW m \in 1..c - 1 PROVE M(out, m) => M(r, m)
    BY <2>2 DEF Moved
  <2>4. ASSUME NEW m \in 1..c - 1, B(out, m) PROVE B(r, m)
    <3>1. PICK j \in 1..m - 1 : Moved(t, spellings, out, j) /\ m < SuffixEnd(t, j)
      BY <2>4 DEF Behind
    <3>2. j \in 1..c - 1
      BY <1>2, <1>7
    <3>3. Moved(t, spellings, r, j)
      BY <2>3, <3>1, <3>2
    <3>4. QED
      BY <3>1, <3>3 DEF Behind
  <2>5. QED
    BY <2>1, <2>2, <2>3, <2>4
<1>12. ASSUME NEW m \in 1..N PROVE Passed(t, spellings, r, m)
  <2>1. /\ m \in 1..c - 1 =>
             \/ M(out, m) /\ H(m)
             \/ out[m] = t[m]
             \/ windows /\ out[m] = Slash(t[m]) /\ B(out, m)
        /\ H(m) => m < c /\ (M(out, m) \/ B(out, m))
    <3>1. m <= N
      BY <1>2
    <3>. HIDE DEF M, B, H
    <3>2. QED
      BY <1>6, <3>1
  <2>2. m < c => m \in 1..c - 1
    BY <1>7
  <2>3. ~(m < c) => r[m] = t[m]
    BY <1>10
  <2>. HIDE DEF r, out, c, M, B, H
  <2>4. /\ \/ M(r, m) /\ H(m)
           \/ r[m] = t[m]
           \/ windows /\ r[m] = Slash(t[m]) /\ B(r, m)
        /\ H(m) => M(r, m) \/ B(r, m)
    BY <1>11, <2>1, <2>2, <2>3
  <2>5. QED
    BY <2>4 DEF Passed, M, B, H
<1>13. QED
  BY <1>9, <1>10, <1>12

-----------------------------------------------------------------------------
(* All prefixes.                                                           *)

Marks == {" ", "\"", "'", "=", ",", ":", "-I", "-", "/", "/workspace"}

\* What may become of a symbol: a root is translated, a separator is turned.
Becomes(c, d) ==
  \/ c \in Spellings /\ d = "/workspace"
  \/ d = c
  \/ windows /\ d = Slash(c)

(* No symbol that the code looks for comes or goes. *)
LEMMA BecomesLike ==
  ASSUME WellFormed, windows \in BOOLEAN, NEW c, NEW d, Becomes(c, d)
  PROVE  /\ c \in Marks \cup Letters => d = c
         /\ d \in {" ", "\"", "'", "=", ",", ":", "\\"} => c = d
         /\ d \in Spellings => c \in Spellings /\ d # "/workspace"
         /\ c \in Spellings => d \in Spellings \cup {"/workspace"} /\ d \notin (Marks \ {"/workspace"}) \cup Letters
         /\ Follows(c) => Follows(d)
         /\ ~(c \in Spellings /\ d = "/workspace") /\ Follows(d) => Follows(c)
<1>1. /\ Spellings \cap ({" ", "\"", "'", "=", ",", ":", "-I", "-", "\\", "/", "/workspace"}
                          \cup Letters) = {}
      /\ windows => ("C:/W" \in Spellings <=> "C:\\W" \in Spellings)
      /\ Letters \cap {"\\", "C:\\W", "/workspace"} = {}
  BY DEF WellFormed, Spellings
<1>2. Slash(c) = IF c = "\\" THEN "/" ELSE IF c = "C:\\W" THEN "C:/W" ELSE c
  BY DEF Slash, Turned
<1>3. c \in Marks \cup Letters => d = c
  BY <1>1, <1>2 DEF Becomes, Marks
<1>4. d \in {" ", "\"", "'", "=", ",", ":", "\\"} => c = d
  BY <1>1, <1>2 DEF Becomes
<1>5. d \in Spellings => c \in Spellings /\ d # "/workspace"
  BY <1>1, <1>2 DEF Becomes
<1>6. c \in Spellings => d \in Spellings \cup {"/workspace"} /\ d \notin (Marks \ {"/workspace"}) \cup Letters
  BY <1>1, <1>2 DEF Becomes, Marks
<1>7. Follows(c) => Follows(d)
  BY <1>1, <1>2 DEF Becomes, Follows, Blank, Quotes
<1>8. ~(c \in Spellings /\ d = "/workspace") /\ Follows(d) => Follows(c)
  BY <1>1, <1>2 DEF Becomes, Follows, Blank, Quotes
<1>9. QED
  BY <1>3, <1>4, <1>5, <1>6, <1>7, <1>8

\* The root at i is translated; i is behind such a root, in its argument.
Translated(t, r, i) == t[i] \in Spellings /\ r[i] = "/workspace"
Covered(t, r, i) ==
  \E j \in 1..i - 1 : Translated(t, r, j) /\ \A k \in j + 1..i : ~Stops(t, j, k)

\* What any number of prefixes makes of a text, and what they have looked for.
Kept(t, r) ==
  /\ Len(r) = Len(t)
  /\ \A i \in 1..Len(t) :
       /\ \/ Translated(t, r, i)
          \/ r[i] = t[i]
          \/ windows /\ r[i] = Slash(t[i]) /\ Covered(t, r, i)
       /\ Translated(t, r, i) =>
            /\ i = Len(t) \/ Follows(t[i + 1])
            /\ i = 1 \/ t[i - 1] \notin Spellings
Sought(t, r, spellings) ==
  \A i \in 1..Len(t) : Begins(t, spellings, i) => Translated(t, r, i) \/ Covered(t, r, i)

(* Where an argument begins and ends can be seen in the one as in the other. *)
LEMMA LooksAlike ==
  ASSUME WellFormed, windows \in BOOLEAN, NEW t, NEW r, Len(t) \in Nat,
         \A i \in 1..Len(t) : Becomes(t[i], r[i]), Len(r) = Len(t), NEW i \in 1..Len(t)
  PROVE  /\ Replaceable(t, i) => Replaceable(r, i)
         /\ \A k \in i + 1..Len(t) : Stops(t, i, k) => Stops(r, i, k)
<1>. DEFINE N == Len(t)
<1>1. \A m \in 1..N : /\ t[m] \in Marks \cup Letters => r[m] = t[m]
                      /\ r[m] \in {" ", "\"", "'", "=", ",", ":", "\\"} => t[m] = r[m]
                      /\ Follows(t[m]) => Follows(r[m])
  BY BecomesLike
<1>2. N \in Nat /\ i \in Nat /\ i <= N /\ i >= 1
  OBVIOUS
<1>3. (i # 1 => i > 1 /\ i - 1 \in 1..N) /\ (i > 1 => i - 1 \in 1..N)
  BY <1>2
<1>4. ASSUME Replaceable(t, i) PROVE Replaceable(r, i)
  <2>1. i = N \/ Follows(r[i + 1])
    <3>1. i = N \/ Follows(t[i + 1])
      BY <1>4 DEF Replaceable
    <3>2. i = N \/ i + 1 \in 1..N
      BY <1>2
    <3>3. QED
      BY <1>1, <3>1, <3>2
  <2>2. \/ i = 1 \/ t[i - 1] \in Blank \cup Quotes \cup {"=", ",", ":"} \/ JoinedFlag(t, i)
    BY <1>4 DEF Replaceable
  <2>3. CASE i # 1 /\ t[i - 1] \in Blank \cup Quotes \cup {"=", ",", ":"}
    <3>1. i - 1 \in 1..N
      BY <1>3, <2>3
    <3>2. r[i - 1] = t[i - 1]
      BY <1>1, <2>3, <3>1 DEF Blank, Quotes, Marks
    <3>3. QED
      BY <2>1, <2>3, <3>2 DEF Replaceable
  <2>4. CASE JoinedFlag(t, i)
    <3>1. PICK j \in 1..i - 1 :
            /\ t[j] = "-I" \/ (t[j] = "-" /\ t[j + 1] \in Letters \ {"-", "-I"})
            /\ j = 1 \/ t[j - 1] \in Blank
            /\ \A k \in j + 1..i - 1 : t[k] \in Letters
      BY <2>4 DEF JoinedFlag
    <3>2. /\ j \in 1..N /\ j + 1 \in 1..N /\ (j = 1 \/ j - 1 \in 1..N)
          /\ \A k \in j + 1..i - 1 : k \in 1..N
      BY <1>2
    <3>3. t[j] \in Marks => r[j] = t[j]
      BY <1>1, <3>2
    <3>4. "-I" \in Marks /\ "-" \in Marks
      BY DEF Marks
    <3>5. t[j + 1] \in Letters => r[j + 1] = t[j + 1]
      BY <1>1, <3>2
    <3>6. j = 1 \/ r[j - 1] \in Blank
      BY <1>1, <3>1, <3>2 DEF Blank, Marks
    <3>7. \A k \in j + 1..i - 1 : r[k] \in Letters
      BY <1>1, <3>1, <3>2
    <3>8. r[j] = "-I" \/ (r[j] = "-" /\ r[j + 1] \in Letters \ {"-", "-I"})
      BY <3>1, <3>3, <3>4, <3>5
    <3>9. JoinedFlag(r, i)
      BY <3>6, <3>7, <3>8 DEF JoinedFlag
    <3>10. QED
      BY <2>1, <3>9 DEF Replaceable
  <2>5. CASE i = 1
    BY <2>1, <2>5 DEF Replaceable
  <2>6. QED
    BY <2>2, <2>3, <2>4, <2>5
<1>5. ASSUME NEW k \in i + 1..N, Stops(t, i, k) PROVE Stops(r, i, k)
  <2>1. k \in 1..N /\ k - 1 \in 1..N
    BY <1>2
  <2>2. /\ t[k] \in Quotes \cup Blank => r[k] = t[k]
        /\ r[k - 1] = "\\" => t[k - 1] = "\\"
        /\ i > 1 /\ t[i - 1] \in Quotes => r[i - 1] = t[i - 1]
        /\ i > 1 /\ r[i - 1] \in Quotes => t[i - 1] = r[i - 1]
    BY <1>1, <1>3, <2>1 DEF Quotes, Blank, Marks
  <2>3. QED
    BY <1>5, <2>2 DEF Stops
<1>6. QED
  BY <1>4, <1>5

(* One more prefix. *)
LEMMA PassKeeps ==
  ASSUME WellFormed, windows \in BOOLEAN, NEW U, OfTheCode \subseteq U, NEW t, NEW r \in Seq(U),
         Kept(t, r), NEW spellings, spellings \subseteq Spellings
  PROVE  LET s == Pass(r, spellings)
         IN /\ s \in Seq(U) /\ Kept(t, s) /\ Sought(t, s, spellings)
            /\ \A others : Sought(t, r, others) => Sought(t, s, others)
<1>. DEFINE s == Pass(r, spellings)
     N == Len(t)
<1>1. /\ N \in Nat /\ Len(r) = N
      /\ s \in Seq(U) /\ Len(s) = N
      /\ \A i \in 1..N : Passed(r, spellings, s, i)
  <2>1. Len(r) = N /\ Len(r) \in Nat
    BY LenProperties DEF Kept
  <2>2. s \in Seq(U) /\ Len(s) = Len(r) /\ \A i \in 1..Len(r) : Passed(r, spellings, s, i)
    BY PassProperties
  <2>. HIDE DEF s, N
  <2>3. QED
    BY <2>1, <2>2
<1>. HIDE DEF s
<1>2. ASSUME NEW i \in 1..N
      PROVE  /\ \/ Translated(t, r, i)
                \/ r[i] = t[i]
                \/ windows /\ r[i] = Slash(t[i]) /\ Covered(t, r, i)
             /\ Translated(t, r, i) =>
                  /\ i = N \/ Follows(t[i + 1])
                  /\ i = 1 \/ t[i - 1] \notin Spellings
             /\ Becomes(t[i], r[i])
  BY DEF Kept, Becomes, Translated
<1>3. ASSUME NEW i \in 1..N
      PROVE  /\ t[i] \in Marks \cup Letters => r[i] = t[i]
             /\ r[i] \in Spellings => t[i] \in Spellings /\ r[i] # "/workspace"
             /\ t[i] \in Spellings => /\ r[i] \in Spellings \cup {"/workspace"}
                                      /\ r[i] \notin (Marks \ {"/workspace"}) \cup Letters
             /\ ~(t[i] \in Spellings /\ r[i] = "/workspace") /\ Follows(r[i]) => Follows(t[i])
  BY <1>2, BecomesLike
<1>4. \A c : Slash(Slash(c)) = Slash(c) /\ (Slash(c) = "/workspace" <=> c = "/workspace")
  BY DEF Slash, Turned
<1>5. ASSUME NEW i \in 1..N, Translated(t, r, i) PROVE Translated(t, s, i)
  BY <1>1, <1>4, <1>5 DEF Translated, Passed, Moved
<1>6. ASSUME NEW i \in 1..N, Moved(r, spellings, s, i) PROVE Translated(t, s, i)
  BY <1>3, <1>6 DEF Translated, Moved
<1>7. ASSUME NEW i \in 1..N, Covered(t, r, i) PROVE Covered(t, s, i)
  <2>1. PICK j \in 1..i - 1 : Translated(t, r, j) /\ \A k \in j + 1..i : ~Stops(t, j, k)
    BY <1>7 DEF Covered
  <2>2. j \in 1..N
    BY <1>1
  <2>3. QED
    BY <1>5, <2>1, <2>2 DEF Covered
<1>8. ASSUME NEW i \in 1..N, Behind(r, spellings, s, i) PROVE Covered(t, s, i)
  <2>1. PICK j \in 1..i - 1 : Moved(r, spellings, s, j) /\ i < SuffixEnd(r, j)
    BY <1>8 DEF Behind
  <2>2. j \in 1..N /\ j \in 1..Len(r) /\ Len(r) \in Nat
    BY <1>1
  <2>3. /\ SuffixEnd(r, j) \in j + 1..Len(r) + 1
        /\ \A k \in j + 1..SuffixEnd(r, j) - 1 : ~Stops(r, j, k)
    BY <2>2, SuffixEndIs
  <2>4. ASSUME NEW k \in j + 1..i PROVE ~Stops(t, j, k)
    <3>1. k \in j + 1..SuffixEnd(r, j) - 1 /\ k \in j + 1..N
      BY <1>1, <2>1, <2>2, <2>3
    <3>2. ~Stops(r, j, k)
      BY <2>3, <3>1
    <3>3. Stops(t, j, k) => Stops(r, j, k)
      BY <1>1, <1>2, <2>2, <3>1, LooksAlike
    <3>4. QED
      BY <3>2, <3>3
  <2>5. QED
    BY <1>6, <2>1, <2>2, <2>4 DEF Covered
<1>9. ASSUME NEW i \in 1..N
      PROVE  \/ Translated(t, s, i)
             \/ s[i] = t[i]
             \/ windows /\ s[i] = Slash(t[i]) /\ Covered(t, s, i)
  <2>1. CASE Moved(r, spellings, s, i)
    BY <1>6, <2>1
  <2>2. CASE s[i] = r[i]
    <3>1. Translated(t, r, i) \/ r[i] = t[i] \/ (windows /\ r[i] = Slash(t[i]) /\ Covered(t, r, i))
      BY <1>2
    <3>2. QED
      BY <1>5, <1>7, <2>2, <3>1
  <2>3. CASE windows /\ s[i] = Slash(r[i]) /\ Behind(r, spellings, s, i)
    <3>1. Translated(t, r, i) \/ r[i] = t[i] \/ r[i] = Slash(t[i])
      BY <1>2
    <3>2. QED
      BY <1>4, <1>5, <1>8, <2>3, <3>1
  <2>4. Passed(r, spellings, s, i)
    BY <1>1
  <2>5. QED
    BY <2>1, <2>2, <2>3, <2>4 DEF Passed
<1>10. ASSUME NEW i \in 1..N, Translated(t, s, i), ~Translated(t, r, i)
       PROVE  /\ i = N \/ Follows(t[i + 1])
              /\ i = 1 \/ t[i - 1] \notin Spellings
  <2>1. Begins(r, spellings, i)
    <3>1. Passed(r, spellings, s, i) /\ s[i] = "/workspace" /\ r[i] # "/workspace"
      BY <1>1, <1>10 DEF Translated
    <3>2. QED
      BY <1>4, <3>1 DEF Passed
  <2>2. r[i] \in Spellings /\ t[i] \in Spellings /\ Replaceable(r, i)
    BY <1>3, <2>1 DEF Begins
  <2>3. i = 1 \/ r[i - 1] \in Blank \cup Quotes \cup {"=", ",", ":"} \/ JoinedFlag(r, i)
    BY <2>2 DEF Replaceable
  <2>4. i = 1 \/ i - 1 \in 1..N
    BY <1>1
  <2>5. ASSUME i # 1 PROVE t[i - 1] \notin Spellings
    <3>1. r[i - 1] \in (Marks \ {"/workspace"}) \cup Letters
      <4>1. CASE r[i - 1] \in Blank \cup Quotes \cup {"=", ",", ":"}
        BY <4>1 DEF Blank, Quotes, Marks
      <4>2. CASE JoinedFlag(r, i)
        <5>1. PICK j \in 1..i - 1 :
                /\ r[j] = "-I" \/ r[j] = "-"
                /\ \A k \in j + 1..i - 1 : r[k] \in Letters
          BY <4>2 DEF JoinedFlag
        <5>2. j = i - 1 \/ i - 1 \in j + 1..i - 1
          BY <1>1
        <5>3. QED
          BY <5>1, <5>2 DEF Marks
      <4>3. QED
        BY <2>3, <2>5, <4>1, <4>2
    <3>2. QED
      BY <1>3, <2>4, <2>5, <3>1
  <2>6. ASSUME i # N PROVE Follows(t[i + 1])
    <3>1. i + 1 \in 1..N /\ (i + 1) - 1 = i /\ i + 1 # 1
      BY <1>1, <2>6
    <3>2. ~Translated(t, r, i + 1)
      <4>1. Translated(t, r, i + 1) => (i + 1 = 1 \/ t[(i + 1) - 1] \notin Spellings)
        BY <1>2, <3>1
      <4>2. QED
        BY <2>2, <3>1, <4>1
    <3>3. Follows(r[i + 1])
      BY <1>1, <2>2, <2>6 DEF Replaceable
    <3>4. QED
      BY <1>3, <3>1, <3>2, <3>3 DEF Translated
  <2>7. QED
    BY <2>5, <2>6
<1>11. Kept(t, s)
  BY <1>1, <1>2, <1>9, <1>10 DEF Kept
<1>12. ASSUME NEW others, Sought(t, r, others) PROVE Sought(t, s, others)
  BY <1>5, <1>7, <1>12 DEF Sought
<1>13. Sought(t, s, spellings)
  <2>1. SUFFICES ASSUME NEW i \in 1..N, Begins(t, spellings, i)
                 PROVE  Translated(t, s, i) \/ Covered(t, s, i)
    BY DEF Sought
  <2>2. CASE r[i] = t[i]
    <3>1. Replaceable(t, i) => Replaceable(r, i)
      BY <1>1, <1>2, LooksAlike
    <3>2. Begins(r, spellings, i)
      BY <2>1, <2>2, <3>1 DEF Begins
    <3>3. Moved(r, spellings, s, i) \/ Behind(r, spellings, s, i)
      BY <1>1, <3>2 DEF Passed
    <3>4. QED
      BY <1>6, <1>8, <3>3
  <2>3. QED
    BY <1>2, <1>5, <1>7, <2>2
<1>14. QED
  BY <1>1, <1>11, <1>12, <1>13 DEF s

(* The prefixes one after another: every root that begins an argument is
   translated, or is in an argument that began before it. *)
LEMMA RootedProperties ==
  ASSUME WellFormed, windows \in BOOLEAN, NEW U, OfTheCode \subseteq U, NEW t \in Seq(U)
  PROVE  Rooted(t) \in Seq(U) /\ Kept(t, Rooted(t)) /\ Sought(t, Rooted(t), Spellings)
<1>. DEFINE prefixes == Variants[windows]
     N == Len(prefixes)
     next == [p \in Nat \X Seq(U) |->
                IF p[1] + 1 \in 1..N THEN Pass(p[2], prefixes[p[1] + 1]) ELSE p[2]]
     Body(g) == [n \in 0..N |-> IF n = 0 THEN t ELSE Pass(g[n - 1], prefixes[n])]
     g == CHOOSE g : g = Body(g)
<1>1. /\ prefixes \in Seq(SUBSET STRING) /\ N \in Nat
      /\ \A n \in 1..N : prefixes[n] \subseteq Spellings
      /\ \A c \in Spellings : \E n \in 1..N : c \in prefixes[n]
  <2>1. prefixes \in Seq(SUBSET STRING)
    BY DEF WellFormed
  <2>2. N \in Nat /\ DOMAIN prefixes = 1..N
    BY <2>1, LenProperties
  <2>3. Spellings = UNION {prefixes[n] : n \in DOMAIN prefixes}
    BY DEF Spellings, Spelt, ToSet
  <2>. HIDE DEF prefixes, N
  <2>4. QED
    BY <2>1, <2>2, <2>3
<1>0. \A r \in Seq(U) : \A n \in 1..N : Pass(r, prefixes[n]) \in Seq(U)
  BY PassProperties
<1>. HIDE DEF prefixes
<1>2. next \in [Nat \X Seq(U) -> Seq(U)]
  <2>1. \A p \in Nat \X Seq(U) : p[2] \in Seq(U)
    OBVIOUS
  <2>. HIDE DEF N
  <2>2. QED
    BY <1>0, <2>1
<1>3. PICK f \in [0..N -> Seq(U)] :
        f[0] = t /\ \A n \in 1..N : f[n] = next[<<n - 1, f[n - 1]>>]
  <2>. HIDE DEF next, N
  <2>1. \E f : Unfolds(f, N, Seq(U), t, next)
    BY <1>1, <1>2, Recursion
  <2>2. QED
    BY <2>1 DEF Unfolds
<1>4. ASSUME NEW n \in 1..N PROVE f[n] = Pass(f[n - 1], prefixes[n])
  <2>1. n - 1 \in 0..N /\ n - 1 \in Nat /\ (n - 1) + 1 = n
    BY <1>1
  <2>2. <<n - 1, f[n - 1]>> \in Nat \X Seq(U)
    BY <1>3, <2>1
  <2>. HIDE DEF N
  <2>3. QED
    BY <1>3, <2>1, <2>2
<1>5. f = Body(f)
  <2>. HIDE DEF N
  <2>1. ASSUME NEW n \in 0..N PROVE f[n] = Body(f)[n]
    <3>1. n = 0 \/ n \in 1..N
      BY <1>1
    <3>2. QED
      BY <1>3, <1>4, <3>1
  <2>2. QED
    BY <1>3, <2>1
<1>6. g = Body(g)
  BY <1>5
<1>7. Rooted(t) = g[N]
  BY DEF Rooted, prefixes
<1>. HIDE DEF g
<1>8. g[0] = t /\ \A n \in 1..N : g[n] = Pass(g[n - 1], prefixes[n])
  <2>1. 0 \in 0..N /\ \A n \in 1..N : n \in 0..N /\ n # 0
    BY <1>1
  <2>. HIDE DEF N
  <2>2. \A n \in 0..N : g[n] = Body(g)[n]
    BY <1>6
  <2>3. g[0] = Body(g)[0]
    BY <2>1, <2>2
  <2>4. \A n \in 1..N : g[n] = Body(g)[n]
    BY <2>1, <2>2
  <2>5. QED
    BY <2>1, <2>3, <2>4
<1>. DEFINE T == {n \in 0..N : /\ g[n] \in Seq(U) /\ Kept(t, g[n])
                               /\ \A m \in 1..n : Sought(t, g[n], prefixes[m])}
<1>. HIDE DEF N
<1>9. 0 \in T
  <2>1. Kept(t, t)
    <3>1. ASSUME NEW i \in 1..Len(t) PROVE ~Translated(t, t, i)
      BY DEF Translated, WellFormed, Spellings
    <3>2. QED
      BY <3>1 DEF Kept
  <2>2. \A m \in 1..0 : FALSE
    OBVIOUS
  <2>3. QED
    BY <1>1, <1>8, <2>1, <2>2
<1>10. ASSUME NEW n \in 0..N, n \in T, n < N PROVE n + 1 \in T
  <2>1. n + 1 \in 1..N /\ n + 1 \in 0..N /\ (n + 1) - 1 = n
    <3>. HIDE DEF T
    <3>1. QED
      BY <1>1, <1>10
  <2>. DEFINE r == g[n]
       s == g[n + 1]
  <2>2. r \in Seq(U) /\ Kept(t, r) /\ \A m \in 1..n : Sought(t, r, prefixes[m])
    BY <1>10
  <2>3. s = Pass(r, prefixes[n + 1])
    <3>1. s = Pass(g[(n + 1) - 1], prefixes[n + 1])
      BY <1>8, <2>1, Zenon
    <3>2. QED
      BY <2>1, <3>1
  <2>. HIDE DEF r, s
  <2>4. /\ s \in Seq(U) /\ Kept(t, s) /\ Sought(t, s, prefixes[n + 1])
        /\ \A others : Sought(t, r, others) => Sought(t, s, others)
    <3>1. prefixes[n + 1] \subseteq Spellings
      BY <1>1, <2>1
    <3>2. QED
      BY <2>2, <2>3, <3>1, PassKeeps
  <2>5. \A m \in 1..n + 1 : m \in 1..n \/ m = n + 1
    BY <2>1
  <2>6. \A m \in 1..n + 1 : Sought(t, s, prefixes[m])
    BY <2>2, <2>4, <2>5
  <2>7. QED
    BY <2>1, <2>4, <2>6 DEF s
<1>11. N \in T
  <2>1. T \in SUBSET (0..N) /\ N \in 0..N
    BY <1>1
  <2>. HIDE DEF T
  <2>2. QED
    BY <1>1, <1>9, <1>10, <2>1, InductionUpTo
<1>12. /\ Rooted(t) \in Seq(U) /\ Kept(t, Rooted(t))
       /\ \A m \in 1..N : Sought(t, Rooted(t), prefixes[m])
  <2>1. g[N] = Rooted(t)
    BY <1>7 DEF N
  <2>2. QED
    BY <1>11, <2>1
<1>13. Sought(t, Rooted(t), Spellings)
  BY <1>1, <1>12 DEF Sought, Begins
<1>14. QED
  BY <1>12, <1>13

-----------------------------------------------------------------------------
(* The words of a shell.                                                   *)

States == {"start", "word", "escaped", "\"escaped"} \cup Quotes

(* The state after a character follows from the one before it. *)
LEMMA ReadingDef ==
  ASSUME NEW t, Len(t) \in Nat
  PROVE  /\ Reading(t)[0] = "start"
         /\ \A n \in 1..Len(t) : Reading(t)[n] = After(Reading(t)[n - 1], t[n])
<1>. DEFINE N == Len(t)
     next == [p \in Nat \X States |-> After(p[2], t[p[1] + 1])]
     Body(g) == [n \in 0..N |-> IF n = 0 THEN "start" ELSE After(g[n - 1], t[n])]
     g == CHOOSE g : g = Body(g)
<1>1. N \in Nat /\ "start" \in States
  BY DEF States
<1>2. next \in [Nat \X States -> States]
  <2>1. \A was \in States : \A c : After(was, c) \in States
    BY DEF After, States, Quotes
  <2>2. QED
    BY <2>1
<1>3. PICK f \in [0..N -> States] :
        f[0] = "start" /\ \A n \in 1..N : f[n] = next[<<n - 1, f[n - 1]>>]
  <2>. HIDE DEF next, N
  <2>1. \E f : Unfolds(f, N, States, "start", next)
    BY <1>1, <1>2, Recursion
  <2>2. QED
    BY <2>1 DEF Unfolds
<1>4. ASSUME NEW n \in 1..N PROVE f[n] = After(f[n - 1], t[n])
  <2>1. n - 1 \in 0..N /\ n - 1 \in Nat /\ (n - 1) + 1 = n
    BY <1>1
  <2>2. <<n - 1, f[n - 1]>> \in Nat \X States
    BY <1>3, <2>1
  <2>. HIDE DEF N
  <2>3. QED
    BY <1>3, <2>1, <2>2
<1>5. f = Body(f)
  <2>. HIDE DEF N
  <2>1. ASSUME NEW n \in 0..N PROVE f[n] = Body(f)[n]
    <3>1. n = 0 \/ n \in 1..N
      BY <1>1
    <3>2. QED
      BY <1>3, <1>4, <3>1
  <2>2. QED
    BY <1>3, <2>1
<1>6. g = Body(g)
  BY <1>5
<1>7. Reading(t) = g
  BY DEF Reading
<1>. HIDE DEF g
<1>8. g[0] = "start" /\ \A n \in 1..N : g[n] = After(g[n - 1], t[n])
  <2>1. 0 \in 0..N /\ \A n \in 1..N : n \in 0..N /\ n # 0
    BY <1>1
  <2>. HIDE DEF N
  <2>2. \A n \in 0..N : g[n] = Body(g)[n]
    BY <1>6
  <2>3. g[0] = Body(g)[0]
    BY <2>1, <2>2
  <2>4. \A n \in 1..N : g[n] = Body(g)[n]
    BY <2>1, <2>2
  <2>5. QED
    BY <2>1, <2>3, <2>4
<1>9. QED
  BY <1>7, <1>8

(* A word that is not the first one begins after a blank. *)
LEMMA WordsBegin ==
  ASSUME NEW i \in 1..Len(text), Len(text) \in Nat, WordAt(i), i # 1
  PROVE  ~single /\ i - 1 \in 1..Len(text) /\ text[i - 1] \in Blank
<1>1. i - 1 \in 1..Len(text)
  OBVIOUS
<1>2. ~single /\ Reading(text)[i - 1] = "start"
  BY DEF WordAt
<1>3. Reading(text)[i - 1] = After(Reading(text)[(i - 1) - 1], text[i - 1])
  BY <1>1, ReadingDef, Zenon
<1>4. text[i - 1] \in Blank
  BY <1>2, <1>3 DEF After, Quotes
<1>5. QED
  BY <1>1, <1>2, <1>4

(* A quote that opens a word: no other word begins before it is closed. *)
LEMMA QuotedWord ==
  ASSUME Len(text) \in Nat, ~single, NEW h \in 1..Len(text), WordAt(h), text[h] \in Quotes,
         NEW i \in h..Len(text), \A k \in h + 1..i : text[k] # text[h]
  PROVE  \A k \in h..i : Reading(text)[k] # "start"
<1>. DEFINE q == text[h]
     R(k) == Reading(text)[k]
     Inside == {q} \cup (IF q = "\"" THEN {"\"escaped"} ELSE {})
     T == {n \in 0..i - h : R(h + n) \in Inside}
<1>1. h \in Nat /\ i - h \in Nat /\ h + 0 = h
  OBVIOUS
<1>2. R(h) = q
  <2>1. R(h - 1) = "start"
    BY DEF WordAt
  <2>2. R(h) = After(R(h - 1), text[h])
    BY ReadingDef
  <2>3. QED
    BY <2>1, <2>2 DEF After, Quotes, Blank
<1>3. 0 \in T
  <2>1. 0 \in 0..i - h /\ R(h) \in Inside
    BY <1>1, <1>2
  <2>2. R(h + 0) = R(h)
    BY <1>1, Zenon
  <2>3. QED
    BY <2>1, <2>2
<1>4. ASSUME NEW n \in 0..i - h, n \in T, n < i - h PROVE n + 1 \in T
  <2>1. /\ h + (n + 1) \in 1..Len(text) /\ h + (n + 1) \in h + 1..i
        /\ (h + (n + 1)) - 1 = h + n /\ n + 1 \in 0..i - h
    <3>. HIDE DEF T
    <3>1. QED
      BY <1>1, <1>4
  <2>. DEFINE k == h + (n + 1)
  <2>2. R(k) = After(R(k - 1), text[k])
    BY <2>1, ReadingDef, Zenon
  <2>3. R(k - 1) \in Inside /\ text[k] # q
    BY <1>4, <2>1
  <2>. HIDE DEF k, R
  <2>4. R(k) \in Inside
    BY <2>2, <2>3 DEF After, Quotes
  <2>5. QED
    BY <2>1, <2>4 DEF k, R
<1>5. T = 0..i - h
  <2>1. T \in SUBSET (0..i - h)
    OBVIOUS
  <2>. HIDE DEF T
  <2>2. QED
    BY <1>1, <1>3, <1>4, <2>1, InductionUpTo
<1>6. ASSUME NEW k \in h..i PROVE R(k) # "start"
  <2>1. k - h \in 0..i - h /\ h + (k - h) = k
    OBVIOUS
  <2>2. k - h \in T
    <3>. HIDE DEF T
    <3>1. QED
      BY <1>5, <2>1
  <2>3. R(k) \in Inside
    BY <2>1, <2>2
  <2>4. QED
    BY <2>3 DEF Quotes
<1>7. QED
  BY <1>6

(* An argument that begins with a root is one the code looks for. *)
LEMMA WordsAreSought ==
  ASSUME Len(text) \in Nat, NEW i \in 1..Len(text), BeginsWithRoot(i)
  PROVE  Begins(text, Spellings, i)
<1>1. text[i] \in Spellings /\ (i = Len(text) \/ Follows(text[i + 1]))
  BY DEF BeginsWithRoot
<1>2. i = 1 \/ text[i - 1] \in Blank \cup Quotes \cup {"=", ",", ":"} \/ JoinedFlag(text, i)
  <2>1. CASE i = 1
    BY <2>1
  <2>2. CASE i # 1 /\ WordAt(i)
    BY <2>2, WordsBegin
  <2>3. CASE i > 1 /\ WordAt(i - 1) /\ text[i - 1] = "-I"
    <3>. DEFINE j == i - 1
    <3>1. j \in 1..i - 1 /\ j \in 1..Len(text) /\ \A k \in j + 1..i - 1 : FALSE
      BY <2>3
    <3>2. j = 1 \/ text[j - 1] \in Blank
      <4>1. WordAt(j)
        BY <2>3
      <4>. HIDE DEF j
      <4>2. QED
        BY <3>1, <4>1, WordsBegin
    <3>3. JoinedFlag(text, i)
      BY <2>3, <3>1, <3>2 DEF JoinedFlag
    <3>4. QED
      BY <3>3
  <2>4. QED
    BY <2>1, <2>2, <2>3 DEF BeginsWithRoot
<1>3. QED
  BY <1>1, <1>2 DEF Begins, Replaceable

(* An argument that the code takes for a part of the one before it. *)
LEMMA CoveredWords ==
  ASSUME WellFormed, windows \in BOOLEAN, Len(text) \in Nat, single \in BOOLEAN,
         NEW i \in 1..Len(text), BeginsWithRoot(i), Covered(text, rooted, i)
  PROVE  Swallowed(i)
<1>. DEFINE N == Len(text)
<1>1. PICK j \in 1..i - 1 : /\ Translated(text, rooted, j)
                            /\ \A k \in j + 1..i : ~Stops(text, j, k)
  BY DEF Covered
<1>2. TranslatedAt(j) /\ text[j] \in Spellings
  BY <1>1 DEF Translated, TranslatedAt
<1>3. /\ j \in 1..N /\ i \in j + 1..N /\ i # 1 /\ i > 1 /\ i - 1 \in 1..N /\ j \in Nat /\ i \in Nat
      /\ N \in Nat
  OBVIOUS
<1>4. text[j] \notin Blank \cup Quotes \cup {"-I"}
  BY <1>2 DEF WellFormed, Spellings, Blank, Quotes
<1>5. ~single
  <2>1. SUFFICES ASSUME single PROVE FALSE
    OBVIOUS
  <2>2. WordAt(i - 1) /\ text[i - 1] \in Quotes \cup {"-I"}
    BY <1>3, <2>1 DEF BeginsWithRoot, WordAt
  <2>3. i - 1 = 1
    BY <2>1, <2>2 DEF WordAt
  <2>4. j = i - 1
    BY <1>3, <2>3
  <2>5. QED
    BY <1>4, <2>2, <2>4
<1>6. CASE j > 1 /\ text[j - 1] \in Quotes
  <2>1. SUFFICES ASSUME WordAt(j - 1) PROVE FALSE
    <3>1. ~WordAt(j - 1) => Swallowed(i)
      BY <1>2, <1>6 DEF Swallowed
    <3>2. QED
      BY <3>1
  <2>. DEFINE h == j - 1
  <2>2. h \in 1..N /\ i \in h..N /\ h + 1 = j
    BY <1>3, <1>6
  <2>3. \A k \in h + 1..i : text[k] # text[h]
    <3>1. \A k \in j + 1..i : text[k] # text[j - 1]
      BY <1>1, <1>6 DEF Stops
    <3>2. text[j] # text[j - 1]
      BY <1>4, <1>6
    <3>3. \A k \in h + 1..i : k = j \/ k \in j + 1..i
      BY <1>3, <2>2
    <3>4. QED
      BY <3>1, <3>2, <3>3
  <2>4. \A k \in h..i : Reading(text)[k] # "start"
    <3>1. WordAt(h) /\ text[h] \in Quotes
      BY <1>6, <2>1
    <3>. HIDE DEF h
    <3>2. QED
      BY <1>3, <1>5, <2>2, <2>3, <3>1, QuotedWord
  <2>5. i - 1 \in h..i /\ (i - 1) - 1 \in h..i
    BY <1>3, <2>2
  <2>6. ~WordAt(i) /\ ~WordAt(i - 1)
    BY <1>5, <2>4, <2>5 DEF WordAt
  <2>7. QED
    BY <2>6 DEF BeginsWithRoot
<1>7. CASE ~(j > 1 /\ text[j - 1] \in Quotes)
  <2>1. \A k \in j + 1..i : ~(text[k] \in Blank /\ text[k - 1] # "\\")
    BY <1>1, <1>5, <1>7 DEF Stops
  <2>2. \A k \in j + 1..i - 1 : k \in j + 1..i
    BY <1>3
  <2>3. \A k \in j + 1..i - 1 : text[k] \in Blank => text[k - 1] = "\\"
    BY <2>1, <2>2
  <2>4. QED
    BY <1>2, <2>3 DEF Swallowed
<1>8. QED
  BY <1>6, <1>7

(* What the prefixes make of the text is what RootsTranslated asks. *)
LEMMA RootsKept ==
  ASSUME WellFormed, windows \in BOOLEAN, single \in BOOLEAN, Len(text) \in Nat,
         DOMAIN text = 1..Len(text), Kept(text, rooted), Sought(text, rooted, Spellings)
  PROVE  RootsTranslated
<1>1. Len(rooted) = Len(text)
  BY DEF Kept
<1>2. ASSUME NEW i \in 1..Len(text)
      PROVE  /\ TranslatedAt(i) <=> Translated(text, rooted, i)
             /\ Covered(text, rooted, i) => \E j \in 1..i - 1 : TranslatedAt(j)
  BY DEF TranslatedAt, Translated, Covered
<1>3. ASSUME NEW i \in 1..Len(text), TranslatedAt(i)
      PROVE  i = Len(text) \/ Follows(text[i + 1])
  BY <1>2, <1>3 DEF Kept
<1>4. ASSUME NEW i \in 1..Len(text), BeginsWithRoot(i)
      PROVE  TranslatedAt(i) \/ Swallowed(i)
  <2>1. Translated(text, rooted, i) \/ Covered(text, rooted, i)
    BY <1>4, WordsAreSought DEF Sought
  <2>2. QED
    BY <1>2, <1>4, <2>1, CoveredWords
<1>5. ASSUME NEW i \in 1..Len(text), ~TranslatedAt(i), rooted[i] # text[i]
      PROVE  windows /\ rooted[i] = Slash(text[i]) /\ \E j \in 1..i - 1 : TranslatedAt(j)
  BY <1>2, <1>5 DEF Kept
<1>6. QED
  BY <1>1, <1>3, <1>4, <1>5 DEF RootsTranslated

-----------------------------------------------------------------------------
(* The invariant.                                                          *)

Symbols == STRING \cup OfTheCode
Pairs == [old : Seq(STRING), new : Seq(STRING)]

\* From what was given to what is made of it, step by step.
RewriteInv ==
  /\ windows \in BOOLEAN /\ single \in BOOLEAN
  /\ text \in Seq(Symbols) /\ value \in Seq(Symbols) /\ rooted \in Seq(Symbols)
  /\ step \in {"roots", "names", "done", "refused"}
  /\ names \in Seq(Pairs) /\ \A n \in 1..Len(names) : Fold(names[n].old) = Fold(names[n].new)
  /\ windows \/ names = <<>>
  /\ step = "roots" => value = text /\ rooted = <<>>
  /\ step \in {"names", "done"} => IF windows THEN Fold(value) = Fold(rooted) ELSE value = rooted
  /\ rooted # <<>> => Kept(text, rooted) /\ Sought(text, rooted, Spellings)

(* What was given stays, and so does what the code sees in it. *)
LEMMA GivenTextStays ==
  ASSUME UNCHANGED given, NEW r, rooted' = r,
         Kept(text, r), Sought(text, r, Spellings)
  PROVE  Kept(text, rooted)' /\ Sought(text, rooted, Spellings)'
<1>1. windows' = windows /\ single' = single /\ text' = text
  BY DEF given
<1>2. Spellings' = Spellings
  BY <1>1 DEF Spellings
<1>3. ASSUME NEW c PROVE Follows(c)' <=> Follows(c)
  BY <1>1, <1>2 DEF Follows
<1>4. ASSUME NEW j, NEW k PROVE Stops(text, j, k)' <=> Stops(text, j, k)
  BY <1>1 DEF Stops
<1>5. ASSUME NEW i PROVE Translated(text, rooted, i)' <=> Translated(text, r, i)
  BY <1>1, <1>2 DEF Translated
<1>6. ASSUME NEW i PROVE Covered(text, rooted, i)' <=> Covered(text, r, i)
  BY <1>4, <1>5 DEF Covered
<1>7. ASSUME NEW i PROVE Begins(text, Spellings, i)' <=> Begins(text, Spellings, i)
  <2>1. Follows(text[i + 1])' <=> Follows(text[i + 1])
    BY <1>1, <1>2 DEF Follows
  <2>2. JoinedFlag(text, i)' <=> JoinedFlag(text, i)
    BY <1>1 DEF JoinedFlag
  <2>3. QED
    BY <1>1, <1>2, <2>1, <2>2 DEF Begins, Replaceable
<1>8. Kept(text, rooted)'
  <2>1. ASSUME NEW i PROVE Follows(text[i + 1])' <=> Follows(text[i + 1])
    BY <1>1, <1>2 DEF Follows
  <2>2. QED
    BY <1>1, <1>2, <1>5, <1>6, <2>1 DEF Kept
<1>9. Sought(text, rooted, Spellings)'
  BY <1>1, <1>5, <1>6, <1>7 DEF Sought
<1>10. QED
  BY <1>8, <1>9

(* The symbols that the code writes, and those that are given. *)
LEMMA SymbolsWritten == OfTheCode \subseteq Symbols /\ STRING \subseteq Symbols
BY DEF Symbols

(* RewriteInv holds of what is given. *)
LEMMA RewriteStarts == ASSUME WellFormed PROVE RewriteInit => RewriteInv
<1>1. SUFFICES ASSUME RewriteInit PROVE RewriteInv
  OBVIOUS
<1>2. PICK input \in Inputs :
        windows = input.windows /\ text \in input.texts /\ names \in input.names
  BY <1>1 DEF RewriteInit
<1>3. /\ input.windows \in BOOLEAN /\ input.texts \subseteq Seq(STRING)
      /\ names \in Seq(Pairs) /\ \A n \in DOMAIN names : Fold(names[n].old) = Fold(names[n].new)
      /\ windows \/ names = <<>>
  BY <1>2 DEF WellFormed, Pairs
<1>4. text \in Seq(Symbols) /\ <<>> \in Seq(Symbols)
  <2>1. text \in Seq(STRING)
    BY <1>2, <1>3
  <2>2. Len(text) \in Nat /\ text \in [1..Len(text) -> STRING]
    BY <2>1, LenProperties
  <2>3. text \in [1..Len(text) -> Symbols]
    BY <2>2, SymbolsWritten
  <2>4. QED
    BY <2>2, <2>3
<1>5. \A n \in 1..Len(names) : Fold(names[n].old) = Fold(names[n].new)
  <2>1. DOMAIN names = 1..Len(names)
    BY <1>3, LenProperties
  <2>2. QED
    BY <1>3, <2>1
<1>6. /\ single \in BOOLEAN /\ step = "roots" /\ value = text /\ rooted = <<>>
  BY <1>1 DEF RewriteInit
<1>7. QED
  BY <1>2, <1>3, <1>4, <1>5, <1>6 DEF RewriteInv

(* Every step of transform keeps it: a step over the roots by RootedProperties,
   one over a name by CanonicalizeFolds, one over the flags by TurnedFolds. *)
LEMMA RewriteStep == ASSUME WellFormed PROVE RewriteInv /\ [RewriteNext]_rewriteVars => RewriteInv'
<1>1. SUFFICES ASSUME RewriteInv, [RewriteNext]_rewriteVars PROVE RewriteInv'
  OBVIOUS
<1>2. UNCHANGED given
  BY <1>1 DEF RewriteNext, Roots, Canonical, Flags, LimitReached, rewriteVars
<1>3. /\ windows' = windows /\ single' = single /\ text' = text
      /\ windows \in BOOLEAN /\ single \in BOOLEAN
      /\ text \in Seq(Symbols) /\ value \in Seq(Symbols) /\ rooted \in Seq(Symbols)
      /\ step \in {"roots", "names", "done", "refused"}
      /\ names \in Seq(Pairs) /\ \A n \in 1..Len(names) : Fold(names[n].old) = Fold(names[n].new)
      /\ windows \/ names = <<>>
  BY <1>1, <1>2 DEF given, RewriteInv
<1>4. ASSUME rooted' = rooted
      PROVE  rooted' # <<>> => Kept(text, rooted)' /\ Sought(text, rooted, Spellings)'
  <2>1. SUFFICES ASSUME rooted # <<>>
                 PROVE  Kept(text, rooted)' /\ Sought(text, rooted, Spellings)'
    BY <1>4
  <2>2. PICK r : r = rooted
    OBVIOUS
  <2>3. Kept(text, r) /\ Sought(text, r, Spellings)
    BY <1>1, <2>1, <2>2 DEF RewriteInv
  <2>4. rooted' = r
    BY <1>4, <2>2
  <2>5. QED
    BY <1>2, <2>3, <2>4, GivenTextStays
<1>5. CASE Roots
  <2>1. PICK r : r = Rooted(text)
    OBVIOUS
  <2>2. r \in Seq(Symbols) /\ Kept(text, r) /\ Sought(text, r, Spellings)
    BY <1>3, <2>1, RootedProperties, SymbolsWritten
  <2>3. value' = r /\ rooted' = r /\ names' = names /\ step' = "names"
    <3>1. value = text
      BY <1>1, <1>5 DEF Roots, RewriteInv
    <3>2. value' = Rooted(value) /\ rooted' = value' /\ names' = names /\ step' = "names"
      BY <1>5 DEF Roots
    <3>3. QED
      BY <2>1, <3>1, <3>2
  <2>4. Kept(text, rooted)' /\ Sought(text, rooted, Spellings)'
    BY <1>2, <2>2, <2>3, GivenTextStays
  <2>5. Fold(value)' = Fold(rooted)'
    BY <2>3
  <2>6. QED
    BY <1>3, <2>2, <2>3, <2>4, <2>5 DEF RewriteInv
<1>6. CASE Canonical
  <2>. DEFINE pair == names[1]
  <2>1. /\ step = "names" /\ names # <<>> /\ step' = step /\ rooted' = rooted
        /\ value' = Canonicalize(value, Head(names)) /\ names' = Tail(names)
    BY <1>6 DEF Canonical
  <2>2. windows /\ Fold(value) = Fold(rooted)
    BY <1>1, <1>3, <2>1 DEF RewriteInv
  <2>3. /\ 1 \in 1..Len(names) /\ Head(names) = pair /\ pair \in Pairs
        /\ Fold(pair.old) = Fold(pair.new)
    <3>1. Len(names) \in Nat /\ Len(names) > 0
      BY <1>3, <2>1, LenProperties, EmptySeq
    <3>2. 1 \in 1..Len(names)
      BY <3>1
    <3>3. Head(names) = pair /\ pair \in Pairs
      BY <1>3, <2>1, <3>2, ElementOfSeq
    <3>4. QED
      BY <1>3, <3>2, <3>3
  <2>4. pair.old \in Seq(Symbols) /\ pair.new \in Seq(Symbols)
    <3>1. pair.old \in Seq(STRING) /\ pair.new \in Seq(STRING)
      BY <2>3 DEF Pairs
    <3>2. ASSUME NEW s \in Seq(STRING) PROVE s \in Seq(Symbols)
      <4>1. Len(s) \in Nat /\ s \in [1..Len(s) -> STRING]
        BY <3>2, LenProperties
      <4>2. s \in [1..Len(s) -> Symbols]
        BY <4>1, SymbolsWritten
      <4>3. QED
        BY <4>1, <4>2
    <3>. HIDE DEF pair
    <3>3. QED
      BY <3>1, <3>2
  <2>. HIDE DEF pair
  <2>5. value' \in Seq(Symbols) /\ Fold(value') = Fold(value)
    <3>1. /\ Canonicalize(value, pair) \in Seq(Symbols)
          /\ Fold(Canonicalize(value, pair)) = Fold(value)
      BY <1>3, <2>3, <2>4, CanonicalizeFolds, SymbolsWritten
    <3>2. QED
      BY <2>1, <2>3, <3>1
  <2>6. names' \in Seq(Pairs) /\ \A n \in 1..Len(names') : Fold(names'[n].old) = Fold(names'[n].new)
    <3>1. /\ names' \in Seq(Pairs) /\ Len(names') = Len(names) - 1
          /\ \A n \in 1..Len(names') : names'[n] = names[n + 1]
      BY <1>3, <2>1, HeadTailProperties
    <3>2. \A n \in 1..Len(names') : n + 1 \in 1..Len(names)
      BY <1>3, <3>1, LenProperties
    <3>3. QED
      BY <1>3, <3>1, <3>2
  <2>7. Fold(value') = Fold(rooted')
    BY <2>1, <2>2, <2>5
  <2>8. rooted' # <<>> => Kept(text, rooted)' /\ Sought(text, rooted, Spellings)'
    BY <1>4, <2>1
  <2>9. QED
    BY <1>3, <2>1, <2>2, <2>5, <2>6, <2>7, <2>8 DEF RewriteInv
<1>7. CASE Flags
  <2>1. /\ step = "names" /\ step' = "done" /\ names' = names /\ rooted' = rooted
        /\ value' = CASE ~windows -> value
                      [] windows /\ single -> NormalizeArgument(value)
                      [] OTHER -> NormalizeCommand(value)
    BY <1>7 DEF Flags
  <2>2. IF windows THEN Fold(value) = Fold(rooted) ELSE value = rooted
    BY <1>1, <2>1 DEF RewriteInv
  <2>3. Slashed(value) \in Seq(Symbols) /\ Fold(Slashed(value)) = Fold(value)
    <3>. DEFINE s == Slashed(value)
    <3>1. s = [i \in DOMAIN value |-> s[i]] /\ \A i \in DOMAIN value : s[i] = Slash(value[i])
      BY DEF Slashed
    <3>. HIDE DEF s
    <3>2. s \in Seq(Symbols) /\ Fold(s) = Fold(value)
      BY <1>3, <3>1, TurnedFolds, SymbolsWritten
    <3>3. QED
      BY <3>2 DEF s
  <2>4. NormalizeArgument(value) \in Seq(Symbols) /\ Fold(NormalizeArgument(value)) = Fold(value)
    BY <1>3, <2>3 DEF NormalizeArgument
  <2>5. NormalizeCommand(value) \in Seq(Symbols) /\ Fold(NormalizeCommand(value)) = Fold(value)
    <3>. DEFINE s == NormalizeCommand(value)
    <3>1. s = [i \in DOMAIN value |-> s[i]]
          /\ \A i \in DOMAIN value : s[i] = value[i] \/ s[i] = Slash(value[i])
      BY DEF NormalizeCommand
    <3>. HIDE DEF s
    <3>2. s \in Seq(Symbols) /\ Fold(s) = Fold(value)
      BY <1>3, <3>1, TurnedFolds, SymbolsWritten
    <3>3. QED
      BY <3>2 DEF s
  <2>6. /\ value' \in Seq(Symbols)
        /\ IF windows THEN Fold(value') = Fold(rooted') ELSE value' = rooted'
    <3>1. CASE ~windows
      BY <1>3, <2>1, <2>2, <3>1
    <3>2. CASE windows /\ single
      BY <2>1, <2>2, <2>4, <3>2
    <3>3. CASE windows /\ ~single
      BY <2>1, <2>2, <2>5, <3>3
    <3>4. QED
      BY <3>1, <3>2, <3>3
  <2>7. rooted' # <<>> => Kept(text, rooted)' /\ Sought(text, rooted, Spellings)'
    BY <1>4, <2>1
  <2>8. QED
    BY <1>3, <2>1, <2>6, <2>7 DEF RewriteInv
<1>8. CASE LimitReached \/ UNCHANGED rewriteVars
  <2>1. names' = names /\ value' = value /\ rooted' = rooted /\ (step' = step \/ step' = "refused")
    BY <1>8 DEF LimitReached, rewriteVars
  <2>2. rooted' # <<>> => Kept(text, rooted)' /\ Sought(text, rooted, Spellings)'
    BY <1>4, <2>1
  <2>3. Fold(value)' = Fold(value) /\ Fold(rooted)' = Fold(rooted)
    BY <2>1
  <2>4. QED
    BY <1>1, <1>3, <2>1, <2>2, <2>3 DEF RewriteInv
<1>9. QED
  BY <1>1, <1>5, <1>6, <1>7, <1>8 DEF RewriteNext

(* RewriteInv is inductive. *)
THEOREM RewriteInvariance == RewriteSpec => []RewriteInv
<1>1. RewriteInit => RewriteInv
  BY RewriteAssumption, RewriteStarts
<1>2. RewriteInv /\ [RewriteNext]_rewriteVars => RewriteInv'
  BY RewriteAssumption, RewriteStep
<1>3. QED
  BY <1>1, <1>2, PTL DEF RewriteSpec

(* For every text and every table of spellings: whatever transform respells and
   turns, folded the text stays what it was, so that no part of an argument is
   lost, repeated or moved; on POSIX only roots are changed (NothingLost). *)
THEOREM LosesNothing == RewriteSpec => []NothingLost
<1>1. RewriteInv => NothingLost
  BY DEF RewriteInv, NothingLost
<1>2. RewriteSpec => []RewriteInv
  BY RewriteInvariance
<1>3. QED
  BY <1>1, <1>2, PTL

(* For every text and every table of spellings: the loop of Rewriter translates
   each argument that begins with the root, but one that an argument before it
   goes on into, and a root that is a whole argument or followed by a separator
   only; it leaves the rest as it was (RootsTranslated). *)
THEOREM TranslatesRoots == RewriteSpec => []RootsTranslated
<1>1. RewriteInv => RootsTranslated
  <2>1. SUFFICES ASSUME RewriteInv, rooted # <<>> PROVE RootsTranslated
    BY DEF RootsTranslated
  <2>2. Len(text) \in Nat /\ DOMAIN text = 1..Len(text)
    BY <2>1, LenProperties DEF RewriteInv
  <2>3. QED
    BY <2>1, <2>2, RewriteAssumption, RootsKept DEF RewriteInv
<1>2. RewriteSpec => []RewriteInv
  BY RewriteInvariance
<1>3. QED
  BY <1>1, <1>2, PTL

-----------------------------------------------------------------------------
(* Names: the search in the folded text is the reference on characters.     *)

\* What the reference makes of a text from i on, when f says it of what is behind.
Continued(t, old, new, f, i) ==
  IF \E j \in i..Len(t) : Spells(t, old, i, j)
  THEN new \o f[Spelling(t, old, i) + 1]
  ELSE <<t[i]>> \o f[i + 1]

\* f is the reference, from each place on.
Refers(U, t, old, new, f) ==
  /\ f \in [1..Len(t) + 1 -> Seq(U)]
  /\ f[Len(t) + 1] = <<>>
  /\ \A i \in 1..Len(t) : f[i] = Continued(t, old, new, f, i)

(* There is such an f, and the reference is its first value. *)
LEMMA ReferenceDef ==
  ASSUME NEW U, NEW t \in Seq(U), NEW old, NEW new \in Seq(U)
  PROVE  \E f : Refers(U, t, old, new, f) /\ Reference(t, old, new) = f[1]
<1>. DEFINE N == Len(t)
     Is(f, n) == /\ f \in [N + 1 - n..N + 1 -> Seq(U)]
                 /\ f[N + 1] = <<>>
                 /\ \A i \in N + 1 - n..N : f[i] = Continued(t, old, new, f, i)
     T == {n \in 0..N : \E f : Is(f, n)}
<1>1. N \in Nat /\ <<>> \in Seq(U) /\ \A i \in 1..N : t[i] \in U /\ <<t[i]>> \in Seq(U)
  <2>1. \A i \in 1..N : t[i] \in U
    BY ElementOfSeq
  <2>2. \A i \in 1..N : <<t[i]>> \in Seq(U)
    BY <2>1, AppendIsConcat
  <2>3. QED
    BY <2>1, <2>2, LenProperties, EmptySeq
<1>2. ASSUME NEW i \in 1..N, \E j \in i..N : Spells(t, old, i, j)
      PROVE  Spelling(t, old, i) \in i..N
  BY <1>2 DEF Spelling
<1>. HIDE DEF N
<1>3. ASSUME NEW i \in 1..N, NEW f, NEW g, \A j \in i + 1..N + 1 : f[j] = g[j]
      PROVE  Continued(t, old, new, f, i) = Continued(t, old, new, g, i)
  <2>1. i + 1 \in i + 1..N + 1 /\ \A j \in i..N : j + 1 \in i + 1..N + 1
    BY <1>1
  <2>2. QED
    BY <1>2, <1>3, <2>1 DEF Continued, N
<1>4. ASSUME NEW i \in 1..N, NEW f, \A j \in i + 1..N + 1 : f[j] \in Seq(U)
      PROVE  Continued(t, old, new, f, i) \in Seq(U)
  <2>1. i + 1 \in i + 1..N + 1 /\ \A j \in i..N : j + 1 \in i + 1..N + 1
    BY <1>1
  <2>2. f[i + 1] \in Seq(U)
    BY <1>4, <2>1
  <2>3. CASE \E j \in i..N : Spells(t, old, i, j)
    <3>1. f[Spelling(t, old, i) + 1] \in Seq(U)
      BY <1>2, <1>4, <2>1, <2>3
    <3>2. Continued(t, old, new, f, i) = new \o f[Spelling(t, old, i) + 1]
      BY <2>3 DEF Continued, N
    <3>3. QED
      BY <3>1, <3>2, ConcatProperties
  <2>4. CASE ~\E j \in i..N : Spells(t, old, i, j)
    <3>1. Continued(t, old, new, f, i) = <<t[i]>> \o f[i + 1]
      BY <2>4 DEF Continued, N
    <3>2. QED
      BY <1>1, <2>2, <3>1, ConcatProperties
  <2>5. QED
    BY <2>3, <2>4
<1>5. 0 \in T
  <2>. DEFINE f == [i \in N + 1 - 0..N + 1 |-> <<>>]
  <2>1. Is(f, 0)
    BY <1>1
  <2>2. 0 \in 0..N
    BY <1>1
  <2>. HIDE DEF f, Is
  <2>3. QED
    BY <2>1, <2>2
<1>6. ASSUME NEW n \in 0..N, n \in T, n < N PROVE n + 1 \in T
  <2>1. PICK f : Is(f, n)
    BY <1>6
  <2>2. /\ N - n \in 1..N /\ n \in Nat /\ n + 1 \in 0..N
        /\ N + 1 - (n + 1) = N - n /\ (N - n) + 1 = N + 1 - n
    BY <1>1, <1>6
  <2>. DEFINE here == Continued(t, old, new, f, N - n)
       g == [i \in N - n..N + 1 |-> IF i = N - n THEN here ELSE f[i]]
  <2>3. here \in Seq(U)
    BY <1>4, <2>1, <2>2
  <2>. HIDE DEF here
  <2>4. g \in [N - n..N + 1 -> Seq(U)]
    <3>1. \A i \in N - n..N + 1 : i = N - n \/ i \in N + 1 - n..N + 1
      BY <1>1, <2>2
    <3>2. QED
      BY <2>1, <2>3, <3>1
  <2>5. g[N - n] = here /\ \A i \in N + 1 - n..N + 1 : g[i] = f[i]
    BY <1>1, <2>2
  <2>. HIDE DEF g
  <2>6. g[N + 1] = <<>>
    BY <1>1, <2>1, <2>2, <2>5
  <2>7. ASSUME NEW i \in N - n..N PROVE g[i] = Continued(t, old, new, g, i)
    <3>1. i \in 1..N /\ \A j \in i + 1..N + 1 : j \in N + 1 - n..N + 1
      BY <1>1, <2>2
    <3>2. Continued(t, old, new, g, i) = Continued(t, old, new, f, i)
      BY <1>3, <2>5, <3>1
    <3>3. CASE i = N - n
      BY <2>5, <3>2, <3>3 DEF here
    <3>4. CASE i # N - n
      <4>1. i \in N + 1 - n..N /\ i \in N + 1 - n..N + 1
        BY <1>1, <2>2, <3>4
      <4>2. QED
        BY <2>1, <2>5, <3>2, <4>1
    <3>5. QED
      BY <3>3, <3>4
  <2>8. Is(g, n + 1)
    BY <2>2, <2>4, <2>6, <2>7
  <2>9. QED
    BY <2>2, <2>8
<1>7. N \in T
  <2>1. T \in SUBSET (0..N) /\ N \in 0..N
    BY <1>1
  <2>. HIDE DEF T
  <2>2. QED
    BY <1>1, <1>5, <1>6, <2>1, InductionUpTo
<1>8. PICK f : Is(f, N)
  BY <1>7
<1>9. N + 1 - N = 1
  BY <1>1
<1>10. /\ f \in [1..N + 1 -> Seq(U)] /\ f[N + 1] = <<>>
       /\ \A i \in 1..N : f[i] = Continued(t, old, new, f, i)
  BY <1>8, <1>9
<1>. HIDE DEF Is, T
<1>. DEFINE Body(h) ==
       [i \in 1..N + 1 |->
          IF i > N THEN <<>>
          ELSE IF \E j \in i..N : Spells(t, old, i, j)
          THEN new \o h[Spelling(t, old, i) + 1]
          ELSE <<t[i]>> \o h[i + 1]]
     g == CHOOSE h : h = Body(h)
<1>11. Reference(t, old, new) = g[1]
  BY DEF Reference, N
<1>12. \A h, i : i \in 1..N => Body(h)[i] = Continued(t, old, new, h, i)
  <2>1. ASSUME NEW h, NEW i, i \in 1..N PROVE Body(h)[i] = Continued(t, old, new, h, i)
    <3>1. i \in 1..N + 1 /\ ~(i > N)
      BY <1>1, <2>1
    <3>2. QED
      BY <3>1 DEF Continued, N
  <2>2. QED
    BY <2>1
<1>13. \A h : Body(h)[N + 1] = <<>>
  <2>1. N + 1 \in 1..N + 1 /\ N + 1 > N
    BY <1>1
  <2>2. QED
    BY <2>1
<1>14. f = Body(f)
  <2>1. ASSUME NEW i \in 1..N + 1 PROVE f[i] = Body(f)[i]
    <3>1. i = N + 1 \/ i \in 1..N
      BY <1>1
    <3>. HIDE DEF Body
    <3>2. QED
      BY <1>10, <1>12, <1>13, <3>1
  <2>2. f = [i \in 1..N + 1 |-> f[i]] /\ Body(f) = [i \in 1..N + 1 |-> Body(f)[i]]
    BY <1>10
  <2>. HIDE DEF Body
  <2>3. QED
    BY <2>1, <2>2
<1>15. g = Body(g)
  <2>. HIDE DEF Body
  <2>1. QED
    BY <1>14
<1>16. DOMAIN g = 1..N + 1
  <2>1. DOMAIN Body(g) = 1..N + 1
    OBVIOUS
  <2>. HIDE DEF Body, g
  <2>2. QED
    BY <1>15, <2>1
<1>. HIDE DEF g
<1>17. g[N + 1] = <<>> /\ \A i \in 1..N : g[i] = Continued(t, old, new, g, i)
  <2>. HIDE DEF Body
  <2>1. QED
    BY <1>12, <1>13, <1>15
<1>. DEFINE E == {n \in 0..N : \A i \in N + 1 - n..N + 1 : g[i] \in Seq(U)}
<1>18. 0 \in E
  <2>1. 0 \in 0..N /\ \A i \in N + 1 - 0..N + 1 : i = N + 1
    BY <1>1
  <2>2. QED
    BY <1>1, <1>17, <2>1
<1>19. ASSUME NEW n \in 0..N, n \in E, n < N PROVE n + 1 \in E
  <2>1. /\ N - n \in 1..N /\ (N - n) + 1 = N + 1 - n /\ n + 1 \in 0..N
        /\ N + 1 - (n + 1) = N - n
        /\ \A i \in N - n..N + 1 : i = N - n \/ i \in N + 1 - n..N + 1
    BY <1>1, <1>19
  <2>2. \A i \in N + 1 - n..N + 1 : g[i] \in Seq(U)
    BY <1>19
  <2>3. g[N - n] \in Seq(U)
    BY <1>4, <1>17, <2>1, <2>2
  <2>4. QED
    BY <2>1, <2>2, <2>3
<1>20. N \in E
  <2>1. E \in SUBSET (0..N) /\ N \in 0..N
    BY <1>1
  <2>. HIDE DEF E
  <2>2. QED
    BY <1>1, <1>18, <1>19, <2>1, InductionUpTo
<1>21. g \in [1..N + 1 -> Seq(U)]
  <2>1. g = [i \in 1..N + 1 |-> g[i]]
    <3>1. Body(g) = [i \in 1..N + 1 |-> Body(g)[i]]
      OBVIOUS
    <3>. HIDE DEF Body
    <3>2. QED
      BY <1>15, <3>1
  <2>2. \A i \in 1..N + 1 : g[i] \in Seq(U)
    BY <1>9, <1>20
  <2>3. QED
    BY <2>1, <2>2
<1>22. QED
  BY <1>11, <1>17, <1>21 DEF N, Refers

(* It is made of the symbols of the text and of the name that is put in. *)
LEMMA ReferenceTyped ==
  ASSUME NEW U, NEW t \in Seq(U), NEW old, NEW new \in Seq(U)
  PROVE  Reference(t, old, new) \in Seq(U)
<1>1. PICK f : Refers(U, t, old, new, f) /\ Reference(t, old, new) = f[1]
  BY ReferenceDef
<1>2. 1 \in 1..Len(t) + 1
  BY LenProperties
<1>3. QED
  BY <1>1, <1>2 DEF Refers

(* What a text is folded to grows with every character. *)
LEMMA FoldLonger ==
  ASSUME NEW U, OfTheCode \subseteq U, NEW s \in Seq(U), Len(s) > 0
  PROVE  Len(Fold(s)) > 0
<1>. DEFINE n == Len(s) - 1
     u == SubSeq(s, 1, n)
     c == s[n + 1]
<1>1. Len(s) \in Nat /\ n \in Nat /\ n \in 0..Len(s) /\ n + 1 = Len(s) /\ n + 1 \in 1..Len(s)
      /\ 1 \in 1..Len(s) /\ 1 \in Nat /\ 1 > 0
  BY LenProperties
<1>2. u \in Seq(U) /\ c \in U
  BY <1>1, PartTyped, ElementOfSeq
<1>3. s = u \o <<c>>
  <2>1. SubSeq(s, 1, n + 1) = u \o <<c>>
    BY <1>1, SubSeqRecursiveSecond
  <2>2. SubSeq(s, 1, n + 1) = s
    BY <1>1, SubSeqFull
  <2>3. QED
    BY <2>1, <2>2
<1>. HIDE DEF n, u, c
<1>4. s = Append(u, c)
  BY <1>2, <1>3, AppendIsConcat
<1>5. Fold(s) = Fold(u) \o FoldOf(c)
  BY <1>2, <1>4, FoldAppend
<1>6. /\ Fold(u) \in Seq(U) /\ FoldOf(c) \in Seq(U) /\ Len(FoldOf(c)) > 0
      /\ Len(Fold(u)) \in Nat /\ Len(FoldOf(c)) \in Nat
  BY <1>2, FoldTyped, FoldOfIs, LenProperties
<1>7. Len(Fold(s)) = Len(Fold(u)) + Len(FoldOf(c))
  BY <1>5, <1>6, ConcatProperties
<1>8. QED
  BY <1>6, <1>7

(* So no two places of a text are one place when it is folded. *)
LEMMA FoldedIs ==
  ASSUME NEW U, OfTheCode \subseteq U, NEW t \in Seq(U)
  PROVE  /\ Folded(t, 0) = 0 /\ Folded(t, Len(t)) = Len(Fold(t))
         /\ \A n \in 0..Len(t) : Folded(t, n) \in Nat
         /\ \A n, m \in 0..Len(t) : n < m => Folded(t, n) < Folded(t, m)
         /\ \A n, m \in 0..Len(t) : Folded(t, n) = Folded(t, m) => n = m
<1>1. SubSeq(t, 1, 0) = <<>> /\ SubSeq(t, 1, Len(t)) = t /\ Len(<<>>) = 0 /\ Len(t) \in Nat
  BY SubSeqEmpty, SubSeqFull, EmptySeq, LenProperties
<1>2. Folded(t, 0) = 0 /\ Folded(t, Len(t)) = Len(Fold(t))
  BY <1>1, FoldEmpty DEF Folded
<1>3. ASSUME NEW n \in 0..Len(t) PROVE Folded(t, n) \in Nat
  <2>1. n \in n..Len(t)
    BY <1>1
  <2>2. QED
    BY <2>1, FoldSplit
<1>4. ASSUME NEW n \in 0..Len(t), NEW m \in 0..Len(t), n < m
      PROVE  Folded(t, n) < Folded(t, m)
  <2>. DEFINE part == SubSeq(t, n + 1, m)
  <2>1. m \in n..Len(t) /\ n + 1 \in Nat /\ n + 1 > 0 /\ n + 1 \in 1..Len(t) + 1 /\ m \in Nat
        /\ m - (n + 1) + 1 > 0 /\ n + 1 <= m /\ n + 1 \in Int /\ m \in Int
    BY <1>1, <1>4
  <2>2. part \in Seq(U) /\ Len(part) > 0
    <3>1. part \in Seq(U)
      BY <2>1, PartTyped
    <3>2. \A i \in n + 1..m : t[i] \in U
      <4>1. \A i \in n + 1..m : i \in 1..Len(t)
        BY <1>1, <2>1
      <4>2. QED
        BY <4>1, ElementOfSeq
    <3>3. Len(part) = m - (n + 1) + 1
      BY <2>1, <3>2, SubSeqProperties
    <3>4. QED
      BY <2>1, <3>1, <3>3
  <2>3. Folded(t, m) = Folded(t, n) + Len(Fold(part)) /\ Folded(t, n) \in Nat
    BY <2>1, FoldSplit
  <2>. HIDE DEF part
  <2>4. Len(Fold(part)) > 0 /\ Len(Fold(part)) \in Nat
    BY <2>2, FoldLonger, FoldTyped, LenProperties
  <2>5. QED
    BY <2>3, <2>4
<1>5. ASSUME NEW n \in 0..Len(t), NEW m \in 0..Len(t), Folded(t, n) = Folded(t, m) PROVE n = m
  <2>1. Folded(t, n) \in Nat /\ ~(Folded(t, n) < Folded(t, m)) /\ ~(Folded(t, m) < Folded(t, n))
    BY <1>3, <1>5
  <2>2. ~(n < m) /\ ~(m < n)
    BY <1>4, <2>1
  <2>3. QED
    BY <1>1, <2>2
<1>6. QED
  BY <1>2, <1>3, <1>4, <1>5

(* What a part of a text is folded to is a part of what the text is folded to. *)
LEMMA PartFolds ==
  ASSUME NEW U, OfTheCode \subseteq U, NEW t \in Seq(U),
         NEW n \in 0..Len(t), NEW m \in 0..Len(t), n < m
  PROVE  /\ Fold(SubSeq(t, n + 1, m)) = SubSeq(Fold(t), Folded(t, n) + 1, Folded(t, m))
         /\ Len(Fold(SubSeq(t, n + 1, m))) = Folded(t, m) - Folded(t, n)
<1>. DEFINE N == Len(t)
     a == Fold(SubSeq(t, 1, n))
     b == Fold(SubSeq(t, n + 1, m))
     c == Fold(SubSeq(t, m + 1, N))
<1>1. N \in Nat /\ m \in n..N /\ N \in m..N /\ n \in Nat /\ m \in Nat
  BY LenProperties
<1>2. /\ Fold(SubSeq(t, 1, m)) = a \o b /\ a \in Seq(U) /\ b \in Seq(U)
      /\ Folded(t, m) = Folded(t, n) + Len(b)
  BY <1>1, FoldSplit
<1>3. Fold(t) = (a \o b) \o c /\ c \in Seq(U)
  <2>1. SubSeq(t, 1, N) = t
    BY SubSeqFull
  <2>2. Fold(SubSeq(t, 1, N)) = Fold(SubSeq(t, 1, m)) \o c /\ c \in Seq(U)
    BY <1>1, FoldSplit
  <2>3. QED
    BY <1>2, <2>1, <2>2
<1>4. Folded(t, n) = Len(a)
  BY DEF Folded
<1>5. Folded(t, n) < Folded(t, m) /\ Folded(t, n) \in Nat
  BY FoldedIs
<1>. HIDE DEF a, b, c
<1>6. Len(b) \in Nat /\ Len(b) > 0
  BY <1>2, <1>5, LenProperties
<1>7. SubSeq((a \o b) \o c, Len(a) + 1, Len(a) + Len(b)) = b
  BY <1>2, <1>3, <1>6, MiddlePart
<1>8. b = SubSeq(Fold(t), Folded(t, n) + 1, Folded(t, m)) /\ Len(b) = Folded(t, m) - Folded(t, n)
  BY <1>2, <1>3, <1>4, <1>5, <1>6, <1>7
<1>9. QED
  BY <1>8 DEF b

(* A position that only moves on finds what one from the start would find. *)
LEMMA AdvanceFinds ==
  ASSUME NEW U, OfTheCode \subseteq U, NEW t \in Seq(U),
         NEW taken \in 0..Len(t), NEW aim \in Int, \A m \in 0..taken - 1 : Folded(t, m) < aim
  PROVE  /\ Advance(t, taken, aim) \in 0..Len(t)
         /\ \A m \in 0..Advance(t, taken, aim) - 1 : Folded(t, m) < aim
         /\ \A m \in 0..Len(t) : Folded(t, m) = aim => m = Advance(t, taken, aim)
<1>. DEFINE n == Advance(t, taken, aim)
<1>1. /\ n \in taken..Len(t)
      /\ n = Len(t) \/ Folded(t, n) >= aim
      /\ \A m \in taken..n - 1 : Folded(t, m) < aim
  BY AdvanceIs
<1>. HIDE DEF n
<1>2. Len(t) \in Nat /\ n \in 0..Len(t)
  BY <1>1, LenProperties
<1>3. ASSUME NEW m \in 0..n - 1 PROVE Folded(t, m) < aim
  <2>1. m \in 0..taken - 1 \/ m \in taken..n - 1
    BY <1>1, <1>2
  <2>2. QED
    BY <1>1, <2>1
<1>4. ASSUME NEW m \in 0..Len(t), Folded(t, m) = aim PROVE m = n
  <2>1. m \notin 0..n - 1
    BY <1>3, <1>4
  <2>2. SUFFICES ASSUME n < m PROVE FALSE
    BY <1>2, <2>1
  <2>3. Folded(t, n) < Folded(t, m) /\ Folded(t, n) \in Nat /\ n # Len(t)
    BY <1>2, <2>2, FoldedIs
  <2>4. QED
    BY <1>1, <1>4, <2>3
<1>5. QED
  BY <1>2, <1>3, <1>4 DEF n

\* What a name may go on with, before it.
NameParts == (Letters \ {"-"}) \cup Spellings \cup {"/workspace", ".", "/", "\\"}
Apart(t) == \A m \in 1..Len(t) : t[m] \in Boundary <=> t[m] \notin NameParts

(* A stretch spells the name exactly when the code finds it in the folded text. *)
LEMMA SpellsWhen ==
  ASSUME NEW U, OfTheCode \subseteq U, NEW t \in Seq(U), NEW old \in Seq(U), Len(old) > 0,
         Apart(t), NEW n \in 0..Len(t) - 1, NEW j \in 0..Len(t)
  PROVE  (j \in n + 1..Len(t) /\ Spells(t, old, n + 1, j)) <=>
           /\ SubSeq(Fold(t), Folded(t, n) + 1, Folded(t, n) + Len(Fold(old))) = Fold(old)
           /\ Folded(t, j) = Folded(t, n) + Len(Fold(old))
           /\ WholeName(t, n, j)
<1>. DEFINE N == Len(t)
     needle == Fold(old)
     L == Len(needle)
<1>1. /\ N \in Nat /\ L \in Nat /\ L > 0 /\ n \in 0..N /\ n \in Nat /\ j \in Nat
      /\ Folded(t, n) \in Nat /\ Folded(t, j) \in Nat
  <2>1. L \in Nat /\ L > 0
    BY FoldTyped, FoldLonger, LenProperties
  <2>2. N \in Nat
    BY LenProperties
  <2>3. n \in 0..N
    BY <2>2
  <2>4. Folded(t, n) \in Nat /\ Folded(t, j) \in Nat
    BY <2>3, FoldedIs
  <2>. HIDE DEF needle
  <2>5. QED
    BY <2>1, <2>2, <2>3, <2>4
<1>2. WholeName(t, n, j) <=> /\ n + 1 = 1 \/ t[(n + 1) - 1] \in Boundary
                             /\ j = N \/ t[j + 1] \in Blank \cup Quotes
  <2>1. (n + 1) - 1 = n /\ (n = 0 <=> n + 1 = 1)
    BY <1>1
  <2>2. n = 0 \/ n \in 1..N
    BY <1>1
  <2>3. n = 0 \/ (t[n] \in Boundary <=> t[n] \notin NameParts)
    BY <2>2 DEF Apart
  <2>4. WholeName(t, n, j) <=> /\ n = 0 \/ t[n] \notin NameParts
                               /\ j = N \/ t[j + 1] \in Blank \cup Quotes
    BY DEF WholeName, NameParts
  <2>. HIDE DEF N
  <2>5. QED
    BY <2>1, <2>3, <2>4
<1>3. Spells(t, old, n + 1, j) <=> Fold(SubSeq(t, n + 1, j)) = needle /\ WholeName(t, n, j)
  BY <1>2 DEF Spells
<1>4. ASSUME n < j
      PROVE  /\ Fold(SubSeq(t, n + 1, j)) = SubSeq(Fold(t), Folded(t, n) + 1, Folded(t, j))
             /\ Len(Fold(SubSeq(t, n + 1, j))) = Folded(t, j) - Folded(t, n)
  BY <1>1, <1>4, PartFolds
<1>5. ASSUME j \in n + 1..N, Spells(t, old, n + 1, j)
      PROVE  /\ SubSeq(Fold(t), Folded(t, n) + 1, Folded(t, n) + L) = needle
             /\ Folded(t, j) = Folded(t, n) + L
             /\ WholeName(t, n, j)
  <2>1. n < j
    BY <1>1, <1>5
  <2>2. Fold(SubSeq(t, n + 1, j)) = needle /\ WholeName(t, n, j)
    BY <1>3, <1>5
  <2>3. L = Folded(t, j) - Folded(t, n)
    BY <1>4, <2>1, <2>2
  <2>. HIDE DEF L
  <2>4. Folded(t, j) = Folded(t, n) + L
    BY <1>1, <2>3
  <2>5. QED
    BY <1>4, <2>1, <2>2, <2>4
<1>6. ASSUME SubSeq(Fold(t), Folded(t, n) + 1, Folded(t, n) + L) = needle,
             Folded(t, j) = Folded(t, n) + L, WholeName(t, n, j)
      PROVE  j \in n + 1..N /\ Spells(t, old, n + 1, j)
  <2>1. n < j
    <3>1. Folded(t, n) < Folded(t, j)
      <4>. HIDE DEF L
      <4>1. QED
        BY <1>1, <1>6
    <3>2. n # j /\ ~(j < n)
      <4>1. ASSUME j < n PROVE FALSE
        <5>1. Folded(t, j) < Folded(t, n)
          BY <1>1, <4>1, FoldedIs
        <5>2. QED
          BY <1>1, <3>1, <5>1
      <4>2. n # j
        BY <1>1, <3>1
      <4>3. QED
        BY <4>1, <4>2
    <3>3. QED
      BY <1>1, <3>2
  <2>2. Fold(SubSeq(t, n + 1, j)) = needle
    BY <1>4, <1>6, <2>1
  <2>3. j \in n + 1..N
    BY <1>1, <2>1
  <2>4. QED
    BY <1>3, <1>6, <2>2, <2>3
<1>7. QED
  BY <1>5, <1>6

\* Four texts, one after the other.
Regrouped(a, b, c, d) == (a \o b) \o (c \o d) = (a \o (b \o c)) \o d
(* They may be taken together in any way. *)
LEMMA Regroup ==
  ASSUME NEW U, NEW a \in Seq(U), NEW b \in Seq(U), NEW c \in Seq(U), NEW d \in Seq(U)
  PROVE  Regrouped(a, b, c, d)
<1>. DEFINE front == a \o b
<1>1. front \in Seq(U)
  BY ConcatProperties
<1>. HIDE DEF front
<1>2. Associates(front, c, d) /\ Associates(a, b, c)
  BY <1>1, Associate
<1>3. QED
  BY <1>2 DEF Associates, Regrouped, front

\* A part of a text, behind out and before rest, grows.
Prolongs(t, n, c, out, rest) ==
  (out \o SubSeq(t, c + 1, n)) \o (<<t[n + 1]>> \o rest) = (out \o SubSeq(t, c + 1, n + 1)) \o rest
(* It does so by the character that stood behind it. *)
LEMMA Prolong ==
  ASSUME NEW U, NEW t \in Seq(U), NEW n \in 0..Len(t) - 1, NEW c \in 0..n,
         NEW out \in Seq(U), NEW rest \in Seq(U)
  PROVE  /\ Prolongs(t, n, c, out, rest)
         /\ SubSeq(t, c + 1, n) \in Seq(U) /\ SubSeq(t, c + 1, n + 1) \in Seq(U)
<1>. DEFINE a == SubSeq(t, c + 1, n)
     b == <<t[n + 1]>>
<1>1. /\ Len(t) \in Nat /\ n \in Nat /\ c \in Nat /\ c + 1 \in Nat /\ c + 1 > 0
      /\ n \in 0..Len(t) /\ n + 1 \in 0..Len(t) /\ n + 1 \in 1..Len(t) /\ c + 1 \in 1..n + 1
      /\ c + 1 \in 1..Len(t)
  BY LenProperties
<1>2. a \in Seq(U) /\ SubSeq(t, c + 1, n + 1) \in Seq(U) /\ b \in Seq(U)
  <2>1. t[n + 1] \in U
    BY <1>1, ElementOfSeq
  <2>2. b \in Seq(U)
    BY <2>1, AppendIsConcat
  <2>3. QED
    BY <1>1, <2>2, PartTyped
<1>3. SubSeq(t, c + 1, n + 1) = a \o b
  <2>1. \A m \in 1..Len(t) : \A k \in 0..Len(t) - 1 :
          m <= k + 1 => SubSeq(t, m, k + 1) = SubSeq(t, m, k) \o <<t[k + 1]>>
    BY SubSeqRecursiveSecond
  <2>2. c + 1 <= n + 1
    BY <1>1
  <2>3. QED
    BY <1>1, <2>1, <2>2
<1>. HIDE DEF a, b
<1>4. Regrouped(out, a, b, rest)
  BY <1>2, Regroup
<1>5. (out \o a) \o (b \o rest) = (out \o (a \o b)) \o rest
  BY <1>4 DEF Regrouped
<1>6. QED
  BY <1>2, <1>3, <1>5 DEF a, b, Prolongs

\* What is written and what is left up to p: the reference makes the rest.
Leads(f, t, out, c, p) == f[1] = out \o SubSeq(t, c + 1, p) \o f[p + 1]

\* So it is up to every p that comes first or not behind the bound, folded.
LeadsUpTo(f, t, out, c, bound) ==
  \A p \in c..Len(t) : p = c \/ Folded(t, p - 1) <= bound => Leads(f, t, out, c, p)

\* How far the search has come at k: whatever begins before it is decided, and
\* what is left is what the reference f makes of it from there on.
Decided(U, t, needle, f, acc, k) ==
  /\ acc \in [from : 0..Len(t), to : 0..Len(t), cursor : 0..Len(t), out : Seq(U)]
  /\ \A m \in 0..acc.from - 1 : Folded(t, m) < k - 1
  /\ \A m \in 0..acc.to - 1 : Folded(t, m) < k - 1 + Len(needle)
  /\ LeadsUpTo(f, t, acc.out, acc.cursor, k - 1)

(* Where no name is spelled the reference goes on by a character. *)
LEMMA NothingSpelled ==
  ASSUME NEW U, NEW t \in Seq(U), NEW old, NEW new, NEW f, Refers(U, t, old, new, f),
         NEW n \in 0..Len(t) - 1, \A j \in n + 1..Len(t) : ~Spells(t, old, n + 1, j),
         NEW c \in 0..n, NEW out \in Seq(U), Leads(f, t, out, c, n)
  PROVE  Leads(f, t, out, c, n + 1)
<1>1. n + 1 \in 1..Len(t) /\ (n + 1) + 1 \in 1..Len(t) + 1
  BY LenProperties
<1>2. f[n + 1] = <<t[n + 1]>> \o f[(n + 1) + 1] /\ f[(n + 1) + 1] \in Seq(U)
  <2>1. f[n + 1] = Continued(t, old, new, f, n + 1)
    BY <1>1 DEF Refers
  <2>2. ~\E j \in n + 1..Len(t) : Spells(t, old, n + 1, j)
    OBVIOUS
  <2>3. Continued(t, old, new, f, n + 1) = <<t[n + 1]>> \o f[(n + 1) + 1]
    BY <2>2 DEF Continued
  <2>4. f[(n + 1) + 1] \in Seq(U)
    BY <1>1 DEF Refers
  <2>5. QED
    BY <2>1, <2>3, <2>4
<1>. DEFINE rest == f[(n + 1) + 1]
<1>3. rest \in Seq(U)
  BY <1>2
<1>. HIDE DEF rest
<1>4. Prolongs(t, n, c, out, rest)
  BY <1>3, Prolong
<1>5. QED
  BY <1>2, <1>4 DEF rest, Prolongs, Leads

(* One place of the folded text: when the name is there and is the whole of one,
   the reference replaces it at the same place, and nowhere else between. *)
LEMMA FoundDecides ==
  ASSUME NEW U, OfTheCode \subseteq U, NEW t \in Seq(U), NEW old \in Seq(U), Len(old) > 0,
         NEW new \in Seq(U), Apart(t), NEW f, Refers(U, t, old, new, f),
         NEW acc, NEW k \in Nat, k > 0, Decided(U, t, Fold(old), f, acc, k - 1)
  PROVE  Decided(U, t, Fold(old), f, Found(t, new, Fold(old), acc, k), k)
<1>. DEFINE N == Len(t)
     needle == Fold(old)
     L == Len(needle)
     from == Advance(t, acc.from, k - 1)
     to == Advance(t, acc.to, k - 1 + L)
<1>1. /\ N \in Nat /\ L \in Nat /\ L > 0 /\ needle \in Seq(U)
      /\ acc.from \in 0..N /\ acc.to \in 0..N /\ acc.cursor \in 0..N /\ acc.out \in Seq(U)
  <2>1. L \in Nat /\ L > 0 /\ needle \in Seq(U)
    BY FoldTyped, FoldLonger, LenProperties
  <2>2. acc \in [from : 0..N, to : 0..N, cursor : 0..N, out : Seq(U)]
    BY DEF Decided
  <2>. HIDE DEF needle
  <2>3. QED
    BY <2>1, <2>2, LenProperties
<1>2. /\ \A m \in 0..acc.from - 1 : Folded(t, m) < k - 1 - 1
      /\ \A m \in 0..acc.to - 1 : Folded(t, m) < k - 1 - 1 + L
      /\ \A p \in acc.cursor..N :
           p = acc.cursor \/ Folded(t, p - 1) <= k - 1 - 1 => Leads(f, t, acc.out, acc.cursor, p)
  BY DEF Decided, LeadsUpTo
<1>3. \A m \in 0..N : Folded(t, m) \in Nat
  BY FoldedIs
<1>4. /\ \A m \in 0..acc.from - 1 : Folded(t, m) < k - 1
      /\ \A m \in 0..acc.to - 1 : Folded(t, m) < k - 1 + L
  <2>. HIDE DEF L, N
  <2>1. \A m \in 0..acc.from - 1 : m \in 0..N
    BY <1>1
  <2>2. \A m \in 0..acc.to - 1 : m \in 0..N
    BY <1>1
  <2>3. \A m \in 0..acc.from - 1 : Folded(t, m) < k - 1
    BY <1>2, <1>3, <2>1
  <2>4. \A m \in 0..acc.to - 1 : Folded(t, m) < k - 1 + L
    <3>1. ASSUME NEW m \in 0..acc.to - 1 PROVE Folded(t, m) < k - 1 + L
      <4>1. Folded(t, m) \in Nat /\ Folded(t, m) < k - 1 - 1 + L
        BY <1>2, <1>3, <2>2
      <4>2. QED
        BY <1>1, <4>1
    <3>2. QED
      BY <3>1
  <2>5. QED
    BY <2>3, <2>4
<1>5. /\ from \in 0..N
      /\ \A m \in 0..from - 1 : Folded(t, m) < k - 1
      /\ \A m \in 0..N : Folded(t, m) = k - 1 => m = from
  <2>1. k - 1 \in Int
    OBVIOUS
  <2>2. QED
    BY <1>1, <1>4, <2>1, AdvanceFinds
<1>6. /\ to \in 0..N
      /\ \A m \in 0..to - 1 : Folded(t, m) < k - 1 + L
      /\ \A m \in 0..N : Folded(t, m) = k - 1 + L => m = to
  <2>1. k - 1 + L \in Int
    BY <1>1
  <2>. HIDE DEF L
  <2>2. QED
    BY <1>1, <1>4, <2>1, AdvanceFinds
<1>. DEFINE Else == [acc EXCEPT !.from = from, !.to = to]
     Then == [from |-> from, to |-> to, cursor |-> to,
              out |-> (acc.out \o SubSeq(t, acc.cursor + 1, from)) \o new]
     Here == SubSeq(Fold(t), k, k - 1 + L) = needle
     Whole == /\ Hit(t, from, k - 1) /\ Hit(t, to, k - 1 + L)
              /\ from >= acc.cursor /\ WholeName(t, from, to)
<1>7. Found(t, new, needle, acc, k) = IF ~Here THEN acc ELSE IF Whole THEN Then ELSE Else
  BY DEF Found
<1>. HIDE DEF from, to, N, L, Else, Then
<1>8. ASSUME ~(Here /\ Whole), NEW p \in acc.cursor..N, p = acc.cursor \/ Folded(t, p - 1) <= k - 1
      PROVE  Leads(f, t, acc.out, acc.cursor, p)
  <2>1. CASE p = acc.cursor \/ Folded(t, p - 1) <= k - 1 - 1
    BY <1>2, <2>1
  <2>2. CASE ~(p = acc.cursor \/ Folded(t, p - 1) <= k - 1 - 1)
    <3>. DEFINE n == p - 1
    <3>1. /\ n \in 0..N - 1 /\ n \in acc.cursor..N /\ n \in 0..N /\ n + 1 = p /\ n \in Nat
          /\ acc.cursor \in 0..n
      BY <1>1, <2>2
    <3>2. Folded(t, n) = k - 1
      <4>1. Folded(t, n) <= k - 1 /\ ~(Folded(t, n) <= k - 1 - 1)
        BY <1>8, <2>2
      <4>2. Folded(t, n) \in Nat
        BY <1>3, <3>1
      <4>3. PICK x : x = Folded(t, n)
        OBVIOUS
      <4>4. x \in Nat /\ x <= k - 1 /\ ~(x <= k - 1 - 1)
        BY <4>1, <4>2, <4>3
      <4>5. x = k - 1
        BY <4>4
      <4>6. QED
        BY <4>3, <4>5
    <3>. HIDE DEF n
    <3>3. n = from
      BY <1>5, <3>1, <3>2
    <3>4. Leads(f, t, acc.out, acc.cursor, n)
      <4>1. CASE n = acc.cursor
        <5>1. QED
          BY <1>2, <3>1, <4>1
      <4>2. CASE n # acc.cursor
        <5>1. n - 1 \in 0..N /\ n - 1 < n
          BY <1>1, <3>1, <4>2
        <5>2. Folded(t, n - 1) < Folded(t, n) /\ Folded(t, n - 1) \in Nat
          BY <3>1, <5>1, FoldedIs DEF N
        <5>3. Folded(t, n - 1) <= k - 1 - 1
          BY <3>2, <5>2
        <5>4. QED
          BY <1>2, <3>1, <5>3
      <4>3. QED
        BY <4>1, <4>2
    <3>5. ASSUME NEW j \in n + 1..N, Spells(t, old, n + 1, j) PROVE FALSE
      <4>1. j \in 0..N
        BY <3>1, <1>1
      <4>2. /\ SubSeq(Fold(t), Folded(t, n) + 1, Folded(t, n) + L) = needle
            /\ Folded(t, j) = Folded(t, n) + L
            /\ WholeName(t, n, j)
        BY <3>1, <3>5, <4>1, SpellsWhen DEF N, L
      <4>3. k - 1 + 1 = k
        OBVIOUS
      <4>4. j = to
        BY <1>6, <3>2, <4>1, <4>2
      <4>5. Here
        BY <3>2, <4>2, <4>3
      <4>6. from >= acc.cursor
        BY <1>1, <3>1, <3>3
      <4>7. Whole
        BY <3>2, <3>3, <4>2, <4>4, <4>6 DEF Hit
      <4>8. QED
        BY <1>8, <4>5, <4>7
    <3>6. Leads(f, t, acc.out, acc.cursor, n + 1)
      BY <1>1, <3>1, <3>4, <3>5, NothingSpelled DEF N
    <3>7. QED
      BY <3>1, <3>6
  <2>3. QED
    BY <2>1, <2>2
<1>9. ASSUME ~Here PROVE Decided(U, t, needle, f, acc, k)
  <2>1. acc \in [from : 0..N, to : 0..N, cursor : 0..N, out : Seq(U)]
    BY DEF Decided, N
  <2>2. QED
    BY <1>4, <1>8, <1>9, <2>1 DEF Decided, LeadsUpTo, N, L
<1>10. ASSUME ~Whole PROVE Decided(U, t, needle, f, Else, k)
  <2>1. acc \in [from : 0..N, to : 0..N, cursor : 0..N, out : Seq(U)]
    BY DEF Decided, N
  <2>2. /\ Else \in [from : 0..N, to : 0..N, cursor : 0..N, out : Seq(U)]
        /\ Else.from = from /\ Else.to = to /\ Else.cursor = acc.cursor /\ Else.out = acc.out
    BY <1>5, <1>6, <2>1 DEF Else
  <2>. HIDE DEF Whole, Here
  <2>3. QED
    BY <1>5, <1>6, <1>8, <1>10, <2>2 DEF Decided, LeadsUpTo, N, L
<1>11. ASSUME Here, Whole PROVE Decided(U, t, needle, f, Then, k)
  <2>1. /\ Folded(t, from) = k - 1 /\ Folded(t, to) = k - 1 + L
        /\ from >= acc.cursor /\ WholeName(t, from, to)
    BY <1>11 DEF Hit
  <2>2. from < to
    <3>1. ~(to < from) /\ to # from
      <4>1. ASSUME to < from PROVE FALSE
        <5>1. Folded(t, to) < Folded(t, from)
          BY <1>5, <1>6, <4>1, FoldedIs DEF N
        <5>2. QED
          BY <1>1, <2>1, <5>1
      <4>2. to # from
        BY <1>1, <2>1
      <4>3. QED
        BY <4>1, <4>2
    <3>2. QED
      BY <1>1, <1>5, <1>6, <3>1
  <2>3. from \in 0..N - 1 /\ to \in from + 1..N /\ from \in acc.cursor..N /\ from + 1 \in 1..N
    BY <1>1, <1>5, <1>6, <2>1, <2>2
  <2>4. Spells(t, old, from + 1, to)
    <3>1. k - 1 + 1 = k
      OBVIOUS
    <3>2. SubSeq(Fold(t), Folded(t, from) + 1, Folded(t, from) + L) = needle
      BY <1>11, <2>1, <3>1
    <3>3. Folded(t, to) = Folded(t, from) + L
      BY <2>1
    <3>4. QED
      BY <1>6, <2>1, <2>3, <3>2, <3>3, SpellsWhen DEF N, L
  <2>5. Spelling(t, old, from + 1) = to
    <3>1. ASSUME NEW j \in from + 1..N, Spells(t, old, from + 1, j) PROVE j = to
      <4>1. j \in 0..N
        BY <1>1, <1>5
      <4>2. Folded(t, j) = Folded(t, from) + L
        <5>1. from \in 0..Len(t) - 1 /\ j \in 0..Len(t) /\ j \in from + 1..Len(t)
          BY <2>3, <4>1 DEF N
        <5>2. Folded(t, j) = Folded(t, from) + Len(Fold(old))
          BY <3>1, <5>1, SpellsWhen
        <5>3. QED
          BY <5>2 DEF L, needle
      <4>3. QED
        BY <1>6, <2>1, <4>1, <4>2
    <3>2. QED
      BY <2>3, <2>4, <3>1 DEF Spelling, N
  <2>6. f[from + 1] = new \o f[to + 1] /\ f[to + 1] \in Seq(U)
    <3>1. f[from + 1] = Continued(t, old, new, f, from + 1)
      BY <2>3 DEF Refers, N
    <3>2. \E j \in from + 1..N : Spells(t, old, from + 1, j)
      BY <2>3, <2>4
    <3>3. Continued(t, old, new, f, from + 1) = new \o f[to + 1]
      BY <2>5, <3>2 DEF Continued, N
    <3>4. to + 1 \in 1..N + 1
      BY <1>1, <1>6
    <3>5. f[to + 1] \in Seq(U)
      BY <3>4 DEF Refers, N
    <3>6. QED
      BY <3>1, <3>3, <3>5
  <2>7. Leads(f, t, acc.out, acc.cursor, from)
    <3>1. CASE from = acc.cursor
      <4>. HIDE DEF Here, Whole
      <4>1. QED
        BY <1>2, <2>3, <3>1
    <3>2. CASE from # acc.cursor
      <4>1. from - 1 \in 0..N /\ from - 1 \in 0..from - 1
        BY <1>1, <2>3, <3>2
      <4>2. Folded(t, from - 1) < k - 1 /\ Folded(t, from - 1) \in Nat
        <5>1. Folded(t, from - 1) < k - 1
          BY <1>5, <4>1
        <5>2. Folded(t, from - 1) \in Nat
          BY <1>3, <4>1
        <5>3. QED
          BY <5>1, <5>2
      <4>3. Folded(t, from - 1) <= k - 1 - 1
        BY <4>2
      <4>. HIDE DEF Here, Whole
      <4>4. QED
        BY <1>2, <2>3, <4>3
    <3>3. QED
      BY <3>1, <3>2
  <2>. DEFINE part == SubSeq(t, acc.cursor + 1, from)
       out == (acc.out \o part) \o new
       rest == f[to + 1]
  <2>8. part \in Seq(U)
    <3>1. from \in 0..N /\ acc.cursor + 1 \in Nat /\ acc.cursor + 1 > 0
      BY <1>1, <1>5
    <3>2. QED
      BY <3>1, PartTyped DEF N
  <2>9. acc.out \o part \in Seq(U) /\ out \in Seq(U)
    <3>1. acc.out \o part \in Seq(U)
      BY <1>1, <2>8, ConcatProperties
    <3>2. QED
      BY <3>1, ConcatProperties
  <2>10. f[1] = out \o rest
    <3>. DEFINE oa == acc.out \o part
    <3>1. f[1] = oa \o (new \o rest)
      BY <2>6, <2>7 DEF Leads
    <3>2. oa \in Seq(U) /\ rest \in Seq(U)
      BY <2>6, <2>9
    <3>. HIDE DEF oa, rest
    <3>3. Associates(oa, new, rest)
      BY <3>2, Associate
    <3>4. QED
      BY <3>1, <3>3 DEF Associates, oa
  <2>. HIDE DEF part, out
  <2>11. SubSeq(t, to + 1, to) = <<>> /\ out \o <<>> = out
    BY <1>6, <2>9, SubSeqEmpty, ConcatEmptySeq
  <2>12. ASSUME NEW p \in to..N, p = to \/ Folded(t, p - 1) <= k - 1
         PROVE  Leads(f, t, out, to, p)
    <3>1. p = to
      <4>1. SUFFICES ASSUME p # to PROVE FALSE
        OBVIOUS
      <4>2. p - 1 \in 0..N /\ (p - 1 = to \/ to < p - 1)
        BY <1>1, <1>6, <2>12, <4>1
      <4>3. p - 1 = to \/ Folded(t, to) < Folded(t, p - 1)
        BY <1>6, <4>2, FoldedIs DEF N
      <4>4. Folded(t, p - 1) \in Nat /\ Folded(t, p - 1) <= k - 1
        BY <1>3, <2>12, <4>1, <4>2
      <4>5. QED
        BY <1>1, <2>1, <4>3, <4>4
    <3>2. QED
      BY <2>10, <2>11, <3>1 DEF Leads
  <2>13. /\ Then \in [from : 0..N, to : 0..N, cursor : 0..N, out : Seq(U)]
         /\ Then.from = from /\ Then.to = to /\ Then.cursor = to /\ Then.out = out
    BY <1>5, <1>6, <2>9 DEF Then, out, part
  <2>. HIDE DEF Here, Whole
  <2>14. QED
    BY <1>5, <1>6, <2>12, <2>13 DEF Decided, LeadsUpTo, N, L
<1>12. QED
  <2>. HIDE DEF Here, Whole, needle
  <2>1. Decided(U, t, needle, f, Found(t, new, needle, acc, k), k)
    BY <1>7, <1>9, <1>10, <1>11
  <2>2. QED
    BY <2>1 DEF needle

\* What is written and the rest of the text.
Finished(f, t, out, c) == f[1] = out \o SubSeq(t, c + 1, Len(t))

(* Behind the last place that has room for the name, the reference copies. *)
LEMMA NoRoomLeft ==
  ASSUME NEW U, OfTheCode \subseteq U, NEW t \in Seq(U), NEW old \in Seq(U), Len(old) > 0,
         NEW new \in Seq(U), Apart(t), NEW f, Refers(U, t, old, new, f),
         NEW out \in Seq(U), NEW c \in 0..Len(t),
         LeadsUpTo(f, t, out, c, Len(Fold(t)) - Len(Fold(old)))
  PROVE  Finished(f, t, out, c)
<1>. DEFINE N == Len(t)
     L == Len(Fold(old))
     T == {p \in 0..N : p >= c => Leads(f, t, out, c, p)}
<1>1. N \in Nat /\ L \in Nat /\ c \in 0..N /\ Len(Fold(t)) \in Nat
  BY FoldTyped, LenProperties
<1>. HIDE DEF N, L
<1>2. ASSUME NEW n \in 0..N - 1, NEW j \in n + 1..N,
             ~(Folded(t, n) <= Len(Fold(t)) - L), Spells(t, old, n + 1, j)
      PROVE  FALSE
  <2>1. j \in 0..N /\ n \in 0..N /\ (j = N \/ j < N) /\ N \in 0..N
    BY <1>1, <1>2
  <2>2. Folded(t, j) = Folded(t, n) + L
    BY <1>2, <2>1, SpellsWhen DEF N, L
  <2>3. Folded(t, j) <= Folded(t, N) /\ Folded(t, N) = Len(Fold(t)) /\ Folded(t, n) \in Nat
        /\ Folded(t, j) \in Nat
    <3>1. /\ Folded(t, N) = Len(Fold(t)) /\ Folded(t, n) \in Nat /\ Folded(t, j) \in Nat
          /\ j < N => Folded(t, j) < Folded(t, N)
      BY <2>1, FoldedIs DEF N
    <3>2. QED
      BY <1>1, <2>1, <3>1
  <2>4. QED
    BY <1>1, <1>2, <2>2, <2>3
<1>3. c \in c..N /\ \A p \in c..N : p \in 0..N
  BY <1>1
<1>4. Leads(f, t, out, c, c)
  BY <1>3 DEF N, LeadsUpTo
<1>5. 0 \in T
  <2>1. 0 \in 0..N /\ (0 >= c => c = 0)
    BY <1>1
  <2>2. QED
    BY <1>4, <2>1
<1>6. ASSUME NEW n \in 0..N, n \in T, n < N PROVE n + 1 \in T
  <2>1. /\ n + 1 \in 0..N /\ n \in 0..N - 1 /\ (n + 1) - 1 = n
        /\ n + 1 >= c => n + 1 = c \/ (n >= c /\ n + 1 \in c..N /\ c \in 0..n)
    BY <1>1, <1>6
  <2>2. CASE n + 1 >= c /\ n + 1 # c
    <3>1. Leads(f, t, out, c, n) /\ n + 1 \in c..N /\ c \in 0..n
      BY <1>6, <2>1, <2>2
    <3>2. CASE Folded(t, n) <= Len(Fold(t)) - L
      <4>1. Leads(f, t, out, c, n + 1)
        BY <2>1, <3>1, <3>2 DEF N, L, LeadsUpTo
      <4>2. QED
        BY <2>1, <4>1
    <3>3. CASE ~(Folded(t, n) <= Len(Fold(t)) - L)
      <4>1. \A j \in n + 1..N : ~Spells(t, old, n + 1, j)
        BY <1>2, <2>1, <3>3
      <4>. HIDE DEF T
      <4>2. Leads(f, t, out, c, n + 1)
        BY <2>1, <3>1, <4>1, NothingSpelled DEF N
      <4>3. QED
        BY <2>1, <4>2 DEF T
    <3>4. QED
      BY <3>2, <3>3
  <2>3. QED
    BY <1>4, <2>1, <2>2
<1>7. N \in T
  <2>1. T \in SUBSET (0..N) /\ N \in 0..N
    BY <1>1
  <2>. HIDE DEF T
  <2>2. QED
    BY <1>1, <1>5, <1>6, <2>1, InductionUpTo
<1>8. Leads(f, t, out, c, N)
  <2>1. N >= c
    BY <1>1
  <2>2. QED
    BY <1>7, <2>1
<1>. HIDE DEF T
<1>. DEFINE part == SubSeq(t, c + 1, N)
<1>9. f[N + 1] = <<>>
  BY DEF Refers, N
<1>10. f[1] = (out \o part) \o <<>>
  BY <1>8, <1>9 DEF Leads
<1>11. part \in Seq(U)
  <2>1. c + 1 \in Nat /\ c + 1 > 0 /\ N \in 0..N
    BY <1>1
  <2>2. QED
    BY <2>1, PartTyped DEF N
<1>. HIDE DEF part
<1>12. out \o part \in Seq(U)
  BY <1>11, ConcatProperties
<1>13. (out \o part) \o <<>> = out \o part
  BY <1>12, ConcatEmptySeq
<1>14. QED
  BY <1>10, <1>13 DEF part, N, Finished

(* The search with two positions in the original replaces what the reference on
   characters replaces. *)
LEMMA ReplaceIsReference ==
  ASSUME NEW U, OfTheCode \subseteq U, NEW t \in Seq(U), NEW old \in Seq(U), Len(old) > 0,
         NEW new \in Seq(U), Apart(t)
  PROVE  ReplaceSource(t, old, new) = Reference(t, old, new)
<1>. DEFINE N == Len(t)
     needle == Fold(old)
     L == Len(needle)
     M == Len(Fold(t))
<1>1. PICK f : Refers(U, t, old, new, f) /\ Reference(t, old, new) = f[1]
  BY ReferenceDef
<1>2. /\ N \in Nat /\ L \in Nat /\ L > 0 /\ M \in Nat /\ needle \in Seq(U) /\ Fold(t) \in Seq(U)
      /\ needle # <<>>
  <2>1. needle \in Seq(U) /\ Fold(t) \in Seq(U) /\ L > 0
    BY FoldTyped, FoldLonger
  <2>2. needle # <<>>
    BY <2>1, EmptySeq
  <2>3. QED
    BY <2>1, <2>2, LenProperties
<1>3. <<>> \in Seq(U) /\ SubSeq(t, 0 + 1, 0) = <<>> /\ <<>> \o <<>> = <<>> /\ 0 + 1 = 1
  <2>1. <<>> \in Seq(U)
    BY EmptySeq
  <2>2. SubSeq(t, 1, 0) = <<>>
    BY SubSeqEmpty
  <2>3. QED
    BY <2>1, <2>2, ConcatEmptySeq
<1>4. f[1] \in Seq(U) /\ Leads(f, t, <<>>, 0, 0)
  <2>1. 1 \in 1..N + 1
    BY <1>2
  <2>2. f[1] \in Seq(U)
    BY <1>1, <2>1 DEF Refers
  <2>3. <<>> \o f[1] = f[1]
    BY <2>2, ConcatEmptySeq
  <2>4. QED
    BY <1>3, <2>2, <2>3 DEF Leads
<1>5. ReplaceSource(t, old, new) = IF Fold(t) = needle THEN new
                                   ELSE IF M + 1 - L <= 0 THEN t ELSE ReplaceSource(t, old, new)
  BY <1>2 DEF ReplaceSource
<1>6. CASE Fold(t) = needle
  <2>1. N > 0
    <3>1. SUFFICES ASSUME N = 0 PROVE FALSE
      BY <1>2
    <3>2. t = <<>>
      BY <3>1, EmptySeq
    <3>3. QED
      BY <1>2, <1>6, <3>2, FoldEmpty
  <2>2. 0 \in 0..N - 1 /\ N \in 0..N /\ N \in 0 + 1..N /\ 1 \in 1..N
    BY <1>2, <2>1
  <2>3. Folded(t, 0) = 0 /\ Folded(t, N) = L
    BY <1>6, FoldedIs
  <2>4. SubSeq(Fold(t), Folded(t, 0) + 1, Folded(t, 0) + L) = needle
    <3>1. SubSeq(needle, 1, L) = needle
      BY <1>2, SubSeqFull
    <3>2. Folded(t, 0) + 1 = 1 /\ Folded(t, 0) + L = L
      BY <1>2, <2>3
    <3>3. QED
      BY <1>6, <3>1, <3>2
  <2>5. Folded(t, N) = Folded(t, 0) + L
    BY <1>2, <2>3
  <2>6. WholeName(t, 0, N)
    BY DEF WholeName
  <2>7. Spells(t, old, 1, N)
    <3>1. Spells(t, old, 0 + 1, N)
      BY <2>2, <2>4, <2>5, <2>6, SpellsWhen
    <3>2. QED
      BY <1>3, <3>1
  <2>8. ASSUME NEW j \in 1..N, Spells(t, old, 1, j) PROVE j = N
    <3>1. j \in 0..N /\ Spells(t, old, 0 + 1, j) /\ j \in 0 + 1..N
      BY <1>2, <1>3, <2>8
    <3>2. Folded(t, j) = Folded(t, 0) + L
      BY <2>2, <3>1, SpellsWhen
    <3>3. Folded(t, j) = Folded(t, N)
      BY <2>5, <3>2
    <3>4. QED
      BY <2>2, <3>1, <3>3, FoldedIs
  <2>9. Spelling(t, old, 1) = N
    BY <2>2, <2>7, <2>8 DEF Spelling
  <2>10. f[1] = new \o f[N + 1] /\ f[N + 1] = <<>>
    <3>1. f[1] = Continued(t, old, new, f, 1) /\ f[N + 1] = <<>>
      BY <1>1, <2>2 DEF Refers
    <3>2. \E j \in 1..N : Spells(t, old, 1, j)
      BY <2>2, <2>7
    <3>3. QED
      BY <2>9, <3>1, <3>2 DEF Continued
  <2>11. QED
    BY <1>1, <1>5, <1>6, <2>10, ConcatEmptySeq
<1>7. CASE Fold(t) # needle /\ M + 1 - L <= 0
  <2>1. ASSUME NEW p \in 0..N, p = 0 \/ Folded(t, p - 1) <= M - L
        PROVE  Leads(f, t, <<>>, 0, p)
    <3>1. p = 0
      <4>1. SUFFICES ASSUME p # 0 PROVE FALSE
        OBVIOUS
      <4>2. p - 1 \in 0..N
        BY <1>2, <4>1
      <4>3. Folded(t, p - 1) \in Nat
        BY <4>2, FoldedIs
      <4>. HIDE DEF L, M
      <4>4. QED
        BY <1>2, <1>7, <2>1, <4>1, <4>3
    <3>2. QED
      BY <1>4, <3>1
  <2>2. 0 \in 0..N
    BY <1>2
  <2>3. Finished(f, t, <<>>, 0)
    <3>1. LeadsUpTo(f, t, <<>>, 0, M - L)
      BY <2>1 DEF LeadsUpTo
    <3>2. QED
      BY <1>1, <1>3, <2>2, <3>1, NoRoomLeft
  <2>4. SubSeq(t, 0 + 1, N) = t
    BY <1>3, SubSeqFull
  <2>5. <<>> \o t = t
    BY ConcatEmptySeq
  <2>6. QED
    BY <1>1, <1>5, <1>7, <2>3, <2>4, <2>5 DEF Finished
<1>8. CASE Fold(t) # needle /\ ~(M + 1 - L <= 0)
  <2>. DEFINE places == M + 1 - L
  <2>1. places \in Nat /\ places > 0 /\ places - 1 = M - L
    <3>. HIDE DEF L, M
    <3>1. QED
      BY <1>2, <1>8
  <2>2. PICK g : /\ Searches(t, new, needle, g)
                 /\ ReplaceSource(t, old, new)
                      = g[places].out \o SubSeq(t, g[places].cursor + 1, N)
    BY <1>2, <1>8, <2>1, ReplaceDef
  <2>3. /\ g[0] = [from |-> 0, to |-> 0, cursor |-> 0, out |-> <<>>]
        /\ \A k \in 1..places : g[k] = Found(t, new, needle, g[k - 1], k)
    BY <2>2 DEF Searches
  <2>. DEFINE T == {k \in 0..places : Decided(U, t, needle, f, g[k], k)}
  <2>. HIDE DEF places, L, M
  <2>4. 0 \in T
    <3>1. g[0] \in [from : 0..N, to : 0..N, cursor : 0..N, out : Seq(U)]
      BY <1>2, <1>3, <2>3
    <3>2. /\ \A m \in 0..g[0].from - 1 : FALSE
          /\ \A m \in 0..g[0].to - 1 : FALSE
      BY <2>3
    <3>3. ASSUME NEW p \in 0..N, p = 0 \/ Folded(t, p - 1) <= 0 - 1
          PROVE  Leads(f, t, <<>>, 0, p)
      <4>1. p = 0
        <5>1. SUFFICES ASSUME p # 0 PROVE FALSE
          OBVIOUS
        <5>2. p - 1 \in 0..N
          BY <1>2, <5>1
        <5>3. Folded(t, p - 1) \in Nat
          BY <5>2, FoldedIs
        <5>4. QED
          BY <3>3, <5>1, <5>3
      <4>2. QED
        BY <1>4, <4>1
    <3>4. g[0].cursor = 0 /\ g[0].out = <<>>
      BY <2>3
    <3>5. Decided(U, t, needle, f, g[0], 0)
      BY <3>1, <3>2, <3>3, <3>4 DEF Decided, LeadsUpTo
    <3>6. QED
      BY <2>1, <3>5
  <2>5. ASSUME NEW k \in 0..places, k \in T, k < places PROVE k + 1 \in T
    <3>1. k + 1 \in 1..places /\ k + 1 \in 0..places /\ (k + 1) - 1 = k /\ k + 1 \in Nat
          /\ k + 1 > 0
      <4>. HIDE DEF T
      <4>1. QED
        BY <2>1, <2>5
    <3>2. Decided(U, t, needle, f, g[k], (k + 1) - 1)
      BY <2>5, <3>1
    <3>. HIDE DEF T
    <3>3. Decided(U, t, needle, f, Found(t, new, needle, g[k], k + 1), k + 1)
      BY <1>1, <3>1, <3>2, FoundDecides
    <3>4. g[k + 1] = Found(t, new, needle, g[k], k + 1)
      <4>1. g[k + 1] = Found(t, new, needle, g[(k + 1) - 1], k + 1)
        BY <2>3, <3>1, Zenon
      <4>2. QED
        BY <3>1, <4>1
    <3>5. QED
      BY <3>1, <3>3, <3>4 DEF T
  <2>6. places \in T
    <3>1. T \in SUBSET (0..places) /\ places \in 0..places
      BY <2>1
    <3>. HIDE DEF T
    <3>2. QED
      BY <2>1, <2>4, <2>5, <3>1, InductionUpTo
  <2>7. Decided(U, t, needle, f, g[places], places)
    BY <2>6
  <2>. HIDE DEF T
  <2>8. g[places].cursor \in 0..N /\ g[places].out \in Seq(U)
    BY <2>7 DEF Decided
  <2>. DEFINE out == g[places].out
       c == g[places].cursor
  <2>9. LeadsUpTo(f, t, out, c, M - L)
    BY <2>1, <2>7 DEF Decided
  <2>10. out \in Seq(U) /\ c \in 0..N
    BY <2>8
  <2>. HIDE DEF out, c
  <2>11. Finished(f, t, out, c)
    BY <1>1, <2>9, <2>10, NoRoomLeft DEF L, M
  <2>12. QED
    BY <1>1, <2>2, <2>11 DEF out, c, Finished
<1>9. QED
  BY <1>6, <1>7, <1>8

(* Which of the symbols of Windows are boundaries. *)
LEMMA KnownApart ==
  ASSUME AlphabetKnown, windows = TRUE, NEW t \in Seq(Alphabet)
  PROVE  Apart(t)
<1>1. \A m \in 1..Len(t) : t[m] \in Alphabet
  BY ElementOfSeq
<1>2. NameParts = PartOfName
  BY DEF NameParts, PartOfName, Spellings
<1>3. PartOfName \cap Boundary = {}
  BY DEF AlphabetKnown
<1>4. QED
  BY <1>1, <1>2, <1>3 DEF Apart, Alphabet

(* What canonicalize makes of such a text: what the reference makes of it, when
   there is a name to look for, and always such a text again. *)
LEMMA CanonicalizeIsReference ==
  ASSUME AlphabetKnown, windows = TRUE, NEW U, OfTheCode \subseteq U, Alphabet \subseteq U,
         NEW t \in Seq(Alphabet), NEW pair,
         pair.old \in Seq(U), pair.new \in Seq(Alphabet)
  PROVE  /\ Canonicalize(t, pair) \in Seq(Alphabet)
         /\ pair.old # <<>> => Canonicalize(t, pair) = AsInManifest(t, pair.old, pair.new)
<1>. DEFINE old == pair.old
     new == pair.new
     top == <<"/workspace", "/">>
     once == Reference(t, InWorkspace(old), InWorkspace(new))
<1>1. ASSUME NEW s \in Seq(Alphabet) PROVE s \in Seq(U)
  <2>1. Len(s) \in Nat /\ s \in [1..Len(s) -> Alphabet]
    BY LenProperties
  <2>2. s \in [1..Len(s) -> U]
    BY <2>1
  <2>3. QED
    BY <2>1, <2>2
<1>2. ASSUME NEW s \in Seq(Alphabet), NEW sought \in Seq(U), sought # <<>>, NEW other \in Seq(Alphabet)
      PROVE  /\ ReplaceSource(s, sought, other) = Reference(s, sought, other)
             /\ Reference(s, sought, other) \in Seq(Alphabet)
  <2>1. s \in Seq(U) /\ other \in Seq(U)
    BY <1>1
  <2>2. Len(sought) > 0
    BY <1>2, EmptySeq
  <2>3. Apart(s)
    BY KnownApart
  <2>4. ReplaceSource(s, sought, other) = Reference(s, sought, other)
    <3>. HIDE DEF old, new, top, once
    <3>1. s \in Seq(U) /\ sought \in Seq(U) /\ other \in Seq(U) /\ OfTheCode \subseteq U
      BY <2>1
    <3>2. QED
      BY <2>2, <2>3, <3>1, ReplaceIsReference
  <2>5. Reference(s, sought, other) \in Seq(Alphabet)
    BY ReferenceTyped
  <2>6. QED
    BY <2>4, <2>5
<1>3. InWorkspace(old) = top \o old /\ InWorkspace(new) = top \o new
  BY DEF InWorkspace
<1>4. top \in Seq(Alphabet) /\ Len(top) = 2
  BY DEF Alphabet, PartOfName
<1>5. old \in Seq(U) /\ new \in Seq(Alphabet) /\ top \in Seq(U)
  BY <1>1, <1>4
<1>6. Canonicalize(t, pair) = ReplaceSource(ReplaceSource(t, InWorkspace(old), InWorkspace(new)), old, new)
  BY DEF Canonicalize
<1>7. AsInManifest(t, old, new) = Reference(once, old, new)
  BY DEF AsInManifest
<1>. HIDE DEF old, new, top
<1>8. /\ InWorkspace(old) \in Seq(U) /\ InWorkspace(new) \in Seq(Alphabet)
      /\ InWorkspace(old) # <<>>
  <2>1. top \o old \in Seq(U) /\ Len(top \o old) = Len(top) + Len(old)
    BY <1>5, ConcatProperties
  <2>2. top \o new \in Seq(Alphabet)
    BY <1>4, <1>5, ConcatProperties
  <2>3. Len(top \o old) # 0
    BY <1>4, <1>5, <2>1, LenProperties
  <2>4. top \o old # <<>>
    BY <2>3, EmptySeq
  <2>5. QED
    BY <1>3, <2>1, <2>2, <2>4
<1>9. /\ ReplaceSource(t, InWorkspace(old), InWorkspace(new)) = once
      /\ once \in Seq(Alphabet)
  BY <1>2, <1>8
<1>. HIDE DEF once
<1>10. Canonicalize(t, pair) = ReplaceSource(once, old, new)
  BY <1>6, <1>9
<1>11. CASE old # <<>>
  <2>1. /\ ReplaceSource(once, old, new) = Reference(once, old, new)
        /\ Reference(once, old, new) \in Seq(Alphabet)
    BY <1>2, <1>5, <1>9, <1>11
  <2>2. QED
    BY <1>7, <1>10, <2>1 DEF old, new
<1>12. CASE old = <<>>
  <2>1. Fold(old) = <<>>
    BY <1>12, FoldEmpty
  <2>2. ReplaceSource(once, old, new) \in {new, once}
    BY <2>1 DEF ReplaceSource
  <2>3. QED
    BY <1>5, <1>9, <1>10, <1>12, <2>2 DEF old
<1>13. QED
  BY <1>11, <1>12

(* So is what is made of the roots of one. *)
LEMMA RootedKnown ==
  ASSUME WellFormed, windows = TRUE, NEW t \in Seq(Alphabet), NEW U, NEW r \in Seq(U), Kept(t, r)
  PROVE  r \in Seq(Alphabet)
<1>1. Len(r) = Len(t) /\ Len(t) \in Nat /\ r \in [1..Len(r) -> U]
  BY LenProperties DEF Kept
<1>2. /\ "/workspace" \in Alphabet /\ "/" \in Alphabet
      /\ Spelt(TRUE) \subseteq Alphabet
  BY DEF Alphabet, PartOfName
<1>3. ASSUME NEW c \in Alphabet PROVE Slash(c) \in Alphabet
  <2>1. Slash(c) = IF c = "\\" THEN "/" ELSE IF c = "C:\\W" THEN "C:/W" ELSE c
    BY DEF Slash, Turned
  <2>2. CASE c = "C:\\W"
    <3>1. c \notin Letters /\ c \notin Boundary /\ c \notin {"/workspace", ".", "/", "\\"}
      BY <2>2 DEF WellFormed, Boundary, Blank, Quotes
    <3>2. c \in Spelt(TRUE)
      BY <3>1 DEF Alphabet, PartOfName
    <3>3. "C:/W" \in Spelt(TRUE)
      BY <2>2, <3>2 DEF WellFormed
    <3>4. QED
      BY <1>2, <2>1, <2>2, <3>3
  <2>3. QED
    BY <1>2, <2>1, <2>2
<1>4. ASSUME NEW i \in 1..Len(t) PROVE r[i] \in Alphabet
  <2>1. t[i] \in Alphabet
    BY ElementOfSeq
  <2>2. r[i] \in {"/workspace", t[i], Slash(t[i])}
    BY DEF Kept, Translated
  <2>3. QED
    BY <1>2, <1>3, <2>1, <2>2
<1>5. r \in [1..Len(t) -> Alphabet]
  BY <1>1, <1>4
<1>6. QED
  BY <1>1, <1>5

-----------------------------------------------------------------------------
\* Until the separators of flags are turned, the text is what the reference
\* makes of it, and the alphabet is known.
RespelledInv ==
  /\ windows /\ step \in {"roots", "names"} => value \in Seq(Alphabet)
  /\ windows => \A n \in 1..Len(names) : names[n].new \in Seq(Alphabet)
  /\ last.old # <<>> => windows /\ step # "roots"
  /\ last.old # <<>> /\ step = "names" => value = AsInManifest(last.before, last.old, last.new)
  /\ SourceRespelled

(* It holds of what is given. *)
LEMMA RespelledStarts ==
  ASSUME WellFormed, AlphabetKnown PROVE RewriteInit => RespelledInv
<1>1. SUFFICES ASSUME RewriteInit PROVE RespelledInv
  OBVIOUS
<1>2. PICK input \in Inputs :
        windows = input.windows /\ text \in input.texts /\ names \in input.names
  BY <1>1 DEF RewriteInit
<1>3. value = text /\ step = "roots" /\ last.old = <<>>
  BY <1>1 DEF RewriteInit
<1>4. names \in Seq(Pairs)
  BY <1>2 DEF WellFormed, Pairs
<1>5. DOMAIN names = 1..Len(names)
  BY <1>4, LenProperties
<1>6. windows => text \in Seq(Alphabet) /\ \A n \in DOMAIN names : names[n].new \in Seq(Alphabet)
  BY <1>2 DEF AlphabetKnown
<1>7. QED
  BY <1>3, <1>5, <1>6 DEF RespelledInv, SourceRespelled

(* Every step keeps it. *)
LEMMA RespelledStep ==
  ASSUME WellFormed, AlphabetKnown
  PROVE  RewriteInv /\ RespelledInv /\ [RewriteNext]_rewriteVars => RespelledInv'
<1>1. SUFFICES ASSUME RewriteInv, RespelledInv, [RewriteNext]_rewriteVars PROVE RespelledInv'
  OBVIOUS
<1>2. windows' = windows /\ text' = text
  BY <1>1 DEF RewriteNext, Roots, Canonical, Flags, LimitReached, rewriteVars, given
<1>3. windows \in BOOLEAN /\ text \in Seq(Symbols) /\ value \in Seq(Symbols) /\ names \in Seq(Pairs)
  BY <1>1 DEF RewriteInv
<1>4. CASE Roots
  <2>1. PICK r : r = Rooted(value)
    OBVIOUS
  <2>2. step = "roots" /\ step' = "names" /\ value' = r /\ names' = names /\ last' = last
    BY <1>4, <2>1 DEF Roots
  <2>3. last.old = <<>> /\ (windows => value \in Seq(Alphabet))
    BY <1>1, <2>2 DEF RespelledInv
  <2>4. ASSUME windows PROVE r \in Seq(Alphabet)
    <3>1. windows = TRUE
      BY <1>3, <2>4
    <3>2. r \in Seq(Symbols) /\ Kept(value, r)
      BY <1>3, <2>1, RootedProperties, SymbolsWritten
    <3>3. QED
      BY <2>3, <2>4, <3>1, <3>2, RootedKnown
  <2>5. QED
    BY <1>1, <1>2, <2>2, <2>3, <2>4 DEF RespelledInv, SourceRespelled
<1>5. CASE Canonical
  <2>. DEFINE pair == names[1]
  <2>1. /\ step = "names" /\ names # <<>> /\ step' = step
        /\ value' = Canonicalize(value, Head(names)) /\ names' = Tail(names)
        /\ last' = [old |-> Head(names).old, new |-> Head(names).new, before |-> value]
    BY <1>5 DEF Canonical
  <2>2. windows = TRUE /\ value \in Seq(Alphabet)
    BY <1>1, <1>3, <2>1 DEF RewriteInv, RespelledInv
  <2>3. /\ Head(names) = pair /\ pair.old \in Seq(STRING) /\ pair.new \in Seq(Alphabet)
    <3>1. Len(names) \in Nat /\ Len(names) > 0
      BY <1>3, <2>1, LenProperties, EmptySeq
    <3>2. 1 \in 1..Len(names)
      BY <3>1
    <3>3. Head(names) = pair /\ pair \in Pairs
      BY <1>3, <2>1, <3>2, ElementOfSeq
    <3>4. pair.new \in Seq(Alphabet)
      BY <1>1, <2>2, <3>2 DEF RespelledInv
    <3>5. QED
      BY <3>3, <3>4 DEF Pairs
  <2>. DEFINE U == Symbols \cup Alphabet
  <2>4. pair.old \in Seq(U) /\ OfTheCode \subseteq U /\ Alphabet \subseteq U
    <3>. DEFINE s == pair.old
    <3>1. Len(s) \in Nat /\ s \in [1..Len(s) -> STRING]
      BY <2>3, LenProperties
    <3>2. s \in [1..Len(s) -> U]
      BY <3>1, SymbolsWritten
    <3>. HIDE DEF s, U
    <3>3. s \in Seq(U)
      BY <3>1, <3>2
    <3>4. QED
      BY <3>3, SymbolsWritten DEF s, U
  <2>. HIDE DEF pair, U
  <2>5. PICK v : v = Canonicalize(value, pair)
    OBVIOUS
  <2>6. /\ v \in Seq(Alphabet)
        /\ pair.old # <<>> => v = AsInManifest(value, pair.old, pair.new)
    BY <2>2, <2>3, <2>4, <2>5, CanonicalizeIsReference
  <2>7. /\ value' = v /\ last'.old = pair.old /\ last'.new = pair.new /\ last'.before = value
    BY <2>1, <2>3, <2>5
  <2>8. ASSUME NEW n \in 1..Len(names') PROVE names'[n].new \in Seq(Alphabet)
    <3>1. /\ Len(names') = Len(names) - 1 /\ names'[n] = names[n + 1]
      BY <1>3, <2>1, HeadTailProperties
    <3>2. n + 1 \in 1..Len(names)
      BY <1>3, <3>1, LenProperties
    <3>3. QED
      BY <1>1, <2>2, <3>1, <3>2 DEF RespelledInv
  <2>9. last'.old # <<>> => value' = AsInManifest(last'.before, last'.old, last'.new)
    BY <2>6, <2>7
  <2>10. SourceRespelled'
    BY <2>9 DEF SourceRespelled
  <2>11. QED
    BY <1>2, <2>1, <2>2, <2>6, <2>7, <2>8, <2>9, <2>10 DEF RespelledInv
<1>6. CASE Flags
  <2>1. /\ step = "names" /\ step' = "done" /\ names' = names /\ last' = last
        /\ value' = CASE ~windows -> value
                      [] windows /\ single -> NormalizeArgument(value)
                      [] OTHER -> NormalizeCommand(value)
    BY <1>6 DEF Flags
  <2>2. ASSUME last.old # <<>>
        PROVE  /\ windows /\ value = AsInManifest(last.before, last.old, last.new)
               /\ value' \in {NormalizeArgument(value), NormalizeCommand(value)}
    <3>1. windows /\ value = AsInManifest(last.before, last.old, last.new)
      BY <1>1, <2>1, <2>2 DEF RespelledInv
    <3>2. CASE single
      BY <2>1, <3>1, <3>2
    <3>3. CASE ~single
      BY <2>1, <3>1, <3>3
    <3>4. QED
      BY <3>1, <3>2, <3>3
  <2>3. SourceRespelled'
    <3>1. SUFFICES ASSUME last.old # <<>> PROVE SourceRespelled'
      BY <2>1 DEF SourceRespelled
    <3>2. PICK v : v = AsInManifest(last.before, last.old, last.new)
      OBVIOUS
    <3>3. value' \in {NormalizeArgument(v), NormalizeCommand(v)}
      BY <2>2, <3>1, <3>2
    <3>4. AsInManifest(last.before, last.old, last.new)' = v
      BY <2>1, <3>2
    <3>5. QED
      BY <3>3, <3>4 DEF SourceRespelled
  <2>4. QED
    BY <1>1, <1>2, <2>1, <2>2, <2>3 DEF RespelledInv
<1>7. CASE LimitReached \/ UNCHANGED rewriteVars
  <2>1. /\ names' = names /\ value' = value /\ last' = last
        /\ step' = step \/ step' = "refused"
    BY <1>7 DEF LimitReached, rewriteVars
  <2>2. SourceRespelled'
    BY <1>1, <2>1 DEF RespelledInv, SourceRespelled, NormalizeArgument, NormalizeCommand
  <2>3. QED
    BY <1>1, <1>2, <2>1, <2>2 DEF RespelledInv
<1>8. QED
  BY <1>1, <1>4, <1>5, <1>6, <1>7 DEF RewriteNext

(* For every text and every names, on an alphabet of which each symbol is known
   for a boundary or not: canonicalize, which looks for the folded name in the
   folded text and keeps two positions in the other, replaces every name that
   spells the source, whole and never from within an expanded character, and
   nothing else (SourceRespelled). *)
THEOREM RespellsSource == RewriteSpec => []SourceRespelled
<1>1. RewriteInit => RespelledInv
  BY RewriteAssumption, AlphabetAssumption, RespelledStarts
<1>2. RewriteInv /\ RespelledInv /\ [RewriteNext]_rewriteVars => RespelledInv'
  BY RewriteAssumption, AlphabetAssumption, RespelledStep
<1>3. RespelledInv => SourceRespelled
  BY DEF RespelledInv
<1>4. RewriteSpec => []RewriteInv
  BY RewriteInvariance
<1>5. QED
  BY <1>1, <1>2, <1>3, <1>4, PTL DEF RewriteSpec
=============================================================================
