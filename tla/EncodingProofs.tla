--------------------------- MODULE EncodingProofs ---------------------------
(***************************************************************************)
(* Theorems about Encoding, for every set of families, groups, encodings   *)
(* and indexes.  What `rewrite` knows of the fields it has read is related *)
(* to the reference of MCEncoding, which counts: the stack is as long as   *)
(* the depth there, and each of its entries is the group of the field that *)
(* opened that level (StackInv).                                           *)
(***************************************************************************)
EXTENDS MCEncoding, FiniteSetTheorems, SequenceTheorems, TLAPS

Written == Fields \cup {Document(ProducerEncoding(f)) : f \in Families}

\* The fields read so far are those of a well-formed index.
PrefixInv ==
  /\ \A n \in 0..at : Depth(source, n) >= 0
  /\ \A i \in 1..at :
       /\ source[i].kind # "malformed"
       /\ TopLevel(source, i) =>
            /\ source[i].kind # "broken"
            /\ source[i].kind = "document" /\ ProducerEncoding(family) = NoContract =>
                 source[i].enc # Unspecified
       /\ source[i].kind = "close" => source[Opener(source, i)].group = source[i].group
  /\ metadata <=> \E i \in 1..at : source[i].kind = "metadata" /\ TopLevel(source, i)

\* Field i opened level d, which was not left since.
Opened(i, d, n) ==
  /\ source[i].kind = "open" /\ Depth(source, i) = d
  /\ \A k \in i..n : Depth(source, k) >= d
StackInv ==
  /\ groups \in Seq(Groups) /\ Len(groups) = Depth(source, at)
  /\ \A d \in 1..Len(groups) :
       \E i \in 1..at : Opened(i, d, at) /\ source[i].group = groups[d]

\* What was written is what completing the fields read gives.
BufferInv ==
  /\ buffer \in Seq(Written) /\ (pc = "start" => at = 0)
  /\ pc \in {"start", "rewrite"} =>
       /\ temporary = <<>> /\ Len(buffer) = at
       /\ \A i \in 1..at : buffer[i] = Completed(source)[i]

\* Where the index is, and what each place has come by.
PlaceInv ==
  /\ pc \in {"start", "rewrite", "rewritten", "persist", "published", "done"}
  /\ source \in Seq(Fields) /\ at \in 0..Len(source) /\ family \in Families
  /\ metadata \in BOOLEAN /\ cancelled \in BOOLEAN /\ expired \in BOOLEAN
  /\ pc \in {"start", "rewrite"} => result = "none" /\ trouble = "none"
  /\ pc # "done" => answer = "none"
  /\ pc \in {"persist", "published"} => result = "Ok"
  /\ pc = "published" \/ answer = "Ok" => result = "Ok" /\ index = temporary
  /\ pc \in {"start", "rewrite", "rewritten", "persist"} => index = source
  /\ index = source \/ (result = "Ok" /\ index = temporary)
  /\ result = "Ok" => Valid(source) /\ temporary = Completed(source)

\* Why it was stopped.
CauseInv ==
  /\ trouble = "interrupt" => Check # "Ok"
  /\ trouble = "interrupt" => pc = "rewritten" \/ (pc = "done" /\ answer \in {"Cancelled", "Deadline"})
  /\ result = "Input" => trouble \in {"io", "interrupt"} \/ ~Valid(source)
  /\ answer = "Input" => trouble = "io" \/ ~Valid(source)

EncodingInv == PrefixInv /\ StackInv /\ BufferInv /\ PlaceInv /\ CauseInv

-----------------------------------------------------------------------------
(* Counting.                                                               *)

(* Fields of a kind are counted one at a time. *)
LEMMA CountStep ==
  ASSUME NEW s, NEW n \in Nat, NEW kind
  PROVE  /\ Count(s, 0, kind) = 0 /\ Count(s, n, kind) \in Nat
         /\ Count(s, n + 1, kind) = Count(s, n, kind) + (IF s[n + 1].kind = kind THEN 1 ELSE 0)
<1>. DEFINE Those(m) == {i \in 1..m : s[i].kind = kind}
<1>0. \A m : Count(s, m, kind) = Cardinality(Those(m))
  BY DEF Count
<1>1. IsFiniteSet(1..n)
  BY FS_Interval
<1>2. IsFiniteSet(Those(n)) /\ Cardinality(Those(n)) \in Nat
  BY <1>1, FS_Subset, FS_CardinalityType
<1>3. Those(0) = {} /\ Cardinality({}) = 0
  BY FS_EmptySet
<1>4. CASE s[n + 1].kind = kind
  <2>1. Those(n + 1) = Those(n) \cup {n + 1} /\ n + 1 \notin Those(n)
    BY <1>4
  <2>2. Cardinality(Those(n + 1)) = Cardinality(Those(n)) + 1
    BY <1>2, <2>1, FS_AddElement
  <2>. HIDE DEF Those
  <2>. QED BY <1>0, <1>2, <1>3, <1>4, <2>2
<1>5. CASE s[n + 1].kind # kind
  <2>1. Those(n + 1) = Those(n)
    BY <1>5
  <2>. HIDE DEF Those
  <2>. QED BY <1>0, <1>2, <1>3, <1>5, <2>1
<1>. QED BY <1>4, <1>5

(* The depth rises by an open group and falls by a closed one. *)
LEMMA DepthStep ==
  ASSUME NEW s, NEW n \in Nat
  PROVE  /\ Depth(s, 0) = 0 /\ Depth(s, n) \in Int
         /\ Depth(s, n + 1) = Depth(s, n) + (CASE s[n + 1].kind = "open" -> 1
                                               [] s[n + 1].kind = "close" -> -1
                                               [] OTHER -> 0)
BY CountStep DEF Depth

\* Only one field can have opened what a field closes.
LEMMA OpenerIs ==
  ASSUME NEW s, NEW j \in Nat, NEW i \in 1..j,
         s[i].kind = "open", Depth(s, i) = Depth(s, j) + 1,
         \A k \in i..j - 1 : Depth(s, k) > Depth(s, j)
  PROVE  Opener(s, j) = i
<1>. DEFINE Is(o) == /\ s[o].kind = "open" /\ Depth(s, o) = Depth(s, j) + 1
                     /\ \A k \in o..j-1 : Depth(s, k) > Depth(s, j)
<1>1. \A o \in 1..j : Is(o) => \A p \in 1..j : Is(p) => ~(o < p)
  <2>. SUFFICES ASSUME NEW o \in 1..j, Is(o), NEW p \in 1..j, Is(p), o < p PROVE FALSE
    OBVIOUS
  <2>1. p - 1 \in Nat /\ p - 1 \in o..j - 1 /\ (p - 1) + 1 = p
    OBVIOUS
  <2>2. Depth(s, p) = Depth(s, p - 1) + 1 /\ Depth(s, p - 1) \in Int /\ Depth(s, j) \in Int
    BY <2>1, DepthStep
  <2>. QED BY <2>1, <2>2
<1>2. Is(i)
  OBVIOUS
<1>. HIDE DEF Is
<1>3. \A o \in 1..j : Is(o) => o = i
  BY <1>1, <1>2
<1>. QED BY <1>2, <1>3 DEF Opener, Is

-----------------------------------------------------------------------------
(* One more field.                                                         *)

(* While there is more, the next field is a field of the source, at the level of the
   groups that are open. *)
LEMMA NextField ==
  ASSUME PlaceInv, StackInv, More
  PROVE  /\ at \in Nat /\ at + 1 \in 1..Len(source) /\ at + 1 \in 0..Len(source)
         /\ Next1 = source[at + 1] /\ Next1 \in Fields
         /\ Len(groups) = Depth(source, at) /\ Depth(source, at) \in Int
         /\ AtTop <=> TopLevel(source, at + 1)
         /\ AtTop <=> Len(groups) = 0
<1>1. at \in Nat /\ at + 1 \in 1..Len(source) /\ at + 1 \in 0..Len(source) /\ (at + 1) - 1 = at
  BY DEF PlaceInv, More
<1>2. Next1 = source[at + 1] /\ Next1 \in Fields
  BY <1>1 DEF PlaceInv, Next1
<1>3. Len(groups) = Depth(source, at) /\ (groups = <<>> <=> Len(groups) = 0)
  BY EmptySeq DEF StackInv
<1>. QED BY <1>1, <1>2, <1>3, DepthStep DEF AtTop, TopLevel

(* A field that the parser lets by is valid after those before it. *)
LEMMA PrefixStep ==
  ASSUME PlaceInv, StackInv, PrefixInv, More, UNCHANGED given, at' = at + 1,
         Depth(source, at + 1) >= 0, Next1.kind # "malformed",
         AtTop => /\ Next1.kind # "broken"
                  /\ Next1.kind = "document" /\ ProducerEncoding(family) = NoContract =>
                       Next1.enc # Unspecified,
         Next1.kind = "close" => source[Opener(source, at + 1)].group = Next1.group,
         metadata' <=> metadata \/ (Next1.kind = "metadata" /\ AtTop)
  PROVE  PrefixInv'
<1>1. source' = source /\ family' = family
  BY DEF given
<1>2. /\ at \in Nat /\ Next1 = source[at + 1] /\ (AtTop <=> TopLevel(source, at + 1))
      /\ \A i \in 1..at + 1 : i \in 1..at \/ i = at + 1
      /\ \A i \in 0..at + 1 : i \in 0..at \/ i = at + 1
      /\ \A i \in 1..at : i \in 1..at + 1
      /\ at + 1 \in 1..at + 1
  BY NextField
<1>3. \A n \in 0..at + 1 : Depth(source, n) >= 0
  BY <1>2 DEF PrefixInv
<1>4. \A i \in 1..at + 1 :
       /\ source[i].kind # "malformed"
       /\ TopLevel(source, i) =>
            /\ source[i].kind # "broken"
            /\ source[i].kind = "document" /\ ProducerEncoding(family) = NoContract =>
                 source[i].enc # Unspecified
       /\ source[i].kind = "close" => source[Opener(source, i)].group = source[i].group
  BY <1>2 DEF PrefixInv
<1>5. metadata' <=> \E i \in 1..at + 1 : source[i].kind = "metadata" /\ TopLevel(source, i)
  BY <1>2 DEF PrefixInv
<1>. QED BY <1>1, <1>3, <1>4, <1>5 DEF PrefixInv, TopLevel

\* Levels that were not left stay open.
LEMMA StillOpened ==
  ASSUME PlaceInv, StackInv, More, NEW d \in 1..Len(groups), d <= Depth(source, at + 1)
  PROVE  \E i \in 1..at + 1 : Opened(i, d, at + 1) /\ source[i].group = groups[d]
<1>1. PICK i \in 1..at : Opened(i, d, at) /\ source[i].group = groups[d]
  BY DEF StackInv
<1>2. i \in 1..at + 1 /\ \A k \in i..at + 1 : k \in i..at \/ k = at + 1
  BY NextField
<1>3. Depth(source, at + 1) >= d
  BY NextField, DepthStep
<1>. QED BY <1>1, <1>2, <1>3 DEF Opened

(* A field that opens and closes nothing leaves the groups as they are. *)
LEMMA SameLevel ==
  ASSUME PlaceInv, StackInv, More, UNCHANGED <<given, groups>>, at' = at + 1,
         Next1.kind \notin {"open", "close"}
  PROVE  StackInv' /\ Depth(source, at + 1) = Depth(source, at)
<1>1. Depth(source, at + 1) = Depth(source, at) /\ Depth(source, at) = Len(groups)
  BY NextField, DepthStep
<1>2. \A d \in 1..Len(groups) : d <= Depth(source, at + 1)
  BY <1>1 DEF StackInv
<1>3. \A d \in 1..Len(groups) :
        \E i \in 1..at + 1 : Opened(i, d, at + 1) /\ source[i].group = groups[d]
  BY <1>2, StillOpened
<1>. QED BY <1>1, <1>3 DEF StackInv, Opened, given

(* A field that opens a group is followed by what is in it. *)
LEMMA DeeperLevel ==
  ASSUME PlaceInv, StackInv, More, UNCHANGED given, at' = at + 1,
         Next1.kind = "open", Next1.group \in Groups, groups' = Append(groups, Next1.group)
  PROVE  StackInv' /\ Depth(source, at + 1) = Depth(source, at) + 1
<1>1. /\ Depth(source, at + 1) = Depth(source, at) + 1 /\ Depth(source, at) = Len(groups)
      /\ Next1 = source[at + 1] /\ at \in Nat
  BY NextField, DepthStep
<1>2. /\ groups' \in Seq(Groups) /\ Len(groups') = Len(groups) + 1
      /\ groups'[Len(groups) + 1] = Next1.group
      /\ \A d \in 1..Len(groups) : groups'[d] = groups[d]
  BY AppendProperties DEF StackInv
<1>3. ASSUME NEW d \in 1..Len(groups')
      PROVE  \E i \in 1..at + 1 : Opened(i, d, at + 1) /\ source[i].group = groups'[d]
  <2>1. CASE d \in 1..Len(groups)
    <3>1. d <= Depth(source, at + 1)
      BY <1>1, <2>1 DEF StackInv
    <3>. QED BY <1>2, <2>1, <3>1, StillOpened
  <2>2. CASE d = Len(groups) + 1
    <3>1. Opened(at + 1, d, at + 1)
      BY <1>1, <2>2 DEF Opened, StackInv
    <3>. QED BY <1>1, <1>2, <2>2, <3>1
  <2>. QED BY <1>2, <2>1, <2>2 DEF StackInv
<1>. QED BY <1>1, <1>2, <1>3 DEF StackInv, Opened, given

\* The field that opened the level a field closes.
LEMMA OpenerOfTop ==
  ASSUME PlaceInv, StackInv, More, Next1.kind = "close", groups # <<>>
  PROVE  source[Opener(source, at + 1)].group = groups[Len(groups)]
<1>1. /\ Depth(source, at + 1) = Depth(source, at) - 1 /\ Depth(source, at) = Len(groups)
      /\ at \in Nat /\ Depth(source, at) \in Int
  BY NextField, DepthStep
<1>2. Len(groups) \in 1..Len(groups)
  BY EmptySeq DEF StackInv
<1>3. PICK i \in 1..at : Opened(i, Len(groups), at) /\ source[i].group = groups[Len(groups)]
  BY <1>2 DEF StackInv
<1>4. /\ i \in 1..at + 1 /\ source[i].kind = "open"
      /\ Depth(source, i) = Depth(source, at + 1) + 1
      /\ \A k \in i..(at + 1) - 1 : Depth(source, k) > Depth(source, at + 1)
  <2>1. \A k \in i..(at + 1) - 1 : k \in i..at /\ k \in Nat
    BY <1>1
  <2>. QED BY <1>1, <1>3, <2>1, DepthStep DEF Opened
<1>5. Opener(source, at + 1) = i
  BY <1>1, <1>4, OpenerIs
<1>. QED BY <1>3, <1>5

(* A field that closes a group is followed by what comes after it. *)
LEMMA HigherLevel ==
  ASSUME PlaceInv, StackInv, More, UNCHANGED given, at' = at + 1,
         Next1.kind = "close", groups # <<>>, groups' = SubSeq(groups, 1, Len(groups) - 1)
  PROVE  StackInv' /\ Depth(source, at + 1) >= 0
<1>1. /\ Depth(source, at + 1) = Depth(source, at) - 1 /\ Depth(source, at) = Len(groups)
      /\ at \in Nat
  BY NextField, DepthStep
<1>2. Len(groups) \in Nat /\ Len(groups) > 0
  BY EmptySeq DEF StackInv
<1>3. /\ groups' \in Seq(Groups) /\ Len(groups') = Len(groups) - 1
      /\ \A d \in 1..Len(groups) - 1 : groups'[d] = groups[d]
  BY <1>2 DEF StackInv
<1>4. ASSUME NEW d \in 1..Len(groups) - 1
      PROVE  \E i \in 1..at + 1 : Opened(i, d, at + 1) /\ source[i].group = groups'[d]
  <2>1. d \in 1..Len(groups) /\ d <= Depth(source, at + 1)
    BY <1>1, <1>2
  <2>. QED BY <1>3, <2>1, StillOpened
<1>. QED BY <1>1, <1>2, <1>3, <1>4 DEF StackInv, Opened, given

(* What a document and an open group carry. *)
LEMMA FieldForms ==
  ASSUME NEW f \in Fields
  PROVE  /\ f.kind = "document" => f = Document(f.enc)
         /\ f.kind = "document" => f.enc \in Explicit \cup {Unspecified}
         /\ f.kind = "open" => f.group \in Groups
<1>1. CASE f \in {Field(kind) : kind \in {"metadata", "opaque", "broken", "malformed"}}
  <2>1. PICK kind \in {"metadata", "opaque", "broken", "malformed"} : f = Field(kind)
    BY <1>1
  <2>2. f.kind = kind
    BY <2>1 DEF Field
  <2>. QED BY <2>2
<1>2. CASE f \in {Document(enc) : enc \in Explicit \cup {Unspecified}}
  <2>1. PICK enc \in Explicit \cup {Unspecified} : f = Document(enc)
    BY <1>2
  <2>2. f.kind = "document" /\ f.enc = enc
    BY <2>1 DEF Document
  <2>. QED BY <2>1, <2>2
<1>3. CASE f \in {Open(g) : g \in Groups}
  <2>1. PICK g \in Groups : f = Open(g)
    BY <1>3
  <2>2. f.kind = "open" /\ f.group = g
    BY <2>1 DEF Open
  <2>. QED BY <2>2
<1>4. CASE f \in {Close(g) : g \in Groups}
  <2>1. PICK g \in Groups : f = Close(g)
    BY <1>4
  <2>2. f.kind = "close"
    BY <2>1 DEF Close
  <2>. QED BY <2>2
<1>. QED BY <1>1, <1>2, <1>3, <1>4 DEF Fields

\* What is written for a field.
LEMMA Completes ==
  ASSUME PlaceInv, StackInv, More
  PROVE  /\ Completed(source)[at + 1] =
              IF AtTop /\ Next1.kind = "document" /\ Next1.enc = Unspecified
              THEN Document(ProducerEncoding(family)) ELSE Next1
         /\ Next1 \in Written /\ Document(ProducerEncoding(family)) \in Written
         /\ Next1.kind = "document" => Next1 = Document(Next1.enc)
         /\ Next1.kind = "open" => Next1.group \in Groups
<1>1. /\ at + 1 \in 1..Len(source) /\ Next1 = source[at + 1] /\ (AtTop <=> TopLevel(source, at + 1))
      /\ Next1 \in Fields
  BY NextField
<1>2. at + 1 \in TopLevelFields(source, "document") <=> AtTop /\ Next1.kind = "document"
  BY <1>1 DEF TopLevelFields
<1>3. Completed(source)[at + 1] =
        IF at + 1 \in TopLevelFields(source, "document") /\ source[at + 1].enc = Unspecified
        THEN Document(ProducerEncoding(family)) ELSE source[at + 1]
  BY <1>1 DEF Completed
<1>4. family \in Families
  BY DEF PlaceInv
<1>. QED BY <1>1, <1>2, <1>3, <1>4, FieldForms DEF Written

(* What is written for a field follows what was written before it. *)
LEMMA BufferStep ==
  ASSUME PlaceInv, StackInv, BufferInv, More, UNCHANGED <<given, temporary, pc>>,
         NEW field \in Written, field = Completed(source)[at + 1],
         buffer' = Append(buffer, field), at' = at + 1
  PROVE  BufferInv'
<1>1. /\ source' = source /\ family' = family /\ pc = "rewrite" /\ at \in Nat
      /\ temporary = <<>> /\ Len(buffer) = at /\ buffer \in Seq(Written)
      /\ \A i \in 1..at : buffer[i] = Completed(source)[i]
  BY NextField DEF given, More, BufferInv
<1>2. /\ buffer' \in Seq(Written) /\ Len(buffer') = at + 1 /\ buffer'[at + 1] = field
      /\ \A i \in 1..at : buffer'[i] = buffer[i]
  BY <1>1, AppendProperties
<1>3. \A i \in 1..at + 1 : buffer'[i] = Completed(source)[i]
  BY <1>1, <1>2
<1>4. Completed(source)' = Completed(source)
  BY <1>1 DEF Completed, TopLevelFields, TopLevel
<1>. QED BY <1>1, <1>2, <1>3, <1>4 DEF BufferInv, Written

\* A field that is read and written.
Emitted == Metadata \/ CopyField \/ OpenGroup \/ CloseGroup \/ (DocumentField /\ ~Refused(Next1.enc))

(* A field that is emitted keeps the invariants. *)
LEMMA FieldStep ==
  ASSUME PlaceInv, StackInv, PrefixInv, BufferInv, Emitted
  PROVE  PrefixInv' /\ StackInv' /\ BufferInv'
<1>. USE DEF Emit
<1>0. /\ More /\ at' = at + 1 /\ UNCHANGED <<given, temporary, pc>>
  BY DEF Emitted, Metadata, CopyField, OpenGroup, CloseGroup, DocumentField, given, files
<1>a. Depth(source, at) >= 0 /\ (AtTop \/ ~AtTop)
  BY <1>0, NextField DEF StackInv
<1>1. CASE Metadata
  <2>1. StackInv' /\ Depth(source, at + 1) >= 0
    BY <1>0, <1>1, <1>a, SameLevel DEF Metadata, given
  <2>2. PrefixInv'
    BY <1>0, <1>1, <2>1, PrefixStep DEF Metadata
  <2>3. BufferInv'
    BY <1>0, <1>1, Completes, BufferStep DEF Metadata
  <2>. QED BY <2>1, <2>2, <2>3
<1>2. CASE CopyField
  <2>1. /\ Next1.kind \in {"opaque", "metadata", "document", "broken"}
        /\ AtTop => Next1.kind = "opaque"
        /\ buffer' = Append(buffer, Next1) /\ UNCHANGED <<groups, metadata>>
    BY <1>2 DEF CopyField, Copied
  <2>2. StackInv' /\ Depth(source, at + 1) >= 0
    BY <1>0, <2>1, <1>a, SameLevel DEF given
  <2>3. PrefixInv'
    BY <1>0, <2>1, <2>2, PrefixStep
  <2>4. BufferInv'
    BY <1>0, <2>1, Completes, BufferStep
  <2>. QED BY <2>2, <2>3, <2>4
<1>3. CASE OpenGroup
  <2>1. StackInv' /\ Depth(source, at + 1) >= 0
    BY <1>0, <1>3, <1>a, NextField, Completes, DeeperLevel DEF OpenGroup
  <2>2. PrefixInv'
    BY <1>0, <1>3, <2>1, PrefixStep DEF OpenGroup
  <2>3. BufferInv'
    BY <1>0, <1>3, Completes, BufferStep DEF OpenGroup
  <2>. QED BY <2>1, <2>2, <2>3
<1>4. CASE CloseGroup
  <2>1. groups # <<>> /\ groups[Len(groups)] = Next1.group /\ Next1.kind = "close"
    BY <1>4 DEF CloseGroup, Matches
  <2>2. StackInv' /\ Depth(source, at + 1) >= 0
    BY <1>0, <1>4, <2>1, HigherLevel DEF CloseGroup
  <2>3. source[Opener(source, at + 1)].group = Next1.group
    BY <1>0, <2>1, OpenerOfTop
  <2>4. PrefixInv'
    BY <1>0, <1>4, <2>1, <2>2, <2>3, PrefixStep DEF CloseGroup
  <2>5. BufferInv'
    BY <1>0, <1>4, <2>1, Completes, BufferStep DEF CloseGroup
  <2>. QED BY <2>2, <2>4, <2>5
<1>5. CASE DocumentField /\ ~Refused(Next1.enc)
  <2>1. /\ AtTop /\ Next1.kind = "document" /\ UNCHANGED <<groups, metadata>>
        /\ buffer' = Append(buffer, Document(Filled(Next1.enc)))
        /\ Filled(Next1.enc) # NoContract
    BY <1>5 DEF DocumentField, Refused
  <2>2. StackInv' /\ Depth(source, at + 1) >= 0
    BY <1>0, <2>1, <1>a, SameLevel DEF given
  <2>3. PrefixInv'
    BY <1>0, <2>1, <2>2, PrefixStep DEF Filled
  <2>4. Document(Filled(Next1.enc)) = Completed(source)[at + 1] /\ Document(Filled(Next1.enc)) \in Written
    BY <1>0, <2>1, Completes DEF Filled
  <2>5. BufferInv'
    BY <1>0, <1>5, <2>1, <2>4, BufferStep DEF DocumentField, Refused
  <2>. QED BY <2>2, <2>3, <2>5
<1>. QED BY <1>1, <1>2, <1>3, <1>4, <1>5 DEF Emitted

-----------------------------------------------------------------------------
(* The fields that stop it, and the end.                                   *)

\* What is refused belongs to no well-formed index.
LEMMA RefusedIsInvalid ==
  ASSUME PlaceInv, StackInv, Reject \/ (DocumentField /\ Refused(Next1.enc))
  PROVE  ~Valid(source)
<1>0. More
  BY DEF Reject, DocumentField
<1>1. /\ at \in Nat /\ at + 1 \in 1..Len(source) /\ at + 1 \in 0..Len(source)
      /\ Next1 = source[at + 1] /\ Next1 \in Fields /\ (AtTop <=> TopLevel(source, at + 1))
      /\ Len(groups) = Depth(source, at) /\ (AtTop <=> Len(groups) = 0)
  BY <1>0, NextField
<1>2. CASE Next1.kind = "close" /\ ~Matches
  <2>1. CASE groups = <<>>
    <3>1. Depth(source, at + 1) = -1
      BY <1>1, <1>2, <2>1, DepthStep DEF AtTop
    <3>. QED BY <1>1, <3>1 DEF Valid, WellNested
  <2>2. CASE groups # <<>>
    <3>1. source[Opener(source, at + 1)].group # source[at + 1].group
      BY <1>0, <1>1, <1>2, <2>2, OpenerOfTop DEF Matches
    <3>. QED BY <1>1, <1>2, <3>1 DEF Valid, WellNested
  <2>. QED BY <2>1, <2>2
<1>3. CASE Torn
  BY <1>1, <1>3 DEF Torn, Valid, TopLevelFields
<1>4. CASE Next1.kind = "malformed"
  BY <1>1, <1>4 DEF Valid
<1>5. CASE DocumentField /\ Refused(Next1.enc)
  <2>1. AtTop /\ Next1.kind = "document" /\ Filled(Next1.enc) = NoContract
    BY <1>5 DEF DocumentField, Refused
  <2>2. Next1.enc \in {"UTF8", "UTF16", Unspecified}
    BY <1>1, <2>1, FieldForms, EncodingAssumption
  <2>3. Next1.enc = Unspecified /\ ProducerEncoding(family) = NoContract
    BY <2>1, <2>2 DEF Filled, NoContract, Unspecified
  <2>. QED BY <1>1, <2>1, <2>3 DEF Valid, TopLevelFields
<1>. QED BY <1>2, <1>3, <1>4, <1>5 DEF Reject

\* An index read to a legal end is well formed, and was completed.
LEMMA LegalEndIsValid ==
  ASSUME PlaceInv, StackInv, PrefixInv, BufferInv, pc = "rewrite", at = Len(source), LegalEnd
  PROVE  Valid(source) /\ Flushed = Completed(source)
<1>1. Depth(source, Len(source)) = 0
  BY EmptySeq DEF LegalEnd, AtTop, StackInv
<1>2. WellNested(source) /\ \A i \in 1..Len(source) : source[i].kind # "malformed"
  BY <1>1 DEF PrefixInv, WellNested
<1>3. TopLevelFields(source, "broken") = {} /\ TopLevelFields(source, "metadata") # {}
  BY DEF PrefixInv, TopLevelFields, LegalEnd
<1>4. ProducerEncoding(family) = NoContract =>
        \A i \in TopLevelFields(source, "document") : source[i].enc # Unspecified
  BY DEF PrefixInv, TopLevelFields
<1>5. buffer \in Seq(Written) /\ temporary = <<>> /\ Len(buffer) = Len(source)
  BY DEF BufferInv
<1>6. Flushed = buffer /\ buffer = [i \in 1..Len(source) |-> buffer[i]]
  BY <1>5 DEF Flushed
<1>7. \A i \in 1..Len(source) : buffer[i] = Completed(source)[i]
  BY DEF BufferInv
<1>8. Completed(source) = [i \in 1..Len(source) |-> Completed(source)[i]]
  BY DEF Completed
<1>. HIDE DEF Flushed
<1>9. Flushed = Completed(source)
  BY <1>6, <1>7, <1>8
<1>. QED BY <1>2, <1>3, <1>4, <1>9 DEF Valid

(* A source that ends where it may not is not valid. *)
LEMMA IllegalEndIsInvalid ==
  ASSUME PlaceInv, StackInv, PrefixInv, at = Len(source), ~LegalEnd
  PROVE  ~Valid(source)
<1>1. CASE groups # <<>>
  <2>1. Depth(source, Len(source)) # 0
    BY <1>1, EmptySeq DEF StackInv
  <2>. QED BY <2>1 DEF Valid, WellNested
<1>2. CASE ~metadata
  BY <1>2 DEF PrefixInv, Valid, TopLevelFields
<1>. QED BY <1>1, <1>2 DEF LegalEnd, AtTop

-----------------------------------------------------------------------------
(* The steps.                                                              *)

\* The index and its family stay, and so does what they are judged by.
LEMMA GivenStays ==
  ASSUME UNCHANGED given
  PROVE  Valid(source)' = Valid(source) /\ Completed(source)' = Completed(source)
BY DEF given, Valid, WellNested, Completed, TopLevelFields, TopLevel

(* A step that leaves the parse alone keeps its invariants. *)
LEMMA ParseStays ==
  ASSUME PrefixInv, StackInv, UNCHANGED <<given, parse>>
  PROVE  PrefixInv' /\ StackInv'
BY DEF PrefixInv, StackInv, Opened, TopLevel, given, parse

\* The buffer is only looked at while the index is being rewritten.
LEMMA BufferStays ==
  ASSUME BufferInv, UNCHANGED <<given, parse, temporary>>,
         pc' \in {"start", "rewrite"} => pc \in {"start", "rewrite"},
         pc' = "start" => pc = "start"
  PROVE  BufferInv'
<1>1. Completed(source)' = Completed(source) /\ UNCHANGED <<buffer, at, source>>
  BY GivenStays DEF given, parse
<1>. QED BY <1>1 DEF BufferInv, Written

(* The invariant holds when the normalisation starts. *)
LEMMA AfterInit == Init => EncodingInv
<1>. SUFFICES ASSUME Init PROVE EncodingInv
  OBVIOUS
<1>1. at = 0 /\ groups = <<>> /\ buffer = <<>> /\ temporary = <<>> /\ pc = "start" /\ index = source
  BY DEF Init
<1>2. Depth(source, 0) = 0
  BY DepthStep
<1>3. <<>> \in Seq(Written) /\ <<>> \in Seq(Groups) /\ Len(<<>>) = 0
  OBVIOUS
<1>4. PrefixInv
  BY <1>1, <1>2 DEF PrefixInv, Init
<1>5. StackInv
  BY <1>1, <1>2, <1>3 DEF StackInv
<1>6. BufferInv
  BY <1>1, <1>3 DEF BufferInv
<1>7. source \in Seq(Fields)
  BY StreamsAssumption DEF Init
<1>a. at \in 0..Len(source)
  BY <1>1, <1>7, LenProperties
<1>8. PlaceInv
  BY <1>7, <1>a DEF PlaceInv, Init
<1>9. CauseInv
  BY DEF CauseInv, Init
<1>. QED BY <1>4, <1>5, <1>6, <1>8, <1>9 DEF EncodingInv

\* Before and after the rewriting, and while it is stopped from outside.
LEMMA OutsideStep ==
  ASSUME EncodingInv,
         \/ Begin \/ IoFails \/ Notice \/ Conclude \/ Persist \/ LastCheck \/ Cancel \/ Expire
         \/ UNCHANGED vars
  PROVE  EncodingInv'
<1>. USE DEF EncodingInv
<1>1. UNCHANGED <<given, parse, temporary>>
  BY DEF Begin, IoFails, Notice, Conclude, Persist, LastCheck, Cancel, Expire, vars, files
<1>2. /\ pc' \in {"start", "rewrite"} => pc \in {"start", "rewrite"}
      /\ pc' = "start" => pc = "start"
  BY DEF Begin, IoFails, Notice, Conclude, Persist, LastCheck, Cancel, Expire, vars, Stop, Return
<1>3. PrefixInv' /\ StackInv' /\ BufferInv'
  BY <1>1, <1>2, ParseStays, BufferStays
<1>4. /\ Valid(source)' = Valid(source) /\ Completed(source)' = Completed(source)
      /\ source' = source /\ family' = family /\ at' = at /\ metadata' = metadata
      /\ temporary' = temporary
  BY <1>1, GivenStays DEF given, parse
<1>5. CASE Begin
  <2>1. PlaceInv'
    BY <1>4, <1>5 DEF PlaceInv, Begin, Return, Check, files, control
  <2>2. CauseInv'
    BY <1>4, <1>5 DEF PlaceInv, CauseInv, Begin, Return, Check, control
  <2>. QED BY <1>3, <2>1, <2>2
<1>6. CASE IoFails
  <2>1. PlaceInv'
    BY <1>4, <1>6 DEF PlaceInv, IoFails, Stop, files, control
  <2>2. CauseInv'
    BY <1>4, <1>6 DEF PlaceInv, CauseInv, IoFails, Stop, control
  <2>. QED BY <1>3, <2>1, <2>2
<1>7. CASE Notice
  <2>0. /\ pc = "rewrite" /\ pc' = "rewritten" /\ result' # "Ok"
        /\ UNCHANGED <<files, answer, control>>
    BY <1>7 DEF Notice, Stop, Check, Interrupted
  <2>1. PlaceInv'
    BY <1>4, <2>0 DEF PlaceInv, files, control
  <2>2. CauseInv'
    BY <1>4, <1>7 DEF PlaceInv, CauseInv, Notice, Stop, Check, Interrupted, control
  <2>. QED BY <1>3, <2>1, <2>2
<1>8. CASE Conclude
  <2>1. PlaceInv'
    BY <1>4, <1>8 DEF PlaceInv, Conclude, Verdict, Return, Check, files, control
  <2>2. CauseInv'
    BY <1>4, <1>8 DEF PlaceInv, CauseInv, Conclude, Verdict, Return, Check, control
  <2>. QED BY <1>3, <2>1, <2>2
<1>9. CASE Persist
  <2>1. PlaceInv'
    BY <1>4, <1>9 DEF PlaceInv, Persist, Return, control
  <2>2. CauseInv'
    BY <1>4, <1>9 DEF PlaceInv, CauseInv, Persist, Return, Check, control
  <2>. QED BY <1>3, <2>1, <2>2
<1>10. CASE LastCheck
  <2>1. PlaceInv'
    BY <1>4, <1>10 DEF PlaceInv, LastCheck, Return, Check, files, control
  <2>2. CauseInv'
    BY <1>4, <1>10 DEF PlaceInv, CauseInv, LastCheck, Return, Check, control
  <2>. QED BY <1>3, <2>1, <2>2
<1>11. CASE Cancel \/ Expire
  <2>1. PlaceInv'
    BY <1>4, <1>11 DEF PlaceInv, Cancel, Expire, files
  <2>2. CauseInv'
    BY <1>4, <1>11 DEF PlaceInv, CauseInv, Cancel, Expire, Check
  <2>. QED BY <1>3, <2>1, <2>2
<1>12. CASE UNCHANGED vars
  <2>1. PlaceInv' /\ CauseInv'
    BY <1>4, <1>12 DEF PlaceInv, CauseInv, Check, vars, files, control
  <2>. QED BY <1>3, <2>1
<1>. QED BY <1>5, <1>6, <1>7, <1>8, <1>9, <1>10, <1>11, <1>12

\* While the index is rewritten.
LEMMA RewriteStep ==
  ASSUME EncodingInv, Emitted \/ Reject \/ EndOfIndex \/ (DocumentField /\ Refused(Next1.enc))
  PROVE  EncodingInv'
<1>. USE DEF EncodingInv
<1>1. CASE Emitted
  <2>1. PrefixInv' /\ StackInv' /\ BufferInv'
    BY <1>1, FieldStep
  <2>2. /\ More /\ at' = at + 1 /\ metadata' \in BOOLEAN
        /\ UNCHANGED <<pc, given, files, result, answer, trouble, control>>
    BY <1>1 DEF Emitted, Metadata, CopyField, OpenGroup, CloseGroup, DocumentField, Emit, PlaceInv
  <2>3. at + 1 \in 0..Len(source) /\ Valid(source)' = Valid(source)
        /\ Completed(source)' = Completed(source)
    BY <2>2, NextField, GivenStays
  <2>4. PlaceInv'
    BY <2>2, <2>3 DEF PlaceInv, given, files, control
  <2>5. CauseInv'
    BY <2>2, <2>3 DEF CauseInv, Check, given, control
  <2>. QED BY <2>1, <2>4, <2>5
<1>2. CASE Reject \/ (DocumentField /\ Refused(Next1.enc))
  <2>1. /\ pc = "rewrite" /\ pc' = "rewritten" /\ result' = "Input"
        /\ UNCHANGED <<given, files, parse, answer, trouble, control>>
    BY <1>2 DEF Reject, DocumentField, More, Stop, parse
  <2>2. /\ ~Valid(source) /\ Valid(source)' = Valid(source)
        /\ Completed(source)' = Completed(source)
    BY <1>2, <2>1, RefusedIsInvalid, GivenStays
  <2>3. PrefixInv' /\ StackInv' /\ BufferInv'
    BY <2>1, ParseStays, BufferStays DEF files
  <2>4. PlaceInv'
    BY <2>1, <2>2 DEF PlaceInv, given, files, parse, control
  <2>5. CauseInv'
    BY <2>1, <2>2 DEF PlaceInv, CauseInv, Check, given, control
  <2>. QED BY <2>3, <2>4, <2>5
<1>3. CASE EndOfIndex /\ LegalEnd
  <2>1. /\ pc = "rewrite" /\ pc' = "rewritten" /\ result' = "Ok" /\ temporary' = Flushed
        /\ buffer' = <<>> /\ at = Len(source)
        /\ UNCHANGED <<given, index, at, groups, metadata, answer, trouble, control>>
    BY <1>3 DEF EndOfIndex, Stop
  <2>2. /\ Valid(source) /\ Flushed = Completed(source) /\ Valid(source)' = Valid(source)
        /\ Completed(source)' = Completed(source)
    BY <1>3, <2>1, LegalEndIsValid, GivenStays
  <2>3. PrefixInv' /\ StackInv'
    BY <2>1 DEF PrefixInv, StackInv, Opened, TopLevel, given
  <2>4. <<>> \in Seq(Written')
    OBVIOUS
  <2>5. BufferInv'
    BY <2>1, <2>4 DEF BufferInv
  <2>. HIDE DEF Flushed
  <2>6. PlaceInv'
    BY <2>1, <2>2 DEF PlaceInv, given, control
  <2>7. CauseInv'
    BY <2>1, <2>2 DEF PlaceInv, CauseInv, Check, given, control
  <2>. QED BY <2>3, <2>5, <2>6, <2>7
<1>4. CASE EndOfIndex /\ ~LegalEnd
  <2>1. /\ pc = "rewrite" /\ pc' = "rewritten" /\ result' = "Input" /\ at = Len(source)
        /\ UNCHANGED <<given, files, parse, answer, trouble, control>>
    BY <1>4 DEF EndOfIndex, Stop, files, parse
  <2>2. /\ ~Valid(source) /\ Valid(source)' = Valid(source)
        /\ Completed(source)' = Completed(source)
    BY <1>4, <2>1, IllegalEndIsInvalid, GivenStays
  <2>3. PrefixInv' /\ StackInv' /\ BufferInv'
    BY <2>1, ParseStays, BufferStays DEF files
  <2>4. PlaceInv'
    BY <2>1, <2>2 DEF PlaceInv, given, files, parse, control
  <2>5. CauseInv'
    BY <2>1, <2>2 DEF PlaceInv, CauseInv, Check, given, control
  <2>. QED BY <2>3, <2>4, <2>5
<1>. QED BY <1>1, <1>2, <1>3, <1>4

\* The invariant holds in every state, whatever the indexes, the families and
\* the moments of the interrupts.
THEOREM Invariance == Spec => []EncodingInv
<1>1. EncodingInv /\ [Next]_vars => EncodingInv'
  <2>. SUFFICES ASSUME EncodingInv, [Next]_vars PROVE EncodingInv'
    OBVIOUS
  <2>1. \/ Begin \/ IoFails \/ Notice \/ Conclude \/ Persist \/ LastCheck \/ Cancel \/ Expire
        \/ UNCHANGED vars
        \/ Emitted \/ Reject \/ EndOfIndex \/ (DocumentField /\ Refused(Next1.enc))
    BY DEF Next, Rewrite, Emitted
  <2>. QED BY <2>1, OutsideStep, RewriteStep
<1>. QED BY <1>1, AfterInit, PTL DEF Spec

\* A kill at any moment leaves the producer's index, or all of a well-formed
\* one with its encodings completed: the file is renamed only when rewrite
\* returned Ok (encoding.rs:66-69).
THEOREM IndexAlwaysWhole == Spec => []IndexIsWhole
<1>1. EncodingInv => IndexIsWhole
  BY DEF EncodingInv, PlaceInv, IndexIsWhole
<1>. QED BY <1>1, Invariance, PTL

\* normalize answers Ok only when the completed index is the published one.
THEOREM SuccessAlwaysCompleted == Spec => []SuccessIsCompleted
<1>1. EncodingInv => SuccessIsCompleted
  BY DEF EncodingInv, PlaceInv, SuccessIsCompleted
<1>. QED BY <1>1, Invariance, PTL

\* A cancellation or a deadline that stopped the rewriting is what is answered,
\* whatever error the protobuf library made of it: the check of line 66 comes
\* before the error of rewrite.
THEOREM InterruptNeverMasked == Spec => []InterruptNotMasked
<1>1. EncodingInv => InterruptNotMasked
  BY DEF EncodingInv, CauseInv, InterruptNotMasked
<1>. QED BY <1>1, Invariance, PTL

\* Only an ill-formed index, or one that could not be read, is an input error:
\* the cursor and the stack of rewrite agree with counting.
THEOREM RejectionAlwaysDeserved == Spec => []RejectionDeserved
<1>1. EncodingInv => RejectionDeserved
  BY DEF EncodingInv, CauseInv, RejectionDeserved
<1>. QED BY <1>1, Invariance, PTL
=============================================================================
