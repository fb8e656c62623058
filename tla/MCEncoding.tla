----------------------------- MODULE MCEncoding -----------------------------
(* Instances of Encoding for TLC, its properties and the reference they use. *)
EXTENDS Encoding, Integers, FiniteSets

CONSTANT MaxFields  \* bound: fields of a producer's index
AllStreams == UNION {[1..n -> Fields] : n \in 0..MaxFields}

\* Every group opened has number 8; one closed may have another.
MCStreams ==
  {s \in AllStreams : \A i \in DOMAIN s : s[i].kind = "open" => s[i].group = 8}

----------------------------------------------------------------------------
(* The reference: what a well-formed index is, and what completing it means,
   with no cursor and no stack. *)
Count(s, n, kind) == Cardinality({i \in 1..n : s[i].kind = kind})
Depth(s, n) == Count(s, n, "open") - Count(s, n, "close")
TopLevel(s, i) == Depth(s, i - 1) = 0

Opener(s, j) ==
  CHOOSE i \in 1..j : /\ s[i].kind = "open" /\ Depth(s, i) = Depth(s, j) + 1
                      /\ \A k \in i..j-1 : Depth(s, k) > Depth(s, j)
WellNested(s) ==
  /\ \A n \in 0..Len(s) : Depth(s, n) >= 0
  /\ Depth(s, Len(s)) = 0
  /\ \A j \in 1..Len(s) : s[j].kind = "close" => s[Opener(s, j)].group = s[j].group

TopLevelFields(s, kind) == {i \in 1..Len(s) : s[i].kind = kind /\ TopLevel(s, i)}

Valid(s) ==
  /\ \A i \in 1..Len(s) : s[i].kind # "malformed"
  /\ WellNested(s)
  /\ TopLevelFields(s, "broken") = {}
  /\ TopLevelFields(s, "metadata") # {}
  /\ ProducerEncoding(family) = NoContract =>
       \A i \in TopLevelFields(s, "document") : s[i].enc # Unspecified

Completed(s) ==
  [i \in 1..Len(s) |->
     IF i \in TopLevelFields(s, "document") /\ s[i].enc = Unspecified
     THEN Document(ProducerEncoding(family)) ELSE s[i]]

----------------------------------------------------------------------------
(* In every state, so also if the process is killed there, the output path
   holds the producer's index untouched, or all of a well-formed index with
   exactly its unspecified top-level documents completed. *)
IndexIsWhole ==
  \/ index = source
  \/ Valid(source) /\ index = Completed(source)

(* Success means the completed index is the one at the output path. *)
SuccessIsCompleted ==
  answer = "Ok" => Valid(source) /\ index = Completed(source)

(* An interrupt a check noticed inside the protobuf library is never answered
   as a malformed index or an I/O failure. *)
InterruptNotMasked ==
  trouble = "interrupt" /\ pc = "done" => answer \in {"Cancelled", "Deadline"}

(* Every well-formed index is accepted: only an ill-formed one, or one that
   could not be read, is an input error. *)
RejectionDeserved ==
  answer = "Input" => trouble = "io" \/ ~Valid(source)
=============================================================================
