------------------------------- MODULE Paths -------------------------------
(***************************************************************************)
(* Absolute paths whose components may be "..", resolved by name.  The     *)
(* filter (`normalize`, compdb.rs) and the dispatcher (`dotnet_inputs`,    *)
(* dispatch.rs) both keep a stack of components; the reference, in which   *)
(* theorems and properties speak, keeps none.                              *)
(***************************************************************************)
EXTENDS Integers, Sequences, FiniteSets

\* Mutant: ".." takes back what is before it as spelled, not as normalised.
OneStep(parts) ==
  LET kept == {i \in DOMAIN parts :
                 parts[i] # ".." /\ (i = Len(parts) \/ parts[i + 1] # "..")}
      upTo[n \in 0..Len(parts)] ==
        IF n = 0 THEN <<>>
        ELSE IF n \in kept THEN Append(upTo[n - 1], parts[n]) ELSE upTo[n - 1]
  IN upTo[Len(parts)]
\* ".." takes back the component before it, and stays at the top.
Normal(parts) ==
  LET upTo[n \in 0..Len(parts)] ==
        IF n = 0 THEN <<>>
        ELSE IF parts[n] # ".." THEN Append(upTo[n - 1], parts[n])
        ELSE SubSeq(upTo[n - 1], 1, Len(upTo[n - 1]) - 1)
  IN upTo[Len(parts)]

-----------------------------------------------------------------------------
(* The reference: where a path leads, with no stack of components.  Walking
   from the top, ".." goes one level up but never above it; a component is on
   the way to the end when the walk never comes back above it. *)
Climb(parts, n) ==
  Cardinality({i \in 1..n : parts[i] # ".."}) - Cardinality({i \in 1..n : parts[i] = ".."})
LowestUpTo(parts, n) ==
  CHOOSE low \in {Climb(parts, k) : k \in 0..n} : \A k \in 0..n : low <= Climb(parts, k)
Level(parts, n) == Climb(parts, n) - LowestUpTo(parts, n)
OnTheWay(parts) ==
  {i \in DOMAIN parts :
     parts[i] # ".." /\ \A j \in i..Len(parts) : Level(parts, j) >= Level(parts, i)}
Place(parts) ==
  [d \in 1..Cardinality(OnTheWay(parts)) |->
     parts[CHOOSE i \in OnTheWay(parts) : Level(parts, i) = d]]
=============================================================================
