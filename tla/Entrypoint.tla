----------------------------- MODULE Entrypoint -----------------------------
(***************************************************************************)
(* A container up to its dispatcher.  scip-entrypoint resolves the         *)
(* identity to run as, prepares an OverlayFS over the read-only source,    *)
(* prepares the cache and output directories, and execs the dispatcher as  *)
(* that identity.  Containers follow one another: what is mounted into     *)
(* them (source, overlay, cache, output) stays, their mounts do not.       *)
(* Module Container goes on from the exec to the end of the container.     *)
(***************************************************************************)
EXTENDS Naturals

CONSTANTS
  Ids,            \* the identities there are; one stands for UID and GID
  Root,           \* the identity the entrypoint itself has
  MaxContainers   \* bound: containers

ASSUME EntrypointAssumption ==
  /\ Root \in Ids /\ "nobody" \notin Ids
  /\ MaxContainers \in Nat

VARIABLES
  pc,          \* what the container does next, or "off"
  container,   \* how many containers were started
  env,         \* the environment it was started with: see Environments
  identity,    \* the local (uid, gid)
  mounted,     \* /workspace is an overlay of /source
  overlay,     \* /overlay/upper and /overlay/work: see Layers
  output,      \* /output: its kind and owner
  cache,       \* /cache/home and the others: made, and their owner
  exit,        \* how the last container ended
  given        \* history: overlay, output and cache when it was started

host == <<overlay, output, cache>>
vars == <<pc, container, env, identity, mounted, host, exit, given>>

Nobody == "nobody"
\* GRAPHIT_SCIP_OWNER: absent, output-mount, or another text.  The numeric
\* variables: both absent, one of them missing or invalid, or a valid pair.  The
\* timeout is the dispatcher's.
Unset == "unset"
Numeric == {Unset, "invalid"} \cup Ids
Environments ==
  [owner : {Unset, "output-mount", "invalid"}, pair : Numeric, overlay : BOOLEAN,
   timeout : {Unset, "invalid", "valid"}]

\* A layer directory: absent, or a directory, its owner, and the containers
\* whose files are in it.
Absent == [there |-> FALSE, owner |-> Nobody, files |-> {}]
Layers == [there : BOOLEAN, owner : Ids \cup {Nobody}, files : SUBSET (0..MaxContainers)]
Sides == {"upper", "work"}

Init ==
  /\ pc = "off" /\ container = 0 /\ mounted = FALSE
  /\ env = [owner |-> Unset, pair |-> Unset, overlay |-> FALSE, timeout |-> Unset]
  /\ identity = Nobody
  /\ overlay \in [Sides -> {Absent, [there |-> TRUE, owner |-> Root, files |-> {0}]}]
  /\ output \in {[kind |-> "dir", owner |-> id] : id \in Ids}
                  \cup {[kind |-> kind, owner |-> Nobody] : kind \in {"file", "absent"}}
  /\ cache = [made |-> FALSE, owner |-> Nobody]
  /\ exit = "none"
  /\ given = [overlay |-> overlay, output |-> output, cache |-> cache]

\* A container starts over the layers of an earlier one, or fresh ones.
Start ==
  /\ pc = "off" /\ container < MaxContainers
  /\ container' = container + 1
  /\ pc' = "ownership"
  /\ env' \in Environments
  /\ overlay' \in {overlay, [side \in Sides |-> Absent]}
  /\ mounted' = FALSE /\ identity' = Nobody /\ exit' = "none"
  /\ given' = [overlay |-> overlay', output |-> output, cache |-> cache]
  /\ UNCHANGED <<output, cache>>

Fail == pc' = "off" /\ exit' = "1"
Goto(label) == pc' = label /\ UNCHANGED exit
around == <<container, env, mounted, given>>

\* Mutant: what the numeric variables say is not looked at.
Unvalidated == IF env.owner = Unset THEN env.pair ELSE output.owner
\* Mutant: the numeric pair is preferred when both are given.
PairFirst ==
  IF env.pair \in Ids THEN env.pair
  ELSE IF env.owner = "output-mount" /\ output.kind = "dir" THEN output.owner
  ELSE Nobody
\* ownership: exactly one of the two sources is given, and is valid.
Selected ==
  IF env.owner = Unset
  THEN IF env.pair \in Ids THEN env.pair ELSE Nobody
  ELSE IF env.owner = "output-mount" /\ env.pair = Unset /\ output.kind = "dir"
       THEN output.owner ELSE Nobody

\* Mutant: the output directory is created before its owner is looked at.
OutputMade ==
  /\ output' = IF output.kind = "absent" THEN [kind |-> "dir", owner |-> Root] ELSE output
  /\ UNCHANGED <<overlay, cache>>
Untouched == UNCHANGED host

\* Looking at /output may fail.
Ownership ==
  /\ pc = "ownership"
  /\ \/ /\ Selected # Nobody
        /\ identity' = Selected
        /\ Goto(IF env.overlay THEN "overlay" ELSE "prepare")
     \/ /\ Selected = Nobody \/ env.owner = "output-mount"
        /\ Fail /\ UNCHANGED identity
  /\ Untouched /\ UNCHANGED around

\* Lines 89-91: /source and /overlay must be there.
CheckMounts ==
  /\ pc = "overlay"
  /\ Goto("upper") \/ Fail
  /\ UNCHANGED <<around, identity, host>>

\* Mutant: a layer directory that is there already is taken as it is.
AnyContents(side) == TRUE
\* empty_directory: the directory is created when it is missing.
Empty(side) == overlay[side].files = {}

\* A directory of this owner, with the files that are there.
Made(side, owner) ==
  [overlay EXCEPT ![side] = [there |-> TRUE, owner |-> owner, files |-> overlay[side].files]]

\* Lines 92-97, for one side: create, look, chown; each may fail.
PrepareLayer(side, next) ==
  /\ pc = side
  /\ \/ Fail /\ UNCHANGED overlay
     \/ /\ Fail
        /\ overlay' = Made(side, IF overlay[side].owner = Nobody THEN Root
                                                               ELSE overlay[side].owner)
     \/ /\ Empty(side)
        /\ overlay' = Made(side, identity)
        /\ Goto(next)
  /\ UNCHANGED <<around, identity, output, cache>>

\* Lines 98-112.  OverlayFS keeps files of its own in the work directory.
\* Mutant: the exit status of mount is not looked at.
StatusIgnored(succeeded) == TRUE
Accepted(succeeded) == succeeded
Mount ==
  /\ pc = "mount"
  /\ mounted' \in BOOLEAN
  /\ overlay' = IF mounted' THEN [overlay EXCEPT !["work"].files = @ \cup {container}]
                           ELSE overlay
  /\ IF Accepted(mounted') THEN Goto("prepare") ELSE Fail
  /\ UNCHANGED <<container, env, given, identity, output, cache>>

\* Lines 114-124.  A chown that is refused is not an error.
Prepare ==
  /\ pc = "prepare"
  /\ \E owner \in {identity, IF cache.made THEN cache.owner ELSE Root} :
       cache' \in {[made |-> TRUE, owner |-> owner], cache}
  /\ \/ Fail /\ UNCHANGED output
     \/ /\ cache'.made /\ output.kind # "file"
        /\ \E owner \in {identity, IF output.kind = "dir" THEN output.owner ELSE Root} :
             output' = [kind |-> "dir", owner |-> owner]
        /\ Goto("exec")
  /\ UNCHANGED <<around, identity, overlay>>

\* Lines 125-138: setpriv replaces the entrypoint, or the container ends.
Exec ==
  /\ pc = "exec"
  /\ Goto("dispatch") \/ Fail
  /\ UNCHANGED <<around, identity, host>>

Setup ==
  \/ Ownership \/ CheckMounts
  \/ PrepareLayer("upper", "work") \/ PrepareLayer("work", "mount")
  \/ Mount \/ Prepare \/ Exec

-----------------------------------------------------------------------------
(* Properties.                                                             *)

\* The variables keep their types, and whoever runs has an identity.
TypeOK ==
  /\ pc \in {"off", "ownership", "overlay", "upper", "work", "mount", "prepare",
            "exec", "dispatch"}
  /\ container \in 0..MaxContainers /\ env \in Environments
  /\ identity \in Ids \cup {Nobody} /\ mounted \in BOOLEAN
  /\ overlay \in [Sides -> Layers]
  /\ output \in [kind : {"dir", "file", "absent"}, owner : Ids \cup {Nobody}]
  /\ cache \in [made : BOOLEAN, owner : Ids \cup {Nobody}]
  /\ exit \in {"none", "killed", "0", "1", "2", "124", "126", "127", "130", "upstream"}
  /\ pc \notin {"off", "ownership"} => identity # Nobody

\* In overlay mode the dispatcher runs over an overlay, whose upper layer holds
\* nothing but what this container wrote, and belongs to its identity: no file
\* of an earlier, perhaps killed, run shows through in the workspace.
FreshOverlay ==
  pc = "dispatch" /\ env.overlay =>
    /\ mounted
    /\ overlay["upper"].files \subseteq {container}
    /\ \A side \in Sides : overlay[side].owner = identity

\* A layer that is occupied is left exactly as it is, its owner included.
OccupiedLayerUntouched ==
  \A side \in Sides :
    given.overlay[side].files # {} => overlay[side] = given.overlay[side]

\* The dispatcher runs as exactly one selected identity.  With output-mount it
\* is the owner the mount had before the entrypoint touched anything, and no
\* chown changes that owner; otherwise it is the explicit pair.
IdentityAsSelected ==
  pc = "dispatch" =>
    IF env.owner = "output-mount"
    THEN env.pair = Unset /\ identity = given.output.owner /\ output = given.output
    ELSE env.owner = Unset /\ env.pair = identity
=============================================================================
