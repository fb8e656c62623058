-------------------------- MODULE ContainerProofs --------------------------
(***************************************************************************)
(* Theorems about Container, for every set of identities, any number of    *)
(* containers and any layers they find.  ContainerInv is inductive: what   *)
(* the entrypoint has checked so far holds at each of its places           *)
(* (SetupInv), and what scip-run has done so far agrees with what may have *)
(* been answered (RunInv).                                                 *)
(***************************************************************************)
EXTENDS Container, TLAPS

Places == {"off", "ownership", "overlay", "upper", "work", "mount", "prepare", "exec",
           "dispatch"}
Prepared == {"prepare", "exec", "dispatch"}

Outputs == [kind : {"dir", "file", "absent"}, owner : Ids \cup {Nobody}]
Caches == [made : BOOLEAN, owner : Ids \cup {Nobody}]
TypeInv ==
  /\ TypeOK
  /\ given \in [overlay : [Sides -> Layers], output : Outputs, cache : Caches]

\* No layer has files without being there, owned by someone.
OwnedInv(layers) ==
  \A side \in Sides :
    layers[side].files # {} => layers[side].there = TRUE /\ layers[side].owner # Nobody

\* Who was selected: from a mount nobody had touched, or the explicit pair.
IdentityInv ==
  /\ pc = "ownership" => output = given.output
  /\ pc \notin {"off", "ownership"} =>
       /\ identity # Nobody
       /\ IF env.owner = "output-mount"
          THEN /\ env.pair = Unset /\ given.output.kind = "dir"
               /\ identity = given.output.owner /\ output = given.output
          ELSE env.owner = Unset /\ env.pair = identity

\* Nothing was done when the identity is not known yet, or was refused.
RefusedInv ==
  /\ pc = "ownership" => identity = Nobody
  /\ pc = "ownership" \/ (pc = "off" /\ exit = "1" /\ identity = Nobody) =>
       given = [overlay |-> overlay, output |-> output, cache |-> cache]

\* A layer is this container's own from the place behind its check on.
OwnLayer(side) ==
  /\ given.overlay[side].files = {}
  /\ overlay[side].there = TRUE /\ overlay[side].owner = identity
SetupInv ==
  /\ pc \in {"overlay", "upper", "work", "mount"} => env.overlay = TRUE
  /\ pc \in {"work", "mount"} => OwnLayer("upper") /\ overlay["upper"].files = {}
  /\ pc = "mount" => OwnLayer("work") /\ overlay["work"].files = {}
  /\ (pc \in Prepared \/ (pc = "off" /\ exit = "0")) /\ env.overlay = TRUE =>
       mounted = TRUE /\ overlay["upper"].files \subseteq {container}
  /\ pc \in Prepared /\ env.overlay = TRUE => \A side \in Sides : OwnLayer(side)
  /\ mounted = TRUE /\ pc # "off" => env.overlay = TRUE /\ pc \in Prepared
  /\ \A side \in Sides :
       given.overlay[side].files # {} => overlay[side] = given.overlay[side]

\* Each place of scip-run, and what was answered at its end.
RunInv ==
  /\ pc \in Places /\ step \in {"parse", "handler", "settings", "run", "main"}
  /\ answer \in Errors \cup {"Ok", "none"}
  /\ pc # "off" => exit = "none"
  /\ pc \notin {"off", "dispatch"} => step = "parse"
  /\ pc # "off" /\ step # "run" => phase = "idle"
  /\ pc = "off" => phase = "idle"
  /\ phase \in {"idle", "admitting", "producing", "published"}
  /\ phase = "published" => index = [form |-> "complete", run |-> run]
  /\ pc # "off" /\ step \in {"parse", "handler"} => stop # "sent"
  /\ At("run") => phase # "idle" /\ answer = "none" /\ (stop = "sent" => interrupted = TRUE)
  /\ At("main") => answer # "none"
  /\ history.ran = TRUE \/ index = history.index
  /\ pc # "off" /\ step # "parse" => env.timeout # "invalid"
  /\ (pc # "off" /\ step \in {"run", "main"}) <=> (pc # "off" /\ history.ran = TRUE)
  /\ At("main") /\ answer = "Ok" => index = [form |-> "complete", run |-> run] /\ stop # "sent"
  /\ pc = "off" /\ exit = "0" =>
       /\ index = [form |-> "complete", run |-> run] /\ stop # "sent"
       /\ history.ran = TRUE /\ env.timeout # "invalid"

HostInv == OwnedInv(overlay) /\ IdentityInv /\ RefusedInv /\ SetupInv

ContainerInv == TypeInv /\ RunInv /\ HostInv

-----------------------------------------------------------------------------
(* What scip-run did, and the end of the container.                        *)

\* Only "Ok" is status 0, and only an entrypoint that failed is "1" before.
LEMMA Codes ==
  /\ Code["Ok"] = "0" /\ "Ok" \notin Errors /\ "none" \notin Errors
  /\ \A value \in Errors : Code[value] # "0"
  /\ Code["Config"] # "0" /\ Code["Io"] # "0" /\ Code["Input"] # "0" /\ Code["Limit"] # "0"
<1>1. DOMAIN Code = {"Ok", "Io", "Config", "Input", "Limit", "Deadline", "DeniedTool",
                     "MissingTool", "Cancelled", "Child"}
  BY DEF Code
<1>2. \A value \in DOMAIN Code \ {"Ok"} : Code[value] # "0"
  BY <1>1 DEF Code
<1>3. Code["Ok"] = "0"
  BY DEF Code
<1>4. Errors \subseteq DOMAIN Code \ {"Ok"}
  BY ContainerAssumption
<1>5. "none" \notin DOMAIN Code /\ {"Config", "Io", "Input", "Limit"} \subseteq DOMAIN Code \ {"Ok"}
  BY <1>1
<1>. QED BY <1>2, <1>3, <1>4, <1>5

\* A step that leaves Publication as it is, or is one of its steps.
LEMMA Interface ==
  ASSUME RunInv, Run!Conclude
  PROVE  /\ phase' = "idle" /\ run' = run /\ interrupted' = interrupted
         /\ answer' \in Errors \cup {"Ok", "none"}
         /\ answer' = "Ok" => /\ phase = "published" /\ interrupted # TRUE /\ index' = index
<1>. USE Codes DEF Run!EndsWith, RunInv
<1>1. CASE Run!Refuse BY <1>1 DEF Run!Refuse
<1>2. CASE Run!GiveUp BY <1>2 DEF Run!GiveUp
<1>3. CASE Run!Answer
  <2>1. /\ phase = "published" /\ phase' = "idle" /\ run' = run /\ interrupted' = interrupted
        /\ answer' \in Errors \cup {"Ok", "none"} /\ index' = index
    BY <1>3 DEF Run!Answer
  <2>2. answer' = "Ok" => interrupted # TRUE
    BY <1>3, Zenon DEF Run!Answer
  <2>. QED BY <2>1, <2>2
<1>. QED BY <1>1, <1>2, <1>3 DEF Run!Conclude

\* The places of the entrypoint are before scip-run.
LEMMA SetupRun ==
  ASSUME RunInv, Enter PROVE RunInv'
<1>1. /\ UNCHANGED <<step, stop, published, history, env>>
      /\ pc' \in Places /\ (pc' # "off" => exit' = exit) /\ (pc' = "off" => exit' = "1")
      /\ pc \notin {"off", "dispatch"}
  BY DEF Enter, Setup, Ownership, CheckMounts, PrepareLayer, Mount, Prepare, Exec, Fail, Goto,
         around, Places
<1>2. /\ step' = "parse" /\ phase' = "idle" /\ answer' = answer /\ stop' # "sent"
      /\ history' = history /\ history.ran # TRUE /\ index' = index
  BY <1>1 DEF RunInv, published
<1>. QED BY <1>1, <1>2 DEF RunInv, At

(* The steps scip-run takes before and after the run keep the invariant of control. *)
LEMMA ScipRunRun ==
  ASSUME RunInv, Parse \/ SetHandler \/ Settle \/ Main PROVE RunInv'
<1>. USE Codes DEF RunInv, At, published, unmoved, around, Onward, ExitsWith, Places
<1>1. CASE Parse BY <1>1 DEF Parse
<1>2. CASE SetHandler BY <1>2 DEF SetHandler
<1>3. CASE Settle BY <1>3 DEF Settle, Run!Start
<1>4. CASE Main BY <1>4 DEF Main
<1>. QED BY <1>1, <1>2, <1>3, <1>4

(* The steps of the run keep the invariant of control. *)
LEMMA WorkRun ==
  ASSUME RunInv, Works \/ Index \/ Returns PROVE RunInv'
<1>. USE DEF RunInv, At, published, unmoved, around, Onward, Places
<1>1. CASE Works
  BY <1>1 DEF Works, vars, Run!Withdraw, Run!Produce, Run!Publish, Run!Goes, Run!Of
<1>2. CASE Index BY <1>2 DEF Index
<1>3. CASE Returns BY <1>3, Interface, Codes DEF Returns
<1>. QED BY <1>1, <1>2, <1>3

(* Steps from outside the program keep the invariant of control. *)
LEMMA OthersRun ==
  ASSUME RunInv, Boot \/ Stop \/ Deadline \/ Killed PROVE RunInv'
<1>. USE DEF RunInv, At, published, unmoved, around, Places
<1>1. CASE Boot BY <1>1 DEF Boot, Start
<1>2. CASE Stop BY <1>2 DEF Stop, vars, Wired
<1>3. CASE Deadline BY <1>3 DEF Deadline, vars, Run!Interrupt
<1>4. CASE Killed BY <1>4, Interface DEF Killed
<1>. QED BY <1>1, <1>2, <1>3, <1>4

(* Every step keeps the invariant of control. *)
LEMMA RunStep ==
  ASSUME RunInv, [CNext]_allvars PROVE RunInv'
<1>1. CASE UNCHANGED allvars BY <1>1 DEF RunInv, allvars, vars, published, At
<1>. QED BY <1>1, SetupRun, ScipRunRun, WorkRun, OthersRun DEF CNext

-----------------------------------------------------------------------------
(* Types.                                                                  *)

(* Changing one layer of the overlay leaves the other as it was. *)
LEMMA LayerTypes ==
  ASSUME TypeInv, NEW side \in Sides, NEW layer \in Layers,
         overlay' = [overlay EXCEPT ![side] = layer]
  PROVE  /\ overlay' \in [Sides -> Layers]
         /\ overlay'[side] = layer
         /\ \A other \in Sides \ {side} : overlay'[other] = overlay[other]
BY DEF TypeInv, TypeOK

(* A layer that is made is there, its owner is the one given and its files are kept.
   *)
LEMMA MadeTypes ==
  ASSUME TypeInv, NEW side \in Sides, NEW owner \in Ids \cup {Nobody},
         overlay' = Made(side, owner)
  PROVE  /\ overlay' \in [Sides -> Layers]
         /\ overlay'[side] = [there |-> TRUE, owner |-> owner, files |-> overlay[side].files]
         /\ \A other \in Sides \ {side} : overlay'[other] = overlay[other]
<1>1. overlay[side] \in Layers
  BY DEF TypeInv, TypeOK
<1>2. [there |-> TRUE, owner |-> owner, files |-> overlay[side].files] \in Layers
  BY <1>1 DEF Layers
<1>. QED BY <1>2, LayerTypes DEF Made

\* The files of the current container come into a layer.
LEMMA FilesTypes ==
  ASSUME TypeInv, NEW side \in Sides,
         overlay' = [overlay EXCEPT ![side].files = @ \cup {container}]
  PROVE  /\ overlay' \in [Sides -> Layers]
         /\ overlay'[side].files = overlay[side].files \cup {container}
         /\ overlay'[side].there = overlay[side].there
         /\ overlay'[side].owner = overlay[side].owner
         /\ \A other \in Sides \ {side} : overlay'[other] = overlay[other]
<1>1. overlay \in [Sides -> Layers] /\ overlay[side] \in Layers /\ container \in 0..MaxContainers
  BY DEF TypeInv, TypeOK
<1>. DEFINE layer == [overlay[side] EXCEPT !.files = @ \cup {container}]
<1>2. /\ layer \in Layers /\ layer.files = overlay[side].files \cup {container}
      /\ layer.there = overlay[side].there /\ layer.owner = overlay[side].owner
  BY <1>1 DEF Layers
<1>3. overlay' = [overlay EXCEPT ![side] = layer]
  BY <1>1
<1>. HIDE DEF layer
<1>. QED BY <1>2, <1>3, LayerTypes

(* Starting the container keeps the types. *)
LEMMA StartTypes ==
  ASSUME TypeInv, RunInv, Boot PROVE TypeInv'
<1>1. Absent \in Layers
  BY DEF Absent, Layers
<1>2. overlay' \in [Sides -> Layers]
  BY <1>1 DEF Boot, Start, TypeInv, TypeOK
<1>3. container' \in 0..MaxContainers
  BY EntrypointAssumption DEF Boot, Start, TypeInv, TypeOK
<1>. QED BY <1>2, <1>3 DEF Boot, Start, TypeInv, TypeOK, Outputs, Caches

(* Every step of the entrypoint keeps the types. *)
LEMMA EnterTypes ==
  ASSUME TypeInv, RunInv, HostInv, Enter PROVE TypeInv'
<1>. USE EntrypointAssumption DEF TypeInv, TypeOK, Goto, Fail, around, host
<1>1. CASE Ownership
  <2>1. Selected \in Ids \cup {Nobody}
    BY DEF Selected, Environments, Numeric, Unset
  <2>. QED BY <1>1, <2>1 DEF Ownership, Untouched
<1>2. CASE CheckMounts BY <1>2 DEF CheckMounts
<1>3. ASSUME NEW side \in Sides, NEW next \in {"work", "mount"}, PrepareLayer(side, next)
      PROVE  TypeInv'
  <2>1. overlay[side].owner \in Ids \cup {Nobody}
    BY DEF Layers
  <2>2. overlay' \in [Sides -> Layers]
    BY <1>3, <2>1, MadeTypes DEF PrepareLayer
  <2>. QED BY <1>3, <2>2 DEF PrepareLayer, Sides
<1>4. CASE Mount
  <2>1. overlay' \in [Sides -> Layers]
    BY <1>4, FilesTypes DEF Mount, Sides
  <2>. QED BY <1>4, <2>1 DEF Mount, Accepted
<1>5. CASE Prepare
  <2>1. /\ cache.owner \in Ids \cup {Nobody} /\ output.owner \in Ids \cup {Nobody}
        /\ Root \in Ids \cup {Nobody} /\ identity \in Ids \cup {Nobody}
    OBVIOUS
  <2>2. \A owner \in Ids \cup {Nobody} :
          [made |-> TRUE, owner |-> owner] \in Caches /\ [kind |-> "dir", owner |-> owner] \in Outputs
    BY DEF Caches, Outputs
  <2>3. cache' \in Caches
    <3>1. cache \in Caches
      BY DEF Caches
    <3>2. PICK owner \in Ids \cup {Nobody} : cache' \in {[made |-> TRUE, owner |-> owner], cache}
      BY <1>5, <2>1 DEF Prepare
    <3>. QED BY <2>2, <3>1, <3>2
  <2>4. output' \in Outputs
    BY <1>5, <2>1, <2>2 DEF Prepare, Outputs
  <2>. QED BY <1>5, <2>3, <2>4 DEF Prepare, Caches, Outputs
<1>6. CASE Exec BY <1>6 DEF Exec
<1>. QED BY <1>1, <1>2, <1>3, <1>4, <1>5, <1>6 DEF Enter, Setup, Sides

(* Every step of scip-run, of its timer and of the signals keeps the types. *)
LEMMA RunTypes ==
  ASSUME TypeInv, RunInv, HostInv,
         Parse \/ SetHandler \/ Settle \/ Works \/ Returns \/ Main \/ Stop \/ Deadline \/ Killed
  PROVE  TypeInv'
<1>. USE DEF unmoved, around, host, vars, At, Onward, ExitsWith
<1>1. \A value \in DOMAIN Code :
         Code[value] \in {"0", "1", "2", "124", "126", "127", "130", "upstream"}
  BY DEF Code
<1>2. /\ {"Config", "Io", "Input", "Limit", "Ok"} \subseteq DOMAIN Code
      /\ Errors \subseteq DOMAIN Code
  BY ContainerAssumption DEF Code
<1>3. UNCHANGED <<container, env, mounted, given, identity, overlay, output, cache>>
  BY DEF Parse, SetHandler, Settle, Works, Returns, Main, Stop, Deadline, Killed
<1>4. /\ pc' = pc \/ pc' = "off"
      /\ exit' = exit \/ exit' = "killed" \/ \E value \in DOMAIN Code : exit' = Code[value]
  BY <1>2 DEF Parse, SetHandler, Settle, Works, Returns, Main, Stop, Deadline, Killed, RunInv
<1>. QED BY <1>1, <1>3, <1>4 DEF TypeInv, TypeOK

(* Every step keeps the types. *)
LEMMA TypeStep ==
  ASSUME TypeInv, RunInv, HostInv, [CNext]_allvars PROVE TypeInv'
<1>1. CASE Index
  <2>1. overlay' \in [Sides -> Layers]
    BY <1>1, FilesTypes DEF Index, Sides
  <2>. QED BY <1>1, <2>1 DEF Index, TypeInv, TypeOK, around
<1>2. CASE UNCHANGED allvars BY <1>2 DEF allvars, vars, host, TypeInv, TypeOK
<1>. QED BY <1>1, <1>2, StartTypes, EnterTypes, RunTypes DEF CNext

-----------------------------------------------------------------------------
(* What the entrypoint prepared.                                           *)

\* After the steps that only read, and those of scip-run.
LEMMA SameHost ==
  ASSUME TypeInv, HostInv, RunInv,
         UNCHANGED <<container, env, mounted, given, identity, overlay, output, cache>>,
         \/ UNCHANGED <<pc, exit>>
         \/ pc \notin {"off", "ownership"} /\ pc' = "off" /\ exit' # "0"
         \/ pc' = "off" /\ pc = "dispatch"
         \/ pc = "ownership" /\ pc' = "off" /\ exit' # "0"
  PROVE  HostInv'
<1>1. OwnedInv(overlay)' BY DEF HostInv, OwnedInv
<1>2. IdentityInv' BY DEF HostInv, IdentityInv
<1>3. RefusedInv' BY DEF HostInv, RefusedInv, IdentityInv
<1>4. SetupInv' BY DEF HostInv, SetupInv, OwnLayer, Prepared
<1>. QED BY <1>1, <1>2, <1>3, <1>4 DEF HostInv

(* Changing the ownership keeps the invariant of the host. *)
LEMMA OwnershipHost ==
  ASSUME TypeInv, HostInv, RunInv, Ownership PROVE HostInv'
<1>. USE DEF HostInv, Ownership, Goto, Fail, Untouched, around, host
<1>1. OwnedInv(overlay)' BY DEF OwnedInv
<1>2. IdentityInv' BY DEF IdentityInv, RefusedInv, Selected, Unset
<1>3. RefusedInv' BY DEF RefusedInv
<1>4. SetupInv' BY DEF SetupInv, OwnLayer, Prepared, TypeInv, TypeOK
<1>. QED BY <1>1, <1>2, <1>3, <1>4

(* Starting the container keeps the invariant of the host. *)
LEMMA BootHost ==
  ASSUME TypeInv, HostInv, RunInv, Boot PROVE HostInv'
<1>. USE DEF HostInv, Boot, Start
<1>1. OwnedInv(overlay)' BY DEF OwnedInv, Absent
<1>2. IdentityInv' BY DEF IdentityInv
<1>3. RefusedInv' BY DEF RefusedInv
<1>4. SetupInv' BY DEF SetupInv, Prepared
<1>. QED BY <1>1, <1>2, <1>3, <1>4

(* Looking at the mounts keeps the invariant of the host. *)
LEMMA CheckMountsHost ==
  ASSUME TypeInv, HostInv, RunInv, CheckMounts PROVE HostInv'
<1>. USE DEF HostInv, CheckMounts, Goto, Fail, around, host
<1>1. OwnedInv(overlay)' BY DEF OwnedInv
<1>2. IdentityInv' BY DEF IdentityInv
<1>3. RefusedInv' BY DEF RefusedInv, IdentityInv
<1>4. SetupInv' BY DEF SetupInv, OwnLayer, Prepared, TypeInv, TypeOK
<1>. QED BY <1>1, <1>2, <1>3, <1>4

\* What becomes of a layer that is prepared.
LEMMA Prepares ==
  ASSUME TypeInv, HostInv, NEW side \in Sides, NEW next, PrepareLayer(side, next)
  PROVE  /\ \A other \in Sides \ {side} : overlay'[other] = overlay[other]
         /\ overlay'[side].files = overlay[side].files
         /\ overlay[side].files # {} => overlay'[side] = overlay[side] /\ Fail
         /\ \/ Fail
            \/ /\ Goto(next) /\ overlay[side].files = {}
               /\ overlay'[side].there = TRUE /\ overlay'[side].owner = identity
<1>. DEFINE layer(owner) == [there |-> TRUE, owner |-> owner, files |-> overlay[side].files]
<1>1. /\ overlay[side] \in Layers /\ identity \in Ids \cup {Nobody}
      /\ overlay[side].owner \in Ids \cup {Nobody}
  BY DEF TypeInv, TypeOK, Layers
<1>2. CASE Fail /\ UNCHANGED overlay
  BY <1>2
<1>5. \A owner \in Ids \cup {Nobody} : overlay' = Made(side, owner) =>
         /\ overlay'[side] = layer(owner)
         /\ \A other \in Sides \ {side} : overlay'[other] = overlay[other]
  BY MadeTypes
<1>3. CASE Fail /\ overlay' = Made(side, IF overlay[side].owner = Nobody THEN Root
                                                               ELSE overlay[side].owner)
  <2>1. overlay[side].files # {} => overlay[side] = layer(overlay[side].owner)
    BY <1>1 DEF HostInv, OwnedInv, Layers
  <2>2. overlay[side].files # {} => overlay[side].owner # Nobody
    BY DEF HostInv, OwnedInv
  <2>3. CASE overlay[side].owner = Nobody
    <3>1. overlay' = Made(side, Root) BY <1>3, <2>3
    <3>2. /\ \A other \in Sides \ {side} : overlay'[other] = overlay[other]
          /\ overlay'[side].files = overlay[side].files
          /\ overlay[side].files # {} => overlay'[side] = overlay[side]
      <4>1. overlay'[side] = layer(Root) /\ \A other \in Sides \ {side} : overlay'[other] = overlay[other]
        BY <3>1, EntrypointAssumption, MadeTypes
      <4>. QED BY <2>2, <2>3, <4>1
    <3>. QED BY <1>3, <3>2
  <2>4. CASE overlay[side].owner # Nobody
    <3>1. overlay' = Made(side, overlay[side].owner) BY <1>3, <2>4
    <3>2. /\ \A other \in Sides \ {side} : overlay'[other] = overlay[other]
          /\ overlay'[side].files = overlay[side].files
          /\ overlay[side].files # {} => overlay'[side] = overlay[side]
      BY <1>1, <1>5, <2>1, <3>1
    <3>. QED BY <1>3, <3>2
  <2>. QED BY <2>3, <2>4
<1>4. CASE Empty(side) /\ overlay' = Made(side, identity) /\ Goto(next)
  <2>1. /\ \A other \in Sides \ {side} : overlay'[other] = overlay[other]
        /\ overlay'[side].files = overlay[side].files /\ overlay[side].files = {}
        /\ overlay'[side].there = TRUE /\ overlay'[side].owner = identity
    <3>1. /\ overlay'[side] = layer(identity)
          /\ \A other \in Sides \ {side} : overlay'[other] = overlay[other]
      BY <1>1, <1>4, MadeTypes
    <3>. QED BY <1>4, <3>1 DEF Empty
  <2>. QED BY <1>4, <2>1
<1>. QED BY <1>2, <1>3, <1>4 DEF PrepareLayer

(* Preparing a layer keeps the invariant of the host. *)
LEMMA LayerHost ==
  ASSUME TypeInv, HostInv, RunInv, NEW side \in Sides,
         PrepareLayer(side, IF side = "upper" THEN "work" ELSE "mount")
  PROVE  HostInv'
<1>. DEFINE next == IF side = "upper" THEN "work" ELSE "mount"
<1>1. /\ pc = side /\ pc' \in {next, "off"} /\ (pc' = "off" => exit' = "1")
      /\ UNCHANGED <<container, env, mounted, given, identity, output, cache>>
  BY DEF PrepareLayer, Goto, Fail, around
<1>2. /\ \A other \in Sides \ {side} : overlay'[other] = overlay[other]
      /\ overlay'[side].files = overlay[side].files
      /\ overlay[side].files # {} => overlay'[side] = overlay[side]
      /\ pc' # "off" => /\ overlay[side].files = {}
                        /\ overlay'[side].there = TRUE /\ overlay'[side].owner = identity
  BY Prepares DEF Fail
<1>3. OwnedInv(overlay)' BY <1>2 DEF HostInv, OwnedInv
<1>4. IdentityInv' BY <1>1 DEF HostInv, IdentityInv, Sides
<1>5. RefusedInv' BY <1>1 DEF HostInv, RefusedInv, IdentityInv, Sides
<1>6. given.overlay[side].files # {} => overlay[side].files # {}
  BY DEF HostInv, SetupInv
<1>7. SetupInv' BY <1>1, <1>2, <1>6 DEF HostInv, SetupInv, OwnLayer, Prepared, Sides
<1>. QED BY <1>3, <1>4, <1>5, <1>7 DEF HostInv

(* Mounting the overlay keeps the invariant of the host. *)
LEMMA MountHost ==
  ASSUME TypeInv, HostInv, RunInv, Mount PROVE HostInv'
<1>1. /\ pc = "mount" /\ pc' \in {"prepare", "off"} /\ (pc' = "off" => exit' = "1")
      /\ (pc' # "off" <=> mounted' = TRUE)
      /\ UNCHANGED <<container, env, given, identity, output, cache>>
  BY DEF Mount, Accepted, Goto, Fail
<1>2. /\ overlay'["upper"] = overlay["upper"]
      /\ overlay'["work"].there = overlay["work"].there
      /\ overlay'["work"].owner = overlay["work"].owner
  BY FilesTypes DEF Mount, Sides
<1>3. OwnLayer("upper") /\ OwnLayer("work") /\ overlay["upper"].files = {} /\ env.overlay = TRUE
  BY <1>1 DEF HostInv, SetupInv
<1>4. OwnedInv(overlay)' BY <1>1, <1>2, <1>3 DEF HostInv, OwnedInv, OwnLayer, IdentityInv, Sides
<1>5. IdentityInv' BY <1>1 DEF HostInv, IdentityInv
<1>6. RefusedInv' BY <1>1 DEF HostInv, RefusedInv, IdentityInv
<1>7. SetupInv' BY <1>1, <1>2, <1>3 DEF HostInv, SetupInv, OwnLayer, Prepared, Sides
<1>. QED BY <1>4, <1>5, <1>6, <1>7 DEF HostInv

(* Preparing the work keeps the invariant of the host. *)
LEMMA PrepareHost ==
  ASSUME TypeInv, HostInv, RunInv, Prepare PROVE HostInv'
<1>1. /\ pc = "prepare" /\ pc' \in {"exec", "off"} /\ (pc' = "off" => exit' = "1")
      /\ UNCHANGED <<container, env, mounted, given, identity, overlay>>
  BY DEF Prepare, Goto, Fail, around
<1>2. env.owner = "output-mount" => output' = output
  <2>1. HAVE env.owner = "output-mount"
  <2>2. output = given.output /\ output.kind = "dir" /\ output.owner = identity
    BY <1>1, <2>1 DEF HostInv, IdentityInv
  <2>3. output = [kind |-> "dir", owner |-> identity]
    BY <2>2 DEF TypeInv, TypeOK
  <2>. QED BY <2>2, <2>3 DEF Prepare
<1>3. OwnedInv(overlay)' BY <1>1 DEF HostInv, OwnedInv
<1>4. IdentityInv' BY <1>1, <1>2 DEF HostInv, IdentityInv
<1>5. RefusedInv' BY <1>1 DEF HostInv, RefusedInv, IdentityInv
<1>6. SetupInv' BY <1>1 DEF HostInv, SetupInv, OwnLayer, Prepared
<1>. QED BY <1>3, <1>4, <1>5, <1>6 DEF HostInv

(* Becoming scip-run keeps the invariant of the host. *)
LEMMA ExecHost ==
  ASSUME TypeInv, HostInv, RunInv, Exec PROVE HostInv'
<1>. USE DEF HostInv, Exec, Goto, Fail, around, host
<1>1. OwnedInv(overlay)' BY DEF OwnedInv
<1>2. IdentityInv' BY DEF IdentityInv
<1>3. RefusedInv' BY DEF RefusedInv, IdentityInv
<1>4. SetupInv' BY DEF SetupInv, OwnLayer, Prepared
<1>. QED BY <1>1, <1>2, <1>3, <1>4

(* What the indexer writes keeps the invariant of the host. *)
LEMMA IndexHost ==
  ASSUME TypeInv, HostInv, RunInv, Index PROVE HostInv'
<1>1. /\ pc = "dispatch" /\ mounted = TRUE
      /\ UNCHANGED <<pc, exit, container, env, mounted, given, identity, output, cache>>
  BY DEF Index, At, around, TypeInv, TypeOK
<1>2. /\ overlay'["work"] = overlay["work"]
      /\ overlay'["upper"].files = overlay["upper"].files \cup {container}
      /\ overlay'["upper"].there = overlay["upper"].there
      /\ overlay'["upper"].owner = overlay["upper"].owner
  BY FilesTypes DEF Index, Sides
<1>3. env.overlay = TRUE /\ OwnLayer("upper") /\ identity # Nobody
  BY <1>1 DEF HostInv, SetupInv, Prepared, Sides, IdentityInv
<1>4. OwnedInv(overlay)' BY <1>1, <1>2, <1>3 DEF HostInv, OwnedInv, OwnLayer, Sides
<1>5. IdentityInv' BY <1>1 DEF HostInv, IdentityInv
<1>6. RefusedInv' BY <1>1 DEF HostInv, RefusedInv
<1>7. SetupInv' BY <1>1, <1>2, <1>3 DEF HostInv, SetupInv, OwnLayer, Prepared, Sides
<1>. QED BY <1>4, <1>5, <1>6, <1>7 DEF HostInv

(* Every step keeps the invariant of the host. *)
LEMMA HostStep ==
  ASSUME TypeInv, RunInv, HostInv, [CNext]_allvars PROVE HostInv'
<1>. USE DEF unmoved, around, host, vars, At, Onward, ExitsWith
<1>1. CASE Enter
  <2>1. CASE PrepareLayer("upper", "work") BY <2>1, LayerHost DEF Sides
  <2>2. CASE PrepareLayer("work", "mount") BY <2>2, LayerHost DEF Sides
  <2>. QED BY <1>1, <2>1, <2>2, OwnershipHost, CheckMountsHost, MountHost, PrepareHost, ExecHost
           DEF Enter, Setup
<1>2. CASE Parse \/ SetHandler \/ Settle \/ Main \/ Returns
  <2>1. /\ UNCHANGED <<container, env, mounted, given, identity, overlay, output, cache>>
        /\ pc = "dispatch" /\ (UNCHANGED <<pc, exit>> \/ pc' = "off")
    BY <1>2 DEF Parse, SetHandler, Settle, Main, Returns
  <2>. QED BY <2>1, SameHost
<1>3. CASE Works \/ Stop \/ Deadline \/ UNCHANGED allvars
  <2>1. UNCHANGED <<container, env, mounted, given, identity, overlay, output, cache, pc, exit>>
    BY <1>3 DEF Works, Stop, Deadline, allvars
  <2>. QED BY <2>1, SameHost
<1>4. CASE Killed
  <2>1. /\ UNCHANGED <<container, env, mounted, given, identity, overlay, output, cache>>
        /\ pc # "off" /\ pc' = "off" /\ exit' = "killed"
    BY <1>4 DEF Killed
  <2>. QED BY <2>1, SameHost
<1>. QED BY <1>1, <1>2, <1>3, <1>4, BootHost, IndexHost DEF CNext

(* The invariants hold before the container starts. *)
LEMMA InitInv == CInit => ContainerInv
<1>. SUFFICES ASSUME CInit PROVE ContainerInv
  OBVIOUS
<1>. USE DEF CInit, Init, Run!PInit, Run!Of
<1>1. TypeInv
  <2>1. /\ Absent \in Layers
        /\ [there |-> TRUE, owner |-> Root, files |-> {0}] \in Layers
    BY EntrypointAssumption DEF Absent, Layers
  <2>2. overlay \in [Sides -> Layers]
    BY <2>1
  <2>3. output \in Outputs /\ cache \in Caches
    BY DEF Outputs, Caches
  <2>4. env \in Environments
    BY DEF Environments, Numeric
  <2>5. given \in [overlay : [Sides -> Layers], output : Outputs, cache : Caches]
    <3>1. given = [overlay |-> overlay, output |-> output, cache |-> cache]
      OBVIOUS
    <3>. QED BY ONLY <2>2, <2>3, <3>1
  <2>6. container \in 0..MaxContainers
    BY EntrypointAssumption
  <2>7. TypeOK
    BY <2>2, <2>3, <2>4, <2>6 DEF TypeOK, Outputs, Caches
  <2>. QED BY <2>5, <2>7 DEF TypeInv
<1>2. RunInv
  BY DEF RunInv, Places, At
<1>3. HostInv
  BY EntrypointAssumption
     DEF HostInv, OwnedInv, IdentityInv, RefusedInv, SetupInv, Prepared, Absent, Nobody
<1>. QED BY <1>1, <1>2, <1>3 DEF ContainerInv

-----------------------------------------------------------------------------
(* Theorems.                                                               *)

\* The invariant holds of every container.
THEOREM Invariance == CSpec => []ContainerInv
<1>1. ContainerInv /\ [CNext]_allvars => ContainerInv'
  BY TypeStep, RunStep, HostStep DEF ContainerInv
<1>. QED BY <1>1, InitInv, PTL DEF CSpec

\* Every value stays in its type (Entrypoint.TypeOK).
THEOREM Typed == CSpec => []TypeOK
<1>1. ContainerInv => TypeOK
  BY DEF ContainerInv, TypeInv
<1>. QED BY <1>1, Invariance, PTL

\* In overlay mode nothing of an earlier container shows through in the
\* workspace of the dispatcher, whatever the layers were (empty_directory).
THEOREM AlwaysFresh == CSpec => []FreshOverlay
<1>1. ContainerInv => FreshOverlay
  BY DEF ContainerInv, HostInv, SetupInv, Prepared, OwnLayer, FreshOverlay, TypeInv, TypeOK,
         Environments
<1>. QED BY <1>1, Invariance, PTL

\* A layer that is occupied is left as it is, by any number of containers.
THEOREM OccupiedStays == CSpec => []OccupiedLayerUntouched
<1>1. ContainerInv => OccupiedLayerUntouched
  BY DEF ContainerInv, HostInv, SetupInv, OccupiedLayerUntouched
<1>. QED BY <1>1, Invariance, PTL

\* The dispatcher runs as the identity that was selected (ownership).
THEOREM AlwaysAsSelected == CSpec => []IdentityAsSelected
<1>1. ContainerInv => IdentityAsSelected
  BY DEF ContainerInv, HostInv, IdentityInv, IdentityAsSelected
<1>. QED BY <1>1, Invariance, PTL

\* What is refused is left as it was (main of both programs).
THEOREM RefusalLeavesAll == CSpec => []RefusedLeavesAll
<1>1. ContainerInv => RefusedLeavesAll
  BY DEF ContainerInv, HostInv, RefusedInv, RunInv, RefusedLeavesAll
<1>. QED BY <1>1, Invariance, PTL

\* Status 0 is only of a complete index, of this container's own run, over the
\* source and nothing else, and of nobody who was stopped (scip-run).
THEOREM ZeroAlwaysIndex == CSpec => []ZeroMeansIndex
<1>1. ContainerInv => ZeroMeansIndex
  BY DEF ContainerInv, HostInv, SetupInv, RunInv, ZeroMeansIndex, TypeInv, TypeOK, Environments
<1>. QED BY <1>1, Invariance, PTL
=============================================================================
