---------------------------- MODULE NativeBuild ----------------------------
(***************************************************************************)
(* scripts/network/native/envoy/build.py: three translation units are      *)
(* compiled against a pinned SDK and linked into server-timing.so, with    *)
(* the progress in build.json; --stage verify checks an output directory.  *)
(*                                                                         *)
(* Contents are abstracted to versions: input 0 is the seven pinned        *)
(* headers (version 0 is the pinned one), inputs 1 to 3 are plugin.c,      *)
(* bridge.cc and abi_guard.c.  An edit may bring an earlier version back.  *)
(* A file that is being written, or whose writer was killed, is Torn.      *)
(* Invocations come one at a time.                                         *)
(***************************************************************************)
EXTENDS Integers

CONSTANTS
  Versions,   \* the versions an input can have; 0 is that of this commit
  Commands,   \* the command lines that different --cc, --cxx, --flags give
  Missing, Torn

ASSUME VersionsAssumption == 0 \in Versions

Inputs == 0 .. 3
Units == 1 .. 3

Identities == [Inputs -> Versions]
(* What an object was compiled from; steady is a history: neither of the   *)
(* two was edited between the digests of the build and the compilation.    *)
Objects == [src : Versions, sdk : Versions, steady : BOOLEAN]
Modules == [Units -> Objects]

Manifests ==
  [ids : Identities, cmds : Commands, completed : 1 .. 4,
   sha : Modules \cup {Missing}, verified : BOOLEAN]

ASSUME FilesAssumption ==
  /\ Missing # Torn
  /\ {Missing, Torn} \cap (Objects \cup Modules \cup Manifests) = {}

VARIABLES
  inputs,    \* the files that are read
  objects,   \* plugin.o, bridge.o, abi_guard.o
  module,    \* server-timing.so
  manifest,  \* build.json
  pc,        \* idle; run, running, save, saving of a command; verify, record, recording
  index,     \* the command, 1 to 4
  stage,     \* --stage of the invocation
  ids, cmds, \* what the invocation hashed, and its commands
  touched,   \* history: the inputs edited since the digests of a build that
             \* is still at its commands
  claim,     \* history: what the last verification that succeeded vouched for
  first      \* history: the first manifest of the directory

files == <<objects, module, manifest>>
args == <<stage, ids, cmds>>
vars == <<inputs, files, pc, index, args, touched, claim, first>>

Building == pc \in {"run", "running", "save", "saving"}

TypeOK ==
  /\ inputs \in Identities
  /\ objects \in [Units -> Objects \cup {Missing, Torn}]
  /\ module \in Modules \cup {Missing, Torn}
  /\ manifest \in Manifests \cup {Missing, Torn}
  /\ pc \in {"idle", "run", "running", "save", "saving", "verify", "record", "recording"}
  /\ index \in 1 .. 4
  /\ stage \in {"build", "verify"}
  /\ ids \in Identities
  /\ cmds \in Commands
  /\ touched \subseteq Inputs
  /\ claim \in [by : {"nobody", "build", "verify"}, ids : Identities,
                module : Modules \cup {Missing, Torn}]
  /\ first \in Manifests \cup {Missing}

Readable(m) == m \notin {Missing, Torn}

(* The object was compiled from that source and those headers.             *)
From(object, u, i) == object.src = i[u] /\ object.sdk = i[0]

-----------------------------------------------------------------------------
Init ==
  /\ inputs = [i \in Inputs |-> 0]
  /\ objects = [u \in Units |-> Missing]
  /\ module = Missing
  /\ manifest = Missing
  /\ pc = "idle" /\ index = 1 /\ stage = "build"
  /\ ids = inputs
  /\ cmds \in Commands
  /\ touched = {}
  /\ claim = [by |-> "nobody", ids |-> inputs, module |-> Missing]
  /\ first = Missing

(* Somebody edits a source, updates the SDK, or puts back what was there,  *)
(* at any time.                                                            *)
Edit(i) ==
  /\ \E v \in Versions \ {inputs[i]} : inputs' = [inputs EXCEPT ![i] = v]
  /\ touched' = IF Building THEN touched \cup {i} ELSE touched
  /\ UNCHANGED <<files, pc, index, args, claim, first>>

(* Mutant: a build over other inputs is not refused.                       *)
StartAnyway(s, c) ==
  /\ pc = "idle"
  /\ inputs[0] = 0
  /\ ids' = inputs /\ cmds' = c /\ stage' = s /\ index' = 1
  /\ IF s = "build"
     THEN manifest # Torn /\ pc' = "run"
     ELSE pc' = "verify"
  /\ UNCHANGED <<inputs, files, touched, claim, first>>

(* The digests of the headers and the sources, then, for a build, the      *)
(* comparison with the manifest of the directory; an invocation that fails *)
(* any of them raises and leaves everything as it was.                     *)
Start(s, c) ==
  /\ pc = "idle"
  /\ inputs[0] = 0
  /\ ids' = inputs /\ cmds' = c /\ stage' = s /\ index' = 1
  /\ IF s = "build"
     THEN /\ manifest # Torn
          /\ Readable(manifest) => manifest.ids = inputs /\ manifest.cmds = c
          /\ pc' = "run"
     ELSE pc' = "verify"
  /\ UNCHANGED <<inputs, files, touched, claim, first>>

(* The compiler or the linker opens its output.                            *)
Run ==
  /\ pc = "run"
  /\ pc' = "running"
  /\ IF index = 4
     THEN module' = Torn /\ UNCHANGED objects
     ELSE objects' = [objects EXCEPT ![index] = Torn] /\ UNCHANGED module
  /\ UNCHANGED <<inputs, manifest, index, args, touched, claim, first>>

(* What a compiler has made when it ends of what it read.                  *)
Compiled == [src |-> inputs[index], sdk |-> inputs[0],
             steady |-> {0, index} \cap touched = {}]

(* The command ends; check=True.                                           *)
Ran ==
  /\ pc = "running"
  /\ pc' = "save"
  /\ IF index = 4
     THEN module' = objects /\ UNCHANGED objects
     ELSE /\ objects' = [objects EXCEPT ![index] = Compiled]
          /\ UNCHANGED module
  /\ UNCHANGED <<inputs, manifest, index, args, touched, claim, first>>

(* Mutant: only the end of the link is recorded.                           *)
SaveLast ==
  /\ pc = "save"
  /\ IF index = 4
     THEN manifest' = Torn /\ pc' = "saving" /\ UNCHANGED index
     ELSE pc' = "run" /\ index' = index + 1 /\ UNCHANGED manifest
  /\ UNCHANGED <<inputs, objects, module, args, touched, claim, first>>

(* write_text truncates build.json before it writes it.                    *)
Save ==
  /\ pc = "save"
  /\ pc' = "saving"
  /\ manifest' = Torn
  /\ UNCHANGED <<inputs, objects, module, index, args, touched, claim, first>>

Progress == [ids |-> ids, cmds |-> cmds, completed |-> index, sha |-> Missing, verified |-> FALSE]

Saved ==
  /\ pc = "saving"
  /\ manifest' = Progress
  /\ first' = IF first = Missing THEN Progress ELSE first
  /\ IF index = 4 THEN pc' = "verify" /\ touched' = {} /\ UNCHANGED index
                  ELSE pc' = "run" /\ index' = index + 1 /\ UNCHANGED touched
  /\ UNCHANGED <<inputs, objects, module, args, claim>>

(* Mutant: the identities of the manifest are not compared.                *)
VerifyAnyIdentities ==
  /\ pc = "verify"
  /\ pc' = IF /\ Readable(manifest) /\ manifest.completed = 4
              /\ objects[2] \notin {Missing, Torn}
              /\ module # Missing
           THEN "record" ELSE "idle"
  /\ UNCHANGED <<inputs, files, index, args, touched, claim, first>>

(* completed and identities, nm of bridge.o, and the digest of the module; *)
(* anything else raises.                                                   *)
Verify ==
  /\ pc = "verify"
  /\ pc' = IF /\ Readable(manifest) /\ manifest.completed = 4 /\ manifest.ids = ids
              /\ objects[2] \notin {Missing, Torn}
              /\ module # Missing
           THEN "record" ELSE "idle"
  /\ UNCHANGED <<inputs, files, index, args, touched, claim, first>>

(* The verified manifest replaces the other, again by truncation first.    *)
Record ==
  /\ pc = "record"
  /\ pc' = "recording"
  /\ cmds' = manifest.cmds
  /\ manifest' = Torn
  /\ UNCHANGED <<inputs, objects, module, index, stage, ids, touched, claim, first>>

Recorded ==
  /\ pc = "recording"
  /\ pc' = "idle"
  /\ manifest' = [ids |-> ids, cmds |-> cmds, completed |-> 4, sha |-> module, verified |-> TRUE]
  /\ claim' = [by |-> stage, ids |-> ids, module |-> module]
  /\ UNCHANGED <<inputs, objects, module, index, args, touched, first>>

(* The invocation is killed, a command fails, or the bridge has undefined  *)
(* symbols or the module not the expected digest.                          *)
Stop ==
  /\ pc # "idle"
  /\ pc' = "idle"
  /\ touched' = {}
  /\ UNCHANGED <<inputs, files, index, args, claim, first>>

Next ==
  \/ \E i \in Inputs : Edit(i)
  \/ \E s \in {"build", "verify"}, c \in Commands : Start(s, c)
  \/ Run \/ Ran \/ Save \/ Saved
  \/ Verify \/ Record \/ Recorded
  \/ Stop

Spec == Init /\ [][Next]_vars

-----------------------------------------------------------------------------
(* A manifest with all four commands completed stands beside a module the  *)
(* linker finished, from three objects the compilers finished, however     *)
(* often builds of the directory were killed or repeated.                  *)
CompleteIsWhole ==
  Readable(manifest) /\ manifest.completed = 4 => module \in Modules

(* The digest in a verified manifest is that of the module beside it: a    *)
(* later build withdraws it before it touches the module.                  *)
DigestOfTheModule ==
  Readable(manifest) /\ manifest.verified => manifest.sha = module

(* build.json claims nothing that the files beside it do not hold.         *)
ManifestIsTrue == TypeOK /\ CompleteIsWhole /\ DigestOfTheModule

(* README: "--stage verify checks the output independently".  What it      *)
(* accepted was compiled from the sources and headers it hashed itself,    *)
(* whatever was edited and put back, killed and repeated since, but for    *)
(* the units with an input that was edited between the digests of the      *)
(* build and their compilation: of those neither stage can tell.           *)
IndependentVerify ==
  claim.by = "verify" =>
    /\ claim.module \in Modules
    /\ \A u \in Units : claim.module[u].steady => From(claim.module[u], u, claim.ids)

(* "Changed build inputs: use a fresh output directory": whatever was       *)
(* edited, killed and repeated, a manifest of the directory is of the      *)
(* inputs and commands of its first one.                                   *)
OneBuild ==
  Readable(manifest) => /\ Readable(first)
                        /\ manifest.ids = first.ids
                        /\ manifest.cmds = first.cmds
=============================================================================
