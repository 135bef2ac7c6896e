------------------------ MODULE NativePluginsProofs ------------------------
(***************************************************************************)
(* What NativeBuild and RuntimeBundle promise, for any number of edits,    *)
(* any command lines and any accepted bases; that the room which           *)
(* EnvoyTiming and NginxTiming reserve is enough for any host and time,    *)
(* and that the fields they write say what happened to the request.        *)
(***************************************************************************)
EXTENDS NativePlugins, FiniteSetTheorems, SequenceTheorems, WellFoundedInduction, TLAPS

-----------------------------------------------------------------------------
(* NativeBuild.  The invariant follows an invocation through its commands: *)
(* which objects it has compiled, what the manifest says meanwhile, and    *)
(* that what has not been touched is as the digests say.                   *)

(* The units the invocation has compiled.                                  *)
Finished == {u \in Units : u < index \/ (u = index /\ pc \in {"save", "saving"})}

(* An object that is of those inputs unless one was edited in between.     *)
Steady(o, u, i) == o \in Objects /\ (o.steady => From(o, u, i))

WholeModule(i) ==
  module \in Modules /\ \A u \in Units : Steady(module[u], u, i)

Untouched ==
  /\ Building => \A i \in Inputs \ touched : inputs[i] = ids[i]
  /\ ~Building => touched = {}

CompiledObjects ==
  Building => /\ stage = "build"
              /\ \A u \in Finished : Steady(objects[u], u, ids)
              /\ index = 4 /\ pc \in {"save", "saving"} => WholeModule(ids)

ManifestWhileBuilding ==
  /\ pc \in {"run", "running", "save"} =>
       /\ manifest # Torn
       /\ index > 1 => Readable(manifest) /\ manifest.completed = index - 1
                                          /\ ~manifest.verified
       /\ Readable(manifest) => manifest.ids = ids /\ manifest.cmds = cmds
  /\ pc \in {"saving", "recording"} => manifest = Torn

CompleteManifest ==
  Readable(manifest) =>
    /\ manifest.verified => manifest.completed = 4 /\ manifest.sha = module
    /\ manifest.completed = 4 => WholeModule(manifest.ids)

(* A verification gets this far only with a manifest of what it hashed.    *)
Verifying ==
  /\ pc = "record" =>
       Readable(manifest) /\ manifest.completed = 4 /\ manifest.ids = ids
  /\ pc \in {"record", "recording"} => WholeModule(ids)

FirstManifest ==
  /\ Readable(manifest) => /\ first # Missing
                           /\ manifest.ids = first.ids /\ manifest.cmds = first.cmds
  /\ manifest = Missing => first = Missing
  /\ Building /\ first # Missing => first.ids = ids /\ first.cmds = cmds
  /\ pc = "recording" => first # Missing /\ first.ids = ids /\ first.cmds = cmds

IInv ==
  /\ TypeOK /\ Untouched /\ CompiledObjects /\ ManifestWhileBuilding
  /\ CompleteManifest /\ Verifying /\ FirstManifest /\ IndependentVerify

LEMMA StartKeeps ==
  ASSUME IInv, NEW s \in {"build", "verify"}, NEW c \in Commands, Start(s, c)
  PROVE  IInv'
<1> USE DEF IInv, TypeOK, Start, files, Inputs, Units, Readable
<1>1. TypeOK'
  BY DEF Identities
<1>2. Untouched'
  BY DEF Untouched, Identities, Building
<1>3. CompiledObjects'
  BY DEF CompiledObjects, Building, Finished
<1>4. ManifestWhileBuilding'
  BY DEF ManifestWhileBuilding
<1>5. CompleteManifest'
  BY DEF CompleteManifest, WholeModule, Steady
<1>6. Verifying'
  BY DEF Verifying, CompleteManifest, WholeModule, Steady
<1>7. FirstManifest'
  BY DEF FirstManifest, Building
<1>8. IndependentVerify'
  BY DEF IndependentVerify, From
<1> QED  BY <1>1, <1>2, <1>3, <1>4, <1>5, <1>6, <1>7, <1>8

LEMMA EditKeeps ==
  ASSUME IInv, NEW i \in Inputs, Edit(i)
  PROVE  IInv'
<1> USE DEF IInv, TypeOK, Edit, files, args, Inputs, Units, Readable
<1>1. inputs' \in Identities
  BY DEF Identities
<1>2. \A j \in Inputs \ {i} : inputs'[j] = inputs[j]
  BY DEF Identities
<1>3. TypeOK'
  BY <1>1
<1>4. Untouched'
  BY <1>2 DEF Untouched, Building
<1>5. CompiledObjects'
  BY DEF CompiledObjects, Building, Finished, WholeModule
<1>6. ManifestWhileBuilding'
  BY DEF ManifestWhileBuilding
<1>7. CompleteManifest'
  BY DEF CompleteManifest, WholeModule
<1>8. Verifying'
  BY DEF Verifying, WholeModule
<1>9. FirstManifest'
  BY DEF FirstManifest, Building
<1>10. IndependentVerify'
  BY DEF IndependentVerify
<1> QED  BY <1>3, <1>4, <1>5, <1>6, <1>7, <1>8, <1>9, <1>10

LEMMA RunKeeps ==
  ASSUME IInv, Run
  PROVE  IInv'
<1> USE DEF IInv, TypeOK, Run, files, args, Inputs, Units, Readable
<1>1. TypeOK'
  BY DEF Identities
<1>2. Untouched'
  BY DEF Untouched, Identities, Building
<1>3. CompiledObjects'
  BY DEF CompiledObjects, Building, Finished, WholeModule, Steady
<1>4. ManifestWhileBuilding'
  BY DEF ManifestWhileBuilding
<1>5. CompleteManifest'
  BY DEF CompleteManifest, WholeModule, Steady, ManifestWhileBuilding
<1>6. Verifying'
  BY DEF Verifying, WholeModule, Steady
<1>7. FirstManifest'
  BY DEF FirstManifest, Building
<1>8. IndependentVerify'
  BY DEF IndependentVerify
<1> QED  BY <1>1, <1>2, <1>3, <1>4, <1>5, <1>6, <1>7, <1>8

LEMMA RanKeeps ==
  ASSUME IInv, Ran
  PROVE  IInv'
<1> USE DEF IInv, TypeOK, Ran, files, args, Inputs, Units, Readable
<1>1. TypeOK'
  <2>1. index # 4 => Compiled \in Objects
    BY DEF Compiled, Objects, Identities
  <2>2. index = 4 => objects \in Modules
    BY DEF CompiledObjects, Building, Finished, Steady, Modules
  <2> QED  BY <2>1, <2>2
<1>2. Untouched'
  BY DEF Untouched, Identities, Building
<1>3. CompiledObjects'
  <2>1. index # 4 /\ Compiled.steady => inputs[index] = ids[index] /\ inputs[0] = ids[0]
    <3>1. Compiled.steady = ({0, index} \cap touched = {})
      BY DEF Compiled
    <3>2. ASSUME index # 4, {0, index} \cap touched = {}
          PROVE  inputs[index] = ids[index] /\ inputs[0] = ids[0]
      <4>1. index \in Inputs \ touched /\ 0 \in Inputs \ touched
        BY <3>2
      <4> QED  BY <4>1 DEF Untouched, Building
    <3> QED  BY <3>1, <3>2
  <2>2. index # 4 => Steady(Compiled, index, ids)
    <3>1. index # 4 => Compiled \in Objects
      BY DEF Compiled, Objects, Identities
    <3>2. Compiled.src = inputs[index] /\ Compiled.sdk = inputs[0]
      BY DEF Compiled
    <3> QED  BY <2>1, <3>1, <3>2 DEF Steady, From
  <2>3. CASE index # 4
    BY <2>2, <2>3 DEF CompiledObjects, Building, Finished, WholeModule, Steady
  <2>4. CASE index = 4
    <3>1. \A u \in Units : Steady(objects[u], u, ids)
      BY <2>4 DEF CompiledObjects, Building, Finished
    <3>2. objects \in Modules
      BY <3>1 DEF Steady, Modules
    <3> QED  BY <2>4, <3>1, <3>2 DEF CompiledObjects, Building, Finished, WholeModule, Steady
  <2> QED  BY <2>3, <2>4
<1>4. ManifestWhileBuilding'
  BY DEF ManifestWhileBuilding
<1>5. CompleteManifest'
  BY DEF CompleteManifest, WholeModule, Steady, ManifestWhileBuilding
<1>6. Verifying'
  BY DEF Verifying, WholeModule, Steady
<1>7. FirstManifest'
  BY DEF FirstManifest, Building
<1>8. IndependentVerify'
  BY DEF IndependentVerify
<1> QED  BY <1>1, <1>2, <1>3, <1>4, <1>5, <1>6, <1>7, <1>8

LEMMA SaveKeeps ==
  ASSUME IInv, Save
  PROVE  IInv'
<1> USE DEF IInv, TypeOK, Save, files, args, Inputs, Units, Readable
<1>1. TypeOK'
  BY DEF Identities
<1>2. Untouched'
  BY DEF Untouched, Identities, Building
<1>3. CompiledObjects'
  BY DEF CompiledObjects, Building, Finished, WholeModule, Steady
<1>4. ManifestWhileBuilding'
  BY DEF ManifestWhileBuilding
<1>5. CompleteManifest'
  BY DEF CompleteManifest, WholeModule, Steady
<1>6. Verifying'
  BY DEF Verifying, WholeModule, Steady
<1>7. FirstManifest'
  BY FilesAssumption DEF FirstManifest, Building
<1>8. IndependentVerify'
  BY DEF IndependentVerify
<1> QED  BY <1>1, <1>2, <1>3, <1>4, <1>5, <1>6, <1>7, <1>8

LEMMA SavedKeeps ==
  ASSUME IInv, Saved
  PROVE  IInv'
<1> USE DEF IInv, TypeOK, Saved, files, args, Inputs, Units, Readable
<1>1. Progress \in Manifests
  BY DEF Progress, Manifests
<1>2. Progress \notin {Missing, Torn} /\ Missing # Torn
  BY <1>1, FilesAssumption
<1>3. TypeOK'
  <2>1. index' \in 1 .. 4 /\ touched' \subseteq Inputs
    <3>1. index' \in 1 .. 4
      BY DEF TypeOK
    <3>2. touched' \in {touched, {}}
      OBVIOUS
    <3> QED  BY <3>1, <3>2
  <2>2. first' \in Manifests \cup {Missing} /\ manifest' \in Manifests \cup {Missing, Torn}
    BY <1>1
  <2> QED  BY <2>1, <2>2
<1>4. Untouched'
  BY DEF Untouched, Identities, Progress, Building
<1>5. CompiledObjects'
  BY DEF CompiledObjects, Building, Finished, WholeModule, Steady
<1>6. ManifestWhileBuilding'
  BY <1>2 DEF ManifestWhileBuilding, Progress
<1>7. CompleteManifest'
  BY DEF CompleteManifest, WholeModule, Steady, Progress, CompiledObjects, Building
<1>8. Verifying'
  BY <1>2 DEF Verifying, WholeModule, Steady, Progress, CompiledObjects, Building
<1>9. FirstManifest'
  BY <1>2 DEF FirstManifest, Building, Progress
<1>10. IndependentVerify'
  BY DEF IndependentVerify
<1> QED  BY <1>3, <1>4, <1>5, <1>6, <1>7, <1>8, <1>9, <1>10

LEMMA VerifyKeeps ==
  ASSUME IInv, Verify
  PROVE  IInv'
<1> USE DEF IInv, TypeOK, Verify, files, args, Inputs, Units, Readable
<1>1. TypeOK'
  BY DEF Identities
<1>2. Untouched'
  BY DEF Untouched, Identities, Building
<1>3. CompiledObjects'
  BY DEF CompiledObjects, Building, Finished, WholeModule, Steady
<1>4. ManifestWhileBuilding'
  BY DEF ManifestWhileBuilding
<1>5. CompleteManifest'
  BY DEF CompleteManifest, WholeModule, Steady
<1>6. Verifying'
  BY DEF Verifying, WholeModule, Steady, CompleteManifest
<1>7. FirstManifest'
  BY DEF FirstManifest, Building
<1>8. IndependentVerify'
  BY DEF IndependentVerify
<1> QED  BY <1>1, <1>2, <1>3, <1>4, <1>5, <1>6, <1>7, <1>8

LEMMA RecordKeeps ==
  ASSUME IInv, Record
  PROVE  IInv'
<1> USE DEF IInv, TypeOK, Record, files, args, Inputs, Units, Readable
<1>1. TypeOK'
  BY DEF Identities, Manifests, Verifying
<1>2. Untouched'
  BY DEF Untouched, Identities, Building
<1>3. CompiledObjects'
  BY DEF CompiledObjects, Building, Finished, WholeModule, Steady
<1>4. ManifestWhileBuilding'
  BY DEF ManifestWhileBuilding
<1>5. CompleteManifest'
  BY DEF CompleteManifest, WholeModule, Steady
<1>6. Verifying'
  BY DEF Verifying, WholeModule, Steady
<1>7. FirstManifest'
  BY FilesAssumption DEF FirstManifest, Building, Verifying
<1>8. IndependentVerify'
  BY DEF IndependentVerify
<1> QED  BY <1>1, <1>2, <1>3, <1>4, <1>5, <1>6, <1>7, <1>8

LEMMA RecordedKeeps ==
  ASSUME IInv, Recorded
  PROVE  IInv'
<1> USE DEF IInv, TypeOK, Recorded, files, args, Inputs, Units, Readable
<1>1. module \in Modules
  BY DEF Verifying, WholeModule
<1>2. manifest' \in Manifests
  BY <1>1 DEF Manifests
<1>3. manifest' \notin {Missing, Torn}
  BY <1>2, FilesAssumption
<1>4. TypeOK'
  BY <1>1, <1>2 DEF Identities
<1>5. Untouched'
  BY DEF Untouched, Identities, Building
<1>6. CompiledObjects'
  BY DEF CompiledObjects, Building, Finished, WholeModule, Steady
<1>7. ManifestWhileBuilding'
  BY DEF ManifestWhileBuilding
<1>8. CompleteManifest'
  BY DEF CompleteManifest, WholeModule, Steady, Verifying
<1>9. Verifying'
  BY DEF Verifying, WholeModule, Steady
<1>10. FirstManifest'
  BY <1>3 DEF FirstManifest, Building
<1>11. IndependentVerify'
  BY DEF IndependentVerify, Verifying, WholeModule, Steady, From, Modules, Objects,
         Identities
<1> QED  BY <1>4, <1>5, <1>6, <1>7, <1>8, <1>9, <1>10, <1>11

LEMMA StopKeeps ==
  ASSUME IInv, Stop
  PROVE  IInv'
<1> USE DEF IInv, TypeOK, Stop, files, args, Inputs, Units, Readable
<1>1. TypeOK'
  BY DEF Identities
<1>2. Untouched'
  BY DEF Untouched, Identities, Building
<1>3. CompiledObjects'
  BY DEF CompiledObjects, Building, Finished, WholeModule, Steady
<1>4. ManifestWhileBuilding'
  BY DEF ManifestWhileBuilding
<1>5. CompleteManifest'
  BY DEF CompleteManifest, WholeModule, Steady
<1>6. Verifying'
  BY DEF Verifying, WholeModule, Steady
<1>7. FirstManifest'
  BY DEF FirstManifest, Building
<1>8. IndependentVerify'
  BY DEF IndependentVerify
<1> QED  BY <1>1, <1>2, <1>3, <1>4, <1>5, <1>6, <1>7, <1>8

LEMMA InitHolds == Init => IInv
<1> SUFFICES ASSUME Init PROVE IInv
  OBVIOUS
<1> USE DEF Init, Readable, Inputs, Units
<1>1. TypeOK
  BY VersionsAssumption DEF TypeOK, Identities
<1>2. Untouched /\ CompiledObjects /\ ManifestWhileBuilding /\ CompleteManifest
  BY DEF Untouched, CompiledObjects, Building, ManifestWhileBuilding, CompleteManifest
<1>3. Verifying /\ FirstManifest /\ IndependentVerify
  BY DEF Verifying, FirstManifest, Building, IndependentVerify
<1> QED  BY <1>1, <1>2, <1>3 DEF IInv

(* The invariant is inductive: one lemma per action.                       *)
LEMMA StepKeeps == IInv /\ [Next]_vars => IInv'
<1> SUFFICES ASSUME IInv, [Next]_vars PROVE IInv'
  OBVIOUS
<1>1. CASE Next
  BY <1>1, EditKeeps, StartKeeps, RunKeeps, RanKeeps, SaveKeeps, SavedKeeps,
     VerifyKeeps, RecordKeeps, RecordedKeeps, StopKeeps DEF Next
<1>2. CASE UNCHANGED vars
  <2> USE <1>2 DEF vars, files, args, Readable
  <2>1. TypeOK' /\ Untouched' /\ ManifestWhileBuilding'
    BY DEF IInv, TypeOK, Untouched, Building, ManifestWhileBuilding
  <2>2. CompiledObjects' /\ CompleteManifest'
    BY DEF IInv, CompiledObjects, Building, Finished, CompleteManifest, WholeModule
  <2>3. Verifying' /\ FirstManifest' /\ IndependentVerify'
    BY DEF IInv, Verifying, WholeModule, FirstManifest, Building, IndependentVerify
  <2> QED  BY <2>1, <2>2, <2>3 DEF IInv
<1> QED  BY <1>1, <1>2

THEOREM Invariant == Spec => []IInv
  BY InitHolds, StepKeeps, PTL DEF Spec

-----------------------------------------------------------------------------
(* The state of the builder keeps its types for any number of edits.       *)
THEOREM TypeCorrect == Spec => []TypeOK
<1>1. IInv => TypeOK
  BY DEF IInv
<1> QED  BY <1>1, Invariant, PTL

(* A manifest with four commands completed stands beside a module that the *)
(* linker finished, and the digest of a verified one is that module's.     *)
THEOREM ManifestsAreTrue == Spec => []ManifestIsTrue
<1>1. IInv => CompleteIsWhole
  BY DEF IInv, CompleteManifest, WholeModule, CompleteIsWhole
<1>2. IInv => DigestOfTheModule
  BY DEF IInv, CompleteManifest, DigestOfTheModule
<1>3. IInv => ManifestIsTrue
  BY <1>1, <1>2 DEF IInv, ManifestIsTrue
<1> QED  BY <1>3, Invariant, PTL

(* What --stage verify accepted was compiled from what it hashed, but for  *)
(* the units whose inputs were edited before they were compiled.           *)
THEOREM VerifyIsIndependent == Spec => []IndependentVerify
<1>1. IInv => IndependentVerify
  BY DEF IInv
<1> QED  BY <1>1, Invariant, PTL

(* An output directory holds the build of one set of inputs.               *)
THEOREM OneBuildPerDirectory == Spec => []OneBuild
<1>1. IInv => OneBuild
  <2> SUFFICES ASSUME IInv, Readable(manifest) PROVE Readable(first) /\ OneBuild
    BY DEF OneBuild
  <2>1. first \in Manifests /\ manifest.ids = first.ids /\ manifest.cmds = first.cmds
    BY DEF IInv, TypeOK, FirstManifest
  <2> QED  BY <2>1, FilesAssumption DEF OneBuild, Readable
<1> QED  BY <1>1, Invariant, PTL

-----------------------------------------------------------------------------
(* RuntimeBundle.                                                          *)
(* A preparation has marked the directory as its own.                      *)
Marked == bundlePc \in {"copy", "image", "rewrite", "end"}

(* A copy is whole, and the one that was hashed unless it was edited; a    *)
(* package is always the one that was hashed.                              *)
WholeCopy(f, digests) ==
  IF f = "packages" THEN bundle[f] = digests[f]
  ELSE bundle[f] \in Versions /\ (f \notin loose => bundle[f] = digests[f])

(* What has not been touched is as the digests of the preparation say.     *)
DigestsTaken ==
  /\ bundlePc # "idle" =>
       \A f \in Bundle!files \ bundleTouched : base[f] = bundleInputs[f]
  /\ bundlePc = "idle" => bundleTouched = {}

OwnDirectory ==
  /\ Bundle!OneBundle
  /\ state = Missing => bundleFirst = Missing
  /\ bundlePc = "begin" =>
       /\ state # Torn
       /\ Bundle!Readable(state) => state.inputs = bundleInputs
  /\ Marked => /\ Bundle!Readable(state)
               /\ state.inputs = bundleInputs /\ state.stage = "preparing"
               /\ bundleFirst = bundleInputs

CopiedSoFar ==
  /\ bundlePc = "copy" =>
       \A f \in Bundle!Copied \ todo : WholeCopy(f, bundleInputs)
  /\ bundlePc \in {"image", "rewrite", "end"} =>
       \A f \in Bundle!Copied : WholeCopy(f, bundleInputs)
  /\ bundlePc = "end" => generated

(* What was rendered from a prepared directory held its files, whatever    *)
(* happened to the directory since.                                        *)
OfFirst(r) ==
  r # Missing /\ r.from \in {"prepared", "verified"} =>
    /\ bundleFirst \in Bundle!Digests
    /\ \A f \in Bundle!files :
         /\ r.content[f] \in Versions
         /\ f \notin r.loose => r.content[f] = bundleFirst[f]

BundleInv ==
  /\ Bundle!TypeOK /\ DigestsTaken /\ OwnDirectory /\ CopiedSoFar
  /\ Bundle!PreparedIsWhole /\ OfFirst(rendered) /\ OfFirst(bundleClaim)
  /\ Bundle!VerifiedRendering

(* Edit: what is edited while it prepares is touched.                      *)
LEMMA BundleEditKeeps ==
  ASSUME BundleInv, NEW i \in Bundle!Inputs, Bundle!Edit(i)
  PROVE  BundleInv'
<1> USE DEF BundleInv, Bundle!Edit, Bundle!output, Bundle!history
<1>1. Bundle!TypeOK'
  BY VersionsAssumption DEF Bundle!TypeOK, Bundle!Digests, Bundle!Contents,
       Bundle!Stages, Bundle!Copied, Bundle!Inputs, Bundle!files
<1>2. DigestsTaken'
  BY DEF DigestsTaken, Bundle!Readable, Bundle!TypeOK, Bundle!Digests
<1>3. OwnDirectory'
  BY DEF OwnDirectory, Bundle!OneBundle, Marked, Bundle!Readable
<1>4. CopiedSoFar'
  BY DEF CopiedSoFar, WholeCopy, Bundle!Copied
<1>5. Bundle!PreparedIsWhole'
  BY DEF Bundle!PreparedIsWhole, Bundle!Readable, Bundle!TypeOK, Bundle!Digests,
       Bundle!files, Bundle!Inputs
<1>6. OfFirst(rendered)' /\ OfFirst(bundleClaim)'
  BY DEF OfFirst, Bundle!TypeOK, Bundle!Digests,
       Bundle!files, Bundle!Inputs
<1>7. Bundle!VerifiedRendering'
  BY DEF Bundle!VerifiedRendering, Bundle!Readable, Bundle!TypeOK, Bundle!Digests,
       Bundle!files, Bundle!Inputs
<1> QED BY <1>1, <1>2, <1>3, <1>4, <1>5, <1>6, <1>7 DEF BundleInv

(* Prepare: the directory is new, or of the inputs as they are.            *)
LEMMA BundlePrepareKeeps ==
  ASSUME BundleInv, Bundle!Prepare
  PROVE  BundleInv'
<1> USE DEF BundleInv, Bundle!Prepare, Bundle!output, Bundle!history
<1>1. Bundle!TypeOK'
  BY VersionsAssumption DEF Bundle!TypeOK, Bundle!Digests, Bundle!Contents,
       Bundle!Stages, Bundle!Copied, Bundle!Inputs, Bundle!files
<1>2. DigestsTaken'
  BY DEF DigestsTaken, Bundle!Readable, Bundle!TypeOK, Bundle!Digests
<1>3. OwnDirectory'
  BY DEF OwnDirectory, Bundle!OneBundle, Marked, Bundle!Readable
<1>4. CopiedSoFar'
  BY DEF CopiedSoFar, WholeCopy, Marked, Bundle!TypeOK, Bundle!Digests,
       Bundle!Copied, Bundle!files, Bundle!Inputs
<1>5. Bundle!PreparedIsWhole'
  BY DEF Bundle!PreparedIsWhole, Bundle!Readable, Bundle!TypeOK, Bundle!Digests,
       Bundle!files, Bundle!Inputs
<1>6. OfFirst(rendered)' /\ OfFirst(bundleClaim)'
  BY DEF OfFirst, Bundle!TypeOK, Bundle!Digests,
       Bundle!files, Bundle!Inputs
<1>7. Bundle!VerifiedRendering'
  BY DEF Bundle!VerifiedRendering, Bundle!Readable, Bundle!TypeOK, Bundle!Digests,
       Bundle!files, Bundle!Inputs
<1> QED BY <1>1, <1>2, <1>3, <1>4, <1>5, <1>6, <1>7 DEF BundleInv

(* Begin: the stage is withdrawn before anything is written.               *)
LEMMA BundleBeginKeeps ==
  ASSUME BundleInv, Bundle!Begin
  PROVE  BundleInv'
<1> USE DEF BundleInv, Bundle!Begin, Bundle!output, Bundle!history
<1>1. Bundle!TypeOK'
  BY VersionsAssumption DEF Bundle!TypeOK, Bundle!Digests, Bundle!Contents,
       Bundle!Stages, Bundle!Copied, Bundle!Inputs, Bundle!files
<1>2. DigestsTaken'
  BY DEF DigestsTaken, Bundle!Readable, Bundle!TypeOK, Bundle!Digests
<1>3. OwnDirectory'
  <2>1. bundleInputs \in Bundle!Digests
    BY DEF Bundle!TypeOK
  <2>2. state' \notin {Missing, Torn} /\ bundleInputs # Missing
    BY <2>1, BundleAssumption DEF Bundle!Stages
  <2> QED BY <2>1, <2>2 DEF OwnDirectory, Bundle!OneBundle, Marked, Bundle!Readable
<1>4. CopiedSoFar'
  BY DEF CopiedSoFar, WholeCopy, Marked, Bundle!TypeOK, Bundle!Digests,
       Bundle!Copied, Bundle!files, Bundle!Inputs
<1>5. Bundle!PreparedIsWhole'
  BY DEF Bundle!PreparedIsWhole, Bundle!Readable, Bundle!TypeOK, Bundle!Digests,
       Bundle!files, Bundle!Inputs
<1>6. OfFirst(rendered)' /\ OfFirst(bundleClaim)'
  BY BundleAssumption DEF OfFirst, Bundle!TypeOK, Bundle!Digests
<1>7. Bundle!VerifiedRendering'
  BY DEF Bundle!VerifiedRendering, Bundle!Readable, Bundle!TypeOK, Bundle!Digests,
       Bundle!files, Bundle!Inputs
<1> QED BY <1>1, <1>2, <1>3, <1>4, <1>5, <1>6, <1>7 DEF BundleInv

(* Copy: a copy is of the base as it is now.                               *)
LEMMA BundleCopyKeeps ==
  ASSUME BundleInv, NEW f \in Bundle!Copied, Bundle!Copy(f)
  PROVE  BundleInv'
<1> USE DEF BundleInv, Bundle!Copy, Bundle!Loosened, Bundle!output, Bundle!history
<1>1. Bundle!TypeOK'
  BY VersionsAssumption DEF Bundle!TypeOK, Bundle!Digests, Bundle!Contents,
       Bundle!Stages, Bundle!Copied, Bundle!Inputs, Bundle!files
<1>2. DigestsTaken'
  BY DEF DigestsTaken, Bundle!Readable, Bundle!TypeOK, Bundle!Digests
<1>3. OwnDirectory'
  BY DEF OwnDirectory, Bundle!OneBundle, Marked, Bundle!Readable
<1>4. CopiedSoFar'
  <2>1. f # "packages" => base[f] \in Versions /\ f \in Bundle!files
    BY DEF Bundle!TypeOK, Bundle!Digests, Bundle!Copied, Bundle!files, Bundle!Inputs
  <2>2. WholeCopy(f, bundleInputs)'
    BY <2>1 DEF WholeCopy, DigestsTaken, Bundle!TypeOK
  <2>3. \A g \in Bundle!Copied \ todo : WholeCopy(g, bundleInputs)'
    BY DEF CopiedSoFar, WholeCopy, Bundle!TypeOK, Bundle!Digests,
         Bundle!Copied, Bundle!files, Bundle!Inputs
  <2> QED BY <2>2, <2>3 DEF CopiedSoFar
<1>5. Bundle!PreparedIsWhole'
  BY DEF Bundle!PreparedIsWhole, OwnDirectory, Marked
<1>6. OfFirst(rendered)' /\ OfFirst(bundleClaim)'
  BY DEF OfFirst, Bundle!TypeOK, Bundle!Digests,
       Bundle!files, Bundle!Inputs
<1>7. Bundle!VerifiedRendering'
  BY DEF Bundle!VerifiedRendering, Bundle!Readable, Bundle!TypeOK, Bundle!Digests,
       Bundle!files, Bundle!Inputs
<1> QED BY <1>1, <1>2, <1>3, <1>4, <1>5, <1>6, <1>7 DEF BundleInv

(* CheckImage: nothing is written.                                         *)
LEMMA BundleCheckImageKeeps ==
  ASSUME BundleInv, Bundle!CheckImage
  PROVE  BundleInv'
<1> USE DEF BundleInv, Bundle!CheckImage, Bundle!output, Bundle!history
<1>1. Bundle!TypeOK'
  BY VersionsAssumption DEF Bundle!TypeOK, Bundle!Digests, Bundle!Contents,
       Bundle!Stages, Bundle!Copied, Bundle!Inputs, Bundle!files
<1>2. DigestsTaken'
  BY DEF DigestsTaken, Bundle!Readable, Bundle!TypeOK, Bundle!Digests
<1>3. OwnDirectory'
  BY DEF OwnDirectory, Bundle!OneBundle, Marked, Bundle!Readable
<1>4. CopiedSoFar'
  BY DEF CopiedSoFar, WholeCopy, Marked, Bundle!TypeOK, Bundle!Digests,
       Bundle!Copied, Bundle!files, Bundle!Inputs
<1>5. Bundle!PreparedIsWhole'
  BY DEF Bundle!PreparedIsWhole, Bundle!Readable, Bundle!TypeOK, Bundle!Digests,
       Bundle!files, Bundle!Inputs
<1>6. OfFirst(rendered)' /\ OfFirst(bundleClaim)'
  BY DEF OfFirst, Bundle!TypeOK, Bundle!Digests,
       Bundle!files, Bundle!Inputs
<1>7. Bundle!VerifiedRendering'
  BY DEF Bundle!VerifiedRendering, Bundle!Readable, Bundle!TypeOK, Bundle!Digests,
       Bundle!files, Bundle!Inputs
<1> QED BY <1>1, <1>2, <1>3, <1>4, <1>5, <1>6, <1>7 DEF BundleInv

(* Rewrite: the kustomization is read once more.                           *)
LEMMA BundleRewriteKeeps ==
  ASSUME BundleInv, Bundle!Rewrite
  PROVE  BundleInv'
<1> USE DEF BundleInv, Bundle!Rewrite, Bundle!Loosened, Bundle!output, Bundle!history
<1>1. Bundle!TypeOK'
  BY VersionsAssumption DEF Bundle!TypeOK, Bundle!Digests, Bundle!Contents,
       Bundle!Stages, Bundle!Copied, Bundle!Inputs, Bundle!files
<1>2. DigestsTaken'
  BY DEF DigestsTaken, Bundle!Readable, Bundle!TypeOK, Bundle!Digests
<1>3. OwnDirectory'
  BY DEF OwnDirectory, Bundle!OneBundle, Marked, Bundle!Readable
<1>4. CopiedSoFar'
  <2>1. "kustomization" \in Bundle!files /\ base["kustomization"] \in Versions
    BY DEF Bundle!TypeOK, Bundle!Digests,
       Bundle!files, Bundle!Inputs
  <2>2. WholeCopy("kustomization", bundleInputs)'
    BY <2>1 DEF WholeCopy, DigestsTaken, Bundle!TypeOK, Bundle!Copied, Bundle!files
  <2>3. \A g \in Bundle!Copied \ {"kustomization"} : WholeCopy(g, bundleInputs)'
    BY DEF CopiedSoFar, WholeCopy, Bundle!TypeOK, Bundle!Copied, Bundle!files
  <2> QED BY <2>2, <2>3 DEF CopiedSoFar
<1>5. Bundle!PreparedIsWhole'
  BY DEF Bundle!PreparedIsWhole, OwnDirectory, Marked
<1>6. OfFirst(rendered)' /\ OfFirst(bundleClaim)'
  BY DEF OfFirst, Bundle!TypeOK, Bundle!Digests,
       Bundle!files, Bundle!Inputs
<1>7. Bundle!VerifiedRendering'
  BY DEF Bundle!VerifiedRendering, Bundle!Readable, Bundle!TypeOK, Bundle!Digests,
       Bundle!files, Bundle!Inputs
<1> QED BY <1>1, <1>2, <1>3, <1>4, <1>5, <1>6, <1>7 DEF BundleInv

(* End: all files are there, whole.                                        *)
LEMMA BundleEndKeeps ==
  ASSUME BundleInv, Bundle!End
  PROVE  BundleInv'
<1> USE DEF BundleInv, Bundle!End, Bundle!output, Bundle!history
<1>1. Bundle!TypeOK'
  BY VersionsAssumption DEF Bundle!TypeOK, Bundle!Digests, Bundle!Contents,
       Bundle!Stages, Bundle!Copied, Bundle!Inputs, Bundle!files
<1>2. DigestsTaken'
  BY DEF DigestsTaken, Bundle!Readable, Bundle!TypeOK, Bundle!Digests
<1>3. OwnDirectory'
  <2>1. state' \notin {Missing, Torn}
    BY BundleAssumption DEF Bundle!TypeOK, Bundle!Stages
  <2> QED BY <2>1 DEF OwnDirectory, Bundle!OneBundle, Marked, Bundle!Readable
<1>4. CopiedSoFar'
  BY DEF CopiedSoFar, WholeCopy, Marked, Bundle!TypeOK, Bundle!Digests,
       Bundle!Copied, Bundle!files, Bundle!Inputs
<1>5. Bundle!PreparedIsWhole'
  BY DEF Bundle!PreparedIsWhole, CopiedSoFar, WholeCopy, Bundle!Copied, Bundle!files,
       Bundle!Inputs
<1>6. OfFirst(rendered)' /\ OfFirst(bundleClaim)'
  BY DEF OfFirst, Bundle!TypeOK, Bundle!Digests,
       Bundle!files, Bundle!Inputs
<1>7. Bundle!VerifiedRendering'
  BY DEF Bundle!VerifiedRendering, Bundle!Readable, Bundle!TypeOK, Bundle!Digests,
       Bundle!files, Bundle!Inputs
<1> QED BY <1>1, <1>2, <1>3, <1>4, <1>5, <1>6, <1>7 DEF BundleInv

(* Kill: the stage stays withdrawn, or the manifest is torn.               *)
LEMMA BundleKillKeeps ==
  ASSUME BundleInv, Bundle!Kill
  PROVE  BundleInv'
<1> USE DEF BundleInv, Bundle!Kill, Bundle!output, Bundle!history
<1>1. Bundle!TypeOK'
  BY VersionsAssumption DEF Bundle!TypeOK, Bundle!Digests, Bundle!Contents,
       Bundle!Stages, Bundle!Copied, Bundle!Inputs, Bundle!files
<1>2. DigestsTaken'
  BY DEF DigestsTaken, Bundle!Readable, Bundle!TypeOK, Bundle!Digests
<1>3. OwnDirectory'
  <2>1. Missing # Torn
    BY FilesAssumption
  <2> QED BY <2>1 DEF OwnDirectory, Bundle!OneBundle, Marked, Bundle!Readable
<1>4. CopiedSoFar'
  BY DEF CopiedSoFar, WholeCopy, Marked, Bundle!TypeOK, Bundle!Digests,
       Bundle!Copied, Bundle!files, Bundle!Inputs
<1>5. Bundle!PreparedIsWhole'
  BY DEF Bundle!PreparedIsWhole, OwnDirectory, Marked, Bundle!Readable
<1>6. OfFirst(rendered)' /\ OfFirst(bundleClaim)'
  BY DEF OfFirst, Bundle!TypeOK, Bundle!Digests,
       Bundle!files, Bundle!Inputs
<1>7. Bundle!VerifiedRendering'
  BY DEF Bundle!VerifiedRendering, Bundle!Readable, Bundle!TypeOK, Bundle!Digests,
       Bundle!files, Bundle!Inputs
<1> QED BY <1>1, <1>2, <1>3, <1>4, <1>5, <1>6, <1>7 DEF BundleInv

(* Render: a prepared directory renders what it holds.                     *)
LEMMA BundleRenderKeeps ==
  ASSUME BundleInv, Bundle!Render
  PROVE  BundleInv'
<1> USE DEF BundleInv, Bundle!Render, Bundle!output, Bundle!history
<1>1. Bundle!TypeOK'
  <2>1. [f \in Bundle!Copied |-> bundle[f]] = bundle
    BY DEF Bundle!TypeOK
  <2>2. bundle \in [Bundle!Copied -> Versions \cup {Torn}]
    BY DEF Bundle!Renders, Bundle!TypeOK, Bundle!Contents
  <2>3. rendered' \in Bundle!Renderings
    BY <2>2 DEF Bundle!Renderings, Bundle!TypeOK, Bundle!Readable
  <2> QED BY <2>3 DEF Bundle!TypeOK
<1>2. DigestsTaken'
  BY DEF DigestsTaken, Bundle!Readable, Bundle!TypeOK, Bundle!Digests
<1>3. OwnDirectory'
  BY DEF OwnDirectory, Bundle!OneBundle, Marked, Bundle!Readable
<1>4. CopiedSoFar'
  BY DEF CopiedSoFar, WholeCopy, Marked, Bundle!TypeOK, Bundle!Digests,
       Bundle!Copied, Bundle!files, Bundle!Inputs
<1>5. Bundle!PreparedIsWhole'
  BY DEF Bundle!PreparedIsWhole, Bundle!Readable, Bundle!TypeOK, Bundle!Digests,
       Bundle!files, Bundle!Inputs
<1>6. OfFirst(rendered)' /\ OfFirst(bundleClaim)'
  <2>1. OfFirst(bundleClaim)'
    BY DEF OfFirst
  <2>2. CASE Bundle!Readable(state) /\ state.stage # "preparing"
    <3>1. bundleFirst = state.inputs /\ bundleFirst \in Bundle!Digests
      BY <2>2 DEF OwnDirectory, Bundle!OneBundle, Bundle!TypeOK, Bundle!Readable
    <3>2. \A f \in Bundle!files : /\ bundle[f] \in Versions
                                  /\ f \notin loose => bundle[f] = bundleFirst[f]
      BY <2>2, <3>1 DEF Bundle!PreparedIsWhole
    <3> QED BY <2>1, <3>1, <3>2 DEF OfFirst
  <2>3. CASE ~(Bundle!Readable(state) /\ state.stage # "preparing")
    BY <2>1, <2>3 DEF OfFirst
  <2> QED BY <2>2, <2>3
<1>7. Bundle!VerifiedRendering'
  BY DEF Bundle!VerifiedRendering, Bundle!Readable, Bundle!TypeOK, Bundle!Digests,
       Bundle!files, Bundle!Inputs
<1> QED BY <1>1, <1>2, <1>3, <1>4, <1>5, <1>6, <1>7 DEF BundleInv

(* RenderElsewhere: a rendering that claims nothing.                       *)
LEMMA BundleRenderElsewhereKeeps ==
  ASSUME BundleInv, Bundle!RenderElsewhere
  PROVE  BundleInv'
<1> USE DEF BundleInv, Bundle!RenderElsewhere, Bundle!output, Bundle!history
<1>1. Bundle!TypeOK'
  <2>1. rendered' \in Bundle!Renderings
    BY DEF Bundle!Renderings, Bundle!TypeOK, Bundle!Digests, Bundle!Copied,
         Bundle!files, Bundle!Inputs
  <2> QED BY <2>1 DEF Bundle!TypeOK
<1>2. DigestsTaken'
  BY DEF DigestsTaken, Bundle!Readable, Bundle!TypeOK, Bundle!Digests
<1>3. OwnDirectory'
  BY DEF OwnDirectory, Bundle!OneBundle, Marked, Bundle!Readable
<1>4. CopiedSoFar'
  BY DEF CopiedSoFar, WholeCopy, Marked, Bundle!TypeOK, Bundle!Digests,
       Bundle!Copied, Bundle!files, Bundle!Inputs
<1>5. Bundle!PreparedIsWhole'
  BY DEF Bundle!PreparedIsWhole, Bundle!Readable, Bundle!TypeOK, Bundle!Digests,
       Bundle!files, Bundle!Inputs
<1>6. OfFirst(rendered)' /\ OfFirst(bundleClaim)'
  BY DEF OfFirst, Bundle!TypeOK, Bundle!Digests,
       Bundle!files, Bundle!Inputs
<1>7. Bundle!VerifiedRendering'
  BY DEF Bundle!VerifiedRendering, Bundle!Readable, Bundle!TypeOK, Bundle!Digests,
       Bundle!files, Bundle!Inputs
<1> QED BY <1>1, <1>2, <1>3, <1>4, <1>5, <1>6, <1>7 DEF BundleInv

(* Verify: the claim is of the rendering.                                  *)
LEMMA BundleVerifyKeeps ==
  ASSUME BundleInv, Bundle!Verify
  PROVE  BundleInv'
<1> USE DEF BundleInv, Bundle!Verify, Bundle!output, Bundle!history
<1>1. Bundle!TypeOK'
  <2>1. state' \in [inputs : Bundle!Digests, stage : Bundle!Stages] \cup {Missing, Torn}
    BY DEF Bundle!TypeOK, Bundle!Stages, Bundle!Readable
  <2> QED BY <2>1 DEF Bundle!TypeOK
<1>2. DigestsTaken'
  BY DEF DigestsTaken, Bundle!Readable, Bundle!TypeOK, Bundle!Digests
<1>3. OwnDirectory'
  <2>1. state \in [inputs : Bundle!Digests, stage : Bundle!Stages]
    BY DEF Bundle!TypeOK, Bundle!Readable
  <2>2. state' # Missing /\ (state' # Torn => state'.inputs = state.inputs)
    BY <2>1, FilesAssumption, BundleAssumption DEF Bundle!Stages
  <2> QED BY <2>2 DEF OwnDirectory, Bundle!OneBundle, Marked, Bundle!Readable
<1>4. CopiedSoFar'
  BY DEF CopiedSoFar, WholeCopy, Marked, Bundle!TypeOK, Bundle!Digests,
       Bundle!Copied, Bundle!files, Bundle!Inputs
<1>5. Bundle!PreparedIsWhole'
  BY DEF Bundle!PreparedIsWhole, Bundle!Readable, Bundle!TypeOK, Bundle!Digests,
       Bundle!files, Bundle!Inputs
<1>6. OfFirst(rendered)' /\ OfFirst(bundleClaim)'
  BY DEF OfFirst, Bundle!TypeOK, Bundle!Digests,
       Bundle!files, Bundle!Inputs
<1>7. Bundle!VerifiedRendering'
  <2>1. state \in [inputs : Bundle!Digests, stage : Bundle!Stages]
    BY DEF Bundle!TypeOK, Bundle!Readable
  <2>2. CASE state' = Torn
    BY <2>2 DEF Bundle!VerifiedRendering, Bundle!Readable
  <2>3. CASE state' = [state EXCEPT !.stage = "verified"] /\ bundleClaim' = rendered
    <3>1. state'.inputs = state.inputs /\ state.inputs = bundleFirst
      BY <2>1, <2>3 DEF OwnDirectory, Bundle!OneBundle
    <3>2. rendered.from \in {"prepared", "verified"} =>
            \A f \in Bundle!files :
              /\ rendered.content[f] \in Versions
              /\ f \notin rendered.loose => rendered.content[f] = bundleFirst[f]
      BY DEF OfFirst
    <3> QED BY <2>3, <3>1, <3>2 DEF Bundle!VerifiedRendering
  <2> QED BY <2>2, <2>3
<1> QED BY <1>1, <1>2, <1>3, <1>4, <1>5, <1>6, <1>7 DEF BundleInv

(* Every step of prepare_runtime.py and of its surroundings keeps it.      *)
LEMMA BundleStepKeeps == BundleInv /\ [Bundle!Next]_(Bundle!vars) => BundleInv'
<1> SUFFICES ASSUME BundleInv, [Bundle!Next]_(Bundle!vars)  PROVE BundleInv'
  OBVIOUS
<1>1. CASE Bundle!Next
  BY <1>1, BundleEditKeeps, BundlePrepareKeeps, BundleBeginKeeps, BundleCopyKeeps,
     BundleCheckImageKeeps, BundleRewriteKeeps, BundleEndKeeps, BundleKillKeeps,
     BundleRenderKeeps, BundleRenderElsewhereKeeps, BundleVerifyKeeps DEF Bundle!Next
<1>2. CASE UNCHANGED Bundle!vars
  <2> USE <1>2 DEF Bundle!vars, Bundle!output, Bundle!history
  <2>1. Bundle!TypeOK' /\ DigestsTaken' /\ OwnDirectory' /\ CopiedSoFar'
    BY DEF BundleInv, Bundle!TypeOK, DigestsTaken, OwnDirectory, Bundle!OneBundle, Marked,
           CopiedSoFar, WholeCopy, Bundle!Readable
  <2>2. /\ Bundle!PreparedIsWhole' /\ Bundle!VerifiedRendering'
        /\ OfFirst(rendered)' /\ OfFirst(bundleClaim)'
    BY DEF BundleInv, Bundle!PreparedIsWhole, Bundle!VerifiedRendering, OfFirst,
           Bundle!Readable
  <2> QED BY <2>1, <2>2 DEF BundleInv
<1> QED BY <1>1, <1>2

(* The invariant of the bundle holds in every reachable state.             *)
THEOREM BundleInvariant == Bundle!Spec => []BundleInv
<1>1. Bundle!Init => BundleInv
  <2> SUFFICES ASSUME Bundle!Init  PROVE BundleInv
    OBVIOUS
  <2>1. Bundle!TypeOK
    <3>1. base \in Bundle!Digests /\ bundleInputs \in Bundle!Digests
      BY VersionsAssumption DEF Bundle!Init, Bundle!Digests
    <3>2. bundle \in [Bundle!Copied -> Bundle!Contents] /\ todo \subseteq Bundle!Copied
      BY DEF Bundle!Init, Bundle!Contents
    <3> QED BY <3>1, <3>2 DEF Bundle!Init, Bundle!TypeOK
  <2>2. DigestsTaken /\ OwnDirectory /\ CopiedSoFar
    BY DEF Bundle!Init, DigestsTaken, OwnDirectory, Bundle!OneBundle, Marked, CopiedSoFar,
           Bundle!Readable
  <2>3. /\ Bundle!PreparedIsWhole /\ Bundle!VerifiedRendering
        /\ OfFirst(rendered) /\ OfFirst(bundleClaim)
    BY DEF Bundle!Init, Bundle!PreparedIsWhole, Bundle!VerifiedRendering, OfFirst,
           Bundle!Readable
  <2> QED BY <2>1, <2>2, <2>3 DEF BundleInv
<1> QED BY <1>1, BundleStepKeeps, PTL DEF Bundle!Spec

(* README: "resumes only with identical inputs".  For any number of edits, *)
(* kills and repeated preparations the manifest of a directory is of the   *)
(* inputs it was first made of.                                            *)
THEOREM BundleOfFirstInputs == Bundle!Spec => []OneBundle
<1>1. BundleInv => OneBundle
  BY DEF BundleInv, OwnDirectory, OneBundle
<1> QED BY <1>1, BundleInvariant, PTL

(* A manifest that says prepared stands beside whole files, of its digests *)
(* but for those that were edited before they were copied, and one that    *)
(* says verified was verified by a rendering of the accepted packages and  *)
(* the pinned image.                                                       *)
THEOREM BundlesAreTrue == Bundle!Spec => []BundleIsTrue
<1>1. BundleInv => BundleIsTrue
  BY DEF BundleInv, BundleIsTrue, Bundle!BundleIsTrue
<1> QED BY <1>1, BundleInvariant, PTL

-----------------------------------------------------------------------------
(* The room of the timing fields, for any hosts, durations and attempts.    *)

Digits == [Envoy!Metric -> Seq(0 .. 9)]
Payloads == Nat \X Envoy!Kinds \X Seq(0 .. 9)

(* One turn of the loop adds at most 12 bytes, the digits and the          *)
(* description.                                                            *)
LEMMA EmitAdds ==
  ASSUME NEW t \in Envoy!Texts, t.used # -1, NEW room \in Nat, NEW desc \in Nat,
         NEW values \in Digits, NEW i \in Envoy!Metric, NEW most \in Nat,
         Len(values[i]) <= 13, Len(values[i]) <= most, t.used + 12 + most + desc <= room
  PROVE  LET e == Envoy!Emit(t, room, desc, values, i)
         IN /\ e \in Envoy!Texts
            /\ e.used \in t.used .. t.used + 12 + most + desc
            /\ values[i] # <<>> => e.used >= 1
<1> DEFINE name == IF t.used > 0 THEN t.used + 1 ELSE 0
           l == Envoy!NameLen[i]
           value == name + l
           size == Len(values[i])
           end == value + size + desc
           added == {<<u, "comma", <<>>>> : u \in {t.used} \ {0}}
                     \cup {<<name, "name", <<i>>>>, <<value, "value", values[i]>>,
                           <<value + size, "description", <<>>>>}
<1>1. t.used \in Nat /\ t.put \in SUBSET Payloads /\ values[i] \in Seq(0 .. 9) /\ i \in 1 .. 6
  BY DEF Envoy!Texts, Digits, Payloads, Envoy!Metric
<1>2. t.used \in Nat
  BY <1>1
<1>3. i \in 1 .. 6
  BY <1>1
<1>4. size \in Nat /\ size <= most /\ size <= 13
  BY <1>1
<1>5. l \in 9 .. 11
  <2>1. /\ Envoy!NameLen[1] \in 9 .. 11 /\ Envoy!NameLen[2] \in 9 .. 11
        /\ Envoy!NameLen[3] \in 9 .. 11 /\ Envoy!NameLen[4] \in 9 .. 11
        /\ Envoy!NameLen[5] \in 9 .. 11 /\ Envoy!NameLen[6] \in 9 .. 11
    BY DEF Envoy!NameLen
  <2> DEFINE len(k) == Envoy!NameLen[k]
  <2>2. /\ len(1) \in 9 .. 11 /\ len(2) \in 9 .. 11 /\ len(3) \in 9 .. 11
        /\ len(4) \in 9 .. 11 /\ len(5) \in 9 .. 11 /\ len(6) \in 9 .. 11
    BY <2>1
  <2>3. l = len(i)
    OBVIOUS
  <2> HIDE DEF len, l
  <2>4. i = 1 \/ i = 2 \/ i = 3 \/ i = 4 \/ i = 5 \/ i = 6
    BY <1>3
  <2> QED BY <2>2, <2>3, <2>4, Zenon
<1>6. name \in Nat /\ name <= t.used + 1 /\ name >= t.used
  <2>1. CASE t.used > 0
    BY <1>2, <2>1
  <2>2. CASE t.used = 0
    BY <1>2, <2>2
  <2> QED BY <1>2, <2>1, <2>2
<1>7. value \in Nat /\ value >= 9 /\ value <= t.used + 12
  <2> HIDE DEF name, l
  <2> QED BY <1>2, <1>5, <1>6
<1>8. end \in Nat /\ end >= 9 /\ end >= t.used /\ end <= t.used + 12 + most + desc
  <2> HIDE DEF value, size
  <2>1. value >= t.used
    <3> HIDE DEF name, l
    <3> QED BY <1>2, <1>5, <1>6 DEF value
  <2> QED BY <1>2, <1>4, <1>7, <2>1
<1>9. <<>> \in Seq(0 .. 9) /\ <<i>> \in Seq(0 .. 9)
  <2>1. i \in 0 .. 9
    BY <1>1
  <2> QED BY <2>1
<1>10. added \in SUBSET Payloads
  <2>1. "comma" \in Envoy!Kinds /\ "name" \in Envoy!Kinds /\ "value" \in Envoy!Kinds
        /\ "description" \in Envoy!Kinds
    BY DEF Envoy!Kinds
  <2>2. value + size \in Nat
    BY <1>4, <1>7
  <2> HIDE DEF name, value, size
  <2>3. <<name, "name", <<i>>>> \in Payloads
    BY <1>6, <1>9, <2>1 DEF Payloads
  <2>4. <<value, "value", values[i]>> \in Payloads
    BY <1>1, <1>7, <2>1 DEF Payloads
  <2>5. <<value + size, "description", <<>>>> \in Payloads
    BY <1>9, <2>1, <2>2 DEF Payloads
  <2>6. <<t.used, "comma", <<>>>> \in Payloads
    BY <1>1, <1>9, <2>1 DEF Payloads
  <2> QED BY <2>3, <2>4, <2>5, <2>6
<1> DEFINE full == [used |-> end, put |-> t.put \cup added]
<1>11. Envoy!Emit(t, room, desc, values, i) \in {t, full}
  <2>1. ~(end > room)
    <3> HIDE DEF end
    <3> QED BY <1>1, <1>8
  <2> QED BY <2>1 DEF Envoy!Emit
<1>12. values[i] # <<>> => Envoy!Emit(t, room, desc, values, i) = full
  <2> SUFFICES ASSUME values[i] # <<>>
               PROVE  Envoy!Emit(t, room, desc, values, i) = full
    OBVIOUS
  <2>1. ~(end > room)
    <3> HIDE DEF end
    <3> QED BY <1>1, <1>8
  <2>2. t # Envoy!Failed
    BY DEF Envoy!Failed
  <2>3. size # 0
    BY <1>1
  <2>4. Envoy!IsDigits(values[i])
    <3>1. size \in 1 .. 13
      <4> HIDE DEF size
      <4> QED BY <1>4, <2>3
    <3> QED BY <3>1 DEF Envoy!IsDigits, Envoy!DigitsMax
  <2> QED BY <2>1, <2>2, <2>4 DEF Envoy!Emit
<1> HIDE DEF added, end
<1>13. /\ full \in Envoy!Texts /\ full.used \in t.used .. t.used + 12 + most + desc
       /\ full.used >= 1
  BY <1>1, <1>8, <1>10 DEF Envoy!Texts, Payloads
<1>14. t \in Envoy!Texts /\ t.used \in t.used .. t.used + 12 + most + desc
  BY <1>1
<1> HIDE DEF full
<1> QED BY <1>11, <1>12, <1>13, <1>14

(* Six turns fill at most six times the room of one.                       *)
LEMMA LoopFits ==
  ASSUME NEW room \in Nat, NEW desc \in Nat, NEW values \in Digits, NEW most \in Nat,
         most <= 13, \A i \in Envoy!Metric : Len(values[i]) <= most,
         values[1] # <<>>, 6 * (12 + most + desc) <= room
  PROVE  LET t == Envoy!FormatSlow(room, desc, values)
         IN t \in Envoy!Texts /\ t.used \in 1 .. 6 * (12 + most + desc)
<1> DEFINE T(t, i) == Envoy!Emit(t, room, desc, values, i)
           step == 12 + most + desc
           t0 == Envoy!Empty
           t1 == T(t0, 1)
           t2 == T(t1, 2)
           t3 == T(t2, 3)
           t4 == T(t3, 4)
           t5 == T(t4, 5)
           t6 == T(t5, 6)
<1>1. Envoy!FormatSlow(room, desc, values) = t6
  BY DEF Envoy!FormatSlow, Envoy!Loop
<1>2. step \in Nat /\ 6 * step <= room /\ \A t : t.used + step = t.used + step
  OBVIOUS
<1>3. t0 \in Envoy!Texts /\ t0.used = 0
  BY DEF Envoy!Empty, Envoy!Texts
<1>4. ASSUME NEW t \in Envoy!Texts, NEW i \in Envoy!Metric, NEW n \in 0 .. 5,
             t.used \in 0 .. n * step
      PROVE  /\ T(t, i) \in Envoy!Texts
             /\ T(t, i).used \in t.used .. (n + 1) * step
             /\ values[i] # <<>> => T(t, i).used >= 1
  <2>1. /\ t.used \in Nat /\ t.used # -1 /\ t.used + step <= (n + 1) * step
        /\ (n + 1) * step <= room
    <3>1. n * step \in Nat /\ (n + 1) * step = n * step + step
      BY <1>2, SMTT(30)
    <3>2. (n + 1) * step <= 6 * step
      BY <1>2
    <3> QED BY <1>2, <1>4, <3>1, <3>2
  <2>2. t.used + 12 + most + desc = t.used + step
    BY <2>1
  <2> HIDE DEF step
  <2>3. t.used + 12 + most + desc <= room
    BY <1>2, <2>1, <2>2
  <2>4. Len(values[i]) <= 13 /\ Len(values[i]) <= most
    BY DEF Digits
  <2>5. /\ T(t, i) \in Envoy!Texts
        /\ T(t, i).used \in t.used .. t.used + 12 + most + desc
        /\ values[i] # <<>> => T(t, i).used >= 1
    BY <2>1, <2>3, <2>4, EmitAdds
  <2> QED BY <1>2, <2>1, <2>2, <2>5
<1> HIDE DEF T, step, t0
<1>5. t1 \in Envoy!Texts /\ t1.used \in 1 .. 1 * step
  BY <1>2, <1>3, <1>4, SMTT(30) DEF Envoy!Metric
<1> HIDE DEF t1
<1>6. t2 \in Envoy!Texts /\ t2.used \in 1 .. 2 * step
  BY <1>2, <1>5, <1>4, SMTT(30) DEF Envoy!Metric
<1> HIDE DEF t2
<1>7. t3 \in Envoy!Texts /\ t3.used \in 1 .. 3 * step
  BY <1>2, <1>6, <1>4, SMTT(30) DEF Envoy!Metric
<1> HIDE DEF t3
<1>8. t4 \in Envoy!Texts /\ t4.used \in 1 .. 4 * step
  BY <1>2, <1>7, <1>4, SMTT(30) DEF Envoy!Metric
<1> HIDE DEF t4
<1>9. t5 \in Envoy!Texts /\ t5.used \in 1 .. 5 * step
  BY <1>2, <1>8, <1>4, SMTT(30) DEF Envoy!Metric
<1> HIDE DEF t5
<1>10. t6 \in Envoy!Texts /\ t6.used \in 1 .. 6 * step
  BY <1>2, <1>9, <1>4, SMTT(30) DEF Envoy!Metric
<1> QED BY <1>1, <1>10 DEF step

(* A host name makes a description of 520 bytes at most.                   *)
LEMMA ShortDescription ==
  ASSUME NEW h \in Envoy!Host
  PROVE  Envoy!DescriptionLen(h) \in 0 .. 520
<1> DEFINE p == h.plain
           o == h.other
           e == h.escaped
           c == h.control
<1>1. p \in Nat /\ o \in Nat /\ e \in Nat /\ c \in Nat /\ p + o + e + c <= 256
  BY DEF Envoy!Host
<1>2. Envoy!DescriptionLen(h) \in {6 + p, 7 + p + o + 2 * e + 1}
  BY DEF Envoy!DescriptionLen
<1> HIDE DEF p, o, e, c
<1>3. 6 + p \in 0 .. 520 /\ 7 + p + o + 2 * e + 1 \in 0 .. 520
  BY <1>1
<1> QED BY <1>2, <1>3

(* The offsets are numbers.                                                *)
LEMMA OffsetsAre ==
  ASSUME NEW desc \in Nat, NEW v \in {1, 2}
  PROVE  Envoy!Offsets(v, desc) \in [Envoy!Metric -> Nat]
<1> DEFINE O == [used : Nat, at : [Envoy!Metric -> Nat]]
           T(o, i) == Envoy!Offset(o, i, v, desc)
           o0 == [used |-> 0, at |-> [i \in Envoy!Metric |-> 0]]
<1>1. Envoy!Offsets(v, desc) = T(T(T(T(T(T(o0, 1), 2), 3), 4), 5), 6).at
  BY DEF Envoy!Offsets, Envoy!Loop
<1>2. o0 \in O
  OBVIOUS
<1>3. ASSUME NEW o \in O, NEW i \in Envoy!Metric  PROVE T(o, i) \in O
  <2> DEFINE name == IF o.used > 0 THEN o.used + 1 ELSE 0
             l == Envoy!NameLen[i]
  <2>1. name \in Nat
    OBVIOUS
  <2>2. l \in Nat
    BY DEF Envoy!NameLen, Envoy!Metric
  <2>3. name + l + 1 + desc \in Nat /\ name + l \in Nat
    <3> HIDE DEF name, l
    <3> QED BY <2>1, <2>2
  <2>4. [used |-> name + l + 1 + desc, at |-> [o.at EXCEPT ![i] = name + l]] \in O
    BY <2>3
  <2> QED BY <2>4, Zenon DEF Envoy!Offset
<1> HIDE DEF T, o0, O
<1>4. T(o0, 1) \in O
  BY <1>2, <1>3 DEF Envoy!Metric
<1>5. T(T(o0, 1), 2) \in O
  BY <1>4, <1>3 DEF Envoy!Metric
<1>6. T(T(T(o0, 1), 2), 3) \in O
  BY <1>5, <1>3 DEF Envoy!Metric
<1>7. T(T(T(T(o0, 1), 2), 3), 4) \in O
  BY <1>6, <1>3 DEF Envoy!Metric
<1>8. T(T(T(T(T(o0, 1), 2), 3), 4), 5) \in O
  BY <1>7, <1>3 DEF Envoy!Metric
<1>9. T(T(T(T(T(T(o0, 1), 2), 3), 4), 5), 6) \in O
  BY <1>8, <1>3 DEF Envoy!Metric
<1> QED BY <1>1, <1>9 DEF O

(* Both templates fit, and what a host name makes is well formed.          *)
LEMMA SettingsAre ==
  ASSUME NEW h \in Envoy!Host
  PROVE  LET s == Envoy!Settings(h)
         IN /\ s \in Envoy!AllSettings /\ s.description \in 0 .. 520
            /\ \A v \in {1, 2} : s.templates[v].used \in 1 .. Envoy!TemplateRoom
<1> DEFINE desc == Envoy!DescriptionLen(h)
<1>1. desc \in Nat /\ desc <= 520
  BY ShortDescription
<1> HIDE DEF desc
<1>2. ASSUME NEW v \in {1, 2}
      PROVE  /\ Envoy!Template(desc, v) \in Envoy!Texts
             /\ Envoy!Template(desc, v).used \in 1 .. Envoy!TemplateRoom
  <2> DEFINE z == Envoy!Zeros(v)
             most == 1
  <2>1. z \in Digits
    <3>1. <<>> \in Seq(0 .. 9) /\ <<0>> \in Seq(0 .. 9)
      OBVIOUS
    <3> QED BY <3>1 DEF Envoy!Zeros, Digits
  <2>2. \A i \in Envoy!Metric : z[i] = <<>> \/ z[i] = <<0>>
    BY DEF Envoy!Zeros
  <2>3. z[1] # <<>>
    BY DEF Envoy!Zeros, Envoy!Metric
  <2>4. \A i \in Envoy!Metric : Len(z[i]) <= most
    <3>1. Len(<<>>) = 0 /\ Len(<<0>>) = 1
      OBVIOUS
    <3> HIDE DEF z
    <3>2. ASSUME NEW i \in Envoy!Metric  PROVE Len(z[i]) = 0 \/ Len(z[i]) = 1
      BY <2>2, <3>1
    <3>3. \A n : n = 0 \/ n = 1 => n <= most
      OBVIOUS
    <3> QED BY <3>2, <3>3
  <2>5. 6 * (12 + most + desc) <= Envoy!TemplateRoom /\ Envoy!TemplateRoom \in Nat
    BY <1>1 DEF Envoy!TemplateRoom
  <2>6. most \in Nat /\ most <= 13
    OBVIOUS
  <2> HIDE DEF z, most
  <2>7. /\ Envoy!FormatSlow(Envoy!TemplateRoom, desc, z) \in Envoy!Texts
        /\ Envoy!FormatSlow(Envoy!TemplateRoom, desc, z).used \in 1 .. 6 * (12 + most + desc)
    BY <1>1, <2>1, <2>3, <2>4, <2>5, <2>6, LoopFits
  <2>8. /\ Envoy!FormatSlow(Envoy!TemplateRoom, desc, z).used > 0
        /\ Envoy!FormatSlow(Envoy!TemplateRoom, desc, z).used \in 1 .. Envoy!TemplateRoom
    BY <1>1, <2>5, <2>6, <2>7
  <2> QED BY <2>7, <2>8 DEF Envoy!Template, z
<1>3. \A v \in {1, 2} : Envoy!Offsets(v, desc) \in [Envoy!Metric -> Nat]
  BY <1>1, OffsetsAre
<1> QED BY <1>1, <1>2, <1>3 DEF Envoy!Settings, Envoy!AllSettings, desc

(* A digit over another changes nothing else.                              *)
LEMMA PokeKeeps ==
  ASSUME NEW t \in Envoy!Texts, NEW pos \in Nat, NEW digit \in Seq(0 .. 9)
  PROVE  Envoy!Poke(t, pos, digit) \in Envoy!Texts /\ Envoy!Poke(t, pos, digit).used = t.used
<1>1. <<pos, "value", digit>> \in Payloads
  BY DEF Payloads, Envoy!Kinds
<1> DEFINE put == {p \in t.put : p[1] # pos} \cup {<<pos, "value", digit>>}
<1>2. put \in SUBSET Payloads
  BY <1>1 DEF Envoy!Texts, Payloads
<1>3. Envoy!Poke(t, pos, digit) = [t EXCEPT !.put = put]
  BY DEF Envoy!Poke
<1> HIDE DEF put
<1> QED BY <1>2, <1>3 DEF Envoy!Texts, Payloads

(* The durations have their digits, and the first is there.                *)
LEMMA TimingsAre ==
  ASSUME NEW d \in EnvoyIntervals
  PROVE  LET values == Envoy!Timings(d)
         IN /\ values \in Digits /\ values[1] # <<>>
            /\ \A i \in Envoy!Metric : Len(values[i]) <= 13
<1>1. /\ d[1] # None /\ d[1] >= 0 /\ d \in [Envoy!Metric -> Int \cup {None}]
      /\ \A i \in Envoy!Shown(d) :
           /\ EnvoyDecimal(d[i] \div Envoy!NanosPerMilli) \in Seq(0 .. 9)
           /\ Len(EnvoyDecimal(d[i] \div Envoy!NanosPerMilli)) \in 1 .. 13
  BY EnvoyAssumption
<1>2. \A i \in Envoy!Metric :
        \/ i \in Envoy!Shown(d)
           /\ Envoy!Timings(d)[i] = EnvoyDecimal(d[i] \div Envoy!NanosPerMilli)
        \/ Envoy!Timings(d)[i] = <<>> /\ i # 1
  <2> SUFFICES ASSUME NEW i \in Envoy!Metric
               PROVE  \/ /\ i \in Envoy!Shown(d)
                         /\ Envoy!Timings(d)[i] = EnvoyDecimal(d[i] \div Envoy!NanosPerMilli)
                      \/ Envoy!Timings(d)[i] = <<>> /\ i # 1
    OBVIOUS
  <2>1. CASE d[i] = None \/ d[i] < 0
    <3>1. i # 1
      <4>1. \A k \in Int : k >= 0 => ~(k < 0)
        OBVIOUS
      <4> QED BY <1>1, <2>1, <4>1 DEF Envoy!Metric
    <3> QED BY <2>1, <3>1 DEF Envoy!Timings
  <2>2. CASE ~(d[i] = None \/ d[i] < 0)
    <3>1. d[i] >= 0
      BY <1>1, <2>2
    <3> QED BY <2>2, <3>1 DEF Envoy!Timings, Envoy!Shown
  <2> QED BY <2>1, <2>2
<1>3. <<>> \in Seq(0 .. 9) /\ Len(<<>>) = 0
  OBVIOUS
<1>4. \A i \in Envoy!Metric : /\ Envoy!Timings(d)[i] \in Seq(0 .. 9)
                              /\ Len(Envoy!Timings(d)[i]) <= 13
                              /\ i = 1 => Len(Envoy!Timings(d)[i]) >= 1
  <2> SUFFICES ASSUME NEW i \in Envoy!Metric
               PROVE  /\ Envoy!Timings(d)[i] \in Seq(0 .. 9)
                      /\ Len(Envoy!Timings(d)[i]) <= 13
                      /\ i = 1 => Len(Envoy!Timings(d)[i]) >= 1
    OBVIOUS
  <2> DEFINE x == Envoy!Timings(d)[i]
             y == EnvoyDecimal(d[i] \div Envoy!NanosPerMilli)
  <2>1. CASE i \in Envoy!Shown(d) /\ x = y
    <3>1. y \in Seq(0 .. 9) /\ Len(y) \in 1 .. 13
      BY <1>1, <2>1
    <3> HIDE DEF x, y
    <3>2. x \in Seq(0 .. 9) /\ Len(x) \in 1 .. 13
      BY <2>1, <3>1
    <3>3. \A n \in 1 .. 13 : n <= 13 /\ n >= 1
      OBVIOUS
    <3>4. x \in Seq(0 .. 9) /\ Len(x) <= 13 /\ Len(x) >= 1
      BY <3>2, <3>3
    <3> QED BY <3>4 DEF x
  <2>2. CASE x = <<>> /\ i # 1
    <3> HIDE DEF x
    <3>1. x \in Seq(0 .. 9) /\ Len(x) <= 13
      BY <1>3, <2>2
    <3> QED BY <2>2, <3>1 DEF x
  <2> QED BY <1>2, <2>1, <2>2
<1>5. Envoy!Timings(d) = [i \in Envoy!Metric |-> Envoy!Timings(d)[i]]
  BY DEF Envoy!Timings
<1>6. 1 \in Envoy!Metric
  BY DEF Envoy!Metric
<1>7. Envoy!Timings(d)[1] # <<>>
  BY <1>3, <1>4, <1>6
<1> QED BY <1>4, <1>5, <1>7 DEF Digits

(* A template fits the output.                                             *)
LEMMA TemplateFits ==
  ASSUME NEW n, n \in 1 .. Envoy!TemplateRoom  PROVE n \in 1 .. Envoy!OutputRoom
BY DEF Envoy!TemplateRoom, Envoy!OutputRoom

(* Whichever path writes it, the field fits.                               *)
LEMMA FieldFits ==
  ASSUME NEW s \in Envoy!AllSettings, s.description <= 520,
         \A v \in {1, 2} : s.templates[v].used \in 1 .. Envoy!TemplateRoom,
         NEW values \in Digits, values[1] # <<>>,
         \A i \in Envoy!Metric : Len(values[i]) <= 13
  PROVE  LET t == Envoy!Format(s, values)
         IN t \in Envoy!Texts /\ t.used \in 1 .. Envoy!OutputRoom
<1> DEFINE variant == IF values[3] = <<>> THEN 2 ELSE 1
           T(t, i) == IF variant = 2 /\ i = 3 THEN t
                      ELSE Envoy!Poke(t, s.offsets[variant][i], values[i])
           t0 == s.templates[variant]
           t1 == T(t0, 1)
           t2 == T(t1, 2)
           t3 == T(t2, 3)
           t4 == T(t3, 4)
           t5 == T(t4, 5)
           t6 == T(t5, 6)
           desc == s.description
           slow == Envoy!FormatSlow(Envoy!OutputRoom, desc, values)
<1>1. Envoy!Format(s, values) \in {slow, t6}
  BY DEF Envoy!Format, Envoy!Loop
<1>2. desc \in Nat /\ desc <= 520
  BY DEF Envoy!AllSettings
<1>3. slow \in Envoy!Texts /\ slow.used \in 1 .. Envoy!OutputRoom
  <2> DEFINE most == 13
  <2>1. 6 * (12 + most + desc) <= Envoy!OutputRoom /\ Envoy!OutputRoom \in Nat
    BY <1>2 DEF Envoy!OutputRoom
  <2>2. most \in Nat /\ most <= 13 /\ \A i \in Envoy!Metric : Len(values[i]) <= most
    OBVIOUS
  <2> HIDE DEF most, desc
  <2>3. /\ Envoy!FormatSlow(Envoy!OutputRoom, desc, values) \in Envoy!Texts
        /\ Envoy!FormatSlow(Envoy!OutputRoom, desc, values).used
             \in 1 .. 6 * (12 + most + desc)
    BY <1>2, <2>1, <2>2, LoopFits
  <2> QED BY <1>2, <2>1, <2>2, <2>3
<1>4. variant \in {1, 2}
  OBVIOUS
<1>5. t0 \in Envoy!Texts /\ t0.used \in 1 .. Envoy!OutputRoom
  <2> HIDE DEF variant
  <2>1. t0 \in Envoy!Texts /\ t0.used \in 1 .. Envoy!TemplateRoom
    BY <1>4 DEF Envoy!AllSettings
  <2> QED BY <2>1, TemplateFits
<1>6. ASSUME NEW t \in Envoy!Texts, NEW i \in Envoy!Metric
      PROVE  T(t, i) \in Envoy!Texts /\ T(t, i).used = t.used
  <2>1. s.offsets[variant][i] \in Nat /\ values[i] \in Seq(0 .. 9)
    <3> HIDE DEF variant
    <3> QED BY <1>4 DEF Envoy!AllSettings, Digits
  <2> QED BY <2>1, PokeKeeps
<1> HIDE DEF T, t0
<1>7. t1 \in Envoy!Texts /\ t1.used = t0.used
  BY <1>5, <1>6 DEF Envoy!Metric
<1> HIDE DEF t1
<1>8. t2 \in Envoy!Texts /\ t2.used = t0.used
  BY <1>7, <1>6 DEF Envoy!Metric
<1> HIDE DEF t2
<1>9. t3 \in Envoy!Texts /\ t3.used = t0.used
  BY <1>8, <1>6 DEF Envoy!Metric
<1> HIDE DEF t3
<1>10. t4 \in Envoy!Texts /\ t4.used = t0.used
  BY <1>9, <1>6 DEF Envoy!Metric
<1> HIDE DEF t4
<1>11. t5 \in Envoy!Texts /\ t5.used = t0.used
  BY <1>10, <1>6 DEF Envoy!Metric
<1> HIDE DEF t5
<1>12. t6 \in Envoy!Texts /\ t6.used = t0.used
  BY <1>11, <1>6 DEF Envoy!Metric
<1> HIDE DEF t6, slow
<1>13. t6.used \in 1 .. Envoy!OutputRoom
  BY <1>5, <1>12
<1> QED BY <1>1, <1>3, <1>12, <1>13

(* A number in an interval of the output's bytes.                          *)
LEMMA InOutput ==
  ASSUME NEW n, n \in 1 .. Envoy!OutputRoom
  PROVE  n > 0 /\ n <= Envoy!OutputRoom
BY DEF Envoy!OutputRoom

(* What Envoy's program knows: the configuration is that of the host, and  *)
(* a field that was sent fits.                                             *)
EnvoyInv ==
  /\ envoyHost \in EnvoyHosts /\ envoyConfig \in {None, Envoy!Settings(envoyHost)}
  /\ envoySent # None =>
       /\ envoyConfig # None /\ envoySent.intervals \in EnvoyIntervals
       /\ envoySent.field \in Envoy!Texts /\ envoySent.field.used \in 1 .. Envoy!OutputRoom

(* Every step of the program keeps it.                                     *)
LEMMA EnvoyInvariance == Envoy!Spec => []EnvoyInv
<1>1. Envoy!Init => EnvoyInv
  BY DEF Envoy!Init, EnvoyInv
<1>2. EnvoyInv /\ [Envoy!Next]_(Envoy!vars) => EnvoyInv'
  <2> SUFFICES ASSUME EnvoyInv, [Envoy!Next]_(Envoy!vars)  PROVE EnvoyInv'
    OBVIOUS
  <2>1. envoyHost \in Envoy!Host
    BY EnvoyAssumption DEF EnvoyInv
  <2>2. CASE UNCHANGED Envoy!vars
    BY <2>2 DEF EnvoyInv, Envoy!vars
  <2>3. CASE Envoy!ProgramInit
    <3>1. envoyConfig' = Envoy!Settings(envoyHost) /\ envoySent = None
      BY <2>3 DEF Envoy!ProgramInit, EnvoyInv
    <3>2. envoyHost' = envoyHost /\ envoySent' = envoySent
      BY <2>3 DEF Envoy!ProgramInit
    <3> QED BY <3>1, <3>2 DEF EnvoyInv
  <2>4. CASE Envoy!StreamComplete
    BY <2>4 DEF Envoy!StreamComplete, EnvoyInv
  <2>5. ASSUME NEW d \in EnvoyIntervals, Envoy!ResponseHeaders(d)  PROVE EnvoyInv'
    <3> DEFINE t == Envoy!Format(envoyConfig, Envoy!Timings(d))
    <3>1. envoyConfig = Envoy!Settings(envoyHost) /\ envoyConfig # None
      BY <2>5 DEF Envoy!ResponseHeaders, EnvoyInv
    <3>2. /\ envoyConfig \in Envoy!AllSettings /\ envoyConfig.description \in 0 .. 520
          /\ \A v \in {1, 2} : envoyConfig.templates[v].used \in 1 .. Envoy!TemplateRoom
      BY <2>1, <3>1, SettingsAre
    <3>3. /\ Envoy!Timings(d) \in Digits /\ Envoy!Timings(d)[1] # <<>>
          /\ \A i \in Envoy!Metric : Len(Envoy!Timings(d)[i]) <= 13
      BY TimingsAre
    <3>4. envoyConfig.description <= 520
      BY <3>2
    <3>5. t \in Envoy!Texts /\ t.used \in 1 .. Envoy!OutputRoom
      BY <3>2, <3>3, <3>4, FieldFits
    <3>6. t.used > 0
      BY <3>5, InOutput
    <3>7. envoySent' = [intervals |-> d, field |-> IF t.used > 0 THEN t ELSE None]
      BY <2>5 DEF Envoy!ResponseHeaders
    <3>8. envoyHost' = envoyHost /\ envoyConfig' = envoyConfig
      BY <2>5 DEF Envoy!ResponseHeaders
    <3> HIDE DEF t
    <3> QED BY <3>1, <3>5, <3>6, <3>7, <3>8 DEF EnvoyInv
  <2> QED BY <2>2, <2>3, <2>4, <2>5 DEF Envoy!Next
<1> QED BY <1>1, <1>2, PTL DEF Envoy!Spec

(* With it the description, the templates and the field fit.               *)
LEMMA EnvoyFits == EnvoyInv => Envoy!TypeOK /\ Envoy!EverythingFits
<1> SUFFICES ASSUME EnvoyInv  PROVE Envoy!TypeOK /\ Envoy!EverythingFits
  OBVIOUS
<1>1. envoyHost \in EnvoyHosts /\ envoyHost \in Envoy!Host
  BY EnvoyAssumption DEF EnvoyInv
<1>2. envoyConfig # None =>
        /\ envoyConfig \in Envoy!AllSettings /\ envoyConfig.description \in 0 .. 520
        /\ \A v \in {1, 2} : envoyConfig.templates[v].used \in 1 .. Envoy!TemplateRoom
  BY <1>1, SettingsAre DEF EnvoyInv
<1>3. envoyConfig # None => /\ envoyConfig.description \in Nat
                            /\ envoyConfig.description <= Envoy!DescriptionRoom
                            /\ \A v \in {1, 2}, i \in Envoy!Metric :
                                 envoyConfig.offsets[v][i] \in Nat
  BY <1>2 DEF Envoy!AllSettings, Envoy!DescriptionRoom
<1>4. envoySent # None =>
        /\ envoyConfig # None /\ envoySent.intervals \in EnvoyIntervals
        /\ envoySent.field \in Envoy!Texts /\ envoySent.field # None
        /\ envoySent.field.used <= Envoy!OutputRoom
  BY EnvoyAssumption, InOutput DEF EnvoyInv
<1>5. envoySent # None =>
        \A p \in envoySent.field.put : p[1] \in Nat /\ p[3] \in Seq(0 .. 9)
  BY <1>4 DEF Envoy!Texts
<1> QED BY <1>1, <1>2, <1>3, <1>4, <1>5 DEF Envoy!TypeOK, Envoy!EverythingFits

-----------------------------------------------------------------------------
(* A buffer of nginx's module.                                             *)
Text(t) == DOMAIN t = {"capacity", "used", "put"} /\ t.capacity \in Nat /\ t.used \in Nat

(* What is put makes the text as much longer.                              *)
LEMMA PutIs ==
  ASSUME NEW t, Text(t), NEW size \in Nat, NEW kind, NEW payload
  PROVE  LET p == Nginx!Put(t, size, kind, payload)
         IN Text(p) /\ p.used = t.used + size /\ p.capacity = t.capacity
BY DEF Text, Nginx!Put

(* At most 78 bytes and the description for a metric.                      *)
LEMMA MetricAdds ==
  ASSUME NEW t, Text(t), NEW d \in Nat, d >= 8, NEW s, NEW i, NEW name,
         NEW time \in NginxTimes \cup {0, Nginx!NoTime},
         Nginx!AttemptNumber(s, i) \in 0 .. MaxStates
  PROVE  LET m == Nginx!Metric(t, d, s, i, name, time)
         IN Text(m) /\ m.used <= t.used + 78 + d /\ m.capacity = t.capacity
<1> DEFINE n == Nginx!AttemptNumber(s, i)
           t1 == Nginx!Put(t, Nginx!UpstreamName, name, <<>>)
           t2 == Nginx!Number(t1, time)
<1>1. CASE time = Nginx!NoTime
  BY <1>1 DEF Nginx!Metric, Text
<1>2. CASE time # Nginx!NoTime
  <2>1. Len(NginxDecimal(time)) \in 1 .. 20 /\ Len(NginxDecimal(n)) \in 1 .. 20
    BY <1>2, NginxAssumption
  <2> DEFINE l == Len(NginxDecimal(time))
             k == Len(NginxDecimal(n))
  <2>2. Nginx!UpstreamName = 29 /\ Nginx!AttemptWord = 9
    BY DEF Nginx!UpstreamName, Nginx!AttemptWord
  <2> HIDE DEF l, k, n
  <2>3. Text(t1) /\ t1.used = t.used + 29 /\ t1.capacity = t.capacity
    BY <2>2, PutIs
  <2> HIDE DEF t1
  <2>4. l \in Nat /\ k \in Nat /\ l <= 20 /\ k <= 20
    <3>1. \A x \in 1 .. 20 : x \in Nat /\ x <= 20
      OBVIOUS
    <3> QED BY <2>1, <3>1 DEF l, k
  <2>5. Text(t2) /\ t2.used = t1.used + l /\ t2.capacity = t1.capacity
    BY <2>3, <2>4, PutIs DEF Nginx!Number, l
  <2> HIDE DEF t2
  <2> DEFINE t3 == Nginx!Description(t2, d)
             t4 == Nginx!Attempt(t2, d, n)
  <2>6. Text(t3) /\ t3.used = t2.used + d /\ t3.capacity = t2.capacity
    BY <2>5, PutIs DEF Nginx!Description
  <2>7. Text(t4) /\ t4.used = t2.used + (d - 1 + 9 + k + 1) /\ t4.capacity = t2.capacity
    <3>1. d - 1 + Nginx!AttemptWord + k + 1 \in Nat
      BY <2>2, <2>4
    <3> QED BY <2>2, <2>5, <3>1, PutIs DEF Nginx!Attempt, k
  <2>8. Nginx!Metric(t, d, s, i, name, time) \in {t3, t4}
    BY <1>2 DEF Nginx!Metric, t1, t2, n
  <2> HIDE DEF t3, t4
  <2>9. t3.used <= t.used + 78 + d /\ t4.used <= t.used + 78 + d
    BY <2>3, <2>4, <2>5, <2>6, <2>7 DEF Text
  <2> QED BY <2>3, <2>5, <2>6, <2>7, <2>8, <2>9
<1> QED BY <1>1, <1>2

(* What nginx leaves of an attempt.                                        *)
State == [peer : BOOLEAN, connect_time : NginxTimes \cup {0, Nginx!NoTime},
          header_time : NginxTimes \cup {0, Nginx!NoTime}]

(* The number of an attempt is at most that of the states.                 *)
LEMMA NumberIs ==
  ASSUME NEW s \in Seq(State), Len(s) <= MaxStates, NEW i \in 1 .. Len(s)
  PROVE  Nginx!AttemptNumber(s, i) \in 0 .. MaxStates
<1> DEFINE K == {k \in 1 .. i : s[k].peer}
<1>1. /\ IsFiniteSet(1 .. i) /\ Cardinality(1 .. i) = i
      /\ i \in Nat /\ i <= Len(s) /\ Len(s) \in Nat /\ MaxStates \in Nat
  <2>1. i \in Nat /\ i <= Len(s) /\ Len(s) \in Nat /\ 1 \in Int /\ i \in Int
    OBVIOUS
  <2>2. IsFiniteSet(1 .. i) /\ Cardinality(1 .. i) = i
    BY <2>1, FS_Interval
  <2>3. MaxStates \in Nat
    BY NginxAssumption
  <2> QED BY <2>1, <2>2, <2>3
<1>2. K \in SUBSET (1 .. i)
  OBVIOUS
<1>3. IsFiniteSet(K) /\ Cardinality(K) <= i /\ Cardinality(K) \in Nat
  BY <1>1, <1>2, FS_Subset, FS_CardinalityType
<1>4. Nginx!AttemptNumber(s, i) = Cardinality(K)
  BY DEF Nginx!AttemptNumber, Nginx!Cardinality, Cardinality
<1> HIDE DEF K
<1> QED BY <1>1, <1>3, <1>4

(* A state has two metrics at most, and less than the room kept for it.    *)
LEMMA TurnAdds ==
  ASSUME NEW s \in Seq(State), Len(s) <= MaxStates, NEW i \in 1 .. Len(s),
         NEW t, Text(t), NEW d \in Nat, d >= 8
  PROVE  LET m == Nginx!Turn(t, d, s, i)
         IN Text(m) /\ m.used <= t.used + (256 + 2 * d) /\ m.capacity = t.capacity
<1>1. Nginx!AttemptNumber(s, i) \in 0 .. MaxStates
  BY NumberIs
<1>2. /\ s[i].connect_time \in NginxTimes \cup {0, Nginx!NoTime}
      /\ s[i].header_time \in NginxTimes \cup {0, Nginx!NoTime}
  <2>1. s[i] \in State
    OBVIOUS
  <2> QED BY <2>1 DEF State
<1> DEFINE m1 == Nginx!Metric(t, d, s, i, "connect", s[i].connect_time)
           m2 == Nginx!Metric(m1, d, s, i, "header", s[i].header_time)
<1>3. Text(m1) /\ m1.used <= t.used + 78 + d /\ m1.capacity = t.capacity
  BY <1>1, <1>2, MetricAdds, SMTT(30)
<1> HIDE DEF m1
<1>4. Text(m2) /\ m2.used <= m1.used + 78 + d /\ m2.capacity = m1.capacity
  BY <1>1, <1>2, <1>3, MetricAdds
<1>5. Nginx!Turn(t, d, s, i) \in {t, m2}
  BY DEF Nginx!Turn, m1
<1> HIDE DEF m2
<1>6. m2.used <= t.used + (256 + 2 * d) /\ t.used <= t.used + (256 + 2 * d)
  BY <1>3, <1>4 DEF Text
<1> QED BY <1>3, <1>4, <1>5, <1>6

(* What holds of 0 and goes from each number to the next holds up to any.  *)
LEMMA UpTo ==
  ASSUME NEW T, 0 \in T, NEW most \in Nat, \A n \in 0 .. most - 1 : n \in T => n + 1 \in T
  PROVE  \A n \in 0 .. most : n \in T
<1> DEFINE C == (0 .. most) \ T
<1> SUFFICES ASSUME C # {}  PROVE FALSE
  OBVIOUS
<1>1. C \in SUBSET Nat
  OBVIOUS
<1>2. PICK n \in C : \A m \in C : <<m, n>> \notin OpToRel(<, Nat)
  <2> HIDE DEF C
  <2> QED BY <1>1, NatLessThanWellFounded, WFMin
<1>3. n # 0 /\ n \in 0 .. most /\ n \notin T
  BY <1>2
<1>4. n - 1 \in 0 .. most - 1 /\ (n - 1) + 1 = n
  BY <1>3
<1>5. n - 1 \notin T
  BY <1>3, <1>4
<1>6. n - 1 \in C
  BY <1>4, <1>5
<1>7. <<n - 1, n>> \in OpToRel(<, Nat)
  BY <1>1, <1>3, <1>4 DEF OpToRel
<1> QED BY <1>2, <1>6, <1>7

(* The general form's text after each state.                               *)
TextsOf(after, d, s, elapsed) ==
  /\ after[0] = Nginx!Headers(d, s, elapsed)
  /\ \A i \in 1 .. Len(s) : after[i] = Nginx!Turn(after[i - 1], d, s, i)
  /\ Nginx!General(d, s, elapsed) = after[Len(s)]

(* There is one, whatever the states.                                      *)
LEMMA GeneralIs ==
  ASSUME NEW s \in Seq(State), NEW d, NEW elapsed
  PROVE  \E after : TextsOf(after, d, s, elapsed)
<1> DEFINE count == Len(s)
           zeroth == Nginx!Headers(d, s, elapsed)
           Rest(f, i) == Nginx!Turn(f[i - 1], d, s, i)
           Is(f, m) == f = [i \in 0 .. m |-> IF i = 0 THEN zeroth ELSE Rest(f, i)]
           after == CHOOSE f : Is(f, count)
<1>1. count \in Nat
  OBVIOUS
<1>2. Nginx!General(d, s, elapsed) = after[count]
  BY DEF Nginx!General
<1> HIDE DEF zeroth
<1>3. \E f : Is(f, count)
  <2> DEFINE T == {m \in 0 .. count : \E f : Is(f, m)}
  <2>1. 0 \in T
    <3> DEFINE f == [i \in 0 .. 0 |-> zeroth]
    <3>1. ASSUME NEW i \in 0 .. 0  PROVE f[i] = IF i = 0 THEN zeroth ELSE Rest(f, i)
      <4>1. i = 0
        OBVIOUS
      <4> QED BY <4>1
    <3>2. Is(f, 0)
      BY <3>1
    <3> HIDE DEF f, Is
    <3>3. \E g : Is(g, 0)
      BY <3>2
    <3> QED BY <1>1, <3>3
  <2>2. ASSUME NEW m \in 0 .. count - 1, m \in T  PROVE m + 1 \in T
    <3>1. PICK f : Is(f, m)
      BY <2>2
    <3> DEFINE g == [i \in 0 .. m + 1 |-> IF i <= m THEN f[i] ELSE Rest(f, m + 1)]
    <3>2. Is(g, m + 1)
      <4>1. ASSUME NEW i \in 0 .. m + 1
            PROVE  g[i] = IF i = 0 THEN zeroth ELSE Rest(g, i)
        <5>1. CASE i = 0
          BY <3>1, <5>1
        <5>2. CASE i \in 1 .. m
          <6>1. f[i] = Rest(f, i) /\ g[i - 1] = f[i - 1] /\ g[i] = f[i]
            BY <3>1, <5>2
          <6> QED BY <5>2, <6>1
        <5>3. CASE i = m + 1
          <6>1. g[m] = f[m] /\ (m + 1) - 1 = m
            OBVIOUS
          <6> QED BY <5>3, <6>1
        <5> QED BY <5>1, <5>2, <5>3
      <4> QED BY <4>1
    <3>3. m + 1 \in 0 .. count
      BY <1>1
    <3> QED BY <3>2, <3>3
  <2> HIDE DEF T
  <2>3. \A n \in 0 .. count : n \in T
    BY <1>1, <2>1, <2>2, UpTo
  <2>4. count \in T
    BY <1>1, <2>3
  <2> QED BY <2>4 DEF T
<1>4. Is(after, count)
  BY <1>3
<1>5. after[0] = zeroth /\ \A i \in 1 .. count : after[i] = Nginx!Turn(after[i - 1], d, s, i)
  <2> HIDE DEF after
  <2> QED BY <1>1, <1>4
<1> HIDE DEF after, Is, Rest
<1>6. TextsOf(after, d, s, elapsed)
  BY <1>2, <1>5 DEF zeroth, TextsOf
<1> QED BY <1>6

(* The general form never fills more than what it asked for.               *)
LEMMA GeneralFits ==
  ASSUME NEW s \in Seq(State), Len(s) <= MaxStates, NEW d \in Nat, d >= 8,
         NEW elapsed \in NginxTimes \cup {0}
  PROVE  LET t == Nginx!General(d, s, elapsed)
         IN t.used <= t.capacity
<1> DEFINE step == 256 + 2 * d
           count == Len(s)
           head == Nginx!Headers(d, s, elapsed)
<1>1. count \in Nat /\ step \in Nat
  OBVIOUS
<1>2. PICK after : TextsOf(after, d, s, elapsed)
  BY GeneralIs
<1>3. /\ after[0] = head
      /\ \A i \in 1 .. count : after[i] = Nginx!Turn(after[i - 1], d, s, i)
      /\ Nginx!General(d, s, elapsed) = after[count]
  BY <1>2 DEF TextsOf
<1>4. /\ Text(head) /\ head.used <= 38 + d
      /\ head.capacity = 96 + d + count * step
  <2> DEFINE b0 == Nginx!Buffer(Nginx!Capacity(d, Len(s)))
             b1 == Nginx!Put(b0, Nginx!HeadersName, "headers", <<>>)
             b2 == Nginx!Number(b1, elapsed)
             l == Len(NginxDecimal(elapsed))
             c == Nginx!Capacity(d, Len(s))
  <2>1. c = 96 + d + count * step /\ c \in Nat
    <3>1. count * step \in Nat
      BY <1>1
    <3>2. c = 96 + d + count * step
      BY DEF Nginx!Capacity
    <3> HIDE DEF count, step, c
    <3> QED BY <3>1, <3>2
  <2> HIDE DEF c
  <2>2. Text(b0) /\ b0.used = 0 /\ b0.capacity = c
    BY <2>1 DEF Nginx!Buffer, Text, c
  <2> HIDE DEF b0
  <2>3. Text(b1) /\ b1.used = 18 /\ b1.capacity = c
    <3>1. Nginx!HeadersName = 18
      BY DEF Nginx!HeadersName
    <3> QED BY <2>2, <3>1, PutIs
  <2> HIDE DEF b1
  <2>4. l \in 1 .. 20
    BY NginxAssumption
  <2> HIDE DEF l
  <2>5. l \in Nat /\ l <= 20
    BY <2>4
  <2>6. Text(b2) /\ b2.used = 18 + l /\ b2.capacity = c
    BY <2>3, <2>5, PutIs DEF Nginx!Number, l
  <2>7. head = Nginx!Description(b2, d)
    BY DEF Nginx!Headers, b1, b0
  <2> HIDE DEF b2
  <2>8. Text(head) /\ head.used = 18 + l + d /\ head.capacity = c
    BY <2>6, <2>7, PutIs DEF Nginx!Description
  <2> HIDE DEF head
  <2> QED BY <2>1, <2>5, <2>8
<1> HIDE DEF head
<1>5. \A n \in 0 .. count : /\ Text(after[n]) /\ after[n].used <= 38 + d + n * step
                            /\ after[n].capacity = head.capacity
  <2> DEFINE T == {n \in 0 .. count : /\ Text(after[n]) /\ after[n].used <= 38 + d + n * step
                                      /\ after[n].capacity = head.capacity}
  <2>1. 0 \in T
    <3>1. 0 * step = 0
      BY <1>1
    <3> HIDE DEF step
    <3> QED BY <1>1, <1>3, <1>4, <3>1
  <2>2. ASSUME NEW n \in 0 .. count - 1, n \in T  PROVE n + 1 \in T
    <3>1. n + 1 \in 1 .. count /\ (n + 1) - 1 = n /\ n \in Nat
      BY <1>1
    <3>2. after[n + 1] = Nginx!Turn(after[n], d, s, n + 1)
      BY <1>3, <3>1
    <3>3. Text(after[n])
      BY <2>2
    <3>4. /\ Text(after[n + 1]) /\ after[n + 1].used <= after[n].used + step
          /\ after[n + 1].capacity = after[n].capacity
      BY <3>1, <3>2, <3>3, TurnAdds, SMTT(30)
    <3> HIDE DEF step
    <3>5. (n + 1) * step = n * step + step /\ n * step \in Nat
      BY <1>1, <3>1
    <3>6. after[n + 1].used <= 38 + d + (n + 1) * step
      BY <1>1, <2>2, <3>3, <3>4, <3>5 DEF Text
    <3> QED BY <2>2, <3>1, <3>4, <3>6
  <2> HIDE DEF T
  <2>3. \A n \in 0 .. count : n \in T
    BY <1>1, <2>1, <2>2, UpTo
  <2> QED BY <2>3 DEF T
<1>6. after[count].used <= 38 + d + count * step /\ Text(after[count])
      /\ after[count].capacity = 96 + d + count * step
  <2> HIDE DEF count, step, head
  <2>1. count \in 0 .. count
    BY <1>1
  <2>2. /\ Text(after[count]) /\ after[count].used <= 38 + d + count * step
        /\ after[count].capacity = head.capacity
    BY <1>5, <2>1
  <2> QED BY <1>4, <2>2
<1>7. count * step \in Nat
  BY <1>1
<1> HIDE DEF count, step
<1>8. after[count].used <= after[count].capacity
  BY <1>6, <1>7 DEF Text
<1> QED BY <1>3, <1>8

(* The description, the label of the first attempt and the template fit.   *)
LEMMA ConfigFits ==
  ASSUME NEW h \in [plain : Nat, escaped : Nat, control : Nat]
  PROVE  LET c == Nginx!InitConfig(h)
         IN /\ c.description \in Nat /\ c.description >= 8
            /\ c.description <= Nginx!DescriptionRoom(h)
            /\ c.attempt_one.used <= c.attempt_one.capacity
            /\ Text(c.fast) /\ c.fast.used <= c.fast.capacity
<1> DEFINE d == Nginx!DescriptionLen(h)
           p == h.plain
           e == h.escaped
           k == h.control
<1>1. p \in Nat /\ e \in Nat /\ k \in Nat
  OBVIOUS
<1>2. d = 7 + p + 2 * e + 1 /\ Nginx!DescriptionRoom(h) = 2 * (p + e + k) + 32
  BY DEF Nginx!DescriptionLen, Nginx!DescriptionRoom
<1> HIDE DEF d, p, e, k
<1>3. d \in Nat /\ d >= 8 /\ d <= Nginx!DescriptionRoom(h)
  BY <1>1, <1>2
<1> DEFINE b == Nginx!Buffer(d + 10)
           one == Nginx!Put(b, d - 1 + 11, "attempt", NginxDecimal(1))
<1>4. one.used <= one.capacity
  <2>1. Text(b) /\ b.used = 0 /\ b.capacity = d + 10
    BY <1>3 DEF Nginx!Buffer, Text
  <2>2. d - 1 + 11 \in Nat /\ d - 1 + 11 = d + 10
    BY <1>3
  <2> HIDE DEF b
  <2>3. one.used = b.used + (d - 1 + 11) /\ one.capacity = b.capacity
    BY <2>1, <2>2, PutIs
  <2> HIDE DEF one
  <2> QED BY <1>3, <2>1, <2>2, <2>3
<1> DEFINE f0 == Nginx!Buffer(128 + 3 * d)
           t1 == Nginx!Put(f0, Nginx!HeadersName, "headers", <<>>)
           z1 == Nginx!Zero(t1)
           e1 == Nginx!Description(z1, d)
           t2 == Nginx!Put(e1, Nginx!UpstreamName, "connect", <<>>)
           z2 == Nginx!Zero(t2)
           e2 == Nginx!Description(z2, d)
           t3 == Nginx!Put(e2, Nginx!UpstreamName, "header", <<>>)
           z3 == Nginx!Zero(t3)
           fast == Nginx!Description(z3, d)
<1>5. Nginx!HeadersName = 18 /\ Nginx!UpstreamName = 29
  BY DEF Nginx!HeadersName, Nginx!UpstreamName
<1>6. ASSUME NEW t, Text(t)
      PROVE  /\ Text(Nginx!Zero(t)) /\ Nginx!Zero(t).used = t.used + 1
             /\ Nginx!Zero(t).capacity = t.capacity
             /\ Text(Nginx!Description(t, d)) /\ Nginx!Description(t, d).used = t.used + d
             /\ Nginx!Description(t, d).capacity = t.capacity
  BY <1>3, <1>6, PutIs DEF Nginx!Zero, Nginx!Description
<1>7. Nginx!InitConfig(h).description = d /\ Nginx!InitConfig(h).attempt_one = one
      /\ Nginx!InitConfig(h).fast = fast
  BY DEF Nginx!InitConfig, d
<1> DEFINE cap == 128 + 3 * d
<1>8. cap \in Nat /\ cap >= 79 + 3 * d
  BY <1>3
<1>9. Text(f0) /\ f0.used = 0 /\ f0.capacity = cap
  BY <1>8 DEF Nginx!Buffer, Text
<1> HIDE DEF f0, cap
<1>10. Text(t1) /\ t1.used = 18 /\ t1.capacity = cap
  BY <1>5, <1>9, PutIs
<1> HIDE DEF t1
<1>11. Text(z1) /\ z1.used = 19 /\ z1.capacity = cap
  BY <1>6, <1>10
<1> HIDE DEF z1
<1>12. Text(e1) /\ e1.used = 19 + d /\ e1.capacity = cap
  BY <1>6, <1>11
<1> HIDE DEF e1
<1>13. Text(t2) /\ t2.used = 48 + d /\ t2.capacity = cap
  BY <1>3, <1>5, <1>12, PutIs
<1> HIDE DEF t2
<1>14. Text(z2) /\ z2.used = 49 + d /\ z2.capacity = cap
  BY <1>3, <1>6, <1>13
<1> HIDE DEF z2
<1>15. Text(e2) /\ e2.used = 49 + 2 * d /\ e2.capacity = cap
  <2>1. Text(e2) /\ e2.used = z2.used + d /\ e2.capacity = cap
    BY <1>6, <1>14
  <2> HIDE DEF e2
  <2> QED BY <1>3, <1>14, <2>1
<1> HIDE DEF e2
<1>16. Text(t3) /\ t3.used = 78 + 2 * d /\ t3.capacity = cap
  BY <1>3, <1>5, <1>15, PutIs
<1> HIDE DEF t3
<1>17. Text(z3) /\ z3.used = 79 + 2 * d /\ z3.capacity = cap
  BY <1>3, <1>6, <1>16
<1> HIDE DEF z3
<1>18. Text(fast) /\ fast.used = 79 + 3 * d /\ fast.capacity = cap
  BY <1>3, <1>6, <1>17
<1> HIDE DEF fast, one
<1> QED BY <1>3, <1>4, <1>7, <1>8, <1>18

(* Whichever path writes it, the field fits its buffer.                    *)
LEMMA NginxFieldFits ==
  ASSUME NEW h \in [plain : Nat, escaped : Nat, control : Nat],
         NEW s \in Seq(State), Len(s) <= MaxStates, NEW elapsed \in NginxTimes \cup {0}
  PROVE  LET t == Nginx!Field(Nginx!InitConfig(h), s, elapsed)
         IN t.used <= t.capacity
<1> DEFINE c == Nginx!InitConfig(h)
           P(t, pos, n) == Nginx!Poke(t, pos, n)
           p1 == P(c.fast, c.digits[1], elapsed)
           p2 == P(p1, c.digits[2], s[1].connect_time)
           p3 == P(p2, c.digits[3], s[1].header_time)
           general == Nginx!General(c.description, s, elapsed)
<1>1. Nginx!Field(c, s, elapsed) \in {p3, general}
  BY DEF Nginx!Field
<1>2. /\ c.description \in Nat /\ c.description >= 8
      /\ Text(c.fast) /\ c.fast.used <= c.fast.capacity
  BY ConfigFits
<1> HIDE DEF c
<1>3. ASSUME NEW t, Text(t), NEW pos, NEW n
      PROVE  Text(P(t, pos, n)) /\ P(t, pos, n).used = t.used
             /\ P(t, pos, n).capacity = t.capacity
  <2> DEFINE at == {k \in DOMAIN t.put : t.put[k][1] = pos}
             put == IF at = {} THEN Append(t.put, <<pos, "value", <<n>>>>)
                    ELSE [k \in DOMAIN t.put |-> IF k \in at THEN <<pos, "value", <<n>>>>
                                                 ELSE t.put[k]]
  <2>1. P(t, pos, n) = [t EXCEPT !.put = put]
    BY <1>3 DEF Nginx!Poke, Text
  <2> HIDE DEF put
  <2> QED BY <1>3, <2>1 DEF Text
<1>4. general.used <= general.capacity
  BY <1>2, GeneralFits
<1> HIDE DEF P, general
<1>5. Text(p1) /\ p1.used <= p1.capacity
  BY <1>2, <1>3
<1> HIDE DEF p1
<1>6. Text(p2) /\ p2.used <= p2.capacity
  BY <1>3, <1>5
<1> HIDE DEF p2
<1>7. p3.used <= p3.capacity
  BY <1>3, <1>6
<1> HIDE DEF p3
<1> QED BY <1>1, <1>4, <1>7 DEF c

(* What nginx's module knows: the configuration is that of the host, what  *)
(* nginx left on the request is of its types, a field that was sent fits.  *)
NginxInv ==
  /\ nginxHost \in NginxHosts
  /\ nginxConfig \in {Nginx!Unset, Nginx!InitConfig(nginxHost)}
  /\ nginxStates \in Seq(State) /\ Len(nginxStates) <= MaxStates
  /\ nginxSent # Nginx!Unset => nginxSent.field.used <= nginxSent.field.capacity

(* Every step of nginx and of the module keeps it.                         *)
LEMMA NginxInvariance == Nginx!Spec => []NginxInv
<1>1. Nginx!Init => NginxInv
  BY NginxAssumption DEF Nginx!Init, NginxInv
<1>2. NginxInv /\ [Nginx!Next]_(Nginx!vars) => NginxInv'
  <2> SUFFICES ASSUME NginxInv, [Nginx!Next]_(Nginx!vars)  PROVE NginxInv'
    OBVIOUS
  <2>1. /\ nginxHost \in [plain : Nat, escaped : Nat, control : Nat]
        /\ MaxStates \in Nat /\ nginxStates \in Seq(State) /\ Len(nginxStates) \in Nat
        /\ Len(nginxStates) <= MaxStates
    BY NginxAssumption DEF NginxInv
  <2>2. CASE UNCHANGED Nginx!vars
    BY <2>2 DEF NginxInv, Nginx!vars
  <2>3. CASE Nginx!InitModule
    BY <2>3 DEF Nginx!InitModule, NginxInv
  <2>4. ASSUME NEW r \in State, nginxStates' = Append(nginxStates, r),
               Len(nginxStates) < MaxStates, UNCHANGED <<nginxHost, nginxConfig, nginxSent>>
        PROVE  NginxInv'
    <3>1. nginxStates' \in Seq(State) /\ Len(nginxStates') = Len(nginxStates) + 1
      BY <2>1, <2>4
    <3>2. Len(nginxStates') <= MaxStates
      BY <2>1, <2>4, <3>1
    <3> QED BY <2>4, <3>1, <3>2 DEF NginxInv
  <2>5. CASE Nginx!Connect
    <3> DEFINE r == [peer |-> TRUE, connect_time |-> Nginx!NoTime,
                     header_time |-> Nginx!NoTime]
    <3>1. r \in State
      BY DEF State
    <3>2. nginxStates' = Append(nginxStates, r) /\ Len(nginxStates) < MaxStates
          /\ UNCHANGED <<nginxHost, nginxConfig, nginxSent>>
      BY <2>5 DEF Nginx!Connect
    <3> QED BY <2>4, <3>1, <3>2
  <2>6. ASSUME NEW t \in {0, Nginx!NoTime}, Nginx!NoPeer(t)  PROVE NginxInv'
    <3> DEFINE r == [peer |-> FALSE, connect_time |-> t, header_time |-> t]
    <3>1. r \in State
      BY DEF State
    <3>2. nginxStates' = Append(nginxStates, r) /\ Len(nginxStates) < MaxStates
          /\ UNCHANGED <<nginxHost, nginxConfig, nginxSent>>
      BY <2>6 DEF Nginx!NoPeer
    <3> QED BY <2>4, <3>1, <3>2
  <2>7. ASSUME NEW r \in State, nginxStates # <<>>,
               nginxStates' = [nginxStates EXCEPT ![Len(nginxStates)] = r],
               UNCHANGED <<nginxHost, nginxConfig, nginxSent>>
        PROVE  NginxInv'
    <3>1. nginxStates' \in Seq(State) /\ Len(nginxStates') = Len(nginxStates)
      BY <2>1, <2>7
    <3> QED BY <2>1, <2>7, <3>1 DEF NginxInv
  <2>8. nginxStates # <<>> => nginxStates[Len(nginxStates)] \in State
    <3>1. nginxStates # <<>> => Len(nginxStates) # 0
      BY <2>1
    <3>2. nginxStates # <<>> => Len(nginxStates) \in 1 .. Len(nginxStates)
      BY <2>1, <3>1
    <3> QED BY <2>1, <3>2
  <2>9. ASSUME NEW t \in NginxTimes, Nginx!Connected(t) \/ Nginx!HeaderRead(t)
        PROVE  NginxInv'
    <3> DEFINE l == nginxStates[Len(nginxStates)]
    <3>1. nginxStates # <<>> /\ UNCHANGED <<nginxHost, nginxConfig, nginxSent>>
      BY <2>9 DEF Nginx!Connected, Nginx!HeaderRead
    <3>2. l \in State
      BY <2>8, <3>1
    <3>3. \/ nginxStates' = [nginxStates EXCEPT ![Len(nginxStates)] =
                               [l EXCEPT !.connect_time = t]]
          \/ nginxStates' = [nginxStates EXCEPT ![Len(nginxStates)] =
                               [l EXCEPT !.header_time = t]]
      BY <2>9 DEF Nginx!Connected, Nginx!HeaderRead
    <3> HIDE DEF l
    <3>4. [l EXCEPT !.connect_time = t] \in State /\ [l EXCEPT !.header_time = t] \in State
      BY <3>2 DEF State
    <3> QED BY <2>7, <3>1, <3>3, <3>4
  <2>10. ASSUME NEW n \in NginxTimes \cup {-1}, Nginx!SendHeader(n)  PROVE NginxInv'
    <3> DEFINE e == Nginx!Elapsed(n)
               t == Nginx!Field(nginxConfig, nginxStates, e)
    <3>1. e \in NginxTimes \cup {0}
      BY NginxAssumption DEF Nginx!Elapsed
    <3>2. nginxConfig = Nginx!InitConfig(nginxHost)
      BY <2>10 DEF Nginx!SendHeader, Nginx!Serving, NginxInv
    <3>3. nginxSent' = [elapsed |-> n, field |-> t]
          /\ UNCHANGED <<nginxHost, nginxConfig, nginxStates>>
      BY <2>10 DEF Nginx!SendHeader
    <3> HIDE DEF e
    <3>4. t.used <= t.capacity
      BY <2>1, <3>1, <3>2, NginxFieldFits
    <3> HIDE DEF t
    <3> QED BY <3>3, <3>4 DEF NginxInv
  <2>11. CASE Nginx!Finish
    <3>1. /\ nginxStates' = <<>> /\ nginxSent' = Nginx!Unset
          /\ UNCHANGED <<nginxHost, nginxConfig>>
      BY <2>11 DEF Nginx!Finish
    <3>2. <<>> \in Seq(State) /\ Len(<<>>) <= MaxStates
      BY <2>1
    <3> QED BY <3>1, <3>2 DEF NginxInv
  <2> QED BY <2>2, <2>3, <2>5, <2>6, <2>9, <2>10, <2>11 DEF Nginx!Next
<1> QED BY <1>1, <1>2, PTL DEF Nginx!Spec

(* With it no buffer is written past its end.                              *)
LEMMA NginxFits == NginxInv => Nginx!WithinBuffers
<1> SUFFICES ASSUME NginxInv  PROVE Nginx!WithinBuffers
  OBVIOUS
<1>1. nginxHost \in [plain : Nat, escaped : Nat, control : Nat]
  BY NginxAssumption DEF NginxInv
<1>2. nginxConfig # Nginx!Unset => nginxConfig = Nginx!InitConfig(nginxHost)
  BY DEF NginxInv
<1>3. nginxConfig # Nginx!Unset =>
        /\ nginxConfig.description <= Nginx!DescriptionRoom(nginxHost)
        /\ nginxConfig.attempt_one.used <= nginxConfig.attempt_one.capacity
        /\ nginxConfig.fast.used <= nginxConfig.fast.capacity
  BY <1>1, <1>2, ConfigFits
<1> QED BY <1>3 DEF NginxInv, Nginx!WithinBuffers

(* The room that both plugins reserve is enough, for any host name, any    *)
(* number of attempts and any durations: no metric is ever dropped from    *)
(* Envoy's field, and nginx's is never written past its buffer.            *)
THEOREM BuffersAlwaysSuffice == Envoy!Spec /\ Nginx!Spec => []BuffersSuffice
<1>1. EnvoyInv /\ NginxInv => BuffersSuffice
  BY EnvoyFits, NginxFits DEF BuffersSuffice
<1> QED BY <1>1, EnvoyInvariance, NginxInvariance, PTL

-----------------------------------------------------------------------------
(* What the fields say.  Of Envoy's: the room of each metric with the comma *)
(* behind it, where the room of the first n ends, and what a metric puts   *)
(* into its own.                                                           *)
Room(values, desc) ==
  [i \in Envoy!Metric |-> IF values[i] = <<>> THEN 0
                          ELSE Envoy!NameLen[i] + Len(values[i]) + desc + 1]
EndsOf(w) ==
  [n \in 0 .. 6 |->
    IF n = 0 THEN 0 ELSE IF n = 1 THEN w[1] ELSE IF n = 2 THEN w[1] + w[2]
    ELSE IF n = 3 THEN w[1] + w[2] + w[3] ELSE IF n = 4 THEN w[1] + w[2] + w[3] + w[4]
    ELSE IF n = 5 THEN w[1] + w[2] + w[3] + w[4] + w[5]
    ELSE w[1] + w[2] + w[3] + w[4] + w[5] + w[6]]
Ends(values, desc) == EndsOf(Room(values, desc))

PlacedAt(start, i, value) ==
  {<<start + Envoy!NameLen[i], "value", value>>, <<start, "name", <<i>>>>,
   <<start + Envoy!NameLen[i] + Len(value), "description", <<>>>>}
  \cup (IF start = 0 THEN {} ELSE {<<start - 1, "comma", <<>>>>})
Placed(values, desc, i) ==
  IF values[i] = <<>> THEN {} ELSE PlacedAt(Ends(values, desc)[i - 1], i, values[i])

(* The text of the first n metrics.                                        *)
Part(values, desc, n) ==
  [used |-> IF Ends(values, desc)[n] = 0 THEN 0 ELSE Ends(values, desc)[n] - 1,
   put |-> UNION {Placed(values, desc, i) : i \in 1 .. n}]

(* The room of a metric.                                                   *)
LEMMA RoomIs ==
  ASSUME NEW desc \in Nat, NEW values \in Digits, NEW i \in Envoy!Metric
  PROVE  /\ Room(values, desc)[i] \in Nat
         /\ values[i] = <<>> => Room(values, desc)[i] = 0
         /\ values[i] # <<>> =>
              /\ Room(values, desc)[i] = Envoy!NameLen[i] + Len(values[i]) + desc + 1
              /\ Len(values[i]) \in Nat \ {0}
         /\ Envoy!NameLen[i] \in 9 .. 11
<1>1. Envoy!NameLen[i] \in 9 .. 11
  BY DEF Envoy!NameLen, Envoy!Metric
<1>2. values[i] \in Seq(0 .. 9)
  BY DEF Digits
<1>3. Len(values[i]) \in Nat
  BY <1>2
<1>4. Room(values, desc)[i] = IF values[i] = <<>> THEN 0
                              ELSE Envoy!NameLen[i] + Len(values[i]) + desc + 1
  BY DEF Room
<1>5. values[i] # <<>> => Len(values[i]) # 0
  BY <1>2
<1> DEFINE l == Envoy!NameLen[i]
           k == Len(values[i])
<1> HIDE DEF l, k
<1>6. l + k + desc + 1 \in Nat
  BY <1>1, <1>3 DEF l, k
<1> QED BY <1>1, <1>3, <1>4, <1>5, <1>6 DEF l, k

(* The ends of the rooms.                                                  *)
LEMMA EndsAre ==
  ASSUME NEW desc \in Nat, NEW values \in Digits
  PROVE  LET e == Ends(values, desc)
         IN /\ e \in [0 .. 6 -> Nat] /\ e[0] = 0
            /\ \A i \in Envoy!Metric : e[i] = e[i - 1] + Room(values, desc)[i]
<1> DEFINE w == Room(values, desc)
<1>1. \A i \in 1 .. 6 : w[i] \in Nat
  BY RoomIs DEF Envoy!Metric
<1> HIDE DEF w
<1>2. w[1] \in Nat /\ w[2] \in Nat /\ w[3] \in Nat /\ w[4] \in Nat /\ w[5] \in Nat
      /\ w[6] \in Nat
  BY <1>1
<1> DEFINE e == EndsOf(w)
<1>3. /\ e[0] = 0 /\ e[1] = w[1] /\ e[2] = w[1] + w[2] /\ e[3] = w[1] + w[2] + w[3]
      /\ e[4] = w[1] + w[2] + w[3] + w[4] /\ e[5] = w[1] + w[2] + w[3] + w[4] + w[5]
      /\ e[6] = w[1] + w[2] + w[3] + w[4] + w[5] + w[6]
  BY DEF EndsOf
<1>4. e = [n \in 0 .. 6 |-> e[n]]
  BY DEF EndsOf
<1> HIDE DEF e
<1>5. \A i \in 1 .. 6 : e[i] = e[i - 1] + w[i]
  BY <1>2, <1>3
<1>6. \A n \in 0 .. 6 : e[n] \in Nat
  BY <1>2, <1>3
<1>7. e \in [0 .. 6 -> Nat]
  BY <1>4, <1>6
<1> QED BY <1>3, <1>5, <1>7 DEF e, w, Ends, Envoy!Metric

(* A later metric begins where an earlier one has ended.                   *)
LEMMA EndsAscend ==
  ASSUME NEW desc \in Nat, NEW values \in Digits, NEW i \in 0 .. 6, NEW j \in 0 .. 6, i <= j
  PROVE  Ends(values, desc)[i] <= Ends(values, desc)[j]
<1> DEFINE e == Ends(values, desc)
<1>1. \A n \in 0 .. 6 : e[n] \in Nat
  BY EndsAre
<1>2. \A n \in 1 .. 6 : /\ e[n] = e[n - 1] + Room(values, desc)[n]
                       /\ Room(values, desc)[n] \in Nat
  BY EndsAre, RoomIs, ZenonT(40) DEF Envoy!Metric
<1> HIDE DEF e
<1>3. \A n \in 1 .. 6 : e[n - 1] <= e[n]
  BY <1>1, <1>2
<1>4. e[0] <= e[1] /\ e[1] <= e[2] /\ e[2] <= e[3] /\ e[3] <= e[4] /\ e[4] <= e[5]
      /\ e[5] <= e[6]
  BY <1>3
<1>5. e[0] \in Nat /\ e[1] \in Nat /\ e[2] \in Nat /\ e[3] \in Nat /\ e[4] \in Nat
      /\ e[5] \in Nat /\ e[6] \in Nat
  BY <1>1
<1> QED BY <1>4, <1>5 DEF e

(* Where nothing is put there is no room, else more than a byte.           *)
LEMMA EndsApart ==
  ASSUME NEW desc \in Nat, NEW values \in Digits, NEW n \in 0 .. 6
  PROVE  Ends(values, desc)[n] = 0 \/ Ends(values, desc)[n] > 1
<1> DEFINE e == Ends(values, desc)
           w == Room(values, desc)
<1>1. ASSUME NEW i \in Envoy!Metric  PROVE w[i] = 0 \/ w[i] > 1
  <2>1. CASE values[i] = <<>>
    BY <2>1, RoomIs
  <2>2. CASE values[i] # <<>>
    <3> DEFINE l == Envoy!NameLen[i]
               k == Len(values[i])
    <3>1. w[i] = l + k + desc + 1 /\ l \in 9 .. 11 /\ k \in Nat
      BY <2>2, RoomIs
    <3> HIDE DEF w, l, k
    <3> QED BY <3>1
  <2> QED BY <2>1, <2>2
<1>2. e[0] = 0 /\ \A i \in Envoy!Metric : e[i] = e[i - 1] + w[i]
  BY EndsAre
<1>3. \A i \in 0 .. 6 : e[i] \in Nat
  BY EndsAre
<1>4. \A i \in Envoy!Metric : w[i] \in Nat
  BY RoomIs
<1> HIDE DEF e, w
<1>5. ASSUME NEW i \in 1 .. 6, e[i - 1] = 0 \/ e[i - 1] > 1  PROVE e[i] = 0 \/ e[i] > 1
  <2>1. i \in Envoy!Metric /\ i - 1 \in 0 .. 6
    BY DEF Envoy!Metric
  <2>2. e[i] = e[i - 1] + w[i] /\ w[i] \in Nat /\ e[i - 1] \in Nat
        /\ (w[i] = 0 \/ w[i] > 1)
    BY <1>1, <1>2, <1>3, <1>4, <2>1
  <2> QED BY <1>5, <2>2
<1>6. /\ e[1] = 0 \/ e[1] > 1
      /\ e[2] = 0 \/ e[2] > 1
      /\ e[3] = 0 \/ e[3] > 1
      /\ e[4] = 0 \/ e[4] > 1
      /\ e[5] = 0 \/ e[5] > 1
      /\ e[6] = 0 \/ e[6] > 1
  <2>1. 1 - 1 = 0 /\ 2 - 1 = 1 /\ 3 - 1 = 2 /\ 4 - 1 = 3 /\ 5 - 1 = 4 /\ 6 - 1 = 5
    OBVIOUS
  <2>2. e[1] = 0 \/ e[1] > 1
    BY <1>2, <1>5, <2>1
  <2>3. e[2] = 0 \/ e[2] > 1
    BY <1>5, <2>1, <2>2
  <2>4. e[3] = 0 \/ e[3] > 1
    BY <1>5, <2>1, <2>3
  <2>5. e[4] = 0 \/ e[4] > 1
    BY <1>5, <2>1, <2>4
  <2>6. e[5] = 0 \/ e[5] > 1
    BY <1>5, <2>1, <2>5
  <2> QED BY <1>5, <2>1, <2>2, <2>3, <2>4, <2>5, <2>6
<1> QED BY <1>2, <1>6 DEF e

(* What a metric puts is in its room, or is the comma before it.           *)
LEMMA PlacedWithin ==
  ASSUME NEW desc \in Nat, NEW values \in Digits, NEW i \in Envoy!Metric,
         NEW p \in Placed(values, desc, i)
  PROVE  /\ p[1] \in Nat
         /\ Ends(values, desc)[i - 1] - 1 <= p[1] /\ p[1] <= Ends(values, desc)[i] - 1
         /\ p[3] \in Seq(0 .. 9)
<1> DEFINE start == Ends(values, desc)[i - 1]
           l == Envoy!NameLen[i]
           k == Len(values[i])
<1>1. values[i] # <<>>
  BY DEF Placed
<1>2. start \in Nat /\ Ends(values, desc)[i] = start + Room(values, desc)[i]
  <2>1. i \in 1 .. 6 /\ i - 1 \in 0 .. 6
    BY DEF Envoy!Metric
  <2> QED BY <2>1, EndsAre
<1>3. l \in 9 .. 11 /\ k \in Nat \ {0} /\ Room(values, desc)[i] = l + k + desc + 1
  BY <1>1, RoomIs
<1>4. p \in PlacedAt(start, i, values[i])
  BY <1>1 DEF Placed
<1>5. i \in 0 .. 9 /\ values[i] \in Seq(0 .. 9)
  BY DEF Envoy!Metric, Digits
<1>6. <<i>> \in Seq(0 .. 9) /\ <<>> \in Seq(0 .. 9)
  BY <1>5
<1> HIDE DEF start
<1>7. \/ p = <<start + l, "value", values[i]>> \/ p = <<start, "name", <<i>>>>
      \/ p = <<start + l + k, "description", <<>>>>
      \/ start # 0 /\ p = <<start - 1, "comma", <<>>>>
  BY <1>4 DEF PlacedAt
<1> HIDE DEF l, k
<1>8. /\ p[3] \in {values[i], <<i>>, <<>>}
      /\ p[1] \in {start + l, start, start + l + k, start - 1}
      /\ (p[1] = start - 1 => start # 0)
  <2>1. CASE p = <<start + l, "value", values[i]>>
    <3>1. p[1] = start + l /\ p[3] = values[i]
      BY <2>1
    <3> QED BY <1>2, <1>3, <3>1
  <2>2. CASE p = <<start, "name", <<i>>>>
    <3>1. p[1] = start /\ p[3] = <<i>>
      BY <2>2
    <3> QED BY <1>2, <3>1
  <2>3. CASE p = <<start + l + k, "description", <<>>>>
    <3>1. p[1] = start + l + k /\ p[3] = <<>>
      BY <2>3
    <3> QED BY <1>2, <1>3, <3>1
  <2>4. CASE start # 0 /\ p = <<start - 1, "comma", <<>>>>
    <3>1. p[1] = start - 1 /\ p[3] = <<>>
      BY <2>4
    <3> QED BY <2>4, <3>1
  <2> QED BY <1>7, <2>1, <2>2, <2>3, <2>4
<1>9. p[3] \in Seq(0 .. 9)
  BY <1>5, <1>6, <1>8
<1>10. p[1] \in Nat /\ start - 1 <= p[1] /\ p[1] <= start + (l + k + desc + 1) - 1
  BY <1>2, <1>3, <1>8
<1> QED BY <1>2, <1>3, <1>9, <1>10 DEF start

(* One turn of the loop adds the part of one metric.                       *)
LEMMA EmitPlaces ==
  ASSUME NEW desc \in Nat, NEW room \in Nat, NEW values \in Digits, NEW i \in Envoy!Metric,
         Len(values[i]) <= 13, Ends(values, desc)[i] <= room
  PROVE  Envoy!Emit(Part(values, desc, i - 1), room, desc, values, i) = Part(values, desc, i)
<1> DEFINE t == Part(values, desc, i - 1)
           start == Ends(values, desc)[i - 1]
           l == Envoy!NameLen[i]
           k == Len(values[i])
           P(j) == Placed(values, desc, j)
           before == UNION {P(j) : j \in 1 .. i - 1}
           after == UNION {P(j) : j \in 1 .. i}
<1>1. /\ start \in Nat /\ Ends(values, desc)[i] = start + Room(values, desc)[i]
      /\ i \in 1 .. 6
  <2>1. i \in 1 .. 6 /\ i - 1 \in 0 .. 6
    BY DEF Envoy!Metric
  <2> QED BY <2>1, EndsAre
<1>2. after = before \cup P(i)
  <2>1. 1 .. i = (1 .. i - 1) \cup {i}
    BY <1>1
  <2> HIDE DEF P
  <2> QED BY <2>1
<1>3. t = [used |-> IF start = 0 THEN 0 ELSE start - 1, put |-> before]
  BY DEF Part
<1>4. Part(values, desc, i) = [used |-> IF Ends(values, desc)[i] = 0 THEN 0
                                         ELSE Ends(values, desc)[i] - 1, put |-> after]
  BY DEF Part
<1>5. CASE values[i] = <<>>
  <2>1. Ends(values, desc)[i] = start
    <3>1. Room(values, desc)[i] = 0
      BY <1>5, RoomIs
    <3> HIDE DEF start
    <3> QED BY <1>1, <3>1
  <2>2. P(i) = {}
    BY <1>5 DEF Placed
  <2>3. Part(values, desc, i) = t
    <3> HIDE DEF start, before, after, P, t
    <3> QED BY <1>2, <1>3, <1>4, <2>1, <2>2
  <2>4. ~Envoy!IsDigits(values[i])
    BY <1>5 DEF Envoy!IsDigits
  <2>5. Envoy!Emit(t, room, desc, values, i) = t
    <3> HIDE DEF t
    <3> QED BY <2>4 DEF Envoy!Emit
  <2> QED BY <2>3, <2>5
<1>6. CASE values[i] # <<>>
  <2>1. l \in 9 .. 11 /\ k \in Nat \ {0} /\ Room(values, desc)[i] = l + k + desc + 1
    BY <1>6, RoomIs
  <2>2. P(i) = PlacedAt(start, i, values[i])
    BY <1>6 DEF Placed
  <2>3. Envoy!IsDigits(values[i])
    <3>1. k <= 13
      OBVIOUS
    <3> HIDE DEF k
    <3>2. k \in 1 .. 20
      BY <2>1, <3>1
    <3> QED BY <3>2 DEF Envoy!IsDigits, Envoy!DigitsMax, k
  <2> HIDE DEF before, after, P
  <2>4. /\ start # 0 => start > 1
        /\ t.used = IF start = 0 THEN 0 ELSE start - 1
        /\ t.put = before
    <3>1. start = 0 \/ start > 1
      <4>1. i - 1 \in 0 .. 6
        BY <1>1
      <4> QED BY <4>1, EndsApart
    <3> QED BY <1>3, <3>1
  <2> DEFINE name == IF t.used > 0 THEN t.used + 1 ELSE 0
             value == name + l
             end == value + k + desc
             full == [used |-> end,
                      put |-> t.put \cup {<<u, "comma", <<>>>> : u \in {t.used} \ {0}}
                              \cup {<<name, "name", <<i>>>>, <<value, "value", values[i]>>,
                                    <<value + k, "description", <<>>>>}]
  <2>5. t # Envoy!Failed
    <3>1. t.used # -1
      <4> HIDE DEF t, start
      <4> QED BY <1>1, <2>4
    <3> QED BY <3>1 DEF Envoy!Failed
  <2>6. name = start /\ ~(end > room)
        /\ end = Ends(values, desc)[i] - 1 /\ Ends(values, desc)[i] # 0
    <3>1. name = start
      <4> HIDE DEF t, start
      <4> QED BY <1>1, <2>4
    <3>2. end = start + l + k + desc
      <4> HIDE DEF name, start
      <4> QED BY <3>1
    <3> HIDE DEF start, name, l, k, end
    <3> QED BY <1>1, <2>1, <3>1, <3>2
  <2>7. Envoy!Emit(t, room, desc, values, i) = full
    <3> HIDE DEF t
    <3> QED BY <2>3, <2>5, <2>6 DEF Envoy!Emit
  <2>8. full.put = after
    <3>1. PlacedAt(start, i, values[i]) =
            {<<u, "comma", <<>>>> : u \in {t.used} \ {0}}
              \cup {<<name, "name", <<i>>>>, <<value, "value", values[i]>>,
                    <<value + k, "description", <<>>>>}
      <4>1. {<<u, "comma", <<>>>> : u \in {t.used} \ {0}} =
              IF start = 0 THEN {} ELSE {<<start - 1, "comma", <<>>>>}
        <5> DEFINE u1 == t.used
        <5> HIDE DEF t, start
        <5>1. u1 = IF start = 0 THEN 0 ELSE start - 1
          BY <2>4
        <5>2. start # 0 => start - 1 # 0
          BY <1>1, <2>4
        <5> HIDE DEF u1
        <5>3. {<<u, "comma", <<>>>> : u \in {u1} \ {0}} =
                IF start = 0 THEN {} ELSE {<<start - 1, "comma", <<>>>>}
          BY <5>1, <5>2
        <5> QED BY <5>3 DEF u1
      <4> HIDE DEF t, start, name
      <4> QED BY <2>6, <4>1 DEF PlacedAt
    <3> DEFINE added == {<<u, "comma", <<>>>> : u \in {t.used} \ {0}}
              \cup {<<name, "name", <<i>>>>, <<value, "value", values[i]>>,
                    <<value + k, "description", <<>>>>}
    <3>2. full.put = t.put \cup added
      BY DEF full
    <3>3. added = P(i)
      BY <2>2, <3>1
    <3> HIDE DEF added, full, t
    <3> QED BY <1>2, <2>4, <3>2, <3>3
  <2>9. full = [used |-> end, put |-> after]
    BY <2>8
  <2> HIDE DEF full, t, end
  <2>10. Part(values, desc, i) = [used |-> end, put |-> after]
    BY <1>4, <2>6
  <2> QED BY <2>7, <2>9, <2>10 DEF t
<1> QED BY <1>5, <1>6

(* Six metrics end within six times the most room of one.                  *)
LEMMA EndsWithin ==
  ASSUME NEW desc \in Nat, NEW values \in Digits, NEW most \in Nat,
         \A i \in Envoy!Metric : Len(values[i]) <= most
  PROVE  \A n \in 0 .. 6 : Ends(values, desc)[n] <= 6 * (12 + most + desc)
<1> DEFINE e == Ends(values, desc)
           w == Room(values, desc)
           step == 12 + most + desc
<1>1. /\ e[0] = 0 /\ e[1] = w[1] /\ e[2] = w[1] + w[2] /\ e[3] = w[1] + w[2] + w[3]
      /\ e[4] = w[1] + w[2] + w[3] + w[4] /\ e[5] = w[1] + w[2] + w[3] + w[4] + w[5]
      /\ e[6] = w[1] + w[2] + w[3] + w[4] + w[5] + w[6]
  <2> HIDE DEF w
  <2> QED BY DEF Ends, EndsOf, w
<1>2. \A n \in 1 .. 6 : w[n] \in Nat /\ w[n] <= step
  <2> SUFFICES ASSUME NEW n \in Envoy!Metric  PROVE w[n] \in Nat /\ w[n] <= step
    BY DEF Envoy!Metric
  <2>1. CASE values[n] = <<>>
    <3>1. w[n] = 0
      BY <2>1, RoomIs
    <3> HIDE DEF w
    <3> QED BY <3>1
  <2>2. CASE values[n] # <<>>
    <3> DEFINE l == Envoy!NameLen[n]
               k == Len(values[n])
    <3>1. w[n] = l + k + desc + 1 /\ l \in 9 .. 11 /\ k \in Nat
      BY <2>2, RoomIs
    <3>2. k <= most
      OBVIOUS
    <3> HIDE DEF w, l, k
    <3> QED BY <3>1, <3>2
  <2> QED BY <2>1, <2>2
<1>3. step \in Nat
  OBVIOUS
<1> HIDE DEF e, w, step
<1>4. /\ w[1] \in Nat /\ w[2] \in Nat /\ w[3] \in Nat /\ w[4] \in Nat /\ w[5] \in Nat
      /\ w[6] \in Nat /\ w[1] <= step /\ w[2] <= step /\ w[3] <= step /\ w[4] <= step
      /\ w[5] <= step /\ w[6] <= step
  BY <1>2
<1>5. \A n \in 0 .. 6 : e[n] <= 6 * step
  <2> DEFINE v1 == w[1]
             v2 == w[2]
             v3 == w[3]
             v4 == w[4]
             v5 == w[5]
             v6 == w[6]
             six == 6 * step
  <2>1. /\ v1 \in Nat /\ v2 \in Nat /\ v3 \in Nat /\ v4 \in Nat /\ v5 \in Nat /\ v6 \in Nat
        /\ v1 <= step /\ v2 <= step /\ v3 <= step /\ v4 <= step /\ v5 <= step /\ v6 <= step
    BY <1>4
  <2>2. six = step + step + step + step + step + step
    BY <1>3
  <2>3. /\ e[0] = 0 /\ e[1] = v1 /\ e[2] = v1 + v2 /\ e[3] = v1 + v2 + v3
        /\ e[4] = v1 + v2 + v3 + v4 /\ e[5] = v1 + v2 + v3 + v4 + v5
        /\ e[6] = v1 + v2 + v3 + v4 + v5 + v6
    BY <1>1
  <2> HIDE DEF v1, v2, v3, v4, v5, v6, six
  <2>4. /\ 0 <= six /\ v1 <= six /\ v1 + v2 <= six
        /\ v1 + v2 + v3 <= six /\ v1 + v2 + v3 + v4 <= six
        /\ v1 + v2 + v3 + v4 + v5 <= six /\ v1 + v2 + v3 + v4 + v5 + v6 <= six
    BY <1>3, <2>1, <2>2
  <2>5. \A n \in 0 .. 6 : n \in {0, 1, 2, 3, 4, 5, 6}
    OBVIOUS
  <2>6. \A n \in 0 .. 6 : e[n] <= six
    BY <2>4, <2>5, <2>3
  <2> QED BY <2>6 DEF six
<1> QED BY <1>5 DEF e, step

(* The general path writes all the metrics.                                *)
LEMMA SlowIs ==
  ASSUME NEW desc \in Nat, NEW room \in Nat, NEW values \in Digits,
         \A i \in Envoy!Metric : Len(values[i]) <= 13,
         \A n \in 0 .. 6 : Ends(values, desc)[n] <= room
  PROVE  Envoy!FormatSlow(room, desc, values) = Part(values, desc, 6)
<1> DEFINE T(t, i) == Envoy!Emit(t, room, desc, values, i)
           P(n) == Part(values, desc, n)
<1>1. Envoy!FormatSlow(room, desc, values) = T(T(T(T(T(T(Envoy!Empty, 1), 2), 3), 4), 5), 6)
  BY DEF Envoy!FormatSlow, Envoy!Loop
<1>2. P(0) = Envoy!Empty
  <2>1. Ends(values, desc)[0] = 0
    BY EndsAre
  <2>2. UNION {Placed(values, desc, i) : i \in 1 .. 0} = {}
    OBVIOUS
  <2> QED BY <2>1, <2>2 DEF Part, Envoy!Empty
<1>3. ASSUME NEW i \in 1 .. 6  PROVE T(P(i - 1), i) = P(i)
  <2>1. i \in Envoy!Metric /\ i \in 0 .. 6
    BY DEF Envoy!Metric
  <2>2. Len(values[i]) <= 13 /\ Ends(values, desc)[i] <= room
    BY <2>1
  <2> QED BY <2>1, <2>2, EmitPlaces
<1> HIDE DEF T, P
<1>4. /\ T(P(0), 1) = P(1) /\ T(P(1), 2) = P(2) /\ T(P(2), 3) = P(3) /\ T(P(3), 4) = P(4)
      /\ T(P(4), 5) = P(5) /\ T(P(5), 6) = P(6)
  <2>1. \A i \in 1 .. 6 : T(P(i - 1), i) = P(i)
    BY <1>3
  <2>2. 1 - 1 = 0 /\ 2 - 1 = 1 /\ 3 - 1 = 2 /\ 4 - 1 = 3 /\ 5 - 1 = 4 /\ 6 - 1 = 5
    OBVIOUS
  <2> QED BY <2>1, <2>2
<1>5. T(T(T(T(T(T(Envoy!Empty, 1), 2), 3), 4), 5), 6) = P(6)
  BY <1>2, <1>4
<1> QED BY <1>1, <1>5 DEF P

(* The durations shown are those with digits, and the first is one.        *)
LEMMA ShownAre ==
  ASSUME NEW d \in EnvoyIntervals
  PROVE  /\ Envoy!Shown(d) = {i \in Envoy!Metric : Envoy!Timings(d)[i] # <<>>}
         /\ \A i \in Envoy!Shown(d) :
              Envoy!Timings(d)[i] = EnvoyDecimal(d[i] \div Envoy!NanosPerMilli)
         /\ 1 \in Envoy!Shown(d)
<1>1. /\ d[1] # None /\ d[1] >= 0 /\ d \in [Envoy!Metric -> Int \cup {None}]
      /\ \A i \in Envoy!Shown(d) :
           Len(EnvoyDecimal(d[i] \div Envoy!NanosPerMilli)) \in 1 .. 13
  BY EnvoyAssumption
<1>2. ASSUME NEW i \in Envoy!Metric
      PROVE  IF i \in Envoy!Shown(d)
             THEN /\ Envoy!Timings(d)[i] = EnvoyDecimal(d[i] \div Envoy!NanosPerMilli)
                  /\ Envoy!Timings(d)[i] # <<>>
             ELSE Envoy!Timings(d)[i] = <<>>
  <2>1. CASE i \in Envoy!Shown(d)
    <3>1. d[i] # None /\ d[i] >= 0
      BY <2>1 DEF Envoy!Shown
    <3>2. ~(d[i] < 0)
      <4>1. d[i] \in Int
        BY <1>1, <3>1
      <4> QED BY <3>1, <4>1
    <3>3. Envoy!Timings(d)[i] = EnvoyDecimal(d[i] \div Envoy!NanosPerMilli)
      BY <3>1, <3>2 DEF Envoy!Timings
    <3>4. EnvoyDecimal(d[i] \div Envoy!NanosPerMilli) # <<>>
      <4> DEFINE x == EnvoyDecimal(d[i] \div Envoy!NanosPerMilli)
      <4>1. Len(x) \in 1 .. 13
        BY <1>1, <2>1
      <4> HIDE DEF x
      <4>2. ASSUME x = <<>>  PROVE FALSE
        <5>1. Len(x) = 0
          BY <4>2
        <5> QED BY <4>1, <5>1
      <4>3. x # <<>>
        BY <4>2
      <4> QED BY <4>3 DEF x
    <3> QED BY <2>1, <3>3, <3>4
  <2>2. CASE i \notin Envoy!Shown(d)
    <3>1. d[i] = None \/ ~(d[i] >= 0)
      BY <2>2 DEF Envoy!Shown
    <3>2. d[i] = None \/ d[i] < 0
      <4>1. d[i] = None \/ d[i] \in Int
        BY <1>1
      <4> QED BY <3>1, <4>1
    <3> QED BY <2>2, <3>2 DEF Envoy!Timings
  <2> QED BY <2>1, <2>2
<1>3. 1 \in Envoy!Shown(d)
  BY <1>1 DEF Envoy!Shown, Envoy!Metric
<1>4. Envoy!Shown(d) \subseteq Envoy!Metric
  BY DEF Envoy!Shown
<1> HIDE DEF Envoy!Shown
<1> QED BY <1>2, <1>3, <1>4

(* The field as the README has it is the text of all the metrics.          *)
LEMMA DescribedIs ==
  ASSUME NEW d \in EnvoyIntervals, NEW desc \in Nat
  PROVE  Envoy!Described(d, desc) = Part(Envoy!Timings(d), desc, 6)
<1> DEFINE values == Envoy!Timings(d)
           S == Envoy!Shown(d)
           digits(i) == EnvoyDecimal(d[i] \div Envoy!NanosPerMilli)
           size(i) == Envoy!NameLen[i] + Len(digits(i)) + desc
           G(f) == [i \in 0 .. 6 |-> IF i = 0 THEN 0
                      ELSE f[i - 1] + (IF i \in S THEN size(i) + 1 ELSE 0)]
           upto == CHOOSE f : f = G(f)
           start(i) == upto[i - 1]
           least == CHOOSE i \in S : \A j \in S : i <= j
           e == Ends(values, desc)
           three(i) == {<<start(i), "name", <<i>>>>,
                        <<start(i) + Envoy!NameLen[i], "value", digits(i)>>,
                        <<start(i) + size(i) - desc, "description", <<>>>>}
           comma(i) == <<start(i) - 1, "comma", <<>>>>
           put == (UNION {three(i) : i \in S}) \cup {comma(i) : i \in S \ {least}}
           text == [used |-> upto[6] - 1, put |-> put]
<1>1. Envoy!Described(d, desc) = text
  BY DEF Envoy!Described
<1>2. /\ values \in Digits
      /\ S = {i \in Envoy!Metric : values[i] # <<>>}
      /\ \A i \in S : values[i] = digits(i)
      /\ 1 \in S
  BY TimingsAre, ShownAre
<1>3. e \in [0 .. 6 -> Nat] /\ e[0] = 0
      /\ \A i \in Envoy!Metric : e[i] = e[i - 1] + Room(values, desc)[i]
  BY <1>2, EndsAre
<1>4. \A i \in Envoy!Metric : Room(values, desc)[i] = IF i \in S THEN size(i) + 1 ELSE 0
  <2> SUFFICES ASSUME NEW i \in Envoy!Metric
               PROVE  Room(values, desc)[i] = IF i \in S THEN size(i) + 1 ELSE 0
    OBVIOUS
  <2>1. CASE i \in S
    <3>1. values[i] # <<>> /\ values[i] = digits(i)
      BY <1>2, <2>1
    <3>2. Room(values, desc)[i] = Envoy!NameLen[i] + Len(values[i]) + desc + 1
      BY <1>2, <3>1, RoomIs
    <3> HIDE DEF values, digits, S
    <3> QED BY <2>1, <3>1, <3>2
  <2>2. CASE i \notin S
    <3>1. values[i] = <<>>
      BY <1>2, <2>2
    <3>2. Room(values, desc)[i] = 0
      BY <1>2, <3>1, RoomIs
    <3> HIDE DEF S
    <3> QED BY <2>2, <3>2
  <2> QED BY <2>1, <2>2
<1> HIDE DEF S, digits, e, values
<1>5. e = G(e)
  <2> HIDE DEF size
  <2>1. ASSUME NEW i \in 0 .. 6  PROVE e[i] = G(e)[i]
    <3>1. CASE i = 0
      BY <1>3, <3>1
    <3>2. CASE i # 0
      <4>1. i \in Envoy!Metric
        BY <3>2 DEF Envoy!Metric
      <4>2. e[i] = e[i - 1] + (IF i \in S THEN size(i) + 1 ELSE 0)
        BY <1>3, <1>4, <4>1
      <4> QED BY <3>2, <4>2
    <3> QED BY <3>1, <3>2
  <2> QED BY <1>3, <2>1
<1>6. upto = G(upto)
  <2> HIDE DEF G
  <2> QED BY <1>5
<1>7. upto = e
  <2> HIDE DEF upto
  <2>1. upto[0] = 0 /\ \A i \in 1 .. 6 :
          upto[i] = upto[i - 1] + (IF i \in S THEN size(i) + 1 ELSE 0)
    BY <1>6, SMTT(30)
  <2>2. e[0] = 0 /\ \A i \in 1 .. 6 : e[i] = e[i - 1] + (IF i \in S THEN size(i) + 1 ELSE 0)
    BY <1>3, <1>4 DEF Envoy!Metric
  <2> HIDE DEF size
  <2>3. /\ upto[0] = e[0] /\ upto[1] = e[1] /\ upto[2] = e[2] /\ upto[3] = e[3]
        /\ upto[4] = e[4] /\ upto[5] = e[5] /\ upto[6] = e[6]
    BY <2>1, <2>2
  <2>4. \A i \in 0 .. 6 : upto[i] = e[i]
    BY <2>3
  <2>5. DOMAIN upto = 0 .. 6 /\ upto = [i \in 0 .. 6 |-> upto[i]]
    BY <1>6
  <2> QED BY <1>3, <2>4, <2>5
<1> HIDE DEF upto, G
<1>8. least = 1
  <2>1. \A j \in S : 1 <= j
    BY <1>2 DEF Envoy!Metric
  <2>2. \A i \in S : (\A j \in S : i <= j) => i = 1
    BY <1>2, <2>1 DEF Envoy!Metric
  <2> QED BY <1>2, <2>1, <2>2
<1> HIDE DEF least
<1>9. e[1] > 0 /\ \A i \in S : i # 1 => e[i - 1] # 0
  <2>1. e[1] > 0
    <3>1. 1 \in Envoy!Metric /\ values[1] # <<>>
      BY <1>2
    <3>2. Room(values, desc)[1] = Envoy!NameLen[1] + Len(values[1]) + desc + 1
          /\ Envoy!NameLen[1] \in 9 .. 11 /\ Len(values[1]) \in Nat
      BY <1>2, <3>1, RoomIs
    <3>3. e[1] = Room(values, desc)[1]
      <4>1. e[1] = e[1 - 1] + Room(values, desc)[1] /\ 1 - 1 = 0
        BY <1>3, <3>1
      <4>2. Room(values, desc)[1] \in Nat
        BY <1>2, <3>1, RoomIs
      <4> QED BY <1>3, <4>1, <4>2
    <3> QED BY <3>2, <3>3
  <2>2. ASSUME NEW i \in S, i # 1  PROVE e[i - 1] # 0
    <3>1. i - 1 \in 0 .. 6 /\ 1 <= i - 1 /\ 1 \in 0 .. 6
      BY <1>2, <2>2 DEF Envoy!Metric
    <3>2. e[1] <= e[i - 1]
      BY <1>2, <3>1, EndsAscend DEF e
    <3>3. e[1] \in Nat /\ e[i - 1] \in Nat
      BY <1>3, <3>1
    <3> QED BY <2>1, <3>2, <3>3
  <2> QED BY <2>1, <2>2
<1>10. e[6] # 0
  <2>1. e[1] <= e[6]
    BY <1>2, EndsAscend DEF e
  <2> QED BY <1>3, <1>9, <2>1
<1>11. ASSUME NEW i \in S
       PROVE  Placed(values, desc, i) = three(i) \cup (IF i = 1 THEN {} ELSE {comma(i)})
  <2>1. values[i] # <<>> /\ values[i] = digits(i) /\ i \in Envoy!Metric
    BY <1>2
  <2>2. Placed(values, desc, i) = PlacedAt(start(i), i, values[i])
    BY <1>7, <2>1 DEF Placed, e
  <2>3. (start(i) = 0) <=> (i = 1)
    BY <1>3, <1>7, <1>9
  <2>4. start(i) + size(i) - desc = start(i) + Envoy!NameLen[i] + Len(values[i])
    <3>1. Envoy!NameLen[i] \in 9 .. 11 /\ Len(values[i]) \in Nat
      BY <1>2, <2>1, RoomIs
    <3>2. start(i) \in Nat
      BY <1>3, <1>7, <2>1 DEF Envoy!Metric
    <3> HIDE DEF start
    <3> QED BY <2>1, <3>1, <3>2
  <2> HIDE DEF start, size
  <2> QED BY <2>1, <2>2, <2>3, <2>4 DEF PlacedAt
<1>12. ASSUME NEW i \in 1 .. 6, i \notin S  PROVE Placed(values, desc, i) = {}
  BY <1>2, <1>12 DEF Placed, Envoy!Metric
<1>13. text.put = UNION {Placed(values, desc, i) : i \in 1 .. 6}
  <2> DEFINE A == UNION {three(i) : i \in S}
             B == {comma(i) : i \in S \ {1}}
  <2>1. text.put = A \cup B
    <3>1. text.put = put
      <4> HIDE DEF put
      <4> QED OBVIOUS
    <3>2. put = A \cup {comma(i) : i \in S \ {least}}
      BY Zenon
    <3>3. text.put = A \cup {comma(i) : i \in S \ {least}}
      <4> HIDE DEF put, text, A, comma
      <4> QED BY <3>1, <3>2
    <3>4. S \ {least} = S \ {1}
      BY <1>8
    <3> QED BY <3>3, <3>4, Zenon
  <2>2. S \subseteq 1 .. 6
    BY <1>2 DEF Envoy!Metric
  <2> HIDE DEF three, comma, text
  <2>3. ASSUME NEW p \in text.put  PROVE p \in UNION {Placed(values, desc, i) : i \in 1 .. 6}
    <3>1. CASE p \in A
      <4>1. PICK i \in S : p \in three(i)
        BY <3>1
      <4>2. p \in Placed(values, desc, i)
        BY <1>11, <4>1
      <4> QED BY <2>2, <4>2
    <3>2. CASE p \in B
      <4>1. PICK i \in S : i # 1 /\ p = comma(i)
        BY <3>2
      <4>2. p \in Placed(values, desc, i)
        BY <1>11, <4>1
      <4> QED BY <2>2, <4>2
    <3> HIDE DEF A, B
    <3> QED BY <2>1, <2>3, <3>1, <3>2
  <2>4. ASSUME NEW p \in UNION {Placed(values, desc, i) : i \in 1 .. 6}  PROVE p \in text.put
    <3>1. PICK i \in 1 .. 6 : p \in Placed(values, desc, i)
      BY <2>4
    <3>2. i \in S
      BY <1>12, <3>1
    <3>3. p \in three(i) \/ (i # 1 /\ p = comma(i))
      BY <1>11, <3>1, <3>2
    <3>4. p \in A \/ p \in B
      BY <3>2, <3>3
    <3> HIDE DEF A, B
    <3> QED BY <2>1, <3>4
  <2> HIDE DEF text
  <2> QED BY <2>3, <2>4
<1>14. text.used = e[6] - 1
  BY <1>7
<1>15. text = [used |-> text.used, put |-> text.put]
  OBVIOUS
<1> HIDE DEF text
<1> QED BY <1>1, <1>10, <1>13, <1>14, <1>15 DEF Part, e, values

(* The zeros of a template.                                                *)
LEMMA ZerosAre ==
  ASSUME NEW v \in {1, 2}
  PROVE  LET z == Envoy!Zeros(v)
         IN /\ z \in Digits /\ z[1] # <<>>
            /\ \A i \in Envoy!Metric : /\ Len(z[i]) <= 1
                                       /\ z[i] = IF v = 2 /\ i = 3 THEN <<>> ELSE <<0>>
                                       /\ (z[i] = <<>>) <=> (v = 2 /\ i = 3)
<1> DEFINE z == Envoy!Zeros(v)
<1>1. <<>> \in Seq(0 .. 9) /\ <<0>> \in Seq(0 .. 9) /\ Len(<<>>) = 0 /\ Len(<<0>>) = 1
  OBVIOUS
<1>2. z = [i \in Envoy!Metric |-> IF v = 2 /\ i = 3 THEN <<>> ELSE <<0>>]
  BY DEF Envoy!Zeros
<1>3. \A i \in Envoy!Metric : z[i] = IF v = 2 /\ i = 3 THEN <<>> ELSE <<0>>
  BY <1>2
<1>4. z \in Digits
  BY <1>1, <1>2 DEF Digits
<1> HIDE DEF z
<1>5. ASSUME NEW i \in Envoy!Metric
      PROVE  Len(z[i]) <= 1 /\ ((z[i] = <<>>) <=> (v = 2 /\ i = 3))
  <2>1. <<0>> # <<>>
    OBVIOUS
  <2>2. CASE v = 2 /\ i = 3
    <3>1. z[i] = <<>>
      BY <1>3, <2>2
    <3>2. Len(z[i]) = 0
      BY <3>1
    <3> QED BY <2>2, <3>1, <3>2
  <2>3. CASE ~(v = 2 /\ i = 3)
    <3>1. z[i] = <<0>>
      BY <1>3, <2>3
    <3>2. Len(z[i]) = 1
      BY <3>1
    <3> QED BY <2>1, <2>3, <3>1, <3>2
  <2> QED BY <2>2, <2>3
<1>6. z[1] # <<>>
  BY <1>5 DEF Envoy!Metric
<1> QED BY <1>3, <1>4, <1>5, <1>6 DEF z

(* The count of the offsets agrees with where the template has its digits. *)
LEMMA OffsetsPoint ==
  ASSUME NEW desc \in Nat, NEW v \in {1, 2}
  PROVE  \A i \in Envoy!Metric :
           ~(v = 2 /\ i = 3) =>
             Envoy!Offsets(v, desc)[i] = Ends(Envoy!Zeros(v), desc)[i - 1] + Envoy!NameLen[i]
<1> DEFINE z == Envoy!Zeros(v)
           e == Ends(z, desc)
           point(i) == e[i - 1] + Envoy!NameLen[i]
           O(n) == [used |-> IF e[n] = 0 THEN 0 ELSE e[n] - 1,
                    at |-> [i \in Envoy!Metric |-> IF i <= n /\ z[i] # <<>> THEN point(i) ELSE 0]]
           T(o, i) == Envoy!Offset(o, i, v, desc)
           o0 == [used |-> 0, at |-> [i \in Envoy!Metric |-> 0]]
<1>1. Envoy!Offsets(v, desc) = T(T(T(T(T(T(o0, 1), 2), 3), 4), 5), 6).at
  BY DEF Envoy!Offsets, Envoy!Loop
<1>2. z \in Digits /\ \A i \in Envoy!Metric : /\ z[i] = <<>> \/ z[i] = <<0>>
                                              /\ (z[i] = <<>>) <=> (v = 2 /\ i = 3)
  BY ZerosAre
<1>3. e[0] = 0 /\ \A n \in 0 .. 6 : e[n] \in Nat /\ (e[n] = 0 \/ e[n] > 1)
  BY <1>2, EndsAre, EndsApart
<1>4. O(0) = o0
  <2>1. \A i \in Envoy!Metric : ~(i <= 0)
    BY DEF Envoy!Metric
  <2> HIDE DEF e, z
  <2> QED BY <1>3, <2>1
<1>5. ASSUME NEW i \in 1 .. 6  PROVE T(O(i - 1), i) = O(i)
  <2>1. i \in Envoy!Metric /\ i - 1 \in 0 .. 6 /\ i \in 0 .. 6
    BY DEF Envoy!Metric
  <2>2. e[i] = e[i - 1] + Room(z, desc)[i] /\ e[i - 1] \in Nat
    BY <1>2, <2>1, EndsAre
  <2>3. CASE z[i] = <<>>
    <3>1. Room(z, desc)[i] = 0
      BY <1>2, <2>1, <2>3, RoomIs
    <3>2. T(O(i - 1), i) = O(i - 1)
      <4> HIDE DEF O
      <4> QED BY <2>3, ZenonT(40) DEF Envoy!Offset
    <3>3. e[i] = e[i - 1]
      <4> HIDE DEF e
      <4> QED BY <2>2, <3>1
    <3>4. \A j \in Envoy!Metric : (j <= i /\ z[j] # <<>>) <=> (j <= i - 1 /\ z[j] # <<>>)
      <4> HIDE DEF z
      <4> QED BY <2>3 DEF Envoy!Metric
    <3> HIDE DEF e, z, T, point
    <3>5. O(i) = O(i - 1)
      BY <3>3, <3>4
    <3> QED BY <3>2, <3>5
  <2>4. CASE z[i] # <<>>
    <3> DEFINE o == O(i - 1)
               l == Envoy!NameLen[i]
               name == IF o.used > 0 THEN o.used + 1 ELSE 0
    <3>1. z[i] = <<0>> /\ Len(z[i]) = 1
      <4>1. z[i] = <<0>>
        BY <1>2, <2>1, <2>4
      <4> QED BY <4>1
    <3>2. Room(z, desc)[i] = l + 1 + desc + 1 /\ l \in 9 .. 11
      <4>1. Room(z, desc)[i] = l + Len(z[i]) + desc + 1 /\ l \in 9 .. 11
        BY <1>2, <2>1, <2>4, RoomIs
      <4> HIDE DEF z, l
      <4> QED BY <3>1, <4>1
    <3>3. T(o, i) = [used |-> name + l + 1 + desc, at |-> [o.at EXCEPT ![i] = name + l]]
      <4> HIDE DEF o
      <4> QED BY <2>4, ZenonT(40) DEF Envoy!Offset
    <3>4. o.used = (IF e[i - 1] = 0 THEN 0 ELSE e[i - 1] - 1)
      OBVIOUS
    <3>5. o.at = [j \in Envoy!Metric |-> IF j <= i - 1 /\ z[j] # <<>> THEN point(j) ELSE 0]
      OBVIOUS
    <3> HIDE DEF o
    <3>6. name = e[i - 1]
      <4> HIDE DEF e
      <4> QED BY <1>3, <2>1, <2>2, <3>4
    <3> HIDE DEF name, l
    <3>7. name + l + 1 + desc = e[i] - 1 /\ e[i] # 0
      <4> HIDE DEF e
      <4> QED BY <2>2, <3>2, <3>6
    <3>8. [o.at EXCEPT ![i] = name + l] =
            [j \in Envoy!Metric |-> IF j <= i /\ z[j] # <<>> THEN point(j) ELSE 0]
      <4>1. name + l = point(i)
        BY <3>6 DEF l
      <4> HIDE DEF point
      <4>2. ASSUME NEW j \in Envoy!Metric
            PROVE  [o.at EXCEPT ![i] = name + l][j] =
                     IF j <= i /\ z[j] # <<>> THEN point(j) ELSE 0
        <5> HIDE DEF z
        <5>1. CASE j = i
          BY <2>4, <3>5, <4>1, <5>1, <2>1
        <5>2. CASE j # i
          <6>1. (j <= i) <=> (j <= i - 1)
            BY <5>2 DEF Envoy!Metric
          <6> QED BY <3>5, <5>2, <6>1
        <5> QED BY <5>1, <5>2
      <4>3. [o.at EXCEPT ![i] = name + l] =
              [j \in Envoy!Metric |-> [o.at EXCEPT ![i] = name + l][j]]
        BY <3>5
      <4> QED BY <4>2, <4>3
    <3> HIDE DEF T, point, z, e
    <3>9. T(o, i) = O(i)
      BY <3>3, <3>7, <3>8
    <3> QED BY <3>9 DEF o
  <2> QED BY <2>3, <2>4
<1> HIDE DEF T, O, o0
<1>6. /\ T(O(0), 1) = O(1) /\ T(O(1), 2) = O(2) /\ T(O(2), 3) = O(3) /\ T(O(3), 4) = O(4)
      /\ T(O(4), 5) = O(5) /\ T(O(5), 6) = O(6)
  <2>1. \A i \in 1 .. 6 : T(O(i - 1), i) = O(i)
    BY <1>5
  <2>2. 1 - 1 = 0 /\ 2 - 1 = 1 /\ 3 - 1 = 2 /\ 4 - 1 = 3 /\ 5 - 1 = 4 /\ 6 - 1 = 5
    OBVIOUS
  <2> QED BY <2>1, <2>2
<1>7. Envoy!Offsets(v, desc) = O(6).at
  BY <1>1, <1>4, <1>6
<1>8. O(6).at = [i \in Envoy!Metric |-> IF i <= 6 /\ z[i] # <<>> THEN point(i) ELSE 0]
  BY DEF O
<1> HIDE DEF z, point
<1>9. \A i \in Envoy!Metric : z[i] # <<>> => Envoy!Offsets(v, desc)[i] = point(i)
  BY <1>7, <1>8 DEF Envoy!Metric
<1> QED BY <1>2, <1>9 DEF point, e, z

(* A digit in place of another, at its place, changes its metric only.     *)
LEMMA PokePlaces ==
  ASSUME NEW desc \in Nat, NEW values \in Digits, NEW i \in Envoy!Metric,
         NEW digit \in Seq(0 .. 9), Len(digit) = 1, Len(values[i]) = 1
  PROVE  LET changed == [values EXCEPT ![i] = digit]
             place == Ends(values, desc)[i - 1] + Envoy!NameLen[i]
         IN /\ changed \in Digits /\ Ends(changed, desc) = Ends(values, desc)
            /\ Envoy!Poke(Part(values, desc, 6), place, digit) = Part(changed, desc, 6)
<1> DEFINE changed == [values EXCEPT ![i] = digit]
           e == Ends(values, desc)
           start == e[i - 1]
           l == Envoy!NameLen[i]
           place == start + l
           Old(j) == Placed(values, desc, j)
           New_(j) == Placed(changed, desc, j)
           digits == <<place, "value", digit>>
<1>1. changed \in Digits
  BY DEF Digits
<1>2. /\ \A j \in Envoy!Metric : j # i => changed[j] = values[j]
      /\ changed[i] = digit
  BY DEF Digits
<1>3. values[i] # <<>> /\ digit # <<>>
  <2>1. Len(<<>>) = 0
    OBVIOUS
  <2>2. values[i] = <<>> => Len(values[i]) = 0
    BY <2>1
  <2>3. digit = <<>> => Len(digit) = 0
    BY <2>1
  <2> QED BY <2>2, <2>3
<1> HIDE DEF changed
<1>4. Room(changed, desc) = Room(values, desc)
  <2>1. \A j \in Envoy!Metric : Room(changed, desc)[j] = Room(values, desc)[j]
    <3>1. ASSUME NEW j \in Envoy!Metric
          PROVE  /\ (changed[j] = <<>>) <=> (values[j] = <<>>)
                 /\ Len(changed[j]) = Len(values[j])
      <4>1. CASE j = i
        BY <1>2, <1>3, <4>1
      <4>2. CASE j # i
        BY <1>2, <4>2
      <4> QED BY <4>1, <4>2
    <3> QED BY <3>1 DEF Room
  <2>2. /\ Room(changed, desc) = [j \in Envoy!Metric |-> Room(changed, desc)[j]]
        /\ Room(values, desc) = [j \in Envoy!Metric |-> Room(values, desc)[j]]
    BY DEF Room
  <2> HIDE DEF Room
  <2> QED BY <2>1, <2>2
<1>5. Ends(changed, desc) = e
  BY <1>4 DEF Ends
<1>6. /\ i \in 1 .. 6 /\ start \in Nat /\ l \in 9 .. 11
      /\ e[i] = start + l + 1 + desc + 1
  <2>1. i \in 1 .. 6 /\ i - 1 \in 0 .. 6
    BY DEF Envoy!Metric
  <2>2. start \in Nat /\ e[i] = start + Room(values, desc)[i]
    BY <2>1, EndsAre
  <2>3. Room(values, desc)[i] = l + Len(values[i]) + desc + 1 /\ l \in 9 .. 11
    BY <1>3, RoomIs
  <2> HIDE DEF start, l, e
  <2> QED BY <2>1, <2>2, <2>3
<1>7. ASSUME NEW j \in 1 .. 6, j # i
      PROVE  New_(j) = Old(j) /\ \A p \in Old(j) : p[1] # place
  <2>1. j \in Envoy!Metric
    BY DEF Envoy!Metric
  <2>2. New_(j) = Old(j)
    BY <1>2, <1>5, <1>7, <2>1 DEF Placed
  <2>3. ASSUME NEW p \in Old(j)  PROVE p[1] # place
    <3>1. p[1] \in Nat /\ e[j - 1] - 1 <= p[1] /\ p[1] <= e[j] - 1
      BY <2>1, PlacedWithin
    <3>2. CASE j < i
      <4>1. i - 1 \in 0 .. 6 /\ j \in 0 .. 6 /\ j <= i - 1
        BY <1>6, <3>2
      <4>2. e[j] <= start /\ e[j] \in Nat
        BY <4>1, EndsAscend, EndsAre
      <4> HIDE DEF e, start, l
      <4> QED BY <1>6, <3>1, <4>2
    <3>3. CASE j > i
      <4>1. i \in 0 .. 6 /\ j - 1 \in 0 .. 6 /\ i <= j - 1
        BY <1>6, <3>3
      <4>2. e[i] <= e[j - 1] /\ e[j - 1] \in Nat
        BY <4>1, EndsAscend, EndsAre
      <4> HIDE DEF e, start, l
      <4> QED BY <1>6, <3>1, <4>2
    <3> QED BY <1>6, <1>7, <3>2, <3>3
  <2> QED BY <2>2, <2>3
<1>8. New_(i) = {p \in Old(i) : p[1] # place} \cup {digits}
  <2> DEFINE value == <<place, "value", values[i]>>
             name == <<start, "name", <<i>>>>
             host == <<place + 1, "description", <<>>>>
             commas == IF start = 0 THEN {} ELSE {<<start - 1, "comma", <<>>>>}
  <2>1. Old(i) = {value, name, host} \cup commas
    <3>1. Old(i) = PlacedAt(start, i, values[i])
      BY <1>3 DEF Placed
    <3>2. place + Len(values[i]) = place + 1
      OBVIOUS
    <3> HIDE DEF start
    <3> QED BY <3>1, <3>2 DEF PlacedAt
  <2>2. New_(i) = {digits, name, host} \cup commas
    <3>1. New_(i) = PlacedAt(start, i, digit)
      BY <1>2, <1>3, <1>5 DEF Placed
    <3>2. place + Len(digit) = place + 1
      OBVIOUS
    <3> HIDE DEF start
    <3> QED BY <3>1, <3>2 DEF PlacedAt
  <2>3. value[1] = place /\ name[1] = start /\ host[1] = place + 1
        /\ (start # 0 => <<start - 1, "comma", <<>>>>[1] = start - 1)
    OBVIOUS
  <2>4. place # start /\ place # place + 1 /\ place # start - 1
    <3> HIDE DEF start, l
    <3> QED BY <1>6
  <2> HIDE DEF place, start, value, name, host, digits
  <2> QED BY <2>1, <2>2, <2>3, <2>4
<1> DEFINE old == UNION {Old(j) : j \in 1 .. 6}
           new == UNION {New_(j) : j \in 1 .. 6}
<1>9. new = {p \in old : p[1] # place} \cup {digits}
  <2> HIDE DEF Old, New_, place, digits
  <2>1. ASSUME NEW p \in new  PROVE p \in {q \in old : q[1] # place} \cup {digits}
    <3>1. PICK j \in 1 .. 6 : p \in New_(j)
      BY <2>1
    <3>2. CASE j = i
      BY <1>8, <3>1, <3>2
    <3>3. CASE j # i
      <4>1. p \in Old(j) /\ p[1] # place
        BY <1>7, <3>1, <3>3
      <4> QED BY <4>1
    <3> QED BY <3>2, <3>3
  <2>2. ASSUME NEW p \in {q \in old : q[1] # place} \cup {digits}  PROVE p \in new
    <3>1. CASE p = digits
      <4>1. p \in New_(i)
        BY <1>8, <3>1
      <4> QED BY <1>6, <4>1
    <3>2. CASE p \in old /\ p[1] # place
      <4>1. PICK j \in 1 .. 6 : p \in Old(j)
        BY <3>2
      <4>2. p \in New_(j)
        BY <1>7, <1>8, <3>2, <4>1
      <4> QED BY <4>2
    <3> QED BY <2>2, <3>1, <3>2
  <2> HIDE DEF old, new
  <2> QED BY <2>1, <2>2
<1> DEFINE t == Part(values, desc, 6)
           used == IF e[6] = 0 THEN 0 ELSE e[6] - 1
<1>10. /\ t = [used |-> used, put |-> old]
       /\ Part(changed, desc, 6) = [used |-> used, put |-> new]
  BY <1>5 DEF Part
<1> HIDE DEF t, old, new, used, digits, place
<1>11. Envoy!Poke(t, place, digit) = [t EXCEPT !.put = {p \in t.put : p[1] # place} \cup {digits}]
  BY DEF Envoy!Poke, digits
<1>12. Envoy!Poke(t, place, digit) = [used |-> used, put |-> new]
  BY <1>9, <1>10, <1>11
<1> QED BY <1>1, <1>5, <1>10, <1>12 DEF changed, place, t, e

(* A template is the text of its zeros.                                    *)
LEMMA TemplateIs ==
  ASSUME NEW desc \in Nat, desc <= 520, NEW v \in {1, 2}
  PROVE  Envoy!Template(desc, v) = Part(Envoy!Zeros(v), desc, 6)
<1> DEFINE z == Envoy!Zeros(v)
           room == Envoy!TemplateRoom
           most == 1
<1>1. z \in Digits /\ z[1] # <<>> /\ \A i \in Envoy!Metric : Len(z[i]) <= most
  BY ZerosAre
<1>2. most \in Nat /\ room \in Nat /\ 6 * (12 + most + desc) <= room
  BY DEF Envoy!TemplateRoom
<1> HIDE DEF z, room, most
<1>3. \A n \in 0 .. 6 : Ends(z, desc)[n] <= 6 * (12 + most + desc) /\ Ends(z, desc)[n] \in Nat
  BY <1>1, <1>2, EndsWithin, EndsAre
<1>4. \A n \in 0 .. 6 : Ends(z, desc)[n] <= room
  BY <1>2, <1>3
<1>5. \A i \in Envoy!Metric : Len(z[i]) <= 13
  <2> SUFFICES ASSUME NEW i \in Envoy!Metric  PROVE Len(z[i]) <= 13
    OBVIOUS
  <2>1. z[i] \in Seq(0 .. 9)
    BY <1>1 DEF Digits
  <2>2. Len(z[i]) \in Nat /\ Len(z[i]) <= 1
    BY <1>1, <2>1 DEF most
  <2> QED BY <2>2
<1>6. Envoy!FormatSlow(room, desc, z) = Part(z, desc, 6)
  BY <1>1, <1>2, <1>4, <1>5, SlowIs
<1>7. Ends(z, desc)[6] > 1
  <2>1. Ends(z, desc)[1] <= Ends(z, desc)[6] /\ Ends(z, desc)[1] # 0
    <3>1. Ends(z, desc)[1] <= Ends(z, desc)[6]
      BY <1>1, EndsAscend
    <3>2. /\ Ends(z, desc)[1] = Ends(z, desc)[0] + Room(z, desc)[1] /\ Ends(z, desc)[0] = 0
      <4>1. 1 \in Envoy!Metric /\ 1 - 1 = 0
        BY DEF Envoy!Metric
      <4> QED BY <1>1, <4>1, EndsAre
    <3>3. Room(z, desc)[1] = Envoy!NameLen[1] + Len(z[1]) + desc + 1
          /\ Envoy!NameLen[1] \in 9 .. 11 /\ Len(z[1]) \in Nat
      <4>1. 1 \in Envoy!Metric
        BY DEF Envoy!Metric
      <4> QED BY <1>1, <4>1, RoomIs
    <3> DEFINE l == Envoy!NameLen[1]
               k == Len(z[1])
               r == Room(z, desc)[1]
    <3>4. r = l + k + desc + 1 /\ l \in 9 .. 11 /\ k \in Nat
      BY <3>3
    <3> HIDE DEF l, k, r
    <3>5. r \in Nat /\ r > 0
      BY <3>4
    <3> QED BY <3>1, <3>2, <3>5 DEF r
  <2>2. Ends(z, desc)[6] \in Nat /\ Ends(z, desc)[1] \in Nat
    BY <1>3
  <2>3. Ends(z, desc)[6] = 0 \/ Ends(z, desc)[6] > 1
    BY <1>1, EndsApart
  <2> QED BY <2>1, <2>2, <2>3
<1>8. Part(z, desc, 6).used > 0
  <2>1. Part(z, desc, 6).used = IF Ends(z, desc)[6] = 0 THEN 0 ELSE Ends(z, desc)[6] - 1
    BY DEF Part
  <2> QED BY <1>3, <1>7, <2>1
<1> QED BY <1>6, <1>8 DEF Envoy!Template, z, room

(* Whichever path writes it, the field holds the digits of all metrics.    *)
LEMMA FormatIs ==
  ASSUME NEW h \in Envoy!Host, NEW values \in Digits, values[1] # <<>>,
         \A i \in Envoy!Metric : Len(values[i]) <= 13
  PROVE  Envoy!Format(Envoy!Settings(h), values) = Part(values, Envoy!DescriptionLen(h), 6)
<1> DEFINE desc == Envoy!DescriptionLen(h)
           s == Envoy!Settings(h)
           v == IF values[3] = <<>> THEN 2 ELSE 1
           z == Envoy!Zeros(v)
           template == s.templates[v]
           T(t, i) == IF v = 2 /\ i = 3 THEN t
                      ELSE Envoy!Poke(t, s.offsets[v][i], values[i])
           slow == Envoy!FormatSlow(Envoy!OutputRoom, desc, values)
           general == \/ \E i \in Envoy!Metric : ~(v = 2 /\ i = 3) /\ Len(values[i]) # 1
                      \/ template.used = 0 \/ template.used > Envoy!OutputRoom
           fast == T(T(T(T(T(T(template, 1), 2), 3), 4), 5), 6)
<1>1. desc \in Nat /\ desc <= 520
  <2>1. desc \in 0 .. 520
    BY ShortDescription
  <2> HIDE DEF desc
  <2> QED BY <2>1
<1>2. s.description = desc /\ v \in {1, 2}
      /\ s.templates[v] = Envoy!Template(desc, v) /\ s.offsets[v] = Envoy!Offsets(v, desc)
  <2> HIDE DEF desc
  <2>1. Envoy!Settings(h) =
          [description |-> desc,
           templates |-> [w \in {1, 2} |-> Envoy!Template(desc, w)],
           offsets |-> [w \in {1, 2} |-> Envoy!Offsets(w, desc)]]
    BY DEF Envoy!Settings, desc
  <2>2. v \in {1, 2}
    OBVIOUS
  <2> HIDE DEF v
  <2> QED BY <2>1, <2>2
<1>3. Envoy!Format(s, values) = IF general THEN slow ELSE fast
  <2>1. Envoy!FormatSlow(Envoy!OutputRoom, s.description, values) = slow
    BY <1>2
  <2> QED BY <2>1, ZenonT(40) DEF Envoy!Format, Envoy!Loop
<1>4. slow = Part(values, desc, 6)
  <2> DEFINE most == 13
             room == Envoy!OutputRoom
  <2>1. most \in Nat /\ room \in Nat /\ 6 * (12 + most + desc) <= room
    <3> HIDE DEF desc
    <3> QED BY <1>1 DEF Envoy!OutputRoom
  <2>2. \A i \in Envoy!Metric : Len(values[i]) <= most
    OBVIOUS
  <2> HIDE DEF desc, room, most
  <2>3. \A n \in 0 .. 6 : Ends(values, desc)[n] <= 6 * (12 + most + desc)
                          /\ Ends(values, desc)[n] \in Nat
    BY <1>1, <2>1, <2>2, EndsWithin, EndsAre
  <2> DEFINE bound == 6 * (12 + most + desc)
  <2>4. bound \in Nat /\ bound <= room
    BY <1>1, <2>1
  <2>5. \A n \in 0 .. 6 : Ends(values, desc)[n] <= bound /\ Ends(values, desc)[n] \in Nat
    BY <2>3
  <2> HIDE DEF bound
  <2>6. ASSUME NEW n \in 0 .. 6  PROVE Ends(values, desc)[n] <= room
    <3> DEFINE x == Ends(values, desc)[n]
    <3>1. x \in Nat /\ x <= bound
      BY <2>5
    <3> HIDE DEF x
    <3>2. x <= room
      BY <2>1, <2>4, <3>1
    <3> QED BY <3>2 DEF x
  <2> QED BY <1>1, <2>1, <2>6, SlowIs DEF room
<1>5. ASSUME ~general  PROVE fast = Part(values, desc, 6)
  <2>1. template = Part(z, desc, 6)
    <3> HIDE DEF desc, s, v
    <3> QED BY <1>1, <1>2, TemplateIs
  <2>2. \A i \in Envoy!Metric : ~(v = 2 /\ i = 3) => Len(values[i]) = 1
    BY <1>5
  <2>3. v = 2 => values[3] = <<>>
    OBVIOUS
  <2>4. \A i \in Envoy!Metric :
          ~(v = 2 /\ i = 3) => s.offsets[v][i] = Ends(z, desc)[i - 1] + Envoy!NameLen[i]
    <3> HIDE DEF desc, s, v
    <3> QED BY <1>1, <1>2, OffsetsPoint
  <2>5. /\ z \in Digits
        /\ \A i \in Envoy!Metric : /\ z[i] = IF v = 2 /\ i = 3 THEN <<>> ELSE <<0>>
    <3> HIDE DEF v
    <3> QED BY <1>2, ZerosAre
  <2> HIDE DEF v, z, desc, s, template
  <2> DEFINE V(n) == [i \in Envoy!Metric |-> IF i <= n THEN values[i] ELSE z[i]]
             P(n) == Part(V(n), desc, 6)
  <2>6. ASSUME NEW n \in 1 .. 6
        PROVE  V(n - 1) \in Digits /\ Room(V(n - 1), desc) = Room(z, desc)
    <3>1. V(n - 1) \in Digits
      <4>1. \A i \in Envoy!Metric : values[i] \in Seq(0 .. 9) /\ z[i] \in Seq(0 .. 9)
        BY <2>5 DEF Digits
      <4> QED BY <4>1 DEF Digits
    <3>2. ASSUME NEW i \in Envoy!Metric
          PROVE  Room(V(n - 1), desc)[i] = Room(z, desc)[i]
      <4> DEFINE x == V(n - 1)[i]
      <4>1. x = values[i] \/ x = z[i]
        OBVIOUS
      <4>2. Room(V(n - 1), desc)[i] = IF x = <<>> THEN 0
                                      ELSE Envoy!NameLen[i] + Len(x) + desc + 1
        BY DEF Room
      <4>3. Room(z, desc)[i] = IF z[i] = <<>> THEN 0
                               ELSE Envoy!NameLen[i] + Len(z[i]) + desc + 1
        BY DEF Room
      <4> HIDE DEF x, V
      <4>4. CASE v = 2 /\ i = 3
        <5>1. values[i] = <<>> /\ z[i] = <<>>
          BY <2>3, <2>5, <4>4
        <5> QED BY <4>1, <4>2, <4>3, <5>1
      <4>5. CASE ~(v = 2 /\ i = 3)
        <5>1. Len(values[i]) = 1 /\ z[i] = <<0>> /\ Len(z[i]) = 1
          <6>1. z[i] = <<0>>
            BY <2>5, <4>5
          <6> QED BY <2>2, <4>5, <6>1
        <5>2. Len(x) = 1
          BY <4>1, <5>1
        <5>3. x # <<>> /\ z[i] # <<>>
          <6>1. ASSUME NEW y, y = <<>>, Len(y) = 1  PROVE FALSE
            <7>1. Len(y) = 0
              BY <6>1
            <7> QED BY <6>1, <7>1
          <6> QED BY <5>1, <5>2, <6>1
        <5> QED BY <4>2, <4>3, <5>1, <5>2, <5>3
      <4> QED BY <4>4, <4>5
    <3>3. /\ Room(V(n - 1), desc) = [i \in Envoy!Metric |-> Room(V(n - 1), desc)[i]]
          /\ Room(z, desc) = [i \in Envoy!Metric |-> Room(z, desc)[i]]
      BY DEF Room
    <3> HIDE DEF V
    <3> QED BY <3>1, <3>2, <3>3
  <2>7. ASSUME NEW n \in 1 .. 6  PROVE T(P(n - 1), n) = P(n)
    <3>1. n \in Envoy!Metric
      BY DEF Envoy!Metric
    <3>2. CASE v = 2 /\ n = 3
      <4>1. values[n] = z[n]
        BY <2>3, <2>5, <3>1, <3>2
      <4>2. \A i \in Envoy!Metric : (i <= n) <=> (i <= n - 1 \/ i = n)
        BY DEF Envoy!Metric
      <4>3. \A i \in Envoy!Metric : V(n)[i] = V(n - 1)[i]
        BY <4>1, <4>2
      <4>4. V(n) = V(n - 1)
        BY <4>3
      <4> HIDE DEF V
      <4> QED BY <3>2, <4>4
    <3>3. CASE ~(v = 2 /\ n = 3)
      <4> DEFINE u == V(n - 1)
      <4>1. u[n] = z[n]
        <5>1. ~(n <= n - 1)
          OBVIOUS
        <5> QED BY <3>1, <5>1
      <4>2. V(n) = [u EXCEPT ![n] = values[n]]
        <5>1. \A i \in Envoy!Metric : (i <= n) <=> (i <= n - 1 \/ i = n)
          BY DEF Envoy!Metric
        <5>2. \A i \in Envoy!Metric : V(n)[i] = [u EXCEPT ![n] = values[n]][i]
          BY <3>1, <5>1
        <5>3. [u EXCEPT ![n] = values[n]] =
                [i \in Envoy!Metric |-> [u EXCEPT ![n] = values[n]][i]]
          OBVIOUS
        <5>4. V(n) = [i \in Envoy!Metric |-> V(n)[i]]
          OBVIOUS
        <5> HIDE DEF V
        <5> QED BY <5>2, <5>3, <5>4
      <4>3. u \in Digits /\ Ends(u, desc) = Ends(z, desc)
        <5> HIDE DEF V
        <5> QED BY <2>6 DEF Ends
      <4>4. Len(u[n]) = 1 /\ Len(values[n]) = 1 /\ values[n] \in Seq(0 .. 9)
        <5>1. z[n] = <<0>>
          BY <2>5, <3>1, <3>3
        <5>2. u[n] = <<0>>
          BY <4>1, <5>1
        <5> HIDE DEF V, u
        <5>3. Len(u[n]) = 1
          BY <5>2
        <5> QED BY <2>2, <3>1, <3>3, <5>3 DEF Digits
      <4>5. s.offsets[v][n] = Ends(u, desc)[n - 1] + Envoy!NameLen[n]
        <5> HIDE DEF V, u
        <5> QED BY <2>4, <3>1, <3>3, <4>3
      <4> HIDE DEF V
      <4>6. Envoy!Poke(Part(u, desc, 6), Ends(u, desc)[n - 1] + Envoy!NameLen[n], values[n])
              = Part([u EXCEPT ![n] = values[n]], desc, 6)
        <5> HIDE DEF u
        <5> QED BY <1>1, <3>1, <4>3, <4>4, PokePlaces
      <4>7. T(P(n - 1), n) = Envoy!Poke(Part(u, desc, 6), s.offsets[v][n], values[n])
        BY <3>3
      <4> HIDE DEF u, T
      <4> QED BY <4>2, <4>5, <4>6, <4>7
    <3> QED BY <3>2, <3>3
  <2>8. P(0) = template
    <3>1. \A i \in Envoy!Metric : ~(i <= 0)
      BY DEF Envoy!Metric
    <3>2. V(0) = [i \in Envoy!Metric |-> z[i]]
      BY <3>1
    <3>3. z = [i \in Envoy!Metric |-> z[i]]
      BY <2>5 DEF Digits
    <3> HIDE DEF V
    <3> QED BY <2>1, <3>2, <3>3
  <2>9. P(6) = Part(values, desc, 6)
    <3>1. \A i \in Envoy!Metric : i <= 6
      BY DEF Envoy!Metric
    <3>2. V(6) = [i \in Envoy!Metric |-> values[i]]
      BY <3>1
    <3>3. values = [i \in Envoy!Metric |-> values[i]]
      BY DEF Digits
    <3> HIDE DEF V
    <3> QED BY <3>2, <3>3
  <2> HIDE DEF T, P
  <2>10. /\ T(P(0), 1) = P(1) /\ T(P(1), 2) = P(2) /\ T(P(2), 3) = P(3) /\ T(P(3), 4) = P(4)
         /\ T(P(4), 5) = P(5) /\ T(P(5), 6) = P(6)
    <3>1. \A i \in 1 .. 6 : T(P(i - 1), i) = P(i)
      BY <2>7
    <3>2. 1 - 1 = 0 /\ 2 - 1 = 1 /\ 3 - 1 = 2 /\ 4 - 1 = 3 /\ 5 - 1 = 4 /\ 6 - 1 = 5
      OBVIOUS
    <3> QED BY <3>1, <3>2
  <2> QED BY <2>8, <2>9, <2>10
<1> HIDE DEF general, fast, slow
<1> QED BY <1>3, <1>4, <1>5 DEF desc, s

(* The field that was sent holds the digits of the request's durations.    *)
EnvoyTold ==
  envoySent # None =>
    envoySent.field = Part(Envoy!Timings(envoySent.intervals), envoyConfig.description, 6)

(* Every step of the program keeps it.                                     *)
LEMMA EnvoyTellsAll == Envoy!Spec => [](EnvoyInv /\ EnvoyTold)
<1>1. Envoy!Init => EnvoyTold
  BY DEF Envoy!Init, EnvoyTold
<1>2. EnvoyInv /\ EnvoyInv' /\ EnvoyTold /\ [Envoy!Next]_(Envoy!vars) => EnvoyTold'
  <2> SUFFICES ASSUME EnvoyInv, EnvoyInv', EnvoyTold, [Envoy!Next]_(Envoy!vars)
               PROVE  EnvoyTold'
    OBVIOUS
  <2>1. CASE UNCHANGED Envoy!vars
    BY <2>1 DEF EnvoyTold, Envoy!vars
  <2>2. CASE Envoy!ProgramInit
    BY <2>2 DEF Envoy!ProgramInit, EnvoyInv, EnvoyTold
  <2>3. CASE Envoy!StreamComplete
    BY <2>3 DEF Envoy!StreamComplete, EnvoyTold
  <2>4. ASSUME NEW d \in EnvoyIntervals, Envoy!ResponseHeaders(d)  PROVE EnvoyTold'
    <3> DEFINE t == Envoy!Format(envoyConfig, Envoy!Timings(d))
    <3>1. envoyConfig = Envoy!Settings(envoyHost) /\ envoyHost \in Envoy!Host
      BY <2>4, EnvoyAssumption DEF Envoy!ResponseHeaders, EnvoyInv
    <3>2. /\ Envoy!Timings(d) \in Digits /\ Envoy!Timings(d)[1] # <<>>
          /\ \A i \in Envoy!Metric : Len(Envoy!Timings(d)[i]) <= 13
      BY TimingsAre
    <3>3. t = Part(Envoy!Timings(d), Envoy!DescriptionLen(envoyHost), 6)
      BY <3>1, <3>2, FormatIs
    <3>4. envoyConfig.description = Envoy!DescriptionLen(envoyHost)
      BY <3>1 DEF Envoy!Settings
    <3>5. envoySent' = [intervals |-> d, field |-> IF t.used > 0 THEN t ELSE None]
          /\ envoyConfig' = envoyConfig
      BY <2>4 DEF Envoy!ResponseHeaders
    <3>6. envoySent'.field = t \/ ~(t.used > 0)
      <4> HIDE DEF t
      <4> QED BY <3>5
    <3>7. t.used > 0
      <4>1. /\ envoyConfig \in Envoy!AllSettings /\ envoyConfig.description \in 0 .. 520
            /\ \A v \in {1, 2} : envoyConfig.templates[v].used \in 1 .. Envoy!TemplateRoom
        BY <3>1, SettingsAre
      <4>2. envoyConfig.description <= 520
        BY <4>1
      <4>3. t.used \in 1 .. Envoy!OutputRoom
        BY <3>2, <4>1, <4>2, FieldFits
      <4> QED BY <4>3, InOutput
    <3> HIDE DEF t
    <3> QED BY <3>3, <3>4, <3>5, <3>6, <3>7 DEF EnvoyTold
  <2> QED BY <2>1, <2>2, <2>3, <2>4 DEF Envoy!Next
<1> QED BY <1>1, <1>2, EnvoyInvariance, PTL DEF Envoy!Spec

(* With it the field is the one the README describes.                      *)
LEMMA EnvoyDescribed == EnvoyInv /\ EnvoyTold => Envoy!FieldIsDescribed
<1> SUFFICES ASSUME EnvoyInv, EnvoyTold, envoySent # None
             PROVE  envoySent.field =
                      Envoy!Described(envoySent.intervals, envoyConfig.description)
  BY DEF Envoy!FieldIsDescribed
<1>1. /\ envoySent.intervals \in EnvoyIntervals /\ envoyConfig = Envoy!Settings(envoyHost)
      /\ envoyHost \in Envoy!Host
  BY EnvoyAssumption DEF EnvoyInv
<1>2. envoyConfig.description \in Nat
  BY <1>1, SettingsAre
<1> QED BY <1>1, <1>2, DescribedIs DEF EnvoyTold

-----------------------------------------------------------------------------
(* What nginx's field says, as the lines that its triples of entries make. *)
Kind == {"headers", "connect", "header", "value", "host", "attempt"}
Entry == Nat \X Kind \X Seq(0 .. 9)
Line == Kind \X Seq(0 .. 9) \X Seq(0 .. 9)

Reads(t, r) ==
  /\ t.put \in Seq(Entry) /\ r \in Seq(Line) /\ Len(t.put) = 3 * Len(r)
  /\ \A k \in 1 .. Len(r) :
       r[k] = <<t.put[3 * k - 2][2], t.put[3 * k - 1][3], t.put[3 * k][3]>>

(* What is read is what the field says.                                    *)
LEMMA ReadsIs ==
  ASSUME NEW t, NEW r, Reads(t, r)
  PROVE  Nginx!Reading(t) = r
<1> DEFINE n == Len(r)
<1>1. n \in Nat /\ Len(t.put) = 3 * n /\ r = [k \in 1 .. n |-> r[k]]
  BY DEF Reads
<1>2. Len(t.put) \div 3 = n
  <2> HIDE DEF n
  <2> QED BY <1>1
<1>3. \A k \in 1 .. n :
        r[k] = <<t.put[3 * k - 2][2], t.put[3 * k - 1][3], t.put[3 * k][3]>>
  BY DEF Reads
<1> HIDE DEF n
<1>4. Nginx!Reading(t) =
        [k \in 1 .. n |-> <<t.put[3 * k - 2][2], t.put[3 * k - 1][3], t.put[3 * k][3]>>]
  BY <1>2 DEF Nginx!Reading
<1> QED BY <1>1, <1>3, <1>4

(* Three more entries are one more line.                                   *)
LEMMA ReadsMore ==
  ASSUME NEW t, NEW r, Reads(t, r), NEW u,
         NEW a \in Entry, NEW b \in Entry, NEW c \in Entry,
         u.put = Append(Append(Append(t.put, a), b), c)
  PROVE  Reads(u, r \o << <<a[2], b[3], c[3]>> >>)
<1> DEFINE p == t.put
           n == Len(r)
           x == <<a[2], b[3], c[3]>>
           q == u.put
           w == r \o <<x>>
<1>1. p \in Seq(Entry) /\ r \in Seq(Line) /\ n \in Nat /\ Len(p) = 3 * n
  BY DEF Reads
<1>2. \A k \in 1 .. n : r[k] = <<p[3 * k - 2][2], p[3 * k - 1][3], p[3 * k][3]>>
  BY DEF Reads
<1>3. x \in Line
  BY DEF Entry, Line
<1>4. q = Append(Append(Append(p, a), b), c)
  OBVIOUS
<1> HIDE DEF p, q, x, n
<1>5. /\ q \in Seq(Entry) /\ Len(q) = Len(p) + 3
      /\ \A k \in 1 .. Len(p) : q[k] = p[k]
      /\ q[Len(p) + 1] = a /\ q[Len(p) + 2] = b /\ q[Len(p) + 3] = c
  <2> DEFINE p1 == Append(p, a)
             p2 == Append(p1, b)
             p3 == Append(p2, c)
  <2>1. /\ p1 \in Seq(Entry) /\ Len(p1) = Len(p) + 1
        /\ \A k \in 1 .. Len(p) : p1[k] = p[k]
        /\ p1[Len(p) + 1] = a
    BY <1>1, AppendProperties
  <2> HIDE DEF p1
  <2>2. /\ p2 \in Seq(Entry) /\ Len(p2) = Len(p1) + 1
        /\ \A k \in 1 .. Len(p1) : p2[k] = p1[k]
        /\ p2[Len(p1) + 1] = b
    BY <2>1, AppendProperties
  <2> HIDE DEF p2
  <2>3. /\ p3 \in Seq(Entry) /\ Len(p3) = Len(p2) + 1
        /\ \A k \in 1 .. Len(p2) : p3[k] = p2[k]
        /\ p3[Len(p2) + 1] = c
    BY <2>2, AppendProperties
  <2>4. q = p3
    BY <1>4 DEF p1, p2
  <2> HIDE DEF p3
  <2>5. Len(p) \in Nat
    BY <1>1
  <2> QED BY <2>1, <2>2, <2>3, <2>4, <2>5, SMTT(30)
<1>6. /\ w \in Seq(Line) /\ Len(w) = n + 1
      /\ \A k \in 1 .. n : w[k] = r[k]
      /\ w[n + 1] = x
  <2>1. Len(r) = n
    BY DEF n
  <2>2. <<x>> \in Seq(Line) /\ Len(<<x>>) = 1 /\ <<x>>[1] = x
    BY <1>3
  <2> QED BY <1>1, <2>1, <2>2
<1>7. Len(q) = 3 * (n + 1)
  BY <1>1, <1>5
<1> HIDE DEF w
<1>8. ASSUME NEW k \in 1 .. n + 1
      PROVE  w[k] = <<q[3 * k - 2][2], q[3 * k - 1][3], q[3 * k][3]>>
  <2>1. CASE k \in 1 .. n
    <3>1. 3 * k - 2 \in 1 .. Len(p) /\ 3 * k - 1 \in 1 .. Len(p) /\ 3 * k \in 1 .. Len(p)
      BY <1>1, <2>1
    <3>2. q[3 * k - 2] = p[3 * k - 2] /\ q[3 * k - 1] = p[3 * k - 1] /\ q[3 * k] = p[3 * k]
      BY <1>5, <3>1
    <3> QED BY <1>2, <1>6, <2>1, <3>2
  <2>2. CASE k = n + 1
    <3>1. 3 * k - 2 = Len(p) + 1 /\ 3 * k - 1 = Len(p) + 2 /\ 3 * k = Len(p) + 3
      BY <1>1, <2>2
    <3>2. q[3 * k - 2] = a /\ q[3 * k - 1] = b /\ q[3 * k] = c
      BY <1>5, <3>1
    <3> QED BY <1>6, <2>2, <3>2 DEF x
  <2> QED BY <1>1, <2>1, <2>2
<1> QED BY <1>5, <1>6, <1>7, <1>8 DEF Reads, w, x, q

(* What is put comes last.                                                 *)
LEMMA PutAdds ==
  ASSUME NEW t, Text(t), NEW size, NEW kind, NEW payload
  PROVE  Nginx!Put(t, size, kind, payload).put = Append(t.put, <<t.used, kind, payload>>)
BY DEF Text, Nginx!Put

(* The line of one metric of an attempt, if it has that time.              *)
Told(s, name, i, time) ==
  IF time = Nginx!NoTime THEN <<>>
  ELSE << <<name, NginxDecimal(time),
            IF Len(s) = 1 THEN <<>> ELSE NginxDecimal(Nginx!AttemptNumber(s, i))>> >>

(* A metric adds its line.                                                 *)
LEMMA MetricTells ==
  ASSUME NEW t, Text(t), NEW d \in Nat, d >= 8, NEW s, NEW i,
         NEW name \in {"connect", "header"},
         NEW time \in NginxTimes \cup {0, Nginx!NoTime},
         Nginx!AttemptNumber(s, i) \in 0 .. MaxStates, NEW r, Reads(t, r)
  PROVE  /\ Reads(Nginx!Metric(t, d, s, i, name, time), r \o Told(s, name, i, time))
         /\ Told(s, name, i, time) \in Seq(Line)
<1>1. CASE time = Nginx!NoTime
  <2>1. Nginx!Metric(t, d, s, i, name, time) = t
    BY <1>1 DEF Nginx!Metric
  <2>2. Told(s, name, i, time) = <<>>
    BY <1>1 DEF Told
  <2>3. r \in Seq(Line)
    BY DEF Reads
  <2>4. r \o <<>> = r /\ <<>> \in Seq(Line)
    BY <2>3
  <2> QED BY <2>1, <2>2, <2>4
<1>2. CASE time # Nginx!NoTime
  <2> DEFINE n == Nginx!AttemptNumber(s, i)
             value == NginxDecimal(time)
             label == NginxDecimal(n)
             t1 == Nginx!Put(t, Nginx!UpstreamName, name, <<>>)
             t2 == Nginx!Number(t1, time)
             t3 == Nginx!Description(t2, d)
             t4 == Nginx!Attempt(t2, d, n)
  <2>1. /\ value \in Seq(0 .. 9) /\ Len(value) \in Nat
        /\ label \in Seq(0 .. 9) /\ Len(label) \in Nat
    BY <1>2, NginxAssumption
  <2>2. Nginx!UpstreamName = 29 /\ Nginx!AttemptWord = 9
    BY DEF Nginx!UpstreamName, Nginx!AttemptWord
  <2>3. Nginx!Metric(t, d, s, i, name, time) = IF Len(s) = 1 THEN t3 ELSE t4
    BY <1>2 DEF Nginx!Metric
  <2>4. Told(s, name, i, time) =
          << <<name, value, IF Len(s) = 1 THEN <<>> ELSE label>> >>
    BY <1>2 DEF Told
  <2> HIDE DEF n
  <2>5. /\ Text(t1) /\ t1.put = Append(t.put, <<t.used, name, <<>>>>)
    BY <2>2, PutIs, PutAdds
  <2> HIDE DEF t1
  <2>6. /\ Text(t2) /\ t2.put = Append(t1.put, <<t1.used, "value", value>>)
    <3>1. Text(t2)
      BY <2>1, <2>5, PutIs DEF Nginx!Number
    <3>2. t2.put = Append(t1.put, <<t1.used, "value", value>>)
      BY <2>5, PutAdds DEF Nginx!Number
    <3> QED BY <3>1, <3>2
  <2> HIDE DEF t2
  <2>7. /\ Text(t3) /\ t3.put = Append(t2.put, <<t2.used, "host", <<>>>>)
    BY <2>6, PutIs, PutAdds DEF Nginx!Description
  <2>8. t4.put = Append(t2.put, <<t2.used, "attempt", label>>)
    BY <2>6, PutAdds DEF Nginx!Attempt
  <2> HIDE DEF t3, t4, value, label
  <2>9. t.used \in Nat /\ t1.used \in Nat /\ t2.used \in Nat /\ <<>> \in Seq(0 .. 9)
    BY <2>5, <2>6 DEF Text
  <2> DEFINE a == <<t.used, name, <<>>>>
             b == <<t1.used, "value", value>>
             c3 == <<t2.used, "host", <<>>>>
             c4 == <<t2.used, "attempt", label>>
  <2>10. a \in Entry /\ b \in Entry /\ c3 \in Entry /\ c4 \in Entry
    BY <2>1, <2>9 DEF Entry, Kind
  <2>11. a[2] = name /\ b[3] = value /\ c3[3] = <<>> /\ c4[3] = label
    OBVIOUS
  <2>12. /\ t3.put = Append(Append(Append(t.put, a), b), c3)
         /\ t4.put = Append(Append(Append(t.put, a), b), c4)
    BY <2>5, <2>6, <2>7, <2>8
  <2> HIDE DEF a, b, c3, c4
  <2>13. Reads(t3, r \o << <<name, value, <<>>>> >>)
    <3>1. Reads(t3, r \o << <<a[2], b[3], c3[3]>> >>)
      BY <2>10, <2>12, ReadsMore
    <3> QED BY <2>11, <3>1
  <2>14. Reads(t4, r \o << <<name, value, label>> >>)
    <3>1. Reads(t4, r \o << <<a[2], b[3], c4[3]>> >>)
      BY <2>10, <2>12, ReadsMore
    <3> QED BY <2>11, <3>1
  <2>15. <<name, value, <<>>>> \in Line /\ <<name, value, label>> \in Line
    BY <2>1, <2>9 DEF Line, Kind
  <2>16. CASE Len(s) = 1
    <3>1. Told(s, name, i, time) = << <<name, value, <<>>>> >>
      BY <2>4, <2>16
    <3> QED BY <2>3, <2>13, <2>15, <2>16, <3>1
  <2>17. CASE Len(s) # 1
    <3>1. Told(s, name, i, time) = << <<name, value, label>> >>
      BY <2>4, <2>17
    <3> QED BY <2>3, <2>14, <2>15, <2>17, <3>1
  <2> QED BY <2>16, <2>17
<1> QED BY <1>1, <1>2

(* The lines of one attempt.                                               *)
Turned(s, i) ==
  IF ~s[i].peer THEN <<>>
  ELSE Told(s, "connect", i, s[i].connect_time) \o Told(s, "header", i, s[i].header_time)

(* A turn adds the lines of its attempt.                                   *)
LEMMA TurnTells ==
  ASSUME NEW s \in Seq(State), Len(s) <= MaxStates, NEW i \in 1 .. Len(s),
         NEW t, Text(t), NEW d \in Nat, d >= 8, NEW r, Reads(t, r)
  PROVE  /\ Reads(Nginx!Turn(t, d, s, i), r \o Turned(s, i))
         /\ Turned(s, i) \in Seq(Line)
<1>1. Nginx!AttemptNumber(s, i) \in 0 .. MaxStates
  BY NumberIs
<1>2. /\ s[i].connect_time \in NginxTimes \cup {0, Nginx!NoTime}
      /\ s[i].header_time \in NginxTimes \cup {0, Nginx!NoTime}
  <2>1. s[i] \in State
    OBVIOUS
  <2> QED BY <2>1 DEF State
<1> DEFINE m1 == Nginx!Metric(t, d, s, i, "connect", s[i].connect_time)
           m2 == Nginx!Metric(m1, d, s, i, "header", s[i].header_time)
           l1 == Told(s, "connect", i, s[i].connect_time)
           l2 == Told(s, "header", i, s[i].header_time)
<1>3. r \in Seq(Line)
  BY DEF Reads
<1>4. Text(m1)
  BY <1>1, <1>2, MetricAdds
<1>5. Reads(m1, r \o l1) /\ l1 \in Seq(Line)
  BY <1>1, <1>2, MetricTells
<1> HIDE DEF m1, l1
<1>6. Reads(m2, (r \o l1) \o l2) /\ l2 \in Seq(Line)
  BY <1>1, <1>2, <1>4, <1>5, MetricTells
<1>7. Nginx!Turn(t, d, s, i) = IF ~s[i].peer THEN t ELSE m2
  BY DEF Nginx!Turn, m1
<1>8. Turned(s, i) = IF ~s[i].peer THEN <<>> ELSE l1 \o l2
  BY DEF Turned, l1
<1> HIDE DEF m2, l2
<1>9. (r \o l1) \o l2 = r \o (l1 \o l2)
  <2>1. r \in Seq(Line) /\ l1 \in Seq(Line) /\ l2 \in Seq(Line)
    BY <1>3, <1>5, <1>6
  <2>2. ASSUME NEW S, NEW x \in Seq(S), NEW y \in Seq(S), NEW z \in Seq(S)
        PROVE  (x \o y) \o z = x \o (y \o z)
    BY ConcatAssociative, SMTT(30)
  <2> HIDE DEF l2
  <2> QED BY <2>1, <2>2, SMTT(30)
<1>10. CASE ~s[i].peer
  <2>1. r \o <<>> = r /\ <<>> \in Seq(Line)
    BY <1>3
  <2> QED BY <1>7, <1>8, <1>10, <2>1
<1>11. CASE s[i].peer
  <2>1. l1 \o l2 \in Seq(Line)
    BY <1>5, <1>6
  <2> QED BY <1>6, <1>7, <1>8, <1>9, <1>11, <2>1
<1> QED BY <1>10, <1>11

(* The line of the time to the headers.                                    *)
HeadersLine(elapsed) ==
  << <<"headers", NginxDecimal(IF elapsed < 0 THEN 0 ELSE elapsed), <<>>>> >>

(* The lines of the first states, each after those before it.              *)
LinesOf(told, s, elapsed) ==
  /\ told[0] = HeadersLine(elapsed)
  /\ \A i \in 1 .. Len(s) : told[i] = told[i - 1] \o Turned(s, i)
  /\ Nginx!Truth(s, elapsed) = told[Len(s)]

(* The truth has such lines, whatever the states.                          *)
LEMMA TruthIs ==
  ASSUME NEW s \in Seq(State), NEW elapsed
  PROVE  \E told : LinesOf(told, s, elapsed)
<1> DEFINE count == Len(s)
           zeroth == HeadersLine(elapsed)
           label(i) == IF Len(s) = 1 THEN <<>>
                       ELSE NginxDecimal(Nginx!Cardinality({k \in 1 .. i : s[k].peer}))
           line(name, i, t) == IF t = Nginx!NoTime THEN <<>>
                               ELSE << <<name, NginxDecimal(t), label(i)>> >>
           more(i) == IF ~s[i].peer THEN <<>>
                      ELSE line("connect", i, s[i].connect_time)
                             \o line("header", i, s[i].header_time)
           And(x, y) == x \o y
           Rest(f, i) == And(f[i - 1], more(i))
           Is(f, m) == f = [i \in 0 .. m |-> IF i = 0 THEN zeroth ELSE Rest(f, i)]
           told == CHOOSE f : Is(f, count)
<1>1. count \in Nat
  OBVIOUS
<1>2. Nginx!Truth(s, elapsed) = told[count]
  BY DEF Nginx!Truth, HeadersLine
<1>3. \A i : more(i) = Turned(s, i)
  BY DEF Turned, Told, Nginx!AttemptNumber
<1> HIDE DEF more, zeroth, And
<1>4. \E f : Is(f, count)
  <2> DEFINE T == {m \in 0 .. count : \E f : Is(f, m)}
  <2>1. 0 \in T
    <3> DEFINE f == [i \in 0 .. 0 |-> zeroth]
    <3>1. ASSUME NEW i \in 0 .. 0  PROVE f[i] = IF i = 0 THEN zeroth ELSE Rest(f, i)
      <4>1. i = 0
        OBVIOUS
      <4> QED BY <4>1
    <3>2. Is(f, 0)
      BY <3>1
    <3> HIDE DEF f, Is
    <3>3. \E g : Is(g, 0)
      BY <3>2
    <3> QED BY <1>1, <3>3
  <2>2. ASSUME NEW m \in 0 .. count - 1, m \in T  PROVE m + 1 \in T
    <3>1. PICK f : Is(f, m)
      BY <2>2
    <3> DEFINE g == [i \in 0 .. m + 1 |-> IF i <= m THEN f[i] ELSE Rest(f, m + 1)]
    <3>2. Is(g, m + 1)
      <4>1. ASSUME NEW i \in 0 .. m + 1
            PROVE  g[i] = IF i = 0 THEN zeroth ELSE Rest(g, i)
        <5>1. CASE i = 0
          BY <3>1, <5>1
        <5>2. CASE i \in 1 .. m
          <6>1. f[i] = Rest(f, i) /\ g[i - 1] = f[i - 1] /\ g[i] = f[i]
            BY <3>1, <5>2
          <6> QED BY <5>2, <6>1
        <5>3. CASE i = m + 1
          <6>1. g[m] = f[m] /\ (m + 1) - 1 = m
            OBVIOUS
          <6> QED BY <5>3, <6>1
        <5> QED BY <5>1, <5>2, <5>3
      <4> QED BY <4>1
    <3>3. m + 1 \in 0 .. count
      BY <1>1
    <3> QED BY <3>2, <3>3
  <2> HIDE DEF T
  <2>3. \A n \in 0 .. count : n \in T
    BY <1>1, <2>1, <2>2, UpTo
  <2>4. count \in T
    BY <1>1, <2>3
  <2> QED BY <2>4 DEF T
<1>5. Is(told, count)
  BY <1>4
<1>6. told[0] = zeroth /\ \A i \in 1 .. count : told[i] = And(told[i - 1], more(i))
  <2> HIDE DEF told, zeroth, more
  <2> QED BY <1>1, <1>5
<1> HIDE DEF told, Is, Rest
<1>7. \A i \in 1 .. count : told[i] = told[i - 1] \o Turned(s, i)
  BY <1>3, <1>6 DEF And
<1>8. LinesOf(told, s, elapsed)
  BY <1>2, <1>6, <1>7 DEF zeroth, LinesOf
<1> QED BY <1>8

(* The first line of the field is the time to the headers.                 *)
LEMMA HeadersTell ==
  ASSUME NEW s \in Seq(State), NEW d \in Nat, d >= 8, NEW elapsed \in NginxTimes \cup {0}
  PROVE  LET t == Nginx!Headers(d, s, elapsed)
         IN Text(t) /\ Reads(t, << <<"headers", NginxDecimal(elapsed), <<>>>> >>)
<1> DEFINE c == Nginx!Capacity(d, Len(s))
           b0 == Nginx!Buffer(c)
           b1 == Nginx!Put(b0, Nginx!HeadersName, "headers", <<>>)
           b2 == Nginx!Number(b1, elapsed)
           b3 == Nginx!Description(b2, d)
           value == NginxDecimal(elapsed)
<1>1. c \in Nat
  <2>1. Len(s) \in Nat /\ 256 + 2 * d \in Nat
    OBVIOUS
  <2>2. Len(s) * (256 + 2 * d) \in Nat
    BY <2>1
  <2> QED BY <2>2 DEF Nginx!Capacity
<1>2. value \in Seq(0 .. 9) /\ Len(value) \in Nat
  BY NginxAssumption
<1>3. Nginx!Headers(d, s, elapsed) = b3
  BY DEF Nginx!Headers
<1> HIDE DEF c
<1>4. Text(b0) /\ Reads(b0, <<>>)
  <2>1. b0.put = <<>> /\ Len(<<>>) = 0 /\ <<>> \in Seq(Entry) /\ <<>> \in Seq(Line)
        /\ \A k \in 1 .. Len(<<>>) : FALSE
    BY DEF Nginx!Buffer
  <2>2. Text(b0)
    BY <1>1 DEF Nginx!Buffer, Text
  <2> HIDE DEF b0
  <2> QED BY <2>1, <2>2 DEF Reads
<1> HIDE DEF b0
<1>5. Text(b1) /\ b1.put = Append(b0.put, <<b0.used, "headers", <<>>>>)
  <2>1. Nginx!HeadersName \in Nat
    BY DEF Nginx!HeadersName
  <2> QED BY <1>4, <2>1, PutIs, PutAdds
<1> HIDE DEF b1
<1>6. Text(b2) /\ b2.put = Append(b1.put, <<b1.used, "value", value>>)
  <2>1. Text(b2)
    BY <1>2, <1>5, PutIs DEF Nginx!Number
  <2>2. b2.put = Append(b1.put, <<b1.used, "value", value>>)
    BY <1>5, PutAdds DEF Nginx!Number
  <2> QED BY <2>1, <2>2
<1> HIDE DEF b2
<1>7. Text(b3) /\ b3.put = Append(b2.put, <<b2.used, "host", <<>>>>)
  BY <1>6, PutIs, PutAdds DEF Nginx!Description
<1> HIDE DEF b3, value
<1> DEFINE x == <<b0.used, "headers", <<>>>>
           y == <<b1.used, "value", value>>
           z == <<b2.used, "host", <<>>>>
<1>8. x \in Entry /\ y \in Entry /\ z \in Entry
  <2>1. b0.used \in Nat /\ b1.used \in Nat /\ b2.used \in Nat /\ <<>> \in Seq(0 .. 9)
    BY <1>4, <1>5, <1>6 DEF Text
  <2> QED BY <1>2, <2>1 DEF Entry, Kind
<1>9. x[2] = "headers" /\ y[3] = value /\ z[3] = <<>>
  OBVIOUS
<1>10. b3.put = Append(Append(Append(b0.put, x), y), z)
  BY <1>5, <1>6, <1>7
<1> HIDE DEF x, y, z
<1>11. Reads(b3, <<>> \o << <<x[2], y[3], z[3]>> >>)
  BY <1>4, <1>8, <1>10, ReadsMore
<1>12. <<>> \o << <<x[2], y[3], z[3]>> >> = << <<"headers", value, <<>>>> >>
  BY <1>9
<1> QED BY <1>3, <1>7, <1>11, <1>12 DEF value

(* The general form tells what happened.                                   *)
LEMMA GeneralTells ==
  ASSUME NEW s \in Seq(State), Len(s) <= MaxStates, NEW d \in Nat, d >= 8,
         NEW n, Nginx!Elapsed(n) \in NginxTimes \cup {0}
  PROVE  Reads(Nginx!General(d, s, Nginx!Elapsed(n)), Nginx!Truth(s, n))
<1> DEFINE e == Nginx!Elapsed(n)
           count == Len(s)
<1>1. e = IF n < 0 THEN 0 ELSE n
  BY DEF Nginx!Elapsed
<1>2. e \in NginxTimes \cup {0}
  OBVIOUS
<1> HIDE DEF e
<1>3. PICK after : TextsOf(after, d, s, e)
  BY GeneralIs
<1>4. /\ after[0] = Nginx!Headers(d, s, e)
      /\ \A i \in 1 .. count : after[i] = Nginx!Turn(after[i - 1], d, s, i)
      /\ Nginx!General(d, s, e) = after[count]
  BY <1>3 DEF TextsOf
<1>5. PICK told : LinesOf(told, s, n)
  BY TruthIs
<1>6. /\ told[0] = << <<"headers", NginxDecimal(IF n < 0 THEN 0 ELSE n), <<>>>> >>
      /\ \A i \in 1 .. count : told[i] = told[i - 1] \o Turned(s, i)
      /\ Nginx!Truth(s, n) = told[count]
  BY <1>5 DEF LinesOf, HeadersLine
<1>7. Text(after[0]) /\ Reads(after[0], told[0])
  BY <1>1, <1>2, <1>4, <1>6, HeadersTell
<1>8. count \in Nat
  OBVIOUS
<1> DEFINE T == {i \in 0 .. count : Text(after[i]) /\ Reads(after[i], told[i])}
<1>9. 0 \in T
  BY <1>7, <1>8
<1>10. ASSUME NEW i \in 0 .. count - 1, i \in T  PROVE i + 1 \in T
  <2>1. i + 1 \in 1 .. count /\ (i + 1) - 1 = i
    BY <1>8
  <2>2. Text(after[i]) /\ Reads(after[i], told[i])
    BY <1>10
  <2>3. after[i + 1] = Nginx!Turn(after[i], d, s, i + 1)
    BY <1>4, <2>1
  <2>4. told[i + 1] = told[i] \o Turned(s, i + 1)
    BY <1>6, <2>1
  <2>5. Text(after[i + 1])
    BY <2>1, <2>2, <2>3, TurnAdds
  <2>6. Reads(after[i + 1], told[i + 1])
    BY <2>1, <2>2, <2>3, <2>4, TurnTells
  <2> QED BY <2>1, <2>5, <2>6
<1> HIDE DEF T
<1>11. \A i \in 0 .. count : i \in T
  BY <1>8, <1>9, <1>10, UpTo
<1>12. count \in T
  BY <1>8, <1>11
<1> QED BY <1>4, <1>6, <1>12 DEF T, e

(* The fast template: three metrics of one digit.                          *)
IsNine(p, d, a, b, c) ==
  /\ p \in Seq(Entry) /\ Len(p) = 9
  /\ p[1] = <<0, "headers", <<>>>> /\ p[2] = <<18, "value", <<a>>>>
  /\ p[3] = <<19, "host", <<>>>> /\ p[4] = <<19 + d, "connect", <<>>>>
  /\ p[5] = <<48 + d, "value", <<b>>>> /\ p[6] = <<49 + d, "host", <<>>>>
  /\ p[7] = <<49 + 2 * d, "header", <<>>>> /\ p[8] = <<78 + 2 * d, "value", <<c>>>>
  /\ p[9] = <<79 + 2 * d, "host", <<>>>>

(* The configuration has that template and the places of its digits.       *)
LEMMA FastIs ==
  ASSUME NEW h \in [plain : Nat, escaped : Nat, control : Nat]
  PROVE  LET c == Nginx!InitConfig(h)
         IN /\ c.description \in Nat /\ c.description >= 8
            /\ Text(c.fast) /\ c.fast.used = 79 + 3 * c.description
            /\ IsNine(c.fast.put, c.description, 0, 0, 0)
            /\ c.digits = <<18, 48 + c.description, 78 + 2 * c.description>>
<1> DEFINE d == Nginx!DescriptionLen(h)
           f0 == Nginx!Buffer(128 + 3 * d)
           t1 == Nginx!Put(f0, Nginx!HeadersName, "headers", <<>>)
           z1 == Nginx!Zero(t1)
           e1 == Nginx!Description(z1, d)
           t2 == Nginx!Put(e1, Nginx!UpstreamName, "connect", <<>>)
           z2 == Nginx!Zero(t2)
           e2 == Nginx!Description(z2, d)
           t3 == Nginx!Put(e2, Nginx!UpstreamName, "header", <<>>)
           z3 == Nginx!Zero(t3)
           fast == Nginx!Description(z3, d)
<1>1. Nginx!InitConfig(h).description = d /\ Nginx!InitConfig(h).fast = fast
      /\ Nginx!InitConfig(h).digits = <<t1.used, t2.used, t3.used>>
  BY DEF Nginx!InitConfig
<1>2. d \in Nat /\ d >= 8
  <2>1. Nginx!InitConfig(h).description \in Nat /\ Nginx!InitConfig(h).description >= 8
    BY ConfigFits
  <2> HIDE DEF d
  <2> QED BY <1>1, <2>1
<1> HIDE DEF d
<1>3. Nginx!HeadersName = 18 /\ Nginx!UpstreamName = 29
  BY DEF Nginx!HeadersName, Nginx!UpstreamName
<1>4. ASSUME NEW t, Text(t)
      PROVE  /\ Text(Nginx!Zero(t)) /\ Nginx!Zero(t).used = t.used + 1
             /\ Nginx!Zero(t).put = Append(t.put, <<t.used, "value", <<0>>>>)
             /\ Text(Nginx!Description(t, d)) /\ Nginx!Description(t, d).used = t.used + d
             /\ Nginx!Description(t, d).put = Append(t.put, <<t.used, "host", <<>>>>)
  BY <1>2, <1>4, PutIs, PutAdds DEF Nginx!Zero, Nginx!Description
<1>5. Text(f0) /\ f0.used = 0 /\ f0.put = <<>>
  <2>1. 128 + 3 * d \in Nat
    BY <1>2
  <2> QED BY <2>1 DEF Nginx!Buffer, Text
<1> HIDE DEF f0
<1> DEFINE x1 == <<0, "headers", <<>>>>
           x2 == <<18, "value", <<0>>>>
           x3 == <<19, "host", <<>>>>
           x4 == <<19 + d, "connect", <<>>>>
           x5 == <<48 + d, "value", <<0>>>>
           x6 == <<49 + d, "host", <<>>>>
           x7 == <<49 + 2 * d, "header", <<>>>>
           x8 == <<78 + 2 * d, "value", <<0>>>>
           x9 == <<79 + 2 * d, "host", <<>>>>
<1>6. Text(t1) /\ t1.used = 18 /\ t1.put = Append(<<>>, x1)
  <2>1. Text(t1) /\ t1.used = 18
    BY <1>3, <1>5, PutIs
  <2>2. t1.put = Append(f0.put, <<f0.used, "headers", <<>>>>)
    <3>1. ASSUME NEW t, Text(t)
          PROVE  Nginx!Put(t, 18, "headers", <<>>).put =
                   Append(t.put, <<t.used, "headers", <<>>>>)
      BY <3>1, PutAdds, SMTT(30)
    <3>2. Text(f0)
      BY <1>5
    <3>3. Nginx!Put(f0, 18, "headers", <<>>).put =
            Append(f0.put, <<f0.used, "headers", <<>>>>)
      BY <3>1, <3>2
    <3> QED BY <1>3, <3>3
  <2> HIDE DEF t1
  <2> QED BY <1>5, <2>1, <2>2
<1> HIDE DEF t1
<1>7. Text(z1) /\ z1.used = 19 /\ z1.put = Append(t1.put, x2)
  <2>1. Text(z1) /\ z1.used = t1.used + 1
        /\ z1.put = Append(t1.put, <<t1.used, "value", <<0>>>>)
    BY <1>4, <1>6
  <2> HIDE DEF z1
  <2> QED BY <1>6, <2>1
<1> HIDE DEF z1
<1>8. Text(e1) /\ e1.used = 19 + d /\ e1.put = Append(z1.put, x3)
  BY <1>4, <1>7
<1> HIDE DEF e1
<1>9. Text(t2) /\ t2.used = 48 + d /\ t2.put = Append(e1.put, x4)
  <2>1. Text(t2) /\ t2.used = e1.used + 29
    BY <1>3, <1>8, PutIs
  <2>2. t2.put = Append(e1.put, <<e1.used, "connect", <<>>>>)
    BY <1>8, PutAdds
  <2> HIDE DEF t2
  <2> QED BY <1>2, <1>8, <2>1, <2>2
<1> HIDE DEF t2
<1>10. Text(z2) /\ z2.used = 49 + d /\ z2.put = Append(t2.put, x5)
  <2>1. Text(z2) /\ z2.used = t2.used + 1
        /\ z2.put = Append(t2.put, <<t2.used, "value", <<0>>>>)
    BY <1>4, <1>9
  <2> HIDE DEF z2
  <2> QED BY <1>2, <1>9, <2>1
<1> HIDE DEF z2
<1>11. Text(e2) /\ e2.used = 49 + 2 * d /\ e2.put = Append(z2.put, x6)
  <2>1. Text(e2) /\ e2.used = z2.used + d /\ e2.put = Append(z2.put, <<z2.used, "host", <<>>>>)
    BY <1>4, <1>10
  <2> HIDE DEF e2
  <2> QED BY <1>2, <1>10, <2>1
<1> HIDE DEF e2
<1>12. Text(t3) /\ t3.used = 78 + 2 * d /\ t3.put = Append(e2.put, x7)
  <2>1. Text(t3) /\ t3.used = e2.used + 29
    BY <1>3, <1>11, PutIs
  <2>2. t3.put = Append(e2.put, <<e2.used, "header", <<>>>>)
    BY <1>11, PutAdds
  <2> HIDE DEF t3
  <2> QED BY <1>2, <1>11, <2>1, <2>2
<1> HIDE DEF t3
<1>13. Text(z3) /\ z3.used = 79 + 2 * d /\ z3.put = Append(t3.put, x8)
  <2>1. Text(z3) /\ z3.used = t3.used + 1
        /\ z3.put = Append(t3.put, <<t3.used, "value", <<0>>>>)
    BY <1>4, <1>12
  <2> HIDE DEF z3
  <2> QED BY <1>2, <1>12, <2>1
<1> HIDE DEF z3
<1>14. Text(fast) /\ fast.used = 79 + 3 * d /\ fast.put = Append(z3.put, x9)
  <2>1. Text(fast) /\ fast.used = z3.used + d
        /\ fast.put = Append(z3.put, <<z3.used, "host", <<>>>>)
    BY <1>4, <1>13
  <2> HIDE DEF fast
  <2> QED BY <1>2, <1>13, <2>1
<1> HIDE DEF fast
<1>15. /\ x1 \in Entry /\ x2 \in Entry /\ x3 \in Entry /\ x4 \in Entry /\ x5 \in Entry
       /\ x6 \in Entry /\ x7 \in Entry /\ x8 \in Entry /\ x9 \in Entry
  <2>1. <<>> \in Seq(0 .. 9) /\ <<0>> \in Seq(0 .. 9)
    OBVIOUS
  <2>2. 19 + d \in Nat /\ 48 + d \in Nat /\ 49 + d \in Nat /\ 49 + 2 * d \in Nat
        /\ 78 + 2 * d \in Nat /\ 79 + 2 * d \in Nat
    BY <1>2
  <2> QED BY <2>1, <2>2 DEF Entry, Kind
<1> DEFINE First(p, n) == /\ p \in Seq(Entry) /\ Len(p) = n
                          /\ n >= 1 => p[1] = x1
                          /\ n >= 2 => p[2] = x2
                          /\ n >= 3 => p[3] = x3
                          /\ n >= 4 => p[4] = x4
                          /\ n >= 5 => p[5] = x5
                          /\ n >= 6 => p[6] = x6
                          /\ n >= 7 => p[7] = x7
                          /\ n >= 8 => p[8] = x8
                          /\ n >= 9 => p[9] = x9
<1> HIDE DEF x1, x2, x3, x4, x5, x6, x7, x8, x9
<1>16. First(fast.put, 9)
  <2> DEFINE p0 == <<>>
  <2>1. First(p0, 0)
    OBVIOUS
  <2> HIDE DEF p0
  <2>2. ASSUME NEW p, NEW n \in 0 .. 8, First(p, n), NEW x \in Entry,
               x = IF n = 0 THEN x1 ELSE IF n = 1 THEN x2 ELSE IF n = 2 THEN x3
                   ELSE IF n = 3 THEN x4 ELSE IF n = 4 THEN x5 ELSE IF n = 5 THEN x6
                   ELSE IF n = 6 THEN x7 ELSE IF n = 7 THEN x8 ELSE x9
        PROVE  First(Append(p, x), n + 1)
    <3>1. /\ Append(p, x) \in Seq(Entry) /\ Len(Append(p, x)) = n + 1
          /\ \A i \in 1 .. n : Append(p, x)[i] = p[i]
          /\ Append(p, x)[n + 1] = x
      BY <2>2, AppendProperties
    <3> DEFINE q == Append(p, x)
    <3> HIDE DEF q
    <3>2. /\ q \in Seq(Entry) /\ Len(q) = n + 1
          /\ \A i \in 1 .. n : q[i] = p[i]
          /\ q[n + 1] = x
      BY <3>1 DEF q
    <3>3. n \in {0, 1, 2, 3, 4, 5, 6, 7, 8}
      OBVIOUS
    <3>4. First(q, n + 1)
      BY <2>2, <3>2, <3>3
    <3> QED BY <3>4 DEF q
  <2> HIDE DEF First
  <2>3. First(t1.put, 1)
    <3>1. First(Append(p0, x1), 0 + 1)
      BY <1>15, <2>2, <2>1
    <3> QED BY <1>6, <3>1 DEF p0
  <2>4. First(z1.put, 2)
    <3>1. First(Append(t1.put, x2), 1 + 1)
      BY <1>15, <2>2, <2>3
    <3> QED BY <1>7, <3>1
  <2>5. First(e1.put, 3)
    <3>1. First(Append(z1.put, x3), 2 + 1)
      BY <1>15, <2>2, <2>4
    <3> QED BY <1>8, <3>1
  <2>6. First(t2.put, 4)
    <3>1. First(Append(e1.put, x4), 3 + 1)
      BY <1>15, <2>2, <2>5
    <3> QED BY <1>9, <3>1
  <2>7. First(z2.put, 5)
    <3>1. First(Append(t2.put, x5), 4 + 1)
      BY <1>15, <2>2, <2>6
    <3> QED BY <1>10, <3>1
  <2>8. First(e2.put, 6)
    <3>1. First(Append(z2.put, x6), 5 + 1)
      BY <1>15, <2>2, <2>7
    <3> QED BY <1>11, <3>1
  <2>9. First(t3.put, 7)
    <3>1. First(Append(e2.put, x7), 6 + 1)
      BY <1>15, <2>2, <2>8
    <3> QED BY <1>12, <3>1
  <2>10. First(z3.put, 8)
    <3>1. First(Append(t3.put, x8), 7 + 1)
      BY <1>15, <2>2, <2>9
    <3> QED BY <1>13, <3>1
  <2>11. First(fast.put, 9)
    <3>1. First(Append(z3.put, x9), 8 + 1)
      BY <1>15, <2>2, <2>10
    <3> QED BY <1>14, <3>1
  <2> QED BY <2>11
<1>17. fast.put \in Seq(Entry) /\ Len(fast.put) = 9
       /\ fast.put[1] = x1 /\ fast.put[2] = x2 /\ fast.put[3] = x3 /\ fast.put[4] = x4
       /\ fast.put[5] = x5 /\ fast.put[6] = x6 /\ fast.put[7] = x7 /\ fast.put[8] = x8
       /\ fast.put[9] = x9
  BY <1>16
<1>18. IsNine(fast.put, d, 0, 0, 0)
  BY <1>17 DEF IsNine, x1, x2, x3, x4, x5, x6, x7, x8, x9
<1> HIDE DEF First
<1> QED BY <1>1, <1>2, <1>6, <1>9, <1>12, <1>14, <1>18

(* A digit at the place of one entry replaces that entry.                  *)
LEMMA PokeIs ==
  ASSUME NEW t, Text(t), DOMAIN t.put = 1 .. 9, NEW j \in 1 .. 9, NEW pos,
         t.put[j][1] = pos, \A k \in 1 .. 9 : k # j => t.put[k][1] # pos, NEW digit
  PROVE  LET u == Nginx!Poke(t, pos, digit)
         IN /\ Text(u) /\ u.used = t.used
            /\ u.put = [k \in 1 .. 9 |-> IF k = j THEN <<pos, "value", <<digit>>>>
                                         ELSE t.put[k]]
<1> DEFINE at == {k \in DOMAIN t.put : t.put[k][1] = pos}
           x == <<pos, "value", <<digit>>>>
           put == IF at = {} THEN Append(t.put, x)
                  ELSE [k \in DOMAIN t.put |-> IF k \in at THEN x ELSE t.put[k]]
<1>1. at = {j}
  OBVIOUS
<1>2. Nginx!Poke(t, pos, digit) = [t EXCEPT !.put = put]
  BY DEF Nginx!Poke
<1> HIDE DEF at, x
<1>3. put = [k \in 1 .. 9 |-> IF k = j THEN x ELSE t.put[k]]
  BY <1>1
<1> HIDE DEF put
<1> QED BY <1>2, <1>3 DEF Text, x

(* Each poke sets its digit.                                               *)
LEMMA PokesAre ==
  ASSUME NEW d \in Nat, d >= 8, NEW t, Text(t), NEW a, NEW b, NEW c, NEW n \in 0 .. 9,
         IsNine(t.put, d, a, b, c)
  PROVE  /\ LET u == Nginx!Poke(t, 18, n) IN Text(u) /\ IsNine(u.put, d, n, b, c)
         /\ LET u == Nginx!Poke(t, 48 + d, n) IN Text(u) /\ IsNine(u.put, d, a, n, c)
         /\ LET u == Nginx!Poke(t, 78 + 2 * d, n) IN Text(u) /\ IsNine(u.put, d, a, b, n)
<1> DEFINE p == t.put
<1>1. /\ p \in Seq(Entry) /\ Len(p) = 9
      /\ p[1] = <<0, "headers", <<>>>> /\ p[2] = <<18, "value", <<a>>>>
      /\ p[3] = <<19, "host", <<>>>> /\ p[4] = <<19 + d, "connect", <<>>>>
      /\ p[5] = <<48 + d, "value", <<b>>>> /\ p[6] = <<49 + d, "host", <<>>>>
      /\ p[7] = <<49 + 2 * d, "header", <<>>>> /\ p[8] = <<78 + 2 * d, "value", <<c>>>>
      /\ p[9] = <<79 + 2 * d, "host", <<>>>>
  BY DEF IsNine
<1> HIDE DEF p
<1>2. DOMAIN p = 1 .. 9
  BY <1>1
<1>3. /\ p[1][1] = 0 /\ p[2][1] = 18 /\ p[3][1] = 19 /\ p[4][1] = 19 + d /\ p[5][1] = 48 + d
      /\ p[6][1] = 49 + d /\ p[7][1] = 49 + 2 * d /\ p[8][1] = 78 + 2 * d
      /\ p[9][1] = 79 + 2 * d
  BY <1>1
<1>4. \A k \in 1 .. 9 : k \in {1, 2, 3, 4, 5, 6, 7, 8, 9}
  OBVIOUS
<1>5. \A k \in 1 .. 9 : /\ k # 2 => p[k][1] # 18
                        /\ k # 5 => p[k][1] # 48 + d
                        /\ k # 8 => p[k][1] # 78 + 2 * d
  BY <1>3, <1>4
<1> DEFINE R(j, x) == [k \in 1 .. 9 |-> IF k = j THEN x ELSE p[k]]
<1>6. <<n>> \in Seq(0 .. 9)
  OBVIOUS
<1>7. ASSUME NEW j \in 1 .. 9, NEW x \in Entry
      PROVE  /\ R(j, x) \in Seq(Entry) /\ Len(R(j, x)) = 9
             /\ \A k \in 1 .. 9 : R(j, x)[k] = IF k = j THEN x ELSE p[k]
  <2>1. \A k \in 1 .. 9 : p[k] \in Entry
    <3>1. p \in Seq(Entry)
      BY <1>1
    <3>2. \A k \in 1 .. Len(p) : p[k] \in Entry
      BY <3>1
    <3>3. Len(p) = 9
      BY <1>1
    <3> QED BY <3>2, <3>3
  <2>2. R(j, x) \in [1 .. 9 -> Entry]
    BY <2>1
  <2>3. \A k \in 1 .. 9 : R(j, x)[k] = IF k = j THEN x ELSE p[k]
    OBVIOUS
  <2>4. DOMAIN R(j, x) = 1 .. 9
    OBVIOUS
  <2> HIDE DEF R
  <2>5. R(j, x) \in Seq(Entry)
    <3>1. \E n9 \in Nat : R(j, x) \in [1 .. n9 -> Entry]
      BY <2>2
    <3> QED BY <3>1, SeqDef
  <2> QED BY <2>3, <2>4, <2>5
<1>8. LET u == Nginx!Poke(t, 18, n) IN Text(u) /\ IsNine(u.put, d, n, b, c)
  <2> DEFINE u == Nginx!Poke(t, 18, n)
             x == <<18, "value", <<n>>>>
  <2> DEFINE pos == 18
  <2>1. pos \in Nat
    OBVIOUS
  <2>2. Text(u) /\ u.put = R(2, x)
    <3>1. /\ DOMAIN t.put = 1 .. 9 /\ t.put[2][1] = pos
          /\ \A k \in 1 .. 9 : k # 2 => t.put[k][1] # pos
      BY <1>2, <1>3, <1>5 DEF p
    <3> HIDE DEF pos
    <3>2. LET v == Nginx!Poke(t, pos, n)
          IN /\ Text(v) /\ v.used = t.used
             /\ v.put = [k \in 1 .. 9 |-> IF k = 2 THEN <<pos, "value", <<n>>>>
                                          ELSE t.put[k]]
      <4> DEFINE j == 2
      <4>1. j \in 1 .. 9 /\ t.put[j][1] = pos
            /\ \A k \in 1 .. 9 : k # j => t.put[k][1] # pos
        BY <3>1
      <4> HIDE DEF j
      <4>2. LET v == Nginx!Poke(t, pos, n)
            IN /\ Text(v) /\ v.used = t.used
               /\ v.put = [k \in 1 .. 9 |-> IF k = j THEN <<pos, "value", <<n>>>>
                                            ELSE t.put[k]]
        BY <3>1, <4>1, PokeIs, SMTT(30)
      <4> QED BY <4>2 DEF j
    <3> QED BY <3>2 DEF p, pos
  <2>3. x \in Entry
    <3>1. x = <<pos, "value", <<n>>>>
      OBVIOUS
    <3> HIDE DEF pos, x
    <3> QED BY <1>6, <2>1, <3>1 DEF Entry, Kind
  <2>4. /\ u.put \in Seq(Entry) /\ Len(u.put) = 9
        /\ \A k \in 1 .. 9 : u.put[k] = IF k = 2 THEN x ELSE p[k]
    <3> HIDE DEF R, u, x
    <3> QED BY <1>7, <2>2, <2>3
  <2> HIDE DEF u, x
  <2>5. /\ u.put[1] = p[1] /\ u.put[2] = x /\ u.put[3] = p[3] /\ u.put[4] = p[4]
        /\ u.put[5] = p[5] /\ u.put[6] = p[6] /\ u.put[7] = p[7] /\ u.put[8] = p[8]
        /\ u.put[9] = p[9]
    BY <2>4
  <2>6. IsNine(u.put, d, n, b, c)
    BY <1>1, <2>4, <2>5, Zenon DEF IsNine, x
  <2> QED BY <2>2, <2>6 DEF u
<1>9. LET u == Nginx!Poke(t, 48 + d, n) IN Text(u) /\ IsNine(u.put, d, a, n, c)
  <2> DEFINE u == Nginx!Poke(t, 48 + d, n)
             x == <<48 + d, "value", <<n>>>>
  <2> DEFINE pos == 48 + d
  <2>1. pos \in Nat
    OBVIOUS
  <2>2. Text(u) /\ u.put = R(5, x)
    <3>1. /\ DOMAIN t.put = 1 .. 9 /\ t.put[5][1] = pos
          /\ \A k \in 1 .. 9 : k # 5 => t.put[k][1] # pos
      BY <1>2, <1>3, <1>5 DEF p
    <3> HIDE DEF pos
    <3>2. LET v == Nginx!Poke(t, pos, n)
          IN /\ Text(v) /\ v.used = t.used
             /\ v.put = [k \in 1 .. 9 |-> IF k = 5 THEN <<pos, "value", <<n>>>>
                                          ELSE t.put[k]]
      <4> DEFINE j == 5
      <4>1. j \in 1 .. 9 /\ t.put[j][1] = pos
            /\ \A k \in 1 .. 9 : k # j => t.put[k][1] # pos
        BY <3>1
      <4> HIDE DEF j
      <4>2. LET v == Nginx!Poke(t, pos, n)
            IN /\ Text(v) /\ v.used = t.used
               /\ v.put = [k \in 1 .. 9 |-> IF k = j THEN <<pos, "value", <<n>>>>
                                            ELSE t.put[k]]
        BY <3>1, <4>1, PokeIs, SMTT(30)
      <4> QED BY <4>2 DEF j
    <3> QED BY <3>2 DEF p, pos
  <2>3. x \in Entry
    <3>1. x = <<pos, "value", <<n>>>>
      OBVIOUS
    <3> HIDE DEF pos, x
    <3> QED BY <1>6, <2>1, <3>1 DEF Entry, Kind
  <2>4. /\ u.put \in Seq(Entry) /\ Len(u.put) = 9
        /\ \A k \in 1 .. 9 : u.put[k] = IF k = 5 THEN x ELSE p[k]
    <3> HIDE DEF R, u, x
    <3> QED BY <1>7, <2>2, <2>3
  <2> HIDE DEF u, x
  <2>5. /\ u.put[1] = p[1] /\ u.put[2] = p[2] /\ u.put[3] = p[3] /\ u.put[4] = p[4]
        /\ u.put[5] = x /\ u.put[6] = p[6] /\ u.put[7] = p[7] /\ u.put[8] = p[8]
        /\ u.put[9] = p[9]
    BY <2>4
  <2>6. IsNine(u.put, d, a, n, c)
    BY <1>1, <2>4, <2>5, Zenon DEF IsNine, x
  <2> QED BY <2>2, <2>6 DEF u
<1>10. LET u == Nginx!Poke(t, 78 + 2 * d, n) IN Text(u) /\ IsNine(u.put, d, a, b, n)
  <2> DEFINE u == Nginx!Poke(t, 78 + 2 * d, n)
             x == <<78 + 2 * d, "value", <<n>>>>
  <2> DEFINE pos == 78 + 2 * d
  <2>1. pos \in Nat
    OBVIOUS
  <2>2. Text(u) /\ u.put = R(8, x)
    <3>1. /\ DOMAIN t.put = 1 .. 9 /\ t.put[8][1] = pos
          /\ \A k \in 1 .. 9 : k # 8 => t.put[k][1] # pos
      BY <1>2, <1>3, <1>5 DEF p
    <3> HIDE DEF pos
    <3>2. LET v == Nginx!Poke(t, pos, n)
          IN /\ Text(v) /\ v.used = t.used
             /\ v.put = [k \in 1 .. 9 |-> IF k = 8 THEN <<pos, "value", <<n>>>>
                                          ELSE t.put[k]]
      <4> DEFINE j == 8
      <4>1. j \in 1 .. 9 /\ t.put[j][1] = pos
            /\ \A k \in 1 .. 9 : k # j => t.put[k][1] # pos
        BY <3>1
      <4> HIDE DEF j
      <4>2. LET v == Nginx!Poke(t, pos, n)
            IN /\ Text(v) /\ v.used = t.used
               /\ v.put = [k \in 1 .. 9 |-> IF k = j THEN <<pos, "value", <<n>>>>
                                            ELSE t.put[k]]
        BY <3>1, <4>1, PokeIs, SMTT(30)
      <4> QED BY <4>2 DEF j
    <3> QED BY <3>2 DEF p, pos
  <2>3. x \in Entry
    <3>1. x = <<pos, "value", <<n>>>>
      OBVIOUS
    <3> HIDE DEF pos, x
    <3> QED BY <1>6, <2>1, <3>1 DEF Entry, Kind
  <2>4. /\ u.put \in Seq(Entry) /\ Len(u.put) = 9
        /\ \A k \in 1 .. 9 : u.put[k] = IF k = 8 THEN x ELSE p[k]
    <3> HIDE DEF R, u, x
    <3> QED BY <1>7, <2>2, <2>3
  <2> HIDE DEF u, x
  <2>5. /\ u.put[1] = p[1] /\ u.put[2] = p[2] /\ u.put[3] = p[3] /\ u.put[4] = p[4]
        /\ u.put[5] = p[5] /\ u.put[6] = p[6] /\ u.put[7] = p[7] /\ u.put[8] = x
        /\ u.put[9] = p[9]
    BY <2>4
  <2>6. IsNine(u.put, d, a, b, n)
    BY <1>1, <2>4, <2>5, Zenon DEF IsNine, x
  <2> QED BY <2>2, <2>6 DEF u
<1> QED BY <1>8, <1>9, <1>10

(* The template reads as its three digits.                                 *)
LEMMA NineReads ==
  ASSUME NEW d \in Nat, NEW t, NEW a \in 0 .. 9, NEW b \in 0 .. 9, NEW c \in 0 .. 9,
         IsNine(t.put, d, a, b, c)
  PROVE  Reads(t, << <<"headers", <<a>>, <<>>>>, <<"connect", <<b>>, <<>>>>,
                     <<"header", <<c>>, <<>>>> >>)
<1> DEFINE p == t.put
           l1 == <<"headers", <<a>>, <<>>>>
           l2 == <<"connect", <<b>>, <<>>>>
           l3 == <<"header", <<c>>, <<>>>>
           r == <<l1, l2, l3>>
<1>1. /\ p \in Seq(Entry) /\ Len(p) = 9
      /\ p[1][2] = "headers" /\ p[2][3] = <<a>> /\ p[3][3] = <<>>
      /\ p[4][2] = "connect" /\ p[5][3] = <<b>> /\ p[6][3] = <<>>
      /\ p[7][2] = "header" /\ p[8][3] = <<c>> /\ p[9][3] = <<>>
  <2> HIDE DEF p
  <2>1. IsNine(p, d, a, b, c)
    BY DEF p
  <2> QED BY <2>1 DEF IsNine
<1>2. <<a>> \in Seq(0 .. 9) /\ <<b>> \in Seq(0 .. 9) /\ <<c>> \in Seq(0 .. 9)
      /\ <<>> \in Seq(0 .. 9)
  OBVIOUS
<1>3. l1 \in Line /\ l2 \in Line /\ l3 \in Line
  BY <1>2 DEF Line, Kind
<1> HIDE DEF p
<1>4. /\ l1 = <<p[1][2], p[2][3], p[3][3]>> /\ l2 = <<p[4][2], p[5][3], p[6][3]>>
      /\ l3 = <<p[7][2], p[8][3], p[9][3]>>
  BY <1>1
<1> HIDE DEF l1, l2, l3
<1>5. r \in Seq(Line) /\ Len(r) = 3 /\ r[1] = l1 /\ r[2] = l2 /\ r[3] = l3
  BY <1>3
<1> HIDE DEF r
<1>6. ASSUME NEW k \in 1 .. 3
      PROVE  r[k] = <<p[3 * k - 2][2], p[3 * k - 1][3], p[3 * k][3]>>
  <2>1. CASE k = 1
    <3>1. 3 * k - 2 = 1 /\ 3 * k - 1 = 2 /\ 3 * k = 3
      BY <2>1
    <3> QED BY <1>4, <1>5, <2>1, <3>1
  <2>2. CASE k = 2
    <3>1. 3 * k - 2 = 4 /\ 3 * k - 1 = 5 /\ 3 * k = 6
      BY <2>2
    <3> QED BY <1>4, <1>5, <2>2, <3>1
  <2>3. CASE k = 3
    <3>1. 3 * k - 2 = 7 /\ 3 * k - 1 = 8 /\ 3 * k = 9
      BY <2>3
    <3> QED BY <1>4, <1>5, <2>3, <3>1
  <2> QED BY <2>1, <2>2, <2>3
<1>7. Len(p) = 3 * Len(r)
  <2>1. 9 = 3 * 3
    OBVIOUS
  <2> QED BY <1>1, <1>5, <2>1
<1>8. Reads(t, r)
  <2>1. \A k \in 1 .. Len(r) : r[k] = <<p[3 * k - 2][2], p[3 * k - 1][3], p[3 * k][3]>>
    BY <1>5, <1>6
  <2> QED BY <1>1, <1>5, <1>7, <2>1 DEF Reads, p
<1> QED BY <1>8 DEF r, l1, l2, l3

(* The template with its three digits set reads as them.                   *)
LEMMA PokedReads ==
  ASSUME NEW h \in [plain : Nat, escaped : Nat, control : Nat],
         NEW a \in 0 .. 9, NEW b \in 0 .. 9, NEW c \in 0 .. 9
  PROVE  LET config == Nginx!InitConfig(h)
             t1 == Nginx!Poke(config.fast, config.digits[1], a)
             t2 == Nginx!Poke(t1, config.digits[2], b)
         IN Reads(Nginx!Poke(t2, config.digits[3], c),
                  << <<"headers", <<a>>, <<>>>>, <<"connect", <<b>>, <<>>>>,
                     <<"header", <<c>>, <<>>>> >>)
<1> DEFINE f == Nginx!InitConfig(h).fast
           d == Nginx!InitConfig(h).description
           digits == Nginx!InitConfig(h).digits
           t1 == Nginx!Poke(f, digits[1], a)
           t2 == Nginx!Poke(t1, digits[2], b)
           t3 == Nginx!Poke(t2, digits[3], c)
<1>1. /\ d \in Nat /\ d >= 8 /\ Text(f) /\ IsNine(f.put, d, 0, 0, 0)
      /\ digits = <<18, 48 + d, 78 + 2 * d>>
  BY FastIs
<1> HIDE DEF f, d, digits
<1> DEFINE o == 0
<1>2. d \in Nat /\ d >= 8 /\ Text(f) /\ IsNine(f.put, d, o, o, o)
      /\ digits[1] = 18 /\ digits[2] = 48 + d /\ digits[3] = 78 + 2 * d
  BY <1>1
<1> HIDE DEF o
<1>3. ASSUME NEW t, Text(t), NEW x, NEW y, NEW z, IsNine(t.put, d, x, y, z)
      PROVE  /\ LET u == Nginx!Poke(t, digits[1], a) IN Text(u) /\ IsNine(u.put, d, a, y, z)
             /\ LET u == Nginx!Poke(t, digits[2], b) IN Text(u) /\ IsNine(u.put, d, x, b, z)
             /\ LET u == Nginx!Poke(t, digits[3], c) IN Text(u) /\ IsNine(u.put, d, x, y, c)
  <2>1. /\ LET u == Nginx!Poke(t, 18, a) IN Text(u) /\ IsNine(u.put, d, a, y, z)
        /\ LET u == Nginx!Poke(t, 48 + d, b) IN Text(u) /\ IsNine(u.put, d, x, b, z)
        /\ LET u == Nginx!Poke(t, 78 + 2 * d, c) IN Text(u) /\ IsNine(u.put, d, x, y, c)
    <3>1. d \in Nat /\ d >= 8
      BY <1>2
    <3>2. LET u == Nginx!Poke(t, 18, a) IN Text(u) /\ IsNine(u.put, d, a, y, z)
      BY <3>1, <1>3, PokesAre
    <3>3. LET u == Nginx!Poke(t, 48 + d, b) IN Text(u) /\ IsNine(u.put, d, x, b, z)
      BY <3>1, <1>3, PokesAre
    <3>4. LET u == Nginx!Poke(t, 78 + 2 * d, c) IN Text(u) /\ IsNine(u.put, d, x, y, c)
      BY <3>1, <1>3, PokesAre
    <3> QED BY <3>2, <3>3, <3>4
  <2> QED BY <1>2, <2>1
<1>4. Text(t1) /\ IsNine(t1.put, d, a, o, o)
  <2>1. Text(f) /\ IsNine(f.put, d, o, o, o)
    BY <1>2
  <2> QED BY <1>3, <2>1, Zenon
<1> HIDE DEF t1
<1>5. Text(t2) /\ IsNine(t2.put, d, a, b, o)
  BY <1>3, <1>4, Zenon
<1> HIDE DEF t2
<1>6. Text(t3) /\ IsNine(t3.put, d, a, b, c)
  BY <1>3, <1>5, Zenon
<1> HIDE DEF t3
<1>7. Reads(t3, << <<"headers", <<a>>, <<>>>>, <<"connect", <<b>>, <<>>>>,
                   <<"header", <<c>>, <<>>>> >>)
  BY <1>2, <1>6, NineReads
<1> QED BY <1>7 DEF t3, t2, t1, f, digits

(* One attempt whose times have one digit each: the template says the same *)
(* as the lines of the attempt.                                            *)
LEMMA FastTells ==
  ASSUME NEW h \in [plain : Nat, escaped : Nat, control : Nat],
         NEW s \in Seq(State), Len(s) = 1, s[1].peer,
         NEW n, NEW a \in 0 .. 9, a = Nginx!Elapsed(n),
         NEW b \in 0 .. 9, b = s[1].connect_time, NEW c \in 0 .. 9, c = s[1].header_time
  PROVE  LET config == Nginx!InitConfig(h)
             t1 == Nginx!Poke(config.fast, config.digits[1], a)
             t2 == Nginx!Poke(t1, config.digits[2], b)
         IN Reads(Nginx!Poke(t2, config.digits[3], c), Nginx!Truth(s, n))
<1> DEFINE config == Nginx!InitConfig(h)
           t1 == Nginx!Poke(config.fast, config.digits[1], a)
           t2 == Nginx!Poke(t1, config.digits[2], b)
           t3 == Nginx!Poke(t2, config.digits[3], c)
           l1 == <<"headers", <<a>>, <<>>>>
           l2 == <<"connect", <<b>>, <<>>>>
           l3 == <<"header", <<c>>, <<>>>>
<1>1. Reads(t3, <<l1, l2, l3>>)
  BY PokedReads
<1>2. l1 \in Line /\ l2 \in Line /\ l3 \in Line
  <2>1. <<a>> \in Seq(0 .. 9) /\ <<b>> \in Seq(0 .. 9) /\ <<c>> \in Seq(0 .. 9)
        /\ <<>> \in Seq(0 .. 9)
    OBVIOUS
  <2> QED BY <2>1 DEF Line, Kind
<1> HIDE DEF t3
<1>3. NginxDecimal(a) = <<a>> /\ NginxDecimal(b) = <<b>> /\ NginxDecimal(c) = <<c>>
  BY NginxAssumption
<1>4. a = IF n < 0 THEN 0 ELSE n
  BY DEF Nginx!Elapsed
<1>5. PICK told : LinesOf(told, s, n)
  BY TruthIs
<1>6. /\ told[0] = << <<"headers", NginxDecimal(IF n < 0 THEN 0 ELSE n), <<>>>> >>
      /\ \A i \in 1 .. Len(s) : told[i] = told[i - 1] \o Turned(s, i)
      /\ Nginx!Truth(s, n) = told[Len(s)]
  BY <1>5 DEF LinesOf, HeadersLine
<1>7. told[0] = <<l1>>
  BY <1>3, <1>4, <1>6
<1>8. Nginx!Truth(s, n) = told[0] \o Turned(s, 1)
  <2>1. 1 \in 1 .. Len(s) /\ 1 - 1 = 0
    OBVIOUS
  <2>2. told[1] = told[1 - 1] \o Turned(s, 1)
    BY <1>6, <2>1
  <2> QED BY <1>6, <2>1, <2>2
<1>9. b # Nginx!NoTime /\ c # Nginx!NoTime
  <2>1. ASSUME NEW x \in 0 .. 9  PROVE x # Nginx!NoTime
    BY DEF Nginx!NoTime
  <2>2. b \in 0 .. 9 /\ c \in 0 .. 9
    OBVIOUS
  <2> QED BY <2>1, <2>2
<1>10. Turned(s, 1) = <<l2>> \o <<l3>>
  <2>1. Told(s, "connect", 1, b) = <<l2>>
    BY <1>3, <1>9 DEF Told
  <2>2. Told(s, "header", 1, c) = <<l3>>
    BY <1>3, <1>9 DEF Told
  <2> QED BY <2>1, <2>2 DEF Turned
<1> HIDE DEF l1, l2, l3
<1>11. <<l1>> \o (<<l2>> \o <<l3>>) = <<l1, l2, l3>>
  <2> DEFINE w == <<l2>> \o <<l3>>
             u == <<l1>>
             v == u \o w
  <2>1. u \in Seq(Line) /\ <<l2>> \in Seq(Line) /\ <<l3>> \in Seq(Line)
        /\ Len(u) = 1 /\ Len(<<l2>>) = 1 /\ Len(<<l3>>) = 1 /\ u[1] = l1
    BY <1>2
  <2>2. w \in Seq(Line) /\ Len(w) = 2 /\ w[1] = l2 /\ w[2] = l3
    BY <2>1, ConcatProperties
  <2> HIDE DEF w, u
  <2>3. v \in Seq(Line) /\ Len(v) = 3 /\ v[1] = l1 /\ v[2] = l2 /\ v[3] = l3
    <3>1. u \in Seq(Line) /\ w \in Seq(Line)
      BY <2>1, <2>2
    <3>2. /\ v \in Seq(Line) /\ Len(v) = Len(u) + Len(w)
          /\ \A i \in 1 .. Len(u) + Len(w) :
               v[i] = IF i <= Len(u) THEN u[i] ELSE w[i - Len(u)]
      BY <3>1, ConcatProperties
    <3> HIDE DEF v
    <3>3. Len(u) = 1 /\ Len(w) = 2
      BY <2>1, <2>2
    <3>4. \A i \in 1 .. 3 : v[i] = IF i <= 1 THEN u[i] ELSE w[i - 1]
      BY <3>2, <3>3
    <3>5. v[1] = u[1] /\ v[2] = w[1] /\ v[3] = w[2]
      BY <3>4
    <3> QED BY <2>1, <2>2, <3>2, <3>3, <3>5
  <2> HIDE DEF v
  <2>4. v = <<l1, l2, l3>>
    BY <2>3
  <2> QED BY <2>4 DEF v, w, u
<1>12. Reads(t3, Nginx!Truth(s, n))
  BY <1>1, <1>7, <1>8, <1>10, <1>11
<1> QED BY <1>12 DEF t3

(* Either way of writing the field says what happened.                     *)
LEMMA FieldTells ==
  ASSUME NEW h \in [plain : Nat, escaped : Nat, control : Nat],
         NEW s \in Seq(State), Len(s) <= MaxStates,
         NEW n, Nginx!Elapsed(n) \in NginxTimes \cup {0}
  PROVE  Reads(Nginx!Field(Nginx!InitConfig(h), s, Nginx!Elapsed(n)), Nginx!Truth(s, n))
<1> DEFINE config == Nginx!InitConfig(h)
           a == Nginx!Elapsed(n)
           fast == /\ Len(s) = 1 /\ s[1].peer /\ Nginx!OneDigit(a)
                   /\ Nginx!OneDigit(s[1].connect_time) /\ Nginx!OneDigit(s[1].header_time)
<1>1. CASE fast
  <2> DEFINE b == s[1].connect_time
             c == s[1].header_time
  <2>1. s[1] \in State
    <3>1. 1 \in 1 .. Len(s)
      BY <1>1
    <3> QED BY <3>1
  <2>2. b \in NginxTimes \cup {0, Nginx!NoTime} /\ c \in NginxTimes \cup {0, Nginx!NoTime}
    BY <2>1 DEF State
  <2>3. a \in 0 .. 9 /\ b \in 0 .. 9 /\ c \in 0 .. 9
    <3>1. ASSUME NEW x \in NginxTimes \cup {0, Nginx!NoTime}, Nginx!OneDigit(x)
          PROVE  x \in 0 .. 9
      BY <3>1, NginxAssumption DEF Nginx!OneDigit, Nginx!NoTime
    <3>2. a \in NginxTimes \cup {0, Nginx!NoTime} /\ Nginx!OneDigit(a)
          /\ Nginx!OneDigit(b) /\ Nginx!OneDigit(c)
      BY <1>1
    <3> HIDE DEF a, b, c
    <3> QED BY <2>2, <3>1, <3>2
  <2> DEFINE t1 == Nginx!Poke(config.fast, config.digits[1], a)
             t2 == Nginx!Poke(t1, config.digits[2], b)
             t3 == Nginx!Poke(t2, config.digits[3], c)
  <2>4. Nginx!Field(config, s, a) = t3
    <3> HIDE DEF config
    <3> QED BY <1>1 DEF Nginx!Field
  <2>5. Reads(t3, Nginx!Truth(s, n))
    <3>1. Len(s) = 1 /\ s[1].peer
      BY <1>1
    <3> DEFINE x == a
               y == b
               z == c
    <3>2. x \in 0 .. 9 /\ x = Nginx!Elapsed(n) /\ y \in 0 .. 9 /\ y = s[1].connect_time
          /\ z \in 0 .. 9 /\ z = s[1].header_time
      BY <2>3
    <3> HIDE DEF x, y, z
    <3>3. LET u1 == Nginx!Poke(config.fast, config.digits[1], x)
              u2 == Nginx!Poke(u1, config.digits[2], y)
          IN Reads(Nginx!Poke(u2, config.digits[3], z), Nginx!Truth(s, n))
      BY <3>1, <3>2, FastTells
    <3> QED BY <3>3 DEF x, y, z
  <2> HIDE DEF t3
  <2> QED BY <2>4, <2>5
<1>2. CASE ~fast
  <2>1. Nginx!Field(config, s, a) = Nginx!General(config.description, s, a)
    <3> HIDE DEF config
    <3> QED BY <1>2 DEF Nginx!Field
  <2>2. config.description \in Nat /\ config.description >= 8
    BY FastIs
  <2> DEFINE d == config.description
  <2> HIDE DEF d
  <2>3. Reads(Nginx!General(d, s, Nginx!Elapsed(n)), Nginx!Truth(s, n))
    BY <2>2, GeneralTells DEF d
  <2> QED BY <2>1, <2>3 DEF d
<1> QED BY <1>1, <1>2

(* A field that was sent says what happened to its request.                *)
NginxTold ==
  nginxSent # Nginx!Unset =>
    Reads(nginxSent.field, Nginx!Truth(nginxStates, nginxSent.elapsed))

(* Every step keeps it: the states change only while there is no field.    *)
LEMMA NginxTellsAll == Nginx!Spec => [](NginxInv /\ NginxTold)
<1>1. Nginx!Init => NginxTold
  BY DEF Nginx!Init, NginxTold
<1>2. NginxInv /\ NginxTold /\ [Nginx!Next]_(Nginx!vars) => NginxTold'
  <2> SUFFICES ASSUME NginxInv, NginxTold, [Nginx!Next]_(Nginx!vars)
               PROVE  NginxTold'
    OBVIOUS
  <2>1. ASSUME UNCHANGED <<nginxStates, nginxSent>>  PROVE NginxTold'
    BY <2>1 DEF NginxTold
  <2>2. ASSUME nginxSent' = Nginx!Unset  PROVE NginxTold'
    BY <2>2 DEF NginxTold
  <2>3. CASE UNCHANGED Nginx!vars
    BY <2>1, <2>3 DEF Nginx!vars
  <2>4. CASE Nginx!InitModule
    BY <2>1, <2>4 DEF Nginx!InitModule
  <2>5. CASE Nginx!Connect
    BY <2>2, <2>5 DEF Nginx!Connect, Nginx!Serving
  <2>6. CASE Nginx!Finish
    BY <2>2, <2>6 DEF Nginx!Finish
  <2>7. ASSUME NEW t \in NginxTimes, Nginx!Connected(t) \/ Nginx!HeaderRead(t)
        PROVE  NginxTold'
    BY <2>2, <2>7 DEF Nginx!Connected, Nginx!HeaderRead, Nginx!Serving
  <2>8. ASSUME NEW t \in {0, Nginx!NoTime}, Nginx!NoPeer(t)  PROVE NginxTold'
    BY <2>2, <2>8 DEF Nginx!NoPeer, Nginx!Serving
  <2>9. ASSUME NEW n \in NginxTimes \cup {-1}, Nginx!SendHeader(n)  PROVE NginxTold'
    <3> DEFINE t == Nginx!Field(nginxConfig, nginxStates, Nginx!Elapsed(n))
    <3>1. Nginx!Elapsed(n) \in NginxTimes \cup {0}
      BY NginxAssumption DEF Nginx!Elapsed
    <3>2. /\ nginxConfig = Nginx!InitConfig(nginxHost)
          /\ nginxHost \in [plain : Nat, escaped : Nat, control : Nat]
          /\ nginxStates \in Seq(State) /\ Len(nginxStates) <= MaxStates
      BY <2>9, NginxAssumption DEF Nginx!SendHeader, Nginx!Serving, NginxInv
    <3>3. nginxSent' = [elapsed |-> n, field |-> t] /\ nginxStates' = nginxStates
      BY <2>9 DEF Nginx!SendHeader
    <3>4. Reads(t, Nginx!Truth(nginxStates, n))
      BY <3>1, <3>2, FieldTells
    <3> HIDE DEF t
    <3>5. nginxSent'.field = t /\ nginxSent'.elapsed = n
      BY <3>3
    <3> QED BY <3>3, <3>4, <3>5 DEF NginxTold
  <2> QED BY <2>3, <2>4, <2>5, <2>6, <2>7, <2>8, <2>9 DEF Nginx!Next
<1> QED BY <1>1, <1>2, NginxInvariance, PTL DEF Nginx!Spec

(* With it every value of nginx's module has its type.                     *)
LEMMA NginxTypes == NginxInv /\ NginxTold => Nginx!TypeOK
<1> SUFFICES ASSUME NginxInv, NginxTold  PROVE Nginx!TypeOK
  OBVIOUS
<1>1. nginxHost \in [plain : Nat, escaped : Nat, control : Nat]
  BY NginxAssumption DEF NginxInv
<1>2. nginxConfig # Nginx!Unset =>
        /\ nginxConfig.description \in Nat
        /\ \A k \in 1 .. 3 : nginxConfig.digits[k] \in 0 .. nginxConfig.fast.used
  <2> DEFINE c == Nginx!InitConfig(nginxHost)
             d == c.description
             digits == c.digits
             used == c.fast.used
  <2>1. /\ d \in Nat /\ used = 79 + 3 * d
        /\ digits = <<18, 48 + d, 78 + 2 * d>>
    BY <1>1, FastIs
  <2>2. nginxConfig # Nginx!Unset => nginxConfig = c
    BY DEF NginxInv
  <2> HIDE DEF d, digits, used
  <2>3. digits[1] = 18 /\ digits[2] = 48 + d /\ digits[3] = 78 + 2 * d
    BY <2>1
  <2>4. digits[1] \in 0 .. used /\ digits[2] \in 0 .. used /\ digits[3] \in 0 .. used
    BY <2>1, <2>3
  <2>5. \A k \in 1 .. 3 : digits[k] \in 0 .. used
    BY <2>4
  <2> QED BY <2>1, <2>2, <2>5 DEF d, digits, used
<1>3. ASSUME nginxSent # Nginx!Unset, NEW k \in DOMAIN nginxSent.field.put
      PROVE  LET p == nginxSent.field.put[k] IN p[1] \in Nat /\ p[3] \in Seq(0 .. 9)
  <2> DEFINE put == nginxSent.field.put
  <2>1. put \in Seq(Entry)
    BY <1>3 DEF NginxTold, Reads
  <2> HIDE DEF put
  <2>2. ASSUME NEW j \in DOMAIN put  PROVE put[j] \in Entry
    BY <2>1
  <2>3. put[k] \in Entry
    BY <2>2 DEF put
  <2> QED BY <2>3 DEF put, Entry
<1> QED BY <1>2, <1>3 DEF NginxInv, State, Nginx!TypeOK

(* Both plugins tell the truth, for any host name, any number of attempts  *)
(* and any durations: Envoy's field is the one its README describes, and   *)
(* what nginx's says is what happened to the request, whether its general  *)
(* code or the three digits of the template wrote it.                      *)
THEOREM FieldsAlwaysTell == Envoy!Spec /\ Nginx!Spec => []FieldsTellTheTruth
<1>1. NginxInv /\ NginxTold => Nginx!FieldIsTrue
  BY ReadsIs DEF NginxTold, Nginx!FieldIsTrue
<1>2. (EnvoyInv /\ EnvoyTold) /\ (NginxInv /\ NginxTold) => FieldsTellTheTruth
  BY <1>1, EnvoyDescribed, NginxTypes DEF FieldsTellTheTruth
<1> QED BY <1>2, EnvoyTellsAll, NginxTellsAll, PTL
=============================================================================
