--------------------------- MODULE RuntimeBundle ---------------------------
(***************************************************************************)
(* scripts/network/native/nginx/prepare_runtime.py: --stage prepare copies *)
(* the base of the proxy, the two accepted packages and a kustomization    *)
(* that names them into an output directory; --stage verify checks what    *)
(* kustomize rendered.  manifest-sources.json holds the digests and stage. *)
(*                                                                         *)
(* Contents are versions; an edit may bring an earlier one back.           *)
(* Version 0 is the base of this commit.  "conf" stands for the base files *)
(* that are only copied, "packages" for both modules together with their   *)
(* C source, which the catalog accepts as one.                             *)
(***************************************************************************)
EXTENDS Integers

CONSTANTS
  Versions,      \* the versions an input can have
  PinnedImage,   \* versions of deployment.yaml whose nginx is IMAGE
  SelfContained, \* versions of kustomization.yaml that name only copied files
  Missing, Torn

files == {"deployment", "kustomization", "conf"}
Inputs == files \cup {"packages", "script"}
Digests == [Inputs -> Versions]

VARIABLES
  base,      \* the inputs as they are
  state,     \* manifest-sources.json
  bundle,    \* the files of the output directory
  generated, \* kustomization.yaml of the bundle is the rewritten one
  pc,        \* idle, begin, copy, image, rewrite, end
  todo,      \* what is still to be written
  inputs,    \* the digests the invocation took
  touched,   \* history: the base files edited since, while it prepares
  loose,     \* history: the copies made of a file that had been
  rendered,  \* history: what was rendered last, and from what
  claim,     \* history: the rendering that was verified last
  first      \* history: the first manifest of the directory

output == <<state, bundle, generated>>
history == <<rendered, claim, first>>
vars == <<base, output, pc, todo, inputs, touched, loose, history>>

Stages == {"preparing", "prepared", "verified"}
Contents == Versions \cup {Missing, Torn}
Readable(s) == s \notin {Missing, Torn}
Copied == files \cup {"packages"}

Renderings ==
  [from : {"elsewhere"} \cup Stages, content : [Copied -> Versions \cup {Torn}],
   loose : SUBSET files]

TypeOK ==
  /\ base \in Digests /\ inputs \in Digests
  /\ state \in [inputs : Digests, stage : Stages] \cup {Missing, Torn}
  /\ bundle \in [Copied -> Contents]
  /\ generated \in BOOLEAN
  /\ pc \in {"idle", "begin", "copy", "image", "rewrite", "end"}
  /\ todo \subseteq Copied /\ touched \subseteq files /\ loose \subseteq files
  /\ rendered \in Renderings \cup {Missing} /\ claim \in Renderings \cup {Missing}
  /\ first \in Digests \cup {Missing}

Init ==
  /\ base = [i \in Inputs |-> 0] /\ inputs = base
  /\ state = Missing /\ generated = FALSE
  /\ bundle = [f \in Copied |-> Missing]
  /\ pc = "idle" /\ todo = {} /\ touched = {} /\ loose = {}
  /\ rendered = Missing /\ claim = Missing /\ first = Missing

-----------------------------------------------------------------------------
(* The base, the script or the accepted packages change, or change back,   *)
(* at any time.                                                            *)
Edit(i) ==
  /\ \E v \in Versions \ {base[i]} : base' = [base EXCEPT ![i] = v]
  /\ touched' = IF pc = "idle" THEN touched ELSE touched \cup ({i} \cap files)
  /\ UNCHANGED <<output, pc, todo, inputs, loose, history>>

(* Mutant: a directory that has a manifest is resumed whatever it is of.   *)
PrepareAnyOwner ==
  /\ pc = "idle"
  /\ state # Torn
  /\ inputs' = base
  /\ pc' = "begin"
  /\ UNCHANGED <<base, output, todo, touched, loose, history>>

(* The digests of the inputs, with packages that the catalog accepts, and  *)
(* the fingerprint of a directory that is not empty.  What fails raises    *)
(* before anything is written.                                             *)
Prepare ==
  /\ pc = "idle"
  /\ state = Missing => \A f \in Copied : bundle[f] = Missing
  /\ state # Torn
  /\ Readable(state) => state.inputs = base
  /\ inputs' = base
  /\ pc' = "begin"
  /\ UNCHANGED <<base, output, todo, touched, loose, history>>

(* Mutant: a directory that was prepared before is not marked again.       *)
BeginOnce ==
  /\ pc = "begin"
  /\ state' = IF Readable(state) THEN state ELSE [inputs |-> inputs, stage |-> "preparing"]
  /\ first' = IF first = Missing THEN inputs ELSE first
  /\ pc' = "copy" /\ todo' = Copied
  /\ UNCHANGED <<base, bundle, generated, inputs, touched, loose, rendered, claim>>

(* mkdir, and the stage "preparing".                                       *)
Begin ==
  /\ pc = "begin"
  /\ state' = [inputs |-> inputs, stage |-> "preparing"]
  /\ first' = IF first = Missing THEN inputs ELSE first
  /\ pc' = "copy" /\ todo' = Copied
  /\ UNCHANGED <<base, bundle, generated, inputs, touched, loose, rendered, claim>>

(* Which copies are loose once f has been copied again.                    *)
Loosened(f) == loose' = IF f \in touched THEN loose \cup {f} ELSE loose \ {f}

(* The base files are read again, the packages written from memory.        *)
Copy(f) ==
  /\ pc = "copy" /\ f \in todo
  /\ f = "packages" => todo = {"packages"}
  /\ bundle' = [bundle EXCEPT ![f] = IF f = "packages" THEN inputs[f] ELSE base[f]]
  /\ generated' = (generated /\ f # "kustomization")
  /\ todo' = todo \ {f}
  /\ pc' = IF todo' = {} THEN "image" ELSE "copy"
  /\ Loosened(f)
  /\ UNCHANGED <<base, state, inputs, touched, history>>

(* The image is required of the base as it is now.                         *)
CheckImage ==
  /\ pc = "image"
  /\ IF base["deployment"] \in PinnedImage
     THEN pc' = "rewrite" /\ UNCHANGED touched
     ELSE pc' = "idle" /\ touched' = {}
  /\ UNCHANGED <<base, output, todo, inputs, loose, history>>

(* The base kustomization, read again, with the packages as its files.     *)
Rewrite ==
  /\ pc = "rewrite"
  /\ bundle' = [bundle EXCEPT !["kustomization"] = base["kustomization"]]
  /\ generated' = TRUE
  /\ pc' = "end"
  /\ Loosened("kustomization")
  /\ UNCHANGED <<base, state, todo, inputs, touched, history>>

End ==
  /\ pc = "end"
  /\ state' = [inputs |-> inputs, stage |-> "prepared"]
  /\ pc' = "idle" /\ touched' = {}
  /\ UNCHANGED <<base, bundle, generated, todo, inputs, loose, history>>

(* The preparation is killed; the file it was writing is cut short.        *)
Kill ==
  /\ pc # "idle"
  /\ pc' = "idle" /\ todo' = {} /\ touched' = {}
  /\ \/ UNCHANGED output
     \/ pc \in {"begin", "end"} /\ state' = Torn /\ UNCHANGED <<bundle, generated>>
     \/ \E f \in todo : /\ pc = "copy"
                        /\ bundle' = [bundle EXCEPT ![f] = Torn]
                        /\ generated' = (generated /\ f # "kustomization")
                        /\ UNCHANGED state
     \/ /\ pc = "rewrite"
        /\ bundle' = [bundle EXCEPT !["kustomization"] = Torn]
        /\ UNCHANGED <<state, generated>>
  /\ UNCHANGED <<base, inputs, loose, history>>

(* kustomize build of the directory: every file that kustomization.yaml    *)
(* names is there, and the YAML is whole.                                  *)
Renders ==
  /\ \A f \in Copied : bundle[f] # Missing
  /\ bundle["deployment"] # Torn
  /\ generated /\ bundle["kustomization"] \in SelfContained

Render ==
  /\ pc = "idle" /\ Renders
  /\ rendered' = [from |-> IF Readable(state) THEN state.stage ELSE "elsewhere",
                  content |-> bundle, loose |-> loose]
  /\ UNCHANGED <<base, output, pc, todo, inputs, touched, loose, claim, first>>

(* --rendered may just as well be of the base or of another bundle.        *)
RenderElsewhere ==
  /\ pc = "idle"
  /\ rendered' = [from |-> "elsewhere", content |-> [f \in Copied |-> base[f]],
                  loose |-> {}]
  /\ UNCHANGED <<base, output, pc, todo, inputs, touched, loose, claim, first>>

(* The stage, the script, the binaries and the images; a kill in the last  *)
(* write cuts the manifest short.                                          *)
Verify ==
  /\ pc = "idle"
  /\ rendered # Missing
  /\ Readable(state) /\ state.stage \in {"prepared", "verified"}
  /\ state.inputs["script"] = base["script"]
  /\ rendered.content["packages"] = state.inputs["packages"]
  /\ rendered.content["deployment"] \in PinnedImage
  /\ \/ state' = [state EXCEPT !.stage = "verified"] /\ claim' = rendered
     \/ state' = Torn /\ UNCHANGED claim
  /\ UNCHANGED <<base, bundle, generated, pc, todo, inputs, touched, loose, rendered, first>>

Next ==
  \/ \E i \in Inputs : Edit(i)
  \/ Prepare \/ Begin \/ (\E f \in Copied : Copy(f)) \/ CheckImage \/ Rewrite \/ End
  \/ Kill
  \/ Render \/ RenderElsewhere \/ Verify

Spec == Init /\ [][Next]_vars

-----------------------------------------------------------------------------
(* A directory whose manifest says prepared or verified holds every file   *)
(* whole, the packages and every file that was not edited before it was    *)
(* copied as the digests of the manifest say, and the rewritten            *)
(* kustomization: a preparation that is repeated and cut short withdraws   *)
(* the stage first.                                                        *)
PreparedIsWhole ==
  Readable(state) /\ state.stage # "preparing" =>
    /\ generated
    /\ bundle["packages"] = state.inputs["packages"]
    /\ \A f \in files : /\ bundle[f] \in Versions
                        /\ f \notin loose => bundle[f] = state.inputs[f]

(* README: "resumes only with identical inputs".  Whatever was edited and  *)
(* killed, the manifest of a directory is of its first inputs.             *)
OneBundle == Readable(state) => state.inputs = first

(* What was verified held the accepted packages and the pinned image; if   *)
(* it was rendered from a prepared directory it also held every base file  *)
(* whole, and the recorded one unless it was edited between its digest and *)
(* its copy.                                                               *)
VerifiedRendering ==
  Readable(state) /\ state.stage = "verified" =>
    /\ claim # Missing
    /\ claim.content["packages"] = state.inputs["packages"]
    /\ claim.content["deployment"] \in PinnedImage
    /\ claim.from \in {"prepared", "verified"} =>
         \A f \in files :
           /\ claim.content[f] \in Versions
           /\ f \notin claim.loose => claim.content[f] = state.inputs[f]

(* The manifest of a bundle claims nothing that its files or the rendering *)
(* it was verified by do not hold.                                         *)
BundleIsTrue == TypeOK /\ PreparedIsWhole /\ VerifiedRendering

(* README: the bundle that prepare finished is rendered with kustomize.    *)
PreparedRenders ==
  Readable(state) /\ state.stage = "prepared" => Renders
=============================================================================
