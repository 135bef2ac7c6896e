---------------------------- MODULE ImageArchive ----------------------------
(***************************************************************************)
(* The builder of lib/mkMultiArchImageArchive.nix: one image, pinned by    *)
(* its digest, is copied with skopeo from the first source that yields it  *)
(* into an archive, unpacked, and packed again deterministically as the    *)
(* fixed output whose hash images.lock.nix records.                        *)
(*                                                                         *)
(* The output is abstracted to the manifest format its content has; an     *)
(* image has one format, whatever registry serves it, since all sources    *)
(* are addressed by the one digest.                                        *)
(***************************************************************************)
EXTENDS Integers, Sequences

CONSTANTS
  NSources,      \* how many sourceImages there are
  MirrorRetries  \* mirrorRetries

Formats == {"oci", "v2s2", "v2s1"}
Sources == 1 .. NSources

VARIABLES
  native,    \* the format of the image's manifests
  src,       \* the source that is asked
  detected,  \* the family of its mediaType, or unknown
  fmt,       \* the position in the candidates
  attempt,
  archive,   \* image-oci-archive.tar: absent, partial, mixed, or a format
  repack,    \* repack-dir: absent, or what the archive held
  out,       \* $out: absent, or what it was packed from
  status,    \* inspect, copy, unpack, pack; built, failed, aborted
  tries      \* history: attempts by source and format

vars == <<native, src, detected, fmt, attempt, archive, repack, out, status, tries>>

(* The formats to try, by the detected media type.                         *)
Candidates ==
  [oci     |-> <<"oci", "v2s2", "v2s1">>,
   v2s2    |-> <<"v2s2", "oci", "v2s1">>,
   v2s1    |-> <<"v2s1", "v2s2", "oci">>,
   unknown |-> <<"v2s2", "oci", "v2s1">>]

Format == Candidates[detected][fmt]

-----------------------------------------------------------------------------
Init ==
  /\ native \in Formats
  /\ src = 1 /\ detected = "unknown" /\ fmt = 1 /\ attempt = 1
  /\ archive = "absent" /\ repack = "absent" /\ out = "absent"
  /\ status = "inspect"
  /\ tries = [s \in Sources |-> [f \in Formats |-> 0]]

(* inspect --raw, then inspect: the media type of the image, or nothing if *)
(* both fail or the registry leaves it out.                                *)
Inspect ==
  /\ status = "inspect"
  /\ detected' \in {native, "unknown"}
  /\ fmt' = 1
  /\ attempt' = 1
  /\ status' = "copy"
  /\ UNCHANGED <<native, src, archive, repack, out, tries>>

Counted == tries' = [tries EXCEPT ![src][Format] = @ + 1]

(* Mutant: the attempts are not counted anew for the next format.          *)
MoveOnNoReset ==
  IF fmt < Len(Candidates[detected])
  THEN fmt' = fmt + 1 /\ status' = "copy" /\ UNCHANGED <<src, attempt>>
  ELSE /\ UNCHANGED <<fmt, attempt>>
       /\ IF src < NSources THEN src' = src + 1 /\ status' = "inspect"
                            ELSE status' = "failed" /\ UNCHANGED src

(* After the last attempt: the next format, the next source, or exit 1.    *)
MoveOn ==
  IF fmt < Len(Candidates[detected])
  THEN fmt' = fmt + 1 /\ attempt' = 1 /\ status' = "copy" /\ UNCHANGED src
  ELSE /\ UNCHANGED <<fmt, attempt>>
       /\ IF src < NSources THEN src' = src + 1 /\ status' = "inspect"
                            ELSE status' = "failed" /\ UNCHANGED src

(* Mutant: one attempt too many.                                           *)
CopyFailsOnceMore ==
  /\ status = "copy"
  /\ Counted
  /\ repack' = "absent"
  /\ archive' \in {"absent", "partial"}
  /\ IF attempt <= MirrorRetries
     THEN attempt' = attempt + 1 /\ UNCHANGED <<src, fmt, status>>
     ELSE MoveOn
  /\ UNCHANGED <<native, detected, out>>

(* An attempt removes what the last one left; the copy fails and leaves no *)
(* archive or a part of one.                                               *)
CopyFails ==
  /\ status = "copy"
  /\ Counted
  /\ repack' = "absent"
  /\ archive' \in {"absent", "partial"}
  /\ IF attempt < MirrorRetries
     THEN attempt' = attempt + 1 /\ UNCHANGED <<src, fmt, status>>
     ELSE MoveOn
  /\ UNCHANGED <<native, detected, out>>

(* Mutant: the archive of the last attempt is not removed.                 *)
CopySucceedsOver ==
  /\ status = "copy"
  /\ Format = native
  /\ Counted
  /\ repack' = "absent"
  /\ archive' = IF archive = "absent" THEN native ELSE "mixed"
  /\ status' = "unpack"
  /\ UNCHANGED <<native, src, detected, fmt, attempt, out>>

(* The copy succeeds.  With --preserve-digests skopeo converts nothing, so *)
(* it can only succeed in the format that the image has.                   *)
CopySucceeds ==
  /\ status = "copy"
  /\ Format = native
  /\ Counted
  /\ repack' = "absent"
  /\ archive' = native
  /\ status' = "unpack"
  /\ UNCHANGED <<native, src, detected, fmt, attempt, out>>

(* The archive is unpacked; an error of tar ends the build.                *)
Unpack ==
  /\ status = "unpack"
  /\ \/ repack' = archive /\ status' = "pack"
     \/ repack' = "partial" /\ status' = "aborted"
  /\ UNCHANGED <<native, src, detected, fmt, attempt, archive, out, tries>>

(* The deterministic tar of the directory.                                 *)
Pack ==
  /\ status = "pack"
  /\ out' = repack
  /\ status' = "built"
  /\ UNCHANGED <<native, src, detected, fmt, attempt, archive, repack, tries>>

Next == Inspect \/ CopyFails \/ CopySucceeds \/ Unpack \/ Pack

Spec == Init /\ [][Next]_vars

-----------------------------------------------------------------------------
(* Type correctness.                                                       *)
TypeOK ==
  /\ native \in Formats
  /\ src \in Sources
  /\ detected \in Formats \cup {"unknown"}
  /\ fmt \in 1 .. 3
  /\ attempt \in 1 .. MirrorRetries
  /\ archive \in Formats \cup {"absent", "partial", "mixed"}
  /\ repack \in Formats \cup {"absent", "partial", "mixed"}
  /\ out \in Formats \cup {"absent", "mixed"}
  /\ status \in {"inspect", "copy", "unpack", "pack", "built", "failed", "aborted"}
  /\ tries \in [Sources -> [Formats -> 0 .. MirrorRetries]]

(* Whichever source answered, whatever the inspection found and however    *)
(* many attempts failed half-way before, the output is the image itself:   *)
(* the archive hash in the lock does not depend on the weather.            *)
OutputIsTheImage == out \in {"absent", native}

(* The build gives up only after every source has been asked for the image *)
(* in its own format mirrorRetries times: one that serves it once in that  *)
(* many attempts is enough.                                                *)
FailsOnlyExhausted ==
  status = "failed" => \A s \in Sources : tries[s][native] = MirrorRetries
=============================================================================
