------------------------------ MODULE ImageLock ------------------------------
(***************************************************************************)
(* scripts/gen-image-lock.py, from the map of images to the committed      *)
(* lock: a pool of workers resolves the digest of every image reference    *)
(* and the hash of its archive, through a cache of files that outlives the *)
(* run; the main thread collects the answers in the order they come,       *)
(* writes images.lock.nix, describes the difference and commits it.        *)
(*                                                                         *)
(* A reference is what a manifest says ("nginx:1", "nginx:1@sha256:..",    *)
(* "docker.io/library/nginx:1").  Its repository is its canonical name and *)
(* tag, its uid the name and tag as written.  Two references may share     *)
(* either.  An archive is determined by repository and digest, and so is   *)
(* the name of its cache file; the pair stands for its hash.  A lock file  *)
(* is a sequence of blocks; a block shows its uid but not its reference.   *)
(***************************************************************************)
EXTENDS Naturals, FiniteSets, Sequences, SequencesExt

CONSTANTS
  Refs, Repos, Uids, Digests, \* image references, what they share, digests
  RepoOf, UidOf, Pin,         \* functions of a reference; Pin may be Floating
  Rank,                       \* the order of references in the lock file
  ImageSets,                  \* the image maps that rendering can produce
  Workers,                    \* ThreadPoolExecutor(max_workers)
  MaxRuns, MaxRetags, MaxKills, \* bounds of the model
  Floating, NoFile, Blank     \* no pinned digest; no file; an empty file

ASSUME RefsAssumption ==
  /\ RepoOf \in [Refs -> Repos] /\ UidOf \in [Refs -> Uids]
  /\ Pin \in [Refs -> Digests \cup {Floating}]
  /\ Rank \in [Refs -> Nat]
  /\ \A r, s \in Refs : Rank[r] = Rank[s] => r = s
  /\ ImageSets \subseteq SUBSET Refs
  /\ Workers \in Nat \ {0}

Keys == Repos \X Digests

\* There are finitely many references, and the marks are no values.
ASSUME MarksAssumption ==
  /\ IsFiniteSet(Refs)
  /\ Floating \notin Digests /\ NoFile # Blank
  /\ {NoFile, Blank} \cap Keys = {} /\ NoFile \notin Refs

VARIABLES
  upstream,   \* [Repos -> Digests]: what the registry's tags point to
  cache,      \* ~/.cache/nixos-image-lock: [Keys -> hash, Blank or NoFile]
  tmp,        \* the temporary cache files of this process
  job,        \* what each worker is about to do for a reference
  fd,         \* the file that a worker has open for writing
  digest, hash,   \* locals of process_image
  images, meta, ignore, \* image_map, its metadata, --ignore-cache
  latest,     \* new_hashes: for each uid, the reference collected last
  phase, exit,
  lock, old,  \* images.lock.nix; its content before this run
  summary,    \* what the report and the commit message say
  head,       \* the lock file in the last commit
  fetchFailed, uncommitted, \* history: see FailsForAReason, Committed
  runs, retags, kills

jobVars == <<cache, tmp, job, fd, digest, hash>>
runVars == <<images, meta, ignore>>
lockVars == <<lock, old, summary, head, uncommitted>>
bounds == <<runs, retags, kills>>
vars == <<upstream, jobVars, runVars, latest, phase, exit, lockVars,
          fetchFailed, bounds>>

NoSummary == [kind |-> "none", updated |-> {}, meta |-> {}, added |-> {},
              removed |-> {}]

Init ==
  /\ upstream \in [Repos -> Digests]
  /\ cache = [k \in Keys |-> NoFile] /\ tmp = [k \in Keys |-> NoFile]
  /\ job = [r \in Refs |-> "none"] /\ fd = [r \in Refs |-> "none"]
  /\ digest = [r \in Refs |-> Floating] /\ hash = [r \in Refs |-> NoFile]
  /\ images = {} /\ meta = 0 /\ ignore = FALSE
  /\ latest = [u \in Uids |-> NoFile]
  /\ phase = "idle" /\ exit = "none"
  /\ lock = Blank /\ old = Blank /\ head = Blank /\ summary = NoSummary
  /\ fetchFailed = FALSE /\ uncommitted = FALSE
  /\ runs = 0 /\ retags = 0 /\ kills = 0

(***************************************************************************)
(* The workers: process_image.                                             *)
(***************************************************************************)
(* Mutant: the cache file is not named after the digest.                *)
CacheKeyByTag(r) == <<RepoOf[r], CHOOSE d \in Digests : TRUE>>

CacheKey(r) == <<RepoOf[r], digest[r]>>

(* Mutant: the temporary file is named after the process alone.         *)
TmpFileOfProcess(k) == CHOOSE j \in Keys : TRUE

\* cache_file + ".<pid>.tmp": one name for each cache file of the process.
TmpFile(k) == k

Running == {r \in Refs : job[r] \in {"read", "prefetch", "open", "write",
                                       "replace"}}

JobFails(r) == /\ job' = [job EXCEPT ![r] = "failed"]
               /\ fd' = [fd EXCEPT ![r] = "none"]

\* A free worker takes the next reference and asks crane for the digest; the
\* four attempts of run_cmd are one answer or one failure.
ResolveDigest(r) ==
  /\ job[r] = "queued"
  /\ Cardinality(Running) < Workers
  /\ job' = [job EXCEPT ![r] = "read"]
  /\ digest' = [digest EXCEPT ![r] =
                  IF Pin[r] = Floating THEN upstream[RepoOf[r]] ELSE Pin[r]]
  /\ UNCHANGED <<cache, tmp, fd, hash, fetchFailed>>

\* crane, or the nix build of the archive, fails for good.
FetchFails(r) ==
  /\ \/ job[r] = "queued" /\ Cardinality(Running) < Workers
     \/ job[r] = "prefetch"
  /\ JobFails(r)
  /\ fetchFailed' = TRUE
  /\ UNCHANGED <<cache, tmp, digest, hash>>

\* An empty cache file is a miss.
ReadCache(r) ==
  /\ job[r] = "read"
  /\ LET cached == cache[CacheKey(r)]
         hit == ~ignore /\ cached \notin {NoFile, Blank}
     IN /\ hash' = [hash EXCEPT ![r] = IF hit THEN cached ELSE NoFile]
        /\ job' = [job EXCEPT ![r] = IF hit THEN "done" ELSE "prefetch"]
  /\ UNCHANGED <<cache, tmp, fd, digest, fetchFailed>>

Prefetch(r) ==
  /\ job[r] = "prefetch"
  /\ hash' = [hash EXCEPT ![r] = <<RepoOf[r], digest[r]>>]
  /\ job' = [job EXCEPT ![r] = "open"]
  /\ UNCHANGED <<cache, tmp, fd, digest, fetchFailed>>

(* Mutant: the cache file is written in place.                          *)
OpenInPlace(r) ==
  /\ job[r] = "open"
  /\ cache' = [cache EXCEPT ![CacheKey(r)] = Blank]
  /\ fd' = [fd EXCEPT ![r] = "cache"]
  /\ job' = [job EXCEPT ![r] = "write"]
  /\ UNCHANGED <<tmp, digest, hash, fetchFailed>>

\* write_text opens and truncates the file, then writes into what it opened.
OpenTmp(r) ==
  /\ job[r] = "open"
  /\ tmp' = [tmp EXCEPT ![TmpFile(CacheKey(r))] = Blank]
  /\ fd' = [fd EXCEPT ![r] = "tmp"]
  /\ job' = [job EXCEPT ![r] = "write"]
  /\ UNCHANGED <<cache, digest, hash, fetchFailed>>

WriteTmp(r) ==
  /\ job[r] = "write"
  /\ tmp' = IF fd[r] # "tmp" THEN tmp
            ELSE [tmp EXCEPT ![TmpFile(CacheKey(r))] = hash[r]]
  /\ cache' = IF fd[r] # "cache" THEN cache
              ELSE [cache EXCEPT ![CacheKey(r)] = hash[r]]
  /\ fd' = [fd EXCEPT ![r] = "none"]
  /\ job' = [job EXCEPT ![r] = "replace"]
  /\ UNCHANGED <<digest, hash, fetchFailed>>

\* replace moves the file, with every worker that has it open for writing; the
\* file it replaces is gone.  Without the temporary file it raises.
ReplaceCache(r) ==
  /\ job[r] = "replace"
  /\ LET t == TmpFile(CacheKey(r))
         Same(s) == job[s] = "write" /\ TmpFile(CacheKey(s)) = t
     IN \/ /\ tmp[t] = NoFile
           /\ JobFails(r)
           /\ UNCHANGED <<cache, tmp>>
        \/ /\ tmp[t] # NoFile
           /\ cache' = [cache EXCEPT ![CacheKey(r)] = tmp[t]]
           /\ tmp' = [tmp EXCEPT ![t] = NoFile]
           /\ fd' = [s \in Refs |->
                       CASE Same(s) /\ fd[s] = "tmp" -> "cache"
                         [] Same(s) /\ fd[s] = "cache" -> "gone"
                         [] OTHER -> fd[s]]
           /\ job' = [job EXCEPT ![r] = "done"]
  /\ UNCHANGED <<digest, hash, fetchFailed>>

Work(r) ==
  /\ \/ ResolveDigest(r) \/ FetchFails(r) \/ ReadCache(r) \/ Prefetch(r)
     \/ OpenTmp(r) \/ WriteTmp(r) \/ ReplaceCache(r)
  /\ UNCHANGED <<upstream, runVars, latest, phase, exit, lockVars, bounds>>

(***************************************************************************)
(* The main thread: run.                                                   *)
(***************************************************************************)
Start ==
  /\ phase = "idle" /\ runs < MaxRuns
  /\ runs' = runs + 1
  /\ images' \in ImageSets \ {{}} /\ meta' \in 0..1 /\ ignore' \in BOOLEAN
  /\ job' = [r \in Refs |-> IF r \in images' THEN "queued" ELSE "none"]
  /\ tmp' = [k \in Keys |-> NoFile]
  /\ latest' = [u \in Uids |-> NoFile]
  /\ phase' = "jobs" /\ exit' = "none" /\ summary' = NoSummary
  /\ fetchFailed' = FALSE
  /\ digest' = [r \in Refs |-> Floating] /\ hash' = [r \in Refs |-> NoFile]
  /\ UNCHANGED <<upstream, cache, fd, lock, old, head,
                 uncommitted, retags, kills>>

\* No image at all: an empty list is written, and nothing is committed.
StartEmpty ==
  /\ phase = "idle" /\ runs < MaxRuns
  /\ {} \in ImageSets
  /\ runs' = runs + 1
  /\ images' = {} /\ lock' = <<>>
  /\ exit' = "ok" /\ summary' = NoSummary /\ fetchFailed' = FALSE
  /\ UNCHANGED <<upstream, jobVars, meta, ignore, latest, phase, old, head,
                 uncommitted, retags, kills>>

\* as_completed: a finished job is collected; the later of two jobs with one
\* uid replaces the earlier in new_hashes.
Collect(r) ==
  /\ phase = "jobs" /\ job[r] = "done"
  /\ job' = [job EXCEPT ![r] = "collected"]
  /\ latest' = [latest EXCEPT ![UidOf[r]] = r]
  /\ UNCHANGED <<upstream, cache, tmp, fd, digest, hash, runVars, phase, exit,
                 lockVars, fetchFailed, bounds>>

\* The first failed job ends the run, but the executor finishes the others.
CollectFailure(r) ==
  /\ phase = "jobs" /\ job[r] = "failed"
  /\ phase' = "exiting"
  /\ UNCHANGED <<upstream, jobVars, runVars, latest, exit, lockVars,
                 fetchFailed, bounds>>

Shutdown ==
  /\ phase = "exiting"
  /\ \A r \in images : job[r] \in {"done", "failed", "collected"}
  /\ phase' = "idle" /\ exit' = "failed"
  /\ UNCHANGED <<upstream, jobVars, runVars, latest, lockVars, fetchFailed,
                 bounds>>

Block(r) == [uid |-> UidOf[r], digest |-> digest[r], hash |-> hash[r],
             meta |-> meta]

\* sort: behind the references of S that come before it.
Place(S, r) == Cardinality({s \in S : Rank[s] <= Rank[r]})
InOrder(S) == [n \in 1..Cardinality(S) |-> CHOOSE r \in S : Place(S, r) = n]

\* final_nix: the blocks in the order of their references.
Final == [n \in 1..Cardinality(images) |-> Block(InOrder(images)[n])]

\* parse_nix_blocks: the last block of a uid is the one that counts.
UidsIn(file) == {file[i].uid : i \in 1..Len(file)}
LastBlock(file, u) ==
  file[CHOOSE i \in 1..Len(file) : /\ file[i].uid = u
                                   /\ \A j \in i + 1..Len(file) : file[j].uid # u]

\* generate_diff's comparison of the old file with new_hashes, uid by uid.
Compare(file) ==
  LET olds == UidsIn(file)
      news == {u \in Uids : latest[u] # NoFile}
      was(u) == LastBlock(file, u)
      is(u) == Block(latest[u])
      updated == {u \in olds \cap news : was(u).hash # is(u).hash}
  IN [kind |-> "changes", updated |-> updated,
      meta |-> {u \in (olds \cap news) \ updated : was(u) # is(u)},
      added |-> news \ olds, removed |-> olds \ news]

Summarised(file) ==
  IF file = Final THEN NoSummary
  ELSE IF file = Blank THEN [NoSummary EXCEPT !.kind = "created"]
  ELSE IF Compare(file) = [NoSummary EXCEPT !.kind = "changes"]
       THEN [NoSummary EXCEPT !.kind = "structure only"]
  ELSE Compare(file)

(* Mutant: failed jobs are left out of the lock.                        *)
TruncatePartial ==
  /\ phase = "jobs"
  /\ \A r \in images : job[r] \in {"collected", "failed"}
  /\ old' = lock /\ lock' = Blank
  /\ phase' = "writing"
  /\ UNCHANGED <<upstream, jobVars, runVars, latest, exit, summary, head,
                 uncommitted, fetchFailed, bounds>>

\* The old file is read and the new one opened, which truncates it...
Truncate ==
  /\ phase = "jobs" /\ \A r \in images : job[r] = "collected"
  /\ old' = lock /\ lock' = Blank
  /\ phase' = "writing"
  /\ UNCHANGED <<upstream, jobVars, runVars, latest, exit, summary, head,
                 uncommitted, fetchFailed, bounds>>

\* ... then written, and compared with the old content.
WriteLock ==
  /\ phase = "writing"
  /\ lock' = Final
  /\ summary' = Summarised(old)
  /\ phase' = "committing"
  /\ UNCHANGED <<upstream, jobVars, runVars, latest, exit, old, head,
                 uncommitted, fetchFailed, bounds>>

\* write_commit_msg and auto_commit: without a change there is nothing to do;
\* without --auto-commit, or without git, a change is left as it is; a commit
\* that git refuses ends the run.
Commit ==
  /\ phase = "committing"
  /\ phase' = "idle"
  /\ \/ /\ summary.kind = "none"
        /\ exit' = "ok" /\ UNCHANGED <<head, uncommitted>>
     \/ /\ summary.kind # "none"
        /\ exit' = "ok" /\ uncommitted' = TRUE /\ UNCHANGED head
     \/ /\ summary.kind # "none"
        /\ exit' = "ok" /\ head' = lock /\ uncommitted' = FALSE
     \/ /\ summary.kind # "none" /\ lock # head
        /\ exit' = "commit failed" /\ uncommitted' = TRUE /\ UNCHANGED head
  /\ UNCHANGED <<upstream, jobVars, runVars, latest, lock, old, summary,
                 fetchFailed, bounds>>

(***************************************************************************)
(* The environment: tags move, the process is killed.                      *)
(***************************************************************************)
Retag(p) ==
  /\ retags < MaxRetags /\ retags' = retags + 1
  /\ \E d \in Digests \ {upstream[p]} : upstream' = [upstream EXCEPT ![p] = d]
  /\ UNCHANGED <<jobVars, runVars, latest, phase, exit, lockVars, fetchFailed,
                 runs, kills>>

\* What was truncated stays truncated; the lock written but not committed too.
Kill ==
  /\ phase # "idle" /\ kills < MaxKills
  /\ kills' = kills + 1
  /\ phase' = "idle" /\ exit' = "killed"
  /\ job' = [r \in Refs |-> "none"] /\ fd' = [r \in Refs |-> "none"]
  /\ uncommitted' = (uncommitted \/ phase \in {"writing", "committing"})
  /\ UNCHANGED <<upstream, cache, tmp, digest, hash, runVars, latest, lock, old,
                 summary, head, fetchFailed, runs, retags>>

Next ==
  \/ Start \/ StartEmpty
  \/ \E r \in Refs : Work(r) \/ Collect(r) \/ CollectFailure(r)
  \/ Shutdown \/ Truncate \/ WriteLock \/ Commit
  \/ \E p \in Repos : Retag(p)
  \/ Kill

Spec == Init /\ [][Next]_vars

(***************************************************************************)
(* Properties.                                                             *)
(***************************************************************************)
Hashes == Keys
Blocks == [uid : Uids, digest : Digests, hash : Hashes, meta : 0..1]
IsLock(f) == f = Blank \/ (Len(f) <= Cardinality(Refs)
                           /\ \A i \in 1..Len(f) : f[i] \in Blocks)

\* Type invariant: a collected job has a digest and a whole hash, and a worker
\* has a file open only between open and close.
TypeOK ==
  /\ upstream \in [Repos -> Digests]
  /\ cache \in [Keys -> Hashes \cup {Blank, NoFile}]
  /\ tmp \in [Keys -> Hashes \cup {Blank, NoFile}]
  /\ \A r \in Refs :
       /\ job[r] \in {"none", "queued", "read", "prefetch", "open", "write",
                     "replace", "done", "failed", "collected"}
       /\ fd[r] \in {"none", "tmp", "cache", "gone"}
       /\ (fd[r] # "none") <=> (job[r] = "write")
       /\ job[r] \in {"done", "collected"} =>
            digest[r] \in Digests /\ hash[r] \in Hashes
  /\ images \in ImageSets \cup {{}} /\ meta \in 0..1 /\ ignore \in BOOLEAN
  /\ latest \in [Uids -> Refs \cup {NoFile}]
  /\ phase \in {"idle", "jobs", "exiting", "writing", "committing"}
  /\ exit \in {"none", "ok", "failed", "commit failed", "killed"}
  /\ IsLock(lock) /\ IsLock(old) /\ IsLock(head)
  /\ fetchFailed \in BOOLEAN /\ uncommitted \in BOOLEAN
  /\ Cardinality(Running) <= Workers

\* Two references whose cache entries can be the same file.
Twins(S) == {r \in S : \E s \in S \ {r} : RepoOf[s] = RepoOf[r]}

\* Whatever the order of the workers, the tags that moved, the entries kept
\* from earlier runs and the runs killed half way: every hash in a lock file
\* is that of an archive of the digest beside it, for an image of its uid.
LockTrue ==
  lock # Blank =>
    \A i \in 1..Len(lock) : \E r \in Refs :
      /\ UidOf[r] = lock[i].uid
      /\ lock[i].hash = <<RepoOf[r], lock[i].digest>>

\* The lock file is touched only when every image of the map has been resolved
\* in this run: a run with a failed job leaves the lock of the last good one.
FailedRunsKeepLock ==
  [][lock' # lock => \A r \in images' : job'[r] = "collected"]_vars

\* A cache file is seen empty only if another reference shares it: a worker
\* alone on its file replaces it whole, and no kill can leave it half written.
CacheWhole ==
  \A k \in Keys : cache[k] = Blank =>
    \E r \in Twins(Refs) : RepoOf[r] = k[1]

\* A run fails for a registry or a build that failed in this run, or because
\* two references of the map raced for one temporary file.
FailsForAReason ==
  exit = "failed" => fetchFailed \/ Twins(images) # {}

\* Between runs the lock is the committed one, unless since the last commit a
\* run was killed while it wrote or committed, or ended without a commit: none
\* was asked for, there was no git, or git refused; or there was nothing to
\* lock.  A run that finds no change never leaves a difference behind.
\* (Nothing repairs one either: the next run, with --auto-commit or not,
\* compares with the file and not with the commit.)
Committed ==
  phase = "idle" /\ lock # head => uncommitted \/ lock = <<>>

\* The message that only the structure changed hides a change only when
\* references with one uid hide each other: without them the blocks are the old
\* ones, in another order.
SharesUid(f) == \E i, j \in 1..Len(f) : i # j /\ f[i].uid = f[j].uid
QuietOnlyForSharedUids ==
  summary.kind = "structure only" =>
    SharesUid(old) \/ SharesUid(lock) \/ ToSet(old) = ToSet(lock)

\* The lock is true, differs from the commit only for a reason on record, and
\* its message hides no change that is not hidden by a shared uid.
LockIsTrue == TypeOK /\ LockTrue /\ Committed /\ QuietOnlyForSharedUids

\* What the message says: with it, no archive hash of the file has changed.
StructureOnlyIsTrue ==
  phase = "committing" /\ summary.kind = "structure only" =>
    {<<old[i].uid, old[i].hash>> : i \in 1..Len(old)}
      = {<<lock[i].uid, lock[i].hash>> : i \in 1..Len(lock)}
==============================================================================
