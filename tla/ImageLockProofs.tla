-------------------------- MODULE ImageLockProofs --------------------------
(***************************************************************************)
(* Proofs about the parts of the generator: the lock, for any references,  *)
(* repositories, digests, image sets, workers, runs, moving tags and       *)
(* kills; the archive builder; the names, for any references and mirrors;  *)
(* the map of images, for any Kustomizations, releases and objects.        *)
(***************************************************************************)
EXTENDS Generator, FiniteSetTheorems, WellFoundedInduction, TLAPS

Resolved == {"read", "prefetch", "open", "write", "replace", "done", "collected"}
Hashed == {"open", "write", "replace", "done", "collected"}
Ended == {"none", "done", "failed", "collected"}
Jobs == Resolved \cup {"none", "queued", "failed"}

FilesTyped ==
  /\ upstream \in [Repos -> Digests]
  /\ cache \in [Keys -> Keys \cup {Blank, NoFile}]
  /\ tmp \in [Keys -> Keys \cup {Blank, NoFile}]

JobsTyped ==
  /\ job \in [Refs -> Jobs] /\ fd \in [Refs -> {"none", "tmp", "cache", "gone"}]
  /\ digest \in [Refs -> Digests \cup {Floating}]
  /\ hash \in [Refs -> Keys \cup {NoFile}]
  /\ Cardinality(Running) <= Workers

MainTyped ==
  /\ images \in ImageSets \cup {{}} /\ meta \in 0..1 /\ ignore \in BOOLEAN
  /\ latest \in [Uids -> Refs \cup {NoFile}]
  /\ phase \in {"idle", "jobs", "exiting", "writing", "committing"}
  /\ exit \in {"none", "ok", "failed", "commit failed", "killed"}
  /\ fetchFailed \in BOOLEAN /\ uncommitted \in BOOLEAN

IsLockSeq(f) == f = Blank \/ (f \in Seq(Blocks) /\ Len(f) <= Cardinality(Refs))
LocksTyped == IsLockSeq(lock) /\ IsLockSeq(old) /\ IsLockSeq(head)

Typed == FilesTyped /\ JobsTyped /\ MainTyped /\ LocksTyped

(* A worker has a file open between open and close only, and the hash it   *)
(* has is that of its own archive.                                         *)
JobsTrue ==
  \A r \in Refs : /\ (fd[r] # "none") <=> (job[r] = "write")
                  /\ job[r] \in Resolved => digest[r] \in Digests
                  /\ job[r] \in Hashed => hash[r] = CacheKey(r)

(* A cache file never holds the hash of another archive.                   *)
FilesTrue == \A k \in Keys : {cache[k], tmp[k]} \subseteq {k, Blank, NoFile}

(* Jobs are run for the images of the map, and end before the lock file is *)
(* touched.                                                                *)
Phases ==
  /\ phase = "idle" => \A r \in Refs : job[r] \in Ended
  /\ phase # "idle" => \A r \in Refs \ images : job[r] = "none"
  /\ phase \in {"writing", "committing"} => \A r \in images : job[r] = "collected"

(* Nobody else touches the temporary file of an image that shares its      *)
(* cache file with no other.                                               *)
Alone ==
  phase # "idle" => \A r \in images \ Twins(images) :
    /\ job[r] = "write" => fd[r] = "tmp" /\ tmp[CacheKey(r)] = Blank
    /\ job[r] = "replace" => tmp[CacheKey(r)] = CacheKey(r)

(* A failed job has a reason.                                              *)
Reasons ==
  /\ phase # "idle" => \A r \in Refs :
       job[r] = "failed" => fetchFailed \/ r \in Twins(images)
  /\ phase = "exiting" => fetchFailed \/ Twins(images) # {}

(* new_hashes knows one reference of every uid that was collected.         *)
Collected ==
  phase # "idle" =>
    /\ \A u \in Uids : latest[u] # NoFile => latest[u] \in images /\ UidOf[latest[u]] = u
    /\ \A r \in images : job[r] = "collected" => latest[UidOf[r]] # NoFile

(* Which file the last commit holds, in every phase of a run.              *)
Tracked ==
  /\ phase \in {"idle", "jobs", "exiting"} /\ lock # head => uncommitted \/ lock = <<>>
  /\ phase \in {"writing", "committing"} /\ old # head => uncommitted \/ old = <<>>
  /\ phase = "committing" /\ summary.kind = "none" => lock = old

(* Nothing is said of the lock before it is written.                       *)
Told ==
  /\ phase \in {"jobs", "exiting", "writing"} => summary = NoSummary
  /\ QuietOnlyForSharedUids

WorkInv == FilesTyped /\ JobsTyped /\ JobsTrue /\ FilesTrue /\ CacheWhole
           /\ Phases /\ Alone /\ Reasons /\ Collected
RestInv == MainTyped /\ LocksTyped /\ Tracked /\ Told /\ LockTrue /\ FailsForAReason
IInv == WorkInv /\ RestInv

-----------------------------------------------------------------------------
(* The workers.                                                            *)

(* A job that goes on is one for the image map of a run.                   *)
LEMMA AtWork ==
  ASSUME IInv, NEW r \in Refs, job[r] \notin Ended
  PROVE  phase # "idle" /\ r \in images /\ images \subseteq Refs /\ job[r] # "collected"
BY RefsAssumption DEF IInv, WorkInv, RestInv, Phases, MainTyped, Ended

(* An image without a twin has its cache file to itself.                   *)
LEMMA OwnKey ==
  ASSUME IInv, NEW r \in images \ Twins(images), NEW s \in Refs, s # r, job[s] \notin Ended
  PROVE  CacheKey(s) # CacheKey(r)
BY AtWork DEF Twins, CacheKey

(* Twins of a map are twins.                                               *)
LEMMA TwinsGrow ==
  ASSUME IInv, NEW r \in Twins(images)
  PROVE  r \in Twins(Refs)
BY RefsAssumption DEF Twins, IInv, RestInv, MainTyped

(* Fewer workers are no more than there may be.                            *)
LEMMA FewerRunning ==
  ASSUME Cardinality(Running) <= Workers, NEW S \in SUBSET Running
  PROVE  Cardinality(S) <= Workers
<1>1. IsFiniteSet(Running)
  BY MarksAssumption, FS_Subset DEF Running
<1>2. Cardinality(S) <= Cardinality(Running) /\ Cardinality(S) \in Nat
      /\ Cardinality(Running) \in Nat
  BY <1>1, FS_Subset, FS_CardinalityType
<1> QED BY <1>2, RefsAssumption

(* One reference more.                                                     *)
LEMMA OneMore ==
  ASSUME NEW R \in SUBSET Refs, NEW r, NEW S \in SUBSET (R \cup {r})
  PROVE  /\ Cardinality(S) \in Nat /\ Cardinality(R) \in Nat
         /\ Cardinality(S) <= Cardinality(R) + 1
<1>1. IsFiniteSet(R) /\ Cardinality(R) \in Nat
  BY MarksAssumption, FS_Subset, FS_CardinalityType
<1>2. IsFiniteSet(R \cup {r}) /\ Cardinality(R \cup {r}) <= Cardinality(R) + 1
  <2>1. IsFiniteSet(R \cup {r})
    BY <1>1, FS_AddElement
  <2>2. Cardinality(R \cup {r}) = IF r \in R THEN Cardinality(R) ELSE Cardinality(R) + 1
    BY <1>1, FS_AddElement
  <2>3. CASE r \in R
    BY <1>1, <2>1, <2>2, <2>3
  <2>4. CASE r \notin R
    BY <1>1, <2>1, <2>2, <2>4
  <2> QED BY <2>3, <2>4
<1>3. Cardinality(S) <= Cardinality(R \cup {r}) /\ Cardinality(S) \in Nat
  BY <1>2, FS_Subset, FS_CardinalityType
<1>4. Cardinality(R \cup {r}) \in Nat
  BY <1>2, FS_CardinalityType
<1> QED BY <1>1, <1>2, <1>3, <1>4

(* A free worker takes a job.                                              *)
LEMMA OneMoreRunning ==
  ASSUME NEW R \in SUBSET Refs, Cardinality(R) < Workers, NEW r, NEW S \in SUBSET (R \cup {r})
  PROVE  Cardinality(S) <= Workers
<1>1. /\ Cardinality(S) \in Nat /\ Cardinality(R) \in Nat
      /\ Cardinality(S) <= Cardinality(R) + 1
  BY OneMore
<1> QED BY <1>1, RefsAssumption

(* What the next state of one job means for the run.                       *)
LEMMA JobStep ==
  ASSUME IInv, NEW r \in Refs, job[r] \notin Ended, NEW new \in Jobs \ {"collected"},
         job' = [job EXCEPT ![r] = new], UNCHANGED <<images, phase, latest>>,
         fetchFailed => fetchFailed',
         new = "failed" => fetchFailed' \/ r \in Twins(images),
         \/ new \in Ended \cup {"queued"} \/ job[r] # "queued"
         \/ Cardinality(Running) < Workers
  PROVE  /\ job' \in [Refs -> Jobs] /\ Cardinality(Running') <= Workers
         /\ Phases' /\ Reasons' /\ Collected'
<1> USE DEF IInv, WorkInv
<1>1. phase # "idle" /\ r \in images /\ job[r] # "collected"
  BY AtWork
<1>2. job' \in [Refs -> Jobs]
  BY DEF JobsTyped
<1>3. Cardinality(Running') <= Workers
  <2>1. CASE new \in Ended \cup {"queued"} \/ job[r] # "queued"
    <3>1. Running' \subseteq Running
      BY <1>2, <2>1 DEF Running, Ended, JobsTyped, Jobs, Resolved
    <3> QED BY <3>1, FewerRunning DEF JobsTyped
  <2>2. CASE Cardinality(Running) < Workers
    <3>1. Running' \subseteq Running \cup {r} /\ Running \subseteq Refs
      BY DEF Running, JobsTyped
    <3> QED BY <2>2, <3>1, OneMoreRunning
  <2> QED BY <2>1, <2>2
<1>4. Phases'
  BY <1>1 DEF Phases, JobsTyped
<1>5. Reasons'
  BY <1>1 DEF Reasons, JobsTyped, Twins
<1>6. Collected'
  BY <1>1 DEF Collected, JobsTyped
<1> QED BY <1>2, <1>3, <1>4, <1>5, <1>6

(* ResolveDigest: what the registry answers, or the pinned digest.         *)
LEMMA ResolveDigestKeeps ==
  ASSUME IInv, NEW r \in Refs, ResolveDigest(r), UNCHANGED <<upstream, images, phase, latest>>
  PROVE  WorkInv'
<1> USE DEF IInv, WorkInv
<1>1. /\ job[r] = "queued" /\ Cardinality(Running) < Workers
      /\ job' = [job EXCEPT ![r] = "read"] /\ UNCHANGED <<cache, tmp, fd, hash, fetchFailed>>
  BY DEF ResolveDigest
<1>2. /\ job' \in [Refs -> Jobs] /\ Cardinality(Running') <= Workers
      /\ Phases' /\ Reasons' /\ Collected'
  BY <1>1, JobStep DEF Ended, Jobs, Resolved
<1>3. /\ digest' \in [Refs -> Digests \cup {Floating}] /\ digest'[r] \in Digests
      /\ \A s \in Refs : s # r => digest'[s] = digest[s] /\ job'[s] = job[s]
      /\ job'[r] = "read"
  BY <1>1, RefsAssumption DEF ResolveDigest, JobsTyped, FilesTyped
<1>4. FilesTyped' /\ JobsTyped' /\ FilesTrue' /\ CacheWhole'
  BY <1>1, <1>2, <1>3 DEF FilesTyped, JobsTyped, FilesTrue, CacheWhole
<1>5. JobsTrue'
  BY <1>1, <1>3 DEF JobsTrue, CacheKey, Hashed
<1>6. Alone'
  BY <1>1, <1>3, RefsAssumption, ZenonT(40) DEF Alone, CacheKey, RestInv, MainTyped, Twins
<1> QED BY <1>2, <1>4, <1>5, <1>6

(* FetchFails: the job fails for the registry or the build.                *)
LEMMA FetchFailsKeeps ==
  ASSUME IInv, NEW r \in Refs, FetchFails(r), UNCHANGED <<upstream, images, phase, latest>>
  PROVE  WorkInv'
<1> USE DEF IInv, WorkInv
<1>1. /\ job[r] \in {"queued", "prefetch"} /\ job' = [job EXCEPT ![r] = "failed"]
      /\ fd' = [fd EXCEPT ![r] = "none"] /\ fetchFailed'
      /\ UNCHANGED <<cache, tmp, digest, hash>>
  BY DEF FetchFails, JobFails
<1>2. /\ job' \in [Refs -> Jobs] /\ Cardinality(Running') <= Workers
      /\ Phases' /\ Reasons' /\ Collected'
  BY <1>1, JobStep DEF Ended, Jobs, Resolved
<1>3. FilesTyped' /\ JobsTyped' /\ FilesTrue' /\ CacheWhole'
  BY <1>1, <1>2 DEF FilesTyped, JobsTyped, FilesTrue, CacheWhole
<1>4. JobsTrue'
  BY <1>1 DEF JobsTrue, JobsTyped, CacheKey, Hashed, Resolved
<1>5. Alone'
  BY <1>1, RefsAssumption DEF Alone, JobsTyped, CacheKey, RestInv, MainTyped, Twins
<1> QED BY <1>2, <1>3, <1>4, <1>5

(* ReadCache: a hash that is found is that of the archive.                 *)
LEMMA ReadCacheKeeps ==
  ASSUME IInv, NEW r \in Refs, ReadCache(r), UNCHANGED <<upstream, images, phase, latest>>
  PROVE  WorkInv'
<1> USE DEF IInv, WorkInv
<1>1. PICK new \in {"done", "prefetch"} :
        /\ job[r] = "read" /\ job' = [job EXCEPT ![r] = new]
        /\ hash' = [hash EXCEPT ![r] = IF new = "done" THEN cache[CacheKey(r)] ELSE NoFile]
        /\ new = "done" => cache[CacheKey(r)] \notin {NoFile, Blank}
        /\ UNCHANGED <<cache, tmp, fd, digest, fetchFailed>>
  BY DEF ReadCache
<1>2. /\ job' \in [Refs -> Jobs] /\ Cardinality(Running') <= Workers
      /\ Phases' /\ Reasons' /\ Collected'
  BY <1>1, JobStep DEF Ended, Jobs, Resolved
<1>3. CacheKey(r) \in Keys
  BY <1>1, RefsAssumption DEF JobsTrue, Resolved, CacheKey, Keys
<1>4. new = "done" => cache[CacheKey(r)] = CacheKey(r)
  BY <1>1, <1>3 DEF FilesTrue
<1>5. FilesTyped' /\ JobsTyped' /\ FilesTrue' /\ CacheWhole'
  BY <1>1, <1>2, <1>3, <1>4 DEF FilesTyped, JobsTyped, FilesTrue, CacheWhole
<1>6. JobsTrue'
  BY <1>1, <1>4 DEF JobsTrue, JobsTyped, CacheKey, Hashed, Resolved
<1>7. Alone'
  BY <1>1, RefsAssumption DEF Alone, JobsTyped, CacheKey, RestInv, MainTyped, Twins
<1> QED BY <1>2, <1>5, <1>6, <1>7

(* Prefetch: the hash is computed from the archive.                        *)
LEMMA PrefetchKeeps ==
  ASSUME IInv, NEW r \in Refs, Prefetch(r), UNCHANGED <<upstream, images, phase, latest>>
  PROVE  WorkInv'
<1> USE DEF IInv, WorkInv
<1>1. /\ job[r] = "prefetch" /\ job' = [job EXCEPT ![r] = "open"]
      /\ hash' = [hash EXCEPT ![r] = CacheKey(r)]
      /\ UNCHANGED <<cache, tmp, fd, digest, fetchFailed>>
  BY DEF Prefetch, CacheKey
<1>2. /\ job' \in [Refs -> Jobs] /\ Cardinality(Running') <= Workers
      /\ Phases' /\ Reasons' /\ Collected'
  BY <1>1, JobStep DEF Ended, Jobs, Resolved
<1>3. CacheKey(r) \in Keys
  BY <1>1, RefsAssumption DEF JobsTrue, Resolved, CacheKey, Keys
<1>4. FilesTyped' /\ JobsTyped' /\ FilesTrue' /\ CacheWhole'
  BY <1>1, <1>2, <1>3 DEF FilesTyped, JobsTyped, FilesTrue, CacheWhole
<1>5. JobsTrue'
  BY <1>1 DEF JobsTrue, JobsTyped, CacheKey, Hashed, Resolved
<1>6. Alone'
  BY <1>1, RefsAssumption DEF Alone, JobsTyped, CacheKey, RestInv, MainTyped, Twins
<1> QED BY <1>2, <1>4, <1>5, <1>6

(* OpenTmp: the temporary file is empty.                                   *)
LEMMA OpenTmpKeeps ==
  ASSUME IInv, NEW r \in Refs, OpenTmp(r), UNCHANGED <<upstream, images, phase, latest>>
  PROVE  WorkInv'
<1> USE DEF IInv, WorkInv
<1>1. /\ job[r] = "open" /\ job' = [job EXCEPT ![r] = "write"]
      /\ tmp' = [tmp EXCEPT ![CacheKey(r)] = Blank] /\ fd' = [fd EXCEPT ![r] = "tmp"]
      /\ UNCHANGED <<cache, digest, hash, fetchFailed>>
  BY DEF OpenTmp, TmpFile
<1>2. /\ job' \in [Refs -> Jobs] /\ Cardinality(Running') <= Workers
      /\ Phases' /\ Reasons' /\ Collected'
  BY <1>1, JobStep DEF Ended, Jobs, Resolved
<1>3. CacheKey(r) \in Keys
  BY <1>1, RefsAssumption DEF JobsTrue, Resolved, CacheKey, Keys
<1>4. FilesTyped' /\ JobsTyped' /\ FilesTrue' /\ CacheWhole'
  BY <1>1, <1>2, <1>3 DEF FilesTyped, JobsTyped, FilesTrue, CacheWhole
<1>5. JobsTrue'
  BY <1>1 DEF JobsTrue, JobsTyped, CacheKey, Hashed, Resolved
<1>6. Alone'
  <2> SUFFICES ASSUME phase' # "idle", NEW s \in images' \ Twins(images')
               PROVE  (/\ job[s] = "write" => fd[s] = "tmp" /\ tmp[CacheKey(s)] = Blank
                       /\ job[s] = "replace" => tmp[CacheKey(s)] = CacheKey(s))'
    BY DEF Alone
  <2>1. s \in images \ Twins(images) /\ s \in Refs /\ CacheKey(s)' = CacheKey(s)
    BY <1>1, RefsAssumption DEF CacheKey, RestInv, MainTyped, Twins
  <2>2. CASE s = r
    BY <1>1, <1>3, <2>1, <2>2 DEF JobsTyped, FilesTyped
  <2>3. CASE s # r
    <3>1. CacheKey(s) # CacheKey(r)
      BY <1>1, <2>1, <2>3, OwnKey DEF Ended
    <3> QED BY <1>1, <1>3, <2>1, <2>3, <3>1 DEF Alone, JobsTyped, FilesTyped
  <2> QED BY <2>2, <2>3
<1> QED BY <1>2, <1>4, <1>5, <1>6

(* WriteTmp: the hash goes where the open file is now.                     *)
LEMMA WriteTmpKeeps ==
  ASSUME IInv, NEW r \in Refs, WriteTmp(r), UNCHANGED <<upstream, images, phase, latest>>
  PROVE  WorkInv'
<1> USE DEF IInv, WorkInv
<1>1. /\ job[r] = "write" /\ job' = [job EXCEPT ![r] = "replace"]
      /\ tmp' = IF fd[r] # "tmp" THEN tmp ELSE [tmp EXCEPT ![CacheKey(r)] = hash[r]]
      /\ cache' = IF fd[r] # "cache" THEN cache ELSE [cache EXCEPT ![CacheKey(r)] = hash[r]]
      /\ fd' = [fd EXCEPT ![r] = "none"] /\ UNCHANGED <<digest, hash, fetchFailed>>
  BY DEF WriteTmp, TmpFile
<1>2. /\ job' \in [Refs -> Jobs] /\ Cardinality(Running') <= Workers
      /\ Phases' /\ Reasons' /\ Collected'
  BY <1>1, JobStep DEF Ended, Jobs, Resolved
<1>3. CacheKey(r) \in Keys /\ hash[r] = CacheKey(r)
  BY <1>1, RefsAssumption DEF JobsTrue, Resolved, Hashed, CacheKey, Keys
<1>4. FilesTyped' /\ JobsTyped'
  BY <1>1, <1>2, <1>3 DEF FilesTyped, JobsTyped
<1>5. FilesTrue' /\ CacheWhole'
  BY <1>1, <1>3, MarksAssumption DEF FilesTyped, FilesTrue, CacheWhole
<1>6. JobsTrue'
  BY <1>1 DEF JobsTrue, JobsTyped, CacheKey, Hashed, Resolved
<1>7. Alone'
  <2> SUFFICES ASSUME phase' # "idle", NEW s \in images' \ Twins(images')
               PROVE  (/\ job[s] = "write" => fd[s] = "tmp" /\ tmp[CacheKey(s)] = Blank
                       /\ job[s] = "replace" => tmp[CacheKey(s)] = CacheKey(s))'
    BY DEF Alone
  <2>1. s \in images \ Twins(images) /\ s \in Refs /\ CacheKey(s)' = CacheKey(s)
    BY <1>1, RefsAssumption DEF CacheKey, RestInv, MainTyped, Twins
  <2>2. CASE s = r
    <3>1. fd[r] = "tmp"
      BY <1>1, <2>1, <2>2 DEF Alone
    <3> QED BY <1>1, <1>3, <2>1, <2>2, <3>1 DEF JobsTyped, FilesTyped
  <2>3. CASE s # r
    <3>1. CacheKey(s) # CacheKey(r)
      BY <1>1, <2>1, <2>3, OwnKey DEF Ended
    <3> QED BY <1>1, <1>3, <2>1, <2>3, <3>1 DEF Alone, JobsTyped, FilesTyped
  <2> QED BY <2>2, <2>3
<1> QED BY <1>2, <1>4, <1>5, <1>6, <1>7

(* ReplaceCache: the file moves, with everyone who has it open; only a twin*)
(* can have moved it before, or have emptied it.                           *)
LEMMA ReplaceCacheKeeps ==
  ASSUME IInv, NEW r \in Refs, ReplaceCache(r), UNCHANGED <<upstream, images, phase, latest>>
  PROVE  WorkInv'
<1> USE DEF IInv, WorkInv
<1> DEFINE t == CacheKey(r)
<1>1. /\ job[r] = "replace" /\ UNCHANGED <<digest, hash, fetchFailed>>
      /\ phase # "idle" /\ r \in images
  BY AtWork DEF ReplaceCache, Ended
<1>2. t \in Keys
  BY <1>1, RefsAssumption DEF JobsTrue, Resolved, CacheKey, Keys
<1>3. r \notin Twins(images) => tmp[t] = t
  BY <1>1 DEF Alone
<1>4. CASE tmp[t] = NoFile /\ JobFails(r) /\ UNCHANGED <<cache, tmp>>
  <2>1. job' = [job EXCEPT ![r] = "failed"] /\ fd' = [fd EXCEPT ![r] = "none"]
    BY <1>4 DEF JobFails
  <2>2. r \in Twins(images)
    BY <1>2, <1>3, <1>4, MarksAssumption
  <2>3. /\ job' \in [Refs -> Jobs] /\ Cardinality(Running') <= Workers
        /\ Phases' /\ Reasons' /\ Collected'
    BY <1>1, <2>1, <2>2, JobStep DEF Ended, Jobs, Resolved
  <2>4. FilesTyped' /\ JobsTyped' /\ FilesTrue' /\ CacheWhole'
    BY <1>1, <1>4, <2>1, <2>3 DEF FilesTyped, JobsTyped, FilesTrue, CacheWhole
  <2>5. JobsTrue'
    BY <1>1, <2>1 DEF JobsTrue, JobsTyped, CacheKey, Hashed, Resolved
  <2>6. Alone'
    BY <1>1, <1>4, <2>1, RefsAssumption
    DEF Alone, JobsTyped, CacheKey, RestInv, MainTyped, Twins
  <2> QED BY <2>3, <2>4, <2>5, <2>6
<1>5. CASE tmp[t] # NoFile /\ ~UNCHANGED <<cache, tmp>>
  <2>1. /\ cache' = [cache EXCEPT ![t] = tmp[t]] /\ tmp' = [tmp EXCEPT ![t] = NoFile]
        /\ job' = [job EXCEPT ![r] = "done"]
        /\ \A s \in Refs : job[s] # "write" \/ CacheKey(s) # t => fd'[s] = fd[s]
        /\ fd' \in [Refs -> {"none", "tmp", "cache", "gone"}]
        /\ \A s \in Refs : fd'[s] = "none" <=> fd[s] = "none"
    BY <1>5 DEF ReplaceCache, TmpFile, JobsTyped
  <2>2. /\ job' \in [Refs -> Jobs] /\ Cardinality(Running') <= Workers
        /\ Phases' /\ Reasons' /\ Collected'
    BY <1>1, <2>1, JobStep DEF Ended, Jobs, Resolved
  <2>3. FilesTyped' /\ JobsTyped' /\ FilesTrue'
    BY <1>1, <1>2, <2>1, <2>2 DEF FilesTyped, JobsTyped, FilesTrue
  <2>4. CacheWhole'
    <3> SUFFICES ASSUME NEW k \in Keys, cache'[k] = Blank
                 PROVE  \E s \in Twins(Refs) : RepoOf[s] = k[1]
      BY DEF CacheWhole
    <3>1. CASE k = t
      <4>1. r \in Twins(images)
        BY <1>2, <1>3, <2>1, <3>1, MarksAssumption DEF FilesTyped
      <4> QED BY <3>1, <4>1, TwinsGrow DEF CacheKey
    <3>2. CASE k # t
      BY <1>2, <2>1, <3>2 DEF CacheWhole, FilesTyped
    <3> QED BY <3>1, <3>2
  <2>5. JobsTrue'
    BY <1>1, <2>1 DEF JobsTrue, JobsTyped, CacheKey, Hashed, Resolved
  <2>6. Alone'
    <3> SUFFICES ASSUME phase' # "idle", NEW s \in images' \ Twins(images')
                 PROVE  (/\ job[s] = "write" => fd[s] = "tmp" /\ tmp[CacheKey(s)] = Blank
                         /\ job[s] = "replace" => tmp[CacheKey(s)] = CacheKey(s))'
      BY DEF Alone
    <3>1. s \in images \ Twins(images) /\ s \in Refs /\ CacheKey(s)' = CacheKey(s)
      BY <1>1, RefsAssumption DEF CacheKey, RestInv, MainTyped, Twins
    <3>2. CASE s = r
      BY <2>1, <3>1, <3>2 DEF JobsTyped
    <3>3. CASE s # r
      <4>1. CacheKey(s) # t
        BY <1>1, <3>1, <3>3, OwnKey DEF Ended
      <4> QED BY <1>1, <1>2, <2>1, <3>1, <3>3, <4>1 DEF Alone, JobsTyped, FilesTyped
    <3> QED BY <3>2, <3>3
  <2> QED BY <2>2, <2>3, <2>4, <2>5, <2>6
<1> QED
  <2>1. \/ tmp[t] = NoFile /\ JobFails(r) /\ UNCHANGED <<cache, tmp>>
        \/ tmp[t] # NoFile /\ tmp' = [tmp EXCEPT ![t] = NoFile]
    BY DEF ReplaceCache, TmpFile
  <2>2. ASSUME tmp[t] # NoFile, tmp' = [tmp EXCEPT ![t] = NoFile]
        PROVE  tmp' # tmp
    BY <1>2, <2>2 DEF FilesTyped
  <2> QED BY <1>4, <1>5, <2>1, <2>2

(* What is said of the files of a run that does not touch them.            *)
LEMMA LocksStay ==
  ASSUME IInv, UNCHANGED lockVars
  PROVE  LocksTyped' /\ LockTrue' /\ QuietOnlyForSharedUids'
<1> USE DEF IInv, RestInv, lockVars
<1>1. LocksTyped'
  BY DEF LocksTyped, IsLockSeq
<1>2. LockTrue'
  BY DEF LockTrue
<1>3. QuietOnlyForSharedUids'
  BY DEF Told, QuietOnlyForSharedUids, SharesUid
<1> QED BY <1>1, <1>2, <1>3

(* What the workers leave alone.                                           *)
LEMMA RestKeeps ==
  ASSUME IInv, UNCHANGED <<runVars, phase, exit, lockVars>>,
         latest' \in [Uids -> Refs \cup {NoFile}],
         fetchFailed' \in BOOLEAN, fetchFailed => fetchFailed'
  PROVE  RestInv'
<1> USE DEF IInv, RestInv
<1>1. LocksTyped' /\ LockTrue' /\ QuietOnlyForSharedUids'
  BY LocksStay
<1>2. MainTyped'
  BY DEF MainTyped, runVars, lockVars
<1>3. Tracked' /\ Told'
  BY <1>1 DEF Tracked, Told, lockVars
<1>4. FailsForAReason'
  BY DEF FailsForAReason, Twins, runVars
<1> QED BY <1>1, <1>2, <1>3, <1>4

(* A step of a worker, whichever it is.                                    *)
LEMMA WorkKeeps ==
  ASSUME IInv, NEW r \in Refs, Work(r)
  PROVE  IInv'
<1>1. UNCHANGED <<upstream, runVars, images, latest, phase, exit, lockVars>>
  BY DEF Work, runVars
<1>2. WorkInv'
  BY <1>1, ResolveDigestKeeps, FetchFailsKeeps, ReadCacheKeeps, PrefetchKeeps, OpenTmpKeeps,
     WriteTmpKeeps, ReplaceCacheKeeps DEF Work
<1>3. fetchFailed' \in BOOLEAN /\ (fetchFailed => fetchFailed')
  BY DEF Work, ResolveDigest, FetchFails, ReadCache, Prefetch, OpenTmp, WriteTmp, ReplaceCache,
         IInv, RestInv, MainTyped
<1>4. RestInv'
  <2>1. latest' \in [Uids -> Refs \cup {NoFile}]
    BY <1>1 DEF IInv, RestInv, MainTyped
  <2> QED BY <1>1, <1>3, <2>1, RestKeeps
<1> QED BY <1>2, <1>4 DEF IInv

-----------------------------------------------------------------------------
(* The main thread.                                                        *)

(* Nothing has been said of a lock.                                        *)
LEMMA Silent == NoSummary.kind = "none"
BY DEF NoSummary

(* No job, no worker.                                                      *)
LEMMA NobodyRuns ==
  ASSUME \A r \in Refs : job'[r] \in {"none", "queued"}
  PROVE  Cardinality(Running') <= Workers
<1>1. Running' = {}
  BY DEF Running
<1> QED BY <1>1, FS_EmptySet, RefsAssumption

(* Start: every image of the map is queued, nothing is collected.          *)
LEMMA StartKeeps ==
  ASSUME IInv, Start
  PROVE  IInv'
<1> USE DEF IInv, WorkInv, RestInv
<1>1. /\ phase = "idle" /\ phase' = "jobs" /\ images' \in ImageSets /\ meta' \in 0..1
      /\ ignore' \in BOOLEAN
      /\ job' = [r \in Refs |-> IF r \in images' THEN "queued" ELSE "none"]
      /\ tmp' = [k \in Keys |-> NoFile] /\ latest' = [u \in Uids |-> NoFile]
      /\ exit' = "none" /\ summary' = NoSummary /\ fetchFailed' = FALSE
      /\ digest' = [r \in Refs |-> Floating] /\ hash' = [r \in Refs |-> NoFile]
      /\ UNCHANGED <<upstream, cache, fd, lock, old, head, uncommitted>>
  BY DEF Start
<1>2. \A r \in Refs : fd[r] = "none"
  BY <1>1 DEF JobsTrue, Phases, Ended
<1>3. \A r \in Refs : job'[r] \in {"none", "queued"}
  BY <1>1
<1>4. FilesTyped' /\ JobsTyped'
  BY <1>1, <1>3, NobodyRuns DEF FilesTyped, JobsTyped, Jobs
<1>5. JobsTrue' /\ FilesTrue' /\ CacheWhole'
  BY <1>1, <1>2, <1>3 DEF JobsTrue, Resolved, Hashed, FilesTrue, CacheWhole
<1>6. Phases' /\ Alone' /\ Reasons' /\ Collected'
  BY <1>1, <1>3, RefsAssumption DEF Phases, Alone, Reasons, Collected
<1>7. MainTyped' /\ LocksTyped'
  BY <1>1 DEF MainTyped, LocksTyped, IsLockSeq
<1>8. Tracked' /\ Told' /\ LockTrue' /\ FailsForAReason'
  BY <1>1, Silent DEF Tracked, Told, QuietOnlyForSharedUids, LockTrue, FailsForAReason
<1> QED BY <1>4, <1>5, <1>6, <1>7, <1>8

(* StartEmpty: an empty list, and no commit.                               *)
LEMMA StartEmptyKeeps ==
  ASSUME IInv, StartEmpty
  PROVE  IInv'
<1> USE DEF IInv, WorkInv, RestInv
<1>1. /\ phase = "idle" /\ phase' = "idle" /\ images' = {} /\ lock' = <<>>
      /\ exit' = "ok" /\ summary' = NoSummary /\ fetchFailed' = FALSE
      /\ UNCHANGED <<upstream, cache, tmp, job, fd, digest, hash, meta, ignore, latest, old,
                     head, uncommitted>>
  BY DEF StartEmpty, jobVars
<1>2. FilesTyped' /\ JobsTyped' /\ JobsTrue' /\ FilesTrue' /\ CacheWhole'
  BY <1>1 DEF FilesTyped, JobsTyped, Running, JobsTrue, CacheKey, FilesTrue, CacheWhole
<1>3. Phases' /\ Alone' /\ Reasons' /\ Collected'
  BY <1>1 DEF Phases, Alone, Reasons, Collected
<1>4. MainTyped'
  BY <1>1 DEF MainTyped
<1>5. LocksTyped'
  <2>1. Cardinality(Refs) \in Nat
    BY MarksAssumption, FS_CardinalityType
  <2>2. <<>> \in Seq(Blocks) /\ Len(<<>>) = 0
    OBVIOUS
  <2> QED BY <1>1, <2>1, <2>2 DEF LocksTyped, IsLockSeq
<1>6. Tracked' /\ FailsForAReason'
  BY <1>1 DEF Tracked, FailsForAReason
<1>7. Told'
  BY <1>1, Silent DEF Told, QuietOnlyForSharedUids
<1>8. LockTrue'
  <2>1. 1..Len(<<>>) = {}
    OBVIOUS
  <2> QED BY <1>1, <2>1 DEF LockTrue
<1> QED BY <1>2, <1>3, <1>4, <1>5, <1>6, <1>7, <1>8

(* Collect: the reference is the latest of its uid.                        *)
LEMMA CollectKeeps ==
  ASSUME IInv, NEW r \in Refs, Collect(r)
  PROVE  IInv'
<1> USE DEF IInv, WorkInv
<1>1. /\ phase = "jobs" /\ job[r] = "done" /\ job' = [job EXCEPT ![r] = "collected"]
      /\ latest' = [latest EXCEPT ![UidOf[r]] = r]
      /\ UNCHANGED <<upstream, cache, tmp, fd, digest, hash, runVars, images, phase, exit,
                     lockVars, fetchFailed>>
  BY DEF Collect, runVars
<1>2. r \in images /\ UidOf[r] \in Uids /\ images \subseteq Refs
  BY <1>1, RefsAssumption DEF Phases, RestInv, MainTyped
<1>3. job' \in [Refs -> Jobs] /\ Running' = Running
  BY <1>1 DEF JobsTyped, Jobs, Resolved, Running
<1>4. FilesTyped' /\ JobsTyped' /\ FilesTrue' /\ CacheWhole'
  BY <1>1, <1>3 DEF FilesTyped, JobsTyped, FilesTrue, CacheWhole
<1>5. JobsTrue'
  BY <1>1 DEF JobsTrue, JobsTyped, CacheKey, Hashed, Resolved
<1>6. Phases' /\ Reasons'
  BY <1>1, <1>2 DEF Phases, Reasons, JobsTyped, Twins
<1>7. Alone'
  BY <1>1, <1>2 DEF Alone, JobsTyped, CacheKey, Twins
<1>8. Collected'
  BY <1>1, <1>2, MarksAssumption, RefsAssumption, ZenonT(40)
  DEF Collected, JobsTyped, RestInv, MainTyped
<1>9. RestInv'
  <2>1. latest' \in [Uids -> Refs \cup {NoFile}] /\ fetchFailed' \in BOOLEAN
    BY <1>1 DEF RestInv, MainTyped
  <2> QED BY <1>1, <2>1, RestKeeps
<1> QED BY <1>4, <1>5, <1>6, <1>7, <1>8, <1>9

(* What depends on the jobs only when they do not change.                  *)
LEMMA JobsStay ==
  ASSUME IInv, UNCHANGED <<upstream, jobVars, images>>
  PROVE  FilesTyped' /\ JobsTyped' /\ JobsTrue' /\ FilesTrue' /\ CacheWhole'
BY DEF IInv, WorkInv, FilesTyped, JobsTyped, Running, JobsTrue, CacheKey, FilesTrue,
       CacheWhole, jobVars

(* CollectFailure and Shutdown: the lock stays as it is.                   *)
LEMMA CollectFailureKeeps ==
  ASSUME IInv, NEW r \in Refs, CollectFailure(r)
  PROVE  IInv'
<1> USE DEF IInv, WorkInv
<1>1. /\ phase = "jobs" /\ job[r] = "failed" /\ phase' = "exiting"
      /\ UNCHANGED <<upstream, jobVars, cache, tmp, job, fd, digest, hash, runVars, images,
                     latest, exit, lockVars, fetchFailed>>
  BY DEF CollectFailure, runVars, jobVars
<1>2. FilesTyped' /\ JobsTyped' /\ JobsTrue' /\ FilesTrue' /\ CacheWhole'
  BY <1>1, JobsStay
<1>3. Phases' /\ Alone' /\ Reasons' /\ Collected'
  BY <1>1 DEF Phases, Alone, CacheKey, Reasons, Collected, Twins
<1>4. LocksTyped' /\ LockTrue' /\ QuietOnlyForSharedUids'
  BY <1>1, LocksStay
<1>5. MainTyped' /\ Tracked' /\ Told' /\ FailsForAReason'
  BY <1>1, <1>4 DEF RestInv, MainTyped, Tracked, Told, FailsForAReason, Twins, runVars,
                    lockVars
<1> QED BY <1>2, <1>3, <1>4, <1>5 DEF RestInv

(* Shutdown: the executor has finished the jobs.                           *)
LEMMA ShutdownKeeps ==
  ASSUME IInv, Shutdown
  PROVE  IInv'
<1> USE DEF IInv, WorkInv
<1>1. /\ phase = "exiting" /\ phase' = "idle" /\ exit' = "failed"
      /\ \A r \in images : job[r] \in {"done", "failed", "collected"}
      /\ UNCHANGED <<upstream, jobVars, cache, tmp, job, fd, digest, hash, runVars, images,
                     latest, lockVars, fetchFailed>>
  BY DEF Shutdown, runVars, jobVars
<1>2. FilesTyped' /\ JobsTyped' /\ JobsTrue' /\ FilesTrue' /\ CacheWhole'
  BY <1>1, JobsStay
<1>3. Phases' /\ Alone' /\ Reasons' /\ Collected'
  BY <1>1 DEF Phases, Ended, Alone, Reasons, Collected
<1>4. FailsForAReason'
  BY <1>1 DEF Reasons, FailsForAReason, Twins
<1>5. LocksTyped' /\ LockTrue' /\ QuietOnlyForSharedUids'
  BY <1>1, LocksStay
<1>6. MainTyped' /\ Tracked' /\ Told'
  BY <1>1, <1>5 DEF RestInv, MainTyped, Tracked, Told, runVars, lockVars
<1> QED BY <1>2, <1>3, <1>4, <1>5, <1>6 DEF RestInv

(* Truncate: the old file is remembered.                                   *)
LEMMA TruncateKeeps ==
  ASSUME IInv, Truncate
  PROVE  IInv'
<1> USE DEF IInv, WorkInv
<1>1. /\ phase = "jobs" /\ phase' = "writing" /\ old' = lock /\ lock' = Blank
      /\ \A r \in images : job[r] = "collected"
      /\ UNCHANGED <<upstream, jobVars, cache, tmp, job, fd, digest, hash, runVars, images,
                     latest, exit, summary, head, uncommitted, fetchFailed>>
  BY DEF Truncate, runVars, jobVars
<1>2. FilesTyped' /\ JobsTyped' /\ JobsTrue' /\ FilesTrue' /\ CacheWhole'
  BY <1>1, JobsStay
<1>3. Phases' /\ Alone' /\ Reasons' /\ Collected'
  BY <1>1 DEF Phases, Alone, CacheKey, Reasons, Collected, Twins
<1>4. Told'
  BY <1>1, Silent DEF RestInv, Told, QuietOnlyForSharedUids
<1>5. RestInv'
  BY <1>1, <1>4 DEF RestInv, MainTyped, LocksTyped, IsLockSeq, Tracked, LockTrue,
                    FailsForAReason, Twins, runVars
<1> QED BY <1>2, <1>3, <1>5

(* The order of the lock file: every reference has a place of its own.     *)
LEMMA PlacesDiffer ==
  ASSUME NEW S \in SUBSET Refs, NEW r \in S, NEW q \in S
  PROVE  /\ Place(S, r) \in 1..Cardinality(S)
         /\ Rank[r] < Rank[q] => Place(S, r) # Place(S, q)
<1> DEFINE Upto(p) == {s \in S : Rank[s] <= Rank[p]}
<1>1. IsFiniteSet(S) /\ \A p \in S : Rank[p] \in Nat
  BY MarksAssumption, RefsAssumption, FS_Subset
<1>2. /\ IsFiniteSet(Upto(r)) /\ Cardinality(Upto(r)) <= Cardinality(S)
      /\ Cardinality(Upto(r)) \in Nat /\ Cardinality(S) \in Nat /\ IsFiniteSet(Upto(q))
  <2>1. Upto(r) \in SUBSET S /\ Upto(q) \in SUBSET S
    OBVIOUS
  <2> HIDE DEF Upto
  <2> QED BY <1>1, <2>1, FS_Subset, FS_CardinalityType
<1>3. Cardinality(Upto(r)) # 0
  <2>1. r \in Upto(r)
    BY <1>1
  <2> HIDE DEF Upto
  <2> QED BY <1>2, <2>1, FS_EmptySet
<1>4. Rank[r] < Rank[q] => Cardinality(Upto(r)) # Cardinality(Upto(q))
  <2> SUFFICES ASSUME Rank[r] < Rank[q]  PROVE Cardinality(Upto(r)) # Cardinality(Upto(q))
    OBVIOUS
  <2>1. Upto(r) \in SUBSET Upto(q) /\ q \in Upto(q) /\ q \notin Upto(r)
    BY <1>1
  <2> HIDE DEF Upto
  <2> QED BY <1>2, <2>1, FS_Subset
<1>5. Place(S, r) = Cardinality(Upto(r)) /\ Place(S, q) = Cardinality(Upto(q))
  BY DEF Place
<1> HIDE DEF Upto
<1> QED BY <1>2, <1>3, <1>4, <1>5

(* ... and every place has its reference.                                  *)
LEMMA InOrderIs ==
  ASSUME NEW S \in SUBSET Refs
  PROVE  /\ Cardinality(S) \in Nat /\ Cardinality(S) <= Cardinality(Refs)
         /\ \A n \in 1..Cardinality(S) : InOrder(S)[n] \in S
         /\ \A r \in S : \E n \in 1..Cardinality(S) : InOrder(S)[n] = r
<1> DEFINE f == [r \in S |-> Place(S, r)]
<1>1. /\ IsFiniteSet(S) /\ Cardinality(S) \in Nat /\ Cardinality(Refs) \in Nat
      /\ Cardinality(S) <= Cardinality(Refs)
  BY MarksAssumption, FS_Subset, FS_CardinalityType
<1>2. \A r, q \in S : Place(S, r) = Place(S, q) => r = q
  <2> SUFFICES ASSUME NEW r \in S, NEW q \in S, r # q  PROVE Place(S, r) # Place(S, q)
    OBVIOUS
  <2>1. Rank[r] \in Nat /\ Rank[q] \in Nat /\ Rank[r] # Rank[q]
    BY RefsAssumption
  <2>2. CASE Rank[r] < Rank[q]
    BY <2>2, PlacesDiffer
  <2>3. CASE Rank[q] < Rank[r]
    <3>1. Place(S, q) # Place(S, r)
      BY <2>3, PlacesDiffer
    <3> QED BY <3>1
  <2> QED BY <2>1, <2>2, <2>3
<1>3. \A r \in S : Place(S, r) \in 1..Cardinality(S)
  BY PlacesDiffer
<1>4. f \in Injection(S, 1..Cardinality(S))
  BY <1>2, <1>3 DEF Injection, IsInjective
<1>5. IsFiniteSet(1..Cardinality(S)) /\ Cardinality(1..Cardinality(S)) = Cardinality(S)
  BY <1>1, FS_Interval
<1>6. f \in Surjection(S, 1..Cardinality(S))
  BY <1>4, <1>5, FS_Injection
<1>7. \A n \in 1..Cardinality(S) : \E r \in S : Place(S, r) = n
  BY <1>6 DEF Surjection
<1>8. \A n \in 1..Cardinality(S) : InOrder(S)[n] \in S /\ Place(S, InOrder(S)[n]) = n
  BY <1>7 DEF InOrder
<1>9. \A r \in S : InOrder(S)[Place(S, r)] = r
  BY <1>2, <1>3, <1>8
<1> QED BY <1>1, <1>3, <1>8, <1>9

(* final_nix: one true block for every image.                              *)
LEMMA FinalIs ==
  ASSUME IInv, \A r \in images : job[r] = "collected"
  PROVE  /\ Final \in Seq(Blocks) /\ Len(Final) <= Cardinality(Refs)
         /\ \A i \in 1..Len(Final) : \E r \in images : Final[i] = Block(r)
         /\ \A r \in images : \E i \in 1..Len(Final) : Final[i] = Block(r)
         /\ \A r \in images : /\ r \in Refs /\ Block(r) \in Blocks /\ Block(r).uid = UidOf[r]
                              /\ Block(r).hash = <<RepoOf[r], Block(r).digest>>
<1> DEFINE n == Cardinality(images)
<1>1. images \in SUBSET Refs
  BY RefsAssumption DEF IInv, RestInv, MainTyped
<1>2. /\ n \in Nat /\ n <= Cardinality(Refs)
      /\ \A i \in 1..n : InOrder(images)[i] \in images
      /\ \A r \in images : \E i \in 1..n : InOrder(images)[i] = r
  BY <1>1, InOrderIs
<1>3. ASSUME NEW r \in images
      PROVE  /\ r \in Refs /\ Block(r) \in Blocks /\ Block(r).uid = UidOf[r]
             /\ Block(r).hash = <<RepoOf[r], Block(r).digest>>
  <2>1. digest[r] \in Digests /\ hash[r] = <<RepoOf[r], digest[r]>>
    BY <1>1, <1>3 DEF IInv, WorkInv, JobsTrue, Resolved, Hashed, CacheKey
  <2>2. r \in Refs /\ RepoOf[r] \in Repos /\ UidOf[r] \in Uids /\ meta \in 0..1
    BY <1>1, <1>3, RefsAssumption DEF IInv, RestInv, MainTyped
  <2> QED BY <2>1, <2>2 DEF Block, Blocks, Hashes, Keys
<1>4. /\ DOMAIN Final = 1..n /\ \A i \in 1..n : Final[i] = Block(InOrder(images)[i])
      /\ Final = [i \in 1..n |-> Final[i]]
  BY DEF Final
<1> HIDE DEF n
<1>5. \A i \in 1..n : Final[i] \in Blocks
  BY <1>2, <1>3, <1>4
<1>6. Final \in Seq(Blocks) /\ Len(Final) = n
  <2>1. Final \in [1..n -> Blocks]
    BY <1>4, <1>5
  <2> QED BY <1>2, <2>1
<1> QED BY <1>2, <1>3, <1>4, <1>6

(* Without references that share a uid a comparison that finds nothing has *)
(* compared every block with itself.                                       *)
LEMMA NothingHidden ==
  ASSUME IInv, \A r \in images : job[r] = "collected", phase # "idle",
         NEW file \in Seq(Blocks), ~SharesUid(file), ~SharesUid(Final),
         Compare(file) = [NoSummary EXCEPT !.kind = "changes"]
  PROVE  ToSet(file) = ToSet(Final)
<1> DEFINE news == {u \in Uids : latest[u] # NoFile}
           was(u) == LastBlock(file, u)
           is(u) == Block(latest[u])
<1>1. /\ news = UidsIn(file)
      /\ \A u \in news : was(u) = is(u)
  <2>1. /\ {u \in UidsIn(file) \cap news : was(u).hash # is(u).hash} = {}
        /\ {u \in (UidsIn(file) \cap news) \ {} : was(u) # is(u)} = {}
        /\ news \ UidsIn(file) = {} /\ UidsIn(file) \ news = {}
    BY DEF Compare, NoSummary
  <2> QED BY <2>1
<1>2. \A i \in 1..Len(file) : LastBlock(file, file[i].uid) = file[i]
  <2> SUFFICES ASSUME NEW i \in 1..Len(file)  PROVE LastBlock(file, file[i].uid) = file[i]
    OBVIOUS
  <2>1. \A j \in 1..Len(file) : file[j].uid = file[i].uid => j = i
    BY DEF SharesUid
  <2>2. \A j \in i + 1..Len(file) : j \in 1..Len(file) /\ j # i
    OBVIOUS
  <2>3. \A j \in 1..Len(file) :
          (/\ file[j].uid = file[i].uid
           /\ \A h \in j + 1..Len(file) : file[h].uid # file[i].uid) <=> j = i
    BY <2>1, <2>2
  <2> QED BY <2>3 DEF LastBlock
<1>3. /\ \A u \in news : latest[u] \in images /\ UidOf[latest[u]] = u
      /\ \A r \in images : UidOf[r] \in news
  BY RefsAssumption DEF IInv, WorkInv, Collected, RestInv, MainTyped
<1>4. /\ \A i \in 1..Len(Final) : \E r \in images : Final[i] = Block(r)
      /\ \A r \in images : \E i \in 1..Len(Final) : Final[i] = Block(r)
      /\ \A r \in images : Block(r).uid = UidOf[r]
      /\ Final \in Seq(Blocks)
  BY FinalIs
<1>5. /\ DOMAIN file = 1..Len(file) /\ DOMAIN Final = 1..Len(Final)
      /\ ToSet(file) = {file[i] : i \in 1..Len(file)}
      /\ ToSet(Final) = {Final[i] : i \in 1..Len(Final)}
  <2>1. \A f \in Seq(Blocks) : DOMAIN f = 1..Len(f)
                             /\ ToSet(f) = {f[i] : i \in 1..Len(f)}
    BY DEF ToSet
  <2> QED BY <1>4, <2>1
<1>6. ASSUME NEW i \in 1..Len(file)
      PROVE  \E j \in 1..Len(Final) : Final[j] = file[i]
  <2>1. file[i].uid \in news
    BY <1>1, <1>6 DEF UidsIn
  <2>2. file[i] = is(file[i].uid) /\ latest[file[i].uid] \in images
    BY <1>1, <1>2, <1>3, <2>1
  <2> QED BY <1>4, <2>2
<1>7. ASSUME NEW i \in 1..Len(Final)
      PROVE  \E j \in 1..Len(file) : file[j] = Final[i]
  <2>1. PICK r \in images : Final[i] = Block(r)
    BY <1>4
  <2>2. UidOf[r] \in news /\ latest[UidOf[r]] \in images
        /\ UidOf[latest[UidOf[r]]] = UidOf[r]
    BY <1>3
  <2>3. PICK j \in 1..Len(Final) : Final[j] = is(UidOf[r])
    BY <1>4, <2>2
  <2>4. Final[j].uid = Final[i].uid
    BY <1>4, <2>1, <2>2, <2>3, SMTT(30)
  <2>5. Final[i] = is(UidOf[r])
    BY <2>3, <2>4 DEF SharesUid
  <2>6. PICK h \in 1..Len(file) : file[h].uid = UidOf[r]
    BY <1>1, <2>2 DEF UidsIn
  <2>7. file[h] = is(UidOf[r])
    BY <1>1, <1>2, <2>2, <2>6
  <2> QED BY <2>5, <2>7
<1> QED BY <1>5, <1>6, <1>7

(* WriteLock: the file holds the blocks of this run.                       *)
LEMMA WriteLockKeeps ==
  ASSUME IInv, WriteLock
  PROVE  IInv'
<1> USE DEF IInv, WorkInv, RestInv
<1>1. /\ phase = "writing" /\ phase' = "committing" /\ lock' = Final
      /\ summary' = Summarised(old) /\ IsLockSeq(old)
      /\ UNCHANGED <<upstream, jobVars, cache, tmp, job, fd, digest, hash, runVars, images,
                     latest, exit, old, head, uncommitted, fetchFailed>>
  BY DEF WriteLock, runVars, jobVars, LocksTyped
<1>2. \A r \in images : job[r] = "collected"
  BY <1>1 DEF Phases
<1>3. FilesTyped' /\ JobsTyped' /\ JobsTrue' /\ FilesTrue' /\ CacheWhole'
  BY <1>1, JobsStay
<1>4. Phases' /\ Alone' /\ Reasons' /\ Collected'
  BY <1>1 DEF Phases, Alone, CacheKey, Reasons, Collected, Twins
<1>5. MainTyped' /\ FailsForAReason'
  BY <1>1 DEF MainTyped, FailsForAReason, Twins, runVars
<1>6. LocksTyped'
  <2>1. IsLockSeq(Final)
    BY <1>2, FinalIs DEF IsLockSeq
  <2> QED BY <1>1, <2>1 DEF LocksTyped, IsLockSeq
<1>7. LockTrue'
  <2>1. \A i \in 1..Len(Final) : \E r \in Refs :
          UidOf[r] = Final[i].uid /\ Final[i].hash = <<RepoOf[r], Final[i].digest>>
    BY <1>2, FinalIs
  <2> QED BY <1>1, <2>1 DEF LockTrue
<1>8. Tracked'
  <2>1. summary'.kind = "none" => old = Final
    BY <1>1 DEF Summarised, NoSummary, Compare
  <2> QED BY <1>1, <2>1 DEF Tracked
<1>9. Told'
  <2> SUFFICES ASSUME summary'.kind = "structure only"
               PROVE  SharesUid(old)' \/ SharesUid(lock)' \/ ToSet(old)' = ToSet(lock)'
    BY <1>1 DEF Told, QuietOnlyForSharedUids
  <2>1. old # Blank /\ Compare(old) = [NoSummary EXCEPT !.kind = "changes"]
    BY <1>1 DEF Summarised, NoSummary, Compare
  <2>2. SharesUid(old) \/ SharesUid(Final) \/ ToSet(old) = ToSet(Final)
    BY <1>1, <1>2, <2>1, NothingHidden DEF IsLockSeq
  <2> QED BY <1>1, <2>2 DEF SharesUid
<1> QED BY <1>3, <1>4, <1>5, <1>6, <1>7, <1>8, <1>9

(* Commit: what is written is committed, or the omission is on record.     *)
LEMMA CommitKeeps ==
  ASSUME IInv, Commit
  PROVE  IInv'
<1> USE DEF IInv, WorkInv, RestInv
<1>1. /\ phase = "committing" /\ phase' = "idle"
      /\ UNCHANGED <<upstream, jobVars, cache, tmp, job, fd, digest, hash, runVars, images,
                     latest, lock, old, summary, fetchFailed>>
      /\ \/ summary.kind = "none" /\ exit' = "ok" /\ UNCHANGED <<head, uncommitted>>
         \/ exit' = "ok" /\ uncommitted' = TRUE /\ UNCHANGED head
         \/ exit' = "ok" /\ head' = lock /\ uncommitted' = FALSE
         \/ exit' = "commit failed" /\ uncommitted' = TRUE /\ UNCHANGED head
  BY DEF Commit, runVars, jobVars
<1>2. FilesTyped' /\ JobsTyped' /\ JobsTrue' /\ FilesTrue' /\ CacheWhole'
  BY <1>1, JobsStay
<1>3. Phases' /\ Alone' /\ Reasons' /\ Collected'
  BY <1>1, RefsAssumption DEF Phases, Ended, Alone, Reasons, Collected, MainTyped
<1>4. MainTyped' /\ FailsForAReason'
  BY <1>1 DEF MainTyped, FailsForAReason, runVars
<1>5. LocksTyped'
  BY <1>1 DEF LocksTyped, IsLockSeq
<1>6. Tracked'
  BY <1>1 DEF Tracked
<1>7. LockTrue'
  BY <1>1 DEF LockTrue
<1>8. Told'
  BY <1>1 DEF Told, QuietOnlyForSharedUids, SharesUid
<1> QED BY <1>2, <1>3, <1>4, <1>5, <1>6, <1>7, <1>8

(* Retag: only the registry changes.                                       *)
LEMMA RetagKeeps ==
  ASSUME IInv, NEW p \in Repos, Retag(p)
  PROVE  IInv'
<1> USE DEF IInv, WorkInv
<1>1. /\ upstream' \in [Repos -> Digests]
      /\ UNCHANGED <<cache, tmp, job, fd, digest, hash, runVars, images, latest, phase, exit,
                     lockVars, fetchFailed>>
  BY DEF Retag, FilesTyped, jobVars, runVars
<1>2. FilesTyped' /\ JobsTyped' /\ JobsTrue' /\ FilesTrue' /\ CacheWhole'
  BY <1>1 DEF FilesTyped, JobsTyped, Running, JobsTrue, CacheKey, FilesTrue, CacheWhole
<1>3. Phases' /\ Alone' /\ Reasons' /\ Collected'
  BY <1>1 DEF Phases, Alone, CacheKey, Reasons, Collected, Twins
<1>4. RestInv'
  <2>1. latest' \in [Uids -> Refs \cup {NoFile}] /\ fetchFailed' \in BOOLEAN
    BY <1>1 DEF RestInv, MainTyped
  <2> QED BY <1>1, <2>1, RestKeeps
<1> QED BY <1>2, <1>3, <1>4

(* Kill: no job is left, and what was truncated stays so.                  *)
LEMMA KillKeeps ==
  ASSUME IInv, Kill
  PROVE  IInv'
<1> USE DEF IInv, WorkInv, RestInv
<1>1. /\ phase # "idle" /\ phase' = "idle" /\ exit' = "killed"
      /\ job' = [r \in Refs |-> "none"] /\ fd' = [r \in Refs |-> "none"]
      /\ uncommitted' = (uncommitted \/ phase \in {"writing", "committing"})
      /\ UNCHANGED <<upstream, cache, tmp, digest, hash, runVars, images, latest, lock, old,
                     summary, head, fetchFailed>>
  BY DEF Kill, runVars
<1>2. \A r \in Refs : job'[r] = "none" /\ fd'[r] = "none"
  BY <1>1
<1>3. FilesTyped' /\ FilesTrue' /\ CacheWhole'
  BY <1>1 DEF FilesTyped, FilesTrue, CacheWhole
<1>4. JobsTyped'
  BY <1>1, <1>2, NobodyRuns DEF JobsTyped, Jobs
<1>5. JobsTrue' /\ Phases' /\ Alone' /\ Reasons' /\ Collected'
  BY <1>1, <1>2 DEF JobsTrue, Resolved, Hashed, Phases, Ended, Alone, Reasons, Collected
<1>6. MainTyped' /\ FailsForAReason'
  BY <1>1 DEF MainTyped, FailsForAReason, runVars
<1>7. LocksTyped' /\ LockTrue'
  BY <1>1 DEF LocksTyped, IsLockSeq, LockTrue
<1>8. Tracked'
  BY <1>1 DEF Tracked, MainTyped
<1>9. Told'
  BY <1>1 DEF Told, QuietOnlyForSharedUids, SharesUid
<1> QED BY <1>3, <1>4, <1>5, <1>6, <1>7, <1>8, <1>9

-----------------------------------------------------------------------------
(* The invariant and what follows from it.                                 *)

(* Every step preserves the invariant.                                     *)
LEMMA StepInvariant == IInv /\ [Next]_vars => IInv'
<1> SUFFICES ASSUME IInv, [Next]_vars  PROVE IInv'
  OBVIOUS
<1>1. CASE \E r \in Refs : Work(r) \/ Collect(r) \/ CollectFailure(r)
  BY <1>1, WorkKeeps, CollectKeeps, CollectFailureKeeps
<1>2. CASE Start \/ StartEmpty \/ Shutdown \/ Truncate \/ WriteLock \/ Commit \/ Kill
  BY <1>2, StartKeeps, StartEmptyKeeps, ShutdownKeeps, TruncateKeeps, WriteLockKeeps,
     CommitKeeps, KillKeeps
<1>3. CASE \E p \in Repos : Retag(p)
  BY <1>3, RetagKeeps
<1>4. CASE UNCHANGED vars
  <2> USE DEF vars
  <2>1. FilesTyped' /\ JobsTyped' /\ JobsTrue' /\ FilesTrue' /\ CacheWhole'
    BY <1>4, JobsStay DEF runVars
  <2>2. Phases' /\ Alone' /\ Reasons' /\ Collected'
    BY <1>4 DEF IInv, WorkInv, Phases, Alone, CacheKey, Reasons, Collected, Twins, jobVars,
                runVars
  <2>3. RestInv'
    <3>1. latest' \in [Uids -> Refs \cup {NoFile}] /\ fetchFailed' \in BOOLEAN
      BY <1>4 DEF IInv, RestInv, MainTyped
    <3> QED BY <1>4, <3>1, RestKeeps
  <2> QED BY <2>1, <2>2, <2>3 DEF IInv, WorkInv
<1> QED BY <1>1, <1>2, <1>3, <1>4 DEF Next

(* The invariant holds in every reachable state.                           *)
THEOREM Invariance == Spec => []IInv
<1>1. Init => IInv
  <2> SUFFICES ASSUME Init  PROVE IInv
    OBVIOUS
  <2>1. Running = {}
    BY DEF Init, Running
  <2>2. Cardinality(Running) <= Workers
    BY <2>1, FS_EmptySet, RefsAssumption
  <2>3. FilesTyped /\ JobsTyped
    BY <2>2 DEF Init, FilesTyped, JobsTyped, Jobs
  <2>4. JobsTrue /\ FilesTrue /\ CacheWhole
    BY MarksAssumption DEF Init, JobsTrue, Resolved, Hashed, FilesTrue, CacheWhole
  <2>5. Phases /\ Alone /\ Reasons /\ Collected
    BY DEF Init, Phases, Ended, Alone, Reasons, Collected
  <2>6. MainTyped /\ LocksTyped
    <3>1. MainTyped
      <4>1. meta = 0 /\ 0 \in 0..1 /\ images = {} /\ ignore = FALSE
        BY DEF Init
      <4>2. latest \in [Uids -> Refs \cup {NoFile}]
        BY DEF Init
      <4>3. fetchFailed \in BOOLEAN /\ uncommitted \in BOOLEAN
        BY DEF Init
      <4>4. phase = "idle" /\ exit = "none"
        BY DEF Init
      <4> QED BY <4>1, <4>2, <4>3, <4>4 DEF MainTyped
    <3>2. LocksTyped
      BY DEF Init, LocksTyped, IsLockSeq
    <3> QED BY <3>1, <3>2
  <2>7. Tracked /\ Told
    BY Silent DEF Init, Tracked, Told, QuietOnlyForSharedUids
  <2>8. LockTrue /\ FailsForAReason
    BY DEF Init, LockTrue, FailsForAReason
  <2> QED BY <2>3, <2>4, <2>5, <2>6, <2>7, <2>8 DEF IInv, WorkInv, RestInv
<1> QED BY <1>1, StepInvariant, PTL DEF Spec

(* Whatever the references, however the workers and the tags interleave    *)
(* and whichever runs fail, are killed or commit nothing: a hash in the    *)
(* lock is that of an archive of the digest beside it, the lock between    *)
(* runs differs from the last commit only when a run since then ended      *)
(* without committing what it wrote, and the message hides no change that  *)
(* a shared uid does not hide.                                             *)
THEOREM LockStaysTrue == Spec => []LockIsTrue
<1>1. IInv => TypeOK
  <2> SUFFICES ASSUME IInv  PROVE TypeOK
    OBVIOUS
  <2>1. \A f : IsLockSeq(f) => IsLock(f)
    BY DEF IsLockSeq, IsLock
  <2>2. IsLock(lock) /\ IsLock(old) /\ IsLock(head)
    BY <2>1 DEF IInv, RestInv, LocksTyped
  <2>3. \A r \in Refs : job[r] \in {"done", "collected"} =>
          digest[r] \in Digests /\ hash[r] \in Hashes
    <3> SUFFICES ASSUME NEW r \in Refs, job[r] \in {"done", "collected"}
                 PROVE  digest[r] \in Digests /\ hash[r] \in Hashes
      OBVIOUS
    <3>1. digest[r] \in Digests /\ hash[r] = <<RepoOf[r], digest[r]>>
      BY DEF IInv, WorkInv, JobsTrue, Resolved, Hashed, CacheKey
    <3>2. RepoOf[r] \in Repos
      BY RefsAssumption
    <3> QED BY <3>1, <3>2 DEF Hashes, Keys
  <2> QED BY <2>2, <2>3
          DEF IInv, WorkInv, RestInv, FilesTyped, JobsTyped, Jobs, Resolved, JobsTrue,
              MainTyped, TypeOK, Hashes
<1>2. IInv => LockIsTrue
  BY <1>1 DEF IInv, RestInv, Told, Tracked, Committed, LockIsTrue
<1> QED BY <1>2, Invariance, PTL

(* A cache file is empty only where two references share it, for any       *)
(* number of workers and kills.                                            *)
THEOREM CacheStaysWhole == Spec => []CacheWhole
<1>1. IInv => CacheWhole
  BY DEF IInv, WorkInv
<1> QED BY <1>1, Invariance, PTL

(* A run of references that share no cache file fails for the registry or  *)
(* a build only.                                                           *)
THEOREM FailuresHaveReasons == Spec => []FailsForAReason
<1>1. IInv => FailsForAReason
  BY DEF IInv, RestInv
<1> QED BY <1>1, Invariance, PTL

(* No step of a run with a job that has failed or has not ended touches    *)
(* the lock file.                                                          *)
THEOREM LockKept == Spec => FailedRunsKeepLock
<1>1. IInv /\ [Next]_vars => (lock' # lock => \A r \in images' : job'[r] = "collected")
  <2> SUFFICES ASSUME IInv, Next, lock' # lock
               PROVE  \A r \in images' : job'[r] = "collected"
    BY DEF vars, lockVars
  <2>1. StartEmpty \/ Truncate \/ WriteLock
    BY DEF Next, Start, Work, Collect, CollectFailure, Shutdown, Commit, Retag, Kill, lockVars
  <2>2. CASE StartEmpty
    BY <2>2 DEF StartEmpty
  <2>3. CASE Truncate
    BY <2>3 DEF Truncate, jobVars, runVars
  <2>4. CASE WriteLock
    BY <2>4 DEF WriteLock, IInv, WorkInv, Phases, jobVars, runVars
  <2> QED BY <2>1, <2>2, <2>3, <2>4
<1> QED BY <1>1, Invariance, PTL DEF Spec, FailedRunsKeepLock

-----------------------------------------------------------------------------
(***************************************************************************)
(* The archive builder, for any number of sources and retries.             *)
(***************************************************************************)
(* How often the k-th candidate has been tried at the current source: the  *)
(* counters of the nested loops, read as a position.                       *)
TriesAt(k) == IF k < fmt THEN MirrorRetries
               ELSE IF k = fmt THEN attempt - 1 ELSE 0

(* Sources before the current one are exhausted in every format, those     *)
(* after it untouched, and the current one is as its position says.        *)
TriesInv ==
  /\ \A s \in Archive!Sources, f \in Archive!Formats :
       /\ s < src => tries[s][f] = MirrorRetries
       /\ s > src => tries[s][f] = 0
       /\ s = src /\ status = "inspect" => tries[s][f] = 0
       /\ status = "failed" => tries[s][f] = MirrorRetries
  /\ status = "copy" =>
       \A k \in 1 .. 3 : tries[src][Archive!Candidates[detected][k]] = TriesAt(k)

(* The archive of a copy that succeeded is the image, whatever the failed  *)
(* ones left, and so are its directory and the output.                     *)
ImageInv ==
  /\ status = "unpack" => archive = native
  /\ status = "pack" => repack = native
  /\ out \in {"absent", native}

ArchiveInv == Archive!TypeOK /\ TriesInv /\ ImageInv

(* Every candidate list is an enumeration of the formats.                  *)
LEMMA CandidatesAreFormats ==
  ASSUME NEW d \in Archive!Formats \cup {"unknown"}
  PROVE  /\ Len(Archive!Candidates[d]) = 3
         /\ \A k \in 1 .. 3 : Archive!Candidates[d][k] \in Archive!Formats
         /\ \A j, k \in 1 .. 3 : Archive!Candidates[d][j] = Archive!Candidates[d][k] => j = k
         /\ \A f \in Archive!Formats : \E k \in 1 .. 3 : Archive!Candidates[d][k] = f
<1>1. d \in {"oci", "v2s2", "v2s1", "unknown"}
  BY DEF Archive!Formats
<1>2. CASE d = "oci"
  <2>1. Archive!Candidates[d] = <<"oci", "v2s2", "v2s1">>
    BY <1>2 DEF Archive!Candidates
  <2> QED BY <2>1 DEF Archive!Formats
<1>3. CASE d = "v2s1"
  <2>1. Archive!Candidates[d] = <<"v2s1", "v2s2", "oci">>
    BY <1>3 DEF Archive!Candidates
  <2> QED BY <2>1 DEF Archive!Formats
<1>4. CASE d \in {"v2s2", "unknown"}
  <2>1. Archive!Candidates[d] = <<"v2s2", "oci", "v2s1">>
    BY <1>4 DEF Archive!Candidates
  <2> QED BY <2>1 DEF Archive!Formats
<1> QED BY <1>1, <1>2, <1>3, <1>4

(* The builder starts in the invariant.                                    *)
LEMMA ArchiveInit == Archive!Init => ArchiveInv
BY ArchiveAssumption
   DEF Archive!Init, ArchiveInv, Archive!TypeOK, TriesInv, ImageInv, Archive!Sources,
       Archive!Formats

(* What an attempt does to the counters: it adds one to the counter of the *)
(* current candidate, which thereby reaches the number of the attempt.     *)
LEMMA AttemptCounts ==
  ASSUME ArchiveInv, status = "copy", Archive!Counted
  PROVE  /\ Archive!Format \in Archive!Formats
         /\ tries' \in [Archive!Sources -> [Archive!Formats -> 0 .. MirrorRetries]]
         /\ \A s \in Archive!Sources, f \in Archive!Formats :
              tries'[s][f] = IF s = src /\ f = Archive!Format THEN attempt
                                                      ELSE tries[s][f]
         /\ \A k \in 1 .. 3 :
              tries'[src][Archive!Candidates[detected][k]] =
                IF k = fmt THEN attempt ELSE TriesAt(k)
<1> USE ArchiveAssumption
<1>1. /\ src \in Archive!Sources /\ fmt \in 1 .. 3 /\ attempt \in 1 .. MirrorRetries
      /\ tries \in [Archive!Sources -> [Archive!Formats -> 0 .. MirrorRetries]]
      /\ detected \in Archive!Formats \cup {"unknown"}
  BY DEF ArchiveInv, Archive!TypeOK
<1>2. /\ \A k \in 1 .. 3 : Archive!Candidates[detected][k] \in Archive!Formats
      /\ \A j, k \in 1 .. 3 :
           Archive!Candidates[detected][j] = Archive!Candidates[detected][k] => j = k
  BY <1>1, CandidatesAreFormats
<1>3. \A k \in 1 .. 3 : tries[src][Archive!Candidates[detected][k]] = TriesAt(k)
  BY DEF ArchiveInv, TriesInv
<1>4. Archive!Format \in Archive!Formats /\ tries[src][Archive!Format] = attempt - 1
  BY <1>1, <1>2, <1>3 DEF Archive!Format, TriesAt
<1>5. \A s \in Archive!Sources, f \in Archive!Formats :
        tries'[s][f] = IF s = src /\ f = Archive!Format THEN attempt ELSE tries[s][f]
  BY <1>1, <1>4 DEF Archive!Counted
<1>6. tries' \in [Archive!Sources -> [Archive!Formats -> 0 .. MirrorRetries]]
  <2>1. tries[src][Archive!Format] + 1 \in 0 .. MirrorRetries
    BY <1>1, <1>4
  <2> QED BY <1>1, <1>4, <2>1 DEF Archive!Counted
<1>7. ASSUME NEW k \in 1 .. 3
      PROVE  tries'[src][Archive!Candidates[detected][k]] =
               IF k = fmt THEN attempt ELSE TriesAt(k)
  <2>1. Archive!Candidates[detected][k] = Archive!Format <=> k = fmt
    BY <1>1, <1>2 DEF Archive!Format
  <2> QED BY <1>1, <1>2, <1>3, <1>5, <2>1
<1> QED BY <1>4, <1>5, <1>6, <1>7

(* A failed attempt preserves the invariant: the next attempt, the next    *)
(* format, the next source or the end.                                     *)
LEMMA CopyFailsKeeps == ArchiveInv /\ Archive!CopyFails => ArchiveInv'
<1> SUFFICES ASSUME ArchiveInv, Archive!CopyFails
             PROVE  ArchiveInv'
  OBVIOUS
<1> USE ArchiveAssumption
<1>1. /\ src \in 1 .. NSources /\ fmt \in 1 .. 3 /\ attempt \in 1 .. MirrorRetries
      /\ native \in Archive!Formats /\ detected \in Archive!Formats \cup {"unknown"}
      /\ repack' = "absent" /\ archive' \in {"absent", "partial"}
      /\ status = "copy"
      /\ native' = native /\ detected' = detected /\ out' = out
      /\ out \in Archive!Formats \cup {"absent", "mixed"}
  BY DEF ArchiveInv, Archive!TypeOK, Archive!CopyFails, Archive!Sources
<1>2. /\ Len(Archive!Candidates[detected]) = 3
      /\ \A k \in 1 .. 3 : Archive!Candidates[detected][k] \in Archive!Formats
      /\ \A f \in Archive!Formats : \E k \in 1 .. 3 : Archive!Candidates[detected][k] = f
  BY <1>1, CandidatesAreFormats
<1>3. \A k \in 1 .. 3 : tries'[src][Archive!Candidates[detected][k]] =
                          IF k = fmt THEN attempt ELSE TriesAt(k)
  BY AttemptCounts DEF Archive!CopyFails
<1>4. tries' \in [Archive!Sources -> [Archive!Formats -> 0 .. MirrorRetries]]
  BY AttemptCounts DEF Archive!CopyFails
<1>5. ASSUME src' \in 1 .. NSources, fmt' \in 1 .. 3,
             attempt' \in 1 .. MirrorRetries,
             status' \in {"copy", "inspect", "failed"}
      PROVE  Archive!TypeOK'
  BY <1>1, <1>4, <1>5 DEF Archive!TypeOK, Archive!Sources
<1>6. \A s \in Archive!Sources, f \in Archive!Formats :
        /\ s < src => tries'[s][f] = MirrorRetries
        /\ s > src => tries'[s][f] = 0
  <2>1. \A s \in Archive!Sources, f \in Archive!Formats : s # src => tries'[s][f] = tries[s][f]
    BY AttemptCounts DEF Archive!CopyFails
  <2>2. \A s \in Archive!Sources, f \in Archive!Formats :
          /\ s < src => tries[s][f] = MirrorRetries
          /\ s > src => tries[s][f] = 0
    BY DEF ArchiveInv, TriesInv
  <2> QED BY <1>1, <2>1, <2>2 DEF Archive!Sources
<1>7. CASE attempt < MirrorRetries
  <2>1. attempt' = attempt + 1 /\ src' = src /\ fmt' = fmt /\ status' = "copy"
    BY <1>1, <1>7 DEF Archive!CopyFails
  <2>2. Archive!TypeOK'
    BY <1>1, <1>7, <1>5, <2>1
  <2>3. \A k \in 1 .. 3 : tries'[src'][Archive!Candidates[detected'][k]] = TriesAt(k)'
    BY <1>1, <1>3, <2>1 DEF TriesAt
  <2> QED
    BY <1>1, <1>6, <2>1, <2>2, <2>3 DEF ArchiveInv, TriesInv, ImageInv
<1>8. CASE attempt = MirrorRetries /\ fmt < 3
  <2>1. attempt' = 1 /\ src' = src /\ fmt' = fmt + 1 /\ status' = "copy"
    BY <1>1, <1>2, <1>8 DEF Archive!CopyFails, Archive!MoveOn
  <2>2. Archive!TypeOK'
    BY <1>1, <1>8, <1>5, <2>1
  <2>3. \A k \in 1 .. 3 : tries'[src'][Archive!Candidates[detected'][k]] = TriesAt(k)'
    BY <1>1, <1>3, <1>8, <2>1 DEF TriesAt
  <2> QED
    BY <1>1, <1>6, <2>1, <2>2, <2>3 DEF ArchiveInv, TriesInv, ImageInv
<1>9. CASE attempt = MirrorRetries /\ fmt = 3
  <2>1. /\ attempt' = attempt /\ fmt' = fmt
        /\ \/ src < NSources /\ src' = src + 1 /\ status' = "inspect"
           \/ src = NSources /\ src' = src /\ status' = "failed"
    BY <1>1, <1>2, <1>9 DEF Archive!CopyFails, Archive!MoveOn
  <2>2. Archive!TypeOK'
    BY <1>1, <1>9, <1>5, <2>1
  <2>3. \A f \in Archive!Formats : tries'[src][f] = MirrorRetries
    <3> SUFFICES ASSUME NEW f \in Archive!Formats
                 PROVE  tries'[src][f] = MirrorRetries
      OBVIOUS
    <3>1. PICK k \in 1 .. 3 : Archive!Candidates[detected][k] = f
      BY <1>2
    <3> QED BY <1>3, <1>9, <3>1 DEF TriesAt
  <2>4. TriesInv'
    <3>1. \A s \in Archive!Sources, f \in Archive!Formats :
            s <= src => tries'[s][f] = MirrorRetries
      BY <1>1, <1>6, <2>3 DEF Archive!Sources
    <3>2. \A s \in Archive!Sources, f \in Archive!Formats :
            /\ s < src' => tries'[s][f] = MirrorRetries
            /\ s > src' => tries'[s][f] = 0
            /\ s = src' /\ status' = "inspect" => tries'[s][f] = 0
            /\ status' = "failed" => tries'[s][f] = MirrorRetries
      BY <1>1, <1>6, <2>1, <3>1 DEF Archive!Sources
    <3> QED BY <2>1, <3>2 DEF TriesInv
  <2> QED BY <1>1, <2>1, <2>2, <2>4 DEF ArchiveInv, ImageInv
<1> QED BY <1>1, <1>7, <1>8, <1>9

(* Every step preserves the invariant.                                     *)
LEMMA ArchiveStep == ArchiveInv /\ [Archive!Next]_(Archive!vars) => ArchiveInv'
<1> SUFFICES ASSUME ArchiveInv, [Archive!Next]_(Archive!vars)
             PROVE  ArchiveInv'
  OBVIOUS
<1> USE ArchiveAssumption DEF Archive!Sources
<1>1. CASE Archive!Inspect
  <2>1. Archive!TypeOK'
    BY <1>1 DEF ArchiveInv, Archive!TypeOK, Archive!Inspect
  <2>2. \A k \in 1 .. 3 : Archive!Candidates[detected'][k] \in Archive!Formats
    BY <2>1, CandidatesAreFormats DEF Archive!TypeOK
  <2>3. /\ src' = src /\ tries' = tries /\ fmt' = 1 /\ attempt' = 1
        /\ status = "inspect" /\ status' = "copy" /\ src \in Archive!Sources
    BY <1>1 DEF ArchiveInv, Archive!TypeOK, Archive!Inspect
  <2>4. \A s \in Archive!Sources, f \in Archive!Formats :
          /\ s < src => tries[s][f] = MirrorRetries
          /\ s > src => tries[s][f] = 0
          /\ s = src => tries[s][f] = 0
    BY <2>3 DEF ArchiveInv, TriesInv
  <2>5. \A k \in 1 .. 3 : TriesAt(k)' = 0
    BY <2>3 DEF TriesAt
  <2>6. TriesInv'
    BY <2>2, <2>3, <2>4, <2>5 DEF TriesInv
  <2> QED BY <1>1, <2>1, <2>6 DEF ArchiveInv, ImageInv, Archive!Inspect
<1>2. CASE Archive!CopyFails
  BY <1>2, CopyFailsKeeps
<1>3. CASE Archive!CopySucceeds
  <2>1. /\ tries' \in [Archive!Sources -> [Archive!Formats -> 0 .. MirrorRetries]]
        /\ \A s \in Archive!Sources, f \in Archive!Formats :
             s # src => tries'[s][f] = tries[s][f]
    BY <1>3, AttemptCounts DEF Archive!CopySucceeds
  <2>2. Archive!TypeOK'
    BY <1>3, <2>1 DEF ArchiveInv, Archive!TypeOK, Archive!CopySucceeds
  <2>3. TriesInv'
    BY <1>3, <2>1, ZenonT(40) DEF ArchiveInv, Archive!TypeOK, TriesInv, Archive!CopySucceeds
  <2> QED BY <1>3, <2>2, <2>3 DEF ArchiveInv, ImageInv, Archive!CopySucceeds
<1>4. CASE Archive!Unpack
  BY <1>4 DEF ArchiveInv, Archive!TypeOK, TriesInv, ImageInv, Archive!Unpack
<1>5. CASE Archive!Pack
  BY <1>5 DEF ArchiveInv, Archive!TypeOK, TriesInv, ImageInv, Archive!Pack
<1>6. CASE UNCHANGED Archive!vars
  BY <1>6 DEF ArchiveInv, Archive!TypeOK, TriesInv, ImageInv, TriesAt, Archive!vars
<1> QED BY <1>1, <1>2, <1>3, <1>4, <1>5, <1>6 DEF Archive!Next

(* The invariant holds in every reachable state.                           *)
THEOREM ArchiveInvariance == Archive!Spec => []ArchiveInv
<1>1. Archive!Init => ArchiveInv
  BY ArchiveInit
<1>2. ArchiveInv /\ [Archive!Next]_(Archive!vars) => ArchiveInv'
  BY ArchiveStep
<1> QED BY <1>1, <1>2, PTL DEF Archive!Spec

(* Every variable keeps its type, the counters their bounds.               *)
THEOREM LoopsStayInBounds == Archive!Spec => []LoopsInBounds
<1>1. ArchiveInv => LoopsInBounds
  BY DEF ArchiveInv, LoopsInBounds
<1> QED BY <1>1, ArchiveInvariance, PTL

(* Whatever fails, and however often, the output is the image.             *)
THEOREM OutputIsAlwaysTheImage == Archive!Spec => []OutputIsTheImage
<1>1. ArchiveInv => OutputIsTheImage
  BY DEF ArchiveInv, ImageInv, OutputIsTheImage, Archive!OutputIsTheImage
<1> QED BY <1>1, ArchiveInvariance, PTL

(* The build gives up only when every source has refused the image in its  *)
(* own format as often as mirrorRetries says.                              *)
THEOREM GivesUpOnlyExhausted == Archive!Spec => []FailsOnlyExhausted
<1>1. ArchiveInv => FailsOnlyExhausted
  BY DEF ArchiveInv, Archive!TypeOK, TriesInv, FailsOnlyExhausted,
         Archive!FailsOnlyExhausted
<1> QED BY <1>1, ArchiveInvariance, PTL

-----------------------------------------------------------------------------
(***************************************************************************)
(* The names of images, for any references and maps of mirrors.            *)
(***************************************************************************)
(* A set of natural numbers has a least element.                           *)
LEMMA NatMin ==
  ASSUME NEW T \in SUBSET Nat, T # {}
  PROVE  \E n \in T : \A m \in T : n <= m
<1>1. PICK n \in T : \A m \in T : <<m, n>> \notin OpToRel(<, Nat)
  BY NatLessThanWellFounded, WFMin
<1>2. \A m \in T : ~(m < n)
  BY <1>1 DEF OpToRel
<1> QED BY <1>2

(* An order of a finite set numbers its elements, each by how many come up *)
(* to it.                                                                  *)
LEMMA OrderNumbers ==
  ASSUME NEW S, IsFiniteSet(S), NEW upto \in [S -> SUBSET S],
         \A x \in S : x \in upto[x],
         \A x, y \in S : x # y => (x \in upto[y] <=> y \notin upto[x]),
         \A x, y \in S : x \in upto[y] => upto[x] \subseteq upto[y]
  PROVE  /\ Cardinality(S) \in Nat
         /\ \A x \in S : Cardinality(upto[x]) \in 1 .. Cardinality(S)
         /\ \A x, y \in S : Cardinality(upto[x]) = Cardinality(upto[y]) => x = y
         /\ \A n \in 1 .. Cardinality(S) : \E x \in S : Cardinality(upto[x]) = n
<1> DEFINE f == [x \in S |-> Cardinality(upto[x])]
<1>1. /\ Cardinality(S) \in Nat /\ Cardinality({}) = 0
      /\ \A T \in SUBSET S : /\ IsFiniteSet(T) /\ Cardinality(T) \in Nat
                             /\ Cardinality(T) <= Cardinality(S)
                             /\ Cardinality(T) = 0 => T = {}
  BY FS_Subset, FS_CardinalityType, FS_EmptySet
<1>2. \A x \in S : upto[x] \in SUBSET S /\ upto[x] # {}
  OBVIOUS
<1>3. \A x \in S : Cardinality(upto[x]) \in 1 .. Cardinality(S)
  <2> SUFFICES ASSUME NEW x \in S  PROVE Cardinality(upto[x]) \in 1 .. Cardinality(S)
    OBVIOUS
  <2>1. Cardinality(upto[x]) # 0
    BY <1>1, <1>2
  <2> QED BY <1>1, <1>2, <2>1
<1>4. ASSUME NEW x \in S, NEW y \in S, x # y, x \in upto[y]
      PROVE  Cardinality(upto[x]) # Cardinality(upto[y])
  <2>1. upto[x] \in SUBSET upto[y] /\ upto[x] # upto[y] /\ IsFiniteSet(upto[y])
    BY <1>1, <1>2, <1>4
  <2> QED BY <2>1, FS_Subset
<1>5. \A x, y \in S : Cardinality(upto[x]) = Cardinality(upto[y]) => x = y
  BY <1>4
<1>6. f \in Injection(S, 1 .. Cardinality(S))
  BY <1>3, <1>5 DEF Injection, IsInjective
<1>7. IsFiniteSet(1 .. Cardinality(S)) /\ Cardinality(1 .. Cardinality(S)) = Cardinality(S)
  BY <1>1, FS_Interval
<1>8. f \in Surjection(S, 1 .. Cardinality(S))
  BY <1>6, <1>7, FS_Injection
<1>9. \A n \in 1 .. Cardinality(S) : \E x \in S : Cardinality(upto[x]) = n
  BY <1>8 DEF Surjection
<1> QED BY <1>1, <1>3, <1>5, <1>9

(* ImageNames counts as this module does.                                  *)
LEMMA SameCount == \A S : Names!Cardinality(S) = Cardinality(S)
BY DEF Names!Cardinality, Cardinality

(* unique_sources has every source, once, and begins with the first.       *)
LEMMA OnceIs ==
  ASSUME NEW X, NEW all \in Seq(X), all # <<>>
  PROVE  LET s == Names!Once(all)
         IN /\ s \in Seq(X) /\ 1 \in DOMAIN s /\ s[1] = all[1]
            /\ \A n \in DOMAIN s : \E k \in DOMAIN all : s[n] = all[k]
            /\ \A k \in DOMAIN all : \E n \in DOMAIN s : s[n] = all[k]
            /\ \A n, m \in DOMAIN s : s[n] = s[m] => n = m
<1> DEFINE first == {k \in DOMAIN all : \A j \in 1 .. k - 1 : all[j] # all[k]}
           Position(k) == Names!Cardinality({j \in first : j <= k})
           Nth(n) == CHOOSE k \in first : Position(k) = n
           N == Names!Cardinality(first)
           s == Names!Once(all)
<1>1. /\ Len(all) \in Nat \ {0} /\ DOMAIN all = 1 .. Len(all)
      /\ \A k \in DOMAIN all : all[k] \in X
  <2>1. Len(all) # 0
    OBVIOUS
  <2> QED BY <2>1
<1>2. s = [n \in 1 .. N |-> all[Nth(n)]]
  BY DEF Names!Once
<1>3. first \in SUBSET Nat /\ IsFiniteSet(first) /\ first \subseteq DOMAIN all
  <2>1. IsFiniteSet(1 .. Len(all)) /\ first \in SUBSET (1 .. Len(all))
    BY <1>1, FS_Interval
  <2> QED BY <1>1, <2>1, FS_Subset
<1>4. 1 \in first /\ {j \in first : j <= 1} = {1}
  BY <1>1
<1>5. \A k, l \in first : all[k] = all[l] => k = l
  <2> SUFFICES ASSUME NEW k \in first, NEW l \in first, all[k] = all[l], k < l
               PROVE  FALSE
    BY <1>1
  <2>1. k \in 1 .. l - 1
    BY <1>1
  <2> QED BY <2>1
<1>6. \A k \in DOMAIN all : \E l \in first : all[l] = all[k]
  <2> SUFFICES ASSUME NEW k \in DOMAIN all  PROVE \E l \in first : all[l] = all[k]
    OBVIOUS
  <2> DEFINE T == {l \in DOMAIN all : all[l] = all[k]}
  <2>1. T \in SUBSET Nat /\ T # {}
    BY <1>1
  <2>2. PICK l \in T : \A m \in T : l <= m
    <3> HIDE DEF T
    <3> QED BY <2>1, NatMin
  <2>3. l \in first
    BY <1>1, <2>2
  <2> QED BY <2>2, <2>3
<1> HIDE DEF first
<1>7. /\ N \in Nat
      /\ \A k \in first : Position(k) \in 1 .. N
      /\ \A k, l \in first : Position(k) = Position(l) => k = l
      /\ \A n \in 1 .. N : \E k \in first : Position(k) = n
  <2> DEFINE upto == [k \in first |-> {j \in first : j <= k}]
  <2>1. N = Cardinality(first) /\ \A k \in first : Position(k) = Cardinality(upto[k])
    BY SameCount
  <2>2. upto \in [first -> SUBSET first] /\ \A k \in first : k \in Nat
    BY <1>3
  <2>3. \A k, l \in first : k \in upto[l] <=> k <= l
    OBVIOUS
  <2>4. \A k \in first : k \in upto[k]
    BY <2>2, <2>3
  <2>5. \A k, l \in first : k # l => (k \in upto[l] <=> l \notin upto[k])
    BY <2>2, <2>3
  <2>6. \A k, l \in first : k \in upto[l] => upto[k] \subseteq upto[l]
    BY <2>2, <2>3
  <2> HIDE DEF N, Position, upto
  <2>7. /\ Cardinality(first) \in Nat
        /\ \A k \in first : Cardinality(upto[k]) \in 1 .. Cardinality(first)
        /\ \A k, l \in first : Cardinality(upto[k]) = Cardinality(upto[l]) => k = l
        /\ \A n \in 1 .. Cardinality(first) : \E k \in first : Cardinality(upto[k]) = n
    BY <1>3, <2>2, <2>4, <2>5, <2>6, OrderNumbers
  <2> QED BY <2>1, <2>7
<1>8. Position(1) = 1
  BY <1>4, SameCount, FS_Singleton
<1> HIDE DEF Position, N
<1>9. \A n \in 1 .. N : Nth(n) \in first /\ Position(Nth(n)) = n
  BY <1>7
<1> HIDE DEF Nth
<1>10. \A k \in first : Position(k) \in 1 .. N /\ Nth(Position(k)) = k
  BY <1>7, <1>9
<1>11. 1 \in 1 .. N /\ Nth(1) = 1
  BY <1>4, <1>8, <1>10
<1> HIDE DEF s
<1>12. DOMAIN s = 1 .. N /\ \A n \in 1 .. N : s[n] = all[Nth(n)] /\ s[n] \in X
  BY <1>1, <1>2, <1>3, <1>9
<1>13. s \in Seq(X)
  <2>1. s \in [1 .. N -> X]
    BY <1>2, <1>12
  <2> QED BY <1>7, <2>1
<1>14. \A n \in DOMAIN s : \E k \in DOMAIN all : s[n] = all[k]
  BY <1>3, <1>9, <1>12
<1>15. \A k \in DOMAIN all : \E n \in DOMAIN s : s[n] = all[k]
  BY <1>6, <1>10, <1>12
<1>16. \A n, m \in DOMAIN s : s[n] = s[m] => n = m
  BY <1>5, <1>9, <1>12
<1> QED BY <1>11, <1>12, <1>13, <1>14, <1>15, <1>16 DEF s

(* A sequence of one member.                                               *)
LEMMA OneMember ==
  ASSUME NEW X, NEW x \in X
  PROVE  <<x>> \in Seq(X) /\ Len(<<x>>) = 1 /\ <<x>>[1] = x
OBVIOUS

(* A sequence and one more.                                                *)
LEMMA OneMoreMember ==
  ASSUME NEW X, NEW s \in Seq(X), NEW x \in X
  PROVE  /\ Append(s, x) \in Seq(X) /\ Append(s, x) # <<>>
         /\ DOMAIN Append(s, x) = 1 .. Len(s) + 1 /\ Append(s, x)[Len(s) + 1] = x
         /\ \A k \in 1 .. Len(s) : Append(s, x)[k] = s[k]
<1>1. Len(s) \in Nat /\ Append(s, x) \in Seq(X) /\ Len(Append(s, x)) = Len(s) + 1
  OBVIOUS
<1>2. DOMAIN Append(s, x) = 1 .. Len(s) + 1
  BY <1>1
<1>3. Append(s, x)[Len(s) + 1] = x /\ \A k \in 1 .. Len(s) : Append(s, x)[k] = s[k]
  OBVIOUS
<1>4. Append(s, x) # <<>>
  BY <1>1
<1> QED BY <1>1, <1>2, <1>3, <1>4

(* Sequences of one length with the same members are one.                  *)
LEMMA SameSeq ==
  ASSUME NEW X, NEW a \in Seq(X), NEW b \in Seq(X), Len(a) = Len(b),
         \A k \in 1 .. Len(a) : a[k] = b[k]
  PROVE  a = b
OBVIOUS

(* What follows a common beginning is the same.                            *)
LEMMA SameRest ==
  ASSUME NEW X, NEW m \in Seq(X), NEW a \in Seq(X), NEW b \in Seq(X), m \o a = m \o b
  PROVE  a = b
<1>1. /\ Len(m) \in Nat /\ Len(a) \in Nat /\ Len(b) \in Nat
      /\ Len(m) + Len(a) = Len(m \o a) /\ Len(m) + Len(b) = Len(m \o b)
  OBVIOUS
<1>2. Len(a) = Len(b)
  BY <1>1
<1>3. ASSUME NEW k \in 1 .. Len(a)  PROVE a[k] = b[k]
  <2>1. (m \o a)[Len(m) + k] = a[k]
    BY <1>1
  <2>2. (m \o b)[Len(m) + k] = b[k]
    BY <1>1, <1>2
  <2> QED BY <2>1, <2>2
<1> QED BY <1>2, <1>3, SameSeq

NameSeqs == Seq(Seq(Words)) \ {<<>>}
Library == <<"library">>

(* docker.io is a registry, library is none.                               *)
LEMMA Registries == Names!Explicit(Names!docker) /\ ~Names!Explicit(Library)
<1>1. Names!ToSet(Names!docker) = {"docker.io"} /\ Names!ToSet(Library) = {"library"}
  BY DEF Names!ToSet, Names!docker, Library
<1>2. Library # <<"localhost">>
  <2>1. Library[1] # <<"localhost">>[1]
    BY DEF Library
  <2> QED BY <2>1
<1> QED BY <1>1, <1>2, NamesAssumption DEF Names!Explicit, Names!HasPort

(* A canonical name begins with a registry and has a repository behind it. *)
LEMMA CanonicalParts ==
  ASSUME NEW n \in NameSeqs
  PROVE  LET c == Names!Canonical(n)
         IN /\ c \in Seq(Seq(Words)) /\ Len(c) >= 2
            /\ Names!Registry(c) = c[1] /\ Names!Repository(c) = Tail(c)
<1> DEFINE g == Names!Registry(n)
           r == Names!Repository(n)
           l == IF g = Names!docker /\ Len(r) = 1 THEN <<Library>> ELSE <<>>
           c == Names!Canonical(n)
<1>1. n \in Seq(Seq(Words)) /\ Len(n) \in Nat \ {0} /\ n[1] \in Seq(Words)
  <2>1. n \in Seq(Seq(Words)) /\ Len(n) # 0
    BY DEF NameSeqs
  <2> QED BY <2>1
<1>2. Names!docker \in Seq(Words) /\ Library \in Seq(Words) /\ <<>> \in Seq(Words)
  <2>1. Names!docker \in Seq(Words)
    <3>1. "docker.io" \in Words
      BY NamesAssumption
    <3> QED BY <3>1, OneMember DEF Names!docker
  <2>2. Library \in Seq(Words)
    <3>1. "library" \in Words
      BY NamesAssumption
    <3> QED BY <3>1, OneMember DEF Library
  <2>3. <<>> \in Seq(Words)
    OBVIOUS
  <2> QED BY <2>1, <2>2, <2>3
<1>3. Len(n) \in Nat /\ (Len(n) = 1 \/ (Len(n) > 1 /\ ~(Len(n) = 1)))
  <2>1. Len(n) \in Nat \ {0}
    BY <1>1
  <2> QED BY <2>1
<1>4. g \in Seq(Words) /\ Names!Explicit(g)
  BY <1>1, <1>2, Registries DEF Names!Registry
<1>5. r \in Seq(Seq(Words)) /\ Len(r) >= 1
  <2>1. CASE ~Names!Explicit(n[1])
    BY <1>1, <2>1 DEF Names!Repository
  <2>2. CASE Names!Explicit(n[1]) /\ Len(n) > 1
    <3>1. r = Tail(n)
      BY <1>3, <2>2 DEF Names!Repository
    <3> QED BY <1>1, <2>2, <3>1
  <2>3. CASE Names!Explicit(n[1]) /\ Len(n) = 1
    <3>1. r = << <<>> >>
      BY <1>1, <2>3 DEF Names!Repository
    <3>2. << <<>> >> \in Seq(Seq(Words)) /\ Len(<< <<>> >>) = 1
      BY <1>2
    <3> QED BY <3>1, <3>2
  <2> QED BY <1>3, <2>1, <2>2, <2>3
<1>6. l \in Seq(Seq(Words)) /\ Len(l) \in Nat
  <2>1. <<Library>> \in Seq(Seq(Words)) /\ <<>> \in Seq(Seq(Words))
    BY <1>2
  <2> QED BY <2>1
<1>7. c = <<g>> \o l \o r
  BY DEF Names!Canonical, Library
<1> HIDE DEF g, r, l, c
<1>8. <<g>> \o l \in Seq(Seq(Words)) /\ Len(<<g>> \o l) >= 1 /\ (<<g>> \o l)[1] = g
  BY <1>4, <1>6
<1>9. c \in Seq(Seq(Words)) /\ Len(c) >= 2 /\ c[1] = g
  BY <1>5, <1>7, <1>8
<1>10. Names!Registry(c) = c[1] /\ Names!Repository(c) = Tail(c)
  <2>1. Names!Explicit(c[1])
    BY <1>4, <1>9
  <2>2. Len(c) \in Nat /\ Len(c) >= 2
    BY <1>9
  <2>3. Len(c) > 1 /\ ~(Len(c) = 1)
    <3>1. \A x \in Nat : x >= 2 => x > 1 /\ x # 1
      OBVIOUS
    <3> QED BY <2>2, <3>1
  <2> QED BY <2>1, <2>3 DEF Names!Registry, Names!Repository
<1> QED BY <1>9, <1>10 DEF c

(* The sources of a name: its mirrors in their order, then itself.         *)
LEMMA SourcesAre ==
  ASSUME NEW n \in NameSeqs, mirrors \in MirrorMaps
  PROVE  LET c == Names!Canonical(n)
             s == Names!Sources(n)
         IN /\ 1 \in DOMAIN s
            /\ \E k \in DOMAIN s : s[k] = c
            /\ \A j, k \in DOMAIN s : s[j] = s[k] => j = k
            /\ \A k \in DOMAIN s :
                 \/ s[k] = c
                 \/ /\ c[1] \in DOMAIN mirrors
                    /\ \E j \in DOMAIN mirrors[c[1]] : s[k] = mirrors[c[1]][j] \o Tail(c)
            /\ c[1] \in DOMAIN mirrors /\ mirrors[c[1]] # <<>> =>
                 s[1] = mirrors[c[1]][1] \o Tail(c)
<1> DEFINE c == Names!Canonical(n)
           m == IF c[1] \in DOMAIN mirrors THEN mirrors[c[1]] ELSE <<>>
           f == [k \in DOMAIN m |-> m[k] \o Tail(c)]
           all == Append(f, c)
           s == Names!Sources(n)
<1>1. /\ c \in Seq(Seq(Words)) /\ Len(c) >= 2
      /\ Names!Registry(c) = c[1] /\ Names!Repository(c) = Tail(c)
  BY CanonicalParts
<1>2. s = Names!Once(all)
  BY <1>1 DEF Names!Sources
<1>3. m \in Seq(Seq(Seq(Words)))
  BY MirrorsAssumption
<1> HIDE DEF c, m, s
<1>4. f \in Seq(Seq(Seq(Words))) /\ Len(f) = Len(m) /\ Len(m) \in Nat
  <2>1. \A k \in DOMAIN m : f[k] \in Seq(Seq(Words))
    BY <1>1, <1>3
  <2> HIDE DEF f
  <2>2. DOMAIN m = 1 .. Len(m) /\ Len(m) \in Nat /\ DOMAIN f = DOMAIN m
    BY <1>3 DEF f
  <2>3. f \in [1 .. Len(m) -> Seq(Seq(Words))]
    BY <2>1, <2>2 DEF f
  <2> QED BY <2>2, <2>3
<1>5. \A k \in DOMAIN m : f[k] = m[k] \o Tail(c)
  OBVIOUS
<1> HIDE DEF f
<1>6. /\ all \in Seq(Seq(Seq(Words))) /\ all # <<>>
      /\ DOMAIN all = 1 .. Len(m) + 1 /\ all[Len(m) + 1] = c
      /\ \A k \in 1 .. Len(m) : all[k] = m[k] \o Tail(c)
  <2>1. DOMAIN m = 1 .. Len(m)
    BY <1>3
  <2>2. c \in Seq(Seq(Words))
    BY <1>1
  <2>3. /\ all \in Seq(Seq(Seq(Words))) /\ all # <<>>
        /\ DOMAIN all = 1 .. Len(f) + 1 /\ all[Len(f) + 1] = c
        /\ \A k \in 1 .. Len(f) : all[k] = f[k]
    BY <1>4, <2>2, OneMoreMember
  <2> HIDE DEF all
  <2>4. \A k \in 1 .. Len(m) : all[k] = m[k] \o Tail(c)
    BY <1>4, <1>5, <2>1, <2>3
  <2> QED BY <1>4, <2>3, <2>4
<1> HIDE DEF all
<1>7. /\ 1 \in DOMAIN s /\ s[1] = all[1]
      /\ \A k \in DOMAIN s : \E j \in DOMAIN all : s[k] = all[j]
      /\ \A j \in DOMAIN all : \E k \in DOMAIN s : s[k] = all[j]
      /\ \A j, k \in DOMAIN s : s[j] = s[k] => j = k
  <2>1. all \in Seq(Seq(Seq(Words))) /\ all # <<>>
    BY <1>6
  <2> QED BY <1>2, <2>1, OnceIs
<1>8. \E k \in DOMAIN s : s[k] = c
  <2>1. Len(m) + 1 \in DOMAIN all /\ all[Len(m) + 1] = c
    BY <1>4, <1>6
  <2> QED BY <1>7, <2>1
<1>9. ASSUME NEW k \in DOMAIN s
      PROVE  \/ s[k] = c
             \/ /\ c[1] \in DOMAIN mirrors
                /\ \E j \in DOMAIN mirrors[c[1]] : s[k] = mirrors[c[1]][j] \o Tail(c)
  <2>1. PICK j \in DOMAIN all : s[k] = all[j]
    BY <1>7
  <2>2. j \in 1 .. Len(m) \/ j = Len(m) + 1
    BY <1>4, <1>6
  <2>3. CASE j = Len(m) + 1
    BY <1>6, <2>1, <2>3
  <2>4. CASE j \in 1 .. Len(m)
    <3>1. j \in DOMAIN m /\ s[k] = m[j] \o Tail(c)
      <4>1. DOMAIN m = 1 .. Len(m)
        BY <1>3
      <4> QED BY <1>6, <2>1, <2>4, <4>1
    <3>2. c[1] \in DOMAIN mirrors
      BY <1>4, <2>4 DEF m
    <3> QED BY <3>1, <3>2 DEF m
  <2> QED BY <2>3, <2>4, <2>2
<1>10. c[1] \in DOMAIN mirrors /\ mirrors[c[1]] # <<>> => s[1] = mirrors[c[1]][1] \o Tail(c)
  <2> SUFFICES ASSUME c[1] \in DOMAIN mirrors, mirrors[c[1]] # <<>>
               PROVE  s[1] = m[1] \o Tail(c)
    BY DEF m
  <2>1. m # <<>>
    BY DEF m
  <2>2. 1 \in 1 .. Len(m)
    BY <1>3, <2>1
  <2> QED BY <1>6, <1>7, <2>2
<1> QED BY <1>7, <1>8, <1>9, <1>10 DEF c, s

(* The name that a reference is parsed to has parts.                       *)
LEMMA ParsedNames ==
  ASSUME NEW r \in Written
  PROVE  Names!Parse(r).name \in NameSeqs
<1>1. r.name \in Seq(Seq(Words)) /\ r.name # <<>> /\ \A k \in DOMAIN r.name : r.name[k] # <<>>
  BY NamesAssumption DEF Named
<1>2. r.name[1] \in Seq(Words) /\ r.name[1] # <<>>
  <2>1. 1 \in DOMAIN r.name
    BY <1>1
  <2> QED BY <1>1, <2>1
<1>3. Names!Front(r.name[1]) \in Seq(Words)
  <2> DEFINE x == r.name[1]
  <2>1. x \in Seq(Words) /\ Len(x) \in Nat \ {0}
    <3>1. Len(x) # 0
      BY <1>2
    <3> QED BY <1>2, <3>1
  <2> HIDE DEF x
  <2>2. SubSeq(x, 1, Len(x) - 1) \in Seq(Words)
    BY <2>1
  <2> QED BY <2>2 DEF Names!Front, x
<1>4. <<Names!Front(r.name[1])>> \in NameSeqs
  <2>1. /\ <<Names!Front(r.name[1])>> \in Seq(Seq(Words))
        /\ Len(<<Names!Front(r.name[1])>>) = 1
    BY <1>3, OneMember
  <2> QED BY <2>1 DEF NameSeqs
<1>5. r.name \in NameSeqs
  BY <1>1 DEF NameSeqs
<1> QED BY <1>4, <1>5 DEF Names!Parse

(* Two sequences, one behind the other.                                    *)
LEMMA Concat ==
  ASSUME NEW X, NEW a \in Seq(X), NEW b \in Seq(X)
  PROVE  /\ a \o b \in Seq(X) /\ Len(a \o b) = Len(a) + Len(b)
         /\ \A k \in 1 .. Len(a) : (a \o b)[k] = a[k]
         /\ \A k \in 1 .. Len(b) : (a \o b)[Len(a) + k] = b[k]
<1>1. a \o b \in Seq(X)
  OBVIOUS
<1>2. Len(a \o b) = Len(a) + Len(b)
  OBVIOUS
<1>3. \A k \in 1 .. Len(a) : (a \o b)[k] = a[k]
  OBVIOUS
<1>4. \A k \in 1 .. Len(b) : (a \o b)[Len(a) + k] = b[k]
  OBVIOUS
<1> QED BY <1>1, <1>2, <1>3, <1>4

(* Three members, one by one and two at a time.                            *)
LEMMA Three ==
  ASSUME NEW X, NEW a \in X, NEW b \in X, NEW c \in X
  PROVE  /\ <<a>> \o <<b>> \o <<c>> = <<a, b, c>>
         /\ <<a>> \o <<>> \o <<b, c>> = <<a, b, c>>
<1> DEFINE A == <<a>>
           B == <<b>>
           C == <<c>>
           T == <<a, b, c>>
           P == <<b, c>>
           E == <<>>
<1>1. A \in Seq(X) /\ Len(A) = 1 /\ A[1] = a
  OBVIOUS
<1>2. B \in Seq(X) /\ Len(B) = 1 /\ B[1] = b
  OBVIOUS
<1>3. C \in Seq(X) /\ Len(C) = 1 /\ C[1] = c
  OBVIOUS
<1>4. T \in Seq(X) /\ Len(T) = 3 /\ T[1] = a /\ T[2] = b /\ T[3] = c
  OBVIOUS
<1>5. P \in Seq(X) /\ Len(P) = 2 /\ P[1] = b /\ P[2] = c
  OBVIOUS
<1>6. E \in Seq(X) /\ Len(E) = 0
  OBVIOUS
<1> HIDE DEF A, B, C, T, P, E
<1>7. A \o B \in Seq(X) /\ Len(A \o B) = 2 /\ (A \o B)[1] = a /\ (A \o B)[2] = b
  BY <1>1, <1>2, Concat, SMTT(30)
<1>8. /\ A \o B \o C \in Seq(X) /\ Len(A \o B \o C) = 3 /\ (A \o B \o C)[1] = a
      /\ (A \o B \o C)[2] = b /\ (A \o B \o C)[3] = c
  BY <1>3, <1>7, Concat
<1>9. A \o B \o C = T
  <2>1. \A k \in 1 .. Len(T) : (A \o B \o C)[k] = T[k]
    BY <1>4, <1>8, SMTT(30)
  <2> QED BY <1>4, <1>8, <2>1, SameSeq
<1> DEFINE D == A \o E
<1>10. D \in Seq(X) /\ Len(D) = 1 /\ D[1] = a
  BY <1>1, <1>6, Concat
<1> HIDE DEF D
<1>11. /\ D \o P \in Seq(X) /\ Len(D \o P) = 3 /\ (D \o P)[1] = a
       /\ (D \o P)[2] = b /\ (D \o P)[3] = c
  <2>1. /\ D \o P \in Seq(X) /\ Len(D \o P) = Len(D) + Len(P)
        /\ \A k \in 1 .. Len(D) : (D \o P)[k] = D[k]
        /\ \A k \in 1 .. Len(P) : (D \o P)[Len(D) + k] = P[k]
    <3>1. D \in Seq(X) /\ P \in Seq(X)
      BY <1>5, <1>10
    <3> QED BY <3>1, Concat
  <2>2. (D \o P)[1] = a
    BY <1>10, <2>1
  <2>3. (D \o P)[2] = b
    BY <1>5, <1>10, <2>1
  <2>4. (D \o P)[3] = c
    BY <1>5, <1>10, <2>1
  <2> QED BY <1>5, <1>10, <2>1, <2>2, <2>3, <2>4
<1>12. D \o P = T
  <2>1. \A k \in 1 .. Len(T) : (D \o P)[k] = T[k]
    BY <1>4, <1>11
  <2> QED BY <1>4, <1>11, <2>1, SameSeq
<1> QED BY <1>9, <1>12 DEF A, B, C, T, P, E, D

(* A sequence is its first member and the rest.                            *)
LEMMA FirstAndRest ==
  ASSUME NEW X, NEW a \in Seq(X), Len(a) >= 1
  PROVE  a = <<a[1]>> \o Tail(a)
<1>1. Len(a) \in Nat /\ a[1] \in X /\ Tail(a) \in Seq(X) /\ Len(Tail(a)) = Len(a) - 1
  OBVIOUS
<1>2. \A k \in 1 .. Len(a) - 1 : Tail(a)[k] = a[k + 1]
  BY <1>1
<1> DEFINE t == Tail(a)
           b == <<a[1]>> \o t
<1>3. t \in Seq(X) /\ Len(t) = Len(a) - 1 /\ \A k \in 1 .. Len(t) : t[k] = a[k + 1]
  BY <1>1, <1>2
<1> HIDE DEF t
<1>4. b \in Seq(X) /\ Len(b) = Len(a)
  <2>1. <<a[1]>> \in Seq(X) /\ Len(<<a[1]>>) = 1
    BY <1>1, OneMember
  <2> DEFINE h == <<a[1]>>
  <2> HIDE DEF h
  <2>2. h \in Seq(X) /\ Len(h) = 1
    BY <2>1 DEF h
  <2>3. h \o t \in Seq(X) /\ Len(h \o t) = Len(a)
    <3>1. h \o t \in Seq(X) /\ Len(h \o t) = Len(h) + Len(t)
      <4>1. h \in Seq(X) /\ t \in Seq(X)
        BY <1>3, <2>2
      <4> QED BY <4>1, Concat
    <3> QED BY <1>1, <1>3, <2>2, <3>1
  <2> QED BY <2>3 DEF h
<1>5. ASSUME NEW k \in 1 .. Len(a)  PROVE a[k] = b[k]
  <2>1. CASE k = 1
    BY <1>1, <1>3, <2>1
  <2>2. CASE k # 1
    <3>1. k - 1 \in 1 .. Len(t) /\ b[k] = t[k - 1]
      BY <1>1, <1>3, <2>2
    <3> QED BY <1>3, <3>1
  <2> QED BY <2>1, <2>2
<1> HIDE DEF b
<1>6. a = b
  BY <1>4, <1>5, SameSeq
<1> QED BY <1>6 DEF b, t

(* Names with the same sources have one canonical name.                    *)
LEMMA SameSources ==
  ASSUME NEW n \in NameSeqs, NEW o \in NameSeqs, mirrors \in MirrorMaps,
         Names!Sources(n) = Names!Sources(o)
  PROVE  Names!Canonical(n) = Names!Canonical(o)
<1> DEFINE c == Names!Canonical(n)
           d == Names!Canonical(o)
           s == Names!Sources(n)
<1>1. /\ c \in Seq(Seq(Words)) /\ Len(c) >= 2
      /\ d \in Seq(Seq(Words)) /\ Len(d) >= 2
  BY CanonicalParts
<1>2. /\ \E k \in DOMAIN s : s[k] = c
      /\ \A k \in DOMAIN s :
           \/ s[k] = c
           \/ /\ c[1] \in DOMAIN mirrors
              /\ \E j \in DOMAIN mirrors[c[1]] : s[k] = mirrors[c[1]][j] \o Tail(c)
      /\ c[1] \in DOMAIN mirrors /\ mirrors[c[1]] # <<>> => s[1] = mirrors[c[1]][1] \o Tail(c)
  BY SourcesAre
<1> DEFINE t == Names!Sources(o)
<1>3. /\ \E k \in DOMAIN t : t[k] = d
      /\ \A k \in DOMAIN t :
           \/ t[k] = d
           \/ /\ d[1] \in DOMAIN mirrors
              /\ \E j \in DOMAIN mirrors[d[1]] : t[k] = mirrors[d[1]][j] \o Tail(d)
      /\ d[1] \in DOMAIN mirrors /\ mirrors[d[1]] # <<>> => t[1] = mirrors[d[1]][1] \o Tail(d)
  BY SourcesAre
<1>4. s = t
  OBVIOUS
<1> HIDE DEF c, d, s, t
<1> SUFFICES ASSUME c # d  PROVE c = d
  BY DEF c, d
<1>5. /\ c[1] \in DOMAIN mirrors
      /\ \E j \in DOMAIN mirrors[c[1]] : d = mirrors[c[1]][j] \o Tail(c)
  BY <1>4, <1>2, <1>3
<1>6. /\ d[1] \in DOMAIN mirrors
      /\ \E j \in DOMAIN mirrors[d[1]] : c = mirrors[d[1]][j] \o Tail(d)
  BY <1>4, <1>2, <1>3
<1>7. d[1] \notin DOMAIN mirrors \ {c[1]}
  <2>1. PICK j \in DOMAIN mirrors[c[1]] : d = mirrors[c[1]][j] \o Tail(c)
    BY <1>5
  <2> DEFINE m == mirrors[c[1]][j]
  <2>2. /\ m \in Seq(Seq(Words)) /\ m # <<>> /\ m[1] \notin DOMAIN mirrors \ {c[1]}
    BY <1>5, MirrorsAssumption
  <2>3. Tail(c) \in Seq(Seq(Words))
    BY <1>1
  <2>4. d = m \o Tail(c)
    BY <2>1
  <2> HIDE DEF m
  <2>5. Len(m) \in Nat \ {0}
    <3>1. Len(m) # 0
      BY <2>2
    <3> QED BY <2>2, <3>1
  <2>6. d[1] = m[1]
    BY <2>2, <2>3, <2>4, <2>5
  <2> QED BY <2>2, <2>6
<1>8. c[1] = d[1]
  BY <1>6, <1>7
<1>9. mirrors[c[1]] # <<>> /\ mirrors[c[1]] \in Seq(Seq(Seq(Words)))
  <2>1. PICK j \in DOMAIN mirrors[c[1]] : TRUE
    BY <1>5
  <2>2. mirrors[c[1]] \in Seq(Seq(Seq(Words)))
    BY <1>5, MirrorsAssumption
  <2> QED BY <2>1, <2>2
<1> DEFINE f == mirrors[c[1]][1]
<1>10. f \o Tail(c) = f \o Tail(d)
  BY <1>4, <1>2, <1>3, <1>5, <1>6, <1>8, <1>9
<1>11. f \in Seq(Seq(Words))
  <2>1. 1 \in DOMAIN mirrors[c[1]]
    BY <1>9
  <2> QED BY <1>9, <2>1
<1> HIDE DEF f
<1>12. Tail(c) \in Seq(Seq(Words)) /\ Tail(d) \in Seq(Seq(Words))
  BY <1>1
<1>13. Tail(c) = Tail(d)
  BY <1>10, <1>11, <1>12, SameRest
<1>14. c = <<c[1]>> \o Tail(c) /\ d = <<d[1]>> \o Tail(d)
  <2>1. Len(c) >= 1 /\ Len(d) >= 1
    BY <1>1
  <2>2. c = <<c[1]>> \o Tail(c)
    BY <1>1, <2>1, FirstAndRest
  <2>3. d = <<d[1]>> \o Tail(d)
    BY <1>1, <2>1, FirstAndRest
  <2> QED BY <2>2, <2>3
<1> QED BY <1>8, <1>13, <1>14

(* Docker's form of a name and the canonical one: both a registry of its   *)
(* own, or docker.io left out, and library before a single part.           *)
Forms(c, f) ==
  \/ c = f /\ Len(f) >= 2 /\ Names!Explicit(f[1]) /\ f[1] # Names!docker
  \/ Len(f) = 1 /\ c = <<Names!docker, Library, f[1]>>
  \/ /\ Len(f) >= 2 /\ ~Names!Explicit(f[1]) /\ ~(Len(f) = 2 /\ f[1] = Library)
     /\ c = <<Names!docker>> \o f

(* docker.io and library are parts of names.                               *)
LEMMA DockersParts == Names!docker \in Seq(Words) /\ Library \in Seq(Words)
<1>1. {"docker.io", "library"} \subseteq Words
  BY NamesAssumption
<1> QED BY <1>1, OneMember DEF Names!docker, Library

(* A name with no registry of its own in both forms.                       *)
LEMMA DockersForms ==
  ASSUME NEW m \in Seq(Seq(Words)), Len(m) >= 1, ~Names!Explicit(m[1])
  PROVE  LET c == <<Names!docker>> \o (IF Len(m) = 1 THEN <<Library>> ELSE <<>>) \o m
             f == IF Len(m) = 2 /\ m[1] = Library THEN Tail(m) ELSE m
         IN f \in Seq(Seq(Words)) /\ Forms(c, f)
<1> DEFINE D == <<Names!docker>>
<1>1. Len(m) \in Nat /\ Names!docker \in Seq(Words) /\ Library \in Seq(Words)
  BY DockersParts
<1>2. CASE Len(m) = 1
  <2>1. m = <<m[1]>>
    BY <1>2
  <2>2. <<Names!docker>> \o <<Library>> \o <<m[1]>> = <<Names!docker, Library, m[1]>>
    <3>1. m[1] \in Seq(Words)
      OBVIOUS
    <3> QED BY <1>1, <3>1, Three
  <2>3. Len(m) = 1 /\ ~(Len(m) = 2)
    BY <1>2
  <2> QED BY <2>1, <2>2, <2>3 DEF Forms
<1>3. CASE Len(m) = 2 /\ m[1] = Library
  <2>1. m = <<Library, m[2]>> /\ m[2] \in Seq(Words)
    BY <1>3
  <2>2. /\ Tail(m) = <<m[2]>> /\ <<m[2]>> \in Seq(Seq(Words)) /\ Len(<<m[2]>>) = 1
        /\ <<m[2]>>[1] = m[2]
    <3>1. Tail(<<Library, m[2]>>) = <<m[2]>>
      OBVIOUS
    <3>2. Tail(m) = <<m[2]>>
      BY <2>1, <3>1
    <3> QED BY <2>1, <3>2, OneMember
  <2>3. <<Names!docker>> \o <<>> \o <<Library, m[2]>> = <<Names!docker, Library, m[2]>>
    BY <1>1, <2>1, Three
  <2>4. ~(Len(m) = 1)
    BY <1>3
  <2> QED BY <1>3, <2>1, <2>2, <2>3, <2>4 DEF Forms
<1>4. CASE Len(m) # 1 /\ ~(Len(m) = 2 /\ m[1] = Library)
  <2>1. Len(m) >= 2
    <3>1. \A x \in Nat : x >= 1 /\ x # 1 => x >= 2
      OBVIOUS
    <3> QED BY <1>1, <1>4, <3>1
  <2>2. D \o <<>> = D
    OBVIOUS
  <2>3. ~(Len(m) = 1)
    BY <1>4
  <2> QED BY <1>4, <2>1, <2>2, <2>3 DEF Forms
<1> QED BY <1>2, <1>3, <1>4

(* Every name has both forms.                                              *)
LEMMA TwoForms ==
  ASSUME NEW n, Named(n)
  PROVE  /\ Names!Familiar(n) \in Seq(Seq(Words))
         /\ Forms(Names!Canonical(n), Names!Familiar(n))
<1>1. /\ n \in Seq(Seq(Words)) /\ Len(n) >= 1 /\ Len(n) \in Nat
      /\ Names!Explicit(n[1]) => Len(n) >= 2 /\ Len(n) > 1
      /\ n[1] = Names!docker => ~Names!Explicit(n[2])
  <2>1. n \in Seq(Seq(Words)) /\ Len(n) # 0
    BY DEF Named
  <2>2. Len(n) \in Nat
    BY <2>1
  <2>3. /\ Names!Explicit(n[1]) => Len(n) > 1
        /\ n[1] = Names!docker => ~Names!Explicit(n[2])
    BY DEF Named
  <2> QED BY <2>1, <2>2, <2>3
<1>2. CASE Names!Explicit(n[1]) /\ n[1] # Names!docker
  <2>1. Names!Registry(n) = n[1] /\ Names!Repository(n) = Tail(n)
    <3>1. Len(n) > 1
      BY <1>1, <1>2
    <3> QED BY <1>2, <3>1 DEF Names!Registry, Names!Repository
  <2>2. Names!Canonical(n) = <<n[1]>> \o <<>> \o Tail(n)
    BY <1>2, <2>1 DEF Names!Canonical
  <2>3. <<n[1]>> \o <<>> = <<n[1]>>
    OBVIOUS
  <2>4. n = <<n[1]>> \o Tail(n)
    BY <1>1, FirstAndRest
  <2>5. n[1] # Library
    BY <1>2, Registries
  <2>6. Names!Familiar(n) = n
    BY <1>2, <2>5 DEF Names!Familiar, Library
  <2> QED BY <1>1, <1>2, <2>2, <2>3, <2>4, <2>6 DEF Forms
<1>3. CASE n[1] = Names!docker
  <2> DEFINE m == Tail(n)
  <2>1. Names!Explicit(n[1]) /\ Len(n) >= 2
    BY <1>1, <1>3, Registries
  <2>2. m \in Seq(Seq(Words)) /\ Len(m) >= 1 /\ m[1] = n[2]
    BY <1>1, <2>1
  <2>3. Names!Registry(n) = Names!docker /\ Names!Repository(n) = m
    BY <1>1, <1>3, <2>1 DEF Names!Registry, Names!Repository
  <2> HIDE DEF m
  <2>4. Names!Canonical(n)
         = <<Names!docker>> \o (IF Len(m) = 1 THEN <<Library>> ELSE <<>>) \o m
    BY <2>3 DEF Names!Canonical, Library
  <2>5. Names!Familiar(n) = IF Len(m) = 2 /\ m[1] = Library THEN Tail(m) ELSE m
    BY <1>3 DEF Names!Familiar, Library, m
  <2>6. ~Names!Explicit(m[1])
    BY <1>1, <1>3, <2>2
  <2>7. LET c == <<Names!docker>> \o (IF Len(m) = 1 THEN <<Library>> ELSE <<>>) \o m
            f == IF Len(m) = 2 /\ m[1] = Library THEN Tail(m) ELSE m
        IN f \in Seq(Seq(Words)) /\ Forms(c, f)
    BY <2>2, <2>6, DockersForms
  <2> QED BY <2>4, <2>5, <2>7
<1>4. CASE ~Names!Explicit(n[1])
  <2>1. Names!Registry(n) = Names!docker /\ Names!Repository(n) = n
    BY <1>4 DEF Names!Registry, Names!Repository
  <2>2. Names!Canonical(n)
         = <<Names!docker>> \o (IF Len(n) = 1 THEN <<Library>> ELSE <<>>) \o n
    BY <2>1 DEF Names!Canonical, Library
  <2>3. n[1] # Names!docker
    BY <1>4, Registries
  <2>4. Names!Familiar(n) = IF Len(n) = 2 /\ n[1] = Library THEN Tail(n) ELSE n
    BY <2>3 DEF Names!Familiar, Library
  <2>5. LET c == <<Names!docker>> \o (IF Len(n) = 1 THEN <<Library>> ELSE <<>>) \o n
            f == IF Len(n) = 2 /\ n[1] = Library THEN Tail(n) ELSE n
        IN f \in Seq(Seq(Words)) /\ Forms(c, f)
    BY <1>1, <1>4, DockersForms
  <2> QED BY <2>2, <2>4, <2>5
<1> QED BY <1>2, <1>3, <1>4

(* Two names have one canonical form exactly if Docker takes them for one. *)
LEMMA OneForm ==
  ASSUME NEW c, NEW f \in Seq(Seq(Words)), Forms(c, f),
         NEW d, NEW g \in Seq(Seq(Words)), Forms(d, g)
  PROVE  (c = d) = (f = g)
<1>1. /\ Len(f) \in Nat /\ Len(g) \in Nat
      /\ <<Names!docker>> \in Seq(Seq(Words)) /\ Library \in Seq(Words)
  BY DockersParts, OneMember
<1> DEFINE Own(x, y) == x = y /\ Len(y) >= 2 /\ Names!Explicit(y[1]) /\ y[1] # Names!docker
           Short(x, y) == Len(y) = 1 /\ x = <<Names!docker, Library, y[1]>>
           Long(x, y) == /\ Len(y) >= 2 /\ ~Names!Explicit(y[1])
                         /\ ~(Len(y) = 2 /\ y[1] = Library) /\ x = <<Names!docker>> \o y
<1>2. (Own(c, f) \/ Short(c, f) \/ Long(c, f)) /\ (Own(d, g) \/ Short(d, g) \/ Long(d, g))
  BY DEF Forms
<1>3. \A x, y : Short(x, y) => x[1] = Names!docker /\ Len(x) = 3 /\ x[2] = Library
                               /\ x[3] = y[1]
  OBVIOUS
<1>4. \A x : \A y \in Seq(Seq(Words)) :
        Long(x, y) => x[1] = Names!docker /\ x[2] = y[1] /\ Len(x) = 1 + Len(y)
  <2> SUFFICES ASSUME NEW x, NEW y \in Seq(Seq(Words)), Long(x, y)
               PROVE  x[1] = Names!docker /\ x[2] = y[1] /\ Len(x) = 1 + Len(y)
    OBVIOUS
  <2>1. x = <<Names!docker>> \o y /\ Len(y) >= 2
    OBVIOUS
  <2> DEFINE h == <<Names!docker>>
  <2>2. h \in Seq(Seq(Words)) /\ Len(h) = 1 /\ h[1] = Names!docker /\ x = h \o y
    BY <1>1, <2>1
  <2> HIDE DEF h, Long
  <2>3. Len(h \o y) = 1 + Len(y)
    <3>1. Len(h \o y) = Len(h) + Len(y)
      <4>1. h \in Seq(Seq(Words))
        BY <2>2
      <4> QED BY <4>1, Concat
    <3> QED BY <2>2, <3>1
  <2>4. (h \o y)[1] = Names!docker /\ (h \o y)[2] = y[1]
    BY <2>1, <2>2
  <2> QED BY <2>2, <2>3, <2>4
<1>5. CASE Own(c, f) /\ Own(d, g)
  BY <1>5
<1>6. CASE Short(c, f) /\ Short(d, g)
  <2>1. c = d => f = g
    <3>1. f = <<f[1]>> /\ g = <<g[1]>>
      BY <1>6
    <3>2. c = d => f[1] = g[1]
      BY <1>3, <1>6
    <3> QED BY <3>1, <3>2
  <2> QED BY <1>6, <2>1
<1>7. CASE Long(c, f) /\ Long(d, g)
  <2>1. c = d => f = g
    BY <1>1, <1>7, SameRest
  <2> QED BY <1>7, <2>1
<1> HIDE DEF Own, Short, Long
<1>8. ASSUME NEW x, NEW y \in Seq(Seq(Words)), NEW z, NEW w \in Seq(Seq(Words)),
             Own(x, y), Short(z, w) \/ Long(z, w)
      PROVE  x # z /\ y # w
  <2>1. x[1] # Names!docker
    BY <1>8 DEF Own
  <2>2. z[1] = Names!docker
    BY <1>3, <1>4, <1>8
  <2>3. Len(y) >= 2 /\ Names!Explicit(y[1])
    BY <1>8 DEF Own
  <2>4. Len(w) = 1 \/ ~Names!Explicit(w[1])
    BY <1>8 DEF Short, Long
  <2>5. \A k \in Nat : k >= 2 => k # 1
    OBVIOUS
  <2>6. Len(y) \in Nat
    OBVIOUS
  <2>7. y # w
    BY <2>3, <2>4, <2>5, <2>6
  <2> QED BY <2>1, <2>2, <2>7
<1>9. ASSUME NEW x, NEW y \in Seq(Seq(Words)), NEW z, NEW w \in Seq(Seq(Words)),
             Short(x, y), Long(z, w)
      PROVE  x # z /\ y # w
  <2>1. Len(x) = 3 /\ x[2] = Library
    BY <1>3, <1>9
  <2>2. z[2] = w[1] /\ Len(z) = 1 + Len(w) /\ Len(w) \in Nat
    BY <1>4, <1>9
  <2>3. Len(w) >= 2 /\ ~(Len(w) = 2 /\ w[1] = Library)
    BY <1>9 DEF Long
  <2>4. Len(y) = 1
    BY <1>9 DEF Short
  <2>5. \A k \in Nat : 1 + k = 3 => k = 2
    OBVIOUS
  <2>6. x = z => Len(w) = 2 /\ w[1] = Library
    BY <2>1, <2>2, <2>5
  <2>7. \A k \in Nat : k >= 2 => k # 1
    OBVIOUS
  <2>8. y # w
    BY <2>2, <2>3, <2>4, <2>7
  <2> QED BY <2>3, <2>6, <2>8
<1> QED BY <1>2, <1>5, <1>6, <1>7, <1>8, <1>9

(* What the generator has made of a reference.                             *)
ResolvedAs(r) ==
  LET p == Names!Parse(r)
  IN [name |-> p.name, tag |-> p.tag, digest |-> CraneDigest(r),
      final |-> Names!Canonical(p.name), sources |-> Names!Sources(p.name),
      file |-> Names!CacheFile(p.name, p.tag, CraneDigest(r))]

NamesInv ==
  /\ refs \in [{1, 2} -> Written] /\ mirrors \in MirrorMaps /\ DOMAIN entry = {1, 2}
  /\ \A i \in {1, 2} : entry[i] \in {Names!Unresolved, ResolvedAs(refs[i])}

(* The inductive invariant: what the generator knows of a reference is     *)
(* nothing, or all that follows from the reference alone.                  *)
LEMMA NamesInvariance == Names!Spec => []NamesInv
<1>1. Names!Init => NamesInv
  BY DEF Names!Init, NamesInv
<1>2. NamesInv /\ [Names!Next]_(Names!vars) => NamesInv'
  <2> SUFFICES ASSUME NamesInv, [Names!Next]_(Names!vars)  PROVE NamesInv'
    OBVIOUS
  <2>1. CASE UNCHANGED Names!vars
    BY <2>1 DEF NamesInv, ResolvedAs, Names!vars, Names!Sources, Names!CacheFile
  <2>2. ASSUME NEW i \in {1, 2}, Names!Resolve(i)  PROVE NamesInv'
    <3>1. refs' = refs /\ mirrors' = mirrors
      BY <2>2 DEF Names!Resolve
    <3>2. entry' = [entry EXCEPT ![i] = ResolvedAs(refs[i])]
      BY <2>2 DEF Names!Resolve, ResolvedAs
    <3>3. \A j \in {1, 2} : (ResolvedAs(refs[j]))' = ResolvedAs(refs[j])
      BY <3>1 DEF ResolvedAs, Names!Sources, Names!CacheFile
    <3>4. \A j \in {1, 2} : entry'[j] \in {Names!Unresolved, ResolvedAs(refs[j])}
      BY <3>2 DEF NamesInv
    <3>5. DOMAIN entry' = {1, 2}
      BY <3>2 DEF NamesInv
    <3> QED BY <3>1, <3>3, <3>4, <3>5 DEF NamesInv
  <2> QED BY <2>1, <2>2 DEF Names!Next
<1> QED BY <1>1, <1>2, PTL DEF Names!Spec

(* Equal file names come from equal sources, and these from one canonical  *)
(* name: a mirror of another registry is never the registry of the other   *)
(* name.                                                                   *)
LEMMA OneArchive == NamesInv => OneFileOneArchive
<1> SUFFICES ASSUME NamesInv, Names!Done, entry[1].file = entry[2].file
             PROVE  \A f \in {"final", "tag", "digest", "sources"} : entry[1][f] = entry[2][f]
  BY DEF OneFileOneArchive, Names!OneFileOneArchive
<1> DEFINE p == Names!Parse(refs[1])
           q == Names!Parse(refs[2])
<1>1. entry[1] = ResolvedAs(refs[1]) /\ entry[2] = ResolvedAs(refs[2])
  BY DEF NamesInv, Names!Done
<1>2. p.name \in NameSeqs /\ q.name \in NameSeqs /\ mirrors \in MirrorMaps
  BY ParsedNames DEF NamesInv
<1> HIDE DEF p, q
<1>3. /\ entry[1].tag = p.tag /\ entry[1].digest = CraneDigest(refs[1])
      /\ entry[1].final = Names!Canonical(p.name) /\ entry[1].sources = Names!Sources(p.name)
      /\ entry[1].file = Names!CacheFile(p.name, p.tag, CraneDigest(refs[1]))
  BY <1>1 DEF ResolvedAs, p
<1>4. /\ entry[2].tag = q.tag /\ entry[2].digest = CraneDigest(refs[2])
      /\ entry[2].final = Names!Canonical(q.name) /\ entry[2].sources = Names!Sources(q.name)
      /\ entry[2].file = Names!CacheFile(q.name, q.tag, CraneDigest(refs[2]))
  BY <1>1 DEF ResolvedAs, q
<1>5. /\ p.tag = q.tag /\ CraneDigest(refs[1]) = CraneDigest(refs[2])
      /\ Names!Sources(p.name) = Names!Sources(q.name)
  <2> DEFINE F(x, d) == Names!CacheFile(x.name, x.tag, d)
  <2>1. \A x, d : /\ F(x, d)[2] = x.tag /\ F(x, d)[3] = d
                  /\ F(x, d)[4] = Names!Sources(x.name)
    BY DEF Names!CacheFile
  <2>2. F(p, CraneDigest(refs[1])) = F(q, CraneDigest(refs[2]))
    BY <1>3, <1>4
  <2> HIDE DEF F
  <2> QED BY <2>1, <2>2
<1>6. Names!Canonical(p.name) = Names!Canonical(q.name)
  BY <1>2, <1>5, SameSources
<1> QED BY <1>3, <1>4, <1>5, <1>6

(* A reference that is not ambiguous is parsed to its name and tag, an     *)
(* ambiguous one to another name.                                          *)
LEMMA ParsedAsWritten ==
  ASSUME NEW r \in Written
  PROVE  LET p == Names!Parse(r)
         IN (p.name = r.name /\ p.tag = (IF r.tag = None THEN <<"latest">> ELSE r.tag))
            = ~Names!Ambiguous(r)
<1>1. CASE ~Names!Ambiguous(r)
  BY <1>1 DEF Names!Ambiguous, Names!Parse
<1>2. CASE Names!Ambiguous(r)
  <2>1. r.name \in Seq(Seq(Words)) /\ Len(r.name) > 1
    BY <1>2, NamesAssumption DEF Named, Names!Ambiguous, Names!Explicit
  <2>2. Names!Parse(r).name = <<Names!Front(r.name[1])>>
    BY <1>2 DEF Names!Ambiguous, Names!Parse
  <2>3. Len(<<Names!Front(r.name[1])>>) = 1
    OBVIOUS
  <2>4. \A k \in Nat : k > 1 => k # 1
    OBVIOUS
  <2>5. Names!Parse(r).name # r.name
    BY <2>1, <2>2, <2>3, <2>4
  <2> QED BY <1>2, <2>5
<1> QED BY <1>1, <1>2

(* Canonical and familiar name are two forms of one; the tag is the one    *)
(* written, the sources are each named once.                               *)
LEMMA DockersNames == NamesInv => NamesAreDockers
<1> SUFFICES ASSUME NamesInv
             PROVE  Names!FinalNamesAreDockers /\ Names!TagsAsWritten /\ Names!EverySourceOnce
  BY DEF NamesAreDockers, Names!NamesAreDockers
<1>1. /\ refs[1] \in Written /\ refs[2] \in Written /\ mirrors \in MirrorMaps
      /\ \A i \in {1, 2} : entry[i] # Names!Unresolved => entry[i] = ResolvedAs(refs[i])
  BY DEF NamesInv
<1>2. Names!FinalNamesAreDockers
  <2> SUFFICES ASSUME Names!Done, \A i \in {1, 2} : ~Names!Ambiguous(refs[i])
               PROVE  (entry[1].final = entry[2].final)
                      = (Names!Familiar(refs[1].name) = Names!Familiar(refs[2].name))
    BY DEF Names!FinalNamesAreDockers
  <2>1. /\ entry[1].final = Names!Canonical(Names!Parse(refs[1]).name)
        /\ entry[2].final = Names!Canonical(Names!Parse(refs[2]).name)
    BY <1>1 DEF Names!Done, ResolvedAs
  <2>2. Names!Parse(refs[1]).name = refs[1].name /\ Names!Parse(refs[2]).name = refs[2].name
    BY <1>1, ParsedAsWritten
  <2>3. Named(refs[1].name) /\ Named(refs[2].name)
    BY <1>1, NamesAssumption
  <2> DEFINE c == Names!Canonical(refs[1].name)
             d == Names!Canonical(refs[2].name)
             f == Names!Familiar(refs[1].name)
             g == Names!Familiar(refs[2].name)
  <2>4. f \in Seq(Seq(Words)) /\ Forms(c, f)
    BY <2>3, TwoForms
  <2>5. g \in Seq(Seq(Words)) /\ Forms(d, g)
    BY <2>3, TwoForms
  <2>6. entry[1].final = c /\ entry[2].final = d
    BY <2>1, <2>2
  <2> HIDE DEF c, d, f, g
  <2>7. (c = d) = (f = g)
    BY <2>4, <2>5, OneForm
  <2> QED BY <2>6, <2>7 DEF f, g
<1>3. Names!TagsAsWritten
  <2> SUFFICES ASSUME NEW i \in {1, 2}, entry[i] # Names!Unresolved
               PROVE  (entry[i].name = refs[i].name /\
                       entry[i].tag = (IF refs[i].tag = None THEN <<"latest">>
                                       ELSE refs[i].tag))
                      = ~Names!Ambiguous(refs[i])
    BY DEF Names!TagsAsWritten
  <2>1. /\ refs[i] \in Written
        /\ entry[i].name = Names!Parse(refs[i]).name /\ entry[i].tag = Names!Parse(refs[i]).tag
    BY <1>1 DEF ResolvedAs
  <2> QED BY <2>1, ParsedAsWritten
<1>4. Names!EverySourceOnce
  <2> SUFFICES ASSUME NEW i \in {1, 2}, entry[i] # Names!Unresolved
               PROVE  LET s == entry[i].sources
                      IN /\ entry[i].final \in Names!ToSet(s)
                         /\ \A j, k \in DOMAIN s : s[j] = s[k] => j = k
    BY DEF Names!EverySourceOnce
  <2> DEFINE n == Names!Parse(refs[i]).name
  <2>1. /\ refs[i] \in Written
        /\ entry[i].final = Names!Canonical(n) /\ entry[i].sources = Names!Sources(n)
    BY <1>1 DEF ResolvedAs
  <2>2. n \in NameSeqs
    BY <2>1, ParsedNames
  <2> HIDE DEF n
  <2>3. /\ \E k \in DOMAIN Names!Sources(n) : Names!Sources(n)[k] = Names!Canonical(n)
        /\ \A j, k \in DOMAIN Names!Sources(n) :
             Names!Sources(n)[j] = Names!Sources(n)[k] => j = k
    BY <1>1, <2>2, SourcesAre
  <2> QED BY <2>1, <2>3 DEF Names!ToSet
<1> QED BY <1>2, <1>3, <1>4

(* Two references share a cache file only when name, tag, digest and       *)
(* sources are the same, whatever the names, registries and mirrors.       *)
THEOREM OneArchiveAFile == Names!Spec => []OneFileOneArchive
BY NamesInvariance, OneArchive, PTL

(* Final names are the same exactly when Docker takes the names for the    *)
(* same, tags are those written, and each source is tried once.            *)
THEOREM NamesAreAlwaysDockers == Names!Spec => []NamesAreDockers
BY NamesInvariance, DockersNames, PTL

-----------------------------------------------------------------------------
(* The map of images: the chains of the Kustomizations in a listing, what  *)
(* each pass makes of them, and two listings of the same Kustomizations.   *)

(* What it is that one sequence begins with another.                       *)
LEMMA PrefixIs ==
  ASSUME NEW X, NEW s \in Seq(X), NEW t \in Seq(X)
  PROVE  Maps!IsPrefix(s, t) <=> /\ Len(s) <= Len(t)
                                 /\ \A k \in 1 .. Len(s) : s[k] = t[k]
<1> DEFINE u == SubSeq(t, 1, Len(s))
<1>1. Len(s) \in Nat /\ Len(t) \in Nat
  OBVIOUS
<1>2. Maps!IsPrefix(s, t) <=> Len(s) <= Len(t) /\ s = u
  BY DEF Maps!IsPrefix
<1>3. ASSUME Len(s) <= Len(t)
      PROVE  u \in Seq(X) /\ Len(u) = Len(s) /\ \A k \in 1 .. Len(s) : u[k] = t[k]
  BY <1>1, <1>3
<1> HIDE DEF u
<1>4. ASSUME Len(s) <= Len(t), \A k \in 1 .. Len(s) : s[k] = t[k]
      PROVE  s = u
  BY <1>3, <1>4, SameSeq
<1> QED BY <1>2, <1>3, <1>4

(* Of two beginnings of one sequence the shorter begins the longer.        *)
LEMMA TwoPrefixes ==
  ASSUME NEW X, NEW s \in Seq(X), NEW t \in Seq(X), NEW u \in Seq(X),
         Maps!IsPrefix(s, u), Maps!IsPrefix(t, u)
  PROVE  /\ Len(s) <= Len(t) => Maps!IsPrefix(s, t)
         /\ Len(s) = Len(t) => s = t
<1>1. Len(s) \in Nat /\ Len(t) \in Nat /\ Len(u) \in Nat
  OBVIOUS
<1>2. \A k \in 1 .. Len(s) : s[k] = u[k]
  BY PrefixIs
<1>3. \A k \in 1 .. Len(t) : t[k] = u[k]
  BY PrefixIs
<1>4. ASSUME Len(s) <= Len(t)  PROVE \A k \in 1 .. Len(s) : s[k] = t[k]
  BY <1>1, <1>2, <1>3, <1>4
<1>5. Len(s) <= Len(t) => Maps!IsPrefix(s, t)
  BY <1>4, PrefixIs
<1>6. ASSUME Len(s) = Len(t)  PROVE s = t
  BY <1>1, <1>4, <1>6, SameSeq
<1> QED BY <1>5, <1>6

(* ImageMap counts as this module does.                                    *)
LEMMA MapCount == \A S : Maps!Cardinality(S) = Cardinality(S)
BY DEF Maps!Cardinality, Cardinality

(* A listing has every Kustomization once, at its place.                   *)
LEMMA Listing ==
  ASSUME NEW S, IsFiniteSet(S), NEW ks \in Maps!Orders(S)
  PROVE  /\ Maps!ToSet(ks) = S /\ DOMAIN ks = 1 .. Cardinality(S) /\ Cardinality(S) \in Nat
         /\ \A n \in DOMAIN ks : ks[n] \in S
         /\ \A m, n \in DOMAIN ks : ks[m] = ks[n] => m = n
         /\ \A k \in S : Maps!Listed(ks, k) \in DOMAIN ks /\ ks[Maps!Listed(ks, k)] = k
<1> DEFINE D == 1 .. Cardinality(S)
<1>1. ks \in [D -> S] /\ Maps!ToSet(ks) = S
  BY MapCount DEF Maps!Orders
<1>2. Cardinality(S) \in Nat /\ IsFiniteSet(D) /\ Cardinality(D) = Cardinality(S)
  BY FS_CardinalityType, FS_Interval
<1>3. \A k \in S : \E n \in D : ks[n] = k
  BY <1>1 DEF Maps!ToSet
<1>4. ks \in Surjection(D, S)
  BY <1>1, <1>3 DEF Surjection
<1>5. ks \in Injection(D, S)
  BY <1>2, <1>4, FS_Surjection
<1>6. \A m, n \in D : ks[m] = ks[n] => m = n
  BY <1>5 DEF Injection, IsInjective
<1>7. \A k \in S : Maps!Listed(ks, k) \in D /\ ks[Maps!Listed(ks, k)] = k
  BY <1>1, <1>3 DEF Maps!Listed
<1> QED BY <1>1, <1>2, <1>6, <1>7

(* Two of which one comes first are numbered that way.                     *)
LEMMA NumbersRespect ==
  ASSUME NEW S, IsFiniteSet(S), NEW upto \in [S -> SUBSET S],
         \A x, y \in S : x # y => (x \in upto[y] <=> y \notin upto[x]),
         \A x, y \in S : x \in upto[y] => upto[x] \subseteq upto[y],
         NEW x \in S, NEW y \in S, Cardinality(upto[x]) < Cardinality(upto[y])
  PROVE  x # y /\ x \in upto[y]
<1>1. \A T \in SUBSET S : IsFiniteSet(T) /\ Cardinality(T) \in Nat
  BY FS_Subset, FS_CardinalityType
<1>2. upto[x] \in SUBSET S /\ upto[y] \in SUBSET S
  OBVIOUS
<1>3. ASSUME y \in upto[x]  PROVE FALSE
  <2>1. upto[y] \in SUBSET upto[x] /\ IsFiniteSet(upto[x])
    BY <1>1, <1>2, <1>3
  <2>2. Cardinality(upto[y]) <= Cardinality(upto[x])
    BY <2>1, FS_Subset
  <2> QED BY <1>1, <1>2, <2>2
<1>4. x # y
  BY <1>1, <1>2
<1> QED BY <1>3, <1>4

(* Of two above a third one comes before the other.                        *)
LEMMA BeforeOrders ==
  ASSUME NEW S \in SUBSET Maps!Kustomizations, IsFiniteSet(S), NEW ks \in Maps!Orders(S)
  PROVE  /\ \A p, q \in S : p # q => (Maps!Before(ks, p, q) <=> ~Maps!Before(ks, q, p))
         /\ \A p, q, r \in S : Maps!Before(ks, p, q) /\ Maps!Before(ks, q, r)
                                 => Maps!Before(ks, p, r)
<1>1. \A k \in S : Len(k.path) \in Nat /\ k.path \in Seq(Directories)
  BY DEF Maps!Kustomizations
<1>2. \A k \in S : Maps!Listed(ks, k) \in Nat
  BY Listing
<1>3. \A p, q \in S : p # q => Maps!Listed(ks, p) # Maps!Listed(ks, q)
  BY Listing
<1> QED BY <1>1, <1>2, <1>3 DEF Maps!Before

(* Those above that come before q, and q.                                  *)
Uptos(ks, above) ==
  [q \in above |-> {p \in above : p = q \/ Maps!Before(ks, p, q)}]

(* What is up to each of those above orders them.                          *)
LEMMA UptosAre ==
  ASSUME NEW S \in SUBSET Maps!Kustomizations, IsFiniteSet(S), NEW ks \in Maps!Orders(S),
         NEW above \in SUBSET S
  PROVE  LET upto == Uptos(ks, above)
         IN /\ upto \in [above -> SUBSET above]
            /\ \A x \in above : x \in upto[x]
            /\ \A x, y \in above : x # y => (x \in upto[y] <=> y \notin upto[x])
            /\ \A x, y \in above : x \in upto[y] => upto[x] \subseteq upto[y]
<1>1. /\ \A p, q \in above : p # q => (Maps!Before(ks, p, q) <=> ~Maps!Before(ks, q, p))
      /\ \A p, q, r \in above : Maps!Before(ks, p, q) /\ Maps!Before(ks, q, r)
                                 => Maps!Before(ks, p, r)
  BY BeforeOrders
<1> QED BY <1>1 DEF Uptos

(* The parents are those above, the n-th at place n.                       *)
LEMMA ParentsNumbered ==
  ASSUME NEW S \in SUBSET Maps!Kustomizations, IsFiniteSet(S), NEW ks \in Maps!Orders(S),
         NEW k \in S
  PROVE  LET ps == Maps!Parents(ks, k)
             above == Maps!Above(S, k)
         IN /\ Cardinality(above) \in Nat /\ ps \in [1 .. Cardinality(above) -> above]
            /\ \A n \in 1 .. Cardinality(above) : Cardinality(Uptos(ks, above)[ps[n]]) = n
<1> DEFINE above == Maps!Above(S, k)
           upto == Uptos(ks, above)
           ps == Maps!Parents(ks, k)
           N == Cardinality(above)
           rank(q) == Maps!Cardinality({p \in above : p = q \/ Maps!Before(ks, p, q)})
<1>1. above \in SUBSET S /\ IsFiniteSet(above)
  BY FS_Subset DEF Maps!Above
<1>2. /\ upto \in [above -> SUBSET above]
      /\ \A x \in above : x \in upto[x]
      /\ \A x, y \in above : x # y => (x \in upto[y] <=> y \notin upto[x])
      /\ \A x, y \in above : x \in upto[y] => upto[x] \subseteq upto[y]
  BY <1>1, UptosAre
<1>3. ps = [n \in 1 .. Maps!Cardinality(above) |-> CHOOSE q \in above : rank(q) = n]
  <2>1. Maps!ToSet(ks) = S
    BY Listing
  <2> QED BY <2>1 DEF Maps!Parents
<1>4. \A q \in above : Cardinality(upto[q]) = rank(q)
  <2>1. \A q \in above : upto[q] = {p \in above : p = q \/ Maps!Before(ks, p, q)}
    BY DEF Uptos
  <2> QED BY <2>1, MapCount
<1> HIDE DEF above, upto, ps, rank
<1>5. N \in Nat /\ \A n \in 1 .. N : \E q \in above : Cardinality(upto[q]) = n
  BY <1>1, <1>2, OrderNumbers
<1>6. \A n \in 1 .. N : \E q \in above : rank(q) = n
  BY <1>4, <1>5
<1>7. ps = [n \in 1 .. N |-> CHOOSE q \in above : rank(q) = n]
  BY <1>3, MapCount
<1>8. \A n \in 1 .. N : ps[n] \in above /\ rank(ps[n]) = n
  BY <1>6, <1>7
<1>9. \A n \in 1 .. N : Cardinality(upto[ps[n]]) = n
  BY <1>4, <1>8
<1>10. ps \in [1 .. N -> above]
  BY <1>7, <1>8
<1> QED BY <1>5, <1>9, <1>10 DEF above, upto, ps

(* The parents in order: of two the first comes before the second.         *)
LEMMA ParentsOrdered ==
  ASSUME NEW S \in SUBSET Maps!Kustomizations, IsFiniteSet(S), NEW ks \in Maps!Orders(S),
         NEW k \in S
  PROVE  LET ps == Maps!Parents(ks, k)
         IN /\ ps \in Seq(Maps!Above(S, k))
            /\ \A m, n \in 1 .. Len(ps) : m < n => Maps!Before(ks, ps[m], ps[n])
<1> DEFINE above == Maps!Above(S, k)
           upto == Uptos(ks, above)
           ps == Maps!Parents(ks, k)
           N == Cardinality(above)
<1>1. above \in SUBSET S /\ IsFiniteSet(above)
  BY FS_Subset DEF Maps!Above
<1>2. /\ upto \in [above -> SUBSET above]
      /\ \A x \in above : x \in upto[x]
      /\ \A x, y \in above : x # y => (x \in upto[y] <=> y \notin upto[x])
      /\ \A x, y \in above : x \in upto[y] => upto[x] \subseteq upto[y]
  BY <1>1, UptosAre
<1>3. /\ N \in Nat /\ ps \in [1 .. N -> above]
      /\ \A n \in 1 .. N : Cardinality(upto[ps[n]]) = n
  BY ParentsNumbered
<1> HIDE DEF above, upto, ps
<1>4. ps \in Seq(above) /\ Len(ps) = N
  BY <1>3
<1>5. ASSUME NEW m \in 1 .. N, NEW n \in 1 .. N, m < n
      PROVE  Maps!Before(ks, ps[m], ps[n])
  <2>1. ps[m] # ps[n] /\ ps[m] \in upto[ps[n]]
    <3>1. /\ ps[m] \in above /\ ps[n] \in above
          /\ Cardinality(upto[ps[m]]) < Cardinality(upto[ps[n]])
      BY <1>3, <1>5
    <3> QED BY <1>1, <1>2, <3>1, NumbersRespect
  <2>2. upto[ps[n]] = {p \in above : p = ps[n] \/ Maps!Before(ks, p, ps[n])}
    BY <1>3 DEF Uptos, upto
  <2> QED BY <2>1, <2>2
<1> QED BY <1>4, <1>5 DEF above, ps

(* PathsOf, in any set of Kustomizations.                                  *)
PathsIn(S, item) == {k.path : k \in {j \in S : Maps!KItem(j) = item}}

(* A chain of the Kustomizations of S leads outwards.                      *)
Outwards(S, c) ==
  /\ c \in Seq(Maps!Item_) /\ Len(c) > 0
  /\ \A n \in 2 .. Len(c) :
       /\ c[n].kind = "Kustomization"
       /\ c[n - 1].kind = "Kustomization" =>
            \E p \in PathsIn(S, c[n - 1]), q \in PathsIn(S, c[n]) : Maps!IsPrefix(q, p)

(* The items of Kustomizations, releases and objects.                      *)
LEMMA KItems ==
  ASSUME NEW k \in Maps!Kustomizations
  PROVE  /\ Maps!KItem(k) \in Maps!Item_ /\ Maps!KItem(k).kind = "Kustomization"
         /\ Maps!KItem(k).ns = Maps!Namespace(k) /\ Maps!KItem(k).name = k.name
         /\ Maps!Namespace(k) \in Labels
<1>1. "Kustomization" \in Labels /\ "unknown ns" \in Labels
  BY MapAssumption
<1>2. k.ns \in Labels \cup {None} /\ k.name \in Labels
  BY DEF Maps!Kustomizations
<1>3. Maps!Namespace(k) \in Labels
  BY <1>1, <1>2 DEF Maps!Namespace, Maps!Unknown
<1> QED BY <1>1, <1>2, <1>3 DEF Maps!KItem, Maps!Item, Maps!Item_

(* A release is told by the namespace it is in and its name.               *)
LEMMA HItems ==
  ASSUME NEW k \in Maps!Kustomizations, NEW h \in Maps!Releases
  PROVE  /\ Maps!HItem(h, k) \in Maps!Item_ /\ Maps!HItem(h, k).kind = "HelmRelease"
         /\ Maps!HItem(h, k).name = h.name
<1>1. "HelmRelease" \in Labels /\ "unknown ns" \in Labels
  BY MapAssumption
<1>2. k.ns \in Labels \cup {None}
  BY DEF Maps!Kustomizations
<1> DEFINE g == IF h.ns = None THEN [h EXCEPT !.ns = k.ns] ELSE h
<1>3. g \in Maps!Releases /\ g.name = h.name
  BY <1>2 DEF Maps!Releases
<1>4. g.ns \in Labels \cup {None} /\ h.name \in Labels
  BY <1>3 DEF Maps!Releases
<1>5. Maps!HItem(h, k) = Maps!Item("HelmRelease", g)
  BY DEF Maps!HItem
<1> HIDE DEF g
<1>6. Maps!Namespace(g) \in Labels
  BY <1>1, <1>4 DEF Maps!Namespace, Maps!Unknown
<1>7. Maps!HItem(h, k) = [kind |-> "HelmRelease", ns |-> Maps!Namespace(g), name |-> g.name]
  BY <1>5 DEF Maps!Item
<1> DEFINE x == Maps!HItem(h, k)
<1>8. x = [kind |-> "HelmRelease", ns |-> Maps!Namespace(g), name |-> g.name]
  BY <1>7
<1>9. g.name \in Labels
  BY <1>3, <1>4
<1> HIDE DEF x
<1>10. x \in Maps!Item_
  BY <1>1, <1>6, <1>8, <1>9 DEF Maps!Item_
<1>11. x.kind = "HelmRelease" /\ x.name = g.name
  BY <1>8
<1> QED BY <1>3, <1>10, <1>11 DEF x

(* An object of the cluster, a workload say, is an item of its own kind.   *)
LEMMA OItems ==
  ASSUME NEW o \in Maps!Objects
  PROVE  /\ Maps!Item(o.kind, o) \in Maps!Item_
         /\ Maps!Item(o.kind, o).kind = o.kind
<1>1. "unknown ns" \in Labels
  BY MapAssumption
<1>2. o.kind \in Labels /\ o.ns \in Labels \cup {None} /\ o.name \in Labels
  BY DEF Maps!Objects
<1> QED BY <1>1, <1>2 DEF Maps!Item, Maps!Item_, Maps!Namespace, Maps!Unknown

(* The chains of Kustomizations and of releases.                           *)
LEMMA KChainIs ==
  ASSUME NEW S \in SUBSET Maps!Kustomizations, IsFiniteSet(S), NEW ks \in Maps!Orders(S),
         NEW k \in S
  PROVE  Outwards(S, Maps!KChain(ks, k)) /\ Maps!KChain(ks, k)[1] = Maps!KItem(k)
<1> DEFINE ps == Maps!Parents(ks, k)
           first == <<Maps!KItem(k)>>
           rest == [n \in DOMAIN ps |-> Maps!KItem(ps[n])]
           c == first \o rest
<1>1. /\ ps \in Seq(Maps!Above(S, k))
      /\ \A m, n \in 1 .. Len(ps) : m < n => Maps!Before(ks, ps[m], ps[n])
  BY ParentsOrdered
<1>2. Maps!KChain(ks, k) = c
  BY DEF Maps!KChain
<1>3. \A x \in S : /\ Maps!KItem(x) \in Maps!Item_ /\ Maps!KItem(x).kind = "Kustomization"
                   /\ x.path \in Seq(Directories)
  BY KItems DEF Maps!Kustomizations
<1> HIDE DEF ps
<1>4. /\ Len(ps) \in Nat /\ DOMAIN ps = 1 .. Len(ps)
      /\ \A n \in 1 .. Len(ps) : ps[n] \in S /\ Maps!IsPrefix(ps[n].path, k.path)
  BY <1>1 DEF Maps!Above
<1>5. ASSUME NEW m \in 1 .. Len(ps), NEW n \in 1 .. Len(ps), m < n
      PROVE  Maps!IsPrefix(ps[n].path, ps[m].path)
  <2>1. Len(ps[n].path) <= Len(ps[m].path)
    <3>1. Maps!Before(ks, ps[m], ps[n])
      BY <1>1, <1>5
    <3>2. Len(ps[n].path) \in Nat /\ Len(ps[m].path) \in Nat
      BY <1>3, <1>4
    <3> QED BY <3>1, <3>2 DEF Maps!Before
  <2>2. /\ ps[m].path \in Seq(Directories) /\ ps[n].path \in Seq(Directories)
        /\ k.path \in Seq(Directories)
        /\ Maps!IsPrefix(ps[m].path, k.path) /\ Maps!IsPrefix(ps[n].path, k.path)
    BY <1>3, <1>4
  <2> QED BY <2>1, <2>2, TwoPrefixes
<1>6. rest \in Seq(Maps!Item_) /\ Len(rest) = Len(ps)
      /\ \A n \in 1 .. Len(ps) : rest[n] = Maps!KItem(ps[n])
  <2>1. rest \in [1 .. Len(ps) -> Maps!Item_]
    BY <1>3, <1>4
  <2> QED BY <1>4, <2>1
<1>7. first \in Seq(Maps!Item_) /\ Len(first) = 1 /\ first[1] = Maps!KItem(k)
  BY <1>3, OneMember
<1> HIDE DEF first, rest
<1>8. /\ c \in Seq(Maps!Item_) /\ Len(c) = 1 + Len(ps)
      /\ c[1] = Maps!KItem(k) /\ \A n \in 1 .. Len(ps) : c[1 + n] = Maps!KItem(ps[n])
  <2>1. /\ c \in Seq(Maps!Item_) /\ Len(c) = Len(first) + Len(rest)
        /\ \A n \in 1 .. Len(first) : c[n] = first[n]
        /\ \A n \in 1 .. Len(rest) : c[Len(first) + n] = rest[n]
    <3>1. first \in Seq(Maps!Item_) /\ rest \in Seq(Maps!Item_)
      BY <1>6, <1>7
    <3> QED BY <3>1, Concat
  <2> HIDE DEF c
  <2> QED BY <1>4, <1>6, <1>7, <2>1
<1> DEFINE at(n) == IF n = 1 THEN k ELSE ps[n - 1]
<1>9. \A n \in 1 .. Len(c) : at(n) \in S /\ c[n] = Maps!KItem(at(n))
  <2> SUFFICES ASSUME NEW n \in 1 .. Len(c)  PROVE at(n) \in S /\ c[n] = Maps!KItem(at(n))
    OBVIOUS
  <2>1. CASE n = 1
    BY <1>8, <2>1
  <2>2. CASE n # 1
    <3>1. n - 1 \in 1 .. Len(ps) /\ 1 + (n - 1) = n
      BY <1>4, <1>8, <2>2
    <3>2. c[1 + (n - 1)] = Maps!KItem(ps[n - 1])
      BY <1>8, <3>1
    <3> QED BY <1>4, <2>2, <3>1, <3>2
  <2> QED BY <2>1, <2>2
<1>10. \A n \in 2 .. Len(c) : Maps!IsPrefix(at(n).path, at(n - 1).path)
  <2> SUFFICES ASSUME NEW n \in 2 .. Len(c)
               PROVE  Maps!IsPrefix(at(n).path, at(n - 1).path)
    OBVIOUS
  <2>1. n - 1 \in 1 .. Len(ps) /\ at(n) = ps[n - 1]
    BY <1>4, <1>8
  <2>2. CASE n = 2
    BY <1>4, <2>1, <2>2
  <2>3. CASE n # 2
    <3>1. n - 2 \in 1 .. Len(ps) /\ n - 2 < n - 1 /\ at(n - 1) = ps[n - 2]
      BY <1>4, <1>8, <2>3
    <3> QED BY <1>5, <2>1, <3>1
  <2> QED BY <2>2, <2>3
<1> HIDE DEF at, c
<1>11. ASSUME NEW n \in 2 .. Len(c)
       PROVE  /\ c[n].kind = "Kustomization"
              /\ \E p \in PathsIn(S, c[n - 1]), q \in PathsIn(S, c[n]) : Maps!IsPrefix(q, p)
  <2>1. n \in 1 .. Len(c) /\ n - 1 \in 1 .. Len(c)
    BY <1>4, <1>8
  <2>2. at(n).path \in PathsIn(S, c[n]) /\ at(n - 1).path \in PathsIn(S, c[n - 1])
    BY <1>9, <2>1 DEF PathsIn
  <2> QED BY <1>3, <1>9, <1>10, <2>1, <2>2
<1> QED BY <1>2, <1>4, <1>8, <1>11 DEF Outwards

(* The chain of a release: itself, then the chain of its Kustomization.    *)
LEMMA HChainIs ==
  ASSUME NEW S \in SUBSET Maps!Kustomizations, IsFiniteSet(S), NEW ks \in Maps!Orders(S),
         NEW k \in S, NEW h \in Maps!Releases
  PROVE  Outwards(S, Maps!HChain(ks, h, k)) /\ Maps!HChain(ks, h, k)[1] = Maps!HItem(h, k)
<1> DEFINE x == Maps!HItem(h, k)
           first == <<x>>
           chain == Maps!KChain(ks, k)
           c == first \o chain
<1>1. Outwards(S, chain) /\ chain[1] = Maps!KItem(k)
  BY KChainIs
<1>2. /\ x \in Maps!Item_ /\ x.kind = "HelmRelease"
      /\ Maps!KItem(k).kind = "Kustomization"
  BY HItems, KItems
<1>3. Maps!HChain(ks, h, k) = c
  BY DEF Maps!HChain
<1> HIDE DEF x, chain
<1>4. chain \in Seq(Maps!Item_) /\ Len(chain) \in Nat /\ Len(chain) > 0
  BY <1>1 DEF Outwards
<1>5. first \in Seq(Maps!Item_) /\ Len(first) = 1 /\ first[1] = x
  BY <1>2, OneMember
<1> HIDE DEF first
<1>6. /\ c \in Seq(Maps!Item_) /\ Len(c) = 1 + Len(chain)
      /\ c[1] = x /\ \A n \in 1 .. Len(chain) : c[1 + n] = chain[n]
  <2>1. /\ c \in Seq(Maps!Item_) /\ Len(c) = Len(first) + Len(chain)
        /\ \A n \in 1 .. Len(first) : c[n] = first[n]
        /\ \A n \in 1 .. Len(chain) : c[Len(first) + n] = chain[n]
    <3>1. first \in Seq(Maps!Item_) /\ chain \in Seq(Maps!Item_)
      BY <1>4, <1>5
    <3> QED BY <3>1, Concat
  <2> HIDE DEF c
  <2> QED BY <1>4, <1>5, <2>1
<1> HIDE DEF c
<1>7. ASSUME NEW n \in 2 .. Len(c)
      PROVE  /\ c[n].kind = "Kustomization"
             /\ c[n - 1].kind = "Kustomization" =>
                  \E p \in PathsIn(S, c[n - 1]), q \in PathsIn(S, c[n]) : Maps!IsPrefix(q, p)
  <2>1. n - 1 \in 1 .. Len(chain) /\ c[n] = chain[n - 1]
    <3>1. n - 1 \in 1 .. Len(chain) /\ 1 + (n - 1) = n
      BY <1>4, <1>6
    <3>2. c[1 + (n - 1)] = chain[n - 1]
      BY <1>6, <3>1
    <3> QED BY <3>1, <3>2
  <2>2. CASE n = 2
    <3>1. c[n] = Maps!KItem(k) /\ c[n - 1] = x
      BY <1>1, <1>6, <2>1, <2>2
    <3> QED BY <1>2, <3>1
  <2>3. CASE n # 2
    <3>1. n - 1 \in 2 .. Len(chain) /\ n - 2 \in 1 .. Len(chain) /\ 1 + (n - 2) = n - 1
          /\ (n - 1) - 1 = n - 2
      BY <1>4, <1>6, <2>3
    <3>2. c[1 + (n - 2)] = chain[n - 2]
      BY <1>6, <3>1
    <3>3. /\ chain[n - 1].kind = "Kustomization"
          /\ chain[n - 2].kind = "Kustomization" =>
               \E p \in PathsIn(S, chain[n - 2]), q \in PathsIn(S, chain[n - 1]) :
                 Maps!IsPrefix(q, p)
      BY <1>1, <3>1 DEF Outwards
    <3> QED BY <2>1, <3>1, <3>2, <3>3
  <2> QED BY <2>2, <2>3
<1>8. Len(c) > 0
  BY <1>4, <1>6
<1>9. Outwards(S, c)
  BY <1>6, <1>7, <1>8 DEF Outwards
<1> QED BY <1>3, <1>6, <1>9 DEF x

(* What the Kustomizations and their releases bring.                       *)
LEMMA ClusterSourcesAre ==
  ASSUME NEW S, IsFiniteSet(S), NEW ks \in Maps!Orders(S), NEW i \in MapImages
  PROVE  LET e == Maps!ClusterSources(ks)[i]
         IN /\ e = [sources |-> e.sources, chains |-> e.chains, targets |-> {}]
            /\ \A x : x \in e.sources <=>
                 \/ \E k \in S : i \in k.images /\ x = Maps!KItem(k)
                 \/ \E k \in S : \E h \in k.releases : i \in h.images /\ x = Maps!HItem(h, k)
            /\ \A c : c \in e.chains <=>
                 \/ \E k \in S : i \in k.images /\ c = Maps!KChain(ks, k)
                 \/ \E k \in S : \E h \in k.releases :
                      i \in h.images /\ c = Maps!HChain(ks, h, k)
<1> DEFINE K == {k \in S : i \in k.images}
           H == UNION {{<<h, k>> : h \in {g \in k.releases : i \in g.images}} : k \in S}
           A == {Maps!KItem(k) : k \in K} \cup {Maps!HItem(x[1], x[2]) : x \in H}
           B == {Maps!KChain(ks, k) : k \in K}
                  \cup {Maps!HChain(ks, x[1], x[2]) : x \in H}
           e == Maps!ClusterSources(ks)[i]
<1>1. Maps!ToSet(ks) = S
  BY Listing
<1>2. e = [Maps!Nothing EXCEPT !.sources = A, !.chains = B]
  BY <1>1 DEF Maps!ClusterSources
<1>3. \A h, k : <<h, k>> \in H <=> k \in S /\ h \in k.releases /\ i \in h.images
  OBVIOUS
<1>4. \A x \in H : \E k \in S : \E h \in k.releases : i \in h.images /\ x = <<h, k>>
  OBVIOUS
<1> HIDE DEF H
<1>5. \A x : x \in A <=>
        \/ \E k \in S : i \in k.images /\ x = Maps!KItem(k)
        \/ \E k \in S : \E h \in k.releases : i \in h.images /\ x = Maps!HItem(h, k)
  <2>1. ASSUME NEW y \in H
        PROVE  \E k \in S : \E h \in k.releases :
                 i \in h.images /\ Maps!HItem(y[1], y[2]) = Maps!HItem(h, k)
    BY <1>4
  <2>2. ASSUME NEW k \in S, NEW h \in k.releases, i \in h.images
        PROVE  \E y \in H : Maps!HItem(y[1], y[2]) = Maps!HItem(h, k)
    <3>1. <<h, k>> \in H /\ <<h, k>>[1] = h /\ <<h, k>>[2] = k
      BY <1>3, <2>2
    <3> QED BY <3>1
  <2> QED BY <2>1, <2>2
<1>6. \A c : c \in B <=>
        \/ \E k \in S : i \in k.images /\ c = Maps!KChain(ks, k)
        \/ \E k \in S : \E h \in k.releases : i \in h.images /\ c = Maps!HChain(ks, h, k)
  <2>1. ASSUME NEW y \in H
        PROVE  \E k \in S : \E h \in k.releases :
                 i \in h.images /\ Maps!HChain(ks, y[1], y[2]) = Maps!HChain(ks, h, k)
    BY <1>4
  <2>2. ASSUME NEW k \in S, NEW h \in k.releases, i \in h.images
        PROVE  \E y \in H : Maps!HChain(ks, y[1], y[2]) = Maps!HChain(ks, h, k)
    <3>1. <<h, k>> \in H /\ <<h, k>>[1] = h /\ <<h, k>>[2] = k
      BY <1>3, <2>2
    <3> QED BY <3>1
  <2> QED BY <2>1, <2>2
<1> HIDE DEF A, B, e
<1>7. e = [sources |-> A, chains |-> B, targets |-> {}]
  BY <1>2 DEF Maps!Nothing
<1>8. e.sources = A /\ e.chains = B
  BY <1>7
<1> QED BY <1>5, <1>6, <1>7, <1>8 DEF e

(* What an image has is sound.                                             *)
Entries == [sources : SUBSET Maps!Item_, chains : SUBSET Seq(Maps!Item_),
            targets : SUBSET Maps!Item_]
Begins(objects, i, e, c) ==
  \/ c[1] \in e.sources
  \/ \E o \in objects : i \in o.annotated /\ <<c[1].ns, c[1].name>> \in {o.release, o.owner}
Sound(S, objects, i, e) ==
  /\ e \in Entries /\ (e.sources = {}) = (e.chains = {})
  /\ \A c \in e.chains : Outwards(S, c) /\ Begins(objects, i, e, c)
SoundMap(S, objects, map) ==
  DOMAIN map = MapImages /\ \A i \in MapImages : Sound(S, objects, i, map[i])
Unmanned(map) == \A i \in MapImages : Maps!Manual \notin map[i].sources \cup map[i].targets

(* What the Kustomizations and their releases bring is sound.              *)
LEMMA SourcesSound ==
  ASSUME NEW S \in SUBSET Maps!Kustomizations, IsFiniteSet(S), NEW ks \in Maps!Orders(S),
         NEW objects
  PROVE  LET map == Maps!ClusterSources(ks)
         IN SoundMap(S, objects, map) /\ Unmanned(map)
<1> DEFINE map == Maps!ClusterSources(ks)
<1>1. DOMAIN map = MapImages
  BY DEF Maps!ClusterSources
<1> HIDE DEF map
<1>2. ASSUME NEW i \in MapImages
      PROVE  /\ Sound(S, objects, i, map[i])
             /\ Maps!Manual \notin map[i].sources \cup map[i].targets
  <2> DEFINE e == map[i]
  <2>1. /\ e = [sources |-> e.sources, chains |-> e.chains, targets |-> {}]
        /\ \A x : x \in e.sources <=>
             \/ \E k \in S : i \in k.images /\ x = Maps!KItem(k)
             \/ \E k \in S : \E h \in k.releases : i \in h.images /\ x = Maps!HItem(h, k)
        /\ \A c : c \in e.chains <=>
             \/ \E k \in S : i \in k.images /\ c = Maps!KChain(ks, k)
             \/ \E k \in S : \E h \in k.releases :
                  i \in h.images /\ c = Maps!HChain(ks, h, k)
    BY ClusterSourcesAre DEF map
  <2> HIDE DEF e
  <2>2. \A k \in S : /\ Maps!KItem(k) \in Maps!Item_ /\ Maps!KItem(k).kind = "Kustomization"
                     /\ Outwards(S, Maps!KChain(ks, k))
                     /\ Maps!KChain(ks, k)[1] = Maps!KItem(k)
    BY KItems, KChainIs
  <2>3. \A k \in S : \A h \in k.releases :
          /\ Maps!HItem(h, k) \in Maps!Item_ /\ Maps!HItem(h, k).kind = "HelmRelease"
          /\ Outwards(S, Maps!HChain(ks, h, k))
          /\ Maps!HChain(ks, h, k)[1] = Maps!HItem(h, k)
    <3>1. \A k \in S : k.releases \subseteq Maps!Releases
      BY DEF Maps!Kustomizations
    <3> QED BY <3>1, HItems, HChainIs
  <2>4. \A x \in e.sources : x \in Maps!Item_ /\ x.kind \in {"Kustomization", "HelmRelease"}
    BY <2>1, <2>2, <2>3
  <2>5. \A c \in e.chains : Outwards(S, c) /\ c[1] \in e.sources
    BY <2>1, <2>2, <2>3
  <2>6. (e.sources = {}) = (e.chains = {})
    <3>1. ASSUME e.sources # {}  PROVE e.chains # {}
      BY <2>1, <3>1
    <3>2. ASSUME e.chains # {}  PROVE e.sources # {}
      BY <2>1, <3>2
    <3> QED BY <3>1, <3>2
  <2>7. e \in Entries
    <3>1. e.sources \in SUBSET Maps!Item_ /\ e.chains \in SUBSET Seq(Maps!Item_)
      BY <2>4, <2>5 DEF Outwards
    <3> QED BY <2>1, <3>1 DEF Entries
  <2>8. Maps!Manual \notin e.sources \cup e.targets
    <3>1. Maps!Manual.kind = "ExtraImage" /\ e.targets = {}
      BY <2>1 DEF Maps!Manual
    <3> QED BY <2>4, <3>1
  <2> QED BY <2>5, <2>6, <2>7, <2>8 DEF Sound, Begins, e
<1> QED BY <1>1, <1>2 DEF SoundMap, Unmanned, map

(* The pass over the workloads adds targets.                               *)
LEMMA TargetsSound ==
  ASSUME NEW S, NEW objects \in SUBSET Maps!Objects,
         \A o \in objects : o.kind # "ExtraImage", NEW map, SoundMap(S, objects, map),
         Unmanned(map)
  PROVE  LET m == Maps!Targets(map, objects)
         IN SoundMap(S, objects, m) /\ Unmanned(m)
<1> DEFINE m == Maps!Targets(map, objects)
           T(i) == {Maps!Item(o.kind, o) :
                     o \in {w \in objects : w.kind \in Maps!Workloads /\ i \in w.images}}
<1>1. \A i \in MapImages : m[i] = [map[i] EXCEPT !.targets = @ \cup T(i)]
  BY DEF Maps!Targets
<1>2. DOMAIN m = MapImages
  BY DEF Maps!Targets
<1>3. ASSUME NEW i \in MapImages  PROVE T(i) \in SUBSET Maps!Item_ /\ Maps!Manual \notin T(i)
  <2>1. \A x \in T(i) : x \in Maps!Item_ /\ x.kind # "ExtraImage"
    BY OItems
  <2>2. Maps!Manual.kind = "ExtraImage"
    BY DEF Maps!Manual
  <2> QED BY <2>1, <2>2
<1> HIDE DEF m, T
<1>4. ASSUME NEW i \in MapImages
      PROVE  /\ Sound(S, objects, i, m[i])
             /\ Maps!Manual \notin m[i].sources \cup m[i].targets
  <2>1. /\ Sound(S, objects, i, map[i])
        /\ Maps!Manual \notin map[i].sources \cup map[i].targets
    BY DEF SoundMap, Unmanned
  <2>2. /\ m[i] = [sources |-> map[i].sources, chains |-> map[i].chains,
                   targets |-> map[i].targets \cup T(i)]
        /\ map[i] \in Entries
    BY <1>1, <2>1 DEF Sound, Entries
  <2>3. /\ m[i] \in Entries /\ m[i].sources = map[i].sources /\ m[i].chains = map[i].chains
        /\ m[i].targets = map[i].targets \cup T(i)
    BY <1>3, <2>2 DEF Entries
  <2> QED BY <1>3, <2>1, <2>3 DEF Sound, Begins
<1> QED BY <1>2, <1>4 DEF SoundMap, Unmanned, m

(* A chain of one item leads nowhere.                                      *)
LEMMA OneLink ==
  ASSUME NEW S, NEW x \in Maps!Item_
  PROVE  Outwards(S, <<x>>) /\ <<x>>[1] = x
<1> DEFINE c == <<x>>
<1>1. c \in Seq(Maps!Item_) /\ Len(c) = 1 /\ c[1] = x
  BY OneMember
<1> HIDE DEF c
<1>2. Len(c) > 0 /\ \A n \in 2 .. Len(c) : FALSE
  BY <1>1
<1>3. Outwards(S, c) /\ c[1] = x
  BY <1>1, <1>2 DEF Outwards
<1> QED BY <1>3 DEF c

(* The chains of an annotated object: of its owner, or of itself.          *)
LEMMA OwnersAre ==
  ASSUME NEW S \in SUBSET Maps!Kustomizations, IsFiniteSet(S), NEW ks \in Maps!Orders(S),
         NEW o \in Maps!Objects
  PROVE  /\ Maps!OwnerChain(ks, o) # {}
         /\ \A c \in Maps!OwnerChain(ks, o) :
              /\ Outwards(S, c)
              /\ \/ c[1] = Maps!Item(o.kind, o)
                 \/ <<c[1].ns, c[1].name>> \in {o.release, o.owner}
<1> DEFINE HC == Maps!HChainsOf(ks, o.release)
           KC == Maps!KChainsOf(ks, o.owner)
           x == Maps!Item(o.kind, o)
<1>1. \A n \in DOMAIN ks : ks[n] \in S /\ ks[n] \in Maps!Kustomizations
  BY Listing
<1>2. ASSUME NEW c \in HC
      PROVE  Outwards(S, c) /\ <<c[1].ns, c[1].name>> = o.release
  <2>1. PICK n \in DOMAIN ks : \E h \in Maps!ReleasesNamed(ks[n], o.release) :
                                 c = Maps!HChain(ks, h, ks[n])
    BY <1>2 DEF Maps!HChainsOf, Maps!Newest
  <2>2. PICK h \in ks[n].releases : /\ c = Maps!HChain(ks, h, ks[n])
                                    /\ <<Maps!HItem(h, ks[n]).ns, h.name>> = o.release
    BY <2>1 DEF Maps!ReleasesNamed
  <2>3. h \in Maps!Releases /\ ks[n] \in S /\ ks[n] \in Maps!Kustomizations
    BY <1>1, <2>1, <2>2 DEF Maps!Kustomizations
  <2>4. /\ Outwards(S, Maps!HChain(ks, h, ks[n]))
        /\ Maps!HChain(ks, h, ks[n])[1] = Maps!HItem(h, ks[n])
    BY <2>3, HChainIs
  <2>5. Maps!HItem(h, ks[n]).name = h.name
    BY <2>3, HItems
  <2> QED BY <2>2, <2>4, <2>5
<1>3. ASSUME NEW c \in KC
      PROVE  Outwards(S, c) /\ <<c[1].ns, c[1].name>> = o.owner
  <2>1. PICK n \in DOMAIN ks : /\ <<Maps!Namespace(ks[n]), ks[n].name>> = o.owner
                               /\ c = Maps!KChain(ks, ks[n])
    BY <1>3 DEF Maps!KChainsOf, Maps!Newest
  <2>2. /\ Outwards(S, Maps!KChain(ks, ks[n]))
        /\ Maps!KChain(ks, ks[n])[1] = Maps!KItem(ks[n])
    BY <1>1, KChainIs
  <2>3. /\ Maps!KItem(ks[n]).ns = Maps!Namespace(ks[n])
        /\ Maps!KItem(ks[n]).name = ks[n].name
    BY <1>1, KItems
  <2> QED BY <2>1, <2>2, <2>3
<1>4. Outwards(S, <<x>>) /\ <<x>>[1] = x
  BY OItems, OneLink
<1>5. Maps!OwnerChain(ks, o) = IF HC # {} THEN HC ELSE IF KC # {} THEN KC ELSE {<<x>>}
  BY DEF Maps!OwnerChain
<1> HIDE DEF HC, KC, x
<1> QED BY <1>2, <1>3, <1>4, <1>5 DEF x

(* The pass over the annotations adds sources and the chains of owners.    *)
LEMMA AnnotationsSound ==
  ASSUME NEW S \in SUBSET Maps!Kustomizations, IsFiniteSet(S), NEW ks \in Maps!Orders(S),
         NEW objects \in SUBSET Maps!Objects,
         \A o \in objects : o.kind # "ExtraImage", NEW map, SoundMap(S, objects, map),
         Unmanned(map)
  PROVE  LET m == Maps!Annotations(map, ks, objects)
         IN SoundMap(S, objects, m) /\ Unmanned(m)
<1> DEFINE m == Maps!Annotations(map, ks, objects)
           A(i) == {o \in objects : i \in o.annotated}
           X(i) == {Maps!Item(o.kind, o) : o \in A(i)}
           C(i) == UNION {Maps!OwnerChain(ks, o) : o \in A(i)}
<1>1. \A i \in MapImages : m[i] = [map[i] EXCEPT !.sources = @ \cup X(i),
                                                 !.chains = @ \cup C(i)]
  BY DEF Maps!Annotations
<1>2. DOMAIN m = MapImages
  BY DEF Maps!Annotations
<1>3. ASSUME NEW i \in MapImages  PROVE X(i) \in SUBSET Maps!Item_ /\ Maps!Manual \notin X(i)
  <2>1. \A x \in X(i) : x \in Maps!Item_ /\ x.kind # "ExtraImage"
    BY OItems
  <2>2. Maps!Manual.kind = "ExtraImage"
    BY DEF Maps!Manual
  <2> QED BY <2>1, <2>2
<1>4. ASSUME NEW i \in MapImages, NEW c \in C(i)
      PROVE  /\ Outwards(S, c)
             /\ \/ c[1] \in X(i)
                \/ \E o \in objects : /\ i \in o.annotated
                                      /\ <<c[1].ns, c[1].name>> \in {o.release, o.owner}
  <2>1. PICK o \in A(i) : c \in Maps!OwnerChain(ks, o)
    BY <1>4
  <2>2. o \in Maps!Objects /\ o \in objects /\ i \in o.annotated
    BY <2>1
  <2>3. /\ Outwards(S, c)
        /\ \/ c[1] = Maps!Item(o.kind, o)
           \/ <<c[1].ns, c[1].name>> \in {o.release, o.owner}
    BY <2>1, <2>2, OwnersAre
  <2> QED BY <2>1, <2>2, <2>3
<1>5. ASSUME NEW i \in MapImages  PROVE (X(i) = {}) <=> (C(i) = {})
  <2>1. \A o \in A(i) : Maps!OwnerChain(ks, o) # {}
    BY OwnersAre
  <2>2. ASSUME NEW o \in A(i)  PROVE X(i) # {} /\ C(i) # {}
    <3>1. Maps!Item(o.kind, o) \in X(i)
      OBVIOUS
    <3>2. PICK c \in Maps!OwnerChain(ks, o) : TRUE
      BY <2>1
    <3>3. c \in C(i)
      BY <3>2
    <3> QED BY <3>1, <3>3
  <2>3. ASSUME A(i) = {}  PROVE X(i) = {} /\ C(i) = {}
    BY <2>3
  <2> HIDE DEF A, X, C
  <2> QED BY <2>2, <2>3
<1> HIDE DEF m, X, C, A
<1>6. ASSUME NEW i \in MapImages
      PROVE  /\ Sound(S, objects, i, m[i])
             /\ Maps!Manual \notin m[i].sources \cup m[i].targets
  <2> DEFINE e == map[i]
             f == m[i]
  <2>1. Sound(S, objects, i, e) /\ Maps!Manual \notin e.sources \cup e.targets
    BY DEF SoundMap, Unmanned
  <2>2. f = [e EXCEPT !.sources = @ \cup X(i), !.chains = @ \cup C(i)]
    BY <1>1
  <2> HIDE DEF e, f
  <2>3. /\ f = [sources |-> e.sources \cup X(i), chains |-> e.chains \cup C(i),
                targets |-> e.targets]
        /\ e \in Entries
    BY <2>1, <2>2 DEF Sound, Entries
  <2>4. /\ f.sources = e.sources \cup X(i) /\ f.chains = e.chains \cup C(i)
        /\ f.targets = e.targets
    BY <2>3
  <2>5. C(i) \in SUBSET Seq(Maps!Item_)
    BY <1>4 DEF Outwards
  <2>6. f \in Entries
    BY <1>3, <2>3, <2>5 DEF Entries
  <2>7. (f.sources = {}) = (f.chains = {})
    <3>1. (e.sources = {}) = (e.chains = {})
      BY <2>1 DEF Sound
    <3>2. f.sources = {} <=> e.sources = {} /\ X(i) = {}
      BY <2>4
    <3>3. f.chains = {} <=> e.chains = {} /\ C(i) = {}
      BY <2>4
    <3> QED BY <1>5, <3>1, <3>2, <3>3
  <2>8. ASSUME NEW c \in f.chains  PROVE Outwards(S, c) /\ Begins(objects, i, f, c)
    <3>1. CASE c \in e.chains
      BY <2>1, <2>4, <3>1 DEF Sound, Begins
    <3>2. CASE c \in C(i)
      BY <1>4, <2>4, <3>2 DEF Begins
    <3> QED BY <2>4, <2>8, <3>1, <3>2
  <2>9. Sound(S, objects, i, f)
    BY <2>6, <2>7, <2>8 DEF Sound
  <2>10. Maps!Manual \notin f.sources \cup f.targets
    BY <1>3, <2>1, <2>4
  <2> QED BY <2>9, <2>10 DEF f
<1> QED BY <1>2, <1>6 DEF SoundMap, Unmanned, m

(* The filter takes whole images away.                                     *)
LEMMA FilteredSound ==
  ASSUME NEW S, NEW objects, NEW map, SoundMap(S, objects, map), NEW allowed
  PROVE  SoundMap(S, objects, Maps!Filtered(map, allowed))
<1>1. \A i \in MapImages : Sound(S, objects, i, Maps!Nothing)
  BY DEF Sound, Entries, Maps!Nothing
<1> QED BY <1>1 DEF SoundMap, Maps!Filtered

(* What is given by hand is its own source.                                *)
LEMMA ExtraSound ==
  ASSUME NEW S, NEW objects, NEW map, SoundMap(S, objects, map), NEW by
  PROVE  SoundMap(S, objects, Maps!Extra(map, by))
<1> DEFINE m == Maps!Extra(map, by)
           x == Maps!Manual
           c == <<x>>
<1>1. DOMAIN m = MapImages
  BY DEF Maps!Extra
<1>2. \A i \in MapImages :
        m[i] = IF i \notin by THEN map[i]
               ELSE [map[i] EXCEPT !.sources = @ \cup {x}, !.chains = @ \cup {c}]
  BY DEF Maps!Extra
<1>3. x \in Maps!Item_
  BY MapAssumption DEF Maps!Manual, Maps!Item_
<1>4. Outwards(S, c) /\ c[1] = x
  BY <1>3, OneLink
<1> HIDE DEF m, x, c
<1>5. ASSUME NEW i \in MapImages  PROVE Sound(S, objects, i, m[i])
  <2> DEFINE e == map[i]
             f == m[i]
  <2>1. Sound(S, objects, i, e)
    BY DEF SoundMap
  <2>2. CASE i \notin by
    BY <1>2, <2>1, <2>2
  <2>3. CASE i \in by
    <3>1. f = [e EXCEPT !.sources = @ \cup {x}, !.chains = @ \cup {c}]
      BY <1>2, <2>3
    <3> HIDE DEF e, f
    <3>2. /\ f = [sources |-> e.sources \cup {x}, chains |-> e.chains \cup {c},
                  targets |-> e.targets]
          /\ e \in Entries
      BY <2>1, <3>1 DEF Sound, Entries
    <3>3. f.sources = e.sources \cup {x} /\ f.chains = e.chains \cup {c}
      BY <3>2
    <3>4. c \in Seq(Maps!Item_)
      BY <1>4 DEF Outwards
    <3>5. f \in Entries
      BY <1>3, <3>2, <3>4 DEF Entries
    <3>6. (f.sources = {}) = (f.chains = {})
      BY <3>3
    <3>7. \A d \in f.chains : Outwards(S, d) /\ Begins(objects, i, f, d)
      BY <1>4, <2>1, <3>3 DEF Sound, Begins
    <3>8. Sound(S, objects, i, f)
      BY <3>5, <3>6, <3>7 DEF Sound
    <3> QED BY <3>8 DEF f
  <2> QED BY <2>2, <2>3
<1> QED BY <1>1, <1>5 DEF SoundMap, m

(* The map before each pass, for a listing ks.                             *)
Empty == [i \in MapImages |-> Maps!Nothing]
Held(ks) == Maps!Targets(Maps!ClusterSources(ks), input.objects)
Said(ks) == Maps!Annotations(Held(ks), ks, input.objects)
Kept(ks) == Maps!Filtered(Said(ks), input.allowed)
Made(ks) == Maps!Extra(Kept(ks), input.extra)

MapInv ==
  /\ input \in MapInputs /\ listed \in Maps!Orders(input.ks)
  /\ \/ mapPhase = "sources" /\ imageMap = Empty
     \/ mapPhase = "targets" /\ imageMap = Maps!ClusterSources(listed)
     \/ mapPhase = "annotations" /\ imageMap = Held(listed)
     \/ mapPhase = "filter" /\ imageMap = Said(listed)
     \/ mapPhase = "extra" /\ imageMap = Kept(listed)
     \/ mapPhase = "done" /\ imageMap = Made(listed)

(* The map is what the passes so far make of the listing.                  *)
LEMMA MapInvariance == Maps!Spec => []MapInv
<1>1. Maps!Init => MapInv
  BY DEF Maps!Init, MapInv, Empty
<1>2. MapInv /\ [Maps!Next]_(Maps!vars) => MapInv'
  <2> SUFFICES ASSUME MapInv, [Maps!Next]_(Maps!vars)  PROVE MapInv'
    OBVIOUS
  <2>1. CASE Maps!ProcessClusterSources
    BY <2>1 DEF MapInv, Maps!ProcessClusterSources, Maps!Pass
  <2>2. CASE Maps!ProcessManifestTargets
    BY <2>2 DEF MapInv, Maps!ProcessManifestTargets, Maps!Pass, Held
  <2>3. CASE Maps!ProcessAnnotationImages
    BY <2>3 DEF MapInv, Maps!ProcessAnnotationImages, Maps!Pass, Held, Said
  <2>4. CASE Maps!FilterByNamespace
    BY <2>4 DEF MapInv, Maps!FilterByNamespace, Maps!Pass, Held, Said, Kept
  <2>5. CASE Maps!ProcessExtraImages
    BY <2>5 DEF MapInv, Maps!ProcessExtraImages, Maps!Pass, Held, Said, Kept, Made
  <2>6. CASE UNCHANGED Maps!vars
    BY <2>6 DEF MapInv, Maps!vars, Empty, Held, Said, Kept, Made
  <2> QED BY <2>1, <2>2, <2>3, <2>4, <2>5, <2>6 DEF Maps!Next
<1> QED BY <1>1, <1>2, PTL DEF Maps!Spec

(* What the manifests say is sound, and none of it is by hand.             *)
LEMMA SaidSound ==
  ASSUME input \in MapInputs, NEW ks \in Maps!Orders(input.ks)
  PROVE  LET S == input.ks
             objects == input.objects
         IN /\ SoundMap(S, objects, Maps!ClusterSources(ks))
            /\ SoundMap(S, objects, Held(ks)) /\ SoundMap(S, objects, Said(ks))
            /\ Unmanned(Said(ks))
<1> DEFINE S == input.ks
           objects == input.objects
           cluster == Maps!ClusterSources(ks)
<1>1. /\ S \in SUBSET Maps!Kustomizations /\ IsFiniteSet(S)
      /\ objects \in SUBSET Maps!Objects /\ \A o \in objects : o.kind # "ExtraImage"
  BY MapAssumption
<1> HIDE DEF S, objects
<1>2. SoundMap(S, objects, cluster) /\ Unmanned(cluster)
  <2>1. ks \in Maps!Orders(S)
    BY DEF S
  <2> QED BY <1>1, <2>1, SourcesSound
<1> HIDE DEF cluster
<1>3. SoundMap(S, objects, Held(ks)) /\ Unmanned(Held(ks))
  <2>1. Held(ks) = Maps!Targets(cluster, objects)
    BY DEF Held, cluster, objects
  <2> QED BY <1>1, <1>2, <2>1, TargetsSound
<1>4. SoundMap(S, objects, Said(ks)) /\ Unmanned(Said(ks))
  <2>1. Said(ks) = Maps!Annotations(Held(ks), ks, objects) /\ ks \in Maps!Orders(S)
    BY DEF Said, objects, S
  <2> QED BY <1>1, <1>3, <2>1, AnnotationsSound
<1> QED BY <1>2, <1>3, <1>4 DEF S, objects, cluster

(* So is the map before and after every pass.                              *)
LEMMA MapSound == MapInv => SoundMap(input.ks, input.objects, imageMap)
<1> SUFFICES ASSUME MapInv  PROVE SoundMap(input.ks, input.objects, imageMap)
  OBVIOUS
<1>1. input \in MapInputs /\ listed \in Maps!Orders(input.ks)
  BY DEF MapInv
<1>2. /\ SoundMap(input.ks, input.objects, Maps!ClusterSources(listed))
      /\ SoundMap(input.ks, input.objects, Held(listed))
      /\ SoundMap(input.ks, input.objects, Said(listed))
  BY <1>1, SaidSound
<1>3. SoundMap(input.ks, input.objects, Kept(listed))
  BY <1>2, FilteredSound DEF Kept
<1>4. SoundMap(input.ks, input.objects, Made(listed))
  BY <1>3, ExtraSound DEF Made
<1>5. SoundMap(input.ks, input.objects, Empty)
  BY DEF SoundMap, Empty, Sound, Entries, Maps!Nothing
<1> QED BY <1>2, <1>3, <1>4, <1>5 DEF MapInv

(* The end of the passes, image by image.                                  *)
LEMMA FilterSparesHands == MapInv => Maps!OnlyAllowedOrByHand
<1> SUFFICES ASSUME MapInv, mapPhase = "done", NEW i \in MapImages
             PROVE  LET all == Maps!Extra(Said(listed), input.extra)[i]
                        byHand == i \in input.extra
                        wanted == \E x \in (all.sources \cup all.targets) \ {Maps!Manual} :
                                    x.ns \in input.allowed
                    IN imageMap[i] =
                         CASE input.allowed = {} \/ wanted -> all
                           [] byHand /\ ~(input.allowed = {} \/ wanted) ->
                                Maps!Extra([j \in MapImages |-> Maps!Nothing], input.extra)[i]
                           [] OTHER -> Maps!Nothing
  BY DEF Maps!OnlyAllowedOrByHand, Said, Held
<1> DEFINE said == Said(listed)
           e == said[i]
           all == Maps!Extra(said, input.extra)[i]
           none == Maps!Extra([j \in MapImages |-> Maps!Nothing], input.extra)[i]
           byHand == i \in input.extra
           wanted == \E x \in (all.sources \cup all.targets) \ {Maps!Manual} :
                       x.ns \in input.allowed
           here == \E x \in e.sources \cup e.targets : x.ns \in input.allowed
           x == Maps!Manual
           Add(f) == [f EXCEPT !.sources = @ \cup {x}, !.chains = @ \cup {<<x>>}]
<1>1. input \in MapInputs /\ listed \in Maps!Orders(input.ks) /\ imageMap = Made(listed)
  BY DEF MapInv
<1>2. e \in Entries /\ x \notin e.sources \cup e.targets
  <2>1. SoundMap(input.ks, input.objects, said) /\ Unmanned(said)
    BY <1>1, SaidSound
  <2> QED BY <2>1 DEF SoundMap, Sound, Unmanned
<1>3. /\ all = (IF byHand THEN Add(e) ELSE e)
      /\ none = (IF byHand THEN Add(Maps!Nothing) ELSE Maps!Nothing)
  BY DEF Maps!Extra
<1>4. Kept(listed)[i] = (IF input.allowed = {} \/ here THEN e ELSE Maps!Nothing)
  BY DEF Kept, Maps!Filtered
<1>5. imageMap[i] = (IF byHand THEN Add(Kept(listed)[i]) ELSE Kept(listed)[i])
  BY <1>1 DEF Made, Maps!Extra
<1> HIDE DEF said, e, x
<1>6. wanted <=> here
  <2>1. Add(e).sources = e.sources \cup {x} /\ Add(e).targets = e.targets
    <3>1. e = [sources |-> e.sources, chains |-> e.chains, targets |-> e.targets]
      BY <1>2 DEF Entries
    <3> QED BY <3>1
  <2>2. (all.sources \cup all.targets) \ {x} = e.sources \cup e.targets
    BY <1>2, <1>3, <2>1
  <2> QED BY <2>2 DEF x
<1> HIDE DEF all, none, Add, wanted, here
<1>7. imageMap[i] = CASE input.allowed = {} \/ wanted -> all
                       [] byHand /\ ~(input.allowed = {} \/ wanted) -> none
                       [] OTHER -> Maps!Nothing
  <2>1. CASE input.allowed = {} \/ wanted
    <3>1. imageMap[i] = all
      BY <1>3, <1>4, <1>5, <1>6, <2>1
    <3> QED BY <2>1, <3>1
  <2>2. CASE byHand /\ ~(input.allowed = {} \/ wanted)
    <3>1. imageMap[i] = none
      BY <1>3, <1>4, <1>5, <1>6, <2>2
    <3> QED BY <2>2, <3>1
  <2>3. CASE ~byHand /\ ~(input.allowed = {} \/ wanted)
    <3>1. imageMap[i] = Maps!Nothing
      BY <1>3, <1>4, <1>5, <1>6, <2>3
    <3> QED BY <2>3, <3>1
  <2> QED BY <2>1, <2>2, <2>3
<1> QED BY <1>7 DEF all, none, wanted, said

(* Hence the map is true to the manifests.                                 *)
LEMMA TrueMap == MapInv => Maps!MapIsTrue
<1> SUFFICES ASSUME MapInv  PROVE Maps!MapIsTrue
  OBVIOUS
<1>1. SoundMap(input.ks, input.objects, imageMap)
  BY MapSound
<1>2. Maps!TypeOK
  <2>1. ASSUME NEW i \in MapImages
        PROVE  /\ imageMap[i].sources \subseteq Maps!Item_
               /\ imageMap[i].targets \subseteq Maps!Item_
               /\ \A c \in imageMap[i].chains :
                    Len(c) > 0 /\ Maps!ToSet(c) \subseteq Maps!Item_
               /\ (imageMap[i].sources = {}) = (imageMap[i].chains = {})
    <3>1. Sound(input.ks, input.objects, i, imageMap[i])
      BY <1>1 DEF SoundMap
    <3>2. \A c \in Seq(Maps!Item_) : Maps!ToSet(c) \subseteq Maps!Item_
      BY DEF Maps!ToSet
    <3> QED BY <3>1, <3>2 DEF Sound, Entries, Outwards
  <2>2. DOMAIN imageMap = MapImages
    BY <1>1 DEF SoundMap
  <2> QED BY <2>1, <2>2 DEF Maps!TypeOK, MapInv
<1>3. Maps!ChainsLeadOutwards
  <2> SUFFICES ASSUME NEW c \in Maps!Chains, NEW n \in 2 .. Len(c)
               PROVE  /\ c[n].kind = "Kustomization"
                      /\ c[n - 1].kind = "Kustomization" =>
                           \E p \in Maps!PathsOf(c[n - 1]), q \in Maps!PathsOf(c[n]) :
                             Maps!IsPrefix(q, p)
    BY DEF Maps!ChainsLeadOutwards
  <2>1. Outwards(input.ks, c)
    BY <1>1 DEF Maps!Chains, SoundMap, Sound
  <2>2. \A x : Maps!PathsOf(x) = PathsIn(input.ks, x)
    BY DEF Maps!PathsOf, PathsIn
  <2> QED BY <2>1, <2>2 DEF Outwards
<1>4. Maps!ChainsBeginAtSources
  BY <1>1 DEF Maps!ChainsBeginAtSources, SoundMap, Sound, Begins
<1> QED BY <1>2, <1>3, <1>4, FilterSparesHands DEF Maps!MapIsTrue

(* The chains lead outwards and begin at sources, and the filter by        *)
(* namespace spares what is given by hand, for whatever flux-local lists.  *)
THEOREM MapStaysTrue == Maps!Spec => []MapIsTrue
<1>1. MapInv => MapIsTrue
  BY TrueMap DEF MapIsTrue
<1> QED BY <1>1, MapInvariance, PTL

(* What tells the Kustomizations of S apart, whatever their order.         *)
Plain(S) ==
  \A j, k \in S : j # k =>
    /\ j.path = k.path => \A l \in S : k \notin Maps!Above(S, l)
    /\ \A g \in j.releases, h \in k.releases : Maps!HItem(g, j) # Maps!HItem(h, k)
    /\ Maps!KItem(j) # Maps!KItem(k)

(* Then the parents and the chains are the same in every order.            *)
LEMMA SameParents ==
  ASSUME NEW S \in SUBSET Maps!Kustomizations, IsFiniteSet(S), Plain(S),
         NEW ks \in Maps!Orders(S), NEW ls \in Maps!Orders(S), NEW k \in S
  PROVE  Maps!Parents(ks, k) = Maps!Parents(ls, k)
<1> DEFINE above == Maps!Above(S, k)
           N == Cardinality(above)
           upto == Uptos(ks, above)
           ps == Maps!Parents(ks, k)
           qs == Maps!Parents(ls, k)
<1>1. above \in SUBSET S /\ IsFiniteSet(above)
  BY FS_Subset DEF Maps!Above
<1>2. \A p \in S : p.path \in Seq(Directories)
  BY DEF Maps!Kustomizations
<1>3. ASSUME NEW p \in above, NEW q \in above, p # q
      PROVE  Len(p.path) # Len(q.path)
  <2>1. p \in S /\ q \in S /\ p.path # q.path
    BY <1>1, <1>3 DEF Plain
  <2>2. /\ p.path \in Seq(Directories) /\ q.path \in Seq(Directories)
        /\ k.path \in Seq(Directories)
        /\ Maps!IsPrefix(p.path, k.path) /\ Maps!IsPrefix(q.path, k.path)
    BY <1>2, <2>1 DEF Maps!Above
  <2> QED BY <2>1, <2>2, TwoPrefixes
<1> HIDE DEF above
<1>4. \A p, q \in above : p = q \/ (Maps!Before(ks, p, q) <=> Maps!Before(ls, p, q))
  <2>1. \A p \in above : Len(p.path) \in Nat
    BY <1>1, <1>2
  <2> QED BY <1>3, <2>1 DEF Maps!Before
<1>5. upto = Uptos(ls, above)
  <2>1. ASSUME NEW q \in above
        PROVE  {p \in above : p = q \/ Maps!Before(ks, p, q)}
                 = {p \in above : p = q \/ Maps!Before(ls, p, q)}
    BY <1>4
  <2> QED BY <2>1 DEF Uptos
<1>6. /\ N \in Nat /\ ps \in [1 .. N -> above] /\ qs \in [1 .. N -> above]
      /\ \A n \in 1 .. N : Cardinality(upto[ps[n]]) = n /\ Cardinality(upto[qs[n]]) = n
  <2>1. /\ N \in Nat /\ ps \in [1 .. N -> above]
        /\ \A n \in 1 .. N : Cardinality(upto[ps[n]]) = n
    BY ParentsNumbered DEF above
  <2>2. /\ qs \in [1 .. N -> above]
        /\ \A n \in 1 .. N : Cardinality(Uptos(ls, above)[qs[n]]) = n
    BY ParentsNumbered DEF above
  <2> HIDE DEF ps, qs, upto
  <2> QED BY <1>5, <2>1, <2>2
<1>7. /\ upto \in [above -> SUBSET above]
      /\ \A x \in above : x \in upto[x]
      /\ \A x, y \in above : x # y => (x \in upto[y] <=> y \notin upto[x])
      /\ \A x, y \in above : x \in upto[y] => upto[x] \subseteq upto[y]
  BY <1>1, UptosAre
<1> HIDE DEF upto, ps, qs
<1>8. \A x, y \in above : Cardinality(upto[x]) = Cardinality(upto[y]) => x = y
  BY <1>1, <1>7, OrderNumbers
<1>9. \A n \in 1 .. N : ps[n] = qs[n]
  BY <1>6, <1>8
<1> QED BY <1>6, <1>9 DEF ps, qs

(* So are the chains that begin with a Kustomization or with a release.    *)
LEMMA SameChains ==
  ASSUME NEW S \in SUBSET Maps!Kustomizations, IsFiniteSet(S), Plain(S),
         NEW ks \in Maps!Orders(S), NEW ls \in Maps!Orders(S), NEW k \in S
  PROVE  /\ Maps!KChain(ks, k) = Maps!KChain(ls, k)
         /\ \A h : Maps!HChain(ks, h, k) = Maps!HChain(ls, h, k)
<1>1. Maps!Parents(ks, k) = Maps!Parents(ls, k)
  BY SameParents
<1>2. Maps!KChain(ks, k) = Maps!KChain(ls, k)
  BY <1>1 DEF Maps!KChain
<1> QED BY <1>2 DEF Maps!HChain

(* So is what the Kustomizations and releases bring.                       *)
LEMMA SameClusterSources ==
  ASSUME NEW S \in SUBSET Maps!Kustomizations, IsFiniteSet(S), Plain(S),
         NEW ks \in Maps!Orders(S), NEW ls \in Maps!Orders(S)
  PROVE  Maps!ClusterSources(ks) = Maps!ClusterSources(ls)
<1> DEFINE a == Maps!ClusterSources(ks)
           b == Maps!ClusterSources(ls)
<1>1. a = [i \in MapImages |-> a[i]] /\ b = [i \in MapImages |-> b[i]]
  BY DEF Maps!ClusterSources
<1>2. ASSUME NEW i \in MapImages  PROVE a[i] = b[i]
  <2> DEFINE e == a[i]
             f == b[i]
  <2>1. /\ e = [sources |-> e.sources, chains |-> e.chains, targets |-> {}]
        /\ \A x : x \in e.sources <=>
             \/ \E k \in S : i \in k.images /\ x = Maps!KItem(k)
             \/ \E k \in S : \E h \in k.releases : i \in h.images /\ x = Maps!HItem(h, k)
        /\ \A c : c \in e.chains <=>
             \/ \E k \in S : i \in k.images /\ c = Maps!KChain(ks, k)
             \/ \E k \in S : \E h \in k.releases :
                  i \in h.images /\ c = Maps!HChain(ks, h, k)
    BY ClusterSourcesAre
  <2>2. /\ f = [sources |-> f.sources, chains |-> f.chains, targets |-> {}]
        /\ \A x : x \in f.sources <=>
             \/ \E k \in S : i \in k.images /\ x = Maps!KItem(k)
             \/ \E k \in S : \E h \in k.releases : i \in h.images /\ x = Maps!HItem(h, k)
        /\ \A c : c \in f.chains <=>
             \/ \E k \in S : i \in k.images /\ c = Maps!KChain(ls, k)
             \/ \E k \in S : \E h \in k.releases :
                  i \in h.images /\ c = Maps!HChain(ls, h, k)
    BY ClusterSourcesAre
  <2>3. \A k \in S : /\ Maps!KChain(ks, k) = Maps!KChain(ls, k)
                     /\ \A h : Maps!HChain(ks, h, k) = Maps!HChain(ls, h, k)
    BY SameChains
  <2> HIDE DEF e, f
  <2>4. e.sources = f.sources
    BY <2>1, <2>2
  <2>5. e.chains = f.chains
    <3>1. \A c : c \in e.chains <=> c \in f.chains
      BY <2>1, <2>2, <2>3
    <3> QED BY <3>1
  <2>6. e = f
    BY <2>1, <2>2, <2>4, <2>5
  <2> QED BY <2>6 DEF e, f
<1> HIDE DEF a, b
<1>3. a = b
  BY <1>1, <1>2
<1> QED BY <1>3 DEF a, b

(* Of one place all of it counts.                                          *)
LEMMA OneIsNewest ==
  ASSUME NEW T \in SUBSET Nat, \A m, n \in T : m = n
  PROVE  Maps!Newest(T) = T
<1>1. ASSUME NEW n \in T, NEW m \in T  PROVE m <= n
  <2>1. n \in Nat /\ m = n
    OBVIOUS
  <2> QED BY <2>1
<1> QED BY <1>1 DEF Maps!Newest

(* The chains of the Kustomization that a label names.                     *)
LEMMA KChainsAre ==
  ASSUME NEW S \in SUBSET Maps!Kustomizations, IsFiniteSet(S), Plain(S),
         NEW ks \in Maps!Orders(S), NEW id, NEW c
  PROVE  c \in Maps!KChainsOf(ks, id) <=>
           \E k \in S : <<Maps!Namespace(k), k.name>> = id /\ c = Maps!KChain(ks, k)
<1> DEFINE T == {m \in DOMAIN ks : <<Maps!Namespace(ks[m]), ks[m].name>> = id}
<1>1. /\ DOMAIN ks \in SUBSET Nat
      /\ \A n \in DOMAIN ks : ks[n] \in S
      /\ \A m, n \in DOMAIN ks : ks[m] = ks[n] => m = n
      /\ \A k \in S : \E n \in DOMAIN ks : ks[n] = k
  <2>1. DOMAIN ks = 1 .. Cardinality(S) /\ Cardinality(S) \in Nat
    BY Listing
  <2>2. DOMAIN ks \in SUBSET Nat
    BY <2>1
  <2> QED BY <2>2, Listing
<1>2. ASSUME NEW m \in T, NEW n \in T  PROVE m = n
  <2>1. /\ Maps!Namespace(ks[m]) = Maps!Namespace(ks[n])
        /\ ks[m].name = ks[n].name
    <3>1. <<Maps!Namespace(ks[m]), ks[m].name>> = <<Maps!Namespace(ks[n]), ks[n].name>>
      OBVIOUS
    <3> QED BY <3>1
  <2>2. Maps!KItem(ks[m]) = Maps!KItem(ks[n])
    BY <2>1 DEF Maps!KItem, Maps!Item
  <2>3. ks[m] = ks[n]
    BY <1>1, <2>2 DEF Plain
  <2> QED BY <1>1, <2>3
<1>3. Maps!KChainsOf(ks, id) = {Maps!KChain(ks, ks[n]) : n \in Maps!Newest(T)}
  BY DEF Maps!KChainsOf
<1>4. T \in SUBSET Nat
  BY <1>1
<1> HIDE DEF T
<1>5. Maps!Newest(T) = T
  BY <1>2, <1>4, OneIsNewest
<1>6. c \in Maps!KChainsOf(ks, id) <=> \E n \in T : c = Maps!KChain(ks, ks[n])
  BY <1>3, <1>5
<1>7. ASSUME NEW k \in S, <<Maps!Namespace(k), k.name>> = id
      PROVE  \E n \in T : ks[n] = k
  BY <1>1, <1>7 DEF T
<1>8. \A n \in T : ks[n] \in S /\ <<Maps!Namespace(ks[n]), ks[n].name>> = id
  BY <1>1 DEF T
<1> QED BY <1>6, <1>7, <1>8

(* The chains of the release that a label names.                           *)
LEMMA HChainsAre ==
  ASSUME NEW S \in SUBSET Maps!Kustomizations, IsFiniteSet(S), Plain(S),
         NEW ks \in Maps!Orders(S), NEW id, NEW c
  PROVE  c \in Maps!HChainsOf(ks, id) <=>
           \E k \in S : \E h \in Maps!ReleasesNamed(k, id) : c = Maps!HChain(ks, h, k)
<1> DEFINE T == {m \in DOMAIN ks : Maps!ReleasesNamed(ks[m], id) # {}}
<1>1. /\ DOMAIN ks \in SUBSET Nat
      /\ \A n \in DOMAIN ks : ks[n] \in S
      /\ \A m, n \in DOMAIN ks : ks[m] = ks[n] => m = n
      /\ \A k \in S : \E n \in DOMAIN ks : ks[n] = k
  <2>1. DOMAIN ks = 1 .. Cardinality(S) /\ Cardinality(S) \in Nat
    BY Listing
  <2>2. DOMAIN ks \in SUBSET Nat
    BY <2>1
  <2> QED BY <2>2, Listing
<1>2. ASSUME NEW m \in T, NEW n \in T  PROVE m = n
  <2> DEFINE j == ks[m]
             k == ks[n]
  <2>1. j \in S /\ k \in S
    BY <1>1
  <2>2. PICK g \in Maps!ReleasesNamed(j, id) : TRUE
    OBVIOUS
  <2>3. PICK h \in Maps!ReleasesNamed(k, id) : TRUE
    OBVIOUS
  <2> HIDE DEF j, k
  <2>4. /\ g \in j.releases /\ h \in k.releases
        /\ <<Maps!HItem(g, j).ns, g.name>> = <<Maps!HItem(h, k).ns, h.name>>
    BY <2>2, <2>3 DEF Maps!ReleasesNamed
  <2>5. Maps!HItem(g, j).ns = Maps!HItem(h, k).ns /\ g.name = h.name
    BY <2>4
  <2>6. /\ Maps!HItem(g, j).name = g.name /\ Maps!HItem(h, k).name = h.name
        /\ Maps!HItem(g, j).kind = "HelmRelease" /\ Maps!HItem(h, k).kind = "HelmRelease"
        /\ Maps!HItem(g, j) \in Maps!Item_ /\ Maps!HItem(h, k) \in Maps!Item_
    <3>1. g \in Maps!Releases /\ h \in Maps!Releases
      BY <2>1, <2>4 DEF Maps!Kustomizations
    <3> QED BY <2>1, <3>1, HItems
  <2>7. Maps!HItem(g, j) = Maps!HItem(h, k)
    BY <2>5, <2>6 DEF Maps!Item_
  <2>8. j = k
    BY <2>1, <2>4, <2>7 DEF Plain
  <2> QED BY <1>1, <2>8 DEF j, k
<1>3. Maps!HChainsOf(ks, id) =
        UNION {{Maps!HChain(ks, h, ks[n]) : h \in Maps!ReleasesNamed(ks[n], id)} :
                 n \in Maps!Newest(T)}
  BY DEF Maps!HChainsOf
<1>4. T \in SUBSET Nat
  BY <1>1
<1> HIDE DEF T
<1>5. Maps!Newest(T) = T
  BY <1>2, <1>4, OneIsNewest
<1>6. c \in Maps!HChainsOf(ks, id) <=>
        \E n \in T : \E h \in Maps!ReleasesNamed(ks[n], id) : c = Maps!HChain(ks, h, ks[n])
  BY <1>3, <1>5
<1>7. ASSUME NEW k \in S, NEW h \in Maps!ReleasesNamed(k, id)
      PROVE  \E n \in T : ks[n] = k
  BY <1>1 DEF T
<1>8. \A n \in T : ks[n] \in S
  BY <1>1 DEF T
<1> QED BY <1>6, <1>7, <1>8

(* The owners of an annotated object are the same in every order.          *)
LEMMA SameOwners ==
  ASSUME NEW S \in SUBSET Maps!Kustomizations, IsFiniteSet(S), Plain(S),
         NEW ks \in Maps!Orders(S), NEW ls \in Maps!Orders(S), NEW o
  PROVE  Maps!OwnerChain(ks, o) = Maps!OwnerChain(ls, o)
<1>1. \A k \in S : /\ Maps!KChain(ks, k) = Maps!KChain(ls, k)
                   /\ \A h : Maps!HChain(ks, h, k) = Maps!HChain(ls, h, k)
  BY SameChains
<1>2. Maps!KChainsOf(ks, o.owner) = Maps!KChainsOf(ls, o.owner)
  <2>1. ASSUME NEW c
        PROVE  c \in Maps!KChainsOf(ks, o.owner) <=> c \in Maps!KChainsOf(ls, o.owner)
    <3>1. c \in Maps!KChainsOf(ks, o.owner) <=>
            \E k \in S : /\ <<Maps!Namespace(k), k.name>> = o.owner
                         /\ c = Maps!KChain(ks, k)
      BY KChainsAre
    <3>2. c \in Maps!KChainsOf(ls, o.owner) <=>
            \E k \in S : /\ <<Maps!Namespace(k), k.name>> = o.owner
                         /\ c = Maps!KChain(ls, k)
      BY KChainsAre
    <3> QED BY <1>1, <3>1, <3>2
  <2> QED BY <2>1
<1>3. Maps!HChainsOf(ks, o.release) = Maps!HChainsOf(ls, o.release)
  <2>1. ASSUME NEW c
        PROVE  c \in Maps!HChainsOf(ks, o.release) <=> c \in Maps!HChainsOf(ls, o.release)
    <3>1. c \in Maps!HChainsOf(ks, o.release) <=>
            \E k \in S : \E h \in Maps!ReleasesNamed(k, o.release) :
              c = Maps!HChain(ks, h, k)
      BY HChainsAre
    <3>2. c \in Maps!HChainsOf(ls, o.release) <=>
            \E k \in S : \E h \in Maps!ReleasesNamed(k, o.release) :
              c = Maps!HChain(ls, h, k)
      BY HChainsAre
    <3> QED BY <1>1, <3>1, <3>2
  <2> QED BY <2>1
<1> QED BY <1>2, <1>3 DEF Maps!OwnerChain

(* So is what the annotations add.                                         *)
LEMMA SameAnnotations ==
  ASSUME NEW S \in SUBSET Maps!Kustomizations, IsFiniteSet(S), Plain(S),
         NEW ks \in Maps!Orders(S), NEW ls \in Maps!Orders(S), NEW map, NEW objects
  PROVE  Maps!Annotations(map, ks, objects) = Maps!Annotations(map, ls, objects)
<1> DEFINE A(i) == {o \in objects : i \in o.annotated}
           C(i) == UNION {Maps!OwnerChain(ks, o) : o \in A(i)}
           D(i) == UNION {Maps!OwnerChain(ls, o) : o \in A(i)}
<1>1. ASSUME NEW i  PROVE C(i) = D(i)
  <2>1. \A o : Maps!OwnerChain(ks, o) = Maps!OwnerChain(ls, o)
    BY SameOwners
  <2> HIDE DEF A
  <2> QED BY <2>1
<1> DEFINE a == Maps!Annotations(map, ks, objects)
           b == Maps!Annotations(map, ls, objects)
           X(i) == {Maps!Item(o.kind, o) : o \in A(i)}
<1>2. a = [i \in MapImages |-> [map[i] EXCEPT !.sources = @ \cup X(i), !.chains = @ \cup C(i)]]
  BY DEF Maps!Annotations
<1>3. b = [i \in MapImages |-> [map[i] EXCEPT !.sources = @ \cup X(i), !.chains = @ \cup D(i)]]
  BY DEF Maps!Annotations
<1> HIDE DEF a, b, X, C, D
<1>4. a = b
  BY <1>1, <1>2, <1>3
<1> QED BY <1>4 DEF a, b

(* Without ambiguity the Kustomizations are told apart.                    *)
LEMMA NoAmbiguity ==
  ASSUME input \in MapInputs, ~Maps!Ambiguous
  PROVE  Plain(input.ks)
<1>1. \A j, k \in input.ks : j # k => Maps!KItem(j) # Maps!KItem(k)
  BY MapAssumption
<1> QED BY <1>1 DEF Maps!Ambiguous, Plain

(* Hence the map does not depend on the listing.                           *)
LEMMA OrderlessMap == MapInv => Maps!OrderIsIrrelevant
<1> SUFFICES ASSUME MapInv, mapPhase = "done", ~Maps!Ambiguous,
                    NEW ks \in Maps!Orders(input.ks)
             PROVE  imageMap = Made(ks)
  BY DEF Maps!OrderIsIrrelevant, Made, Kept, Said, Held
<1>1. /\ input \in MapInputs /\ listed \in Maps!Orders(input.ks)
      /\ imageMap = Made(listed)
  BY DEF MapInv
<1> DEFINE S == input.ks
<1>2. S \in SUBSET Maps!Kustomizations /\ IsFiniteSet(S)
  BY <1>1, MapAssumption
<1>3. Plain(S)
  BY <1>1, NoAmbiguity
<1>4. ks \in Maps!Orders(S) /\ listed \in Maps!Orders(S)
  BY <1>1
<1> HIDE DEF S
<1>5. Maps!ClusterSources(ks) = Maps!ClusterSources(listed)
  BY <1>2, <1>3, <1>4, SameClusterSources
<1>6. Held(ks) = Held(listed)
  BY <1>5 DEF Held
<1>7. Said(ks) = Said(listed)
  <2> DEFINE map == Held(ks)
             objects == input.objects
  <2>1. Maps!Annotations(map, ks, objects) = Maps!Annotations(map, listed, objects)
    BY <1>2, <1>3, <1>4, SameAnnotations
  <2> QED BY <1>6, <2>1 DEF Said
<1> QED BY <1>1, <1>7 DEF Made, Kept

(* Two listings of the same manifests make one map, unless ambiguous.      *)
THEOREM OrderStaysIrrelevant == Maps!Spec => []OrderIsIrrelevant
<1>1. MapInv => OrderIsIrrelevant
  BY OrderlessMap DEF OrderIsIrrelevant
<1> QED BY <1>1, MapInvariance, PTL
=============================================================================
