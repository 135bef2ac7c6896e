---------------------------- MODULE LockPipeline ----------------------------
(***************************************************************************)
(* .github/workflows/update-image-lock.yml: the runs of the workflow that  *)
(* generates the image locks, keeps the cache of archive hashes, and       *)
(* merges what it found into main through a pull request of its own.       *)
(* Nothing keeps two runs apart.                                           *)
(*                                                                         *)
(* The lock is one version for each image: how often what the registry and *)
(* the manifests say of it has changed.  A pair <<image, version>> is an   *)
(* entry of the cache.  GitHub merges two changes of one lock unless both  *)
(* changed an image, to different versions.                                *)
(***************************************************************************)
EXTENDS Integers, FiniteSets

CONSTANTS
  Images, Runs, \* images; workflow runs, of which
  Scheduled,    \* this one starts again and again, each time with a new id
  MaxMoves,     \* bound on the changes of all images
  MaxStarts,    \* bound on starts and re-runs by hand
  MaxFaults     \* bound on cancellations and on steps that fail

ASSUME RunsAssumption ==
  /\ Scheduled \in Runs
  /\ MaxMoves \in Nat /\ MaxStarts \in Nat /\ MaxFaults \in Nat

Past == "past" \* the branch of an earlier run of the schedule
ASSUME PastAssumption == Past \notin Runs

Locks == [Images -> 0 .. MaxMoves]
Entries == Images \X (0 .. MaxMoves)
Modes == {"cached", "ignore_cache", "clean_cache"}

VARIABLES
  upstream, \* the versions that a generator would find now
  main,     \* the lock on main
  stored,   \* the cache that restore-keys finds: the one saved last
  pulls,    \* open pull requests: branch, the checkout it is based on, head
  pc, result,
  mode, scope,        \* inputs; scope is the images of the chosen clusters
  base, tree, cache,  \* the checkout, the working tree, ~/.cache
  todo, bad,          \* images the generator has yet to resolve; one failed
  attempt,
  moves, starts, faults

inputs == <<mode, scope>>
job == <<base, tree, cache, todo, bad>>
bounds == <<moves, starts, faults>>
vars == <<upstream, main, stored, pulls, pc, result, inputs, job, attempt, bounds>>

TypeOK ==
  /\ upstream \in Locks /\ main \in Locks
  /\ stored \subseteq Entries
  /\ pulls \subseteq [of : Runs \cup {Past}, base : Locks, head : Locks]
  /\ \A p, q \in pulls : p.of = q.of /\ p.of # Past => p = q
  /\ pc \in [Runs -> {"off", "checkout", "restore", "generate", "save",
                      "propose", "merge"}]
  /\ result \in [Runs -> {"none", "success", "failure", "cancelled"}]
  /\ mode \in [Runs -> Modes] /\ scope \in [Runs -> SUBSET Images]
  /\ base \in [Runs -> Locks] /\ tree \in [Runs -> Locks]
  /\ cache \in [Runs -> SUBSET Entries]
  /\ todo \in [Runs -> SUBSET Images] /\ bad \in [Runs -> BOOLEAN]
  /\ attempt \in [Runs -> 0 .. MaxStarts + 1]
  /\ moves \in 0 .. MaxMoves /\ starts \in 0 .. MaxStarts /\ faults \in 0 .. MaxFaults

Init ==
  /\ upstream = [i \in Images |-> 0] /\ main = upstream
  /\ stored = {}
  /\ pulls = {}
  /\ pc = [r \in Runs |-> "off"] /\ result = [r \in Runs |-> "none"]
  /\ mode = [r \in Runs |-> "cached"] /\ scope = [r \in Runs |-> Images]
  /\ base = [r \in Runs |-> upstream] /\ tree = base
  /\ cache = [r \in Runs |-> {}]
  /\ todo = [r \in Runs |-> {}] /\ bad = [r \in Runs |-> FALSE]
  /\ attempt = [r \in Runs |-> 0]
  /\ moves = 0 /\ starts = 0 /\ faults = 0

-----------------------------------------------------------------------------
(* A run's locals are of no use after it.                                  *)
Clear(r) ==
  /\ base' = [base EXCEPT ![r] = [i \in Images |-> 0]]
  /\ tree' = [tree EXCEPT ![r] = [i \in Images |-> 0]]
  /\ cache' = [cache EXCEPT ![r] = {}]
  /\ todo' = [todo EXCEPT ![r] = {}] /\ bad' = [bad EXCEPT ![r] = FALSE]

Ends(r, how) ==
  /\ pc' = [pc EXCEPT ![r] = "off"]
  /\ result' = [result EXCEPT ![r] = how]
  /\ Clear(r)

Goes(r, to) == pc' = [pc EXCEPT ![r] = to] /\ UNCHANGED result

(* The schedule starts a run of the default inputs under a new id.         *)
Schedule ==
  /\ pc[Scheduled] = "off"
  /\ Goes(Scheduled, "checkout")
  /\ attempt' = [attempt EXCEPT ![Scheduled] = 1]
  /\ pulls' = {IF p.of = Scheduled THEN [p EXCEPT !.of = Past] ELSE p : p \in pulls}
  /\ UNCHANGED <<upstream, main, stored, inputs, job, bounds>>

(* workflow_dispatch: any inputs, all clusters or one.                     *)
Dispatch(r) ==
  /\ r # Scheduled /\ attempt[r] = 0
  /\ starts < MaxStarts /\ starts' = starts + 1
  /\ \E m \in Modes, c \in {Images} \cup {{i} : i \in Images} :
       mode' = [mode EXCEPT ![r] = m] /\ scope' = [scope EXCEPT ![r] = c]
  /\ Goes(r, "checkout")
  /\ attempt' = [attempt EXCEPT ![r] = 1]
  /\ UNCHANGED <<upstream, main, stored, pulls, job, moves, faults>>

(* Somebody runs a finished run again: same id, inputs and branch.         *)
Rerun(r) ==
  /\ pc[r] = "off" /\ attempt[r] > 0
  /\ starts < MaxStarts /\ starts' = starts + 1
  /\ Goes(r, "checkout")
  /\ attempt' = [attempt EXCEPT ![r] = @ + 1]
  /\ UNCHANGED <<upstream, main, stored, pulls, inputs, job, moves, faults>>

(* The tip of main, on every attempt.                                      *)
Checkout(r) ==
  /\ pc[r] = "checkout"
  /\ Goes(r, "restore")
  /\ base' = [base EXCEPT ![r] = main] /\ tree' = [tree EXCEPT ![r] = main]
  /\ UNCHANGED <<upstream, main, stored, pulls, inputs, cache, todo, bad, attempt, bounds>>

Restore(r) ==
  /\ pc[r] = "restore"
  /\ Goes(r, "generate")
  /\ cache' = [cache EXCEPT ![r] = IF mode[r] = "cached" THEN stored ELSE {}]
  /\ todo' = [todo EXCEPT ![r] = scope[r]]
  /\ UNCHANGED <<upstream, main, stored, pulls, inputs, base, tree, bad, attempt, bounds>>

Now(i) == <<i, upstream[i]>>
Hit(r, i) == mode[r] # "ignore_cache" /\ Now(i) \in cache[r]

(* Mutant: the cache is by image alone, and an old entry is taken.         *)
ResolveTrusting(r, i) ==
  /\ pc[r] = "generate" /\ i \in todo[r]
  /\ todo' = [todo EXCEPT ![r] = @ \ {i}]
  /\ \E entry \in cache[r] \cup {Now(i)} :
       /\ entry[1] = i /\ \A other \in cache[r] : other[1] = i => entry[2] <= other[2]
       /\ tree' = [tree EXCEPT ![r][i] = entry[2]]
       /\ cache' = [cache EXCEPT ![r] = @ \cup {entry}]
  /\ UNCHANGED <<upstream, main, stored, pulls, pc, result, inputs, base, bad, attempt, bounds>>

(* gen-image-lock finds an image in its cache, or builds its archive.      *)
Resolve(r, i) ==
  /\ pc[r] = "generate" /\ i \in todo[r]
  /\ todo' = [todo EXCEPT ![r] = @ \ {i}]
  /\ tree' = [tree EXCEPT ![r][i] = upstream[i]]
  /\ cache' = [cache EXCEPT ![r] = @ \cup {Now(i)}]
  /\ UNCHANGED <<upstream, main, stored, pulls, pc, result, inputs, base, bad, attempt, bounds>>

(* One image failed; the others are resolved all the same.                 *)
Misses(r, i) ==
  /\ pc[r] = "generate" /\ i \in todo[r]
  /\ todo' = [todo EXCEPT ![r] = @ \ {i}] /\ bad' = [bad EXCEPT ![r] = TRUE]
  /\ UNCHANGED <<upstream, main, stored, pulls, pc, result, inputs, base, tree, cache,
                 attempt, moves, starts>>

BuildFails(r, i) == ~Hit(r, i) /\ Misses(r, i) /\ UNCHANGED faults

(* crane gives up on the digest, cached or not.                            *)
DigestFails(r, i) == faults < MaxFaults /\ faults' = faults + 1 /\ Misses(r, i)

(* A lock is written only when all images were resolved; a failed step     *)
(* skips the rest of the job but the saving of the cache.                  *)
Generated(r) ==
  /\ pc[r] = "generate" /\ todo[r] = {}
  /\ Goes(r, "save")
  /\ tree' = IF bad[r] THEN [tree EXCEPT ![r] = base[r]] ELSE tree
  /\ UNCHANGED <<upstream, main, stored, pulls, inputs, base, cache, todo, bad, attempt, bounds>>

(* Mutant: the cache is saved only by a job that has not failed.           *)
SaveOnSuccess(r) ==
  /\ pc[r] = "save"
  /\ stored' = IF mode[r] = "ignore_cache" \/ bad[r] THEN stored ELSE cache[r]
  /\ \/ bad[r] /\ Ends(r, "failure")
     \/ ~bad[r] /\ Goes(r, "propose") /\ UNCHANGED job
  /\ UNCHANGED <<upstream, main, pulls, inputs, attempt, bounds>>

(* always() && !cancelled() && ignore_cache != 'true'.                     *)
Save(r) ==
  /\ pc[r] = "save"
  /\ stored' = IF mode[r] = "ignore_cache" THEN stored ELSE cache[r]
  /\ \/ bad[r] /\ Ends(r, "failure")
     \/ ~bad[r] /\ Goes(r, "propose") /\ UNCHANGED job
  /\ UNCHANGED <<upstream, main, pulls, inputs, attempt, bounds>>

Own(r) == {p \in pulls : p.of = r}
New(r) == [of |-> r, base |-> base[r], head |-> tree[r]]

(* Mutant: one branch for all runs.                                        *)
ProposeOnOneBranch(r) ==
  /\ pc[r] = "propose"
  /\ pulls' = (IF tree[r] = base[r] THEN {} ELSE {New(r)}) \cup
              {p \in pulls : p.of = Past}
  /\ \/ tree[r] # base[r] /\ {p \in pulls : p.of # Past} = {}
        /\ Goes(r, "merge") /\ UNCHANGED job
     \/ ~(tree[r] # base[r] /\ {p \in pulls : p.of # Past} = {})
        /\ Ends(r, "success")
  /\ UNCHANGED <<upstream, main, stored, inputs, attempt, bounds>>

(* Create Pull Request: the branch of the run is set to its checkout and   *)
(* its change; without a change the branch is deleted, and its pull        *)
(* request with it.  Only a pull request that is new is merged.            *)
Propose(r) ==
  /\ pc[r] = "propose"
  /\ pulls' = (pulls \ Own(r)) \cup (IF tree[r] = base[r] THEN {} ELSE {New(r)})
  /\ \/ tree[r] # base[r] /\ Own(r) = {} /\ Goes(r, "merge") /\ UNCHANGED job
     \/ (tree[r] = base[r] \/ Own(r) # {}) /\ Ends(r, "success")
  /\ UNCHANGED <<upstream, main, stored, inputs, attempt, bounds>>

Mergeable(p) ==
  \A i \in Images : p.head[i] = p.base[i] \/ main[i] \in {p.base[i], p.head[i]}

Merged(p) == [i \in Images |-> IF p.head[i] = p.base[i] THEN main[i] ELSE p.head[i]]

(* Force Merge PR; with a conflict the step fails.                         *)
Merge(r) ==
  /\ pc[r] = "merge"
  /\ \E p \in Own(r) :
       \/ /\ Mergeable(p)
          /\ main' = Merged(p) /\ pulls' = pulls \ {p}
          /\ Ends(r, "success")
       \/ /\ ~Mergeable(p)
          /\ UNCHANGED <<main, pulls>>
          /\ Ends(r, "failure")
  /\ UNCHANGED <<upstream, stored, inputs, attempt, bounds>>

(* Another step fails, or GitHub's answer to one.                          *)
StepFails(r) ==
  /\ pc[r] \in {"checkout", "propose", "merge"}
  /\ faults < MaxFaults /\ faults' = faults + 1
  /\ Ends(r, "failure")
  /\ UNCHANGED <<upstream, main, stored, pulls, inputs, attempt, moves, starts>>

(* By hand, or after six hours.                                            *)
Cancel(r) ==
  /\ pc[r] # "off"
  /\ faults < MaxFaults /\ faults' = faults + 1
  /\ Ends(r, "cancelled")
  /\ UNCHANGED <<upstream, main, stored, pulls, inputs, attempt, moves, starts>>

(* Somebody merges a pull request that a run has left.                     *)
MergeByHand(p) ==
  /\ p.of \notin {r \in Runs : pc[r] # "off"}
  /\ Mergeable(p)
  /\ main' = Merged(p) /\ pulls' = pulls \ {p}
  /\ UNCHANGED <<upstream, stored, pc, result, inputs, job, attempt, bounds>>

Move(i) ==
  /\ moves < MaxMoves /\ moves' = moves + 1
  /\ upstream' = [upstream EXCEPT ![i] = @ + 1]
  /\ UNCHANGED <<main, stored, pulls, pc, result, inputs, job, attempt, starts, faults>>

Steps(r) ==
  \/ Checkout(r) \/ Restore(r) \/ Generated(r) \/ Save(r) \/ Propose(r) \/ Merge(r)
  \/ \E i \in Images : Resolve(r, i) \/ BuildFails(r, i)

Next ==
  \/ Schedule
  \/ \E r \in Runs : Dispatch(r) \/ Rerun(r) \/ Steps(r) \/ StepFails(r) \/ Cancel(r)
  \/ \E r \in Runs, i \in Images : DigestFails(r, i)
  \/ \E p \in pulls : MergeByHand(p)
  \/ \E i \in Images : Move(i)

(* The schedule comes again and its jobs proceed; builds may fail without  *)
(* bound, in every run one or another, but none of them for ever.          *)
Fairness ==
  /\ WF_vars(Schedule) /\ WF_vars(Steps(Scheduled))
  /\ \A i \in Images : SF_vars(Resolve(Scheduled, i))

Spec == Init /\ [][Next]_vars
FairSpec == Spec /\ Fairness

-----------------------------------------------------------------------------
(* The lock on main never goes back to what an earlier resolution found,   *)
(* however runs overlap, are run again or are merged by hand.              *)
NeverOlder == [][\A i \in Images : main'[i] >= main[i]]_vars

(* A run that ends with success has no pull request left open, except one  *)
(* run again: its branch has a pull request that is updated but not new,   *)
(* and the merge is skipped.                                               *)
SuccessIsMerged ==
  \A p \in pulls : p.of # Past /\ pc[p.of] = "off" /\ result[p.of] = "success" =>
    attempt[p.of] > 1

(* The state keeps its types, and what a green first attempt has proposed  *)
(* is merged or closed.                                                    *)
GreenIsMerged == TypeOK /\ SuccessIsMerged

(* Once images and people rest, main has what the registry has, although a *)
(* lock needs all images and builds fail in every run: the hashes of a     *)
(* failed run are kept for the next.                                       *)
Converges == <>[](main = upstream)
=============================================================================
