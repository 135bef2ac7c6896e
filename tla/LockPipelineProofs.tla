------------------------- MODULE LockPipelineProofs -------------------------
(***************************************************************************)
(* Proofs about LockPipeline, for any images, any runs, any number of      *)
(* changes, repetitions and faults.                                        *)
(***************************************************************************)
EXTENDS LockPipeline, TLAPS

(* The bounds on versions and attempts come from those on the events that  *)
(* raise them.                                                             *)
Counted ==
  /\ \A i \in Images : upstream[i] <= moves
  /\ \A r \in Runs : attempt[r] <= starts + 1

(* Nothing is newer than what a generator would find now.                  *)
MainIsFound == \A i \in Images : main[i] <= upstream[i]

(* A working tree, and a branch, is at least as new as what it is based on.*)
TreesAdvance ==
  \A r \in Runs, i \in Images :
    base[r][i] <= tree[r][i] /\ tree[r][i] <= upstream[i]

PullsAdvance ==
  \A p \in pulls, i \in Images :
    p.base[i] <= p.head[i] /\ p.head[i] <= upstream[i]

(* The first attempt of a run has a pull request only between its proposal *)
(* and its merge, or when it has ended without success.                    *)
FirstAttempts ==
  \A p \in pulls : p.of # Past =>
    \/ attempt[p.of] > 1
    \/ attempt[p.of] = 1 /\ pc[p.of] = "merge"
    \/ attempt[p.of] = 1 /\ pc[p.of] = "off" /\ result[p.of] # "success"

(* A run under way has been started.                                       *)
Started == \A r \in Runs : pc[r] # "off" => attempt[r] >= 1

IInv ==
  /\ TypeOK /\ Counted /\ MainIsFound /\ TreesAdvance /\ PullsAdvance
  /\ FirstAttempts /\ Started

-----------------------------------------------------------------------------

(* What a run has to itself, and that it may end wherever it is.           *)
JobTyped ==
  /\ pc \in [Runs -> {"off", "checkout", "restore", "generate", "save", "propose", "merge"}]
  /\ result \in [Runs -> {"none", "success", "failure", "cancelled"}]
  /\ base \in [Runs -> Locks] /\ tree \in [Runs -> Locks]
  /\ cache \in [Runs -> SUBSET Entries]
  /\ todo \in [Runs -> SUBSET Images] /\ bad \in [Runs -> BOOLEAN]

LEMMA RunEnds ==
  ASSUME IInv, NEW r \in Runs, NEW how \in {"success", "failure", "cancelled"},
         Ends(r, how), UNCHANGED upstream
  PROVE  /\ JobTyped' /\ TreesAdvance'
         /\ pc'[r] = "off" /\ result'[r] = how
         /\ \A s \in Runs \ {r} : pc'[s] = pc[s] /\ result'[s] = result[s]
<1>1. /\ pc' = [pc EXCEPT ![r] = "off"] /\ result' = [result EXCEPT ![r] = how]
      /\ base' = [base EXCEPT ![r] = [i \in Images |-> 0]]
      /\ tree' = [tree EXCEPT ![r] = [i \in Images |-> 0]]
      /\ cache' = [cache EXCEPT ![r] = {}]
      /\ todo' = [todo EXCEPT ![r] = {}] /\ bad' = [bad EXCEPT ![r] = FALSE]
  BY DEF Ends, Clear
<1>2. [i \in Images |-> 0] \in Locks
  BY RunsAssumption DEF Locks
<1>3. JobTyped'
  BY <1>1, <1>2 DEF IInv, TypeOK, JobTyped
<1>4. TreesAdvance'
  <2> SUFFICES ASSUME NEW s \in Runs, NEW i \in Images
               PROVE  base'[s][i] <= tree'[s][i] /\ tree'[s][i] <= upstream[i]
    BY DEF TreesAdvance
  <2>1. CASE s = r
    BY <1>1, <2>1 DEF IInv, TypeOK, Locks
  <2>2. CASE s # r
    BY <1>1, <2>2 DEF IInv, TypeOK, TreesAdvance
  <2> QED BY <2>1, <2>2
<1> QED BY <1>1, <1>3, <1>4 DEF IInv, TypeOK

(* A merge takes main forward, and not beyond what would be found.         *)
LEMMA MergedIsFound ==
  ASSUME IInv, NEW p \in pulls, Mergeable(p)
  PROVE  /\ Merged(p) \in Locks
         /\ \A i \in Images : main[i] <= Merged(p)[i] /\ Merged(p)[i] <= upstream[i]
<1>1. main \in Locks /\ p.head \in Locks /\ p.base \in Locks
  BY DEF IInv, TypeOK
<1>2. Merged(p) \in Locks
  BY <1>1 DEF Merged, Locks
<1>3. ASSUME NEW i \in Images
      PROVE  main[i] <= Merged(p)[i] /\ Merged(p)[i] <= upstream[i]
  <2>1. /\ main[i] \in Nat /\ p.head[i] \in Nat /\ p.base[i] \in Nat
        /\ main[i] <= upstream[i]
        /\ p.base[i] <= p.head[i] /\ p.head[i] <= upstream[i]
    BY <1>1, <1>3 DEF IInv, MainIsFound, PullsAdvance, Locks
  <2>2. Merged(p)[i] = IF p.head[i] = p.base[i] THEN main[i] ELSE p.head[i]
    BY <1>3 DEF Merged
  <2>3. p.head[i] = p.base[i] \/ main[i] \in {p.base[i], p.head[i]}
    BY <1>3 DEF Mergeable
  <2> QED BY <2>1, <2>2, <2>3
<1> QED BY <1>2, <1>3

(* The branches of the schedule's last run become those of a past one.     *)
LEMMA ScheduleStep ==
  ASSUME IInv, Schedule
  PROVE  IInv'
<1> USE RunsAssumption, PastAssumption
    DEF IInv, Locks, Entries, Modes, inputs, job, bounds, Schedule, Goes
<1>1. TypeOK'
  <2> DEFINE Renamed(p) == IF p.of = Scheduled THEN [p EXCEPT !.of = Past] ELSE p
  <2>1. ASSUME NEW p \in pulls
        PROVE  Renamed(p) \in [of : Runs \cup {Past}, base : Locks, head : Locks]
    <3>1. p \in [of : Runs \cup {Past}, base : Locks, head : Locks]
      BY DEF TypeOK
    <3>2. [p EXCEPT !.of = Past] \in [of : Runs \cup {Past}, base : Locks, head : Locks]
      BY <3>1
    <3> QED BY <3>1, <3>2
  <2>2. pulls' \subseteq [of : Runs \cup {Past}, base : Locks, head : Locks]
    <3>1. pulls' = {Renamed(p) : p \in pulls}
      OBVIOUS
    <3> QED BY <2>1, <3>1
  <2>3. ASSUME NEW p \in pulls', NEW q \in pulls', p.of = q.of, p.of # Past  PROVE p = q
    <3>1. PICK u \in pulls, v \in pulls : p = Renamed(u) /\ q = Renamed(v)
      OBVIOUS
    <3>2. p = u /\ q = v
      BY <2>3, <3>1 DEF TypeOK
    <3> QED BY <2>3, <3>2 DEF TypeOK
  <2>4. attempt' \in [Runs -> 0 .. MaxStarts + 1]
    BY DEF TypeOK
  <2> QED BY <2>2, <2>3, <2>4 DEF TypeOK
<1>2. Counted'
  BY DEF TypeOK, Counted
<1>3. PullsAdvance'
  <2> SUFFICES ASSUME NEW p \in pulls', NEW i \in Images
               PROVE  p.base[i] <= p.head[i] /\ p.head[i] <= upstream[i]
    BY DEF PullsAdvance
  <2>1. PICK u \in pulls : p = IF u.of = Scheduled THEN [u EXCEPT !.of = Past] ELSE u
    OBVIOUS
  <2>2. p.base = u.base /\ p.head = u.head
    BY <2>1 DEF TypeOK
  <2> QED BY <2>2 DEF PullsAdvance
<1>4. FirstAttempts'
  BY DEF TypeOK, FirstAttempts
<1>5. Started'
  BY DEF TypeOK, Started
<1>6. MainIsFound' /\ TreesAdvance'
  BY DEF MainIsFound, TreesAdvance
<1> QED BY <1>1, <1>2, <1>3, <1>4, <1>5, <1>6

(* A run started by hand has its first attempt.                            *)
LEMMA DispatchStep ==
  ASSUME IInv, NEW r \in Runs, Dispatch(r)
  PROVE  IInv'
<1> USE RunsAssumption, PastAssumption
    DEF IInv, Locks, Entries, Modes, inputs, job, bounds, Dispatch, Goes
<1>1. TypeOK'
  BY DEF TypeOK, Counted
<1>2. Counted'
  BY DEF TypeOK, Counted
<1>3. FirstAttempts'
  BY DEF TypeOK, FirstAttempts
<1>4. Started'
  BY DEF TypeOK, Started
<1>5. MainIsFound' /\ TreesAdvance' /\ PullsAdvance'
  BY DEF MainIsFound, TreesAdvance, PullsAdvance
<1> QED BY <1>1, <1>2, <1>3, <1>4, <1>5

(* A run that is started again is past its first attempt.                  *)
LEMMA RerunStep ==
  ASSUME IInv, NEW r \in Runs, Rerun(r)
  PROVE  IInv'
<1> USE RunsAssumption, PastAssumption
    DEF IInv, Locks, Entries, Modes, inputs, job, bounds, Rerun, Goes
<1>1. TypeOK'
  BY DEF TypeOK, Counted
<1>2. Counted'
  BY DEF TypeOK, Counted
<1>3. FirstAttempts'
  BY DEF TypeOK, FirstAttempts
<1>4. Started'
  BY DEF TypeOK, Started
<1>5. MainIsFound' /\ TreesAdvance' /\ PullsAdvance'
  BY DEF MainIsFound, TreesAdvance, PullsAdvance
<1> QED BY <1>1, <1>2, <1>3, <1>4, <1>5

(* The checkout is main, which was found.                                  *)
LEMMA CheckoutStep ==
  ASSUME IInv, NEW r \in Runs, Checkout(r)
  PROVE  IInv'
<1> USE RunsAssumption, PastAssumption
    DEF IInv, Locks, Entries, Modes, inputs, job, bounds, Checkout, Goes
<1>1. TypeOK'
  BY DEF TypeOK
<1>2. TreesAdvance'
  BY DEF TypeOK, TreesAdvance, MainIsFound
<1>3. FirstAttempts'
  BY DEF TypeOK, FirstAttempts
<1>4. Started'
  BY DEF TypeOK, Started
<1>5. Counted' /\ MainIsFound' /\ PullsAdvance'
  BY DEF Counted, MainIsFound, PullsAdvance
<1> QED BY <1>1, <1>2, <1>3, <1>4, <1>5

(* The cache decides nothing about versions.                               *)
LEMMA RestoreStep ==
  ASSUME IInv, NEW r \in Runs, Restore(r)
  PROVE  IInv'
<1> USE RunsAssumption, PastAssumption
    DEF IInv, Locks, Entries, Modes, inputs, job, bounds, Restore, Goes
<1>1. TypeOK'
  BY DEF TypeOK
<1>2. FirstAttempts'
  BY DEF TypeOK, FirstAttempts
<1>3. Started'
  BY DEF TypeOK, Started
<1>4. Counted' /\ MainIsFound' /\ TreesAdvance' /\ PullsAdvance'
  BY DEF Counted, MainIsFound, TreesAdvance, PullsAdvance
<1> QED BY <1>1, <1>2, <1>3, <1>4

(* A failed generation leaves the tree as it was checked out.              *)
LEMMA GeneratedStep ==
  ASSUME IInv, NEW r \in Runs, Generated(r)
  PROVE  IInv'
<1> USE RunsAssumption, PastAssumption
    DEF IInv, Locks, Entries, Modes, inputs, job, bounds, Generated, Goes
<1>1. TypeOK'
  BY DEF TypeOK
<1>2. TreesAdvance'
  BY DEF TypeOK, TreesAdvance
<1>3. FirstAttempts'
  BY DEF TypeOK, FirstAttempts
<1>4. Started'
  BY DEF TypeOK, Started
<1>5. Counted' /\ MainIsFound' /\ PullsAdvance'
  BY DEF Counted, MainIsFound, PullsAdvance
<1> QED BY <1>1, <1>2, <1>3, <1>4, <1>5

(* The cache is saved; a failed run ends here.                             *)
LEMMA SaveStep ==
  ASSUME IInv, NEW r \in Runs, Save(r)
  PROVE  IInv'
<1>1. /\ pc[r] = "save"
      /\ stored' = IF mode[r] = "ignore_cache" THEN stored ELSE cache[r]
      /\ UNCHANGED <<upstream, main, pulls, mode, scope, attempt, moves, starts, faults>>
  BY DEF Save, inputs, bounds
<1>2. stored' \subseteq Entries
  BY <1>1 DEF IInv, TypeOK
<1>3. CASE Ends(r, "failure")
  <2>1. /\ JobTyped' /\ TreesAdvance' /\ pc'[r] = "off" /\ result'[r] = "failure"
        /\ \A s \in Runs \ {r} : pc'[s] = pc[s] /\ result'[s] = result[s]
    BY <1>1, <1>3, RunEnds
  <2>2. TypeOK'
    BY <1>1, <1>2, <2>1 DEF IInv, TypeOK, JobTyped
  <2>3. FirstAttempts'
    BY <1>1, <2>1 DEF IInv, TypeOK, FirstAttempts
  <2> QED BY <1>1, <2>1, <2>2, <2>3 DEF IInv, Counted, MainIsFound, PullsAdvance, Started
<1>4. CASE Goes(r, "propose") /\ UNCHANGED job
  <2>1. TypeOK'
    BY <1>1, <1>2, <1>4 DEF IInv, TypeOK, Goes, job
  <2>2. FirstAttempts'
    BY <1>1, <1>4 DEF IInv, TypeOK, FirstAttempts, Goes
  <2>3. Started'
    BY <1>1, <1>4 DEF IInv, TypeOK, Started, Goes
  <2> QED BY <1>1, <1>4, <2>1, <2>2, <2>3
         DEF IInv, Counted, MainIsFound, PullsAdvance, TreesAdvance, job
<1> QED BY <1>3, <1>4 DEF Save

(* The branch is the run's tree; a repeated attempt may leave it behind.   *)
LEMMA ProposeStep ==
  ASSUME IInv, NEW r \in Runs, Propose(r)
  PROVE  IInv'
<1>1. /\ pc[r] = "propose"
      /\ pulls' = (pulls \ Own(r)) \cup (IF tree[r] = base[r] THEN {} ELSE {New(r)})
      /\ UNCHANGED <<upstream, main, stored, mode, scope, attempt, moves, starts, faults>>
  BY DEF Propose, inputs, bounds
<1>2. /\ New(r) \in [of : Runs \cup {Past}, base : Locks, head : Locks]
      /\ New(r).of = r /\ New(r).base = base[r] /\ New(r).head = tree[r]
  BY DEF IInv, TypeOK, New
<1>3. /\ pulls' \subseteq [of : Runs \cup {Past}, base : Locks, head : Locks]
      /\ \A p, q \in pulls' : p.of = q.of /\ p.of # Past => p = q
  BY <1>1, <1>2 DEF IInv, TypeOK, Own
<1>4. PullsAdvance'
  BY <1>1, <1>2 DEF IInv, PullsAdvance, TreesAdvance
<1>5. \A p \in pulls' : p.of # r => p \in pulls
  BY <1>1, <1>2
<1>6. CASE tree[r] # base[r] /\ Own(r) = {} /\ Goes(r, "merge") /\ UNCHANGED job
  <2>1. TypeOK'
    BY <1>1, <1>3, <1>6 DEF IInv, TypeOK, Goes, job
  <2>2. attempt[r] >= 1
    BY <1>1 DEF IInv, Started
  <2>3. FirstAttempts'
    BY <1>1, <1>2, <1>5, <1>6, <2>2, PastAssumption DEF IInv, TypeOK, FirstAttempts, Goes
  <2> QED BY <1>1, <1>4, <1>6, <2>1, <2>2, <2>3
         DEF IInv, Counted, MainIsFound, TreesAdvance, Started, Goes, job, TypeOK
<1>7. CASE (tree[r] = base[r] \/ Own(r) # {}) /\ Ends(r, "success")
  <2>1. /\ JobTyped' /\ TreesAdvance' /\ pc'[r] = "off" /\ result'[r] = "success"
        /\ \A s \in Runs \ {r} : pc'[s] = pc[s] /\ result'[s] = result[s]
    BY <1>1, <1>7, RunEnds
  <2>2. TypeOK'
    BY <1>1, <1>3, <2>1 DEF IInv, TypeOK, JobTyped
  <2>3. FirstAttempts'
    <3> SUFFICES ASSUME NEW p \in pulls', p.of # Past
                 PROVE  \/ attempt[p.of] > 1
                        \/ attempt[p.of] = 1 /\ pc'[p.of] = "merge"
                        \/ attempt[p.of] = 1 /\ pc'[p.of] = "off" /\ result'[p.of] # "success"
      BY <1>1 DEF FirstAttempts
    <3>1. CASE p.of # r
      BY <1>3, <1>5, <2>1, <3>1 DEF IInv, TypeOK, FirstAttempts
    <3>2. CASE p.of = r
      <4>1. PICK q \in pulls : q.of = r
        BY <1>1, <1>2, <1>7, <3>2 DEF Own
      <4> QED BY <1>1, <3>2, <4>1, PastAssumption DEF IInv, FirstAttempts
    <3> QED BY <3>1, <3>2
  <2> QED BY <1>1, <1>4, <2>1, <2>2, <2>3 DEF IInv, Counted, MainIsFound, Started
<1> QED BY <1>6, <1>7 DEF Propose

(* The run's pull request is merged, or conflicts and stays.               *)
LEMMA MergeStep ==
  ASSUME IInv, NEW r \in Runs, Merge(r)
  PROVE  IInv'
<1>1. /\ pc[r] = "merge"
      /\ UNCHANGED <<upstream, stored, mode, scope, attempt, moves, starts, faults>>
  BY DEF Merge, inputs, bounds
<1>2. PICK p \in Own(r) :
        \/ /\ Mergeable(p) /\ main' = Merged(p) /\ pulls' = pulls \ {p} /\ Ends(r, "success")
        \/ /\ UNCHANGED <<main, pulls>> /\ Ends(r, "failure")
  BY DEF Merge
<1>3. p \in pulls /\ p.of = r /\ \A q \in pulls : q.of = r => q = p
  BY PastAssumption DEF IInv, TypeOK, Own
<1>4. PICK how \in {"success", "failure"} :
        Ends(r, how) /\ (how = "success" => pulls' = pulls \ {p})
  BY <1>2
<1>5. main' \in Locks /\ MainIsFound' /\ pulls' \subseteq pulls
  BY <1>1, <1>2, <1>3, MergedIsFound DEF IInv, TypeOK, MainIsFound
<1>6. /\ JobTyped' /\ TreesAdvance' /\ pc'[r] = "off" /\ result'[r] = how
      /\ \A s \in Runs \ {r} : pc'[s] = pc[s] /\ result'[s] = result[s]
  BY <1>1, <1>4, RunEnds
<1>7. TypeOK'
  BY <1>1, <1>5, <1>6 DEF IInv, TypeOK, JobTyped
<1>8. FirstAttempts'
  <2> SUFFICES ASSUME NEW q \in pulls', q.of # Past
               PROVE  \/ attempt[q.of] > 1
                      \/ attempt[q.of] = 1 /\ pc'[q.of] = "merge"
                      \/ attempt[q.of] = 1 /\ pc'[q.of] = "off" /\ result'[q.of] # "success"
    BY <1>1 DEF FirstAttempts
  <2>1. CASE q.of # r
    BY <1>5, <1>6, <2>1 DEF IInv, TypeOK, FirstAttempts
  <2>2. CASE q.of = r
    BY <1>3, <1>4, <1>5, <1>6, <2>2 DEF IInv, FirstAttempts
  <2> QED BY <2>1, <2>2
<1> QED BY <1>1, <1>5, <1>6, <1>7, <1>8 DEF IInv, Counted, PullsAdvance, Started

(* What is found now is at least as new as the checkout.                   *)
LEMMA ResolveStep ==
  ASSUME IInv, NEW r \in Runs, NEW i \in Images, Resolve(r, i)
  PROVE  IInv'
<1> USE RunsAssumption, PastAssumption
    DEF IInv, Locks, Entries, Modes, inputs, job, bounds, Resolve, Now, Goes
<1>1. TypeOK'
  <2>1. upstream[i] \in 0 .. MaxMoves /\ tree[r] \in Locks
    BY DEF TypeOK
  <2>2. tree' = [tree EXCEPT ![r] = [tree[r] EXCEPT ![i] = upstream[i]]]
    OBVIOUS
  <2>3. tree' \in [Runs -> Locks]
    BY <2>1, <2>2 DEF TypeOK
  <2>4. cache' \in [Runs -> SUBSET Entries] /\ todo' \in [Runs -> SUBSET Images]
    BY <2>1 DEF TypeOK
  <2> QED BY <2>3, <2>4 DEF TypeOK
<1>2. TreesAdvance'
  <2> SUFFICES ASSUME NEW s \in Runs, NEW j \in Images
               PROVE  base[s][j] <= tree'[s][j] /\ tree'[s][j] <= upstream[j]
    BY DEF TreesAdvance
  <2>1. tree[s] \in Locks /\ tree[r] \in Locks /\ base[s] \in Locks /\ upstream \in Locks
    BY DEF TypeOK
  <2>2. tree'[s][j] = IF s = r /\ j = i THEN upstream[j] ELSE tree[s][j]
    BY <2>1 DEF TypeOK
  <2>3. base[s][j] <= upstream[j]
    BY <2>1 DEF TreesAdvance
  <2> QED BY <2>1, <2>2, <2>3 DEF TreesAdvance
<1>3. Counted' /\ MainIsFound' /\ PullsAdvance' /\ FirstAttempts' /\ Started'
  BY DEF Counted, MainIsFound, PullsAdvance, FirstAttempts, Started
<1> QED BY <1>1, <1>2, <1>3

(* A build that fails only marks the run.                                  *)
LEMMA BuildFailsStep ==
  ASSUME IInv, NEW r \in Runs, NEW i \in Images, BuildFails(r, i)
  PROVE  IInv'
<1> USE RunsAssumption, PastAssumption
    DEF IInv, Locks, Entries, Modes, inputs, job, bounds, BuildFails, Misses, Goes
<1>1. TypeOK'
  BY DEF TypeOK
<1>2. Counted' /\ MainIsFound' /\ TreesAdvance' /\ PullsAdvance' /\ FirstAttempts' /\ Started'
  BY DEF Counted, MainIsFound, TreesAdvance, PullsAdvance, FirstAttempts, Started
<1> QED BY <1>1, <1>2

(* So does a digest that is not to be had.                                 *)
LEMMA DigestFailsStep ==
  ASSUME IInv, NEW r \in Runs, NEW i \in Images, DigestFails(r, i)
  PROVE  IInv'
<1> USE RunsAssumption, PastAssumption
    DEF IInv, Locks, Entries, Modes, inputs, job, bounds, DigestFails, Misses, Goes
<1>1. TypeOK'
  BY DEF TypeOK
<1>2. Counted' /\ MainIsFound' /\ TreesAdvance' /\ PullsAdvance' /\ FirstAttempts' /\ Started'
  BY DEF Counted, MainIsFound, TreesAdvance, PullsAdvance, FirstAttempts, Started
<1> QED BY <1>1, <1>2

(* A run that a step fails ends without success.                           *)
LEMMA StepFailsStep ==
  ASSUME IInv, NEW r \in Runs, StepFails(r)
  PROVE  IInv'
<1>1. /\ Ends(r, "failure")
      /\ faults' \in 0 .. MaxFaults
      /\ UNCHANGED <<upstream, main, stored, pulls, mode, scope, attempt, moves, starts>>
  BY RunsAssumption DEF IInv, TypeOK, StepFails, inputs
<1>2. /\ JobTyped' /\ TreesAdvance' /\ pc'[r] = "off" /\ result'[r] = "failure"
      /\ \A s \in Runs \ {r} : pc'[s] = pc[s] /\ result'[s] = result[s]
  BY <1>1, RunEnds
<1>3. TypeOK'
  BY <1>1, <1>2 DEF IInv, TypeOK, JobTyped
<1>4. FirstAttempts'
  BY <1>1, <1>2 DEF IInv, TypeOK, FirstAttempts
<1>5. Counted' /\ MainIsFound' /\ PullsAdvance' /\ Started'
  BY <1>1, <1>2 DEF IInv, Counted, MainIsFound, PullsAdvance, Started
<1> QED BY <1>2, <1>3, <1>4, <1>5 DEF IInv

(* So does one that is cancelled.                                          *)
LEMMA CancelStep ==
  ASSUME IInv, NEW r \in Runs, Cancel(r)
  PROVE  IInv'
<1>1. /\ Ends(r, "cancelled")
      /\ faults' \in 0 .. MaxFaults
      /\ UNCHANGED <<upstream, main, stored, pulls, mode, scope, attempt, moves, starts>>
  BY RunsAssumption DEF IInv, TypeOK, Cancel, inputs
<1>2. /\ JobTyped' /\ TreesAdvance' /\ pc'[r] = "off" /\ result'[r] = "cancelled"
      /\ \A s \in Runs \ {r} : pc'[s] = pc[s] /\ result'[s] = result[s]
  BY <1>1, RunEnds
<1>3. TypeOK'
  BY <1>1, <1>2 DEF IInv, TypeOK, JobTyped
<1>4. FirstAttempts'
  BY <1>1, <1>2 DEF IInv, TypeOK, FirstAttempts
<1>5. Counted' /\ MainIsFound' /\ PullsAdvance' /\ Started'
  BY <1>1, <1>2 DEF IInv, Counted, MainIsFound, PullsAdvance, Started
<1> QED BY <1>2, <1>3, <1>4, <1>5 DEF IInv

(* Somebody merges what a run has left.                                    *)
LEMMA MergeByHandStep ==
  ASSUME IInv, NEW p \in pulls, MergeByHand(p)
  PROVE  IInv'
<1> USE RunsAssumption, PastAssumption
    DEF IInv, Locks, Entries, Modes, inputs, job, bounds, MergeByHand, Mergeable, Merged
<1>1. TypeOK'
  BY DEF TypeOK
<1>2. MainIsFound'
  BY DEF TypeOK, MainIsFound, PullsAdvance
<1>3. PullsAdvance'
  BY DEF TypeOK, PullsAdvance
<1>4. FirstAttempts'
  BY DEF TypeOK, FirstAttempts
<1>5. Counted' /\ TreesAdvance' /\ Started'
  BY DEF Counted, TreesAdvance, Started
<1> QED BY <1>1, <1>2, <1>3, <1>4, <1>5

(* A change makes a version newer than any found before.                   *)
LEMMA MoveStep ==
  ASSUME IInv, NEW i \in Images, Move(i)
  PROVE  IInv'
<1> USE RunsAssumption, PastAssumption
    DEF IInv, Locks, Entries, Modes, inputs, job, bounds, Move
<1>1. TypeOK'
  BY DEF TypeOK, Counted
<1>2. Counted'
  BY DEF TypeOK, Counted
<1>3. MainIsFound'
  BY DEF TypeOK, MainIsFound
<1>4. TreesAdvance'
  BY DEF TypeOK, TreesAdvance
<1>5. PullsAdvance'
  BY DEF TypeOK, PullsAdvance
<1>6. FirstAttempts' /\ Started'
  BY DEF FirstAttempts, Started
<1> QED BY <1>1, <1>2, <1>3, <1>4, <1>5, <1>6

-----------------------------------------------------------------------------
(* No step of anybody disturbs the invariant.                              *)
LEMMA StepInvariant == IInv /\ [Next]_vars => IInv'
<1> SUFFICES ASSUME IInv, [Next]_vars  PROVE IInv'
  OBVIOUS
<1>1. CASE UNCHANGED vars
  BY <1>1 DEF vars, inputs, job, bounds, IInv, TypeOK, Counted, MainIsFound, TreesAdvance,
              PullsAdvance, FirstAttempts, Started
<1>2. CASE Schedule
  BY <1>2, ScheduleStep
<1>3. ASSUME NEW r \in Runs, Dispatch(r) \/ Rerun(r) \/ StepFails(r) \/ Cancel(r)
      PROVE  IInv'
  BY <1>3, DispatchStep, RerunStep, StepFailsStep, CancelStep
<1>4. ASSUME NEW r \in Runs, Steps(r)
      PROVE  IInv'
  BY <1>4, CheckoutStep, RestoreStep, GeneratedStep, SaveStep, ProposeStep, MergeStep,
     ResolveStep, BuildFailsStep DEF Steps
<1>5. ASSUME NEW r \in Runs, NEW i \in Images, DigestFails(r, i)
      PROVE  IInv'
  BY <1>5, DigestFailsStep
<1>6. ASSUME NEW p \in pulls, MergeByHand(p)
      PROVE  IInv'
  BY <1>6, MergeByHandStep
<1>7. ASSUME NEW i \in Images, Move(i)
      PROVE  IInv'
  BY <1>7, MoveStep
<1> QED BY <1>1, <1>2, <1>3, <1>4, <1>5, <1>6, <1>7 DEF Next

(* The inductive invariant holds in every reachable state, of any runs of  *)
(* the workflow however they overlap.                                      *)
THEOREM Invariance == Spec => []IInv
<1>1. Init => IInv
  <2> SUFFICES ASSUME Init  PROVE IInv
    OBVIOUS
  <2>1. TypeOK
    BY RunsAssumption DEF Init, TypeOK, Locks, Entries, Modes
  <2>2. Counted /\ MainIsFound /\ TreesAdvance /\ PullsAdvance /\ FirstAttempts /\ Started
    BY RunsAssumption DEF Init, Counted, MainIsFound, TreesAdvance, PullsAdvance,
                          FirstAttempts, Started
  <2> QED BY <2>1, <2>2 DEF IInv
<1> QED BY <1>1, StepInvariant, PTL DEF Spec

(* A green first attempt leaves no pull request open, whatever the other   *)
(* runs, the schedule and the people do meanwhile.                         *)
THEOREM GreenRunsAreMerged == Spec => []GreenIsMerged
<1>1. IInv => GreenIsMerged
  <2> SUFFICES ASSUME IInv, NEW p \in pulls, p.of # Past,
                      pc[p.of] = "off", result[p.of] = "success"
               PROVE  attempt[p.of] > 1
    BY DEF IInv, GreenIsMerged, SuccessIsMerged
  <2> QED BY DEF IInv, FirstAttempts
<1> QED BY <1>1, Invariance, PTL

(* The lock on main never goes back to an older resolution: what a merge   *)
(* brings was found after the checkout it is based on, and a merge over    *)
(* anything else that has changed meanwhile is a conflict.                 *)
THEOREM NeverGoesBack == Spec => NeverOlder
<1> DEFINE Forward == \A i \in Images : main'[i] >= main[i]
<1>1. IInv /\ [Next]_vars => [Forward]_vars
  <2> SUFFICES ASSUME IInv, Next  PROVE Forward
    BY DEF Forward
  <2>1. \A i \in Images : main[i] \in Nat
    BY DEF IInv, TypeOK, Locks
  <2>2. CASE main' = main
    BY <2>1, <2>2
  <2>3. ASSUME NEW p \in pulls, Mergeable(p), main' = Merged(p)
        PROVE  Forward
    <3>1. Merged(p) \in Locks /\ \A i \in Images : main[i] <= Merged(p)[i]
      BY <2>3, MergedIsFound
    <3> QED BY <2>1, <2>3, <3>1 DEF Locks
  <2>4. ASSUME NEW r \in Runs, Merge(r)
        PROVE  Forward
    <3>1. \/ main' = main
          \/ \E p \in pulls : Mergeable(p) /\ main' = Merged(p)
      BY <2>4 DEF Merge, Own
    <3> QED BY <2>2, <2>3, <3>1
  <2>5. ASSUME NEW p \in pulls, MergeByHand(p)
        PROVE  Forward
    BY <2>3, <2>5 DEF MergeByHand
  <2>6. \/ main' = main
        \/ \E r \in Runs : Merge(r)
        \/ \E p \in pulls : MergeByHand(p)
    BY DEF Next, Steps, Schedule, Dispatch, Rerun, Checkout, Restore, Generated, Save, Propose,
           Resolve, BuildFails, DigestFails, Misses, StepFails, Cancel, Move
  <2> QED BY <2>2, <2>4, <2>5, <2>6
<1> QED BY <1>1, Invariance, PTL DEF Spec, NeverOlder
=============================================================================
