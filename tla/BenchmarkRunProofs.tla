------------------------- MODULE BenchmarkRunProofs -------------------------
(***************************************************************************)
(* Proofs about BenchmarkRun, for any roles, rounds and number of          *)
(* invocations, kills, errors, edits and days.                             *)
(***************************************************************************)
EXTENDS BenchmarkRun, SequenceTheorems, FiniteSetTheorems, TLAPS

(* The versions of the files count the edits.                              *)
StatesTyped == saved \in States /\ mem \in States

ContainersTyped ==
  /\ podman \in [Names -> {"absent", "exited", "running"}]
  /\ conf \in [Names -> {0} \cup Versions]

ProcessTyped ==
  /\ pc \in Preparing \cup {"idle", "measure", "load", "report", "stop"}
  /\ k \in 1 .. Len(Roles) /\ stage \in Stages /\ part \in {"capacity", "latency"}
  /\ exit \in {"none", "refused", "raised", "killed", "stop failed", "completed"}
  /\ cert \in {"absent", "fresh", "expired"}
  /\ summary \in {"none", "not passed", "passed"}

(* The versions of the files count the edits.                              *)
FilesTyped ==
  /\ harness \in Versions /\ source \in Versions /\ building \in BOOLEAN
  /\ edits \in 0 .. MaxEdits /\ harness + source <= 2 + edits

BoundsTyped == invocations \in 0 .. MaxInvocations /\ kills \in Nat /\ errors \in Nat

Typed == StatesTyped /\ ContainersTyped /\ ProcessTyped /\ FilesTyped /\ BoundsTyped

Measuring == {"container", "record", "endpoints", "probe", "measure", "load"}

(* A process is one of the invocations; its containers have the run's name.*)
Named ==
  /\ pc # "idle" => invocations >= 1
  /\ pc \in Measuring => mem.run_id >= 1

(* What a running process has in memory of the results is what is on disk, *)
(* and the run is not invalid before its last persist.                     *)
InStep ==
  pc # "idle" =>
    /\ mem.samples = saved.samples /\ mem.config = saved.config
    /\ mem.harness = saved.harness /\ mem.source = saved.source
    /\ mem.invalid = saved.invalid
    /\ pc # "stop" => ~mem.invalid

(* While it measures, the files are those it read.                         *)
Current ==
  pc \in Preparing \cup Measuring => mem.harness = harness /\ mem.source = source

(* A recorded container has read a configuration file, of some harness.    *)
ReadBy(state) ==
  \A r \in state.containers : /\ state.run_id \in 1 .. MaxInvocations
                              /\ conf[<<state.run_id, r>>] # 0

Configured ==
  /\ ReadBy(saved)
  /\ pc # "idle" => ReadBy(mem)
  /\ pc = "record" => conf[Name] # 0

IInv ==
  /\ Typed /\ Named /\ InStep /\ Current /\ Configured
  /\ OneVersion /\ AcceptedOnlyComplete

(* prepare goes through the roles.                                         *)
LEMMA RoleFacts ==
  /\ Len(Roles) \in Nat \ {0} /\ 1 \in 1 .. Len(Roles)
  /\ \A i \in 1 .. Len(Roles) : Roles[i] \in RoleSet
  /\ \A i \in 1 .. Len(Roles) : i < Len(Roles) => i + 1 \in 1 .. Len(Roles)
<1>1. Len(Roles) \in Nat /\ DOMAIN Roles = 1 .. Len(Roles)
  BY RolesAssumption
<1>2. Len(Roles) # 0
  BY RolesAssumption, EmptySeq
<1>3. \A i \in 1 .. Len(Roles) : Roles[i] \in RoleSet
  BY <1>1 DEF RoleSet, ToSet
<1> QED BY <1>1, <1>2, <1>3

(* The bounds are numbers.                                                 *)
LEMMA BoundsFacts ==
  /\ MaxInvocations \in Nat /\ MaxKills \in Nat /\ MaxErrors \in Nat
  /\ MaxEdits \in Nat /\ MaxDays \in Nat
BY BoundsAssumption

(* There are finitely many names.                                          *)
LEMMA RoleSetFinite == IsFiniteSet(RoleSet) /\ IsFiniteSet(Names)
<1>1. IsFiniteSet(1 .. Len(Roles))
  BY RoleFacts, FS_Interval
<1>2. Roles \in Surjection(1 .. Len(Roles), RoleSet)
  BY RolesAssumption DEF RoleSet, ToSet, Surjection
<1>3. IsFiniteSet(RoleSet)
  BY <1>1, <1>2, FS_Surjection
<1>4. IsFiniteSet(1 .. MaxInvocations)
  BY BoundsFacts, FS_Interval
<1> QED BY <1>3, <1>4, FS_Product DEF Names

(* A sample only ever goes behind the samples there are.                   *)
LEMMA AppendKeeps ==
  ASSUME NEW S, NEW t \in Seq(S), NEW e \in S
  PROVE  /\ Append(t, e) \in Seq(S)
         /\ ToSet(Append(t, e)) = ToSet(t) \cup {e}
         /\ IsPrefix(t, Append(t, e))
<1>1. /\ Append(t, e) \in Seq(S) /\ Len(Append(t, e)) = Len(t) + 1
      /\ \A i \in 1 .. Len(t) : Append(t, e)[i] = t[i]
      /\ Append(t, e)[Len(t) + 1] = e
  BY AppendProperties
<1>2. /\ Len(t) \in Nat /\ DOMAIN t = 1 .. Len(t)
      /\ DOMAIN Append(t, e) = 1 .. Len(t) + 1
  BY <1>1
<1>3. ToSet(Append(t, e)) = ToSet(t) \cup {e}
  BY <1>1, <1>2 DEF ToSet
<1>4. IsPrefix(t, Append(t, e))
  <2>1. SubSeq(t, 1, Len(t)) = t
    BY SubSeqFull
  <2>2. SubSeq(Append(t, e), 1, Len(t)) = t
    BY <1>1, <1>2
  <2> QED BY <1>1, <1>2, <2>1, <2>2 DEF IsPrefix
<1> QED BY <1>1, <1>3, <1>4

(* A prefix may be the whole sequence.                                     *)
LEMMA SameIsPrefix ==
  ASSUME NEW S, NEW t \in Seq(S)
  PROVE  IsPrefix(t, t)
BY LenProperties DEF IsPrefix

(* What is in a sequence of samples is a sample.                           *)
LEMMA SampleIsTaken ==
  ASSUME NEW S, NEW t \in Seq(S)
  PROVE  ToSet(t) \subseteq S
BY DEF ToSet

(* Invoke: a process reads what is on disk and names its own files in it.  *)
LEMMA InvokeKeeps ==
  ASSUME IInv, NEW s \in Stages, NEW config \in Configs, Invoke(s, config)
  PROVE  IInv'
<1> USE DEF IInv, Typed, containers, process, world, bounds
<1> DEFINE named == [saved EXCEPT !.harness = harness, !.config = config, !.source = source]
<1>1. /\ pc = "idle" /\ pc' \in {"idle", "report", "fixtures"} /\ k' = 1 /\ stage' = s
      /\ invocations < MaxInvocations /\ invocations' = invocations + 1
      /\ part' \in {"capacity", "latency"} /\ exit' \in {"refused", "completed"}
      /\ UNCHANGED <<containers, cert, summary, world, kills, errors>>
  BY DEF Invoke
<1>2. \/ UNCHANGED <<saved, mem, pc>>
      \/ ~saved.invalid /\ pc' = "report" /\ saved' = saved /\ mem' = saved
      \/ /\ ~saved.invalid /\ pc' = "fixtures" /\ saved' = named /\ mem' = named
         /\ saved.samples # <<>> => saved.harness = harness
         /\ saved.source \in {0, source}
  BY DEF Invoke, Refused, Persist
<1>3. /\ named \in States /\ named.samples = saved.samples /\ named.config = config
      /\ named.harness = harness /\ named.source = source /\ named.invalid = saved.invalid
      /\ named.containers = saved.containers /\ named.run_id = saved.run_id
  BY DEF StatesTyped, States, FilesTyped
<1>4. Typed'
  <2>1. StatesTyped'
    BY <1>2, <1>3 DEF StatesTyped
  <2>2. ProcessTyped'
    <3>1. k' \in 1 .. Len(Roles)' /\ stage' \in Stages'
      BY <1>1, RoleFacts DEF Stages
    <3> QED BY <1>1, <3>1 DEF ProcessTyped, Preparing
  <2>3. BoundsTyped'
    BY <1>1, BoundsFacts DEF BoundsTyped
  <2> QED BY <1>1, <2>1, <2>2, <2>3 DEF ContainersTyped, FilesTyped
<1>5. Named' /\ InStep' /\ Current'
  <2>1. pc' \notin Measuring /\ invocations' >= 1
    BY <1>1 DEF Measuring, BoundsTyped
  <2>2. pc' \in Preparing => pc' = "fixtures"
    BY <1>1 DEF Preparing
  <2> QED BY <1>1, <1>2, <1>3, <2>1, <2>2 DEF Named, InStep, Current
<1>6. Configured'
  BY <1>1, <1>2, <1>3, ZenonT(40) DEF Configured, ReadBy
<1>7. OneVersion'
  <2>1. CASE saved' = saved
    BY <2>1 DEF OneVersion
  <2>2. CASE saved' = named /\ (saved.samples # <<>> => saved.harness = harness)
             /\ saved.source \in {0, source}
    <3>1. ASSUME NEW sample \in ToSet(saved.samples)
          PROVE  sample.harness = harness /\ sample.source = source
      <4>1. saved.samples # <<>>
        BY <3>1 DEF ToSet
      <4>2. /\ saved.samples \in Seq(Samples)
            /\ sample.harness = saved.harness /\ sample.source = saved.source
        BY DEF StatesTyped, States, OneVersion
      <4>3. sample \in Samples
        BY <4>2, SampleIsTaken
      <4> QED BY <2>2, <4>1, <4>2, <4>3 DEF Samples, Versions
    <3> QED BY <2>2, <1>3, <3>1 DEF OneVersion
  <2> QED BY <1>2, <2>1, <2>2
<1>8. AcceptedOnlyComplete'
  <2>1. summary' = summary /\ saved'.samples = saved.samples
    BY <1>1, <1>2, <1>3
  <2>2. CASE saved'.config = saved.config
    BY <2>1, <2>2 DEF AcceptedOnlyComplete, Keys
  <2>3. CASE saved' = named /\ saved.config \in {"none", config}
    BY <2>1, <2>3, <1>3 DEF AcceptedOnlyComplete, Keys
  <2>4. \/ saved'.config = saved.config
        \/ saved' = named /\ saved.config \in {"none", config}
    <3>1. CASE Refused(s, config) \/ s = "report"
      <4>1. saved' = saved
        BY <3>1 DEF Invoke
      <4> QED BY <4>1
    <3>2. CASE ~Refused(s, config) /\ s # "report"
      BY <3>2 DEF Invoke, Refused, Persist
    <3> QED BY <3>1, <3>2
  <2> QED BY <2>2, <2>3, <2>4
<1> QED BY <1>4, <1>5, <1>6, <1>7, <1>8

(* Fixtures: the run gets its name.                                        *)
LEMMA FixturesKeeps ==
  ASSUME IInv, Fixtures
  PROVE  IInv'
<1> USE DEF IInv, Typed, containers, process, world, bounds, Fixtures
<1>1. StatesTyped'
  <2>1. (IF mem.run_id = 0 THEN invocations ELSE mem.run_id) \in 0 .. MaxInvocations
    BY DEF StatesTyped, States, BoundsTyped
  <2> QED BY <2>1 DEF StatesTyped, States
<1>2. ContainersTyped' /\ ProcessTyped' /\ FilesTyped' /\ BoundsTyped'
  BY DEF ContainersTyped, ProcessTyped, Preparing, FilesTyped, BoundsTyped
<1>3. Named'
  BY DEF Named, Measuring, Preparing, StatesTyped, States, BoundsTyped
<1>4. InStep' /\ Current'
  BY DEF InStep, Current, Measuring, Preparing, StatesTyped, States
<1>5. Configured'
  <2>1. /\ mem'.containers = mem.containers
        /\ mem.run_id # 0 => mem'.run_id = mem.run_id
    BY DEF StatesTyped, States
  <2>2. \A r \in mem.containers : mem.run_id \in 1 .. MaxInvocations
    BY DEF Configured, ReadBy
  <2>3. ReadBy(mem)' /\ ReadBy(saved)'
    BY <2>1, <2>2 DEF Configured, ReadBy
  <2> QED BY <2>3 DEF Configured
<1>6. OneVersion' /\ AcceptedOnlyComplete'
  BY DEF OneVersion, AcceptedOnlyComplete, Keys
<1> QED BY <1>1, <1>2, <1>3, <1>4, <1>5, <1>6

(* StartContainer: containers of an earlier invocation run again.          *)
LEMMA StartContainerKeeps ==
  ASSUME IInv, StartContainer
  PROVE  IInv'
<1> USE DEF IInv, Typed, containers, process, world, bounds, StartContainer, Started, NextRole
<1>1. StatesTyped'
  BY DEF StatesTyped
<1>2. ContainersTyped'
  <2>1. mem.harness \in {0} \cup Versions
    BY DEF StatesTyped, States
  <2> QED BY <2>1 DEF ContainersTyped
<1>3. ProcessTyped' /\ FilesTyped' /\ BoundsTyped'
  BY RoleFacts DEF ProcessTyped, Preparing, FilesTyped, BoundsTyped
<1>4. Named' /\ InStep' /\ Current'
  BY DEF Named, Measuring, Preparing, InStep, Current
<1>5. Configured'
  <2>1. mem.harness # 0 /\ DOMAIN conf = Names
    BY DEF Current, FilesTyped, ContainersTyped, Versions, Measuring
  <2>2. conf' = conf \/ conf' = [conf EXCEPT ![Name] = mem.harness]
    OBVIOUS
  <2>3. \A n \in Names : conf[n] # 0 => conf'[n] # 0
    BY <2>1, <2>2
  <2>4. \A r \in RoleSet, i \in 1 .. MaxInvocations : <<i, r>> \in Names
    BY DEF Names
  <2>5. saved.containers \subseteq RoleSet /\ mem.containers \subseteq RoleSet
    BY DEF StatesTyped, States
  <2> QED BY <2>3, <2>4, <2>5 DEF Configured, ReadBy
<1>6. OneVersion' /\ AcceptedOnlyComplete'
  BY DEF OneVersion, AcceptedOnlyComplete, Keys
<1> QED BY <1>1, <1>2, <1>3, <1>4, <1>5, <1>6

(* RunContainer: a new container reads the file of this process.           *)
LEMMA RunContainerKeeps ==
  ASSUME IInv, RunContainer
  PROVE  IInv'
<1> USE DEF IInv, Typed, containers, process, world, bounds, RunContainer, Started
<1>1. StatesTyped'
  BY DEF StatesTyped
<1>2. ContainersTyped'
  <2>1. mem.harness \in {0} \cup Versions
    BY DEF StatesTyped, States
  <2> QED BY <2>1 DEF ContainersTyped
<1>3. ProcessTyped' /\ FilesTyped' /\ BoundsTyped'
  BY DEF ProcessTyped, Preparing, FilesTyped, BoundsTyped
<1>4. Named' /\ InStep' /\ Current'
  BY DEF Named, Measuring, Preparing, InStep, Current
<1>5. Configured'
  <2>1. mem.harness # 0 /\ DOMAIN conf = Names
    BY DEF Current, FilesTyped, ContainersTyped, Versions, Measuring
  <2>2. Name \in Names /\ Name' = Name
    <3>1. mem.run_id \in 1 .. MaxInvocations
      BY DEF Named, Measuring, StatesTyped, States
    <3>2. Role \in RoleSet
      BY RoleFacts DEF Role, ProcessTyped
    <3> QED BY <3>1, <3>2 DEF Name, Role, Names
  <2>3. \A n \in Names : conf[n] # 0 \/ n = Name => conf'[n] # 0
    BY <2>1, <2>2
  <2>4. \A r \in RoleSet, i \in 1 .. MaxInvocations : <<i, r>> \in Names
    BY DEF Names
  <2>5. saved.containers \subseteq RoleSet /\ mem.containers \subseteq RoleSet
    BY DEF StatesTyped, States
  <2> QED BY <2>2, <2>3, <2>4, <2>5 DEF Configured, ReadBy
<1>6. OneVersion' /\ AcceptedOnlyComplete'
  BY DEF OneVersion, AcceptedOnlyComplete, Keys
<1> QED BY <1>1, <1>2, <1>3, <1>4, <1>5, <1>6

(* RecordContainer: only the containers of the state change.               *)
LEMMA RecordContainerKeeps ==
  ASSUME IInv, RecordContainer
  PROVE  IInv'
<1> USE DEF IInv, Typed, containers, process, world, bounds, RecordContainer, NextRole, Persist
<1>1. StatesTyped'
  <2>1. Role \in RoleSet
    BY RoleFacts DEF Role, ProcessTyped
  <2> QED BY <2>1 DEF StatesTyped, States
<1>2. ContainersTyped' /\ ProcessTyped' /\ FilesTyped' /\ BoundsTyped'
  BY RoleFacts DEF ContainersTyped, ProcessTyped, Preparing, FilesTyped, BoundsTyped
<1>3. Named' /\ InStep' /\ Current'
  BY DEF Named, Measuring, Preparing, InStep, Current, StatesTyped, States
<1>4. Configured'
  <2>1. mem.run_id \in 1 .. MaxInvocations
    BY DEF Named, Measuring, StatesTyped, States
  <2>2. mem'.containers = mem.containers \cup {Role} /\ mem'.run_id = mem.run_id
    BY DEF StatesTyped, States
  <2> QED BY <2>1, <2>2 DEF Configured, ReadBy, Name
<1>5. OneVersion' /\ AcceptedOnlyComplete'
  BY DEF OneVersion, AcceptedOnlyComplete, Keys, InStep, StatesTyped, States
<1> QED BY <1>1, <1>2, <1>3, <1>4, <1>5

(* NameTaken: the process stops.                                           *)
LEMMA NameTakenKeeps ==
  ASSUME IInv, NameTaken
  PROVE  IInv'
<1> USE DEF IInv, Typed, containers, process, world, bounds, NameTaken
<1>1. Typed'
  BY DEF StatesTyped, ContainersTyped, ProcessTyped, Preparing, FilesTyped, BoundsTyped
<1>2. Named' /\ InStep' /\ Current' /\ Configured'
  BY DEF Named, Measuring, Preparing, InStep, Current, Configured, ReadBy, Name, Role
<1>3. OneVersion' /\ AcceptedOnlyComplete'
  BY DEF OneVersion, AcceptedOnlyComplete, Keys
<1> QED BY <1>1, <1>2, <1>3

(* SaveEndpoints: memory and disk agree again.                             *)
LEMMA SaveEndpointsKeeps ==
  ASSUME IInv, SaveEndpoints
  PROVE  IInv'
<1> USE DEF IInv, Typed, containers, process, world, bounds, SaveEndpoints, Persist
<1>1. StatesTyped'
  BY DEF StatesTyped, States
<1>2. ContainersTyped' /\ ProcessTyped' /\ FilesTyped' /\ BoundsTyped'
  BY DEF ContainersTyped, ProcessTyped, Preparing, FilesTyped, BoundsTyped
<1>3. Named' /\ InStep' /\ Current'
  BY DEF Named, Measuring, Preparing, InStep, Current, StatesTyped, States
<1>4. Configured'
  BY DEF Configured, ReadBy, Name, Role, StatesTyped, States
<1>5. OneVersion' /\ AcceptedOnlyComplete'
  BY DEF OneVersion, AcceptedOnlyComplete, Keys, InStep, StatesTyped, States
<1> QED BY <1>1, <1>2, <1>3, <1>4, <1>5

(* Probe: only the endpoints of the state change.                          *)
LEMMA ProbeKeeps ==
  ASSUME IInv, Probe
  PROVE  IInv'
<1> USE DEF IInv, Typed, containers, process, world, bounds, Probe, Persist
<1>1. StatesTyped'
  BY DEF StatesTyped, States
<1>2. ContainersTyped' /\ ProcessTyped' /\ FilesTyped' /\ BoundsTyped'
  BY DEF ContainersTyped, ProcessTyped, Preparing, FilesTyped, BoundsTyped
<1>3. Named' /\ InStep' /\ Current'
  BY DEF Named, Measuring, Preparing, InStep, Current, StatesTyped, States
<1>4. Configured'
  BY DEF Configured, ReadBy, Name, Role, StatesTyped, States
<1>5. OneVersion' /\ AcceptedOnlyComplete'
  BY DEF OneVersion, AcceptedOnlyComplete, Keys, InStep, StatesTyped, States
<1> QED BY <1>1, <1>2, <1>3, <1>4, <1>5

(* ProbeExpired: the process stops.                                        *)
LEMMA ProbeExpiredKeeps ==
  ASSUME IInv, ProbeExpired
  PROVE  IInv'
<1> USE DEF IInv, Typed, containers, process, world, bounds, ProbeExpired
<1>1. Typed'
  BY DEF StatesTyped, ContainersTyped, ProcessTyped, Preparing, FilesTyped, BoundsTyped
<1>2. Named' /\ InStep' /\ Current' /\ Configured'
  BY DEF Named, Measuring, Preparing, InStep, Current, Configured, ReadBy, Name, Role
<1>3. OneVersion' /\ AcceptedOnlyComplete'
  BY DEF OneVersion, AcceptedOnlyComplete, Keys
<1> QED BY <1>1, <1>2, <1>3

(* Invalidate: the last persist of a process.                              *)
LEMMA InvalidateKeeps ==
  ASSUME IInv, Invalidate
  PROVE  IInv'
<1> USE DEF IInv, Typed, containers, process, world, bounds, Invalidate, Persist
<1>1. StatesTyped'
  BY DEF StatesTyped, States
<1>2. ContainersTyped' /\ ProcessTyped' /\ FilesTyped' /\ BoundsTyped'
  BY DEF ContainersTyped, ProcessTyped, Preparing, FilesTyped, BoundsTyped
<1>3. Named' /\ InStep' /\ Current'
  BY DEF Named, Measuring, Preparing, InStep, Current, StatesTyped, States
<1>4. Configured'
  BY DEF Configured, ReadBy, Name, Role, StatesTyped, States
<1>5. OneVersion' /\ AcceptedOnlyComplete'
  BY DEF OneVersion, AcceptedOnlyComplete, Keys, InStep, StatesTyped, States
<1> QED BY <1>1, <1>2, <1>3, <1>4, <1>5

(* BeginSample: only the process moves on.                                 *)
LEMMA BeginSampleKeeps ==
  ASSUME IInv, BeginSample
  PROVE  IInv'
<1> USE DEF IInv, Typed, containers, process, world, bounds, BeginSample
<1>1. Typed'
  BY DEF StatesTyped, ContainersTyped, ProcessTyped, Preparing, FilesTyped, BoundsTyped
<1>2. Named' /\ InStep' /\ Current' /\ Configured'
  BY DEF Named, Measuring, Preparing, InStep, Current, Configured, ReadBy, Name, Role
<1>3. OneVersion' /\ AcceptedOnlyComplete'
  BY DEF OneVersion, AcceptedOnlyComplete, Keys
<1> QED BY <1>1, <1>2, <1>3

(* EndSample appends one sample, of the files as they are.                 *)
LEMMA EndSampleAppends ==
  ASSUME IInv, EndSample
  PROVE  \E new \in Samples :
           /\ saved' = [mem EXCEPT !.samples = Append(@, new)] /\ mem' = saved'
           /\ saved'.samples = Append(saved.samples, new)
           /\ new.harness = harness /\ new.source = source /\ new.served = Served
           /\ new.key \in Missing /\ NextMissing(new.key)
<1> USE DEF IInv, Typed
<1>1. PICK key \in Missing :
        /\ NextMissing(key)
        /\ saved' = [mem EXCEPT !.samples = Append(@,
             [key |-> key, harness |-> harness, source |-> source, served |-> Served])]
        /\ mem' = saved'
  BY DEF EndSample, Persist
<1>2. key \in KeySet
  BY DEF Missing, KeySet, ProcessTyped
<1>3. Served \in SUBSET Versions
  <2>1. \A r \in mem.containers : <<mem.run_id, r>> \in Names /\ conf[<<mem.run_id, r>>] # 0
    BY DEF EndSample, Configured, ReadBy, StatesTyped, States, Names
  <2> QED BY <2>1 DEF Served, ContainersTyped
<1> DEFINE it == [key |-> key, harness |-> harness, source |-> source, served |-> Served]
<1>4. it \in Samples
  BY <1>2, <1>3 DEF FilesTyped, Samples
<1>5. mem.samples = saved.samples
  BY DEF InStep, EndSample
<1>6. saved'.samples = Append(saved.samples, it)
  BY <1>1, <1>5 DEF StatesTyped, States
<1> QED BY <1>1, <1>4, <1>6

(* EndSample: the sample is of the versions that the state names.          *)
LEMMA EndSampleKeeps ==
  ASSUME IInv, EndSample
  PROVE  IInv'
<1> USE DEF IInv, Typed, containers, process, world, bounds
<1>1. PICK new \in Samples :
        /\ saved' = [mem EXCEPT !.samples = Append(@, new)] /\ mem' = saved'
        /\ saved'.samples = Append(saved.samples, new)
        /\ new.harness = harness /\ new.source = source
  BY EndSampleAppends
<1>2. /\ saved.samples \in Seq(Samples) /\ mem.samples = saved.samples
      /\ saved'.config = saved.config
      /\ saved'.harness = saved.harness /\ saved'.source = saved.source
      /\ new.harness = saved.harness /\ new.source = saved.source
  BY <1>1 DEF StatesTyped, States, InStep, Current, Measuring, EndSample
<1>3. /\ Append(saved.samples, new) \in Seq(Samples)
      /\ ToSet(saved'.samples) = ToSet(saved.samples) \cup {new}
  BY <1>1, <1>2, AppendKeeps
<1>4. Typed'
  <2>1. StatesTyped'
    BY <1>1, <1>2, <1>3 DEF StatesTyped, States
  <2> QED BY <2>1 DEF ContainersTyped, ProcessTyped, Preparing, FilesTyped, BoundsTyped,
  EndSample
<1>5. OneVersion' /\ AcceptedOnlyComplete'
  BY <1>2, <1>3 DEF OneVersion, AcceptedOnlyComplete, Keys, EndSample
<1>6. /\ mem'.config = mem.config /\ mem'.harness = mem.harness /\ mem'.source = mem.source
      /\ mem'.invalid = mem.invalid /\ mem'.run_id = mem.run_id
      /\ mem'.containers = mem.containers /\ mem' = saved'
  BY <1>1 DEF StatesTyped, States
<1>7. Named' /\ InStep' /\ Current'
  BY <1>6 DEF Named, InStep, Current, Measuring, Preparing, EndSample
<1>8. Configured'
  BY <1>6 DEF Configured, ReadBy, EndSample
<1> QED BY <1>4, <1>5, <1>7, <1>8

(* StageDone: only the process moves on.                                   *)
LEMMA StageDoneKeeps ==
  ASSUME IInv, StageDone
  PROVE  IInv'
<1> USE DEF IInv, Typed, containers, process, world, bounds, StageDone
<1>1. Typed'
  BY DEF StatesTyped, ContainersTyped, ProcessTyped, Preparing, FilesTyped, BoundsTyped
<1>2. Named' /\ InStep' /\ Current' /\ Configured'
  BY DEF Named, Measuring, Preparing, InStep, Current, Configured, ReadBy, Name, Role
<1>3. OneVersion' /\ AcceptedOnlyComplete'
  BY DEF OneVersion, AcceptedOnlyComplete, Keys
<1> QED BY <1>1, <1>2, <1>3

(* Report: what passes is complete in memory, and so on disk.              *)
LEMMA ReportKeeps ==
  ASSUME IInv, Report
  PROVE  IInv'
<1> USE DEF IInv, Typed, containers, process, world, bounds, Report, AfterReport, Verdicts,
         Confident
<1>1. Typed'
  BY DEF StatesTyped, ContainersTyped, ProcessTyped, Preparing, FilesTyped, BoundsTyped
<1>2. Named' /\ InStep' /\ Current' /\ Configured'
  BY DEF Named, Measuring, Preparing, InStep, Current, Configured, ReadBy, Name, Role
<1>3. OneVersion'
  BY DEF OneVersion
<1>4. AcceptedOnlyComplete'
  BY DEF AcceptedOnlyComplete, Keys, InStep
<1> QED BY <1>1, <1>2, <1>3, <1>4

(* ReportFails: only the process moves on.                                 *)
LEMMA ReportFailsKeeps ==
  ASSUME IInv, ReportFails
  PROVE  IInv'
<1> USE DEF IInv, Typed, containers, process, world, bounds, ReportFails, AfterReport
<1>1. Typed'
  BY DEF StatesTyped, ContainersTyped, ProcessTyped, Preparing, FilesTyped, BoundsTyped
<1>2. Named' /\ InStep' /\ Current' /\ Configured'
  BY DEF Named, Measuring, Preparing, InStep, Current, Configured, ReadBy, Name, Role
<1>3. OneVersion' /\ AcceptedOnlyComplete'
  BY DEF OneVersion, AcceptedOnlyComplete, Keys
<1> QED BY <1>1, <1>2, <1>3

(* Stop: only containers change.                                           *)
LEMMA StopKeeps ==
  ASSUME IInv, Stop
  PROVE  IInv'
<1> USE DEF IInv, Typed, containers, process, world, bounds, Stop
<1>1. StatesTyped'
  BY DEF StatesTyped
<1>2. ContainersTyped'
  BY DEF ContainersTyped, Names
<1>3. ProcessTyped' /\ FilesTyped'
  BY DEF ProcessTyped, Preparing, FilesTyped
<1>4. BoundsTyped'
  <2>1. PICK failed \in SUBSET {n \in {mem.run_id} \X mem.containers : podman[n] = "running"} :
          errors' = errors + Cardinality(failed)
    OBVIOUS
  <2>2. mem.containers \subseteq RoleSet
    BY DEF StatesTyped, States
  <2>3. Cardinality(failed) \in Nat
    <3>1. IsFiniteSet({mem.run_id} \X mem.containers)
      BY <2>2, RoleSetFinite, FS_Subset, FS_Singleton, FS_Product
    <3> QED BY <3>1, FS_Subset, FS_CardinalityType
  <2>4. UNCHANGED <<invocations, kills>>
    OBVIOUS
  <2> HIDE DEF Stop
  <2>5. errors' \in Nat /\ invocations' \in 0 .. MaxInvocations /\ kills' \in Nat
    BY <2>1, <2>3, <2>4 DEF BoundsTyped
  <2> QED BY <2>5 DEF BoundsTyped
<1>5. Named' /\ InStep' /\ Current' /\ Configured'
  BY DEF Named, Measuring, Preparing, InStep, Current, Configured, ReadBy, Name, Role
<1>6. OneVersion' /\ AcceptedOnlyComplete'
  BY DEF OneVersion, AcceptedOnlyComplete, Keys
<1> QED BY <1>1, <1>2, <1>3, <1>4, <1>5, <1>6

(* Raise: what memory has and the disk has not is never a sample.          *)
LEMMA RaiseKeeps ==
  ASSUME IInv, Raise
  PROVE  IInv'
<1> USE DEF IInv, Typed, containers, process, world, bounds, Raise, AfterError, AfterReport
<1>1. StatesTyped'
  <2>1. CASE UNCHANGED mem
    BY <2>1 DEF StatesTyped
  <2>2. CASE mem' = [mem EXCEPT !.containers = @ \cup {Role}]
    <3>1. Role \in RoleSet
      BY RoleFacts DEF Role, ProcessTyped
    <3> QED BY <2>2, <3>1 DEF StatesTyped, States
  <2> QED BY <2>1, <2>2
<1>2. ContainersTyped'
  BY DEF ContainersTyped
<1>3. ProcessTyped' /\ FilesTyped'
  BY DEF ProcessTyped, Preparing, FilesTyped
<1>4. BoundsTyped'
  BY DEF BoundsTyped
<1>5. Named'
  BY DEF Named, Measuring, Preparing, StatesTyped, States
<1>6. InStep' /\ Current'
  BY DEF InStep, Current, Measuring, Preparing, StatesTyped, States
<1>7. Configured'
  <2>1. CASE UNCHANGED mem
    BY <2>1 DEF Configured, ReadBy
  <2>2. CASE pc = "record" /\ mem' = [mem EXCEPT !.containers = @ \cup {Role}]
    <3>1. mem.run_id \in 1 .. MaxInvocations
      BY <2>2 DEF Named, Measuring, StatesTyped, States
    <3>2. mem'.containers = mem.containers \cup {Role} /\ mem'.run_id = mem.run_id
      BY <2>2 DEF StatesTyped, States
    <3> QED BY <2>2, <3>1, <3>2 DEF Configured, ReadBy, Name
  <2> QED BY <2>1, <2>2
<1>8. OneVersion' /\ AcceptedOnlyComplete'
  BY DEF OneVersion, AcceptedOnlyComplete, Keys
<1> QED BY <1>1, <1>2, <1>3, <1>4, <1>5, <1>6, <1>7, <1>8

(* Kill: memory is gone.                                                   *)
LEMMA KillKeeps ==
  ASSUME IInv, Kill
  PROVE  IInv'
<1> USE DEF IInv, Typed, containers, process, world, bounds, Kill
<1>1. StatesTyped' /\ ContainersTyped'
  BY DEF StatesTyped, ContainersTyped
<1>2. ProcessTyped' /\ FilesTyped'
  BY DEF ProcessTyped, Preparing, FilesTyped
<1>3. BoundsTyped'
  BY DEF BoundsTyped
<1>4. Named' /\ InStep' /\ Current' /\ Configured'
  BY DEF Named, Measuring, Preparing, InStep, Current, Configured, ReadBy, Name, Role
<1>5. OneVersion' /\ AcceptedOnlyComplete'
  BY DEF OneVersion, AcceptedOnlyComplete, Keys
<1> QED BY <1>1, <1>2, <1>3, <1>4, <1>5

(* Edit: only between invocations.                                         *)
LEMMA EditKeeps ==
  ASSUME IInv, Edit
  PROVE  IInv'
<1> USE DEF IInv, Typed, containers, process, world, bounds, Edit, EditHarness, EditSource
<1>1. StatesTyped' /\ ContainersTyped' /\ ProcessTyped' /\ BoundsTyped'
  BY DEF StatesTyped, ContainersTyped, ProcessTyped, Preparing, BoundsTyped
<1>2. FilesTyped'
  BY BoundsFacts DEF FilesTyped, Versions
<1>3. Named' /\ InStep' /\ Current' /\ Configured'
  BY DEF Named, Measuring, Preparing, InStep, Current, Configured, ReadBy, Name, Role
<1>4. OneVersion' /\ AcceptedOnlyComplete'
  BY DEF OneVersion, AcceptedOnlyComplete, Keys
<1> QED BY <1>1, <1>2, <1>3, <1>4

(* DayPasses: only the certificate changes.                                *)
LEMMA DayPassesKeeps ==
  ASSUME IInv, DayPasses
  PROVE  IInv'
<1> USE DEF IInv, Typed, containers, process, world, bounds, DayPasses
<1>1. Typed'
  BY DEF StatesTyped, ContainersTyped, ProcessTyped, Preparing, FilesTyped, BoundsTyped
<1>2. Named' /\ InStep' /\ Current' /\ Configured'
  BY DEF Named, Measuring, Preparing, InStep, Current, Configured, ReadBy, Name, Role
<1>3. OneVersion' /\ AcceptedOnlyComplete'
  BY DEF OneVersion, AcceptedOnlyComplete, Keys
<1> QED BY <1>1, <1>2, <1>3

(* Builds: only the machine changes.                                       *)
LEMMA BuildsKeeps ==
  ASSUME IInv, Builds
  PROVE  IInv'
<1> USE DEF IInv, Typed, containers, process, world, bounds, Builds
<1>1. Typed'
  BY ZenonT(40) DEF StatesTyped, ContainersTyped, ProcessTyped, Preparing, FilesTyped, BoundsTyped
<1>2. Named' /\ InStep' /\ Current' /\ Configured'
  BY DEF Named, Measuring, Preparing, InStep, Current, Configured, ReadBy, Name, Role
<1>3. OneVersion' /\ AcceptedOnlyComplete'
  BY DEF OneVersion, AcceptedOnlyComplete, Keys
<1> QED BY <1>1, <1>2, <1>3

(* Every step preserves the invariant.                                     *)
LEMMA StepInvariant == IInv /\ [Next]_vars => IInv'
<1> SUFFICES ASSUME IInv, [Next]_vars  PROVE IInv'
  OBVIOUS
<1>1. CASE UNCHANGED vars
  <2> USE <1>1 DEF vars, containers, process, world, bounds
  <2>1. Typed'
    BY ZenonT(40) DEF IInv, Typed, StatesTyped, ContainersTyped, ProcessTyped, FilesTyped, BoundsTyped
  <2>2. Named' /\ InStep' /\ Current' /\ Configured'
    BY DEF IInv, Named, InStep, Current, Configured, ReadBy, Name, Role
  <2>3. OneVersion' /\ AcceptedOnlyComplete'
    BY DEF IInv, OneVersion, AcceptedOnlyComplete, Keys
  <2> QED BY <2>1, <2>2, <2>3 DEF IInv
<1>2. ASSUME NEW s \in Stages, NEW config \in Configs, Invoke(s, config)
      PROVE  IInv'
  BY <1>2, InvokeKeeps
<1>3. CASE Fixtures \/ StartContainer \/ RunContainer \/ RecordContainer \/ NameTaken
  BY <1>3, FixturesKeeps, StartContainerKeeps, RunContainerKeeps, RecordContainerKeeps,
     NameTakenKeeps
<1>4. CASE SaveEndpoints \/ Probe \/ ProbeExpired
  BY <1>4, SaveEndpointsKeeps, ProbeKeeps, ProbeExpiredKeeps
<1>5. CASE Invalidate \/ BeginSample \/ EndSample \/ StageDone
  BY <1>5, InvalidateKeeps, BeginSampleKeeps, EndSampleKeeps, StageDoneKeeps
<1>6. CASE Report \/ ReportFails \/ Stop
  BY <1>6, ReportKeeps, ReportFailsKeeps, StopKeeps
<1>7. CASE Raise \/ Kill \/ Edit \/ DayPasses \/ Builds
  BY <1>7, RaiseKeeps, KillKeeps, EditKeeps, DayPassesKeeps, BuildsKeeps
<1> QED BY <1>1, <1>2, <1>3, <1>4, <1>5, <1>6, <1>7 DEF Next

(* The inductive invariant holds in every reachable state, through any     *)
(* number of invocations, kills, errors and edits.                         *)
THEOREM Invariance == Spec => []IInv
<1>1. Init => IInv
  <2> SUFFICES ASSUME Init  PROVE IInv
    OBVIOUS
  <2>1. saved.samples = <<>> /\ ToSet(saved.samples) = {}
    BY DEF Init, Nothing, ToSet
  <2>2. Nothing \in States
    BY EmptySeq, BoundsFacts DEF Nothing, States
  <2>3. StatesTyped /\ ContainersTyped
    BY <2>2 DEF Init, StatesTyped, ContainersTyped
  <2>4. ProcessTyped /\ FilesTyped /\ BoundsTyped
    <3>1. ProcessTyped
      BY RoleFacts DEF Init, ProcessTyped, Stages
    <3>2. harness = 1 /\ source = 1 /\ edits = 0 /\ building = FALSE
      BY DEF Init
    <3>3. 1 \in 1 .. 1 + MaxEdits /\ 0 \in 0 .. MaxEdits /\ 0 \in 0 .. MaxInvocations
      BY BoundsFacts
    <3>4. building \in BOOLEAN
      BY <3>2
    <3>5. FilesTyped
      BY <3>2, <3>3, <3>4 DEF FilesTyped, Versions
    <3>6. BoundsTyped
      BY <3>3 DEF Init, BoundsTyped
    <3> QED BY <3>1, <3>5, <3>6
  <2>5. Named /\ InStep /\ Current /\ Configured
    BY DEF Init, Named, InStep, Current, Measuring, Preparing, Configured, ReadBy, Nothing
  <2>6. OneVersion /\ AcceptedOnlyComplete
    BY <2>1 DEF Init, OneVersion, AcceptedOnlyComplete
  <2> QED BY <2>3, <2>4, <2>5, <2>6 DEF IInv, Typed
<1> QED BY <1>1, StepInvariant, PTL DEF Spec

(* A summary passes only with every round of both modes on disk, taken     *)
(* with idle builds, whatever was interrupted and resumed before.          *)
THEOREM OnlyCompleteIsAccepted == Spec => []AcceptedOnlyComplete
<1>1. IInv => AcceptedOnlyComplete
  BY DEF IInv
<1> QED BY <1>1, Invariance, PTL

(* Samples only ever come by EndSample.                                    *)
LEMMA OnlyEndSample ==
  ASSUME IInv, Next
  PROVE  EndSample \/ saved'.samples = saved.samples
<1>1. saved \in States /\ mem \in States
  BY DEF IInv, Typed, StatesTyped
<1>2. CASE \E s \in Stages, config \in Configs : Invoke(s, config)
  BY <1>1, <1>2 DEF Invoke, Persist, States
<1>3. CASE RecordContainer \/ SaveEndpoints \/ Probe \/ Invalidate
  <2>1. mem.samples = saved.samples
    BY <1>3 DEF IInv, InStep, RecordContainer, SaveEndpoints, Probe, Invalidate
  <2>2. saved'.samples = mem.samples
    BY <1>1, <1>3 DEF RecordContainer, SaveEndpoints, Probe, Invalidate, Persist, States
  <2> QED BY <2>1, <2>2
<1>4. \/ EndSample
      \/ \E s \in Stages, config \in Configs : Invoke(s, config)
      \/ RecordContainer \/ SaveEndpoints \/ Probe \/ Invalidate
      \/ saved' = saved
  BY DEF Next, Fixtures, StartContainer, RunContainer, NameTaken, ProbeExpired, BeginSample,
         StageDone, Report, ReportFails, Stop, Raise, Kill, Edit, DayPasses, Builds
<1> QED BY <1>2, <1>3, <1>4

(* No step, a kill and a failing command included, loses or changes a      *)
(* sample that was persisted.                                              *)
THEOREM SamplesStay == Spec => NoSampleLost
<1> DEFINE Kept == IsPrefix(saved.samples, saved'.samples)
<1>1. IInv /\ [Next]_vars => [Kept]_vars
  <2> SUFFICES ASSUME IInv, Next  PROVE Kept
    BY DEF Kept
  <2>1. saved.samples \in Seq(Samples)
    BY DEF IInv, Typed, StatesTyped, States
  <2>2. CASE EndSample
    <3>1. PICK new \in Samples : saved'.samples = Append(saved.samples, new)
      BY <2>2, EndSampleAppends
    <3> QED BY <2>1, <3>1, AppendKeeps
  <2>3. CASE saved'.samples = saved.samples
    BY <2>1, <2>3, SameIsPrefix
  <2> QED BY <2>2, <2>3, OnlyEndSample
<1> QED BY <1>1, Invariance, PTL DEF Spec, NoSampleLost

(* Once a build was seen during a measurement, nothing changes the results *)
(* or the summary any more.                                                *)
THEOREM InvalidStays == Spec => InvalidIsFinal
<1> DEFINE Final == saved.invalid => UNCHANGED <<saved, summary>>
<1>1. IInv /\ [Next]_vars => [Final]_vars
  <2> SUFFICES ASSUME IInv, Next, saved.invalid  PROVE UNCHANGED <<saved, summary>>
    BY DEF Final
  <2>1. pc \in {"idle", "stop"}
    BY DEF IInv, InStep
  <2>2. CASE \E s \in Stages, config \in Configs : Invoke(s, config)
    BY <2>2 DEF Invoke, Refused
  <2>3. CASE ~ \E s \in Stages, config \in Configs : Invoke(s, config)
    BY <2>1, <2>3 DEF Next, Fixtures, StartContainer, RunContainer, RecordContainer, NameTaken,
       SaveEndpoints, Probe, ProbeExpired, Invalidate, BeginSample, EndSample, StageDone,
       Report,
       ReportFails, Stop, Raise, Kill, Edit, DayPasses, Builds
  <2> QED BY <2>2, <2>3
<1> QED BY <1>1, Invariance, PTL DEF Spec, InvalidIsFinal

-----------------------------------------------------------------------------
(* The order of the samples.  Those of a stage are its keys from the first *)
(* on, none of them twice.                                                 *)
Distinct ==
  \A i, j \in DOMAIN saved.samples :
    i < j => saved.samples[i].key # saved.samples[j].key

FromTheFirst ==
  \A i \in DOMAIN saved.samples, p \in 1 .. 2 * Rounds :
    LET st == saved.samples[i].key.stage
    IN  saved.samples[i].key = Order(st)[p] =>
          \A q \in 1 .. p - 1 : \E h \in 1 .. i - 1 : saved.samples[h].key = Order(st)[q]

Ordered == Distinct /\ FromTheFirst

(* One of two that follow each other is even.                              *)
LEMMA Parity ==
  ASSUME NEW r \in Nat
  PROVE  r % 2 \in {0, 1} /\ (1 + r) % 2 = 1 - (r % 2) /\ (0 + r) % 2 = r % 2
OBVIOUS

(* The keys of a stage, by their rounds.                                   *)
LEMMA OrderAt ==
  ASSUME NEW st, NEW r \in 0 .. Rounds - 1, NEW b \in {0, 1}
  PROVE  /\ 2 * r + b + 1 \in 1 .. 2 * Rounds
         /\ Order(st)[2 * r + b + 1]
              = [stage |-> st, mode |-> Modes[1 + ((b + r) % 2)], round |-> r]
<1> DEFINE p == 2 * r + b + 1
<1>1. p \in 1 .. 2 * Rounds /\ (p - 1) \div 2 = r /\ p - 1 + r = 2 * r + (b + r)
  BY RoundsAssumption
<1>2. (2 * r + (b + r)) % 2 = (b + r) % 2
  OBVIOUS
<1> QED BY <1>1, <1>2 DEF Order

(* Every place is of a round.                                              *)
LEMMA OrderFacts ==
  ASSUME NEW st, NEW p \in 1 .. 2 * Rounds
  PROVE  \E r \in 0 .. Rounds - 1, b \in {0, 1} :
           /\ p = 2 * r + b + 1
           /\ Order(st)[p].stage = st /\ Order(st)[p].round = r
           /\ Order(st)[p].mode = Modes[1 + ((b + r) % 2)]
<1>1. PICK r \in 0 .. Rounds - 1, b \in {0, 1} : p = 2 * r + b + 1
  <2>1. /\ (p - 1) \div 2 \in 0 .. Rounds - 1 /\ p - 1 - 2 * ((p - 1) \div 2) \in {0, 1}
        /\ p = 2 * ((p - 1) \div 2) + (p - 1 - 2 * ((p - 1) \div 2)) + 1
    BY RoundsAssumption
  <2> QED BY <2>1
<1>2. Order(st)[2 * r + b + 1]
        = [stage |-> st, mode |-> Modes[1 + ((b + r) % 2)], round |-> r]
  BY OrderAt
<1> QED BY <1>1, <1>2

(* No key has two places.                                                  *)
LEMMA OrderInjective ==
  ASSUME NEW s, NEW t, NEW p \in 1 .. 2 * Rounds, NEW q \in 1 .. 2 * Rounds,
         Order(s)[p] = Order(t)[q]
  PROVE  s = t /\ p = q
<1>1. PICK r \in 0 .. Rounds - 1, b \in {0, 1} :
        /\ p = 2 * r + b + 1 /\ Order(s)[p].stage = s /\ Order(s)[p].round = r
        /\ Order(s)[p].mode = Modes[1 + ((b + r) % 2)]
  BY OrderFacts
<1>2. PICK u \in 0 .. Rounds - 1, c \in {0, 1} :
        /\ q = 2 * u + c + 1 /\ Order(t)[q].stage = t /\ Order(t)[q].round = u
        /\ Order(t)[q].mode = Modes[1 + ((c + u) % 2)]
  BY OrderFacts
<1>3. s = t /\ r = u /\ Modes[1 + ((b + r) % 2)] = Modes[1 + ((c + u) % 2)]
  BY <1>1, <1>2
<1>4. b = c
  <2>1. Modes[1] # Modes[2]
    BY DEF Modes
  <2> QED BY <1>3, <2>1, Parity, RoundsAssumption
<1> QED BY <1>1, <1>2, <1>3, <1>4

(* No key of a stage has two places in it.                                 *)
LEMMA PlacesDiffer ==
  \A s : \A t, u \in 1 .. 2 * Rounds : Order(s)[t] = Order(s)[u] => t = u
BY OrderInjective

(* Every sample has a key of one of the stages.                            *)
LEMMA KeyHasPlace ==
  ASSUME NEW key \in KeySet
  PROVE  \E st \in {"capacity", "latency"}, p \in 1 .. 2 * Rounds :
            key = Order(st)[p] /\ key.stage = st
<1>1. \A st : DOMAIN Order(st) = 1 .. 2 * Rounds
  BY DEF Order
<1>2. PICK st \in {"capacity", "latency"}, p \in 1 .. 2 * Rounds : key = Order(st)[p]
  BY <1>1 DEF KeySet, ToSet
<1>3. key.stage = st
  BY <1>2, OrderFacts
<1> QED BY <1>2, <1>3

(* EndSample measures the first key that is missing.                       *)
LEMMA EndSampleOrdered ==
  ASSUME IInv, Ordered, EndSample
  PROVE  Ordered'
<1>1. PICK new \in Samples :
        /\ saved'.samples = Append(saved.samples, new)
        /\ new.key \in Missing /\ NextMissing(new.key)
  BY EndSampleAppends
<1> DEFINE old == saved.samples
           n == Len(saved.samples)
<1>2. old \in Seq(Samples) /\ n \in Nat /\ DOMAIN old = 1 .. n /\ mem.samples = old
  BY DEF IInv, Typed, StatesTyped, States, InStep, EndSample
<1>3. /\ DOMAIN saved'.samples = 1 .. n + 1 /\ saved'.samples[n + 1] = new
      /\ \A i \in 1 .. n : saved'.samples[i] = old[i]
  BY <1>1, <1>2, AppendProperties
<1>4. \A i \in 1 .. n : old[i].key \in Keys(mem)
  BY <1>2 DEF Keys, ToSet
<1>5. \A key \in Keys(mem) : \E h \in 1 .. n : old[h].key = key
  BY <1>2 DEF Keys, ToSet
<1>6. PICK m \in 1 .. 2 * Rounds : /\ new.key = Order(part)[m]
                                   /\ \A j \in 1 .. m - 1 : Order(part)[j] \notin Missing
  BY <1>1 DEF NextMissing
<1>7. Distinct'
  <2>1. \A i \in 1 .. n : old[i].key # new.key
    BY <1>1, <1>4 DEF Missing
  <2>2. ASSUME NEW i \in 1 .. n + 1, NEW j \in 1 .. n + 1, i < j
        PROVE  saved'.samples[i].key # saved'.samples[j].key
    <3>1. CASE j = n + 1
      BY <1>2, <1>3, <2>1, <2>2, <3>1, SMTT(30)
    <3>2. CASE j # n + 1
      <4>1. i \in DOMAIN old /\ j \in DOMAIN old
        BY <1>2, <2>2, <3>2
      <4>2. saved'.samples[i] = old[i] /\ saved'.samples[j] = old[j]
        BY <1>2, <1>3, <4>1
      <4> QED BY <2>2, <4>1, <4>2 DEF Ordered, Distinct
    <3> QED BY <3>1, <3>2
  <2> QED BY <1>3, <2>2 DEF Distinct
<1>8. FromTheFirst'
  <2>1. ASSUME NEW i \in 1 .. n + 1, NEW p \in 1 .. 2 * Rounds, NEW q \in 1 .. p - 1,
               saved'.samples[i].key = Order(saved'.samples[i].key.stage)[p]
        PROVE  \E h \in 1 .. i - 1 : saved'.samples[h].key
                                       = Order(saved'.samples[i].key.stage)[q]
    <3>1. CASE i = n + 1
      <4>1. saved'.samples[i] = new
        BY <1>3, <3>1
      <4>2. new.key.stage = part /\ p = m
        <5>1. Order(part)[m] = Order(new.key.stage)[p]
          BY <1>6, <2>1, <4>1
        <5> QED BY <5>1, OrderInjective
      <4>3. q \in 1 .. m - 1 /\ q \in 1 .. 2 * Rounds
        BY <2>1, <4>2, RoundsAssumption
      <4>4. Order(part)[q] \in ToSet(Order(part))
        BY <4>3 DEF Order, ToSet
      <4>5. Order(part)[q] \in Keys(mem)
        BY <1>6, <4>3, <4>4 DEF Missing
      <4>6. PICK h \in 1 .. n : old[h].key = Order(part)[q]
        BY <1>5, <4>5
      <4>7. h \in 1 .. i - 1 /\ saved'.samples[h] = old[h]
        BY <1>2, <1>3, <3>1
      <4> QED BY <4>1, <4>2, <4>6, <4>7
    <3>2. CASE i # n + 1
      <4>1. i \in 1 .. n /\ saved'.samples[i] = old[i]
        BY <1>2, <1>3, <3>2
      <4>2. PICK h \in 1 .. i - 1 : old[h].key = Order(old[i].key.stage)[q]
        BY <1>2, <2>1, <4>1 DEF Ordered, FromTheFirst
      <4>3. saved'.samples[h] = old[h]
        BY <1>2, <1>3, <4>1
      <4> QED BY <4>1, <4>2, <4>3
    <3> QED BY <3>1, <3>2
  <2> QED BY <1>3, <2>1 DEF FromTheFirst
<1> QED BY <1>7, <1>8 DEF Ordered

(* The samples of every reachable state are in order.                      *)
LEMMA SamplesInOrder == Spec => []Ordered
<1>1. Init => Ordered
  <2> SUFFICES ASSUME Init  PROVE Ordered
    OBVIOUS
  <2>1. DOMAIN saved.samples = {}
    BY DEF Init, Nothing
  <2> QED BY <2>1 DEF Ordered, Distinct, FromTheFirst
<1>2. IInv /\ Ordered /\ [Next]_vars => Ordered'
  <2> SUFFICES ASSUME IInv, Ordered, [Next]_vars  PROVE Ordered'
    OBVIOUS
  <2>1. CASE saved'.samples = saved.samples
    BY <2>1 DEF Ordered, Distinct, FromTheFirst
  <2>2. CASE Next
    BY <2>1, <2>2, OnlyEndSample, EndSampleOrdered
  <2>3. CASE UNCHANGED vars
    BY <2>1, <2>3 DEF vars
  <2> QED BY <2>2, <2>3
<1> QED BY <1>1, <1>2, Invariance, PTL DEF Spec

(* What the order of the samples comes to.                                 *)
LEMMA OrderPairsRounds ==
  ASSUME IInv, Ordered
  PROVE  RoundsArePaired
<1> DEFINE key(i) == saved.samples[i].key
           D == DOMAIN saved.samples
<1>1. /\ D = 1 .. Len(saved.samples) /\ Len(saved.samples) \in Nat
      /\ \A i \in D : key(i) \in KeySet
  <2>1. saved.samples \in Seq(Samples)
    BY DEF IInv, Typed, StatesTyped, States
  <2>2. D = 1 .. Len(saved.samples) /\ Len(saved.samples) \in Nat
    BY <2>1
  <2>3. \A i \in D : saved.samples[i] \in Samples
    BY <2>1, <2>2
  <2> QED BY <2>2, <2>3 DEF Samples
<1> SUFFICES ASSUME NEW i \in D, NEW j \in D, i < j, key(i).stage = key(j).stage
             PROVE  /\ key(i) # key(j)
                    /\ key(i).round <= key(j).round
                    /\ key(i).round < key(j).round =>
                         /\ \A mode \in ToSet(Modes) :
                              \E h \in 1 .. j - 1 : /\ key(h).stage = key(j).stage
                                                    /\ key(h).round = key(i).round
                                                    /\ key(h).mode = mode
                         /\ (\A h \in i + 1 .. j - 1 : key(h).stage # key(j).stage)
                              => key(i).mode = key(j).mode
  BY DEF RoundsArePaired
<1> DEFINE st == key(i).stage
<1>2. key(i) # key(j)
  BY DEF Ordered, Distinct
<1>3. PICK p \in 1 .. 2 * Rounds : key(i) = Order(st)[p]
  BY <1>1, KeyHasPlace
<1>4. PICK q \in 1 .. 2 * Rounds : key(j) = Order(st)[q]
  BY <1>1, KeyHasPlace, SMTT(30)
<1>5. \A t, u \in 1 .. 2 * Rounds : Order(st)[t] = Order(st)[u] => t = u
  BY PlacesDiffer
(* Every earlier place was measured before.                                *)
<1>6. \A t \in 1 .. q - 1 : \E h \in 1 .. j - 1 : key(h) = Order(st)[t]
  BY <1>4 DEF Ordered, FromTheFirst
<1>7. p < q
  <2> SUFFICES ASSUME q < p  PROVE FALSE
    BY <1>2, <1>3, <1>4
  <2>1. PICK h \in 1 .. i - 1 : key(h) = Order(st)[q]
    BY <1>3 DEF Ordered, FromTheFirst
  <2>2. h \in D /\ h < j
    BY <1>1, <2>1
  <2> QED BY <1>4, <2>1, <2>2 DEF Ordered, Distinct
<1>8. PICK r \in 0 .. Rounds - 1, b \in {0, 1} :
        p = 2 * r + b + 1 /\ key(i).round = r /\ key(i).mode = Modes[1 + ((b + r) % 2)]
  <2>1. \E r \in 0 .. Rounds - 1, b \in {0, 1} :
           /\ p = 2 * r + b + 1 /\ Order(st)[p].round = r
           /\ Order(st)[p].mode = Modes[1 + ((b + r) % 2)]
    BY OrderFacts
  <2> QED BY <1>3, <2>1
<1>9. PICK s \in 0 .. Rounds - 1, c \in {0, 1} :
        q = 2 * s + c + 1 /\ key(j).round = s /\ key(j).mode = Modes[1 + ((c + s) % 2)]
  <2>1. \E s \in 0 .. Rounds - 1, c \in {0, 1} :
           /\ q = 2 * s + c + 1 /\ Order(st)[q].round = s
           /\ Order(st)[q].mode = Modes[1 + ((c + s) % 2)]
    BY OrderFacts, SMTT(30)
  <2> QED BY <1>4, <2>1
<1>10. key(i).round <= key(j).round
  BY <1>7, <1>8, <1>9, RoundsAssumption
<1>11. ASSUME r < s, NEW mode \in ToSet(Modes)
      PROVE  \E h \in 1 .. j - 1 : /\ key(h).stage = st /\ key(h).round = r
                                   /\ key(h).mode = mode
  <2>1. \A a \in {0, 1} : 2 * r + a + 1 \in 1 .. q - 1
    BY <1>9, <1>11, RoundsAssumption
  <2>2. PICK a \in {0, 1} : mode = Modes[1 + ((a + r) % 2)]
    <3>1. mode = Modes[1] \/ mode = Modes[2]
      BY <1>11 DEF ToSet, Modes
    <3> QED BY <3>1, Parity, RoundsAssumption
  <2>3. PICK h \in 1 .. j - 1 : key(h) = Order(st)[2 * r + a + 1]
    BY <1>6, <2>1
  <2>4. Order(st)[2 * r + a + 1]
          = [stage |-> st, mode |-> Modes[1 + ((a + r) % 2)], round |-> r]
    BY OrderAt, ZenonT(40)
  <2> QED BY <2>2, <2>3, <2>4
<1>12. ASSUME r < s, \A h \in i + 1 .. j - 1 : key(h).stage # st
       PROVE  key(i).mode = key(j).mode
  (* The place before that of j was measured before j, and not after i.     *)
  <2>1. p = q - 1
    <3>1. q - 1 \in 1 .. q - 1 /\ q - 1 \in 1 .. 2 * Rounds
      BY <1>7, RoundsAssumption
    <3>2. PICK h \in 1 .. j - 1 : key(h) = Order(st)[q - 1]
      BY <1>6, <3>1
    <3>3. key(h).stage = st
      <4>1. Order(st)[q - 1].stage = st
        BY <3>1, OrderFacts
      <4> QED BY <3>2, <4>1
    <3>4. h \in 1 .. i /\ h \in D
      <4>1. h \in D /\ h \in Nat
        BY <1>1, <3>2
      <4>2. h \notin i + 1 .. j - 1
        BY <1>12, <3>3
      <4> QED BY <1>1, <3>2, <4>1, <4>2
    <3>5. CASE h = i
      <4>1. Order(st)[p] = Order(st)[q - 1]
        <5>1. key(h) = key(i)
          BY <3>5
        <5> QED BY <1>3, <3>2, <5>1
      <4> QED BY <1>5, <3>1, <4>1
    <3>6. CASE h < i
      <4>1. ~(p < q - 1)
        <5> SUFFICES ASSUME p < q - 1  PROVE FALSE
          OBVIOUS
        <5>1. PICK g \in 1 .. h - 1 : key(g) = Order(st)[p]
          BY <3>1, <3>2, <3>3, <3>4 DEF Ordered, FromTheFirst
        <5>2. g \in D /\ g < i
          BY <1>1, <3>4, <3>6, <5>1
        <5> QED BY <1>3, <5>1, <5>2 DEF Ordered, Distinct
      <4> QED BY <1>7, <4>1, RoundsAssumption
    <3>7. h \in Nat /\ i \in Nat
      BY <1>1, <3>4
    <3> QED BY <3>4, <3>5, <3>6, <3>7
  <2>2. s = 1 + r /\ b = 1 /\ c = 0
    BY <1>8, <1>9, <1>12, <2>1, RoundsAssumption
  <2> QED BY <1>8, <1>9, <2>2
<1> QED BY <1>2, <1>8, <1>9, <1>10, <1>11, <1>12

(* Over any number of invocations, kills, errors, edits and days, whatever *)
(* the roles and the rounds: the samples of a state are of one version of  *)
(* the harness and the sources, and paired round by round.                 *)
THEOREM SamplesStaySound == Spec => []SamplesAreSound
<1>1. IInv => TypeOK
  BY DEF IInv, Typed, StatesTyped, ContainersTyped, ProcessTyped, FilesTyped, TypeOK
<1>2. IInv /\ Ordered => SamplesAreSound
  BY <1>1, OrderPairsRounds DEF IInv, SamplesAreSound
<1> QED BY <1>2, Invariance, SamplesInOrder, PTL

-----------------------------------------------------------------------------
(* The containers.  Where the process and the state on disk agree about    *)
(* them, and what a process that ends abnormally leaves between the two.   *)
Known ==
  pc # "idle" =>
    /\ saved.run_id \in {0, mem.run_id}
    /\ saved.containers \subseteq mem.containers
    /\ pc # "stop" => saved.containers = mem.containers
    /\ pc = "record" => Role \notin mem.containers /\ podman[Name] # "absent"
    /\ pc = "stop" => \A r \in mem.containers \ saved.containers :
                        podman[<<mem.run_id, r>>] # "absent"
    /\ stage = "report" => pc = "report"
    /\ pc = "fixtures" => k = 1

Running == {n \in Names : podman[n] = "running"}
Own == {mem.run_id} \X (mem.containers \cup (IF pc = "record" THEN {Role} ELSE {}))

(* Without interruptions nothing runs between invocations, and within one  *)
(* only its own containers, with its own configuration.                    *)
Quiet ==
  /\ pc \in {"idle", "fixtures"} \/ stage = "report" => Running = {}
  /\ pc # "idle" => Running \subseteq Own /\ \A n \in Running : conf[n] = mem.harness
  /\ pc \in Measuring =>
       LET done == IF pc \in {"container", "record"} THEN 1 .. k - 1 ELSE DOMAIN Roles
       IN  \A i \in done : /\ Roles[i] \in mem.containers
                           /\ <<mem.run_id, Roles[i]>> \in Running
  /\ pc = "record" => Name \in Running

OwnSamples == \A sample \in ToSet(saved.samples) : sample.served = {sample.harness}

CInv ==
  /\ Known /\ LeaksNeedInterruption /\ StoppedAfterInvocation
  /\ kills + errors = 0 => Quiet /\ OwnSamples

(* Sets of names can be counted.                                           *)
LEMMA Fewer ==
  ASSUME NEW S \in SUBSET Names, NEW T \in SUBSET S
  PROVE  Cardinality(T) <= Cardinality(S) /\ Cardinality(T) \in Nat /\ Cardinality(S) \in Nat
BY RoleSetFinite, FS_Subset, FS_CardinalityType

(* One name more.                                                          *)
LEMMA OneMore ==
  ASSUME NEW S \in SUBSET Names, NEW n, NEW T \in SUBSET (S \cup {n})
  PROVE  Cardinality(T) <= Cardinality(S) + 1
<1>1. IsFiniteSet(S) /\ Cardinality(S) \in Nat
  BY RoleSetFinite, FS_Subset, FS_CardinalityType
<1>2. IsFiniteSet(S \cup {n}) /\ Cardinality(S \cup {n}) <= Cardinality(S) + 1
  BY <1>1, FS_AddElement, SMTT(30)
<1>3. Cardinality(T) <= Cardinality(S \cup {n}) /\ Cardinality(T) \in Nat
  BY <1>2, FS_Subset, FS_CardinalityType
<1>4. Cardinality(S \cup {n}) \in Nat
  BY <1>2, FS_CardinalityType
<1> QED BY <1>1, <1>2, <1>3, <1>4

(* One name less.                                                          *)
LEMMA OneFewer ==
  ASSUME NEW S \in SUBSET Names, NEW n \in S, NEW T \in SUBSET (S \ {n})
  PROVE  Cardinality(T) <= Cardinality(S) - 1 /\ Cardinality(S) \in Nat
<1>1. IsFiniteSet(S) /\ Cardinality(S) \in Nat
  BY RoleSetFinite, FS_Subset, FS_CardinalityType
<1>2. IsFiniteSet(S \ {n}) /\ Cardinality(S \ {n}) = Cardinality(S) - 1
  BY <1>1, FS_RemoveElement
<1> QED BY <1>1, <1>2, FS_Subset

(* A name is an invocation and a role.                                     *)
LEMMA NamesAre ==
  /\ \A i \in 1 .. MaxInvocations, r \in RoleSet :
       <<i, r>> \in Names /\ <<i, r>>[1] = i /\ <<i, r>>[2] = r
  /\ \A n \in Names : n = <<n[1], n[2]>> /\ n[1] \in 1 .. MaxInvocations /\ n[2] \in RoleSet
BY DEF Names

(* What the containers of the two states are called.                       *)
LEMMA StateFacts ==
  ASSUME IInv
  PROVE  /\ saved.containers \subseteq RoleSet /\ mem.containers \subseteq RoleSet
         /\ saved.run_id \in 0 .. MaxInvocations /\ mem.run_id \in 0 .. MaxInvocations
         /\ saved.containers # {} => saved.run_id \in 1 .. MaxInvocations
         /\ pc # "idle" /\ mem.containers # {} => mem.run_id \in 1 .. MaxInvocations
         /\ kills \in Nat /\ errors \in Nat /\ DOMAIN podman = Names /\ DOMAIN conf = Names
         /\ pc \in {"container", "record"} =>
              Role \in RoleSet /\ Name \in Names /\ Name[1] = mem.run_id /\ Name[2] = Role
<1>1. /\ saved.containers \subseteq RoleSet /\ mem.containers \subseteq RoleSet
      /\ saved.run_id \in 0 .. MaxInvocations /\ mem.run_id \in 0 .. MaxInvocations
  BY DEF IInv, Typed, StatesTyped, States
<1>2. /\ saved.containers # {} => saved.run_id \in 1 .. MaxInvocations
      /\ pc # "idle" /\ mem.containers # {} => mem.run_id \in 1 .. MaxInvocations
  BY DEF IInv, Configured, ReadBy
<1>3. kills \in Nat /\ errors \in Nat /\ DOMAIN podman = Names /\ DOMAIN conf = Names
  BY DEF IInv, Typed, BoundsTyped, ContainersTyped
<1>4. ASSUME pc \in {"container", "record"}
      PROVE  Role \in RoleSet /\ Name \in Names /\ Name[1] = mem.run_id /\ Name[2] = Role
  <2>1. mem.run_id \in 1 .. MaxInvocations
    BY <1>1, <1>4 DEF IInv, Named, Measuring
  <2>2. Role \in RoleSet
    BY RoleFacts DEF Role, IInv, Typed, ProcessTyped
  <2> QED BY <2>1, <2>2, NamesAre DEF Name
<1> QED BY <1>1, <1>2, <1>3, <1>4

(* What is unrecorded is a name.                                           *)
LEMMA UnrecordedNames == Unrecorded \in SUBSET Names /\ Unrecorded' \in SUBSET Names
BY DEF Unrecorded, Names

(* Nothing new is unrecorded, or an interruption accounts for it.          *)
LEMMA LeaksKeep ==
  ASSUME IInv, CInv, IInv', Unrecorded' \subseteq Unrecorded,
         kills' + errors' >= kills + errors,
         pc = "record" => (pc' = "record" \/ kills' + errors' > kills + errors)
  PROVE  LeaksNeedInterruption'
<1>1. Cardinality(Unrecorded') <= Cardinality(Unrecorded)
      /\ Cardinality(Unrecorded') \in Nat /\ Cardinality(Unrecorded) \in Nat
  BY UnrecordedNames, Fewer
<1>2. kills \in Nat /\ errors \in Nat
  BY DEF IInv, Typed, BoundsTyped
<1>3. kills' \in Nat /\ errors' \in Nat
  BY DEF IInv, Typed, BoundsTyped
<1>4. Cardinality(Unrecorded) <= kills + errors + IF pc = "record" THEN 1 ELSE 0
  BY DEF CInv, LeaksNeedInterruption
<1> DEFINE n == Cardinality(Unrecorded)
           m == Cardinality(Unrecorded')
           a == kills + errors
           b == kills' + errors'
<1>5. m <= n /\ m \in Nat /\ n \in Nat /\ a \in Nat /\ b \in Nat /\ b >= a
  <2>1. m <= n
    BY <1>1
  <2>2. m \in Nat
    BY <1>1
  <2>3. n \in Nat
    BY <1>1
  <2>4. a \in Nat
    BY <1>2
  <2>5. b \in Nat
    <3>1. \A x, y \in Nat : x + y \in Nat
      OBVIOUS
    <3> QED BY <1>3, <3>1
  <2>6. b >= a
    OBVIOUS
  <2> QED BY <2>1, <2>2, <2>3, <2>4, <2>5, <2>6
<1>6. /\ pc = "record" => n <= a + 1
      /\ pc # "record" => n <= a
  <2>1. a + 0 = a
    BY <1>5
  <2> QED BY <1>4, <2>1
<1> HIDE DEF n, m, a, b
<1>7. CASE pc = "record" /\ pc' = "record"
  <2>1. m <= b + 1
    BY <1>7, <1>5, <1>6
  <2> QED BY <1>7, <2>1 DEF LeaksNeedInterruption, m, b
<1>8. CASE pc = "record" /\ kills' + errors' > kills + errors
  <2>1. m <= b /\ m <= b + 1
    BY <1>8, <1>5, <1>6 DEF a, b
  <2> QED BY <1>5, <2>1 DEF LeaksNeedInterruption, m, b
<1>9. CASE pc # "record"
  <2>1. m <= b /\ m <= b + 1
    BY <1>9, <1>5, <1>6
  <2> QED BY <1>5, <2>1 DEF LeaksNeedInterruption, m, b
<1> QED BY <1>7, <1>8, <1>9

(* A step within an invocation that leaves the containers alone.           *)
LEMMA MoveKeeps ==
  ASSUME IInv, CInv, IInv',
         \/ pc \notin {"idle", "fixtures", "container", "record", "stop"}
         \/ pc = "container" /\ pc' = "stop",
         UNCHANGED <<podman, conf, kills, errors, stage, k>>,
         mem'.containers = mem.containers, mem'.run_id = mem.run_id,
         mem'.harness = mem.harness,
         \/ saved'.run_id = saved.run_id /\ saved'.containers = saved.containers
         \/ saved'.run_id = mem.run_id /\ saved'.containers = mem.containers,
         pc' \notin {"fixtures", "container", "record"},
         pc' = "idle" => stage = "report",
         stage = "report" => pc' \in {"idle", "report"},
         pc' \in Measuring => pc \in Measuring,
         kills + errors = 0 => OwnSamples'
  PROVE  CInv'
<1> USE DEF CInv
<1>1. Known'
  BY DEF Known
<1>2. LeaksNeedInterruption'
  <2>1. \A n \in Names : n[1] = saved.run_id /\ n[2] \in saved.containers
                           => n[1] = saved'.run_id /\ n[2] \in saved'.containers
    BY StateFacts DEF Known
  <2>2. Unrecorded' \subseteq Unrecorded
    BY <2>1 DEF Unrecorded
  <2>3. kills' + errors' >= kills + errors
    BY StateFacts
  <2> QED BY <2>2, <2>3, LeaksKeep
<1>3. StoppedAfterInvocation'
  BY DEF StoppedAfterInvocation
<1>4. (kills + errors = 0 => Quiet /\ OwnSamples)'
  BY DEF Quiet, Running, Own, Measuring
<1> QED BY <1>1, <1>2, <1>3, <1>4

(* Nothing that the containers are about changes.                          *)
LEMMA SameKeeps ==
  ASSUME CInv, UNCHANGED <<saved, mem, podman, conf, pc, k, stage, exit, kills, errors>>
  PROVE  CInv'
BY DEF CInv, Known, LeaksNeedInterruption, Unrecorded, StoppedAfterInvocation, Quiet, Running,
       Own, OwnSamples, Name, Role

(* Invoke: what the last invocation left is all that there is.             *)
LEMMA InvokeContainers ==
  ASSUME IInv, CInv, IInv', NEW s \in Stages, NEW config \in Configs, Invoke(s, config)
  PROVE  CInv'
<1> USE DEF CInv
<1>1. /\ pc = "idle" /\ pc' \in {"idle", "report", "fixtures"} /\ k' = 1 /\ stage' = s
      /\ UNCHANGED <<podman, conf, kills, errors>>
      /\ pc' = "idle" => exit' = "refused"
      /\ pc' = "report" <=> pc' # "idle" /\ s = "report"
      /\ \/ pc' = "idle" /\ UNCHANGED <<saved, mem>>
         \/ mem' = saved'
  BY DEF Invoke, containers, Persist
<1>2. /\ saved'.run_id = saved.run_id /\ saved'.containers = saved.containers
      /\ saved'.samples = saved.samples
  BY DEF Invoke, Persist, IInv, Typed, StatesTyped, States
<1>3. Known'
  BY <1>1, <1>2 DEF Known
<1>4. LeaksNeedInterruption'
  <2>1. Unrecorded' \subseteq Unrecorded
    BY <1>1, <1>2 DEF Unrecorded
  <2>2. kills' + errors' >= kills + errors
    BY <1>1, StateFacts
  <2> QED BY <1>1, <2>1, <2>2, LeaksKeep
<1>5. StoppedAfterInvocation'
  BY <1>1 DEF StoppedAfterInvocation
<1>6. (kills + errors = 0 => Quiet /\ OwnSamples)'
  BY <1>1, <1>2 DEF Quiet, Running, Measuring, OwnSamples
<1> QED BY <1>3, <1>4, <1>5, <1>6

(* Fixtures: nothing runs yet.                                             *)
LEMMA FixturesContainers ==
  ASSUME IInv, CInv, IInv', Fixtures
  PROVE  CInv'
<1> USE DEF CInv
<1>1. /\ pc = "fixtures" /\ pc' = "container" /\ k' = k /\ k = 1 /\ stage' = stage
      /\ stage # "report"
      /\ UNCHANGED <<saved, podman, conf, kills, errors>>
      /\ mem'.containers = mem.containers
      /\ mem.run_id # 0 => mem'.run_id = mem.run_id
  BY DEF Fixtures, containers, bounds, Known, IInv, Typed, StatesTyped, States
<1>2. Known'
  BY <1>1 DEF Known
<1>3. LeaksNeedInterruption'
  <2>1. Unrecorded' \subseteq Unrecorded
    BY <1>1 DEF Unrecorded
  <2>2. kills' + errors' >= kills + errors
    BY <1>1, StateFacts
  <2> QED BY <1>1, <2>1, <2>2, LeaksKeep
<1>4. StoppedAfterInvocation'
  BY <1>1 DEF StoppedAfterInvocation
<1>5. (kills + errors = 0 => Quiet /\ OwnSamples)'
  BY <1>1 DEF Quiet, Running, OwnSamples
<1> QED BY <1>2, <1>3, <1>4, <1>5

(* StartContainer: a container of this run and of this harness.            *)
LEMMA StartContainerContainers ==
  ASSUME IInv, CInv, IInv', StartContainer
  PROVE  CInv'
<1> USE DEF CInv
<1>1. /\ pc = "container" /\ pc' \in {"container", "endpoints"} /\ stage' = stage
      /\ UNCHANGED <<saved, mem, kills, errors>> /\ Role \in mem.containers
      /\ pc' = "container" => k < Len(Roles) /\ k' = k + 1
      /\ pc' = "endpoints" => ~(k < Len(Roles))
  BY DEF StartContainer, NextRole, bounds
<1>2. /\ \A n \in Names : n # Name => podman'[n] = podman[n] /\ conf'[n] = conf[n]
      /\ podman'[Name] = "running"
      /\ podman[Name] # "running" => conf'[Name] = mem.harness
      /\ podman[Name] = "running" => conf'[Name] = conf[Name]
  BY <1>1, StateFacts DEF StartContainer, Started, containers
<1>3. Known'
  BY <1>1 DEF Known
<1>4. LeaksNeedInterruption'
  <2>1. Name[1] = saved.run_id /\ Name[2] \in saved.containers
    BY <1>1, StateFacts DEF Known
  <2>2. Unrecorded' \subseteq Unrecorded
    BY <1>1, <1>2, <2>1 DEF Unrecorded
  <2>3. kills' + errors' >= kills + errors
    BY <1>1, StateFacts
  <2> QED BY <1>1, <2>2, <2>3, LeaksKeep
<1>5. StoppedAfterInvocation'
  BY <1>1 DEF StoppedAfterInvocation
<1>6. ASSUME kills + errors = 0
      PROVE  Quiet' /\ OwnSamples'
  <2>1. Running' = Running \cup {Name}
    BY <1>2, <1>1, StateFacts DEF Running
  <2>2. Own' = Own /\ Name \in Own
    BY <1>1, StateFacts DEF Own, Name
  <2>3. Running' \subseteq Own' /\ \A n \in Running' : conf'[n] = mem'.harness
    BY <1>1, <1>2, <1>6, <2>1, <2>2 DEF Quiet, Running
  <2>4. k \in 1 .. Len(Roles) /\ DOMAIN Roles = 1 .. Len(Roles)
    <3>1. k \in 1 .. Len(Roles)
      BY DEF IInv, Typed, ProcessTyped
    <3>2. DOMAIN Roles = 1 .. Len(Roles)
      BY RolesAssumption
    <3> QED BY <3>1, <3>2
  <2>5. \A i \in 1 .. k : Roles[i] \in mem.containers /\ <<mem.run_id, Roles[i]>> \in Running'
    <3> SUFFICES ASSUME NEW i \in 1 .. k
                 PROVE  Roles[i] \in mem.containers /\ <<mem.run_id, Roles[i]>> \in Running'
      OBVIOUS
    <3>1. CASE i = k
      BY <1>1, <2>1, <3>1 DEF Name, Role
    <3>2. CASE i # k
      <4>1. i \in 1 .. k - 1
        BY <2>4, <3>2
      <4>2. Roles[i] \in mem.containers /\ <<mem.run_id, Roles[i]>> \in Running
        BY <1>1, <1>6, <4>1 DEF Quiet, Measuring
      <4> QED BY <2>1, <4>2
    <3> QED BY <3>1, <3>2
  <2>6. stage # "report"
    BY <1>1 DEF Known
  <2>7. LET done == IF pc' \in {"container", "record"} THEN 1 .. k' - 1 ELSE DOMAIN Roles
        IN  done \subseteq 1 .. k
    BY <1>1, <2>4
  <2>8. Quiet'
    BY <1>1, <2>3, <2>5, <2>6, <2>7 DEF Quiet
  <2> QED BY <1>1, <1>6, <2>8 DEF OwnSamples
<1> QED BY <1>1, <1>3, <1>4, <1>5, <1>6

(* RunContainer: one more container, which is not recorded yet.            *)
LEMMA RunContainerContainers ==
  ASSUME IInv, CInv, IInv', RunContainer
  PROVE  CInv'
<1> USE DEF CInv
<1>1. /\ pc = "container" /\ pc' = "record" /\ stage' = stage /\ k' = k
      /\ UNCHANGED <<saved, mem, kills, errors>> /\ Role \notin mem.containers
      /\ podman' = [podman EXCEPT ![Name] = "running"]
      /\ conf' = [conf EXCEPT ![Name] = mem.harness]
      /\ Name' = Name /\ Role' = Role
  BY DEF RunContainer, Started, bounds, Name, Role
<1>2. /\ \A n \in Names : n # Name => podman'[n] = podman[n] /\ conf'[n] = conf[n]
      /\ podman'[Name] = "running" /\ conf'[Name] = mem.harness
  BY <1>1, StateFacts
<1>3. Known'
  BY <1>1, <1>2 DEF Known
<1>4. LeaksNeedInterruption'
  <2>1. Unrecorded' \subseteq Unrecorded \cup {Name}
    BY <1>1, <1>2 DEF Unrecorded
  <2>2. Cardinality(Unrecorded') <= Cardinality(Unrecorded) + 1
    BY <2>1, UnrecordedNames, OneMore
  <2>3. Cardinality(Unrecorded) \in Nat /\ Cardinality(Unrecorded') \in Nat
    BY UnrecordedNames, Fewer
  <2>4. Cardinality(Unrecorded) <= kills + errors
    BY <1>1, <2>3, StateFacts DEF LeaksNeedInterruption
  <2> QED BY <1>1, <2>2, <2>3, <2>4, StateFacts DEF LeaksNeedInterruption
<1>5. StoppedAfterInvocation'
  BY <1>1 DEF StoppedAfterInvocation
<1>6. ASSUME kills + errors = 0
      PROVE  Quiet' /\ OwnSamples'
  <2>1. Running' = Running \cup {Name}
    BY <1>1, <1>2, StateFacts DEF Running
  <2>2. Own' = Own \cup {Name}
    BY <1>1 DEF Own, Name
  <2>3. Running' \subseteq Own' /\ \A n \in Running' : conf'[n] = mem'.harness
    BY <1>1, <1>2, <1>6, <2>1, <2>2 DEF Quiet, Running
  <2>4. stage # "report"
    BY <1>1 DEF Known
  <2>5. Quiet'
    BY <1>1, <1>6, <2>1, <2>3, <2>4 DEF Quiet, Measuring
  <2> QED BY <1>1, <1>6, <2>5 DEF OwnSamples
<1> QED BY <1>1, <1>3, <1>4, <1>5, <1>6

(* RecordContainer: the container is no longer unrecorded.                 *)
LEMMA RecordContainerContainers ==
  ASSUME IInv, CInv, IInv', RecordContainer
  PROVE  CInv'
<1> USE DEF CInv
<1>1. /\ pc = "record" /\ pc' \in {"container", "endpoints"} /\ stage' = stage
      /\ UNCHANGED <<podman, conf, kills, errors>> /\ saved' = mem'
      /\ pc' = "container" => k < Len(Roles) /\ k' = k + 1
      /\ pc' = "endpoints" => ~(k < Len(Roles))
  BY DEF RecordContainer, NextRole, bounds, Persist, containers
<1>2. /\ mem'.containers = mem.containers \cup {Role} /\ mem'.run_id = mem.run_id
      /\ mem'.harness = mem.harness /\ mem'.samples = saved.samples
  BY DEF RecordContainer, Persist, IInv, Typed, StatesTyped, States, InStep
<1>3. Known'
  BY <1>1 DEF Known
<1>4. LeaksNeedInterruption'
  <2>1. Name \in Unrecorded
    BY <1>1, StateFacts DEF Unrecorded, Known
  <2>2. \A n \in Names : n[1] = saved.run_id /\ n[2] \in saved.containers
                           => n[1] = saved'.run_id /\ n[2] \in saved'.containers
    BY <1>1, <1>2, StateFacts DEF Known
  <2>3. Unrecorded' \subseteq Unrecorded \ {Name}
    BY <1>1, <1>2, <2>2, StateFacts DEF Unrecorded
  <2>4. Cardinality(Unrecorded') <= Cardinality(Unrecorded) - 1
        /\ Cardinality(Unrecorded) \in Nat /\ Cardinality(Unrecorded') \in Nat
    BY <2>1, <2>3, UnrecordedNames, OneFewer, Fewer
  <2>5. Cardinality(Unrecorded) <= kills + errors + 1
    BY <1>1 DEF LeaksNeedInterruption
  <2>6. kills \in Nat /\ errors \in Nat
    BY StateFacts
  <2>7. Cardinality(Unrecorded') <= kills' + errors' + 0
    BY <1>1, <2>4, <2>5, <2>6
  <2> QED BY <1>1, <2>7 DEF LeaksNeedInterruption
<1>5. StoppedAfterInvocation'
  BY <1>1 DEF StoppedAfterInvocation
<1>6. ASSUME kills + errors = 0
      PROVE  Quiet' /\ OwnSamples'
  <2>1. Running' = Running /\ Name \in Running
    BY <1>1, <1>6 DEF Running, Quiet
  <2>2. Own' = Own
    BY <1>1, <1>2 DEF Own
  <2>3. Running' \subseteq Own' /\ \A n \in Running' : conf'[n] = mem'.harness
    BY <1>1, <1>2, <1>6, <2>1, <2>2 DEF Quiet
  <2>4. k \in 1 .. Len(Roles) /\ DOMAIN Roles = 1 .. Len(Roles)
    <3>1. k \in 1 .. Len(Roles)
      BY DEF IInv, Typed, ProcessTyped
    <3>2. DOMAIN Roles = 1 .. Len(Roles)
      BY RolesAssumption
    <3> QED BY <3>1, <3>2
  <2>5. \A i \in 1 .. k : /\ Roles[i] \in mem'.containers
                          /\ <<mem'.run_id, Roles[i]>> \in Running'
    <3> SUFFICES ASSUME NEW i \in 1 .. k
                 PROVE  /\ Roles[i] \in mem'.containers
                        /\ <<mem'.run_id, Roles[i]>> \in Running'
      OBVIOUS
    <3>1. CASE i = k
      BY <1>1, <1>2, <2>1, <3>1 DEF Name, Role
    <3>2. CASE i # k
      <4>1. i \in 1 .. k - 1
        BY <2>4, <3>2
      <4>2. Roles[i] \in mem.containers /\ <<mem.run_id, Roles[i]>> \in Running
        BY <1>1, <1>6, <4>1 DEF Quiet, Measuring
      <4> QED BY <1>2, <2>1, <4>2
    <3> QED BY <3>1, <3>2
  <2>6. stage # "report"
    BY <1>1 DEF Known
  <2>7. LET done == IF pc' \in {"container", "record"} THEN 1 .. k' - 1 ELSE DOMAIN Roles
        IN  done \subseteq 1 .. k
    BY <1>1, <2>4
  <2>8. Quiet'
    BY <1>1, <2>3, <2>5, <2>6, <2>7 DEF Quiet
  <2> QED BY <1>1, <1>2, <1>6, <2>8 DEF OwnSamples
<1> QED BY <1>1, <1>3, <1>4, <1>5, <1>6

(* Stop: the containers of the run exit, unless podman fails.              *)
LEMMA StopContainers ==
  ASSUME IInv, CInv, IInv', Stop
  PROVE  CInv'
<1> USE DEF CInv
<1> DEFINE own == {mem.run_id} \X mem.containers
<1>1. PICK failed \in SUBSET {n \in own : podman[n] = "running"} :
        /\ errors' = errors + Cardinality(failed)
        /\ podman' = [n \in Names |-> IF n \in own \ failed THEN "exited" ELSE podman[n]]
        /\ exit' = IF failed = {} THEN exit ELSE "stop failed"
  BY DEF Stop
<1>2. /\ pc = "stop" /\ pc' = "idle" /\ stage # "report"
      /\ UNCHANGED <<saved, mem, conf, stage, kills>>
  BY DEF Stop, Known
<1>3. IsFiniteSet(failed) /\ Cardinality(failed) \in Nat
  <2>1. failed \subseteq Names
    BY NamesAre, StateFacts, <1>2
  <2> QED BY <2>1, RoleSetFinite, FS_Subset, FS_CardinalityType
<1>4. kills \in Nat /\ errors \in Nat
  BY DEF IInv, Typed, BoundsTyped
<1>5. \A n \in Names : n[1] = saved.run_id /\ n[2] \in saved.containers => n \in own
  BY <1>2, NamesAre, StateFacts DEF Known
<1>6. Known'
  BY <1>2 DEF Known
<1>7. LeaksNeedInterruption'
  <2>1. ASSUME NEW n \in Names, podman[n] = "absent", podman'[n] # "absent"
        PROVE  n[1] = saved.run_id /\ n[2] \in saved.containers
    <3>1. n \in own
      BY <1>1, <2>1
    <3>2. n[1] = mem.run_id /\ n[2] \in mem.containers /\ n = <<mem.run_id, n[2]>>
      BY <3>1
    <3>3. n[2] \in saved.containers
      BY <1>2, <2>1, <3>2 DEF Known
    <3> QED BY <1>2, <3>2, <3>3, StateFacts DEF Known
  <2>2. Unrecorded' \subseteq Unrecorded
    BY <1>2, <2>1 DEF Unrecorded
  <2>3. kills' + errors' >= kills + errors
    <3>1. kills' = kills /\ errors' = errors + Cardinality(failed)
      BY <1>1, <1>2
    <3> QED BY <1>3, <1>4, <3>1
  <2> QED BY <1>2, <2>2, <2>3, LeaksKeep
<1>8. StoppedAfterInvocation'
  BY <1>1, <1>2, <1>5 DEF StoppedAfterInvocation
<1>9. ASSUME kills' + errors' = 0
      PROVE  Quiet' /\ OwnSamples'
  <2>1. kills + errors = 0 /\ Cardinality(failed) = 0
    <3>1. kills' = kills /\ errors' = errors + Cardinality(failed)
      BY <1>1, <1>2
    <3> QED BY <1>3, <1>9, <1>4, <3>1
  <2>2. failed = {}
    BY <1>3, <2>1, FS_EmptySet
  <2>3. Running \subseteq own
    BY <1>2, <2>1 DEF Quiet, Own
  <2>4. Running' = {}
    BY <1>1, <2>2, <2>3 DEF Running
  <2> QED BY <1>2, <2>1, <2>4 DEF Quiet, Measuring, OwnSamples
<1> QED BY <1>6, <1>7, <1>8, <1>9

(* Raise: an interruption for the container it may leave.                  *)
LEMMA RaiseContainers ==
  ASSUME IInv, CInv, IInv', Raise
  PROVE  CInv'
<1> USE DEF CInv
<1>1. /\ pc \notin {"idle", "stop"} /\ errors' = errors + 1 /\ stage' = stage
      /\ pc' = IF stage = "report" THEN "idle" ELSE "stop"
      /\ UNCHANGED <<saved, kills>> /\ mem'.run_id = mem.run_id
      /\ \/ UNCHANGED <<mem, podman>>
         \/ /\ pc = "container" /\ podman[Name] = "absent" /\ UNCHANGED mem
            /\ podman' = [podman EXCEPT ![Name] = "exited"]
         \/ /\ pc = "record" /\ UNCHANGED podman
            /\ mem'.containers = mem.containers \cup {Role}
  BY DEF Raise, AfterError, AfterReport, IInv, Typed, StatesTyped, States
<1>2. kills \in Nat /\ errors \in Nat
  BY StateFacts
<1>3. Known'
  BY <1>1 DEF Known, Name
<1>4. LeaksNeedInterruption'
  <2>1. Cardinality(Unrecorded) \in Nat /\ Cardinality(Unrecorded') \in Nat
    BY UnrecordedNames, Fewer
  <2>2. pc' # "record"
    BY <1>1
  <2>3. CASE UNCHANGED podman
    <3>1. Unrecorded' = Unrecorded
      BY <1>1, <2>3 DEF Unrecorded
    <3>2. Cardinality(Unrecorded) <= kills + errors + 1
      BY <1>2, <2>1 DEF LeaksNeedInterruption
    <3> QED BY <1>1, <1>2, <2>1, <2>2, <3>1, <3>2 DEF LeaksNeedInterruption
  <2>4. CASE pc = "container" /\ podman' = [podman EXCEPT ![Name] = "exited"]
    <3>1. Unrecorded' \subseteq Unrecorded \cup {Name}
      BY <1>1, <2>4, StateFacts DEF Unrecorded
    <3>2. Cardinality(Unrecorded') <= Cardinality(Unrecorded) + 1
      BY <3>1, UnrecordedNames, OneMore
    <3>3. Cardinality(Unrecorded) <= kills + errors
      BY <1>2, <2>1, <2>4 DEF LeaksNeedInterruption
    <3> QED BY <1>1, <1>2, <2>1, <2>2, <3>2, <3>3 DEF LeaksNeedInterruption
  <2> QED BY <1>1, <2>3, <2>4
<1>5. StoppedAfterInvocation'
  BY <1>1 DEF StoppedAfterInvocation
<1>6. kills' + errors' # 0
  BY <1>1, <1>2
<1> QED BY <1>3, <1>4, <1>5, <1>6

(* Kill: an interruption for whatever is left.                             *)
LEMMA KillContainers ==
  ASSUME IInv, CInv, IInv', Kill
  PROVE  CInv'
<1> USE DEF CInv
<1>1. /\ pc' = "idle" /\ exit' = "killed" /\ kills' = kills + 1
      /\ UNCHANGED <<saved, mem, podman, conf, errors>>
  BY DEF Kill, containers
<1>2. kills \in Nat /\ errors \in Nat
  BY StateFacts
<1>3. Known' /\ StoppedAfterInvocation'
  BY <1>1 DEF Known, StoppedAfterInvocation
<1>4. Unrecorded' \subseteq Unrecorded
  BY <1>1 DEF Unrecorded
<1>5. LeaksNeedInterruption'
  BY <1>1, <1>2, <1>4, LeaksKeep
<1> QED BY <1>1, <1>2, <1>3, <1>5

(* EndSample: the containers serve what this harness has configured.       *)
LEMMA EndSampleContainers ==
  ASSUME IInv, CInv, IInv', EndSample
  PROVE  CInv'
<1>1. PICK new \in Samples :
        /\ saved' = [mem EXCEPT !.samples = Append(@, new)] /\ mem' = saved'
        /\ saved'.samples = Append(saved.samples, new)
        /\ new.harness = harness /\ new.served = Served
  BY EndSampleAppends
<1>2. /\ mem'.containers = mem.containers /\ mem'.run_id = mem.run_id
      /\ mem'.harness = mem.harness
  BY <1>1 DEF IInv, Typed, StatesTyped, States
<1>3. /\ pc = "load" /\ pc' = "measure" /\ stage # "report"
      /\ UNCHANGED <<podman, conf, kills, errors, stage, k>>
  BY DEF EndSample, containers, bounds, CInv, Known
<1>4. ASSUME kills + errors = 0
      PROVE  OwnSamples'
  <2>1. Served = {harness}
    <3>1. Quiet /\ mem.harness = harness
      BY <1>3, <1>4 DEF CInv, IInv, Current, Measuring
    <3>2. \A r \in RoleSet : r \in mem.containers /\ <<mem.run_id, r>> \in Running
      BY <1>3, <3>1, RolesAssumption DEF Quiet, Measuring, RoleSet, ToSet
    <3>3. \A n \in Running : conf[n] = harness
      BY <1>3, <3>1 DEF Quiet
    <3>4. mem.containers = RoleSet /\ RoleSet # {}
      BY <3>2, StateFacts, RoleFacts
    <3> QED BY <3>2, <3>3, <3>4 DEF Served
  <2>2. ToSet(saved'.samples) = ToSet(saved.samples) \cup {new}
    <3>1. saved.samples \in Seq(Samples) /\ saved'.samples = Append(saved.samples, new)
      BY <1>1 DEF IInv, Typed, StatesTyped, States
    <3>2. ToSet(Append(saved.samples, new)) = ToSet(saved.samples) \cup {new}
      BY <3>1, AppendKeeps
    <3> QED BY <3>1, <3>2
  <2>3. OwnSamples
    BY <1>4 DEF CInv
  <2> QED BY <1>1, <2>1, <2>2, <2>3 DEF OwnSamples
<1>5. saved'.run_id = mem.run_id /\ saved'.containers = mem.containers
  BY <1>1, <1>2
<1>6. /\ pc \notin {"idle", "fixtures", "container", "record", "stop"}
      /\ pc' \notin {"idle", "fixtures", "container", "record"}
      /\ pc' \in Measuring => pc \in Measuring
      /\ stage = "report" => pc' \in {"idle", "report"}
      /\ pc' = "idle" => stage = "report"
  BY <1>3 DEF Measuring
<1> QED BY <1>2, <1>3, <1>4, <1>5, <1>6, MoveKeeps

(* The other steps of an invocation leave the containers alone.            *)
LEMMA MoveContainers ==
  ASSUME IInv, CInv, IInv',
         \/ NameTaken \/ ProbeExpired \/ SaveEndpoints \/ Probe \/ Invalidate
         \/ BeginSample \/ StageDone \/ Report \/ ReportFails
  PROVE  CInv'
<1>1. UNCHANGED <<podman, conf, kills, errors, stage, k>>
  BY DEF NameTaken, ProbeExpired, SaveEndpoints, Probe, Invalidate, BeginSample, StageDone,
         Report, ReportFails, containers, bounds
<1>2. /\ mem'.containers = mem.containers /\ mem'.run_id = mem.run_id
      /\ mem'.harness = mem.harness /\ mem'.samples = mem.samples
  BY DEF NameTaken, ProbeExpired, SaveEndpoints, Probe, Invalidate, BeginSample, StageDone,
         Report, ReportFails, Persist, IInv, Typed, StatesTyped, States
<1>3. saved' = saved \/ saved' = mem'
  BY DEF NameTaken, ProbeExpired, SaveEndpoints, Probe, Invalidate, BeginSample, StageDone,
         Report, ReportFails, Persist
<1>4. /\ \/ pc \in {"endpoints", "probe", "measure", "load", "report"}
         \/ pc = "container" /\ pc' = "stop"
      /\ pc' \in {"probe", "stop", "measure", "load", "report", "idle"}
      /\ pc' = "idle" => stage = "report"
      /\ pc = "report" => pc' \in {"idle", "stop"} /\ (stage = "report" => pc' = "idle")
  BY DEF NameTaken, ProbeExpired, SaveEndpoints, Probe, Invalidate, BeginSample, StageDone,
         Report, ReportFails, AfterReport
<1>5. stage = "report" => pc = "report"
  BY <1>4 DEF CInv, Known
<1>6. saved'.samples = saved.samples
  BY <1>2, <1>3, <1>4 DEF IInv, InStep
<1>7. kills + errors = 0 => OwnSamples'
  BY <1>6 DEF CInv, OwnSamples
<1> QED BY <1>1, <1>2, <1>3, <1>4, <1>5, <1>7, MoveKeeps DEF Measuring

(* Every step keeps the containers accounted for.                          *)
LEMMA ContainersStep == IInv /\ IInv' /\ CInv /\ [Next]_vars => CInv'
<1> SUFFICES ASSUME IInv, IInv', CInv, [Next]_vars  PROVE CInv'
  OBVIOUS
<1>1. CASE \E s \in Stages, config \in Configs : Invoke(s, config)
  BY <1>1, InvokeContainers
<1>2. CASE Fixtures \/ StartContainer \/ RunContainer \/ RecordContainer
  BY <1>2, FixturesContainers, StartContainerContainers, RunContainerContainers,
     RecordContainerContainers
<1>3. CASE \/ NameTaken \/ ProbeExpired \/ SaveEndpoints \/ Probe \/ Invalidate
           \/ BeginSample \/ StageDone \/ Report \/ ReportFails
  BY <1>3, MoveContainers
<1>4. CASE EndSample \/ Stop \/ Raise \/ Kill
  BY <1>4, EndSampleContainers, StopContainers, RaiseContainers, KillContainers
<1>5. CASE Edit \/ DayPasses \/ Builds \/ UNCHANGED vars
  <2>1. UNCHANGED <<saved, mem, podman, conf, pc, k, stage, exit, kills, errors>>
    BY <1>5 DEF Edit, DayPasses, Builds, vars, containers, process, bounds
  <2> QED BY <2>1, SameKeeps
<1> QED BY <1>1, <1>2, <1>3, <1>4, <1>5 DEF Next

(* "Containers are stopped after each invocation": what an invocation      *)
(* leaves behind, running, unrecorded or configured by another harness,    *)
(* has a kill or a failed command as its cause, in every reachable state.  *)
THEOREM LeftoversHaveACause == Spec => []LeftoversNeedInterruption
<1>1. Init => CInv
  <2> SUFFICES ASSUME Init  PROVE CInv
    OBVIOUS
  <2>1. Unrecorded = {} /\ Running = {}
    BY DEF Init, Unrecorded, Running
  <2>2. Cardinality(Unrecorded) = 0
    BY <2>1, FS_EmptySet
  <2>3. Known /\ StoppedAfterInvocation
    BY DEF Init, Known, StoppedAfterInvocation
  <2>4. LeaksNeedInterruption
    BY <2>2 DEF Init, LeaksNeedInterruption
  <2>5. Quiet /\ OwnSamples
    BY <2>1 DEF Init, Quiet, Measuring, OwnSamples, Nothing, ToSet
  <2> QED BY <2>3, <2>4, <2>5 DEF CInv
<1>2. IInv /\ CInv => LeftoversNeedInterruption
  <2> SUFFICES ASSUME IInv, CInv  PROVE ForeignNeedsInterruption
    BY DEF LeftoversNeedInterruption, CInv
  <2>1. kills \in Nat /\ errors \in Nat
    BY DEF IInv, Typed, BoundsTyped
  <2> QED BY <2>1 DEF ForeignNeedsInterruption, CInv, OwnSamples
<1> QED BY <1>1, <1>2, Invariance, ContainersStep, PTL DEF Spec
=============================================================================
