---------------------------- MODULE BenchmarkRun ----------------------------
(***************************************************************************)
(* scripts/network/benchmark_server_timing.py: a benchmark that is         *)
(* interrupted, killed and resumed from state.json in its output           *)
(* directory, with podman containers that outlive its processes.           *)
(*                                                                         *)
(* One path is measured with one connection count, with TLS upstreams.     *)
(* Versions of the harness and of the timing sources stand for their       *)
(* hashes, --require-idle-builds for all the parameters that a resumed run *)
(* has to repeat.  Files are edited between invocations, and there is one  *)
(* invocation at a time.                                                   *)
(***************************************************************************)
EXTENDS Naturals, FiniteSets, SequencesExt

CONSTANTS
  Roles,          \* the roles of the containers, in the order of prepare
  Rounds,         \* --rounds
  MinRounds,      \* the rounds that capacity_confidence asks for
  MaxInvocations, MaxKills, MaxErrors, MaxEdits, MaxDays  \* bounds

ASSUME RoundsAssumption == Rounds \in Nat \ {0} /\ MinRounds \in Nat
ASSUME BoundsAssumption ==
  {MaxInvocations, MaxKills, MaxErrors, MaxEdits, MaxDays} \subseteq Nat
ASSUME RolesAssumption == Roles \in Seq(STRING) /\ Roles # <<>> /\ IsInjective(Roles)

Stages == {"prepare", "capacity", "latency", "all", "report"}
Modes == <<"off", "on">>
Configs == {"idle builds", "any builds"}
RoleSet == ToSet(Roles)
Names == (1 .. MaxInvocations) \X RoleSet   \* run_id and role

VARIABLES
  saved,       \* state.json
  mem,         \* self.state of the running process
  podman,      \* the containers by name: absent, exited or running
  conf,        \* the harness whose configuration file the container has read
  cert,        \* tls.crt, which is valid for one day
  summary,     \* the acceptance in summary.json
  pc, k,       \* where the process stands; the next role in prepare
  stage, part, \* --stage; the stage being measured
  exit,        \* how the last invocation ended, or this one will
  harness, source,  \* the files as they are on disk
  building,    \* a build runs on this machine
  invocations, kills, errors, edits, days

containers == <<podman, conf>>
process == <<pc, k, stage, part, exit>>
world == <<harness, source, building, edits, days>>
bounds == <<invocations, kills, errors>>
vars == <<saved, mem, containers, cert, summary, process, world, bounds>>

Nothing == [samples |-> <<>>, containers |-> {}, run_id |-> 0, invalid |-> FALSE,
            probed |-> FALSE, config |-> "none", harness |-> 0, source |-> 0]

Init ==
  /\ saved = Nothing /\ mem = Nothing
  /\ podman = [n \in Names |-> "absent"] /\ conf = [n \in Names |-> 0]
  /\ cert = "absent" /\ summary = "none"
  /\ pc = "idle" /\ k = 1 /\ stage = "all" /\ part = "capacity" /\ exit = "none"
  /\ harness = 1 /\ source = 1 /\ building = FALSE
  /\ invocations = 0 /\ kills = 0 /\ errors = 0 /\ edits = 0 /\ days = 0

(* Mutant: state.json is written in place, and a kill may empty it.        *)
PersistInPlace(state) == saved' \in {state, Nothing} /\ mem' = state

(* persist: state.json is replaced as a whole.                             *)
Persist(state) == saved' = state /\ mem' = state

-----------------------------------------------------------------------------
(* __init__.                                                               *)

(* Mutant: an invalidated run can be resumed.                              *)
RefusedUnlessInvalid(s, config) ==
  s # "report" /\ \/ saved.samples # <<>> /\ saved.harness # harness
                  \/ saved.config \notin {"none", config}
                  \/ saved.source \notin {0, source}

(* An invalidated run is not resumed, nor one with other parameters or     *)
(* sources; another harness may go on as long as nothing is measured.      *)
Refused(s, config) ==
  \/ saved.invalid
  \/ s # "report" /\ \/ saved.samples # <<>> /\ saved.harness # harness
                     \/ saved.config \notin {"none", config}
                     \/ saved.source \notin {0, source}

Invoke(s, config) ==
  /\ pc = "idle" /\ invocations < MaxInvocations
  /\ invocations' = invocations + 1
  /\ stage' = s /\ part' = (IF s = "latency" THEN "latency" ELSE "capacity")
  /\ k' = 1
  /\ \/ /\ Refused(s, config)
        /\ exit' = "refused" /\ UNCHANGED <<saved, mem, pc>>
     \/ /\ ~Refused(s, config) /\ s = "report"
        /\ mem' = saved /\ pc' = "report" /\ exit' = "completed"
        /\ UNCHANGED saved
     \/ /\ ~Refused(s, config) /\ s # "report"
        /\ Persist([saved EXCEPT !.harness = harness, !.config = config,
                                 !.source = source])
        /\ pc' = "fixtures" /\ exit' = "completed"
  /\ UNCHANGED <<containers, cert, summary, world, kills, errors>>

-----------------------------------------------------------------------------
(* prepare.                                                                *)

(* The run's name, the certificate and the empty list of endpoints.        *)
Fixtures ==
  /\ pc = "fixtures"
  /\ mem' = [mem EXCEPT !.run_id = IF @ = 0 THEN invocations ELSE @,
                        !.probed = FALSE]
  /\ cert' = IF cert = "absent" THEN "fresh" ELSE cert
  /\ pc' = "container"
  /\ UNCHANGED <<saved, containers, summary, k, stage, part, exit, world, bounds>>

Role == Roles[k]
Name == <<mem.run_id, Role>>

(* The role's configuration file has just been written by this harness.    *)
Started == podman' = [podman EXCEPT ![Name] = "running"]
        /\ conf' = [conf EXCEPT ![Name] = mem.harness]

NextRole == IF k < Len(Roles) THEN pc' = "container" /\ k' = k + 1
                              ELSE pc' = "endpoints" /\ UNCHANGED k

(* A container of an earlier invocation: one that still runs is left       *)
(* alone, another is started again.                                        *)
StartContainer ==
  /\ pc = "container" /\ Role \in mem.containers
  /\ IF podman[Name] = "running" THEN UNCHANGED containers ELSE Started
  /\ NextRole
  /\ UNCHANGED <<saved, mem, cert, summary, stage, part, exit, world, bounds>>

RunContainer ==
  /\ pc = "container" /\ Role \notin mem.containers
  /\ podman[Name] = "absent" /\ Started
  /\ pc' = "record"
  /\ UNCHANGED <<saved, mem, cert, summary, k, stage, part, exit, world, bounds>>

(* Mutant: the container is persisted with the next state only.            *)
RecordLater ==
  /\ pc = "record"
  /\ mem' = [mem EXCEPT !.containers = @ \cup {Role}]
  /\ NextRole
  /\ UNCHANGED <<saved, containers, cert, summary, stage, part, exit, world, bounds>>

RecordContainer ==
  /\ pc = "record"
  /\ Persist([mem EXCEPT !.containers = @ \cup {Role}])
  /\ NextRole
  /\ UNCHANGED <<containers, cert, summary, stage, part, exit, world, bounds>>

(* podman refuses a name that is in use.                                   *)
NameTaken ==
  /\ pc = "container" /\ Role \notin mem.containers
  /\ podman[Name] # "absent"
  /\ pc' = "stop" /\ exit' = "raised"
  /\ UNCHANGED <<saved, mem, containers, cert, summary, k, stage, part, world, bounds>>

SaveEndpoints ==
  /\ pc = "endpoints"
  /\ Persist(mem)
  /\ pc' = "probe"
  /\ UNCHANGED <<containers, cert, summary, k, stage, part, exit, world, bounds>>

(* Every endpoint answers with its metrics, through TLS.                   *)
Probe ==
  /\ pc = "probe" /\ cert = "fresh"
  /\ Persist([mem EXCEPT !.probed = TRUE])
  /\ pc' = IF stage = "prepare" THEN "stop" ELSE "measure"
  /\ UNCHANGED <<containers, cert, summary, k, stage, part, exit, world, bounds>>

(* The proxies trust tls.crt only while it is valid: the answer is a 503.  *)
ProbeExpired ==
  /\ pc = "probe" /\ cert = "expired"
  /\ pc' = "stop" /\ exit' = "raised"
  /\ UNCHANGED <<saved, mem, containers, cert, summary, k, stage, part, world, bounds>>

-----------------------------------------------------------------------------
(* measure, sample.                                                        *)

(* Mutant: all rounds of a mode are measured before the other mode.        *)
OrderByMode(st) ==
  [i \in 1 .. 2 * Rounds |->
     [stage |-> st, mode |-> Modes[1 + ((i - 1) \div Rounds)],
      round |-> (i - 1) % Rounds]]

(* The keys of a stage: round by round, the modes reversed in odd rounds.  *)
Order(st) ==
  [i \in 1 .. 2 * Rounds |->
     LET round == (i - 1) \div 2
     IN  [stage |-> st, mode |-> Modes[1 + ((i - 1 + round) % 2)], round |-> round]]

Keys(state) == {sample.key : sample \in ToSet(state.samples)}

(* The keys of the stage that are still to be measured; the first of them  *)
(* comes next.                                                             *)
Missing == ToSet(Order(part)) \ Keys(mem)
NextMissing(key) ==
  \E i \in 1 .. 2 * Rounds :
    /\ key = Order(part)[i]
    /\ \A j \in 1 .. i - 1 : Order(part)[j] \notin Missing

BuildSeen == mem.config = "idle builds" /\ building

(* require_idle, before the warm-up, under load or after it.               *)
Invalidate ==
  /\ \/ pc = "measure" /\ Missing # {}
     \/ pc = "load"
  /\ BuildSeen
  /\ Persist([mem EXCEPT !.invalid = TRUE])
  /\ pc' = "stop" /\ exit' = "raised"
  /\ UNCHANGED <<containers, cert, summary, k, stage, part, world, bounds>>

BeginSample ==
  /\ pc = "measure" /\ Missing # {} /\ ~BuildSeen
  /\ pc' = "load"
  /\ UNCHANGED <<saved, mem, containers, cert, summary, k, stage, part, exit,
                 world, bounds>>

(* The configurations that the containers serve during the sample.         *)
Served == {conf[<<mem.run_id, r>>] : r \in mem.containers}

EndSample ==
  /\ pc = "load" /\ ~BuildSeen
  /\ \E key \in Missing :
       /\ NextMissing(key)
       /\ Persist([mem EXCEPT !.samples = Append(@,
            [key |-> key, harness |-> harness, source |-> source, served |-> Served])])
  /\ pc' = "measure"
  /\ UNCHANGED <<containers, cert, summary, k, stage, part, exit, world, bounds>>

StageDone ==
  /\ pc = "measure" /\ Missing = {}
  /\ IF stage = "all" /\ part = "capacity" THEN part' = "latency" /\ UNCHANGED pc
                                           ELSE pc' = "report" /\ UNCHANGED part
  /\ UNCHANGED <<saved, mem, containers, cert, summary, k, stage, exit, world, bounds>>

-----------------------------------------------------------------------------
(* report, stop, main.                                                     *)
Measured(mode) == \E key \in Keys(mem) : key.stage = "capacity" /\ key.mode = mode

(* Mutant: the confidence is computed from the samples there are.          *)
ConfidentOfAny == Rounds >= MinRounds

(* capacity_confidence: every round of both modes, and enough of them.     *)
Confident == /\ Rounds >= MinRounds
             /\ ToSet(Order("capacity")) \subseteq Keys(mem)

(* throughput_acceptance: what the numbers may come to.                    *)
Verdicts == IF \E mode \in ToSet(Modes) : ~Measured(mode) THEN {"none"}
            ELSE {"not passed"} \cup
                 IF Confident /\ mem.config = "idle builds" THEN {"passed"} ELSE {}

(* Only an invocation that got past the first lines of main stops.         *)
AfterReport == pc' = IF stage = "report" THEN "idle" ELSE "stop"

Report ==
  /\ pc = "report" /\ ~mem.invalid /\ mem.probed
  /\ summary' \in Verdicts
  /\ AfterReport
  /\ UNCHANGED <<saved, mem, containers, cert, k, stage, part, exit, world, bounds>>

(* The run was never prepared, or was killed before its endpoints had      *)
(* answered: their header sizes are not in the state.                      *)
ReportFails ==
  /\ pc = "report" /\ (mem.invalid \/ ~mem.probed)
  /\ AfterReport /\ exit' = "raised"
  /\ UNCHANGED <<saved, mem, containers, cert, summary, k, stage, part, world, bounds>>

(* podman stop may fail; stop only prints that.                            *)
Stop ==
  /\ pc = "stop"
  /\ \E failed \in SUBSET {n \in {mem.run_id} \X mem.containers : podman[n] = "running"} :
       /\ errors + Cardinality(failed) <= MaxErrors
       /\ errors' = errors + Cardinality(failed)
       /\ podman' = [n \in Names |->
                       IF n \in ({mem.run_id} \X mem.containers) \ failed
                       THEN "exited" ELSE podman[n]]
       /\ exit' = IF failed = {} THEN exit ELSE "stop failed"
  /\ pc' = "idle"
  /\ UNCHANGED <<saved, mem, conf, cert, summary, k, stage, part, world,
                 invocations, kills>>

-----------------------------------------------------------------------------
(* What can go wrong.                                                      *)
Preparing == {"fixtures", "container", "record", "endpoints", "probe"}

AfterError == AfterReport

(* An exception or an interrupt: a command fails, a sample is bad, the     *)
(* disk is full.  In container, podman run may fail with the container     *)
(* created, and persist with the container in the dictionary.              *)
Raise ==
  /\ pc \notin {"idle", "stop"} /\ errors < MaxErrors
  /\ errors' = errors + 1
  /\ exit' = "raised" /\ AfterError
  /\ \/ UNCHANGED <<mem, podman>>
     \/ /\ pc = "container" /\ Role \notin mem.containers
        /\ podman[Name] = "absent"
        /\ podman' = [podman EXCEPT ![Name] = "exited"] /\ UNCHANGED mem
     \/ /\ pc = "record"
        /\ mem' = [mem EXCEPT !.containers = @ \cup {Role}] /\ UNCHANGED podman
  /\ UNCHANGED <<saved, conf, cert, summary, k, stage, part, world,
                 invocations, kills>>

Kill ==
  /\ pc # "idle" /\ kills < MaxKills
  /\ kills' = kills + 1
  /\ pc' = "idle" /\ exit' = "killed"
  /\ UNCHANGED <<saved, mem, containers, cert, summary, k, stage, part, world,
                 invocations, errors>>

(* Between invocations files are edited and days pass; builds run at any   *)
(* time.                                                                   *)
EditHarness == pc = "idle" /\ harness' = harness + 1 /\ UNCHANGED source
EditSource == pc = "idle" /\ source' = source + 1 /\ UNCHANGED harness

Edit ==
  /\ edits < MaxEdits /\ edits' = edits + 1
  /\ EditHarness \/ EditSource
  /\ UNCHANGED <<saved, mem, containers, cert, summary, process, building, days, bounds>>

DayPasses ==
  /\ pc = "idle" /\ cert = "fresh" /\ days < MaxDays /\ days' = days + 1
  /\ cert' = "expired"
  /\ UNCHANGED <<saved, mem, containers, summary, process, harness, source,
                 building, edits, bounds>>

Builds ==
  /\ building' = ~building
  /\ UNCHANGED <<saved, mem, containers, cert, summary, process, harness, source,
                 edits, days, bounds>>

Next ==
  \/ \E s \in Stages, config \in Configs : Invoke(s, config)
  \/ Fixtures \/ StartContainer \/ RunContainer \/ RecordContainer \/ NameTaken
  \/ SaveEndpoints \/ Probe \/ ProbeExpired
  \/ Invalidate \/ BeginSample \/ EndSample \/ StageDone
  \/ Report \/ ReportFails \/ Stop
  \/ Raise \/ Kill \/ Edit \/ DayPasses \/ Builds

Spec == Init /\ [][Next]_vars

-----------------------------------------------------------------------------
KeySet == ToSet(Order("capacity")) \cup ToSet(Order("latency"))
Versions == 1 .. 1 + MaxEdits

Samples == [key : KeySet, harness : Versions, source : Versions, served : SUBSET Versions]

States ==
  [samples : Seq(Samples), containers : SUBSET RoleSet, run_id : 0 .. MaxInvocations,
   invalid : BOOLEAN, probed : BOOLEAN, config : Configs \cup {"none"},
   harness : {0} \cup Versions, source : {0} \cup Versions]

(* Type correctness of the state, on disk and in memory, of the containers *)
(* and of the loops of prepare and measure.                                *)
TypeOK ==
  /\ saved \in States /\ mem \in States
  /\ podman \in [Names -> {"absent", "exited", "running"}]
  /\ conf \in [Names -> {0} \cup Versions]
  /\ cert \in {"absent", "fresh", "expired"}
  /\ summary \in {"none", "not passed", "passed"}
  /\ pc \in Preparing \cup {"idle", "measure", "load", "report", "stop"}
  /\ k \in 1 .. Len(Roles) /\ stage \in Stages /\ part \in {"capacity", "latency"}
  /\ exit \in {"none", "refused", "raised", "killed", "stop failed", "completed"}
  /\ harness \in Versions /\ source \in Versions /\ building \in BOOLEAN

(* The rounds stay paired whatever interrupts them and in whatever order   *)
(* the stages are resumed: nothing is measured twice, no round begins      *)
(* before the one before it has both modes, and the mode that goes first   *)
(* alternates, as the paired bootstrap of capacity_confidence takes for    *)
(* granted.                                                                *)
RoundsArePaired ==
  LET key(i) == saved.samples[i].key
      done(r, j) == {key(h).mode : h \in {h \in 1 .. j - 1 : /\ key(h).stage = key(j).stage
                                                          /\ key(h).round = r}}
      next(i, j) == \A h \in i + 1 .. j - 1 : key(h).stage # key(j).stage
  IN  \A i, j \in DOMAIN saved.samples : i < j /\ key(i).stage = key(j).stage =>
        /\ key(i) # key(j)
        /\ key(i).round <= key(j).round
        /\ key(i).round < key(j).round =>
             /\ ToSet(Modes) \subseteq done(key(i).round, j)
             /\ next(i, j) => key(i).mode = key(j).mode

(* The samples of one state were all taken by the harness and of the       *)
(* sources that it names, over any number of invocations and edits.        *)
OneVersion ==
  \A sample \in ToSet(saved.samples) :
    sample.harness = saved.harness /\ sample.source = saved.source

(* A sample of one harness is taken of containers configured by another    *)
(* only after a kill or a failed podman stop left the old ones running:    *)
(* every other end of an invocation stops them, so that the next one makes *)
(* them read its own files.                                                *)
ForeignNeedsInterruption ==
  (\E sample \in ToSet(saved.samples) : sample.served # {sample.harness})
    => kills + errors > 0

(* A state holds samples of one version of everything, paired round by     *)
(* round.                                                                  *)
SamplesAreSound == TypeOK /\ RoundsArePaired /\ OneVersion

(* Only a complete capacity sweep with idle builds passes, whichever       *)
(* stages were run and reported in whichever order.                        *)
AcceptedOnlyComplete ==
  summary = "passed" => /\ ToSet(Order("capacity")) \subseteq Keys(saved)
                        /\ saved.config = "idle builds"
                        /\ Rounds >= MinRounds

(* The containers that no state knows of, which nothing will stop or       *)
(* reuse, are no more than the invocations that were cut short.            *)
Unrecorded == {n \in Names : /\ podman[n] # "absent"
                             /\ ~(n[1] = saved.run_id /\ n[2] \in saved.containers)}

LeaksNeedInterruption ==
  Cardinality(Unrecorded) <= kills + errors + IF pc = "record" THEN 1 ELSE 0

(* "Containers are stopped after each invocation" that has prepared any,   *)
(* by an error too, unless podman itself fails.                            *)
StoppedAfterInvocation ==
  /\ pc = "idle" /\ exit \in {"completed", "raised"} /\ stage # "report"
  => \A n \in Names : n[1] = saved.run_id /\ n[2] \in saved.containers
                        => podman[n] # "running"

(* What an invocation leaves behind, running or configured for another     *)
(* harness, has an interruption as its cause.                              *)
LeftoversNeedInterruption ==
  ForeignNeedsInterruption /\ LeaksNeedInterruption /\ StoppedAfterInvocation

(* No sample that was ever persisted is lost or changed.                   *)
NoSampleLost == [][IsPrefix(saved.samples, saved'.samples)]_vars

(* A build during a measurement ends the run for good.                     *)
InvalidIsFinal == [][saved.invalid => UNCHANGED <<saved, summary>>]_vars

-----------------------------------------------------------------------------
(* "Resumable": the name of a container that is still to be created is     *)
(* free (line 1).                                                          *)
NameIsFree ==
  pc = "container" /\ Role \notin mem.containers => podman[Name] = "absent"
=============================================================================
