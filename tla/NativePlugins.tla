---------------------------- MODULE NativePlugins ----------------------------
(***************************************************************************)
(* The native timing plugins together: the build of Envoy's (NativeBuild), *)
(* the bundle of nginx's (RuntimeBundle) and the fields both write         *)
(* (EnvoyTiming, NginxTiming).  They share no state, so each is explored   *)
(* while the others have not begun.                                        *)
(***************************************************************************)
EXTENDS NativeBuild, Sequences

CONSTANTS
  None,
  PinnedImage, SelfContained,                           \* of RuntimeBundle
  EnvoyHosts, EnvoyIntervals, EnvoyDecimal(_),          \* of EnvoyTiming
  NginxHosts, NginxTimes, MaxStates, NginxDecimal(_),   \* of NginxTiming
  UsualHost, PlainHost,      \* the hosts while the other parts are explored
  MaxEdits, MaxBundleEdits   \* bounds on the edits of a behaviour

VARIABLES base, state, bundle, generated, bundlePc, todo, bundleInputs,
          bundleTouched, loose, rendered, bundleClaim, bundleFirst,
          envoyHost, envoyConfig, envoySent,
          nginxHost, nginxConfig, nginxStates, nginxSent,
          edits   \* how often an input was edited, for the bounds

buildPart == vars
bundlePart == <<base, state, bundle, generated, bundlePc, todo, bundleInputs,
                bundleTouched, loose, rendered, bundleClaim, bundleFirst>>
envoyPart == <<envoyHost, envoyConfig, envoySent>>
nginxPart == <<nginxHost, nginxConfig, nginxStates, nginxSent>>

Bundle == INSTANCE RuntimeBundle
            WITH pc <- bundlePc, inputs <- bundleInputs, touched <- bundleTouched,
                 claim <- bundleClaim, first <- bundleFirst

(* No manifest and no list of digests is mistaken for a missing or a torn  *)
(* file.                                                                   *)
ASSUME BundleAssumption ==
  {Missing, Torn} \cap (Bundle!Digests \cup [inputs : Bundle!Digests, stage : Bundle!Stages]) = {}

Envoy == INSTANCE EnvoyTiming
           WITH Hosts <- EnvoyHosts, Intervals <- EnvoyIntervals, Decimal <- EnvoyDecimal,
                host <- envoyHost, config <- envoyConfig, sent <- envoySent

Nginx == INSTANCE NginxTiming
           WITH Hosts <- NginxHosts, Times <- NginxTimes, Decimal <- NginxDecimal,
                host <- nginxHost, config <- nginxConfig, states <- nginxStates,
                sent <- nginxSent

(* A stream has begun, so the first metric is always there; a duration has *)
(* 63 bits of nanoseconds, 13 digits of milliseconds.  A time of nginx has *)
(* 64 bits of milliseconds, 20 digits.                                     *)
ASSUME EnvoyAssumption ==
  /\ EnvoyHosts \subseteq Envoy!Host /\ None \notin Envoy!Texts \cup Envoy!AllSettings
  /\ \A d \in EnvoyIntervals :
       /\ d \in [Envoy!Metric -> Int \cup {None}] /\ d[1] # None /\ d[1] >= 0
       /\ \A i \in Envoy!Shown(d) : LET n == EnvoyDecimal(d[i] \div Envoy!NanosPerMilli)
                                  IN n \in Seq(0 .. 9) /\ Len(n) \in 1 .. 13

ASSUME NginxAssumption ==
  /\ NginxHosts \subseteq [plain : Nat, escaped : Nat, control : Nat]
  /\ NginxTimes \subseteq Nat /\ MaxStates \in Nat
  /\ \A n \in NginxTimes \cup 0 .. MaxStates :
       NginxDecimal(n) \in Seq(0 .. 9) /\ Len(NginxDecimal(n)) \in 1 .. 20
  /\ \A n \in 0 .. 9 : NginxDecimal(n) = <<n>>

-----------------------------------------------------------------------------
BuildAtRest == Init /\ cmds = CHOOSE c \in Commands : TRUE
BundleAtRest == Bundle!Init
EnvoyAtRest == Envoy!Init /\ envoyHost = UsualHost
NginxAtRest == Nginx!Init /\ nginxHost = PlainHost

(* Counts the edits of a part's files, up to the bound.                    *)
Bounded(edited, bound) ==
  /\ edits' = edits + IF edited THEN 1 ELSE 0
  /\ edits' <= bound

PluginsInit ==
  /\ edits = 0
  /\ Init /\ Bundle!Init /\ Envoy!Init /\ Nginx!Init
  /\ \/ EnvoyAtRest /\ NginxAtRest
     \/ BuildAtRest /\ NginxAtRest
     \/ BuildAtRest /\ EnvoyAtRest

PluginsNext ==
  \/ /\ BundleAtRest /\ EnvoyAtRest /\ NginxAtRest
     /\ Next /\ Bounded(inputs' # inputs, MaxEdits)
     /\ UNCHANGED <<bundlePart, envoyPart, nginxPart>>
  \/ /\ BuildAtRest /\ EnvoyAtRest /\ NginxAtRest
     /\ Bundle!Next /\ Bounded(base' # base, MaxBundleEdits)
     /\ UNCHANGED <<buildPart, envoyPart, nginxPart>>
  \/ /\ BuildAtRest /\ BundleAtRest /\ NginxAtRest
     /\ Envoy!Next /\ UNCHANGED <<buildPart, bundlePart, nginxPart, edits>>
  \/ /\ BuildAtRest /\ BundleAtRest /\ EnvoyAtRest
     /\ Nginx!Next /\ UNCHANGED <<buildPart, bundlePart, envoyPart, edits>>

PluginsSpec ==
  PluginsInit /\ [][PluginsNext]_<<buildPart, bundlePart, envoyPart, nginxPart, edits>>

-----------------------------------------------------------------------------
(* What RuntimeBundle promises; see there.                                 *)
OneBundle == Bundle!OneBundle
BundleIsTrue == Bundle!BundleIsTrue

(* The room that was reserved is enough for every host name, number of     *)
(* attempts and duration, in both plugins.                                 *)
BuffersSuffice == Envoy!TypeOK /\ Envoy!EverythingFits /\ Nginx!WithinBuffers

(* Both fields say what happened to the request, whichever path wrote them.*)
FieldsTellTheTruth == Envoy!FieldIsDescribed /\ Nginx!TypeOK /\ Nginx!FieldIsTrue
=============================================================================
