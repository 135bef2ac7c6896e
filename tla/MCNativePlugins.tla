--------------------------- MODULE MCNativePlugins ---------------------------
(* Values for NativePlugins: two versions of each input, two command lines.    *)
EXTENDS NativePlugins, SequencesExt

(* The base of this commit is version 0: its nginx is not IMAGE, and its   *)
(* kustomization names observability-http.conf.  Version 1 is the one the  *)
(* script was written for.                                                 *)
MCPinnedImage == {1}
MCSelfContained == {1}

(* Host names without a character, of the usual kind and as long as they   *)
(* can be, in each way of being written; every metric missing, backwards,  *)
(* zero, of one digit, of two, and as long as a duration can be.           *)
HostOf(p, o, e, c) == [plain |-> p, other |-> o, escaped |-> e, control |-> c]
MCUsualHost == HostOf(40, 0, 0, 0)
MCEnvoyHosts == {HostOf(0, 0, 0, 0), MCUsualHost, HostOf(256, 0, 0, 0),
                 HostOf(10, 3, 2, 1), HostOf(0, 0, 256, 0), HostOf(0, 0, 0, 256)}

(* Milliseconds; the longest stands for 2^63 - 1 nanoseconds.              *)
Longest == 2000
MCEnvoyDecimal(n) ==
  CASE n = Longest -> [k \in 1 .. 13 |-> 9]
    [] n < 10 -> <<n>>
    [] OTHER -> <<n \div 10, n % 10>>

Ms(n) == n * 1000000
(* The first metric is always there: the time since the stream began.      *)
MCEnvoyIntervals ==
  {d \in [1 .. 6 -> {None, 0, Ms(7), Ms(42)}] \cup [1 .. 6 -> {-1, Ms(6) - 1, Ms(Longest)}] :
     d[1] # None /\ d[1] >= 0}

(* Host names without a character, of the usual kind, and the worst for    *)
(* each buffer; times of no, one and more digits.                          *)
MCPlainHost == [plain |-> 24, escaped |-> 1, control |-> 1]
MCNginxHosts == {[plain |-> 0, escaped |-> 0, control |-> 0], MCPlainHost,
                 [plain |-> 0, escaped |-> 255, control |-> 0]}
MCNginxTimes == {0, 7, 40}

(* 40 stands for 2^64 - 2, the longest time there is.                      *)
MCNginxDecimal(n) == IF n = 40 THEN [k \in 1 .. 20 |-> 9] ELSE <<n>>

(* The truth of a request another way: its attempts at a peer in their     *)
(* order, each numbered by its place among them.  Nginx!Truth is the same. *)
TruthOfAttempts(s, elapsed) ==
  LET tried == SelectSeq(s, LAMBDA t : t.peer)
      label(i) == IF Len(s) = 1 THEN <<>> ELSE MCNginxDecimal(i)
      line(name, i, t) ==
        IF t = Nginx!NoTime THEN <<>> ELSE << <<name, MCNginxDecimal(t), label(i)>> >>
  IN << <<"headers", MCNginxDecimal(IF elapsed < 0 THEN 0 ELSE elapsed), <<>>>> >>
       \o FlattenSeq([i \in DOMAIN tried |-> line("connect", i, tried[i].connect_time)
                                               \o line("header", i, tried[i].header_time)])

SomeStates == [peer : BOOLEAN, connect_time : {Nginx!NoTime, 0, 7},
               header_time : {Nginx!NoTime, 0, 40}]
ASSUME TruthAssumption ==
  \A s \in UNION {[1 .. n -> SomeStates] : n \in 0 .. 3}, elapsed \in {-1, 7} :
    Nginx!Truth(s, elapsed) = TruthOfAttempts(s, elapsed)
=============================================================================
