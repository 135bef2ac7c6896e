----------------------------- MODULE NginxTiming -----------------------------
(***************************************************************************)
(* ngx_http_ccsn_server_timing_module.c: the timing field of a response,   *)
(* written without capacity checks into buffers sized beforehand, from the *)
(* states that nginx's upstream code leaves on the request.                *)
(*                                                                         *)
(* A text is the number of bytes used and what was put where: <<position,  *)
(* kind, payload>>.  Names and labels are not spelled out; their lengths   *)
(* are the program's.                                                      *)
(***************************************************************************)
EXTENDS Integers, FiniteSets, Sequences, SequencesExt

CONSTANTS
  Hosts,     \* [plain, escaped, control]: characters of each kind
  Times,     \* milliseconds that an interval may take
  MaxStates, \* bound: upstream states of one request
  Decimal(_) \* the decimal digits of a number, as a sequence

VARIABLES
  host,
  config,  \* the module's main configuration; Unset before init
  states,  \* r->upstream_states
  sent     \* [elapsed, field] of the response; Unset while there is none

vars == <<host, config, states, sent>>

NoTime == -1  \* (ngx_msec_t) -1, the largest time there is
Unset == [unset |-> TRUE]

HeadersName == 18   \* nginx_headers;dur=
UpstreamName == 29  \* ", nginx_upstream_connect;dur=" and the like
AttemptWord == 9    \* " attempt "

-----------------------------------------------------------------------------
Buffer(capacity) == [capacity |-> capacity, used |-> 0, put |-> <<>>]
Put(text, size, kind, payload) ==
  [text EXCEPT !.used = @ + size, !.put = Append(@, <<text.used, kind, payload>>)]
Number(text, n) == Put(text, Len(Decimal(n)), "value", Decimal(n))
Description(text, d) == Put(text, d, "host", <<>>)

(* The number of an attempt leaves out the states that have no peer.       *)
AttemptNumber(s, i) == Cardinality({k \in 1 .. i : s[k].peer})

(* attempt(): the cached label for the first, the general form for others. *)
(* Either way the label is the description with the number in its quotes.  *)
Attempt(text, d, n) ==
  Put(text, d - 1 + AttemptWord + Len(Decimal(n)) + 1, "attempt", Decimal(n))

(* One metric of an upstream state.                                        *)
Metric(text, d, s, i, name, time) ==
  LET value == Number(Put(text, UpstreamName, name, <<>>), time)
  IN CASE time = NoTime -> text
       [] time # NoTime /\ Len(s) = 1 -> Description(value, d)
       [] OTHER -> Attempt(value, d, AttemptNumber(s, i))

(* Mutant: the room for one of the two metrics of each state.              *)
CapacityOneMetric(d, count) == 96 + d + count * (128 + d)
Capacity(d, count) == 96 + d + count * (256 + 2 * d)

(* general(): the time to the headers, then a turn for each state.         *)
Headers(d, s, elapsed) ==
  Description(Number(Put(Buffer(Capacity(d, Len(s))), HeadersName, "headers", <<>>), elapsed), d)

Turn(text, d, s, i) ==
  IF ~s[i].peer THEN text
  ELSE Metric(Metric(text, d, s, i, "connect", s[i].connect_time),
              d, s, i, "header", s[i].header_time)

General(d, s, elapsed) ==
  LET after[i \in 0 .. Len(s)] ==
        IF i = 0 THEN Headers(d, s, elapsed) ELSE Turn(after[i - 1], d, s, i)
  IN after[Len(s)]

-----------------------------------------------------------------------------
(* init(): the description is quoted and escaped and loses its control     *)
(* characters; the fast template has three zeros, whose places are kept.   *)
DescriptionLen(h) == 7 + h.plain + 2 * h.escaped + 1
DescriptionRoom(h) == 2 * (h.plain + h.escaped + h.control) + 32

Zero(text) == Put(text, 1, "value", <<0>>)
InitConfig(h) ==
  LET d == DescriptionLen(h)
      t1 == Put(Buffer(128 + 3 * d), HeadersName, "headers", <<>>)
      t2 == Put(Description(Zero(t1), d), UpstreamName, "connect", <<>>)
      t3 == Put(Description(Zero(t2), d), UpstreamName, "header", <<>>)
  IN [description |-> d,
      attempt_one |-> Put(Buffer(d + 10), d - 1 + 11, "attempt", Decimal(1)),
      fast |-> Description(Zero(t3), d),
      digits |-> <<t1.used, t2.used, t3.used>>]

(* A digit over the value that stands there, or over anything else.        *)
Poke(text, pos, n) ==
  LET at == {k \in DOMAIN text.put : text.put[k][1] = pos}
      digit == <<pos, "value", <<n>>>>
  IN [text EXCEPT !.put = IF at = {} THEN Append(@, digit)
                          ELSE [k \in DOMAIN @ |-> IF k \in at THEN digit ELSE @[k]]]

OneDigit(n) == n # NoTime /\ n < 10

(* filter(): the field of a main request in a location that has it on.     *)
Field(c, s, elapsed) ==
  LET fast == /\ Len(s) = 1 /\ s[1].peer /\ OneDigit(elapsed)
              /\ OneDigit(s[1].connect_time) /\ OneDigit(s[1].header_time)
  IN IF fast
     THEN Poke(Poke(Poke(c.fast, c.digits[1], elapsed),
                    c.digits[2], s[1].connect_time), c.digits[3], s[1].header_time)
     ELSE General(c.description, s, elapsed)

-----------------------------------------------------------------------------
Init == host \in Hosts /\ config = Unset /\ states = <<>> /\ sent = Unset

InitModule ==
  /\ config = Unset
  /\ config' = InitConfig(host)
  /\ UNCHANGED <<host, states, sent>>

Serving == config # Unset /\ sent = Unset

(* nginx's upstream code: an attempt at a peer, which may be a retry.      *)
Connect ==
  /\ Serving /\ Len(states) < MaxStates
  /\ states' = Append(states, [peer |-> TRUE, connect_time |-> NoTime, header_time |-> NoTime])
  /\ UNCHANGED <<host, config, sent>>

Connected(t) ==
  /\ Serving /\ states # <<>>
  /\ Last(states).peer /\ Last(states).connect_time = NoTime
  /\ states' = [states EXCEPT ![Len(states)].connect_time = t]
  /\ UNCHANGED <<host, config, sent>>

HeaderRead(t) ==
  /\ Serving /\ states # <<>>
  /\ Last(states).peer /\ Last(states).connect_time # NoTime /\ Last(states).header_time = NoTime
  /\ states' = [states EXCEPT ![Len(states)].header_time = t]
  /\ UNCHANGED <<host, config, sent>>

(* A state without a peer: the zeroed mark between two upstream blocks, or *)
(* an attempt that found no peer.                                          *)
NoPeer(t) ==
  /\ Serving /\ Len(states) < MaxStates
  /\ t = 0 => states # <<>>
  /\ states' = Append(states, [peer |-> FALSE, connect_time |-> t, header_time |-> t])
  /\ UNCHANGED <<host, config, sent>>

(* The wall clock may have been set back since the request came.           *)
Elapsed(n) == IF n < 0 THEN 0 ELSE n

SendHeader(n) ==
  /\ Serving
  /\ sent' = [elapsed |-> n, field |-> Field(config, states, Elapsed(n))]
  /\ UNCHANGED <<host, config, states>>

(* The request is over, also when an allocation failed in the filter.      *)
Finish ==
  /\ config # Unset
  /\ states' = <<>> /\ sent' = Unset
  /\ UNCHANGED <<host, config>>

Next ==
  \/ InitModule \/ Connect \/ Finish
  \/ \E t \in Times : Connected(t) \/ HeaderRead(t)
  \/ \E t \in {0, NoTime} : NoPeer(t)
  \/ \E n \in Times \cup {-1} : SendHeader(n)

Spec == Init /\ [][Next]_vars

-----------------------------------------------------------------------------
TypeOK ==
  /\ host \in Hosts
  /\ config # Unset =>
       /\ config.description \in Nat
       /\ \A k \in 1 .. 3 : config.digits[k] \in 0 .. config.fast.used
  /\ states \in Seq([peer : BOOLEAN, connect_time : Times \cup {0, NoTime},
                     header_time : Times \cup {0, NoTime}])
  /\ sent # Unset => \A k \in DOMAIN sent.field.put :
                       LET p == sent.field.put[k]
                       IN p[1] \in Nat /\ p[3] \in Seq(0 .. 9)

(* No buffer is written past its end, whatever the host name, the number   *)
(* of attempts and the durations: nothing in the code checks it.           *)
WithinBuffers ==
  /\ config # Unset =>
       /\ config.description <= DescriptionRoom(host)
       /\ config.attempt_one.used <= config.attempt_one.capacity
       /\ config.fast.used <= config.fast.capacity
  /\ sent # Unset => sent.field.used <= sent.field.capacity

(* What the field says: a metric, its duration, the number of the attempt, *)
(* <<>> where there is none.                                               *)
Reading(text) ==
  [k \in 1 .. Len(text.put) \div 3 |->
     <<text.put[3 * k - 2][2], text.put[3 * k - 1][3], text.put[3 * k][3]>>]

(* What it should say: the time to the header, then for each attempt in    *)
(* its order the times it has; an attempt is numbered among those with a   *)
(* peer, unless it is the only thing that happened.                        *)
Truth(s, elapsed) ==
  LET label(i) == IF Len(s) = 1 THEN <<>> ELSE Decimal(Cardinality({k \in 1 .. i : s[k].peer}))
      line(name, i, t) == IF t = NoTime THEN <<>> ELSE << <<name, Decimal(t), label(i)>> >>
      told[i \in 0 .. Len(s)] ==
        IF i = 0 THEN << <<"headers", Decimal(IF elapsed < 0 THEN 0 ELSE elapsed), <<>>>> >>
        ELSE told[i - 1] \o IF ~s[i].peer THEN <<>>
                            ELSE line("connect", i, s[i].connect_time)
                                   \o line("header", i, s[i].header_time)
  IN told[Len(s)]

(* The field says what happened to the request, a zero included, whether   *)
(* it was written in full or as three digits of the template: no duration  *)
(* is of another attempt, lost or left over from the template.             *)
FieldIsTrue == sent # Unset => Reading(sent.field) = Truth(states, sent.elapsed)
=============================================================================
