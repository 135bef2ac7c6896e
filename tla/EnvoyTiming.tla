----------------------------- MODULE EnvoyTiming -----------------------------
(***************************************************************************)
(* scripts/network/native/envoy/plugin.c and bridge.cc: the server-timing  *)
(* field of a response, written into a fixed buffer by a general path and  *)
(* by a fast path that overwrites single digits of a template.             *)
(*                                                                         *)
(* A text is the number of bytes used and what was put where: <<position,  *)
(* kind, payload>>.  The bytes of names and descriptions are not spelled   *)
(* out; their lengths are the program's.                                   *)
(***************************************************************************)
EXTENDS Integers, Sequences

CONSTANTS
  Hosts,     \* a set of Host: [plain, other, escaped, control]: characters of each kind
  Intervals, \* what Envoy's stream info gives: nanoseconds per metric, or None
  Decimal(_), \* the decimal digits of a number, as a sequence
  None

VARIABLES host, config, sent

vars == <<host, config, sent>>

DescriptionRoom == 530
TemplateRoom == 3400
OutputRoom == 4096
DigitsMax == 20

NanosPerMilli == 1000000
Metric == 1 .. 6
NameLen == <<10, 10, 10, 11, 11, 9>>

(* Host names have at most 256 bytes (gethostname into hostname[257]).     *)
Host == {h \in [plain : 0 .. 256, other : 0 .. 256, escaped : 0 .. 256, control : 0 .. 256] :
           h.plain + h.other + h.escaped + h.control <= 256}

-----------------------------------------------------------------------------
(* bridge.cc: an interval with a missing end has no duration, and one that *)
(* runs backwards is left out.  A duration is in milliseconds, rounded     *)
(* toward zero once the sign is known.                                     *)
Timings(d) == [i \in Metric |-> IF d[i] = None \/ d[i] < 0 THEN <<>>
                                ELSE Decimal(d[i] \div NanosPerMilli)]

(* digits().                                                               *)
IsDigits(value) == Len(value) \in 1 .. DigitsMax

Kinds == {"comma", "name", "value", "description"}
Texts == [used : Nat \cup {-1}, put : SUBSET (Nat \X Kinds \X Seq(0 .. 9))]
Failed == [used |-> -1, put |-> {}]
Empty == [used |-> 0, put |-> {}]

(* One turn of format_slow's loop: four appends, each checked.             *)
Emit(text, room, desc, values, i) ==
  LET name == IF text.used > 0 THEN text.used + 1 ELSE 0
      value == name + NameLen[i]
      end == value + Len(values[i]) + desc
  IN CASE text = Failed \/ ~IsDigits(values[i]) -> text
       [] text # Failed /\ IsDigits(values[i]) /\ end > room -> Failed
       [] OTHER ->
          [used |-> end,
           put |-> text.put \cup {<<t, "comma", <<>>>> : t \in {text.used} \ {0}}
                     \cup {<<name, "name", <<i>>>>, <<value, "value", values[i]>>,
                           <<value + Len(values[i]), "description", <<>>>>}]

(* The six turns of a loop over the metrics.                               *)
Loop(Turn(_, _), start) ==
  Turn(Turn(Turn(Turn(Turn(Turn(start, 1), 2), 3), 4), 5), 6)

FormatSlow(room, desc, values) ==
  LET Turn(text, i) == Emit(text, room, desc, values, i)
  IN Loop(Turn, Empty)

-----------------------------------------------------------------------------
(* initialize_templates: the second template leaves the third metric out.  *)
Zeros(variant) == [i \in Metric |-> IF variant = 2 /\ i = 3 THEN <<>> ELSE <<0>>]

(* Mutant: the offsets forget the comma between two metrics.               *)
OffsetsNoComma(variant, desc) ==
  LET Turn(o, i) ==
        IF Zeros(variant)[i] = <<>> THEN o
        ELSE [used |-> o.used + NameLen[i] + 1 + desc,
              at |-> [o.at EXCEPT ![i] = o.used + NameLen[i]]]
  IN Loop(Turn, [used |-> 0, at |-> [i \in Metric |-> 0]]).at

(* Where the digit of each metric stands, by a count of its own.           *)
Offset(o, i, variant, desc) ==
  LET name == IF o.used > 0 THEN o.used + 1 ELSE 0
  IN IF Zeros(variant)[i] = <<>> THEN o
     ELSE [used |-> name + NameLen[i] + 1 + desc, at |-> [o.at EXCEPT ![i] = name + NameLen[i]]]

Offsets(variant, desc) ==
  LET Turn(o, i) == Offset(o, i, variant, desc)
  IN Loop(Turn, [used |-> 0, at |-> [i \in Metric |-> 0]]).at

(* A template that does not fit has no length, which format() checks.      *)
Template(desc, variant) ==
  LET text == FormatSlow(TemplateRoom, desc, Zeros(variant))
  IN IF text.used > 0 THEN text ELSE Empty

(* program_init: a name that is no token is quoted and escaped.            *)
DescriptionLen(h) ==
  IF h.other + h.escaped + h.control = 0 THEN 6 + h.plain
  ELSE 7 + h.plain + h.other + 2 * h.escaped + 1

Settings(h) ==
  [description |-> DescriptionLen(h),
   templates |-> [v \in {1, 2} |-> Template(DescriptionLen(h), v)],
   offsets |-> [v \in {1, 2} |-> Offsets(v, DescriptionLen(h))]]

AllSettings ==
  [description : Nat, templates : [{1, 2} -> Texts], offsets : [{1, 2} -> [Metric -> Nat]]]

Poke(text, pos, digit) ==
  [text EXCEPT !.put = {p \in @ : p[1] # pos} \cup {<<pos, "value", digit>>}]

(* format(): single digits go into a copy of the template, anything else   *)
(* takes the general path.                                                 *)
Format(s, values) ==
  LET variant == IF values[3] = <<>> THEN 2 ELSE 1
      template == s.templates[variant]
      Turn(text, i) == IF variant = 2 /\ i = 3 THEN text
                       ELSE Poke(text, s.offsets[variant][i], values[i])
  IN IF \/ \E i \in Metric : ~(variant = 2 /\ i = 3) /\ Len(values[i]) # 1
        \/ template.used = 0 \/ template.used > OutputRoom
     THEN FormatSlow(OutputRoom, s.description, values)
     ELSE Loop(Turn, template)

-----------------------------------------------------------------------------
Init == host \in Hosts /\ config = None /\ sent = None

(* program_init in a compatible Envoy, before any worker has the module.   *)
(* In any other it returns NULL, and no filter is ever created.            *)
ProgramInit ==
  /\ config = None
  /\ config' = Settings(host)
  /\ UNCHANGED <<host, sent>>

(* response_headers on some worker's stream.  A text that does not fit, or *)
(* has no metric at all, adds no field.                                    *)
ResponseHeaders(d) ==
  /\ config # None /\ sent = None
  /\ LET text == Format(config, Timings(d))
     IN sent' = [intervals |-> d, field |-> IF text.used > 0 THEN text ELSE None]
  /\ UNCHANGED <<host, config>>

StreamComplete == sent # None /\ sent' = None /\ UNCHANGED <<host, config>>

Next == ProgramInit \/ StreamComplete \/ \E d \in Intervals : ResponseHeaders(d)
Spec == Init /\ [][Next]_vars

-----------------------------------------------------------------------------
TypeOK ==
  /\ host \in Hosts
  /\ config # None => /\ config.description \in Nat
                      /\ \A v \in {1, 2}, i \in Metric : config.offsets[v][i] \in Nat
  /\ sent # None => /\ sent.intervals \in Intervals /\ config # None
                    /\ \A p \in sent.field.put : p[1] \in Nat /\ p[3] \in Seq(0 .. 9)

(* The bytes of a host name fit the description, and the descriptions of   *)
(* six metrics fit both templates and the longest field that six durations *)
(* can make: the capacity checks never fire and no metric is ever lost to  *)
(* them.                                                                   *)
EverythingFits ==
  config # None =>
    /\ config.description <= DescriptionRoom
    /\ \A v \in {1, 2} : config.templates[v].used \in 1 .. TemplateRoom
    /\ sent # None => sent.field # None /\ sent.field.used <= OutputRoom

Shown(d) == {i \in Metric : d[i] # None /\ d[i] >= 0}

(* The field as the README describes it: every available metric once, in   *)
(* the order of the metrics, each where the ones before it end.            *)
Described(d, desc) ==
  LET digits(i) == Decimal(d[i] \div NanosPerMilli)
      size(i) == NameLen[i] + Len(digits(i)) + desc
      upto[i \in 0 .. 6] ==
        IF i = 0 THEN 0 ELSE upto[i - 1] + (IF i \in Shown(d) THEN size(i) + 1 ELSE 0)
      start(i) == upto[i - 1]
      first == CHOOSE i \in Shown(d) : \A j \in Shown(d) : i <= j
  IN [used |-> upto[6] - 1,
      put |-> (UNION {{<<start(i), "name", <<i>>>>,
                       <<start(i) + NameLen[i], "value", digits(i)>>,
                       <<start(i) + size(i) - desc, "description", <<>>>>} : i \in Shown(d)})
              \cup {<<start(i) - 1, "comma", <<>>>> : i \in Shown(d) \ {first}}]

(* Whatever path wrote it, the field holds every available duration at its *)
(* place, a real zero included, and nothing of the template it came from:  *)
(* the offsets and the template agree for every host name.                 *)
FieldIsDescribed ==
  sent # None => sent.field = Described(sent.intervals, config.description)
=============================================================================
