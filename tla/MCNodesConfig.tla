--------------------------- MODULE MCNodesConfig ---------------------------
(* The instance of NodesConfig that TLC checks: two subscriptions, of one  *)
(* name or of two, entries whose names collide with and without a suffix,  *)
(* in no, one or two regions and of every rate class.                      *)
EXTENDS NodesConfig

Listed(kind, name, regions, rate) ==
  [kind |-> kind, name |-> name, regions |-> regions, rate |-> rate]

Entries ==
  {Listed("node", <<"n", <<>>>>, {"US"}, "normal"),
   Listed("node", <<"n", <<1>>>>, {"HK", "US"}, "high"),
   Listed("node", <<"n", <<1>>>>, {"HK"}, "low"),
   Listed("node", <<"n", <<>>>>, {}, "high"),
   Listed("unusable", <<"n", <<>>>>, {"US"}, "normal"),
   Listed("broken", <<"n", <<>>>>, {}, "normal")}

MCAnswers ==
  UNION {[1 .. n -> Entries] : n \in 1 .. 2}
  \cup {<<a, a, b>> : a \in {e \in Entries : e.kind = "node" /\ e.rate = "normal"},
                    b \in Entries}

MCSubLists == {<<"a", "a">>, <<"a", "b">>}

MCGroups == <<"HK", "US">>

MCSelected == [g \in {"HK", "US"} |->
                 IF g = "HK" THEN <<<<"n", <<1>>>>, <<"n", <<>>>>>>
                 ELSE <<<<"node", "a", <<"n", <<1>>>>>>, <<"gone", <<>>>>>>]
=============================================================================
