---------------------------- MODULE NodesConfig ----------------------------
(***************************************************************************)
(* build_nodes_config of update_sub.py: the subscriptions are fetched one  *)
(* after the other, each with retries, their nodes are renamed apart, and  *)
(* the nodes are arranged in the groups that main.json routes to.          *)
(*                                                                         *)
(* A name is a pair, <<text, suffixes>>, so that appending "_1" to a name  *)
(* can meet a name that ends so already.  Which regions and which rate     *)
(* class a name falls in (the regular expressions, get_multiplier) is an   *)
(* attribute of the entry.                                                 *)
(***************************************************************************)
EXTENDS Integers, Sequences, FiniteSets, SequencesExt

CONSTANTS
  SubLists,    \* values of SUB_URLS: sequences of subscription tags
  Answers,     \* what a subscription can answer: sequences of entries
  RetryLimit,  \* FETCH_NODES_RETRY_LIMIT
  Groups,      \* the regions, in order
  Strict,      \* strict_groups
  Selected     \* NODE_SELECTIONS: [region -> sequence of names]

Name == STRING \X Seq(Nat)
Rates == {"low", "normal", "high"}

(* What an answer lists: a node; something without server or tag; or an    *)
(* entry that makes the loop raise (a tag that is not a string).           *)
Entry == [kind : {"node", "unusable", "broken"}, name : Name,
          regions : SUBSET ToSet(Groups), rate : Rates]
NodeTag == {"node"} \X STRING \X Name
Node == [tag : NodeTag, sub : STRING, original : Name,
         regions : SUBSET ToSet(Groups), rate : Rates]

ASSUME RetryAssumption == RetryLimit \in Nat \ {0}
ASSUME GroupsAssumption ==
  /\ Groups \in Seq(STRING) /\ IsInjective(Groups)
  /\ Strict \subseteq ToSet(Groups)
ASSUME InputsAssumption ==
  /\ SubLists \subseteq Seq(STRING)
  /\ Answers \subseteq Seq(Entry)
  /\ \A g \in ToSet(Groups) : Selected[g] \in Seq(Name \cup NodeTag)

VARIABLES
  subs,      \* the subscriptions of this run
  i,         \* the subscription being fetched
  attempt,   \* its attempt
  k,         \* the entry, or the region, that the loop is at
  nodes,     \* all_nodes
  stats,     \* fetch_success_count, fetch_failure_count, total_retries
  config,    \* custom_outbounds
  status,    \* fetching; adding; grouping; built; raised
  answered   \* for each subscription fetched, what it answered

buildVars == <<subs, i, attempt, k, nodes, stats, config, status, answered>>

-----------------------------------------------------------------------------
(* The elements of a sequence at the places in S, in their order.          *)
Nth(S, p) == CHOOSE n \in S : Cardinality({m \in S : m <= n}) = p
Chosen(s, S) == [p \in 1 .. Cardinality(S) |-> s[Nth(S, p)]]

Tags(ns, S) == LET chosen == Chosen(ns, S) IN [p \in DOMAIN chosen |-> chosen[p].tag]
TagsOf(ns) == {ns[n].tag : n \in DOMAIN ns}

(* Mutant: a name that is taken gets the suffix 1, taken or not.           *)
SuffixOnce(sub, name, seen) ==
  IF <<"node", sub, name>> \notin seen THEN <<"node", sub, name>>
  ELSE <<"node", sub, <<name[1], Append(name[2], 1)>>>>

(* "[sub] name", with the first suffix _1, _2, ... that makes it new.      *)
Suffixed(sub, name, n) ==
  <<"node", sub, IF n = 0 THEN name ELSE <<name[1], Append(name[2], n)>>>>
FreshTag(sub, name, seen) ==
  LET New == {n \in 0 .. Cardinality(seen) : Suffixed(sub, name, n) \notin seen}
  IN  Suffixed(sub, name, CHOOSE n \in New : \A m \in New : n <= m)

(* Mutant: a node whose name is taken is dropped.                          *)
AddNodeOnce(sub, ns, entry) ==
  IF entry.kind # "node" \/ <<"node", sub, entry.name>> \in TagsOf(ns) THEN ns
  ELSE Append(ns, [tag |-> <<"node", sub, entry.name>>, sub |-> sub,
                   original |-> entry.name,
                   regions |-> entry.regions, rate |-> entry.rate])

(* The body of the node loop for an entry that does not raise.             *)
AddNode(sub, ns, entry) ==
  IF entry.kind # "node" THEN ns
  ELSE Append(ns, [tag |-> FreshTag(sub, entry.name, TagsOf(ns)), sub |-> sub,
                   original |-> entry.name,
                   regions |-> entry.regions, rate |-> entry.rate])

-----------------------------------------------------------------------------
(* Groups.  An outbound is a node or a group: its type, tag and members.   *)
Outbound(type, tag, members) == [type |-> type, tag |-> tag, members |-> members]

OrNone(condition, seq) == IF condition THEN seq ELSE <<>>

NodeOutbounds(ns) == [n \in DOMAIN ns |-> Outbound("node", ns[n].tag, <<>>)]

(* resolve_tag: the first node with that tag or that original name.        *)
Matches(ns, name) == {n \in DOMAIN ns : name \in {ns[n].tag, ns[n].original}}
Resolved(ns, name) ==
  ns[CHOOSE n \in Matches(ns, name) : \A m \in Matches(ns, name) : n <= m].tag

(* The selections of a group, appended to its selector: those that resolve *)
(* to a tag that is not there yet.                                         *)
WithSelections(ns, g, members) ==
  LET names == Selected[g]
      resolve == {n \in DOMAIN names : Matches(ns, names[n]) # {}}
      new == {n \in resolve :
                /\ Resolved(ns, names[n]) \notin ToSet(members)
                /\ \A m \in resolve :
                     m < n => Resolved(ns, names[m]) # Resolved(ns, names[n])}
      chosen == Chosen(names, new)
  IN  members \o [p \in DOMAIN chosen |-> Resolved(ns, chosen[p])]

(* The groups of a region with at least one node: the nodes of a normal or *)
(* low rate together and by subscription, those of a high rate, and the    *)
(* selector over all of them.                                              *)
Region(ns, g) == {n \in DOMAIN ns : g \in ns[n].regions}
HighRate(ns) == {n \in DOMAIN ns : ns[n].rate = "high"}
LowRate(ns) == {n \in DOMAIN ns : ns[n].rate = "low"}

BySub(ns, S) == SetToSeq({ns[n].tag[2] : n \in S})

NormalOutbounds(ns, g, S) ==
  LET bySub == BySub(ns, S)
  IN  <<Outbound("urltest", <<"URLTest", g>>, Tags(ns, S))>>
      \o [p \in DOMAIN bySub |->
            Outbound("urltest", <<"sub", g, bySub[p]>>,
                     Tags(ns, {n \in S : ns[n].tag[2] = bySub[p]}))]

HighOutbounds(ns, g, S) ==
  <<Outbound("urltest", <<"HighRate URLTest", g>>, Tags(ns, S)),
    Outbound("selector", <<"HighRate", g>>, <<<<"HighRate URLTest", g>>>> \o Tags(ns, S))>>

RegionMembers(ns, g, normal, high) ==
  LET bySub == BySub(ns, normal)
  IN  OrNone(normal # {}, <<<<"URLTest", g>>>>
                          \o [p \in DOMAIN bySub |-> <<"sub", g, bySub[p]>>]
                          \o Tags(ns, normal))
      \o OrNone(high # {}, <<<<"HighRate", g>>>> \o Tags(ns, high))

RegionOutbounds(ns, g) ==
  LET normal == Region(ns, g) \ HighRate(ns)
      high == Region(ns, g) \cap HighRate(ns)
  IN  OrNone(normal # {}, NormalOutbounds(ns, g, normal))
      \o OrNone(high # {}, HighOutbounds(ns, g, high))
      \o <<Outbound("selector", <<"group", g>>,
                    WithSelections(ns, g, RegionMembers(ns, g, normal, high)))>>

(* The groups across regions; only the low-rate and the high-rate ones are *)
(* left out when they would be empty.                                      *)
GlobalOutbounds(ns) ==
  LET low == LowRate(ns)
      high == HighRate(ns)
  IN  OrNone(low # {}, <<Outbound("urltest", <<"LowRateNodes">>, Tags(ns, low))>>)
      \o OrNone(high # {},
                <<Outbound("urltest", <<"HighRateNodes URLTest">>, Tags(ns, high)),
                  Outbound("selector", <<"HighRateNodes">>,
                           <<<<"HighRateNodes URLTest">>>> \o Tags(ns, high))>>)
      \o <<Outbound("urltest", <<"AllNodes">>, Tags(ns, DOMAIN ns \ high))>>

-----------------------------------------------------------------------------
BuildInit ==
  /\ subs \in SubLists
  /\ i = 1
  /\ attempt = 1
  /\ k = 1
  /\ nodes = <<>>
  /\ stats = [ok |-> 0, failed |-> 0, retries |-> 0]
  /\ config = <<>>
  /\ status = "fetching"
  /\ answered = <<>>

Fetching == status = "fetching" /\ i <= Len(subs)

NextSub(outcome) ==
  /\ i' = i + 1 /\ attempt' = 1 /\ k' = 1
  /\ status' = "fetching"
  /\ stats' = [stats EXCEPT ![outcome] = @ + 1]

(* An attempt raises: no answer, an answer that is not a JSON object, or   *)
(* one without a usable entry.  After the last one the subscription is     *)
(* skipped.                                                                *)
AttemptFails ==
  /\ Fetching
  /\ IF attempt < RetryLimit
     THEN attempt' = attempt + 1 /\ UNCHANGED <<i, k, stats, status, answered>>
     ELSE NextSub("failed") /\ answered' = Append(answered, <<>>)
  /\ UNCHANGED <<subs, nodes, config>>

AttemptSucceeds(answer) ==
  /\ Fetching
  /\ \E entry \in ToSet(answer) : entry.kind # "unusable"
  /\ answered' = Append(answered, answer)
  /\ stats' = [stats EXCEPT !.retries = @ + attempt - 1]
  /\ status' = "adding"
  /\ UNCHANGED <<subs, i, attempt, k, nodes, config>>

(* The loop over the entries.  The nodes before one that raises stay, and  *)
(* the subscription counts as failed.                                      *)
AddEntry ==
  /\ status = "adding" /\ k <= Len(answered[i])
  /\ answered[i][k].kind # "broken"
  /\ nodes' = AddNode(subs[i], nodes, answered[i][k])
  /\ k' = k + 1
  /\ UNCHANGED <<subs, i, attempt, stats, config, status, answered>>

EntryRaises ==
  /\ status = "adding" /\ k <= Len(answered[i])
  /\ answered[i][k].kind = "broken"
  /\ NextSub("failed")
  /\ UNCHANGED <<subs, nodes, config, answered>>

EntriesDone ==
  /\ status = "adding" /\ k > Len(answered[i])
  /\ NextSub("ok")
  /\ UNCHANGED <<subs, nodes, config, answered>>

(* All subscriptions are done.                                             *)
StartGroups ==
  /\ status = "fetching" /\ i > Len(subs)
  /\ IF nodes = <<>> THEN status' = "raised" /\ UNCHANGED config
     ELSE status' = "grouping" /\ config' = NodeOutbounds(nodes)
  /\ UNCHANGED <<subs, i, attempt, k, nodes, stats, answered>>

(* The loop over the regions.  One without nodes is skipped, unless main.  *)
(* json routes to it.                                                      *)
AddRegion ==
  /\ status = "grouping" /\ k <= Len(Groups)
  /\ LET g == Groups[k]
     IN IF Region(nodes, g) = {} /\ g \in Strict
        THEN status' = "raised" /\ UNCHANGED <<k, config>>
        ELSE /\ config' = config \o OrNone(Region(nodes, g) # {}, RegionOutbounds(nodes, g))
             /\ k' = k + 1 /\ UNCHANGED status
  /\ UNCHANGED <<subs, i, attempt, nodes, stats, answered>>

Finish ==
  /\ status = "grouping" /\ k > Len(Groups)
  /\ config' = config \o GlobalOutbounds(nodes)
  /\ status' = "built"
  /\ UNCHANGED <<subs, i, attempt, k, nodes, stats, answered>>

BuildNext ==
  \/ AttemptFails
  \/ \E answer \in Answers : AttemptSucceeds(answer)
  \/ AddEntry \/ EntryRaises \/ EntriesDone
  \/ StartGroups \/ AddRegion \/ Finish

BuildSpec == BuildInit /\ [][BuildNext]_buildVars

-----------------------------------------------------------------------------
(* Type correctness.                                                       *)
BuildTypeOK ==
  /\ subs \in SubLists
  /\ i \in 1 .. Len(subs) + 1
  /\ attempt \in 1 .. RetryLimit
  /\ k \in Nat \ {0}
  /\ nodes \in Seq(Node)
  /\ stats \in [{"ok", "failed", "retries"} -> Nat]
  /\ status \in {"fetching", "adding", "grouping", "built", "raised"}
  /\ answered \in Seq(Seq(Entry))
  /\ Len(answered) = IF status = "adding" THEN i ELSE i - 1

Members(o) == ToSet(o.members)
ConfigTags == {o.tag : o \in ToSet(config)}

(* sing-box refuses two outbounds of one tag: whatever the providers call  *)
(* their nodes, and however often a subscription is listed, every tag of   *)
(* the configuration is unique.                                            *)
TagsUnique ==
  \A m, n \in DOMAIN config : config[m].tag = config[n].tag => m = n

(* Every member of a group is an outbound of the configuration, so that a  *)
(* skipped group leaves no reference behind.                               *)
MembersExist == \A o \in ToSet(config) : Members(o) \subseteq ConfigTags

(* No group lists a member twice, whatever the selections name.            *)
MembersOnce == \A o \in ToSet(config) : IsInjective(o.members)

(* The tags that main.json routes to are there whenever a configuration is *)
(* published.                                                              *)
Routed == {<<"AllNodes">>} \cup {<<"group", g>> : g \in Strict}
RoutesResolve == status = "built" => Routed \subseteq ConfigTags

(* No group is empty if there is a node that is not a high-rate one; if    *)
(* there is none, AllNodes is, and no other.                               *)
GroupsHaveMembers ==
  \A o \in ToSet(config) :
    o.type # "node" /\ o.members = <<>> =>
      o.tag = <<"AllNodes">> /\ \A n \in DOMAIN nodes : nodes[n].rate = "high"

(* If at least one node of the build is not a high-rate one, the           *)
(* configuration is one that sing-box accepts and main.json can use: tags  *)
(* are unique, groups closed, not empty and without repetitions, and every *)
(* route resolves.  If all are high-rate ones the same holds but for       *)
(* AllNodes, which has no member, and sing-box refuses such a group: see   *)
(* RoutesHaveNodes.                                                        *)
ConfigIsUsable ==
  BuildTypeOK /\ TagsUnique /\ MembersExist /\ MembersOnce /\ RoutesResolve
         /\ GroupsHaveMembers

(* Claimed by the script, of the groups that must have at least one node:  *)
(* missing nodes are a hard error, and nothing is published.  main.json    *)
(* routes to the strict groups and to AllNodes.                            *)
RoutesHaveNodes ==
  status = "built" =>
    \A o \in ToSet(config) : o.tag \in Routed => o.members # <<>>

(* The entries with server and tag before the first one that raises, of    *)
(* all answers that were processed.                                        *)
Usable(answer) ==
  {n \in DOMAIN answer : /\ answer[n].kind = "node"
                         /\ \A m \in 1 .. n - 1 : answer[m].kind # "broken"}
UsableEntries == UNION {{<<s, n>> : n \in Usable(answered[s])} : s \in DOMAIN answered}

(* Nothing is lost: every one of them, of every subscription, is a node of *)
(* the build with its regions and its rate, also when its name collides    *)
(* with one of another subscription, and there is no other node.           *)
NothingLost ==
  status # "adding" =>
    /\ Len(nodes) = Cardinality(UsableEntries)
    /\ \A e \in UsableEntries :
         LET entry == answered[e[1]][e[2]]
         IN \E n \in DOMAIN nodes :
              /\ nodes[n].sub = subs[e[1]] /\ nodes[n].original = entry.name
              /\ nodes[n].regions = entry.regions /\ nodes[n].rate = entry.rate
=============================================================================
