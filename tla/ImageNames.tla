----------------------------- MODULE ImageNames -----------------------------
(***************************************************************************)
(* scripts/gen-image-lock.py: what the generator makes of two references   *)
(* to images that it resolves at one time: name and tag, canonical name,   *)
(* the sources to fetch from, and the cache file that holds the hash.      *)
(*                                                                         *)
(* A name is the sequence of its parts between "/", a part the sequence of *)
(* its words between "_"; a port is a last word of the first part, ":"     *)
(* included.  A tag is a sequence of words as well.                        *)
(***************************************************************************)
EXTENDS Integers, FiniteSets, Sequences, SequencesExt

CONSTANTS
  References, \* [name, tag, digest]; tag and pinned digest may be None
  Mirrors,    \* the maps from registries to sequences of mirrors
  Dotted,     \* the words with a dot
  Ports,      \* the words with a colon
  Digest(_),  \* what crane answers for a reference
  Number(_),  \* a port without its colon
  None

VARIABLES refs, mirrors, entry

vars == <<refs, mirrors, entry>>

docker == <<"docker.io">>

-----------------------------------------------------------------------------
HasPort(part) == \E w \in ToSet(part) : w \in Ports

(* process_image: the name without the digest is cut at its last colon.    *)
(* Mutant: the digest is not cut off first.                                *)
ParseWithDigest(r) ==
  IF r.digest # None THEN [name |-> r.name, tag |-> <<r.digest>>]
  ELSE IF r.tag # None THEN [name |-> r.name, tag |-> r.tag]
  ELSE [name |-> r.name, tag |-> <<"latest">>]

Parse(r) ==
  CASE r.tag # None -> [name |-> r.name, tag |-> r.tag]
    [] r.tag = None /\ ~HasPort(r.name[1]) -> [name |-> r.name, tag |-> <<"latest">>]
    [] OTHER -> [name |-> <<Front(r.name[1])>>,
                 tag |-> <<Number(Last(r.name[1]))>> \o FlattenSeq(Tail(r.name))]

(* split_image_name.  An explicit registry with nothing after it leaves an *)
(* empty repository.                                                       *)
Explicit(part) ==
  HasPort(part) \/ part = <<"localhost">> \/ \E w \in ToSet(part) : w \in Dotted
Registry(n) == IF Explicit(n[1]) THEN n[1] ELSE docker
Repository(n) ==
  CASE Explicit(n[1]) /\ Len(n) > 1 -> Tail(n)
    [] Explicit(n[1]) /\ Len(n) = 1 -> << <<>> >>
    [] OTHER -> n

(* canonical_image_name.                                                   *)
Canonical(n) ==
  <<Registry(n)>>
  \o (IF Registry(n) = docker /\ Len(Repository(n)) = 1 THEN << <<"library">> >> ELSE <<>>)
  \o Repository(n)

(* unique_sources: every source at its first place, in the order of all.   *)
Once(all) ==
  LET first == {k \in DOMAIN all : \A j \in 1 .. k - 1 : all[j] # all[k]}
      nth(n) == CHOOSE k \in first : Cardinality({j \in first : j <= k}) = n
  IN [n \in 1 .. Cardinality(first) |-> all[nth(n)]]

(* map_image_sources: the mirrors first, then the name itself, each once.  *)
Sources(n) ==
  LET c == Canonical(n)
      m == IF Registry(c) \in DOMAIN mirrors THEN mirrors[Registry(c)] ELSE <<>>
  IN Once(Append([k \in DOMAIN m |-> m[k] \o Repository(c)], c))

(* "/" and ":" become "_".                                                 *)
SafeName(n) ==
  LET words == FlattenSeq(n)
  IN [k \in DOMAIN words |-> IF words[k] \in Ports THEN Number(words[k]) ELSE words[k]]

(* Mutant: the name of the file leaves out the hash of the sources.        *)
CacheFileOfName(n, tag, digest) == <<SafeName(Canonical(n)), tag, digest>>

(* The name of the cache file; the hash of the sources tells all apart.    *)
CacheFile(n, tag, digest) == <<SafeName(Canonical(n)), tag, digest, Sources(n)>>

Unresolved == [name |-> <<>>]
Init ==
  /\ refs \in [{1, 2} -> References]
  /\ mirrors \in Mirrors
  /\ entry = [i \in {1, 2} |-> Unresolved]

(* One worker's process_image.                                             *)
Resolve(i) ==
  /\ entry[i] = Unresolved
  /\ LET p == Parse(refs[i])
     IN entry' = [entry EXCEPT ![i] =
          [name |-> p.name, tag |-> p.tag, digest |-> Digest(refs[i]),
           final |-> Canonical(p.name), sources |-> Sources(p.name),
           file |-> CacheFile(p.name, p.tag, Digest(refs[i]))]]
  /\ UNCHANGED <<refs, mirrors>>

Next == \E i \in {1, 2} : Resolve(i)
Spec == Init /\ [][Next]_vars

-----------------------------------------------------------------------------
Done == \A i \in {1, 2} : entry[i] # Unresolved

(* Two references share a cache file only when the archive is one: same    *)
(* canonical name, tag, digest and sources.  Flattened names do collide    *)
(* (a/b_c and a_b/c, a port and a suffix).                                 *)
OneFileOneArchive ==
  Done /\ entry[1].file = entry[2].file =>
    \A f \in {"final", "tag", "digest", "sources"} : entry[1][f] = entry[2][f]

(* What Docker takes two names for: docker.io is left out, then library.   *)
Familiar(n) ==
  LET m == IF n[1] = docker THEN Tail(n) ELSE n
  IN IF Len(m) = 2 /\ m[1] = <<"library">> THEN Tail(m) ELSE m

Ambiguous(r) == r.tag = None /\ HasPort(r.name[1])

(* The final names of two references are the same exactly when Docker      *)
(* takes the names for the same; a registry's port without a tag excepted. *)
FinalNamesAreDockers ==
  Done /\ (\A i \in {1, 2} : ~Ambiguous(refs[i])) =>
    (entry[1].final = entry[2].final) = (Familiar(refs[1].name) = Familiar(refs[2].name))

(* Name and tag are those that the reference spells out, whether a digest  *)
(* is pinned or not.  A port without a tag is the one exception: the tag   *)
(* is then made of the port and the path, and the name is lost.            *)
TagsAsWritten ==
  \A i \in {1, 2} : entry[i] # Unresolved =>
    LET written == entry[i].name = refs[i].name /\
                   entry[i].tag = (IF refs[i].tag = None THEN <<"latest">> ELSE refs[i].tag)
    IN written = ~Ambiguous(refs[i])

(* The builder tries every mirror and the registry itself, none twice.     *)
EverySourceOnce ==
  \A i \in {1, 2} : entry[i] # Unresolved =>
    LET s == entry[i].sources
    IN /\ entry[i].final \in ToSet(s)
       /\ \A j, k \in DOMAIN s : s[j] = s[k] => j = k

(* What the lock and the cache call an image is what Docker takes it for,  *)
(* with the tag as written and each of its sources once.                   *)
NamesAreDockers == FinalNamesAreDockers /\ TagsAsWritten /\ EverySourceOnce
=============================================================================
