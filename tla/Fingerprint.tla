---------------------------- MODULE Fingerprint ----------------------------
(***************************************************************************)
(* The key of the response cache (gateway-core/src/cache/fingerprint.rs    *)
(* and the caller in gateway-api/src/routes/proxy.rs).  A byte is a        *)
(* number, a string the sequence of its bytes.  BLAKE3 is taken to be free *)
(* of collisions, so a digest is the sequence it was fed.                  *)
(***************************************************************************)
EXTENDS Integers, Sequences, SequencesExt

CONSTANTS
  Nodes,   \* the JSON values that occur, one node for each distinct value
  Json     \* Json[n]: its tag, its text, its members' keys and its children

Byte == 0..255

JsonType ==
  [Nodes -> [tag : {"n", "b0", "b1", "d", "s", "a", "o"},
             text : Seq(Byte), keys : Seq(Seq(Byte)), kids : Seq(Nodes)]]

\* What is left of a u64 when its lowest byte is gone.
Shr8(n) == n \div 256

\* The length fits a usize: it is below 2^64.
IsUsize(n) == Shr8(Shr8(Shr8(Shr8(Shr8(Shr8(Shr8(n))))))) < 256

\* A value has what its kind has, and no more.
WellFormed(v) ==
  /\ v.tag \notin {"d", "s"} => v.text = <<>>
  /\ v.tag \notin {"a", "o"} => v.kids = <<>>
  /\ Len(v.keys) = IF v.tag = "o" THEN Len(v.kids) ELSE 0
  /\ IsUsize(Len(v.text)) /\ IsUsize(Len(v.kids))
  /\ \A i \in DOMAIN v.keys : IsUsize(Len(v.keys[i]))

\* Values are numbered, each after those it consists of.
ASSUME JsonAssumption ==
  /\ Nodes \subseteq Nat
  /\ Json \in JsonType
  /\ \A n \in Nodes : WellFormed(Json[n])
  /\ \A n \in Nodes : \A i \in DOMAIN Json[n].kids : Json[n].kids[i] < n
  /\ \A m, n \in Nodes : Json[m] = Json[n] => m = n

\* Mutant: strings are not preceded by their length.
NoLen(n) == <<>>

\* (len as u64).to_le_bytes()
hash_len(n) ==
  LET n1 == Shr8(n)
      n2 == Shr8(n1)
      n3 == Shr8(n2)
      n4 == Shr8(n3)
      n5 == Shr8(n4)
      n6 == Shr8(n5)
      n7 == Shr8(n6)
  IN <<n % 256, n1 % 256, n2 % 256, n3 % 256, n4 % 256, n5 % 256, n6 % 256, n7 % 256>>

\* The bytes of b"n", b"b0", b"b1", b"d", b"s", b"a", b"o".
TagBytes ==
  [n |-> <<110>>, b0 |-> <<98, 48>>, b1 |-> <<98, 49>>, d |-> <<100>>, s |-> <<115>>,
   a |-> <<97>>, o |-> <<111>>]

\* The bytes of one value, given those of its children.  An object's keys come
\* sorted: they are in that order in the parsed map too.
NodeBytes(v, children) ==
  CASE v.tag \in {"n", "b0", "b1"} -> TagBytes[v.tag]
    [] v.tag \in {"d", "s"} -> TagBytes[v.tag] \o hash_len(Len(v.text)) \o v.text
    [] v.tag = "a" -> TagBytes[v.tag] \o hash_len(Len(v.kids)) \o FlattenSeq(children)
    [] v.tag = "o" ->
         TagBytes[v.tag] \o hash_len(Len(v.kids))
           \o FlattenSeq([i \in DOMAIN v.kids |->
                            hash_len(Len(v.keys[i])) \o v.keys[i] \o children[i]])

\* What hash_json_value feeds the hasher.
hash_json_value[n \in Nodes] ==
  LET v == Json[n]
  IN NodeBytes(v, [i \in DOMAIN v.kids |-> hash_json_value[v.kids[i]]])

\* The byte b"|".
Bar == 124

\* An absent scope adds nothing between the separators, like an empty one.
fingerprint(inp) ==
  inp.namespace \o <<Bar>> \o inp.endpoint \o <<Bar>> \o inp.cache_scope \o <<Bar>>
    \o hash_json_value[inp.body]

\* cache_key: resp:{namespace}:{fingerprint}.  The digest has a fixed length, so
\* the text of a key is as good as the pair.
CacheKey(inp) == <<inp.namespace, fingerprint(inp)>>

\* The fields before the body are not length-prefixed, and a bar may be in a
\* scope (a header of the client) and in an endpoint (a decoded path).
Plain(inp) ==
  \A s \in {inp.endpoint, inp.cache_scope} : \A i \in DOMAIN s : s[i] # Bar

\* What the hasher is fed between the namespace and the body.
Target(inp) == inp.endpoint \o <<Bar>> \o inp.cache_scope

\* What a cached answer should agree on with the request it is given to.
SameRequest(a, b) ==
  /\ a.namespace = b.namespace
  /\ a.endpoint = b.endpoint
  /\ a.cache_scope = b.cache_scope
  /\ a.body = b.body
=============================================================================
