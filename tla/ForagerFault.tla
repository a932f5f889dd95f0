---------------------------- MODULE ForagerFault ----------------------------
(* forager.yaml as nodes: what the YAML decoder makes of them, and the     *)
(* walks that say, before a decode and after one the decoder refused, what *)
(* is wrong and where, in words that hold no secret the file holds.        *)
(*                                                                         *)
(* A node has its kind, its tag, what is written and its content, keys and *)
(* values in turn for a mapping; an alias has its anchor.  A scalar that   *)
(* its tag does not fit is tagged "bad".  Lines are left out, so a refusal *)
(* is known by the keys it names and by what it says of the file.          *)
EXTENDS Naturals, Sequences, FiniteSets, FiniteSetsExt

CONSTANT Secret  \* a name or a value that contains an access key secret or a run key
VARIABLES
  file,    \* [there, documents, parses, root, anchors]: the content, and the nodes its anchors are of
  limited  \* the walks of this file reach walkLimit: they take no step under an alias or a merge

Node(kind, tag, v, content) == [kind |-> kind, tag |-> tag, v |-> v, content |-> content]
Absent == Node("none", "none", "", <<>>)
Follow(n) == IF n.kind = "alias" THEN file.anchors[n.v] ELSE n
Null(n) == n.kind = "scalar" /\ n.tag = "null"
Bad(n) == n.kind = "scalar" /\ n.tag = "bad"
IsMergeKey(k) == k.kind = "scalar" /\ k.tag = "merge"

Pairs(m) == {i \in DOMAIN m.content : i % 2 = 1}
Merges(m) == {i \in Pairs(m) : IsMergeKey(m.content[i])}
Owns(m) == Pairs(m) \ Merges(m)
NotNames(m) == {i \in Owns(m) : Follow(m.content[i]).kind # "scalar"}
Name(m, i) == Follow(m.content[i]).v
Names(m) == {Name(m, i) : i \in Owns(m) \ NotNames(m)}
(* The pairs whose key the mapping wrote before, and the first it writes again. *)
Again(m) == {j \in Pairs(m) : \E i \in Pairs(m) : i < j /\ m.content[i].kind = m.content[j].kind /\ m.content[i].v = m.content[j].v}
WrittenAgain(m) == Min({i \in Pairs(m) : \E j \in Again(m) : i < j /\ m.content[i].kind = m.content[j].kind /\ m.content[i].v = m.content[j].v})
(* The mappings the merge of m merges, the first winning. *)
Merged(m) ==
  IF Merges(m) = {} THEN <<>>
  ELSE LET v == m.content[Min(Merges(m)) + 1] IN IF v.kind = "list" THEN v.content ELSE <<v>>

(* What a key decodes into. *)
Type(kind, fields, of) == [kind |-> kind, fields |-> fields, of |-> of]
StrT == Type("str", <<>>, <<>>)
IntT == Type("int", <<>>, <<>>)
BoolT == Type("bool", <<>>, <<>>)
NodeT == Type("node", <<>>, <<>>)
ListT(t) == Type("list", <<>>, <<t>>)
StructT(fields) == Type("struct", fields, <<>>)

-----------------------------------------------------------------------------
(* The decoder: what it refuses of a node read as a type, [why, key].      *)
Err(why, k) == [why |-> why, key |-> k]
Aborts == {"cycle", "merge", "panic", "tag"}  \* it reads no further

RECURSIVE Errors(_, _, _, _), MapErrors(_, _, _, _, _, _), MergeErrors(_, _, _, _, _)
Errors(n, t, in, known) ==
  LET m == Follow(n) IN
  IF t.kind = "node" \/ n.kind = "none" THEN {}
  ELSE IF n.kind = "alias" /\ n.v \in in THEN {Err("cycle", Absent)}
  ELSE IF Bad(m) THEN {Err("tag", Absent)}
  ELSE IF Null(m) THEN {}
  ELSE LET inside == IF n.kind = "alias" THEN in \cup {n.v} ELSE in IN
    CASE t.kind = "struct" /\ m.kind = "map" -> MapErrors(m, t, inside, known, TRUE, {})
      [] t.kind = "list" /\ m.kind = "list" -> UNION {Errors(m.content[i], t.of[1], inside, known) : i \in DOMAIN m.content}
      [] t.kind \in {"str", m.tag} /\ m.kind = "scalar" -> {}
      [] OTHER -> {Err("type", Absent)}
(* top: nothing merges m; taken: the keys of what merges it. *)
MapErrors(m, t, in, known, top, taken) ==
  IF Again(m) # {} THEN {Err("twice", Absent)}
  ELSE LET Before(i) == {h \in Owns(m) \ NotNames(m) : h < i /\ Name(m, h) = Name(m, i)}
           read == {i \in Owns(m) \ NotNames(m) : top \/ (Name(m, i) \notin taken /\ Before(i) = {})}
       IN
    {Err("key", Absent) : i \in NotNames(m)}
    \cup {Err("unknown", m.content[i]) : i \in {j \in read : known /\ Name(m, j) \notin DOMAIN t.fields}}
    \cup {Err("twice", Absent) : i \in {j \in read : Before(j) # {} /\ Name(m, j) \in DOMAIN t.fields}}
    \cup UNION {Errors(m.content[i + 1], t.fields[Name(m, i)], in, known) : i \in {j \in read : Name(m, j) \in DOMAIN t.fields}}
    \cup (IF Merges(m) = {} THEN {}
          ELSE IF top /\ NotNames(m) # {} THEN {Err("panic", Absent)}
          ELSE MergeErrors(Merged(m), t, in, known, IF top THEN Names(m) ELSE taken \cup Names(m)))
MergeErrors(each, t, in, known, taken) ==
  IF each = <<>> THEN {}
  ELSE LET n == Head(each)  m == Follow(n) IN
    (IF n.kind = "alias" /\ n.v \in in THEN {Err("cycle", Absent)}
     ELSE IF m.kind # "map" THEN {Err("merge", Absent)}
     ELSE MapErrors(m, t, IF n.kind = "alias" THEN in \cup {n.v} ELSE in, known, FALSE, taken))
    \cup MergeErrors(Tail(each), t, in, known, IF m.kind = "map" THEN taken \cup Names(m) ELSE taken)

(* The value the decoder gives a key: the mapping's own, else the first    *)
(* merged one's.  It is asked of files the decoder reads.                  *)
FirstThere(s) == LET there == {i \in DOMAIN s : s[i].kind # "none"} IN IF there = {} THEN Absent ELSE s[Min(there)]
OwnValues(m, key) ==
  [i \in 1..(Len(m.content) \div 2) |->
     IF 2 * i - 1 \in Owns(m) \ NotNames(m) /\ Name(m, 2 * i - 1) = key THEN m.content[2 * i] ELSE Absent]
RECURSIVE Lookup(_, _)
Lookup(n, key) ==
  LET m == Follow(n)
      Each(merged) == [i \in DOMAIN merged |-> Lookup(merged[i], key)]
  IN IF m.kind # "map" THEN Absent ELSE FirstThere(OwnValues(m, key) \o Each(Merged(m)))
RECURSIVE EveryName(_)
EveryName(n) ==
  LET m == Follow(n) IN
  IF m.kind # "map" THEN {} ELSE Names(m) \cup UNION {EveryName(Merged(m)[i]) : i \in DOMAIN Merged(m)}

-----------------------------------------------------------------------------
(* Refusals: the keys named on the way, why, and what else of the file is  *)
(* said.                                                                   *)
Refuse(at, why, says) == [at |-> at, why |-> why, says |-> says]
NoRefusal == Refuse(<<>>, "none", {})
Else(r, next) == IF r = NoRefusal THEN next ELSE r
FirstOf(s) ==
  LET some == {i \in DOMAIN s : s[i] # NoRefusal} IN IF some = {} THEN NoRefusal ELSE s[Min(some)]

ContainsSecret(v) == v = Secret
Unsaid(names) == {v \in names : ~ContainsSecret(v)}
KeyNotRead(at, name) == Refuse(at, "not a key", Unsaid({name}))
AliasNotRead(at, anchor) == Refuse(at, "an alias of no key", Unsaid({anchor}))
EntryAt(section, k) == IF ContainsSecret(k.v) THEN section ELSE Append(section, k.v)
KeyNotOne(at, k) == KeyNotRead(at, k.v)
WrittenTwice(at, name) == Refuse(at, "written twice", Unsaid({name}))
KeyNotAName(at) == Refuse(at, "not a name", {})

(* The walk of n as t, which stands at key at.  known: a key without a     *)
(* field is a fault; keys: only keys that are no names beside a merge are; *)
(* under: it is under an alias or a merge; walking, merging: what it is in.*)
RECURSIVE Fault(_, _, _, _), StructFault(_, _, _, _, _, _), MergeFault(_, _, _, _, _)
Fault(n, t, at, w) ==
  LET m == Follow(n)
      in == [w EXCEPT !.under = @ \/ n.kind = "alias", !.walking = @ \cup {<<m, t>>}]
      Wrong(why) == IF w.keys THEN NoRefusal ELSE Refuse(at, why, {})
  IN IF limited /\ in.under THEN NoRefusal
     ELSE IF <<m, t>> \in w.walking THEN Wrong("holds itself")
     ELSE IF m.kind = "none" \/ t.kind = "node" THEN NoRefusal
     ELSE IF Bad(m) THEN Wrong("not of its tag")
     ELSE IF Null(m) THEN NoRefusal
     ELSE CASE t.kind = "struct" -> IF m.kind = "map" THEN StructFault(m, t, at, in, TRUE, {}) ELSE Wrong("not a mapping")
            [] t.kind = "list" -> IF m.kind = "list" THEN FirstOf([i \in DOMAIN m.content |-> Fault(m.content[i], t.of[1], at, in)])
                                  ELSE Wrong("not a list")
            [] OTHER -> IF m.kind = "scalar" /\ t.kind \in {"str", m.tag} THEN NoRefusal ELSE Wrong("not of its type")
StructFault(m, t, at, w, top, taken) ==
  LET Own(i) ==
        LET k == m.content[i]  name == Name(m, i)
            before == {h \in Owns(m) \ NotNames(m) : h < i /\ Name(m, h) = name}
        IN IF i \in NotNames(m) THEN (IF w.keys /\ (~top \/ Merges(m) = {}) THEN NoRefusal ELSE KeyNotAName(at))
           ELSE IF ~top /\ (name \in taken \/ before # {}) THEN NoRefusal
           ELSE IF name \notin DOMAIN t.fields
             THEN (IF ~w.known \/ w.keys THEN NoRefusal
                   ELSE IF k.kind = "alias" THEN AliasNotRead(<<>>, k.v) ELSE KeyNotRead(<<>>, name))
           ELSE IF before # {} THEN (IF w.keys THEN NoRefusal ELSE WrittenTwice(at, name))
           ELSE Fault(m.content[i + 1], t.fields[name], Append(at, name), w)
  IN IF limited /\ w.under THEN NoRefusal
     ELSE IF Again(m) # {}
       THEN LET k == m.content[WrittenAgain(m)] IN
            IF w.keys THEN NoRefusal ELSE IF Follow(k).kind # "scalar" THEN KeyNotAName(at) ELSE WrittenTwice(at, k.v)
     ELSE Else(FirstOf([i \in DOMAIN m.content |-> IF i \in Owns(m) THEN Own(i) ELSE NoRefusal]),
               MergeFault(Merged(m), t, at, w, IF top THEN Names(m) ELSE taken \cup Names(m)))
MergeFault(each, t, at, w, taken) ==
  IF each = <<>> \/ limited THEN NoRefusal
  ELSE LET m == Follow(Head(each)) IN
    Else(IF m.kind # "map" THEN NoRefusal
         ELSE IF <<m, t>> \in w.merging \cup w.walking
           THEN (IF w.keys THEN NoRefusal ELSE Refuse(at, "merges itself", {}))
         ELSE StructFault(m, t, at, [w EXCEPT !.under = TRUE, !.merging = @ \cup {<<m, t>>}], FALSE, taken),
         MergeFault(Tail(each), t, at, w, IF m.kind = "map" THEN taken \cup Names(m) ELSE taken))

Walk(known, keys) == [known |-> known, keys |-> keys, under |-> FALSE, walking |-> {}, merging |-> {}]
FindFault(n, t, at, known) == Fault(n, t, at, Walk(known, FALSE))
MergeKeyFault(n, t, at, known) == Fault(n, t, at, Walk(known, TRUE))

(* What a refusal of the decoder is said as: it says all that it met, or   *)
(* what it stopped at.                                                     *)
Stopped(errs) == {e \in errs : e.why \in Aborts}
DecodeRefusals(n, t, at, known, errs) ==
  LET unknown == {e \in errs : e.why = "unknown" /\ Stopped(errs) = {}}
      Said(why) ==
        IF why = "panic" THEN Refuse(at, "the decoder failed", {})
        ELSE IF why \in {"cycle", "merge"} THEN Refuse(at, why, {})
        ELSE Else(FindFault(n, t, at, known), Refuse(at, "a value is not of its type", {}))
  IN IF unknown # {}
       THEN {IF e.key.kind = "alias" THEN AliasNotRead(<<>>, e.key.v) ELSE KeyNotRead(<<>>, e.key.v) : e \in unknown}
     ELSE {Said(why) : why \in IF Stopped(errs) = {} THEN {"type"} ELSE {e.why : e \in Stopped(errs)}}

(* What a decode makes of the nodes is what the walks say of them: a walk  *)
(* finds a fault exactly in what the decoder refuses for a type, a tag or  *)
(* a key, and the decoder's panic, a key that is no name beside a merge,   *)
(* is met before the decode.                                               *)
Agree(errs, fault, keys) ==
  /\ ~limited /\ {e.why : e \in Stopped(errs)} \subseteq {"tag"} => (errs = {}) = (fault = NoRefusal)
  /\ \A e \in Stopped(errs) : e.why = "panic" /\ Cardinality(Stopped(errs)) = 1 /\ ~limited => keys # NoRefusal
  /\ errs = {} => fault = NoRefusal /\ keys = NoRefusal
WalksAsTheDecoder(n, t, known) ==
  Agree(Errors(n, t, {}, known), FindFault(n, t, <<>>, known), MergeKeyFault(n, t, <<>>, known))
=============================================================================
