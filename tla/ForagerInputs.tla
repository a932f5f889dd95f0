---------------------------- MODULE ForagerInputs ----------------------------
(* The files of small instances of ForagerFile.                            *)
EXTENDS Naturals, Sequences, FiniteSets

CONSTANT Secret

Node(kind, tag, v, content) == [kind |-> kind, tag |-> tag, v |-> v, content |-> content]
S(v) == Node("scalar", "str", v, <<>>)
Null == Node("scalar", "null", "~", <<>>)
Bad == Node("scalar", "bad", Secret, <<>>)
Bool == Node("scalar", "bool", "true", <<>>)
Int(v) == Node("scalar", "int", v, <<>>)
A(v) == Node("alias", "none", v, <<>>)
L(c) == Node("list", "list", "", c)
M(c) == Node("map", "map", "", c)
Merge == Node("scalar", "merge", "<<", <<>>)
K(k, v) == <<S(k), v>>
One(k, v) == M(K(k, v))

File(root, anchors) == [there |-> TRUE, documents |-> 1, parses |-> TRUE, root |-> root, anchors |-> anchors]
NoAnchors == <<>>
Plain(root) == File(root, NoAnchors)
At(a, b, n) == One(a, One(b, n))
Good == S("good")
Optional(k, vs) == {<<>>} \cup {K(k, v) : v \in vs}

(* An anchored mapping stands in the settings of an integration, which take any. *)
Anchored(n) == K("integrations", One("good", One("settings", n)))

(* gateway.server.via: directly, as an alias, merged, and null over a merge. *)
Urls == {S(v) : v \in {"good", "wrong", "empty", Secret, "encoded secret", "encoded again and again"}} \cup {Null, Bad, L(<<>>)}
Ends == {Good, S("empty"), S("wrong"), Null}
ViaMaps == {M(u \o c \o p) : u \in Optional("url", {Good, S("wrong"), Null}), c \in Optional("ca_file", {Good, S(Secret), Null, S("empty")}), p \in Optional("certificate_sha256", Ends)}
           \cup {One("url", u) : u \in Urls}
SmallVias == {M(K("url", Good) \o p) : p \in Optional("certificate_sha256", Ends)}
ServerOf(c) == K("server", M(K("url", Good) \o c))
Vias ==
  {Plain(One("gateway", M(ServerOf(K("via", v))))) : v \in ViaMaps \cup {Null, S(Secret), Bad}}
  \cup {File(One("gateway", M(Anchored(v) \o ServerOf(K("via", A("v"))))), [v |-> v]) : v \in SmallVias}
  \cup {File(One("gateway", M(Anchored(v) \o ServerOf(K("via", M(K("certificate_sha256", p) \o <<Merge, A("v")>>))))), [v |-> v]) : v \in SmallVias, p \in Ends}
  \cup {File(One("gateway", M(Anchored(One("via", v)) \o ServerOf(o \o <<Merge, m>>))), [v |-> One("via", v)]) :
          v \in SmallVias \cup {Null}, o \in Optional("via", {Null, One("url", Good)}), m \in {A("v"), L(<<A("v"), One("via", Null)>>), L(<<One("via", Null), A("v")>>)}}
(* The server's other keys. *)
Pins == {L(<<>>), Null, S(Secret)} \cup {L(<<One("alg", Good)>>), L(<<M(K("alg", Good) \o K("public_key", S(Secret)))>>), L(<<A("p"), A("p")>>)}
        \cup {L(<<M(K("alg", Good) \o K("public_key", Good)), M(K("alg", Good) \o K("public_key", p))>>) : p \in {Good, S("other"), S("wrong")}}
Pin == M(K("alg", Good) \o K("public_key", Good))
Pinned(c) == File(One("gateway", M(Anchored(Pin) \o ServerOf(c))), [p |-> Pin])
Servers ==
  {Plain(At("gateway", "server", M(u \o x))) :
     u \in Optional("url", Urls), x \in {<<>>, K("access_key", Null), K("enrolment_code_file", S("empty")), K("enrolment_code_file", S(Secret))}}
  \cup {Pinned(K("apiary_public_key", p)) : p \in Pins}
OfBoth == {Pinned(i \o p) : i \in Optional("access_key_id", {Good, S(Secret)}), p \in Optional("apiary_public_key", {L(<<A("p")>>)})}

(* gateway.egress: its lists and its paths. *)
Lists == {Null, Good, L(<<>>), L(<<Good, S("other")>>), L(<<Good, S("wrong")>>), L(<<A("h"), Null>>), L(<<S(Secret)>>), L(<<A("h"), A("h")>>)}
PathMaps ==
  {Null, L(<<>>), M(<<>>)} \cup {One(h, p) : h \in {"good", Secret}, p \in Lists}
  \cup {M(K("good", p) \o <<k, L(<<Good>>)>>) : p \in {L(<<Good>>), L(<<S(Secret)>>)}, k \in {Good, S("other"), A("h"), Int("good"), L(<<>>)}}
Egresses ==
  {File(One("gateway", M(K("listen", Good) \o K("egress", M(m \o a \o d \o p)))), [h |-> Good]) :
     m \in {K("mode", Good)}, a \in Optional("allow", Lists), d \in Optional("deny", {Null, L(<<A("h")>>), L(<<S("wrong")>>)}), p \in Optional("paths", {One("good", L(<<Good>>))})}
  \cup {File(One("gateway", M(K("listen", Good) \o K("egress", M(K("mode", Good) \o K("paths", p))))), [h |-> Good]) : p \in PathMaps}
  \cup {Plain(At("gateway", "egress", e)) : e \in {Null, M(<<>>), One("mode", S(Secret)), S(Secret)}}

(* Entries that a name maps to. *)
Wrongs == {Null, Bad, S(Secret), L(<<S(Secret)>>), M(<<L(<<>>), Good>>)}
Entry(section, name, entry) == One("gateway", One(section, M(<<name, entry>>)))
EntryNames == {Good, S(Secret), S("wrong"), A(Secret)}
EntriesOf(section, entries) == {File(Entry(section, k, e), [x \in {Secret} |-> Good]) : k \in EntryNames, e \in entries}
KeyOf(k) == {One(k, v) : v \in {Good, L(<<S("good"), S(Secret)>>), L(<<>>), L(<<S("wrong")>>), Null, Bad}}
Credentials ==
  KeyOf("adapter") \cup KeyOf("hosts") \cup KeyOf("file") \cup {One("auth", One("oauth", Bad)), One(Secret, Good), M(<<A(Secret), Good>>), M(K("env", Good) \o K("env", Good))} \cup Wrongs
Settings ==
  {M(K(Secret, v)) : v \in {A(Secret), Bad, Bool, M(K("a", Good) \o K("a", Good))}} \cup {M(K(Secret, Good) \o K(Secret, Good)), M(<<A(Secret), Good>>), M(<<Merge, M(<<>>)>>), L(<<>>)}
Many(section, k, e) == Plain(At("gateway", section, M(<<k, e, k, e>>)))
Sections ==
  EntriesOf("credentials", Credentials) \cup EntriesOf("tools", KeyOf("command") \cup Wrongs)
  \cup EntriesOf("integrations", {One("program", Good), One("program", S("wrong")), One(Secret, Good)} \cup Wrongs \cup {One("settings", s) : s \in Settings})
  \cup {Many(s, S(v), One("program", Good)) : s \in {"integrations", "credentials"}, v \in {"good", Secret}}
  \cup {Plain(One("wall", M(K("adapter", Good) \o K("images", M(<<k, M(r \o d \o x)>>) ) \o i))) :
          k \in {Good, S(Secret), S("wrong")}, r \in Optional("ref", {Good, S(Secret), Bad}), d \in Optional("docker", {Bool, Good}),
          x \in {<<>>, K("runtime", S(Secret)), K(Secret, Good), K("ref", Good)}, i \in Optional("prebuild_image", {Good, S(Secret)})}

(* Keys of the file that are no key, are written again, are an alias, are   *)
(* no name beside a merge, or hold themselves.                              *)
Keys == {Good, S(Secret), S("wall"), A("k"), A("s"), A(Secret), L(<<>>), S("machine"), S("session"), Node("scalar", "str", "<<", <<>>)}
Anchors == [x \in {"k", "s", Secret, "w", "v", "b"} |->
  CASE x = "k" -> S("wall") [] x = "s" -> S(Secret) [] x = Secret -> Good [] x = "w" -> M(K("adapter", Good) \o <<Merge, A("w")>>) [] x = "v" -> One("run", A("v"))
  [] x = "b" -> M(<<L(<<>>), Good, Merge, One("name", Good)>>)]
Twisted ==
  {File(M(<<j, w, k, v>> \o x), Anchors) : j \in Keys, k \in {Good, S("wall"), A("k"), L(<<>>), S("machine")}, v, w \in {One("adapter", Good), Null},
     x \in {<<>>, <<Merge, One("machine", S(Secret))>>, <<Merge, M(<<L(<<>>), Good>>)>>, <<Merge, L(<<One("wall", One("adapter", Good)), One("wall", Bad)>>)>>}}
  \cup {File(One("wall", M(<<k, Good>> \o x)), Anchors) : k \in Keys \cup {S("adapter")},
          x \in {<<>>, <<Merge, A("w")>>, <<Merge, Good>>, <<Merge, One("adapter", Bad)>>, <<Merge, M(<<L(<<>>), Good>>)>>, <<Merge, M(<<A("k"), Good, S("wall"), Good>>)>>}}
  \cup {File(One("session", x), Anchors) : x \in {A("v"), A("b"), One("instance", A("b")), M(<<Merge, A("v")>>), One("run", A("w")), One("instance", One("name", A(Secret)))}}

(* A value in every key that holds one. *)
Values == {Good, S("wrong"), S("empty"), S(Secret), Null, Bad, Int("good"), Int("wrong"), Bool, L(<<>>), L(<<S(Secret)>>), L(<<S("wrong")>>), L(<<S("forager's own")>>), M(<<>>)}
Wall(k, v) == One("wall", M(K("adapter", Good) \o K(k, v)))
Every ==
  {Plain(d) : d \in
     {One(k, v) : k \in {"apiVersion", "machine", "webhook", "session", "wall", "gateway", "pool"}, v \in Values}
     \cup {At("gateway", k, v) : k \in {"listen", "tls", "lock_memory", "run_limits", "stack_hosts", "selects", "credentials", "tools", "integrations"}, v \in Values}
     \cup {One("gateway", At("tls", k, v)) : k \in {"certificate"}, v \in Values}
     \cup {One("gateway", One("tls", M(K("certificate", Good) \o K("key", v)))) : v \in Values}
     \cup {One("gateway", At("run_limits", k, v)) : k \in {"burst", "connections"}, v \in Values}
     \cup {One("session", At(s, k, v)) : s \in {"run"}, k \in {"timeout", "stop_signal"}, v \in Values} \cup {One("session", At("instance", "name", v)) : v \in Values}
     \cup {Wall(k, v) : k \in {"adapter", "image", "command", "helper", "env", "mounts", "ca_env", "images_allow", "pids_limit", "setup", "engine_proxy_file", "images"}, v \in Values}
     \cup {One("pool", M(K("registry", v) \o K("run_config", w) \o r)) : v, w \in {Good, S(Secret), S("wrong")}, r \in Optional("runs", {Int("good"), Int("wrong")})}
     \cup {At("pool", "registry", Good)}}
Odd ==
  {[Plain(One("machine", Good)) EXCEPT !.documents = 2], [Plain(One("machine", S(Secret))) EXCEPT !.parses = FALSE], [Plain(M(<<>>)) EXCEPT !.there = FALSE],
   Plain(Node("none", "none", "", <<>>)), Plain(Good)}
Environment(i, p, w) == [access_key_id |-> i, apiary_public_key |-> p, workspace |-> w]
NoVariables == Environment("", "", "")
Case(f, e, l, c) == [file |-> f, env |-> e, limited |-> l, ca |-> c]
MCCases ==
  {Case(f, NoVariables, FALSE, c) : f \in Vias, c \in BOOLEAN}
  \cup {Case(f, e, FALSE, TRUE) : f \in OfBoth, e \in {NoVariables, Environment("good", "", ""), Environment("wrong", "good", ""), Environment("", "good", "set")}}
  \cup {Case(f, NoVariables, FALSE, TRUE) : f \in Servers \cup Egresses \cup Sections \cup Every \cup Odd}
  \cup {Case(f, NoVariables, l, TRUE) : f \in Twisted, l \in BOOLEAN}
=============================================================================
