----------------------------- MODULE ForagerFile -----------------------------
(* forager.yaml read: by qory run and the other commands of the machine,    *)
(* whole (LoadForager), by what needs the instance's name alone             *)
(* (LoadForagerInstance), and listed by qory config (Rows).                 *)
(*                                                                          *)
(* A value is known by what it is to the key that holds it: "good" fits,    *)
(* "wrong" does not, "empty" is the empty string, and Secret contains an    *)
(* access key secret or a run key.  Lists are of such values.  What         *)
(* Forager reads in a policy document is its own: a host and a path are     *)
(* each held alone.                                                         *)
EXTENDS ForagerFault, SequencesExt

CONSTANTS
  Cases   \* [file, env, limited, ca]: what forager.yaml may hold, and what is beside it

VARIABLES
  env,       \* the server's variables qory took
  ca,        \* the file via.ca_file names holds a certificate
  pc,        \* the command's next step
  refusal,   \* what the last reading was refused for
  forager,   \* what LoadForager made of the file, NotLoaded before
  instance,  \* the name LoadForagerInstance read, "none" before
  rows       \* the rows qory config prints: [key, shown]

vars == <<file, limited, env, ca, pc, refusal, forager, instance, rows>>

NotLoaded == [loaded |-> FALSE]
Good == {"good", "other"}

-----------------------------------------------------------------------------
(* The keys, as they decode. *)
Strings(keys) == [k \in keys |-> StrT]
Nodes(keys) == [k \in keys |-> NodeT]
Over(f, g) == [k \in DOMAIN f \cup DOMAIN g |-> IF k \in DOMAIN f THEN f[k] ELSE g[k]]
ViaT == StructT(Nodes({"url", "ca_file", "certificate_sha256"}))
ServerT ==
  StructT(Over([apiary_public_key |-> ListT(StructT(Strings({"alg", "public_key"}))), via |-> ViaT],
               Over(Nodes({"secret", "access_key"}), Strings({"url", "access_key_id", "enrolment_code_file"}))))
EgressT == StructT(Over([mode |-> StrT], Nodes({"allow", "deny", "paths"})))
GatewayT ==
  StructT(Over([egress |-> EgressT, server |-> ServerT, listen |-> StrT, tls |-> StructT(Strings({"certificate", "key"})), lock_memory |-> BoolT,
                run_limits |-> StructT([k \in {"connections", "requests_per_second", "burst"} |-> IntT])],
               Nodes({"credentials", "tools", "integrations", "selects", "stack_hosts"})))
InstanceT == StructT([instance |-> StructT([name |-> StrT])])
SessionT == StructT([instance |-> StructT([name |-> StrT]), run |-> StructT(Strings({"timeout", "stop_signal", "stop_grace"}))])
WallT ==
  StructT(Over([pids_limit |-> IntT],
               Over(Nodes({"images", "env", "mounts", "ca_env", "images_allow"}),
                    Strings({"adapter", "image", "prebuild_image", "command", "helper", "user", "cpus", "memory", "shm_size", "setup", "engine_proxy_file"}))))
PoolT == StructT(Over([runs |-> IntT], Strings({"registry", "run_config"})))
FileT == StructT([apiVersion |-> StrT, machine |-> StrT, webhook |-> NodeT, gateway |-> GatewayT, session |-> SessionT, wall |-> WallT, pool |-> PoolT])
InstanceFileT == StructT([session |-> InstanceT])

(* The decoded value of a key of the file. *)
RECURSIVE AtFrom(_, _)
AtFrom(n, path) == IF path = <<>> THEN n ELSE AtFrom(Lookup(n, Head(path)), Tail(path))
At(path) == AtFrom(file.root, path)
Has(path) == At(path).kind # "none"
Set(n) == n.kind # "none" /\ ~Null(n)
Written(path) == Set(Follow(At(path)))
Val(path) == Follow(At(path)).v
VOr(n, v) == IF Set(n) THEN n.v ELSE v
ValOr(path, v) == VOr(Follow(At(path)), v)

(* What the grammar of a key takes.  A grammar with no underscore, and     *)
(* CheckName, leave no room for a secret.                                  *)
Text == {"good", "other", "wrong", "empty", Secret}
NotEmpty == Text \ {"empty"}
Absolute == Good \cup {Secret}
Shown(v) == IF ContainsSecret(v) THEN "hidden" ELSE v   \* exports.Value, accesskey.ShownName
Unless(p, r) == IF p THEN NoRefusal ELSE r
Taken(n, values) == ~Set(n) \/ n.v \in values
Takes(path, values) == Unless(Taken(Follow(At(path)), values), Refuse(path, "not what it takes", {}))
TakenShown(path, n, values) == Unless(Taken(n, values), Refuse(path, "not what it takes", {Shown(n.v)}))
TakesShown(path, values) == TakenShown(path, Follow(At(path)), values)

-----------------------------------------------------------------------------
(* Lists of strings: [list, refusal, set], set when the file writes one.   *)
IsString(n) == Follow(n).kind = "scalar" /\ Follow(n).tag = "str"
Listed(list, set) == [list |-> list, set |-> set, refusal |-> NoRefusal]
NotListed(r) == [list |-> <<>>, set |-> FALSE, refusal |-> r]
StringEntries(at, seq) ==
  IF \A i \in DOMAIN seq.content : IsString(seq.content[i])
  THEN Listed([i \in DOMAIN seq.content |-> Follow(seq.content[i]).v], TRUE)
  ELSE NotListed(Refuse(at, "an entry is not a string", {}))
StringList(at, node) ==
  LET n == Follow(node) IN
  IF n.kind = "none" THEN Listed(<<>>, FALSE)
  ELSE IF Bad(n) THEN NotListed(Refuse(at, "not of its tag", {}))
  ELSE IF Null(n) THEN Listed(<<>>, FALSE)
  ELSE IF n.kind # "list" THEN NotListed(Refuse(at, "not a list of strings", {}))
  ELSE StringEntries(at, n)
ListOf(path) == StringList(path, At(path)).list

(* gateway.egress.  Forager's policy.Read holds each entry alone.          *)
Hosts == Good
Paths == Good
Policy(allow, deny, paths) ==
  /\ ToSet(allow) \cup ToSet(deny) \cup DOMAIN paths \subseteq Hosts
  /\ \A h \in DOMAIN paths : ToSet(paths[h]) \subseteq Paths
Twice(list) == \E i, j \in DOMAIN list : i # j /\ list[i] = list[j]
EgressPath == <<"gateway", "egress">>
Egress(allow, deny, paths) == [allow |-> allow, deny |-> deny, paths |-> paths, refusal |-> NoRefusal]
NotEgress(r) == [allow |-> <<>>, deny |-> <<>>, paths |-> <<>>, refusal |-> r]

(* The mapping as read, when no entry of it would be refused.              *)
PathsAtOnce(node) ==
  LET n == Follow(node)
      Entry(i) == StringEntries(<<>>, Follow(n.content[i + 1]))
  IN IF /\ n.kind = "map"
        /\ \A i \in Pairs(n) :
             LET entry == Entry(i) IN
             IsString(n.content[i]) /\ Follow(n.content[i + 1]).kind = "list" /\ entry.refusal = NoRefusal /\ ~Twice(entry.list)
        /\ \A i, j \in Pairs(n) : Name(n, i) = Name(n, j) => i = j
     THEN [read |-> TRUE, paths |-> [h \in {Name(n, i) : i \in Pairs(n)} |-> Entry(CHOOSE i \in Pairs(n) : Name(n, i) = h).list]]
     ELSE [read |-> FALSE, paths |-> <<>>]
EgressPathsAtOnce(node) == IF node.kind = "none" THEN [read |-> TRUE, paths |-> <<>>] ELSE PathsAtOnce(node)
AtOnce(allow, deny, paths) ==
  [read |-> allow.refusal = NoRefusal /\ deny.refusal = NoRefusal /\ paths.read /\ Policy(allow.list, deny.list, paths.paths),
   egress |-> Egress(allow.list, deny.list, paths.paths)]
EgressAtOnce ==
  LET List(key) == StringList(<<>>, At(Append(EgressPath, key)))
  IN AtOnce(List("allow"), List("deny"), EgressPathsAtOnce(At(Append(EgressPath, "paths"))))

(* Entry by entry; hosts of the paths in order, a host printed once it is  *)
(* read as one. *)
ReadPaths(at, node) ==
  LET n == Follow(node)
      names == {Name(n, i) : i \in Pairs(n)}
      First(h) == CHOOSE i \in Pairs(n) : Name(n, i) = h /\ \A j \in Pairs(n) : Name(n, j) = h => i <= j
      Host(h) ==
        LET v == Follow(n.content[First(h) + 1])  list == StringEntries(at, v) IN
        IF h \notin Hosts THEN Refuse(at, "a key is not a host", {})
        ELSE IF \E j \in Pairs(n) : Name(n, j) = h /\ j # First(h) THEN WrittenTwice(at, h)
        ELSE IF v.kind # "list" THEN Refuse(at, "not a list of paths", {h})
        ELSE IF list.refusal # NoRefusal THEN [list.refusal EXCEPT !.says = {h}]
        ELSE IF Twice(list.list) \/ ~(ToSet(list.list) \subseteq Paths) THEN Refuse(at, "not a path, or listed twice", {h})
        ELSE NoRefusal
  IN IF n.kind # "map" THEN NotEgress(Refuse(at, "not a mapping", {}))
     ELSE IF \E i \in Pairs(n) : ~IsString(n.content[i]) THEN NotEgress(Refuse(at, "a key is not a host", {}))
     ELSE LET wrong == {h \in names : Host(h) # NoRefusal} IN
       IF wrong # {} THEN NotEgress(Host(CHOOSE h \in wrong : TRUE))
       ELSE Egress(<<>>, <<>>, [h \in names |-> StringEntries(at, Follow(n.content[First(h) + 1])).list])
HostsFault(key, l) ==
  Else(l.refusal, Unless(ToSet(l.list) \subseteq Hosts, Refuse(Append(EgressPath, key), "an entry is not a host", {})))
OneByOne(allow, deny, paths) ==
  LET wrong == FirstOf(<<HostsFault("allow", allow), HostsFault("deny", deny), paths.refusal>>)
  IN IF wrong # NoRefusal THEN NotEgress(wrong) ELSE Egress(allow.list, deny.list, paths.paths)
EgressPathsOneByOne(node) ==
  IF node.kind = "none" THEN Egress(<<>>, <<>>, <<>>) ELSE ReadPaths(Append(EgressPath, "paths"), node)
EgressOneByOne ==
  LET List(key) == StringList(Append(EgressPath, key), At(Append(EgressPath, key)))
  IN OneByOne(List("allow"), List("deny"), EgressPathsOneByOne(At(Append(EgressPath, "paths"))))
EitherWay(atOnce, oneByOne) == IF atOnce.read THEN atOnce.egress ELSE oneByOne
ReadEgress == EitherWay(EgressAtOnce, EgressOneByOne)
CheckEgress ==
  IF ~Written(EgressPath) THEN NoRefusal
  ELSE IF ValOr(Append(EgressPath, "mode"), "empty") \notin Good
    THEN Refuse(Append(EgressPath, "mode"), "not observe or enforce", {})
  ELSE ReadEgress.refusal

-----------------------------------------------------------------------------
(* gateway.server and its via.  scanURL refuses a URL that contains a       *)
(* secret in any of the forms that undoing its encoding gives, and one      *)
(* still encoded after them, before anything of it is printed.              *)
Server == <<"gateway", "server">>
Via == Append(Server, "via")
SecretURL(v) == v \in {Secret, "encoded secret"}
TooDeep(v) == v = "encoded again and again"
ScanURL(at, v) == IF SecretURL(v) \/ TooDeep(v) THEN Refuse(at, "holds a secret, or what it holds is not known", {}) ELSE NoRefusal
CheckURL(at, v) == FirstOf(<<ScanURL(at, v), IF v \in Good THEN NoRefusal ELSE Refuse(at, "not a URL it takes", {v})>>)

(* A key of via as decoded: a null one is an empty one. *)
ViaKeyOf(key, n) ==
  LET Key(set, v, r) == [set |-> set, v |-> v, refusal |-> r] IN
  IF n.kind = "none" THEN Key(FALSE, "", NoRefusal)
  ELSE IF Null(n) THEN Key(TRUE, "empty", NoRefusal)
  ELSE IF n.kind # "scalar" \/ Bad(n) THEN Key(FALSE, "", Refuse(Append(Via, key), "not a string", {}))
  ELSE Key(TRUE, n.v, NoRefusal)
ViaKey(key) == ViaKeyOf(key, Follow(At(Append(Via, key))))
ViaOf(url, caFile, pin) ==
  LET Empty(key, k) == IF k.set /\ k.v = "empty" THEN Refuse(Append(Via, key), "empty", {}) ELSE NoRefusal IN
  [url |-> url.v, ca_file |-> caFile.v, pin |-> pin.v,
   refusal |-> FirstOf(<<url.refusal, caFile.refusal, pin.refusal,
                         IF url.v \in {"", "empty"} THEN Refuse(Append(Via, "url"), "required", {}) ELSE CheckURL(Append(Via, "url"), url.v),
                         Empty("ca_file", caFile), Empty("certificate_sha256", pin),
                         Unless(pin.v \in {""} \cup Good, Refuse(Append(Via, "certificate_sha256"), "not a pin", {}))>>)]
ReadVia == ViaOf(ViaKey("url"), ViaKey("ca_file"), ViaKey("certificate_sha256"))
(* A null via decodes as an absent one, and the machine would reach the server directly. *)
ViaNull == IF Has(Via) /\ Null(Follow(At(Via))) THEN Refuse(Via, "empty", {}) ELSE NoRefusal
NoVia == [refusal |-> NoRefusal, url |-> "", ca_file |-> "", pin |-> ""]
CheckVia == IF Written(Via) THEN ReadVia.refusal ELSE NoRefusal

(* The id and the pin: the file's, else the environment's, never both.      *)
Origins(key) == (IF Written(Append(Server, key)) THEN {"file"} ELSE {}) \cup (IF env[key] # "" THEN {"environment"} ELSE {})
OneOrigin(key) == Unless(~({"file", "environment"} \subseteq Origins(key)), Refuse(Append(Server, key), "set twice", {}))
CheckPinEntries(at, entries) ==
  LET Entry(i, key) == Follow(Lookup(entries[i], key)) IN
  FirstOf(
    [i \in DOMAIN entries |->
       IF \E k \in {"alg", "public_key"} : ~Set(Entry(i, k)) THEN Refuse(at, "an entry needs both", {})
       ELSE IF \E k \in {"alg", "public_key"} : ContainsSecret(Entry(i, k).v) THEN Refuse(at, "holds a secret", {})
       ELSE IF Entry(i, "alg").v # "good" \/ Entry(i, "public_key").v \notin Good THEN Refuse(at, "not a key", {})
       ELSE Unless(\A j \in 1..(i - 1) : Entry(j, "public_key") # Entry(i, "public_key"), Refuse(at, "listed twice", {}))]
    \o <<Unless(entries # <<>>, Refuse(at, "lists no key", {}))>>)
CheckPin(at) == CheckPinEntries(at, Follow(At(at)).content)
CheckServerURL(at, v) == IF v = "empty" THEN Refuse(at, "required", {}) ELSE CheckURL(at, v)
CheckServer ==
  FirstOf(<<IF Has(Append(Server, "access_key")) \/ Has(Append(Server, "secret")) THEN Refuse(Server, "a workspace access key", {}) ELSE NoRefusal,
            Unless(env.workspace = "", Refuse(<<>>, "a workspace access key's secret", {})),
            CheckServerURL(Append(Server, "url"), ValOr(Append(Server, "url"), "empty")),
            OneOrigin("access_key_id"), Takes(Append(Server, "access_key_id"), Good),
            Unless(env.access_key_id \in Good \cup {""}, Refuse(<<>>, "not an id", {})),
            OneOrigin("apiary_public_key"), IF Written(Append(Server, "apiary_public_key")) THEN CheckPin(Append(Server, "apiary_public_key")) ELSE NoRefusal,
            Unless(env.apiary_public_key \in Good \cup {""}, Refuse(<<>>, "not a pin", {}))>>)
ReadServer ==
  IF ~Written(Server) THEN NoRefusal
  ELSE FirstOf(<<CheckServer, ViaNull, CheckVia, Takes(Append(Server, "enrolment_code_file"), NotEmpty)>>)

ReadSession ==
  LET Run(key) == <<"session", "run", key>> IN
  FirstOf(<<Takes(<<"session", "instance", "name">>, Good), Takes(Run("timeout"), Good), Takes(Run("stop_grace"), Good), Takes(Run("stop_signal"), Good)>>)

-----------------------------------------------------------------------------
(* The sections that map a name to an entry, decoded loosely: a key that is *)
(* not one is refused here.  A name is the key as written, an alias's by    *)
(* its anchor.                                                              *)
CredentialKeys == {"env", "file", "adapter", "argument", "hosts", "paths", "auth", "placeholders", "format", "endpoint", "key_prefixes"}
CredentialLists == {"adapter", "hosts", "paths", "placeholders", "key_prefixes"}
CredentialT ==
  StructT(Over([auth |-> StructT(Over([oauth |-> BoolT], Strings({"scheme", "username", "header"})))],
               Over(Nodes(CredentialLists), Strings(CredentialKeys))))
ToolKeys == {"command", "argument", "serves", "placeholders"}
ToolLists == {"command", "serves", "placeholders"}
ToolT == StructT(Over(Nodes(ToolLists), Strings(ToolKeys)))
Program(list) == list # <<>> /\ Head(list) \in Absolute

EntriesOf(section, n, Read(_, _, _)) ==
  IF n.kind = "none" THEN NoRefusal
  ELSE IF n.kind # "map" THEN Refuse(section, "not a mapping", {})
  ELSE FirstOf([i \in DOMAIN n.content |->
         IF i \in Pairs(n) THEN Read(EntryAt(section, n.content[i]), n.content[i], n.content[i + 1]) ELSE NoRefusal])
Entries(section, Read(_, _, _)) == EntriesOf(section, At(section), Read)
NamesIn(n) == IF n.kind = "map" THEN [i \in Pairs(n) |-> n.content[i].v] ELSE <<>>
EntryNames(section) == Range(NamesIn(At(section)))
KeysOf(at, entry, keys) ==
  LET not == {i \in Pairs(entry) : entry.content[i].v \notin keys} IN
  IF entry.kind = "map" /\ not # {} THEN KeyNotOne(at, entry.content[Min(not)]) ELSE NoRefusal
DecodedAs(at, entry, t, errs) == IF errs = {} THEN NoRefusal ELSE CHOOSE r \in DecodeRefusals(entry, t, at, FALSE, errs) : TRUE
Decoded(at, entry, t) == Else(MergeKeyFault(entry, t, at, FALSE), DecodedAs(at, entry, t, Errors(entry, t, {}, FALSE)))
(* An entry is decoded once its keys are known, and read once it is decoded. *)
AfterDecode(at, entry, keys, t, read) == Else(KeysOf(at, entry, keys), Else(Decoded(at, entry, t), read))
ReadCredential(at, name, entry) ==
  LET lists == [k \in CredentialLists |-> StringList(Append(at, k), Lookup(entry, k))]
      f == Follow(Lookup(entry, "file"))
  IN AfterDecode(at, entry, CredentialKeys, CredentialT,
       FirstOf([x \in 1..5 |-> lists[<<"adapter", "hosts", "paths", "placeholders", "key_prefixes">>[x]].refusal] \o
         <<Unless(f.kind = "none" \/ Null(f) \/ f.v \in Absolute, Refuse(Append(at, "file"), "not an absolute path", {})),
           Unless(~lists["adapter"].set \/ Program(lists["adapter"].list), Refuse(Append(at, "adapter"), "not a program", {}))>>))
ReadTool(at, name, entry) ==
  LET lists == [k \in ToolLists |-> StringList(Append(at, k), Lookup(entry, k))]
  IN AfterDecode(at, entry, ToolKeys, ToolT,
       FirstOf([x \in 1..3 |-> lists[<<"command", "serves", "placeholders">>[x]].refusal] \o
         <<Unless(Program(lists["command"].list), Refuse(Append(at, "command"), "not a program", {}))>>))

(* An integration's settings go on a command line as JSON, so they hold no  *)
(* alias and no merge.                                                      *)
RECURSIVE WriteJSON(_, _)
WriteJSON(n, at) ==
  LET Key(i) ==
        LET k == n.content[i] IN
        IF k.kind = "alias" \/ IsMergeKey(k) THEN Refuse(at, "an alias or a merge", {})
        ELSE IF ~(k.kind = "scalar" /\ k.tag = "str") THEN Refuse(at, "a key is not a string", {})
        ELSE IF \E h \in Pairs(n) : h < i /\ n.content[h].v = k.v THEN WrittenTwice(at, k.v)
        ELSE WriteJSON(n.content[i + 1], EntryAt(at, k))
  IN CASE n.kind = "alias" -> Refuse(at, "an alias", Unsaid({n.v}))
       [] n.kind = "map" -> FirstOf([i \in DOMAIN n.content |-> IF i \in Pairs(n) THEN Key(i) ELSE NoRefusal])
       [] n.kind = "list" -> FirstOf([i \in DOMAIN n.content |-> WriteJSON(n.content[i], at)])
       [] OTHER -> IF Bad(n) THEN Refuse(at, "not a value JSON can represent", {}) ELSE NoRefusal
NamesOf(name, taken, at, section) ==
  IF name.v \notin taken THEN Refuse(section, "not a name it takes", Unsaid({name.v})) ELSE NoRefusal
DeclaredTwice(names, v) == \E i, j \in DOMAIN names : i # j /\ names[i] = v /\ names[j] = v
TwiceIn(section, at, name) == Unless(~DeclaredTwice(NamesIn(At(section)), name.v), Refuse(at, "declared twice", {}))
Integrations == <<"gateway", "integrations">>
ReadIntegration(at, name, entry) ==
  LET Key(i) ==
        LET k == entry.content[i]  v == entry.content[i + 1] IN
        CASE k.v = "program" -> Unless(v.kind = "scalar" /\ v.tag = "str" /\ v.v \in Absolute, Refuse(Append(at, "program"), "not a program", {}))
          [] k.v = "settings" -> IF v.kind # "map" THEN Refuse(Append(at, "settings"), "not a mapping", {}) ELSE WriteJSON(v, Append(at, "settings"))
          [] OTHER -> KeyNotOne(at, k)
  IN FirstOf(<<NamesOf(name, Good \cup {Secret}, at, Integrations), TwiceIn(Integrations, at, name),
               IF entry.kind = "scalar" /\ entry.tag = "null" THEN NoRefusal
               ELSE IF entry.kind # "map" THEN Refuse(at, "not a mapping", {})
               ELSE FirstOf([i \in DOMAIN entry.content |-> IF i \in Pairs(entry) THEN Key(i) ELSE NoRefusal])>>)

Images == <<"wall", "images">>
ImageKeys == {"ref", "runtime", "docker"}
ImageValue(entry, key) ==
  LET at == {i \in Pairs(entry) : entry.content[i].v = key} IN IF at = {} THEN Absent ELSE entry.content[Min(at) + 1]
Docker(entry) == LET v == ImageValue(entry, "docker") IN v.kind = "scalar" /\ v.tag = "bool" /\ v.v = "true"
ReadImage(at, name, entry) ==
  LET Key(i) ==
        LET k == entry.content[i]  v == entry.content[i + 1] IN
        IF k.v \notin ImageKeys THEN KeyNotOne(at, k)
        ELSE IF \E h \in Pairs(entry) : h < i /\ entry.content[h].v = k.v THEN Refuse(Append(at, k.v), "appears twice", {})
        ELSE IF k.v = "docker" THEN Unless(v.kind = "scalar" /\ v.tag = "bool", Refuse(Append(at, k.v), "not true or false", {}))
        ELSE Unless(v.kind = "scalar" /\ v.tag = "str" /\ v.v \in Absolute, Refuse(Append(at, k.v), "not what it takes", {}))
  IN FirstOf(<<NamesOf(name, Good \cup {Secret}, at, Images), TwiceIn(Images, at, name),
               IF entry.kind # "map" THEN Refuse(at, "not a mapping", {})
               ELSE FirstOf([i \in DOMAIN entry.content |-> IF i \in Pairs(entry) THEN Key(i) ELSE NoRefusal] \o
                      <<Unless(ImageValue(entry, "ref") # Absent, Refuse(at, "ref is required", {})),
                        Unless(~Docker(entry) \/ ImageValue(entry, "runtime") # Absent, Refuse(at, "docker needs a runtime", {}))>>)>>)

-----------------------------------------------------------------------------
(* The other keys of gateway, the wall and the pool, in the code's order.  *)
StackHosts == <<"gateway", "stack_hosts">>
ListedIn(path, l, values) == Else(l.refusal, Unless(ToSet(l.list) \subseteq values, Refuse(path, "an entry is not what it takes", {})))
ListIn(path, values) == ListedIn(path, StringList(path, At(path)), values)
ReadGateway ==
  LET G(key) == <<"gateway", key>>
      T(key) == <<"gateway", "tls", key>>
      L(key) == <<"gateway", "run_limits", key>>
  IN FirstOf(<<Takes(G("listen"), Good \cup {Secret}),
               IF Written(G("tls")) /\ \E k \in {"certificate", "key"} : ValOr(T(k), "empty") = "empty" THEN Refuse(G("tls"), "needs both", {}) ELSE NoRefusal,
               Takes(L("connections"), Good), Takes(L("requests_per_second"), Good), Takes(L("burst"), Good),
               ListIn(StackHosts, Hosts),
               IF Has(G("selects")) THEN Refuse(G("selects"), "remove it", {}) ELSE NoRefusal>>)
PrebuildImageIn(at, name, images) ==
  LET of == {i \in Pairs(images) : images.content[i].v = name} IN
  IF images.kind # "map" \/ of = {} THEN Refuse(at, "no image of that name", {Shown(name)})
  ELSE Unless(Docker(images.content[Min(of) + 1]), Refuse(at, "its image has no docker", {Shown(name)}))
ReadPrebuildImage ==
  LET at == <<"wall", "prebuild_image">> IN IF Written(at) THEN PrebuildImageIn(at, Val(at), At(Images)) ELSE NoRefusal
ReadWall ==
  LET W(key) == <<"wall", key>> IN
  IF ~Written(<<"wall">>) THEN NoRefusal
  ELSE FirstOf(<<Unless(ValOr(W("adapter"), "empty") = "good", Refuse(W("adapter"), "required", {})),
                 Entries(Images, ReadImage), ListIn(W("images_allow"), Absolute), ReadPrebuildImage,
                 Takes(W("helper"), Absolute), ListIn(W("mounts"), Absolute), Takes(W("pids_limit"), Good),
                 TakesShown(W("setup"), Good), TakesShown(W("engine_proxy_file"), Absolute),
                 ListIn(W("ca_env"), Good \cup {Secret}), ListIn(W("env"), Good \cup {Secret})>>)
ReadPool ==
  LET P(key) == <<"pool", key>> IN
  IF ~Written(<<"pool">>) THEN NoRefusal
  ELSE FirstOf(<<Takes(P("runs"), Good)>>
         \o [x \in 1..2 |-> LET k == P(<<"registry", "run_config">>[x]) IN
               Unless(~ContainsSecret(ValOr(k, "")), Refuse(k, "holds a secret", {}))]
         \o [x \in 1..2 |-> LET k == P(<<"registry", "run_config">>[x]) IN Unless(ValOr(k, "") \in Good, Refuse(k, "required, or not a name", {}))])

Readings ==
  FirstOf(<<Takes(<<"apiVersion">>, {"good", "empty"}), TakesShown(<<"machine">>, Good), CheckEgress,
            IF Has(<<"webhook">>) THEN Refuse(<<"webhook">>, "replaced", {}) ELSE NoRefusal,
            ReadServer, ReadSession, Entries(<<"gateway", "credentials">>, ReadCredential), Entries(<<"gateway", "tools">>, ReadTool),
            Entries(Integrations, ReadIntegration), ReadGateway, ReadWall, ReadPool>>)
Loaded ==
  [loaded |-> TRUE,
   egress |-> IF Written(EgressPath) THEN ReadEgress ELSE NotEgress(NoRefusal),
   via |-> IF Written(Via) THEN ReadVia ELSE NoVia,
   id |-> [v |-> ValOr(Append(Server, "access_key_id"), env.access_key_id), from |-> Origins("access_key_id")],
   name |-> ValOr(<<"session", "instance", "name">>, ""),
   gatewayKeys |-> EveryName(At(<<"gateway">>)) \ {"server"},
   env |-> ListOf(<<"wall", "env">>)]

-----------------------------------------------------------------------------
(* qory config's rows: a value the file sets, as it is or as Shown prints   *)
(* it, and the names of the entries.                                        *)
AsTheyAre ==
  {<<"gateway", "egress", "mode">>, Append(Server, "url"), Append(Server, "access_key_id"), Append(Via, "url"), Append(Via, "certificate_sha256"),
   <<"session", "instance", "name">>, <<"session", "run", "timeout">>, <<"session", "run", "stop_signal">>, <<"session", "run", "stop_grace">>,
   <<"machine">>, <<"wall", "adapter">>, <<"wall", "setup">>, <<"pool", "registry">>, <<"pool", "run_config">>}
AsShown ==
  {Append(Server, "enrolment_code_file"), <<"gateway", "listen">>, <<"gateway", "tls", "certificate">>, <<"gateway", "tls", "key">>, Append(Via, "ca_file")}
  \cup {<<"wall", k>> : k \in {"image", "prebuild_image", "command", "helper", "user", "cpus", "memory", "shm_size", "engine_proxy_file"}}
ListsAsTheyAre == {Append(EgressPath, "allow"), Append(EgressPath, "deny"), StackHosts}
ListsAsShown == {<<"wall", "env">>, <<"wall", "ca_env">>, <<"wall", "mounts">>, <<"wall", "images_allow">>}
EntrySections == {<<"gateway", "credentials">>, <<"gateway", "tools">>, Integrations, Images}
Row(key, shown) == [key |-> key, shown |-> shown]
ValueRows ==
  {Row(k, {Val(k)}) : k \in {x \in AsTheyAre : Written(x)}} \cup {Row(k, {Shown(Val(k))}) : k \in {x \in AsShown : Written(x)}}
ListRows ==
  {Row(k, ToSet(ListOf(k))) : k \in ListsAsTheyAre} \cup {Row(k, {Shown(v) : v \in ToSet(ListOf(k))}) : k \in ListsAsShown}
PathRows ==
  LET p == forager.egress.paths IN
  {Row(Append(EgressPath, "paths"), DOMAIN p \cup UNION {{Shown(v) : v \in ToSet(p[h])} : h \in DOMAIN p})}
EntryRows == UNION {{Row(s, {Shown(v)}) : v \in EntryNames(s)} : s \in EntrySections}

-----------------------------------------------------------------------------
Init ==
  /\ \E c \in Cases : file = c.file /\ env = c.env /\ limited = c.limited /\ ca = c.ca
  /\ pc = "open" /\ refusal = NoRefusal /\ forager = NotLoaded /\ instance = "none" /\ rows = {}

Refused(r, next) == refusal' = r /\ pc' = next /\ UNCHANGED <<file, limited, env, ca, forager, instance, rows>>
Goes(next) == pc' = next /\ UNCHANGED <<file, limited, env, ca, refusal, forager, instance, rows>>
RefusedOr(r, next) == IF r # NoRefusal THEN Refused(r, "instance") ELSE Goes(next)

(* LoadForager: no file is none of it; a second document would be ignored  *)
(* without a word; a key that is no name beside a merge is met before the  *)
(* decoder, which fails on it.                                             *)
Open ==
  /\ pc = "open" /\ file.there
  /\ IF file.parses /\ file.documents > 1 THEN Refused(Refuse(<<>>, "more than one document", {}), "instance")
     ELSE IF ~file.parses THEN Refused(Refuse(<<>>, "not YAML", {}), "instance")
     ELSE Goes("keys")
FindMergeKeys ==
  /\ pc = "keys"
  /\ RefusedOr(MergeKeyFault(file.root, FileT, <<>>, TRUE), "decode")
Decode ==
  /\ pc = "decode"
  /\ LET errs == Errors(file.root, FileT, {}, TRUE) IN
     IF errs = {} THEN Goes("sections")
     ELSE \E r \in DecodeRefusals(file.root, FileT, <<>>, TRUE, errs) : Refused(r, "instance")
LoadedUnless(wrong) ==
  IF wrong # NoRefusal THEN Refused(wrong, "instance")
  ELSE forager' = Loaded /\ pc' = "rows" /\ UNCHANGED <<file, limited, env, ca, refusal, instance, rows>>
ReadSections ==
  /\ pc = "sections"
  /\ LoadedUnless(Readings)
PrintRows ==
  /\ pc = "rows" /\ rows' = ValueRows \cup ListRows \cup PathRows \cup EntryRows
  /\ pc' = "ca" /\ UNCHANGED <<file, limited, env, ca, refusal, forager, instance>>
(* A run that goes through the via reads its certificates as it starts. *)
StartRun ==
  /\ pc = "ca"
  /\ IF forager.via.ca_file # "" /\ ~ca THEN Refused(Refuse(Append(Via, "ca_file"), "no certificate", {Shown(forager.via.ca_file)}), "instance")
     ELSE Goes("instance")

InstanceRead(keys, errs, name) ==
  LET Fails(r) == refusal' = r /\ UNCHANGED instance IN
  IF ~file.parses \/ file.documents > 1 THEN Fails(Refuse(<<>>, "not one YAML document", {}))
  ELSE IF keys # NoRefusal THEN Fails(keys)
  ELSE IF errs # {} THEN \E r \in DecodeRefusals(file.root, InstanceFileT, <<>>, FALSE, errs) : Fails(r)
  ELSE IF name # NoRefusal THEN Fails(name)
  ELSE instance' = ValOr(<<"session", "instance", "name">>, "") /\ UNCHANGED refusal
(* LoadForagerInstance: the instance's name alone, every other key unread. *)
ReadInstance ==
  /\ pc = "instance" /\ pc' = "done"
  /\ UNCHANGED <<file, limited, env, ca, forager, rows>>
  /\ InstanceRead(MergeKeyFault(file.root, InstanceFileT, <<>>, FALSE), Errors(file.root, InstanceFileT, {}, FALSE),
                  Takes(<<"session", "instance", "name">>, Good))

Next == Open \/ FindMergeKeys \/ Decode \/ ReadSections \/ PrintRows \/ StartRun \/ ReadInstance
Spec == Init /\ [][Next]_vars

-----------------------------------------------------------------------------
(* A file that writes a via, directly, merged or through an alias, and even *)
(* as null, is never read as one without: the machine reaches its server    *)
(* through the gateway, under the pin and the certificates the file writes. *)
ViaStands ==
  forager.loaded =>
    /\ Has(Via) => forager.via.url \in Good
    /\ Has(Append(Via, "certificate_sha256")) => forager.via.pin \in Good
    /\ Has(Append(Via, "ca_file")) => forager.via.ca_file \notin {"", "empty"}
(* The egress read at once is the one read entry by entry. *)
EgressReadOnce == forager.loaded /\ Written(EgressPath) => forager.egress = EgressOneByOne
(* No refusal and no row holds a secret the file holds. *)
NoSecretSaid ==
  /\ Secret \notin refusal.says \cup ToSet(refusal.at)
  /\ \A r \in rows : Secret \notin r.shown
(* What reads the instance's name alone reads the name of a file that loads. *)
SameInstance == pc = "done" /\ forager.loaded => instance = forager.name
(* The walks say of the nodes what the decoder makes of them. *)
FaultsPlaced == pc = "open" /\ file.parses => WalksAsTheDecoder(file.root, FileT, TRUE)

ReadsWhatIsWritten == ViaStands /\ EgressReadOnce /\ NoSecretSaid /\ SameInstance /\ FaultsPlaced
=============================================================================
