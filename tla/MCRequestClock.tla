--------------------------- MODULE MCRequestClock ---------------------------
(* Small instances of RequestClock, whose cfg names callers and identities,  *)
(* of Mask and of ForagerFile: three parts that share no state, of which a   *)
(* behaviour has one.                                                        *)
EXTENDS RequestClock, Sequences, FiniteSets

VARIABLES part, stream, at, values, since, kept, tail, open, out, buf, status, file, cut, ended
masked == <<stream, at, values, since, kept, tail, open, out, buf, status, file, cut, ended>>
VARIABLES document, limited, env, ca, reading, refusal, forager, instance, rows
read == <<document, limited, env, ca, reading, refusal, forager, instance, rows>>

(* The pieces a text is made of: parts of the values x t, x x and x x t, of *)
(* the parameters ?t=, &t= and ?tt=, and what ends them.                    *)
Fragments == {<<"x", "t">>, <<"x", "x">>, <<"?", "t", "=">>, <<"&">>, <<"nl">>, <<"?", "t">>, <<"t", "=">>, <<"&", "t", "=", "x">>}
FirstFragments == {<<"x", "t">>, <<"?", "t", "=">>, <<"?", "t">>, <<"&", "t", "=", "x">>}
M == INSTANCE Mask WITH
  Texts <- {a \o b \o c : a \in FirstFragments, b, c \in Fragments}, MaxWrite <- 3,
  openers <- {<<"?", "t", "=">>, <<"&", "t", "=">>, <<"?", "t", "t", "=">>}, ValueEnds <- {"&", "nl"},
  Given <- {<<<<"x", "t">>, <<"x", "x", "t">>>>, <<<<"x", "x">>, <<"x">>>>, <<<<"x">>, <<"x", "x", "t">>, <<"x", "x">>>>},
  MinLength <- 2, MaxValueLength <- 4, MaxValues <- 3, MaxLine <- 3

I == INSTANCE ForagerInputs WITH Secret <- "secret"
ForagerCases == I!MCCases
F == INSTANCE ForagerFile WITH Secret <- "secret", Cases <- ForagerCases, file <- document, pc <- reading

NoMask ==
  /\ stream = <<>> /\ at = 0 /\ values = <<>> /\ since = <<>> /\ kept = <<>> /\ tail = <<>> /\ open = FALSE /\ out = <<>>
  /\ buf = <<>> /\ status = <<>> /\ file = FALSE /\ cut = FALSE /\ ended = TRUE
NoForagerFile ==
  /\ document = <<>> /\ limited = FALSE /\ env = <<>> /\ ca = FALSE /\ reading = "none"
  /\ refusal = <<>> /\ forager = <<>> /\ instance = "none" /\ rows = {}
PartsInit ==
  \/ part = "clock" /\ Init /\ NoMask /\ NoForagerFile
  \/ part = "mask" /\ Init /\ M!Init /\ NoForagerFile
  \/ part = "file" /\ Init /\ NoMask /\ F!Init
PartsNext ==
  /\ UNCHANGED part
  /\ \/ part = "clock" /\ Next /\ UNCHANGED <<masked, read>>
     \/ part = "mask" /\ M!Next /\ UNCHANGED <<vars, read>>
     \/ part = "file" /\ F!Next /\ UNCHANGED <<vars, masked>>
PartsSpec == PartsInit /\ [][PartsNext]_<<part, vars, masked, read>>

(* Mask: however a stream is cut into writes, it is masked as its whole.   *)
(* ForagerFile: what LoadForager reads is what the file writes, a via that *)
(* stands and the egress whichever way it is read, and the name read alone *)
(* is the one it reads; a refusal and a row of qory config hold no secret, *)
(* and the walks place what the decoder refuses.                           *)
MaskedAndReadAsWritten ==
  /\ part = "mask" => M!MaskedAsWhole
  /\ part = "file" => F!ReadsWhatIsWritten
=============================================================================
