-------------------------------- MODULE Mask ---------------------------------
(***************************************************************************)
(* How qory run masks what it prints (internal/secretmask, cmd/runmask.go) *)
(* and copies its lines to the status descriptor (internal/statusfd): the   *)
(* list of known values, the writer that keeps back the end of each write, *)
(* the writer of query values after it, and the splitter into lines.  The  *)
(* writes of one stream come in any parts, and values are added meanwhile. *)
(*                                                                         *)
(* A character stands for a class: a separator, the letters of a parameter *)
(* name, =, a line end, other text.  Case, the percent and JSON forms of a *)
(* value, key shapes, escape sequences, the writes of other streams and    *)
(* the choice of the descriptor are left out.                              *)
(***************************************************************************)
EXTENDS Naturals, Sequences, FiniteSets

CONSTANTS Texts,      \* what a stream may have in all
          MaxWrite,   \* the length of a write
          openers,    \* what a query parameter starts with
          ValueEnds,       \* the characters that end a query value
          Given,      \* what a caller may add: sequences of lines
          MinLength, MaxValueLength, MaxValues, MaxLine

VARIABLES
  stream, at,       \* one of Texts, and how much of it was written
  values,           \* the list, in the order it was added in
  since,            \* history: value -> how much was written as it was added
  kept,             \* what the writer of known values keeps back
  tail, open,       \* the same of the writer of query values; in a value
  out,              \* what has reached stderr
  buf,              \* the part of a line that waits for its end
  status, file,     \* the lines on the descriptor, while it can be written
  cut,              \* history: a line was written in parts
  ended

vars == <<stream, at, values, since, kept, tail, open, out, buf, status, file, cut, ended>>

Placeholder == "***"
NewLine == "nl"
Starts(b, i, w) == i + Len(w) - 1 <= Len(b) /\ SubSeq(b, i, i + Len(w) - 1) = w
From(b, i) == SubSeq(b, i, Len(b))
Elements(s) == {s[i] : i \in DOMAIN s}
Most(s) == CHOOSE n \in s : \A k \in s : n >= k

-----------------------------------------------------------------------------
(* Set.Add: the value, and each line of one that has several.  A stream has *)
(* the values of one call, from its start or from some write on.           *)
add(list, v) ==
  IF Len(v) < MinLength \/ Len(v) > MaxValueLength \/ Len(list) = MaxValues \/ v \in Elements(list)
  THEN list ELSE Append(list, v)
Joined(lines) == LET J[n \in 1..Len(lines)] == IF n = 1 THEN lines[1] ELSE J[n - 1] \o <<NewLine>> \o lines[n] IN J[Len(lines)]
Parts(lines) == IF Len(lines) = 1 THEN lines ELSE <<Joined(lines)>> \o lines
Added(list, lines) ==
  LET A[n \in 0..Len(Parts(lines))] == IF n = 0 THEN list ELSE add(A[n - 1], Parts(lines)[n]) IN A[Len(Parts(lines))]
Add ==
  \E lines \in Given :
    /\ ~ended /\ values = <<>> /\ values' = Added(values, lines)
    /\ since' = [v \in Elements(values') |-> IF v \in DOMAIN since THEN since[v] ELSE at]
    /\ UNCHANGED <<stream, at, kept, tail, open, out, buf, status, file, cut, ended>>

(* Forager's masker: the longest value at the first place that has one.    *)
maskKnown(b, known, final) ==
  LET M[i \in 1..(Len(b) + 1)] ==
        LET here == {v \in known : Starts(b, i, v)} IN
        IF i > Len(b) THEN [out |-> <<>>, kept |-> <<>>]
        ELSE IF ~final /\ \E v \in known : Len(v) > Len(b) - i + 1 /\ Starts(v, 1, From(b, i))
        THEN [out |-> <<>>, kept |-> From(b, i)]
        ELSE IF here # {} THEN LET r == M[i + Most({Len(v) : v \in here})] IN [r EXCEPT !.out = <<Placeholder>> \o @]
        ELSE [M[i + 1] EXCEPT !.out = <<b[i]>> \o @]
  IN M[1]

(* maskQuery: the value of each parameter is replaced; unless the stream is *)
(* over, the end that could start one is kept back.                        *)
valueByte(c) == c \notin ValueEnds
AfterValue(b, i) == CHOOSE k \in i..(Len(b) + 1) : (k = Len(b) + 1 \/ ~valueByte(b[k])) /\ \A j \in i..(k - 1) : valueByte(b[j])
longestOpener == Most({Len(o) : o \in openers})
startsOpener(b) == \E o \in openers : Starts(o, 1, b)
(* Not the code: one character too few is looked at.                       *)
HoldsLate(b, i) == {s \in i..Len(b) : s > Len(b) - longestOpener + 2 /\ startsOpener(From(b, s))}
Holds(b, i) == {s \in i..Len(b) : s >= Len(b) - longestOpener + 2 /\ startsOpener(From(b, s))}
First(s) == CHOOSE n \in s : \A k \in s : n <= k
maskQuery(b, final) ==
  LET M[i \in 1..(Len(b) + 1)] ==
        LET o == {w \in openers : Starts(b, i, w)} IN
        IF i > Len(b) THEN [out |-> <<>>, tail |-> <<>>, open |-> FALSE]
        ELSE IF o # {}
        THEN LET w == CHOOSE w \in o : TRUE
                 next == AfterValue(b, i + Len(w)) IN
             IF next > Len(b) THEN [out |-> w \o <<Placeholder>>, tail |-> <<>>, open |-> ~final]
             ELSE [M[next] EXCEPT !.out = w \o <<Placeholder>> \o @]
        ELSE IF ~final /\ Holds(b, i) # {} /\ First(Holds(b, i)) = i /\ \A k \in i..Len(b) : ~\E w \in openers : Starts(b, k, w)
        THEN [out |-> <<>>, tail |-> From(b, i), open |-> FALSE]
        ELSE [M[i + 1] EXCEPT !.out = <<b[i]>> \o @]
  IN M[1]

(* queryWriter.Write, with what it keeps and whether it is in a value.     *)
queryWrite(b) ==
  LET whole == tail \o b
      rest == IF open THEN From(whole, AfterValue(whole, 1)) ELSE whole IN
  IF open /\ rest = <<>> THEN [out |-> <<>>, tail |-> <<>>, open |-> TRUE] ELSE maskQuery(rest, FALSE)
Replace(list, b) == maskQuery(maskKnown(b, Elements(list), TRUE).out, TRUE).out

-----------------------------------------------------------------------------
(* Line: each line of the text, one line end at its end left out; a write  *)
(* that fails is the last.                                                 *)
LinesOf(b) ==
  LET L[i \in 1..(Len(b) + 1)] ==
        IF i > Len(b) THEN <<<<>>>>
        ELSE IF b[i] = NewLine THEN <<<<>>>> \o L[i + 1]
        ELSE [L[i + 1] EXCEPT ![1] = <<b[i]>> \o @]
  IN L[1]
Trimmed(b) == IF b # <<>> /\ b[Len(b)] = NewLine THEN SubSeq(b, 1, Len(b) - 1) ELSE b
Line(b) == LinesOf(Trimmed(Replace(values, b)))
LastEnd(b) == Most({0} \cup {i \in DOMAIN b : b[i] = NewLine})
Prints(lines) ==
  IF ~file THEN UNCHANGED <<status, file>>
  ELSE \/ status' = status \o lines /\ UNCHANGED file
       \/ \E n \in 0..(Len(lines) - 1) : status' = status \o SubSeq(lines, 1, n) /\ file' = FALSE

(* lineSplitter.Write and flush: whole lines, or a part of one that is long.*)
Split(b, over) ==
  LET whole == buf \o b
      end == LastEnd(whole)
      rest == From(whole, end + 1)
      lines == IF end = 0 THEN <<>> ELSE Line(SubSeq(whole, 1, end - 1))
      long == Len(rest) > MaxLine \/ (over /\ rest # <<>>) IN
  /\ Prints(IF long THEN lines \o Line(rest) ELSE lines)
  /\ buf' = IF long THEN <<>> ELSE rest
  /\ cut' = (cut \/ Len(rest) > MaxLine)

(* Writer.Write and Writer.Flush, and the same for the copy of the lines.  *)
Write ==
  \E n \in 1..MaxWrite :
    /\ ~ended /\ at + n <= Len(stream) /\ at' = at + n
    /\ LET b == SubSeq(stream, at + 1, at + n)
           k == maskKnown(kept \o b, Elements(values), FALSE)
           q == IF k.out = <<>> THEN [out |-> <<>>, tail |-> tail, open |-> open] ELSE queryWrite(k.out) IN
       /\ kept' = k.kept /\ tail' = q.tail /\ open' = q.open /\ out' = out \o q.out
       /\ IF q.out = <<>> THEN UNCHANGED <<buf, status, file, cut>> ELSE Split(q.out, FALSE)
    /\ UNCHANGED <<stream, values, since, ended>>
Flush ==
  /\ ~ended /\ ended' = TRUE
  /\ LET k == maskKnown(kept, Elements(values), TRUE)
         q == IF k.out = <<>> THEN [out |-> <<>>, tail |-> tail, open |-> open] ELSE queryWrite(k.out) IN
     /\ kept' = <<>> /\ tail' = <<>> /\ open' = FALSE /\ out' = out \o q.out \o q.tail
     /\ Split(q.out \o q.tail, TRUE)
  /\ UNCHANGED <<stream, at, values, since>>

Init ==
  /\ stream \in Texts /\ at = 0 /\ values \in {Added(<<>>, lines) : lines \in Given \cup {<<<<>>>>}}
  /\ since = [v \in Elements(values) |-> 0] /\ kept = <<>> /\ tail = <<>> /\ open = FALSE
  /\ out = <<>> /\ buf = <<>> /\ status = <<>> /\ file = TRUE /\ cut = FALSE /\ ended = FALSE
Next == Add \/ Write \/ Flush

-----------------------------------------------------------------------------
(* However a stream is cut into writes, what reaches stderr is the whole   *)
(* text masked at once; a value that is added while the stream goes on is  *)
(* shown nowhere it starts after that; and the descriptor gets, while it   *)
(* can be written, the lines of stderr, a blank one aside, none of them in *)
(* part unless a line was too long to keep.                                *)
Shown(b, v) == Cardinality({i \in DOMAIN b : Starts(b, i, v)})
Before(v) == Cardinality({i \in 1..at : Starts(stream, i, v) /\ i <= since[v]})
NotBlank(lines) == SelectSeq(lines, LAMBDA l : l # <<>>)
MaskedAsWhole ==
  /\ ended /\ (\A v \in DOMAIN since : since[v] = 0) => out = Replace(values, SubSeq(stream, 1, at))
  /\ \A v \in DOMAIN since :
       /\ Shown(out, v) <= Before(v)
       /\ \A i \in DOMAIN status : Shown(status[i], v) <= Before(v)
  /\ ended /\ file /\ ~cut /\ (\A v \in DOMAIN since : since[v] = 0) => NotBlank(status) = NotBlank(LinesOf(out))
=============================================================================
