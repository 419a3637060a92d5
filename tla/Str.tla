---------------------------------- MODULE Str ----------------------------------
(***************************************************************************)
(* lib/string.cc, lib/string-inl.h: what the operations of Str return.  A  *)
(* Str is the sequence of its characters, or nullstr; positions count from *)
(* 0 as in the code.  StrShare has the buffers behind the characters.      *)
(***************************************************************************)
EXTENDS Inputs, FiniteSetsExt

CONSTANTS nullstr,   \* the Str without data
          IntBits    \* width of an int

ASSUME StrAssumption ==
    /\ IntBits \in Nat \ {0}
    /\ "str" \in DOMAIN Symbols => "|" \notin Symbols["str"]   \* what stands for separators

NotFound == -1

\* substr; an end of -1 is the end of the string
Sub(s, start, end) == SubSeq(s, start + 1, IF end = -1 THEN Len(s) ELSE end)
From(s, start)     == Sub(s, start, -1)

Occurs(s, t, i) == i + Len(t) <= Len(s) /\ Sub(s, i, i + Len(t)) = t
Places(s, t, start, end) == {i \in start..(end - Len(t)) : Occurs(s, t, i)}

\* find and rfind, and what strnfind and strnrfind find in a part of a string
FindIn(s, t, start, end)  == IF Places(s, t, start, end) = {} THEN NotFound
                             ELSE Min(Places(s, t, start, end))
RFindIn(s, t, start, end) == IF Places(s, t, start, end) = {} THEN NotFound
                             ELSE Max(Places(s, t, start, end))
Find(s, t)  == FindIn(s, t, 0, Len(s))
RFind(s, t) == RFindIn(s, t, 0, Len(s))
Has(s, c)   == Find(s, <<c>>) # NotFound

StartsWith(s, t) == Len(s) >= Len(t) /\ Sub(s, 0, Len(t)) = t
EndsWith(s, t)   == Len(s) >= Len(t) /\ From(s, Len(s) - Len(t)) = t

\* s[i]; a negative i counts from the end, outside it throws
InRange(s, i) == i < Len(s) /\ i + Len(s) >= 0
At(s, i) == s[1 + ((i + Len(s)) % Len(s))]
-----------------------------------------------------------------------------
(* Loops over a string.                                                    *)

\* mutant: the search goes on one character behind the last find
CountOverlapping(s, t) ==
    LET more[pos \in 0..Len(s)] ==
            LET i == FindIn(s, t, pos, Len(s))
            IN  IF i = NotFound THEN 0 ELSE 1 + more[i + 1]
    IN  more[0]

Count(s, t) ==
    LET more[pos \in 0..Len(s)] ==
            LET i == FindIn(s, t, pos, Len(s))
            IN  IF i = NotFound THEN 0 ELSE 1 + more[i + Len(t)]
    IN  more[0]

Split(s, sep) ==
    LET rest[pos \in 0..Len(s)] ==
            LET i == FindIn(s, sep, pos, Len(s))
            IN  IF i = NotFound THEN <<From(s, pos)>>
                ELSE <<Sub(s, pos, i)>> \o rest[i + Len(sep)]
    IN  rest[0]

\* without separator the second half is nullstr
SplitPair(s, sep) ==
    LET i == Find(s, sep)
    IN  IF i = NotFound THEN <<s, nullstr>> ELSE <<Sub(s, 0, i), From(s, i + Len(sep))>>

\* \r, \n and \r\n end a line; nothing follows the last of them
SplitLines(s) ==
    LET cr == "\r"
        lf == "\n"
        lines[pos \in 0..Len(s)] ==
            LET ends == {i \in pos..(Len(s) - 1) : s[i + 1] \in {cr, lf}}
                e    == IF ends = {} THEN Len(s) ELSE Min(ends)
                next == IF Occurs(s, <<cr, lf>>, e) THEN e + 2 ELSE e + 1
            IN  IF pos = Len(s) THEN <<>>
                ELSE <<Sub(s, pos, e)>> \o (IF e = Len(s) THEN <<>> ELSE lines[next])
    IN  lines[0]

Join(sep, strs) ==
    LET joined[i \in 0..Len(strs)] ==
            IF i = 0 THEN <<>> ELSE joined[i - 1] \o (IF i = 1 THEN <<>> ELSE sep) \o strs[i]
    IN  joined[Len(strs)]

Replace(s, old, new) == Join(new, Split(s, old))

\* lstrip, rstrip and strip of the characters in set
LStrip(s, set) == LET kept == {i \in DOMAIN s : s[i] \notin set}
                  IN  IF kept = {} THEN <<>> ELSE SubSeq(s, Min(kept), Len(s))
RStrip(s, set) == LET kept == {i \in DOMAIN s : s[i] \notin set}
                  IN  IF kept = {} THEN <<>> ELSE SubSeq(s, 1, Max(kept))
Strip(s, set)  == LStrip(RStrip(s, set), set)

\* translate with a table, as upper and lower are; remove and retain
Translate(s, table) == [i \in DOMAIN s |-> IF s[i] \in DOMAIN table THEN table[s[i]]
                                           ELSE s[i]]
RemoveAll(s, set) ==
    LET kept[i \in 0..Len(s)] ==
            IF i = 0 THEN <<>>
            ELSE IF s[i] \in set THEN kept[i - 1] ELSE Append(kept[i - 1], s[i])
    IN  kept[Len(s)]
Retain(s, set) == RemoveAll(s, {c \in ToSet(s) : c \notin set})
AllIn(s, set)  == \A i \in DOMAIN s : s[i] \in set

\* capitalize_each of a string without letters of the other case: whatever
\* stands first or behind a run of separators is capital.  When the string ends
\* with a separator the loop over the run reads on behind it.
CapitalizeEach(s, sep, lower, upper) ==
    LET low == Translate(s, lower)
    IN  [i \in DOMAIN s |-> IF (i = 1 \/ s[i - 1] = sep) /\ low[i] \in DOMAIN upper
                            THEN upper[low[i]] ELSE low[i]]

\* StrLess, on characters ordered by order; nullstr is below nullstr, and neither
\* below nor above any other
StrLess(s, t, order) ==
    IF nullstr \in {s, t} THEN s = nullstr /\ t = nullstr
    ELSE \E i \in 0..Len(s) :
            /\ i < Len(t) /\ Sub(s, 0, i) = Sub(t, 0, i)
            /\ i = Len(s) \/ order[s[i + 1]] < order[t[i + 1]]
-----------------------------------------------------------------------------
(* Numbers.                                                                *)

Digits == <<"0", "1", "2", "3", "4", "5", "6", "7", "8", "9", "a", "b", "c", "d", "e", "f">>
DigitSet == {Digits[i] : i \in 1..10}
ValueOf(c) == CHOOSE d \in 0..9 : Digits[d + 1] = c

MaxInt  == 2^(IntBits - 1) - 1
Wrap(i) == ((i + MaxInt + 1) % 2^IntBits) - MaxInt - 1

\* toi: -1 for what is no number, and for one that overflows into the negative;
\* others overflow into what is left of them
ToInt(s) ==
    IF s = <<>> \/ ~AllIn(s, DigitSet) THEN -1
    ELSE LET i == FoldLeft(LAMBDA n, c : Wrap(n * 10 + ValueOf(c)), 0, s)
         IN  IF i < 0 THEN -1 ELSE i

\* the digits of a number that is not negative
InBase(n, base) ==
    LET digits[m \in Nat] == IF m < base THEN <<Digits[m + 1]>>
                             ELSE digits[m \div base] \o <<Digits[1 + (m % base)]>>
    IN  digits[n]

\* Str(int); the smallest int has no negative and is not given
FromInt(i) == IF i < 0 THEN <<"-">> \o InBase(-i, 10) ELSE InBase(i, 10)
-----------------------------------------------------------------------------
(* Correctness.                                                            *)

\* the number that a text of digits writes
Number(s) == FoldLeft(LAMBDA n, c : n * 10 + ValueOf(c), 0, s)

SplitAgrees(sep) ==
    LET pieces == Split(text, sep)
        pair   == SplitPair(text, sep)
    IN  /\ Join(sep, pieces) = text
        /\ Len(pieces) = Count(text, sep) + 1
        /\ pair[1] = pieces[1]
        /\ pair[2] = IF Len(pieces) = 1 THEN nullstr ELSE Join(sep, Tail(pieces))
        /\ Replace(Replace(text, sep, <<"|">>), <<"|">>, sep) = text
        /\ \A i \in DOMAIN pieces : Find(pieces[i], sep) = NotFound

LinesAgree ==
    LET ends  == {"\r", "\n"}
        lines == SplitLines(text)
        marks == {i \in DOMAIN text : text[i] \in ends}
        pairs == {i \in marks : text[i] = "\r" /\ i < Len(text) /\ text[i + 1] = "\n"}
        open  == text # <<>> /\ Last(text) \notin ends
    IN  /\ FlattenSeq(lines) = RemoveAll(text, ends)
        /\ Len(lines) = Cardinality(marks \ pairs) + (IF open THEN 1 ELSE 0)

\* count, split, split_pair, find, join and replace agree on where the separators
\* of a text are, also at its ends, next to each other and overlapping: joining
\* the pieces gives the text, there is a piece more than there are separators,
\* the first piece is the first half, and replacing there and back changes
\* nothing; the lines of a text hold all but the line ends, each counted once.
\* The parsers of requests, headers, queries and cookies rest on it.
SplitsAgree ==
    /\ kind = "str" => \A sep \in {<<",">>, <<",", ",">>, <<",", "a">>} : SplitAgrees(sep)
    /\ kind = "lines" => LinesAgree

\* A number that an int holds is read as written, and written again as read
\* (without zeros in front); what is no number is read as -1.
NumbersAreRead ==
    kind = "number" =>
       IF text = <<>> \/ ~AllIn(text, DigitSet) THEN ToInt(text) = -1
       ELSE Number(text) <= MaxInt =>
               /\ ToInt(text) = Number(text)
               /\ text[1] # "0" => FromInt(ToInt(text)) = text
               /\ FromInt(-Number(text)) =
                     IF Number(text) = 0 THEN <<"0">> ELSE <<"-">> \o FromInt(Number(text))
=============================================================================
