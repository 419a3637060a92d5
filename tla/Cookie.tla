-------------------------------- MODULE Cookie --------------------------------
(***************************************************************************)
(* lib/cookie.cc: cookies are loaded from a Cookie header, set, and        *)
(* written out.  A cookie is a map from keys to morsels.                   *)
(***************************************************************************)
EXTENDS HTTPUtil

CONSTANTS LegalChars,    \* what needs no quotes
          PatternChars,  \* what keys and unquoted values of the pattern are made of
          OctalOf,       \* the octal digits of the characters that are translated
          Date,          \* a date as the pattern has it, "Thu, 01 Jan 1970 00:00:00 GMT"
          Reserved       \* attributes, as they are written

ASSUME CookieAssumption ==
    /\ DOMAIN OctalOf \cap LegalChars = {}
    /\ "\"" \notin LegalChars /\ "\\" \notin LegalChars
    /\ Date \notin PatternChars \cup Space

Flags == {<<"secure">>, <<"httponly">>}
-----------------------------------------------------------------------------
(* Quoting.                                                                *)

_quote(s) ==
    LET quoted(c) == IF c \in {"\"", "\\"} THEN <<"\\", c>>
                     ELSE IF c \in DOMAIN OctalOf THEN <<"\\">> \o OctalOf[c]
                     ELSE <<c>>
    IN  IF AllIn(s, LegalChars) THEN s
        ELSE <<"\"">> \o FlattenSeq([i \in DOMAIN s |-> quoted(s[i])]) \o <<"\"">>

\* the character of three octal digits; a symbol of their own stands for one that is
\* not among the translated
CharOf(digits) ==
    LET named == {c \in DOMAIN OctalOf : OctalOf[c] = digits}
    IN  IF named # {} THEN CHOOSE c \in named : TRUE ELSE digits[1] \o digits[2] \o digits[3]

IsOctal(digits) ==
    /\ Len(digits) = 3
    /\ digits[1] \in {"0", "1", "2", "3"}
    /\ \A i \in 2..3 : digits[i] \in DigitSet \ {"8", "9"}

\* mutant: digits at the very end are not decoded
OctalInside(s, pos) == IF pos + 3 < Len(s) /\ IsOctal(Sub(s, pos, pos + 3))
                       THEN {CharOf(Sub(s, pos, pos + 3))} ELSE {}

\* the character that the three digits at pos stand for, if there are three
Octal(s, pos) == IF pos + 3 <= Len(s) /\ IsOctal(Sub(s, pos, pos + 3))
                 THEN {CharOf(Sub(s, pos, pos + 3))} ELSE {}

\* a \ is dropped and what follows it is read on from there: octal digits, a quote,
\* or the next \, which is dropped as well
_unquote(s) ==
    LET sub == Sub(s, 1, Len(s) - 1)
        read[pos \in 0..Len(s)] ==
           LET slash == FindIn(sub, <<"\\">>, pos, Len(sub))
               octal == Octal(sub, slash + 1)
           IN  IF slash = NotFound THEN From(sub, pos)
               ELSE Sub(sub, pos, slash)
                    \o (IF slash + 1 = Len(sub) THEN <<>>
                        ELSE IF octal # {} THEN <<CHOOSE c \in octal : TRUE>> \o read[slash + 4]
                        ELSE read[slash + 1])
    IN  IF Len(s) < 2 \/ s[1] # "\"" \/ Last(s) # "\"" THEN s ELSE read[0]
-----------------------------------------------------------------------------
(* CookieMorsel.                                                           *)

NoMorsel == [key |-> nullstr, value |-> nullstr, coded |-> nullstr, attributes |-> <<>>]

IsReserved(key) == Translate(key, LowerOf) \in DOMAIN Reserved

\* a reserved or illegal key leaves the morsel as it is
MorselSet(m, key, value, coded) ==
    IF IsReserved(key) \/ ~AllIn(key, LegalChars) THEN m
    ELSE [m EXCEPT !.key = key, !.value = value, !.coded = coded]

set_attribute(m, key, value) ==
    IF IsReserved(key)
    THEN [m EXCEPT !.attributes = Translate(key, LowerOf) :> value @@ @]
    ELSE m

Assign(key, value) == key \o <<"=">> \o value

MorselOutput(m) ==
    LET names == SetToSortSeq({k \in DOMAIN m.attributes : m.attributes[k] # <<>>},
                              LAMBDA a, b : StrLess(a, b, Order))
    IN  Join(<<";", " ">>,
             <<Assign(m.key, m.coded)>>
             \o [i \in DOMAIN names |->
                    IF names[i] \in Flags THEN Reserved[names[i]]
                    ELSE Assign(Reserved[names[i]], m.attributes[names[i]])])
-----------------------------------------------------------------------------
(* Cookie.                                                                 *)

CookieSet(map, key, value, coded) ==
    LET old == IF key \in DOMAIN map THEN map[key] ELSE NoMorsel
    IN  key :> MorselSet(old, key, value, coded) @@ map

\* _cookie_pattern: the first key = value at or behind pos; the key is as short as
\* it can be, a value in quotes ends at the next quote (the pattern's class is that
\* of all but quotes, which covers what its \. adds), a value that is a date ends
\* with it, and a ; behind the value belongs to it.  The symbol Date is all of a date.
CookieMatch(s, pos) ==
    LET run(i)   == Min({j \in i..Len(s) : j = Len(s) \/ s[j + 1] \notin PatternChars})
        skip(i)  == Min({j \in i..Len(s) : j = Len(s) \/ s[j + 1] \notin Space})
        is(i, c) == i < Len(s) /\ s[i + 1] = c
        ends(p)  == {e \in (p + 1)..run(p) : is(skip(e), "=")}
        starts   == {p \in pos..(Len(s) - 1) : ends(p) # {}}
        key      == Min(starts)
        eq       == Min(ends(key))
        value    == skip(skip(eq) + 1)
        close    == FindIn(s, <<"\"">>, value + 1, Len(s))
        end      == IF is(value, "\"") /\ close # NotFound THEN close + 1
                    ELSE IF is(value, Date) THEN value + 1
                    ELSE run(value)
    IN  IF starts = {} THEN {}
        ELSE {[key |-> Sub(s, key, eq), value |-> Sub(s, value, end),
               end |-> IF is(skip(end), ";") THEN skip(end) + 1 ELSE skip(end)]}

\* all matches in s, one behind the other
CookieMatches(s) ==
    LET from[pos \in 0..Len(s)] ==
           IF pos = Len(s) THEN <<>>
           ELSE FoldSet(LAMBDA m, none : <<m>> \o from[m.end], <<>>, CookieMatch(s, pos))
    IN  from[0]

\* an attribute belongs to the cookie before it; at is the key of that one
CookieLoad(map, data) ==
    LET step(c, m) ==
           LET attribute(key, value) ==
                  IF c.at = nullstr THEN c
                  ELSE [c EXCEPT !.map[c.at] = set_attribute(@, key, value)]
           IN  IF m.key[1] = "$" THEN attribute(From(m.key, 1), m.value)
               ELSE IF IsReserved(m.key) THEN attribute(m.key, _unquote(m.value))
               ELSE [map |-> CookieSet(c.map, m.key, _unquote(m.value), m.value), at |-> m.key]
    IN  FoldLeft(step, [map |-> map, at |-> nullstr], CookieMatches(data)).map

CookieOutput(map) ==
    LET keys == SetToSortSeq(DOMAIN map, LAMBDA a, b : StrLess(a, b, Order))
    IN  Join(EOL, [i \in DOMAIN keys |->
                      <<"Set-Cookie", ":", " ">> \o MorselOutput(map[keys[i]])])
-----------------------------------------------------------------------------
(* Correctness.                                                            *)

\* A value without \ is quoted and unquoted to itself, whatever must be translated,
\* wherever it stands (QuotingIsTwoWay is about \ in it).  One that has no quote either
\* comes back from a header as it was set, with its attributes, whether they are
\* written as the server does or with a $, and takes nothing of the cookie behind it;
\* only a flag, which has no =, is left out, and its neighbours are not.  With a
\* quote in it the pattern ends the value there.
CookiesAreKept ==
    kind = "cookie" =>
       LET key   == <<"a">>
           other == <<"o">>
           set   == CookieSet(<<>>, key, text, _quote(text))[key]
           dated == set_attribute(set_attribute(set, <<"path">>, <<"a">>), <<"expires">>, <<Date>>)
           sent  == MorselOutput(set_attribute(dated, <<"secure">>, <<"a">>))
                       \o <<";", " ">> \o Assign(other, <<"a">>)
           back  == CookieLoad(<<>>, sent)
           asked == CookieLoad(<<>>, Assign(key, _quote(text))
                                        \o <<";", " ", "$", "path", "=", "a", ";">>
                                        \o Assign(other, <<"a">>))
       IN  /\ "\\" \notin ToSet(text) => _unquote(_quote(text)) = text
           /\ ToSet(text) \cap {"\\", "\""} = {} =>
                 /\ DOMAIN back = {key, other} /\ DOMAIN asked = {key, other}
                 /\ back[key] = dated
                 /\ asked[key] = set_attribute(set, <<"path">>, <<"a">>)
                 /\ back[other].value = <<"a">> /\ asked[other] = back[other]
                 /\ CookieLoad(<<>>, MorselOutput(back[key])) = (key :> dated)

\* The comment on the quoting routines: "They provide a two-way quoting algorithm",
\* of every value.  _unquote drops a \ and does not look whether it was quoted.
QuotingIsTwoWay == kind = "cookie" => _unquote(_quote(text)) = text
=============================================================================
