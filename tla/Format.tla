-------------------------------- MODULE Format --------------------------------
(***************************************************************************)
(* lib/string.cc: the functions that count the length of what they are     *)
(* about to write, allocate that much and then write it: Str::sprintf, with *)
(* vslprintf_len and vslprintf, and Str::escape.  A format is a sequence   *)
(* of directives with their arguments:                                     *)
(*   "text"   literal characters, %S, %s, %*s, %c, %%, %Z, %N              *)
(*   "number" %d and the other integers, %p; zero, width, base, value      *)
(*   "float"  %f of hundredths/100, with width and frac_width              *)
(***************************************************************************)
EXTENDS Str

ASSUME FormatAssumption ==
    "format" \in DOMAIN Symbols => \A d \in Symbols["format"] : d.type \in {"text", "number", "float"}

Abs(n) == IF n < 0 THEN -n ELSE n
Sign(n) == IF n < 0 THEN <<"-">> ELSE <<>>
Repeat(c, n) == [i \in 1..n |-> c]

\* the two halves of a %f: rounded at frac_width digits, the carry taken over
Whole(d) == Abs(d.value) \div 100
Scale(d) == 10^d.frac_width
Frac(d)  == ((Abs(d.value) % 100) * Scale(d) + 50) \div 100
Carries(d) == d.frac_width > 0 /\ Frac(d) = Scale(d)
WholeOut(d) == IF Carries(d) THEN Whole(d) + 1 ELSE Whole(d)
FracOut(d)  == IF Carries(d) THEN 0 ELSE Frac(d)
-----------------------------------------------------------------------------
(* The counting pass.                                                      *)

\* mutant: the width bounds the number
NumLenCut(n, base, width) == Min({Len(InBase(n, base)), width})

NumLen(n, base, width) == Max({Len(InBase(n, base)), width})

LenOf(d) ==
    CASE d.type = "text"   -> Len(d.text)
      [] d.type = "number" -> Len(Sign(d.value)) + NumLen(Abs(d.value), d.base, d.width)
      [] d.type = "float"  ->
            Len(Sign(d.value)) + NumLen(WholeOut(d), 10, d.width)
              + (IF d.frac_width = 0 THEN 0 ELSE NumLen(FracOut(d), 10, d.frac_width) + 1)

vslprintf_len(fmt) == FoldLeft(LAMBDA n, d : n + LenOf(d), 0, fmt)
-----------------------------------------------------------------------------
(* The writing pass, into size characters of which buf are written.        *)

Write(buf, s, size) == buf \o SubSeq(s, 1, Min({Len(s), size - Len(buf)}))

WriteNum(buf, n, zero, base, width, size) ==
    LET digits == InBase(n, base)
        padded == Write(buf, Repeat(zero, Max({width - Len(digits), 0})), size)
    IN  Write(padded, digits, size)

\* the sign is written unchecked: there is room for a character
Directive(buf, d, size) ==
    CASE d.type = "text"   -> Write(buf, d.text, size)
      [] d.type = "number" ->
            WriteNum(buf \o Sign(d.value), Abs(d.value), d.zero, d.base, d.width, size)
      [] d.type = "float"  ->
            LET whole == WriteNum(buf \o Sign(d.value), WholeOut(d), d.zero, 10, d.width, size)
            IN  IF d.frac_width = 0 THEN whole
                ELSE WriteNum(Write(whole, <<".">>, size), FracOut(d), "0", 10,
                              d.frac_width, size)

vslprintf(size, fmt) ==
    FoldLeft(LAMBDA buf, d : IF Len(buf) < size THEN Directive(buf, d, size) ELSE buf,
             <<>>, fmt)

sprintf(fmt) == vslprintf(vslprintf_len(fmt), fmt)

\* escape: a character by its name or in hexadecimal, named[c] its letter; n counts
EscapeLen(s, named, hex) ==
    FoldLeft(LAMBDA n, c : n + (IF c \in DOMAIN named THEN 1
                                ELSE IF c \in DOMAIN hex THEN 3 ELSE 0), Len(s), s)
Escape(s, named, hex) ==
    FoldLeft(LAMBDA out, c : out \o (IF c \in DOMAIN named THEN <<"\\", named[c]>>
                                     ELSE IF c \in DOMAIN hex THEN <<"\\", "x">> \o hex[c]
                                     ELSE <<c>>), <<>>, s)
-----------------------------------------------------------------------------
(* Correctness.                                                            *)

\* what a directive stands for: a sign, a number filled up to its width, and for
\* a float the nearest number of frac_width digits
Filled(digits, zero, width) == Repeat(zero, Max({width - Len(digits), 0})) \o digits
Meaning(d) ==
    CASE d.type = "text"   -> d.text
      [] d.type = "number" -> Sign(d.value) \o Filled(InBase(Abs(d.value), d.base), d.zero, d.width)
      [] d.type = "float"  ->
            LET nearest == IF d.frac_width = 0 THEN Abs(d.value) \div 100
                           ELSE (Abs(d.value) * Scale(d) + 50) \div 100
            IN  Sign(d.value)
                \o Filled(InBase(nearest \div Scale(d), 10), d.zero, d.width)
                \o (IF d.frac_width = 0 THEN <<>>
                    ELSE <<".">> \o Filled(InBase(nearest % Scale(d), 10), "0", d.frac_width))

\* The pass that counts and the pass that writes agree, so sprintf fills its buffer
\* with what the directives mean and never leaves a part of it unwritten; in a
\* buffer that is too small vslprintf writes exactly what fits, never behind its
\* end: through signs, padding, zero widths and a fraction that rounds up.  An
\* escaped text is as long as it was counted, and numbers are read as written.
FormatFits ==
    /\ NumbersAreRead
    /\ kind = "format" =>
          LET full == FlattenSeq([i \in DOMAIN text |-> Meaning(text[i])])
          IN  /\ vslprintf_len(text) = Len(full)
              /\ sprintf(text) = full
              /\ \A size \in 0..Len(full) : vslprintf(size, text) = SubSeq(full, 1, size)
    /\ kind = "lines" =>
          LET named == "\n" :> "n"
              hex   == "\r" :> <<"0", "d">>
          IN  Len(Escape(text, named, hex)) = EscapeLen(text, named, hex)
=============================================================================
