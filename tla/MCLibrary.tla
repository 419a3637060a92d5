------------------------------ MODULE MCLibrary ------------------------------
(***************************************************************************)
(* The instance of the library's modules for TLC.  They share no state, so *)
(* one of them moves while the others stand where they start: their states *)
(* add up instead of multiplying.                                          *)
(***************************************************************************)
EXTENDS Buffer, StrShare, GZip, Format, Cookie, Binascii, Digest

Number10(v, z, w, b) == [type |-> "number", value |-> v, zero |-> z, width |-> w, base |-> b]
Float(v, w, f) == [type |-> "float", value |-> v, zero |-> " ", width |-> w, frac_width |-> f]
Text(s) == [type |-> "text", text |-> s]

\* signs, widths below and above the digits, fractions that round up to the next
\* whole number
Directives ==
    {Text(<<>>), Text(<<"x", "y">>)}
    \cup {Number10(v, z, w, b) : v \in {-31, 0, 9, 255}, z \in {" ", "0"}, w \in {0, 3}, b \in {10, 16}}
    \cup {Float(v, w, f) : v \in {-199, 0, 7, 1996}, w \in {0, 3}, f \in 0..2}

\* accepted and refused parts, fields and files, values like delimiters
FormParts ==
    {[disp |-> d, name |-> n, filename |-> f, value |-> v, bare |-> b] :
        d \in {"form-data", "attachment"}, n \in {nullstr, <<"a">>, <<"1">>}, f \in {nullstr, <<"a">>},
        v \in {<<>>, <<"--", "a">>, <<"\r", "\n">>}, b \in BOOLEAN}

SomeSymbols ==
    [str     |-> {",", "a", "b"},
     lines   |-> {"\r", "\n", "a"},
     number  |-> {"0", "1", "9", "-"},
     format  |-> Directives,
     url     |-> {"http", "G", "1", ":", "/", "?", "#"},
     path    |-> {"a", "/", ".", "?", "#"},
     query   |-> {"?", "&", "=", "k", "#"},
     netloc  |-> {":", "@", "1", "u", "[", "]"},
     name    |-> {"a", "A", "-", "1", ":"},
     headers |-> {"a", "A", ":", " ", "\n", "-"},
     param   |-> {"a", "\\", "\"", ";", "="},
     form    |-> FormParts,
     cookie  |-> {"a", "1", " ", ";", ",", "\"", "\\", "="},
     bytes   |-> {0, 255, 129},
     base64  |-> {0, 21, 32, Pad, Blank},
     digest  |-> 0..9]

SomeLengths ==
    [str |-> 6, lines |-> 6, number |-> 6, format |-> 2, url |-> 5, path |-> 6, query |-> 6,
     netloc |-> 5, name |-> 5, headers |-> 5, param |-> 5, form |-> 2, cookie |-> 5,
     bytes |-> 5, base64 |-> 6, digest |-> 3]

Lowered  == "A" :> "a" @@ "G" :> "g" @@ "Path" :> "path"
Uppered  == "a" :> "A"
Spaces   == {" ", "\r", "\n"}
Schemes  == {<<"http">>}
Scheming == {"http", "G", "g", "1", "a", "."}
Ordered  == "?" :> 0 @@ "1" :> 1 @@ "A" :> 2 @@ "a" :> 3 @@ "k" :> 4 @@ "o" :> 5 @@ "#" :> 6
            @@ "expires" :> 7 @@ "path" :> 8 @@ "secure" :> 9
Legal    == {"a", "o", "1"}
Matching == {"a", "o", "1", "=", ",", "path", "Path", "expires", "secure", "$"}
Octals   == "," :> <<"0", "5", "4">> @@ ";" :> <<"0", "7", "3">> @@ "\n" :> <<"0", "1", "2">>
Attributes == <<"expires">> :> <<"expires">> @@ <<"path">> :> <<"Path">>
              @@ <<"secure">> :> <<"secure">>
-----------------------------------------------------------------------------
Init == BufferInit /\ ShareInit /\ GZipInit /\ InputInit

Next ==
    \/ ShareInit /\ GZipInit /\ InputInit /\ BufferNext
                 /\ UNCHANGED <<shareVars, gzipVars, inputVars>>
    \/ BufferInit /\ GZipInit /\ InputInit /\ ShareNext
                  /\ UNCHANGED <<bufferVars, gzipVars, inputVars>>
    \/ BufferInit /\ ShareInit /\ InputInit /\ GZipNext
                  /\ UNCHANGED <<bufferVars, shareVars, inputVars>>
    \/ BufferInit /\ ShareInit /\ GZipInit /\ InputNext
                  /\ UNCHANGED <<bufferVars, shareVars, gzipVars>>

Spec == Init /\ [][Next]_<<bufferVars, shareVars, gzipVars, inputVars>>
-----------------------------------------------------------------------------
\* What comments of the library promise of url_join, url_concat, multipart forms,
\* the quoting of cookies and signatures: each part quotes its own.
LibraryKeepsItsWord ==
    JoinKeepsBase /\ ConcatAddsQuery /\ FormHasItsNames /\ QuotingIsTwoWay /\ KeyIsPadded
=============================================================================
