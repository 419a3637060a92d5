------------------------------- MODULE HTTPUtil -------------------------------
(***************************************************************************)
(* core/httputil.cc: header fields and the bodies of requests.  A symbol   *)
(* is a character or a word such as "Content-Disposition".                 *)
(***************************************************************************)
EXTENDS URLLib

CONSTANTS UpperOf,   \* the upper case of the letters that have one
          Space      \* the characters of isspace

ASSUME HTTPUtilAssumption == {"\r", "\n"} \subseteq Space

EOL == <<"\r", "\n">>
-----------------------------------------------------------------------------
(* HTTPHeaders: a map from normalized names.                               *)

Upper == {UpperOf[c] : c \in DOMAIN UpperOf}
Lower == DOMAIN UpperOf
Digit == DigitSet

\* normalized_header_re_
Normalized(name) ==
    /\ name # <<>> /\ Last(name) # "-"
    /\ \A i \in DOMAIN name :
          IF i = 1 \/ name[i - 1] = "-" THEN name[i] \in Upper \cup Digit
          ELSE name[i] \in Lower \cup Digit \cup {"-"}

normalize_name(name) ==
    IF Normalized(name) THEN name ELSE CapitalizeEach(name, "-", LowerOf, UpperOf)

HeadersAdd(map, name, value) ==
    LET norm == normalize_name(name)
    IN  IF norm \in DOMAIN map THEN [map EXCEPT ![norm] = @ \o <<",">> \o value]
        ELSE map @@ (norm :> value)

HeadersSet(map, name, value) == (normalize_name(name) :> value) @@ map
HeadersHas(map, name)        == normalize_name(name) \in DOMAIN map
HeadersGet(map, name, deft)  == IF HeadersHas(map, name) THEN map[normalize_name(name)] ELSE deft

\* the lines that start with a space belong to the line before them
Unfold(lines) ==
    LET folds(i) == i > 1 /\ lines[i] # <<>> /\ lines[i][1] \in Space /\ lines[i - 1] # <<>>
    IN  FoldLeft(LAMBDA done, i : IF folds(i) THEN Append(Front(done), Last(done) \o lines[i])
                                  ELSE Append(done, lines[i]),
                 <<>>, [i \in DOMAIN lines |-> i])

HeadersParse(s) ==
    LET pairs == [i \in DOMAIN Unfold(SplitLines(s)) |->
                     SplitPair(Unfold(SplitLines(s))[i], <<":">>)]
    IN  FoldLeft(LAMBDA map, kv : IF kv[2] = nullstr THEN map
                                  ELSE HeadersAdd(map, kv[1], Strip(kv[2], Space)),
                 <<>>, pairs)
-----------------------------------------------------------------------------
(* Header values with parameters.                                          *)

\* mutant: an escaped quote counts as a quote
ParamEndsInQuote(s) ==
    LET ends == {e \in 0..(Len(s) - 1) :
                    s[e + 1] = ";" /\ (e = 0 \/ Count(Sub(s, 0, e), <<"\"">>) % 2 = 0)}
    IN  Min(ends \cup {Len(s)})

\* the first ; that is not quoted, or at the very start
_parse_param(s) ==
    LET quotes(e) == Count(Sub(s, 0, e), <<"\"">>) - Count(Sub(s, 0, e), <<"\\", "\"">>)
        ends == {e \in 0..(Len(s) - 1) : s[e + 1] = ";" /\ (e = 0 \/ quotes(e) % 2 = 0)}
    IN  Min(ends \cup {Len(s)})

\* name=value, without the quotes; nothing when there is no =
Param(p) ==
    LET kv     == SplitPair(p, <<"=">>)
        value  == Strip(kv[2], Space)
        quoted == Len(value) >= 2 /\ value[1] = "\"" /\ Last(value) = "\""
        inner  == Replace(Replace(Sub(value, 1, Len(value) - 1), <<"\\", "\\">>, <<"\\">>),
                          <<"\\", "\"">>, <<"\"">>)
    IN  IF kv[2] = nullstr THEN <<>>
        ELSE Translate(Strip(kv[1], Space), LowerOf) :> (IF quoted THEN inner ELSE value)

\* the value of the header; its parameters are inserted into dict, where what is
\* there stays
_parse_header(line, dict) ==
    LET from[i \in 0..Len(line)] ==
           IF i = Len(line) THEN <<>>
           ELSE LET pos == _parse_param(From(line, i + 1))
                IN  Param(Sub(line, i + 1, i + 1 + pos)) @@ from[i + 1 + pos]
    IN  [key |-> Sub(line, 0, _parse_param(line)), dict |-> dict @@ from[_parse_param(line)]]
-----------------------------------------------------------------------------
(* Bodies.                                                                 *)

Overrun == "overrun"   \* a value whose length has become negative

\* behind the head of a part and before the line end at its end
PartValue(part, eoh) ==
    IF eoh + 4 > Len(part) - 2 THEN Overrun ELSE Sub(part, eoh + 4, Len(part) - 2)

\* a file, or another field
Entered(got, params, value, ctype) ==
    LET name == params[<<"name">>]
        file == [filename |-> params[<<"filename">>], body |-> value, content_type |-> ctype]
    IN  IF <<"filename">> \in DOMAIN params
        THEN [got EXCEPT !.params = <<>>, !.files = QueryAdd(@, <<name, file>>)]
        ELSE [got EXCEPT !.params = <<>>, !.arguments = QueryAdd(@, <<name, value>>)]

\* a part that is refused leaves its parameters
Disposed(got, part, disp, value, ctype) ==
    IF disp.key # <<"form-data">> \/ ~EndsWith(part, EOL) \/ <<"name">> \notin DOMAIN disp.dict
    THEN [got EXCEPT !.params = disp.dict]
    ELSE Entered(got, disp.dict, value, ctype)

Field(got, part) ==
    LET eoh     == Find(part, EOL \o EOL)
        headers == HeadersParse(Sub(part, 0, eoh))
    IN  IF part = <<>> \/ eoh = NotFound THEN got
        ELSE Disposed(got, part,
                      _parse_header(HeadersGet(headers, <<"Content-Disposition">>, <<>>), got.params),
                      PartValue(part, eoh),
                      HeadersGet(headers, <<"Content-Type">>, <<"application/unknown">>))

\* an empty boundary throws
parse_multipart_form_data(boundary, data, arguments, files) ==
    LET quoted == boundary[1] = "\"" /\ Last(boundary) = "\""
        mark   == <<"--">> \o (IF quoted THEN Sub(boundary, 1, Len(boundary) - 1) ELSE boundary)
        final  == RFind(data, mark \o <<"--">>)
        parts  == Split(Sub(data, 0, final), mark \o EOL)
        none   == [arguments |-> arguments, files |-> files, params |-> <<>>]
    IN  IF boundary = <<>> THEN Throws
        ELSE IF final = NotFound THEN none
        ELSE FoldLeft(Field, none, parts)

parse_body_arguments(content_type, body, arguments, files) ==
    LET fields == [i \in DOMAIN Split(content_type, <<";">>) |->
                      SplitPair(Strip(Split(content_type, <<";">>)[i], Space), <<"=">>)]
        named  == {i \in DOMAIN fields : fields[i][1] = <<"boundary">> /\ fields[i][2] # nullstr}
        kept   == [arguments |-> arguments, files |-> files, params |-> <<>>]
    IN  IF StartsWith(content_type, <<"application/x-www-form-urlencoded">>)
        THEN [kept EXCEPT !.arguments = parse_extend(arguments, body)]
        ELSE IF StartsWith(content_type, <<"multipart/form-data">>) /\ named # {}
             THEN parse_multipart_form_data(fields[Min(named)][2], body, arguments, files)
        ELSE kept
-----------------------------------------------------------------------------
(* Correctness.                                                            *)

Fold(name) == Translate(name, LowerOf)

\* One header however its name is written: names that differ only in case have one
\* normalized name, which is its own.
NamesFold ==
    /\ normalize_name(Fold(text)) = normalize_name(text)
    /\ normalize_name(normalize_name(text)) = normalize_name(text)

\* Headers that are written as name:value lines and parsed again are the same
\* headers, what was repeated or folded in one value; and a line may be folded
\* before any of its characters.
HeadersAreKept ==
    LET map   == HeadersParse(text)
        names == SetToSeq(DOMAIN map)
        lines == [i \in DOMAIN names |-> names[i] \o <<":">> \o map[names[i]] \o EOL]
    IN  /\ (\A name \in DOMAIN map : name = <<>> \/ name[1] \notin Space) =>
              HeadersParse(FlattenSeq(lines)) = map
        /\ Len(SplitLines(text)) = 1 =>
              \A i \in 1..(Len(SplitLines(text)[1]) - 1) :
                 HeadersParse(Sub(text, 0, i) \o EOL \o <<" ">> \o From(text, i))
                    = HeadersParse(Sub(text, 0, i) \o <<" ">> \o From(text, i))

\* the value of a parameter as a sender quotes it
Quote(value) == <<"\"">> \o FlattenSeq([i \in DOMAIN value |->
                   IF value[i] \in {"\"", "\\"} THEN <<"\\", value[i]>> ELSE <<value[i]>>]) \o <<"\"">>

\* A quoted parameter is read as it was quoted, whatever quotes and ; are in it, and
\* the parameters behind it are found: unless it ends with a backslash, whose
\* closing quote is then taken for an escaped one.
ParamsAreRead ==
    text = <<>> \/ Last(text) # "\\" =>
       _parse_header(<<"k", ";", " ", "n", "=">> \o Quote(text) \o <<";", "m", "=", "1">>, <<>>)
          = [key |-> <<"k">>, dict |-> <<"n">> :> text @@ <<"m">> :> <<"1">>]

\* a part of a form as it is sent; bare parts lack the line end behind the value
PartText(p) ==
    <<"--", "B">> \o EOL \o <<"Content-Disposition", ":", p.disp>>
    \o (IF p.name = nullstr THEN <<>> ELSE <<";", "name", "=">> \o Quote(p.name))
    \o (IF p.filename = nullstr THEN <<>> ELSE <<";", "filename", "=">> \o Quote(p.filename))
    \o EOL \o EOL \o p.value \o (IF p.bare THEN <<>> ELSE EOL)

\* A part is taken for a field when it is form data and has a line end behind it,
\* which a bare part takes from its value; it should have a name.
Taken(p)    == p.disp = "form-data" /\ (p.bare => EndsWith(p.value, EOL))
Accepted(p) == Taken(p) /\ p.name # nullstr
Value(p)    == IF p.bare THEN Sub(p.value, 0, Len(p.value) - 2) ELSE p.value

\* a part without value or line end: the code takes the line end before it for the
\* one behind, and the length of its value is below 0
Overruns(p) == p.disp = "form-data" /\ p.bare /\ p.value = <<>>

\* what is read of the form that text is, and what of it is to be read
FormGot ==
    parse_body_arguments(<<"multipart/form-data", ";", " ", "boundary", "=", "B">>,
        FlattenSeq([i \in DOMAIN text |-> PartText(text[i])]) \o <<"--", "B", "--">>, <<>>, <<>>)

Fields == FoldLeft(LAMBDA q, p : QueryAdd(q, <<p.name, Value(p)>>), <<>>,
                   SelectSeq(text, LAMBDA p : Accepted(p) /\ p.filename = nullstr))
Files  ==
    LET file(p) == [filename |-> p.filename, body |-> Value(p),
                    content_type |-> <<"application/unknown">>]
    IN  FoldLeft(LAMBDA q, p : QueryAdd(q, <<p.name, file(p)>>), <<>>,
                 SelectSeq(text, LAMBDA p : Accepted(p) /\ p.filename # nullstr))

\* how often v is a value of what was read
Times(got, v) == Cardinality({i \in DOMAIN got.arguments : got.arguments[i][2] = v})
                    + Cardinality({i \in DOMAIN got.files : got.files[i][2].body = v})

\* The fields of a multipart body are those that were sent, in any order, with
\* repeated names, and with line ends and dashes in the values, when every part is
\* accepted.  A part that is refused costs no other its value, and adds none.  Of
\* names behind a refused part this says nothing (FormHasItsNames), and nothing at
\* all of forms with a part that overruns.
FormIsRead ==
    (\A i \in DOMAIN text : ~Overruns(text[i])) =>
       /\ (\A i \in DOMAIN text : Accepted(text[i])) =>
             FormGot.arguments = Fields /\ FormGot.files = Files
       /\ \A v \in {Value(text[i]) : i \in DOMAIN text} :
             LET count(Is(_)) ==
                    Cardinality({i \in DOMAIN text : Is(text[i]) /\ Value(text[i]) = v})
             IN  Times(FormGot, v) \in count(Accepted)..count(Taken)

\* The comment in httputil.h, "The arguments and files parameters will be updated
\* with the contents of the body", of forms with refused parts: each of the others
\* is under its own name.  The parameters of a refused part are still there, and
\* stand for those of the next.
FormHasItsNames ==
    kind = "form" /\ (\A i \in DOMAIN text : ~Overruns(text[i])) =>
       FormGot.arguments = Fields /\ FormGot.files = Files

\* What a request says is what the code reads: names, headers, parameters of
\* headers, and the fields of a form, each read back from how a sender writes it.
RequestsAreRead ==
    /\ kind = "name" => NamesFold
    /\ kind = "headers" => HeadersAreKept
    /\ kind = "param" => ParamsAreRead
    /\ kind = "form" => FormIsRead
=============================================================================
