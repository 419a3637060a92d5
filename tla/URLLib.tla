-------------------------------- MODULE URLLib --------------------------------
(***************************************************************************)
(* lib/urllib.cc: splitting, writing and joining URLs, and the queries.    *)
(* A symbol of a URL is a character or a word of letters.                  *)
(***************************************************************************)
EXTENDS Str

CONSTANTS LowerOf,       \* the lower case of the letters that have one
          SchemeChars,   \* letters, digits, +, - and .
          UsesRelative,  \* schemes whose URLs may be relative,
          UsesNetloc,    \* and schemes whose URLs have a netloc
          MaxPort,       \* the largest port
          Order          \* order of the symbols, for the keys of a query

ASSUME URLAssumption == MaxPort \in Nat

Throws == <<"out_of_range">>   \* from operator[]

Slashes == <<"/", "/">>
-----------------------------------------------------------------------------
(* URL.                                                                    *)

\* where the netloc at start ends
split_netloc(url, start) ==
    Min({Len(url)} \cup ({FindIn(url, <<c>>, start, Len(url)) : c \in {"/", "?", "#"}}
                           \ {NotFound}))

\* what stands before and behind the first c
Cut(s, c) == IF Has(s, c) THEN SplitPair(s, <<c>>) ELSE <<s, <<>>>>

\* path, query and fragment
CutQuery(s, fragment) == [path |-> Cut(s, "?")[1], query |-> Cut(s, "?")[2],
                          fragment |-> fragment]
CutPath(s) == CutQuery(Cut(s, "#")[1], Cut(s, "#")[2])

\* what stands behind the scheme
Local(scheme, url) ==
    LET j == IF StartsWith(url, Slashes) THEN split_netloc(url, 2) ELSE 0
    IN  [scheme |-> scheme, netloc |-> IF j > 0 THEN Sub(url, 2, j) ELSE <<>>]
        @@ CutPath(From(url, j))

\* word:rest has a scheme when word can be one and rest is no port
Named(word, rest) ==
    /\ word # <<>>
    /\ \/ word = <<"http">>
       \/ AllIn(word, SchemeChars) /\ ~(rest # <<>> /\ AllIn(rest, DigitSet))

URLsplit(url) ==
    LET at == SplitPair(url, <<":">>)
    IN  IF Has(url, ":") /\ Named(at[1], at[2])
        THEN Local(Translate(at[1], LowerOf), at[2])
        ELSE Local(<<>>, url)

unsplit(u) ==
    LET opt(mark, s) == IF s = <<>> THEN <<>> ELSE <<mark>> \o s
        rooted == IF u.path # <<>> /\ u.path[1] # "/" THEN <<"/">> \o u.path ELSE u.path
        local  == \/ u.netloc # <<>>
                  \/ u.scheme \in UsesNetloc /\ ~StartsWith(u.path, Slashes)
    IN  (IF u.scheme = <<>> THEN <<>> ELSE u.scheme \o <<":">>)
        \o (IF local THEN Slashes \o u.netloc \o rooted ELSE u.path)
        \o opt("?", u.query) \o opt("#", u.fragment)

\* username, password, host and port (-1: none that is valid), read from the
\* netloc when one is first asked for
get_uphp(netloc) ==
    LET i    == RFind(netloc, <<"@">>)
        user == IF i = NotFound THEN <<nullstr, nullstr>>
                ELSE LET j == FindIn(netloc, <<":">>, 0, i)
                     IN  IF j = NotFound THEN <<Sub(netloc, 0, i), nullstr>>
                         ELSE <<Sub(netloc, 0, j), Sub(netloc, j + 1, i)>>
        hp   == SplitPair(From(netloc, i + 1), <<":">>)
        host == hp[1]
        port == IF hp[2] = nullstr THEN -1 ELSE ToInt(hp[2])
        literal == Len(host) >= 2 /\ host[1] = "[" /\ At(host, -1) = "]"
    IN  [username |-> user[1], password |-> user[2],
         host |-> IF literal THEN Sub(host, 1, Len(host) - 1) ELSE host,
         port |-> IF port > 0 /\ port <= MaxPort THEN port ELSE -1]
-----------------------------------------------------------------------------
(* Query: a multimap, here the sequence of its pairs in the order of keys. *)

QueryAdd(query, kv) ==
    LET n == Cardinality({i \in DOMAIN query : ~StrLess(kv[1], query[i][1], Order)})
    IN  SubSeq(query, 1, n) \o <<kv>> \o SubSeq(query, n + 1, Len(query))

\* pairs without a value are dropped
parse_extend(query, s) ==
    IF s = nullstr THEN query
    ELSE LET pairs == [i \in DOMAIN Split(s, <<"&">>) |-> SplitPair(Split(s, <<"&">>)[i], <<"=">>)]
         IN  FoldLeft(QueryAdd, query, SelectSeq(pairs, LAMBDA kv : kv[2] \notin {nullstr, <<>>}))

QueryParse(s) == parse_extend(<<>>, s)

QueryEncode(query) ==
    IF query = <<>> THEN nullstr
    ELSE Join(<<"&">>, [i \in DOMAIN query |-> query[i][1] \o <<"=">> \o query[i][2]])

url_concat(url, query) ==
    LET qs == IF query = <<>> THEN <<>> ELSE QueryEncode(query)
    IN  IF url = <<>> THEN Throws
        ELSE IF Last(url) \in {"?", "&"} THEN url \o qs
        ELSE url \o (IF Has(url, "?") THEN <<"&">> ELSE <<"?">>) \o qs
-----------------------------------------------------------------------------
(* url_join.                                                               *)

Dot  == <<".">>
Dots == <<".", ".">>

\* mutant: the first segment is never taken back
ClimbFrom2(segments) ==
    LET at(segs) == {i \in 3..(Len(segs) - 1) : segs[i] = Dots /\ segs[i - 1] \notin {<<>>, Dots}}
        climb[n \in 0..Len(segments)] ==
            IF n = 0 THEN segments
            ELSE LET before == climb[n - 1]
                 IN  IF at(before) = {} THEN before
                     ELSE SubSeq(before, 1, Min(at(before)) - 2)
                          \o SubSeq(before, Min(at(before)) + 1, Len(before))
    IN  climb[Len(segments)]

\* the loop that removes "..", with the segment before it, but not at the end
Climb(segments) ==
    LET at(segs) == {i \in 2..(Len(segs) - 1) : segs[i] = Dots /\ segs[i - 1] \notin {<<>>, Dots}}
        climb[n \in 0..Len(segments)] ==
            IF n = 0 THEN segments
            ELSE LET before == climb[n - 1]
                 IN  IF at(before) = {} THEN before
                     ELSE SubSeq(before, 1, Min(at(before)) - 2)
                          \o SubSeq(before, Min(at(before)) + 1, Len(before))
    IN  climb[Len(segments)]

\* the path of url seen from the path of base
JoinPaths(base, path) ==
    LET all   == Front(Split(base, <<"/">>)) \o Split(path, <<"/">>)
        ended == IF Last(all) = Dot THEN Append(Front(all), <<>>) ELSE all
        segs  == Climb(SelectSeq(ended, LAMBDA s : s # Dot))
        n     == Len(segs)
    IN  Join(<<"/">>, IF n >= 2 /\ segs[n] = Dots
                      THEN IF n = 2 /\ segs[1] = <<>> THEN <<<<>>, <<>>>>
                           ELSE Append(SubSeq(segs, 1, n - 2), <<>>)
                      ELSE segs)

\* under the netloc of b; u.path_[0] is read before the path is found empty
JoinUnder(b, u) ==
    IF u.path = <<>> THEN Throws
    ELSE IF u.path[1] = "/" THEN unsplit(u)
    ELSE unsplit([u EXCEPT !.path = JoinPaths(b.path, @)])

\* u, the parts of url, has the scheme of b if it has none of its own
JoinParts(url, b, u) ==
    IF u.scheme # b.scheme \/ u.scheme \notin UsesRelative THEN url
    ELSE IF u.scheme \notin UsesNetloc THEN JoinUnder(b, u)
    ELSE IF u.netloc # <<>> THEN unsplit(u)
    ELSE JoinUnder(b, [u EXCEPT !.netloc = b.netloc])

url_join(base, url) ==
    LET b == URLsplit(base)
    IN  IF base = <<>> THEN url
        ELSE IF url = <<>> THEN base
        ELSE JoinParts(url, b, [URLsplit(url) EXCEPT !.scheme = IF @ = <<>> THEN b.scheme ELSE @])
-----------------------------------------------------------------------------
(* Correctness.                                                            *)

\* the URLs whose parts cannot be read back: a path that starts with "//" under no
\* netloc, which becomes one, and one number behind a scheme, which becomes its port
Ambiguous(u) ==
    /\ u.netloc = <<>>
    /\ \/ StartsWith(u.path, Slashes)
       \/ /\ u.scheme \notin UsesNetloc \cup {<<>>}
          /\ u.query = <<>> /\ u.fragment = <<>>
          /\ u.path # <<>> /\ AllIn(u.path, DigitSet)

\* A URL that is split, written and split again has the same parts, whatever of it
\* is empty: no delimiter moves into the netloc, the query or the fragment, and no
\* path becomes a scheme.  Only a path without its first "/" gets one.
PartsAreKept(u) ==
    LET local == u.scheme \in UsesNetloc \/ u.netloc # <<>>
    IN  ~Ambiguous(u) =>
           URLsplit(unsplit(u)) \in
              {u} \cup (IF local THEN {[u EXCEPT !.path = <<"/">> \o u.path]} ELSE {})

\* The parts of a netloc: the host holds none of the separators, and user, host and
\* port written again name the same parts, the host in brackets or bare: but for a
\* host that still has brackets around it, which must be written in brackets.
NetlocIsRead(n) ==
    LET user == IF n.username = nullstr THEN <<>>
                ELSE n.username \o (IF n.password = nullstr THEN <<>> ELSE <<":">> \o n.password)
                     \o <<"@">>
        port == IF n.port = -1 THEN <<>> ELSE <<":">> \o FromInt(n.port)
        bracketed == Len(n.host) >= 2 /\ n.host[1] = "[" /\ Last(n.host) = "]"
    IN  /\ ~Has(n.host, "@") /\ ~Has(n.host, ":")
        /\ get_uphp(user \o <<"[">> \o n.host \o <<"]">> \o port) = n
        /\ ~bracketed => get_uphp(user \o n.host \o port) = n

\* the pair k== is added to the query of the URL
ConcatAdds(url) ==
    QueryParse(URLsplit(url_concat(url, <<<<<<"k">>, <<"=">>>>>>)).query)
       = QueryAdd(QueryParse(URLsplit(url).query), <<<<"k">>, <<"=">>>>)

\* an & at the end is that of a query, a ? there starts one
EndsItsQuery(url) ==
    /\ url # <<>>
    /\ Last(url) = "&" => Has(url, "?")
    /\ Last(url) = "?" => Find(url, <<"?">>) = Len(url) - 1

\* A query that is parsed and written again is the same query, each name with its
\* values in their order; one added to a URL adds its pairs to those the URL has:
\* unless the URL has a fragment (ConcatAddsQuery), ends with "&" in its path or
\* with "?" in its query, or is empty, for which url[-1] throws.
QueryIsKept ==
    /\ parse_extend(<<>>, QueryEncode(QueryParse(text))) = QueryParse(text)
    /\ EndsItsQuery(text) /\ ~Has(text, "#") => ConcatAdds(text)

\* The comment in urllib.h, "Concatenate url and query regardless of whether url has
\* existing query parameters", of URLs with a fragment, too: url_concat writes the
\* query behind it, where it is a part of the fragment.
ConcatAddsQuery == kind = "query" /\ EndsItsQuery(text) => ConcatAdds(text)

\* the path of a base and of a relative URL resolved segment by segment: "." is
\* left out, ".." takes back the segment before it, or stays when there is none
Resolved(base, path) ==
    LET step(done, s) ==
           IF s = Dot THEN done
           ELSE IF s = Dots /\ done # <<>> /\ Last(done) \notin {<<>>, Dots} THEN Front(done)
           ELSE Append(done, s)
        segs == Front(Split(base, <<"/">>)) \o Split(path, <<"/">>)
        dir  == FoldLeft(step, <<>>, Front(segs))
        last == Last(segs)
    IN  Join(<<"/">>,
             CASE last = Dot -> Append(dir, <<>>)
               [] last = Dots /\ dir # <<>> ->
                     Append(IF dir = <<<<>>>> THEN dir ELSE Front(dir), <<>>)
               [] OTHER -> Append(dir, last))

Bases == {<<"http", ":", "/", "/", "g", "/", "a", "/", "a", "?", "1">>,
          <<"http", ":", "/", "/", "g">>}

\* A relative URL joined to an absolute one stays under the scheme and the netloc of
\* its base; its path is the base's path resolved segment by segment, however many
\* ".." it has and wherever they stand; its query
\* and its fragment are its own.  Of a URL without path
\* it says nothing (JoinKeepsBase).
JoinIs(joined, b, u) ==
    u.path # <<>> =>
       LET path == IF u.path[1] = "/" THEN u.path ELSE Resolved(b.path, u.path)
       IN  joined = unsplit([b EXCEPT !.path = path, !.query = u.query,
                                              !.fragment = u.fragment])

JoinResolves ==
    text # <<>> /\ ~StartsWith(text, Slashes) =>
       \A base \in Bases : JoinIs(url_join(base, text), URLsplit(base), URLsplit(text))

\* The comment in urllib.h, url_join "uses components of the base URL ... to provide
\* missing components in the relative URL", of one without path: the path and, if
\* there is none, the query are those of the base.  The code for it is there, but
\* u.path_[0] throws before it.
JoinKeepsBase ==
    kind = "path" /\ text # <<>> /\ URLsplit(text).path = <<>> =>
       \A base \in Bases :
          LET b == URLsplit(base)
              u == URLsplit(text)
          IN  u.netloc = <<>> =>
                 url_join(base, text)
                    = unsplit([b EXCEPT !.query = IF u.query = <<>> THEN @ ELSE u.query,
                                      !.fragment = u.fragment])

\* URLs, netlocs and queries keep their parts through split, unsplit, get_uphp,
\* parse_extend, encode and url_concat, and url_join resolves what is relative.
UrlsKeepTheirParts ==
    /\ kind = "url" => PartsAreKept(URLsplit(text))
    /\ kind = "netloc" => NetlocIsRead(get_uphp(text))
    /\ kind = "query" => QueryIsKept
    /\ kind = "path" => JoinResolves
=============================================================================
