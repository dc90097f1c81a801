---------------------------- MODULE NormaliseURL ----------------------------
(* NormaliseURL of internal/util/url.go on parsed URLs. A path is a sequence *)
(* of spellings of octets ("~", "%7E" and "%7e" spell one octet), a query a  *)
(* sequence of keys with their values, a key a number, as keys have an order. *)
EXTENDS Naturals, Sequences, FiniteSets, SequencesExt

CONSTANTS
    Chars,     \* the spellings of octets that a path may have
    Default,   \* how net/url spells the octet that a spelling stands for
    Kept       \* the spellings that u.String may print as they came

\* An octet is named by its default spelling. An encoded slash is an octet like
\* any other to net/url, which spells it "/".
ASSUME CharsAssumption ==
    /\ "/" \in Chars /\ Default["/"] = "/"
    /\ Kept \subseteq Chars /\ Default \in [Chars -> Kept]
    /\ \A c \in Chars : Default[Default[c]] = Default[c]

\* What url.Parse makes of a URL with a scheme: its path is empty, also if what
\* follows the scheme is opaque, or begins with a slash. "rest" is what no line
\* of NormaliseURL touches: the user, the opaque part, a question mark with
\* nothing behind it, the slashes of an empty host.
ParsedURL == [scheme : STRING, host : STRING, rest : STRING,
              path : {p \in Seq(Chars) : p # <<>> => p[1] = "/"},
              query : Seq([key : Nat, value : STRING]), fragment : BOOLEAN]

ToLower(s) == CASE s = "HTTP" -> "http" [] s = "HOST" -> "host" [] OTHER -> s

Supported(url) == ToLower(url.scheme) \in {"http", "https"}

\* u.Path: net/url keeps a path decoded, and beside it, in RawPath, the text it
\* was decoded from.
Decoded(path) == [i \in DOMAIN path |-> Default[path[i]]]

\* strings.TrimRight(path, "/").
TrimRight(path) ==
    SubSeq(path, 1, CHOOSE n \in 0..Len(path) :
        /\ n > 0 => path[n] # "/"
        /\ \A i \in (n + 1)..Len(path) : path[i] = "/")

\* Only Path loses its slashes. u.String prints RawPath if that still decodes to
\* Path and has nothing in it that must be escaped, else Path, encoded anew.
NormalPath(path) ==
    LET decoded == Decoded(path)
        trimmed == IF Len(decoded) > 1 THEN TrimRight(decoded) ELSE decoded
    IN  IF trimmed = decoded /\ \A i \in DOMAIN path : path[i] \in Kept
        THEN path ELSE trimmed

\* Values.Encode: by key, the values of a key in their order.
NotAfter(query, i) ==
    {j \in DOMAIN query : \/ query[j].key < query[i].key
                          \/ query[j].key = query[i].key /\ j <= i}

SortedQuery(query) ==
    [n \in DOMAIN query |->
        query[CHOOSE i \in DOMAIN query : Cardinality(NotAfter(query, i)) = n]]

\* Bug: only one slash is cut off.
NormaliseCutOne(url) ==
    [scheme |-> ToLower(url.scheme), host |-> ToLower(url.host), rest |-> url.rest,
     path |-> IF Len(url.path) > 1 /\ Last(url.path) = "/" THEN Front(url.path) ELSE url.path,
     query |-> SortedQuery(url.query), fragment |-> FALSE]

Normalise(url) ==
    [scheme |-> ToLower(url.scheme), host |-> ToLower(url.host), rest |-> url.rest,
     path |-> NormalPath(url.path), query |-> SortedQuery(url.query),
     fragment |-> FALSE]

-----------------------------------------------------------------------------
(* The reference.                                                           *)

\* The path names something, or it is empty or the root.
Named(url) ==
    Len(url.path) > 1 => \E i \in DOMAIN url.path : Default[url.path[i]] # "/"

\* And it is spelled the way net/url spells it: no needless escape, no encoded
\* slash, nothing that ought to be escaped.
Plain(url) ==
    Named(url) /\ \A i \in DOMAIN url.path : Default[url.path[i]] = url.path[i]

\* q is p, or p with slashes at its end.
Slashed(p, q) ==
    \/ p = q
    \/ /\ Len(p) > 1
       /\ IsPrefix(p, q)
       /\ \A i \in (Len(p) + 1)..Len(q) : q[i] = "/"

\* q has the pairs of p, those of one key in their order.
Reordered(p, q) ==
    \E place \in Bijection(DOMAIN p, DOMAIN q) :
        /\ \A i \in DOMAIN p : q[place[i]] = p[i]
        /\ \A i, j \in DOMAIN p : p[i].key = p[j].key /\ i < j => place[i] < place[j]

\* Two spellings of one address: the case of scheme and host, slashes at the
\* end, escapes, the order of the keys and the fragment do not matter. As to
\* u.Path, an encoded slash is a slash: "/a%2Fb/", stored as "/a/b", is that.
SameAddress(u, v) ==
    /\ ToLower(u.scheme) = ToLower(v.scheme)
    /\ ToLower(u.host) = ToLower(v.host)
    /\ u.rest = v.rest
    /\ LET p == Decoded(u.path)
           q == Decoded(v.path)
       IN  Slashed(p, q) \/ Slashed(q, p)
    /\ Reordered(u.query, v.query)

=============================================================================
