---------------------------- MODULE MCLinkWriters ---------------------------
(* LinkWriters for TLC: the URLs and files that are sent. *)
EXTENDS LinkWriters, TLC

URL(scheme, host, path, query, fragment) ==
    [scheme |-> scheme, host |-> host, rest |-> "", path |-> path,
     query |-> query, fragment |-> fragment]

P(k, v) == [key |-> k, value |-> v]

\* A blank is always escaped; the escapes of tilde and slash are never written,
\* and never changed in a path that is printed as it came.
Spellings == {"/", "%2F", "~", "%7E", " ", "%20"}

DefaultSpelling ==
    [c \in Spellings |-> CASE c = "%2F" -> "/" [] c = "%7E" -> "~"
                           [] c = " " -> "%20" [] OTHER -> c]

KeptSpellings == Spellings \ {" "}

URLs == {
    URL("http", "host", <<"/", "~">>, <<P(1, "x"), P(1, "z"), P(2, "y")>>, FALSE),
    URL("HTTP", "HOST", <<"/", "~", "/", "/">>, <<P(2, "y"), P(1, "x"), P(1, "z")>>, TRUE),
    URL("http", "host", <<"/", "%7E", "/">>, <<P(1, "x"), P(2, "y"), P(1, "z")>>, FALSE),
    URL("http", "host", <<"/", "~", " ">>, <<P(1, "z"), P(1, "x")>>, FALSE),
    URL("ftp", "host", <<"/">>, <<>>, FALSE)}

CSVFiles == {<<"blank", "url", "url">>, <<"url", "bad", "url">>}

Symmetry ==
    Permutations(Users) \cup Permutations(Signups) \cup Permutations(Links)
        \cup Permutations(Codes) \cup Permutations(Writers)

=============================================================================
