------------------------------- MODULE MCSite -------------------------------
(* Instances of Site for TLC. *)
EXTENDS Site

\* A cell of a fresh vector, and whatever a cell may hold.
Nul == Unit(0, "nul", 0)
Units == [req : 0..MaxRequests, part : 0..2,
          line : {"nul", "body", "junk"} \cup UNION {ToSet(Lines(k)) : k \in Kinds}]

MCKeyOrder == <<<<"a">>, <<"b">>, <<"c">>, <<"d">>>>
MCRegistry == {<<"static">>, <<"login">>, <<"getUserById">>, <<"getProductByName">>, <<"api">>}
MCWebFiles == {<<"/index.html">>, <<"/static/", "page">>, <<"/secret">>}
MCUnreadable == {<<"/secret">>}
MCNumbers == {"7", "8"}
MCNames == {"page"}
MCPaths == {<<"/index.html">>, <<"/users/", "7">>, <<"/users/", "page">>, <<"/.well-known">>}

Entry(key, value) == <<key, " ", "=", " ">> \o value
Route(method, path, handler) == <<method, ",", " ">> \o path \o <<",", " ", handler>>
Header(name) == <<"[", name, "]">>
Users == <<"/users/", "(\\d+)">>
AnyUser == <<"/users/", ".*">>
\* Lines a server.ini may hold, in any order.
FileLines ==
    {Header("routes"), <<"[", " ", "]">>, Header("ssl"),
     Entry("a", Route("GET", <<"/index.html">>, "static")),
     Entry("b", Route("GET", <<"/index.html">>, "api") \o <<" ", ";", "=", ",">>),
     Entry("b", Route("GET", Users, "getUserById")),
     Entry("a", Route("GET", AnyUser, "static")),
     Entry("c", Route("POST", <<"/users/", "(\\d{1", ",", "3})">>, "api")),
     Entry("c", Route("GET", <<"/users/", "(\\d{1">>, "static")),
     <<" ", ";", "d", "=">> \o Route("GET", Users, "static"),
     <<"=", "GET">>, <<" ">>, <<"d">>}
Orders ==
    UNION {[1..n -> FileLines] : n \in 0..3}
        \cup {<<Header("routes")>> \o f : f \in [1..3 -> FileLines]}

SiteLines ==
    <<Header("routes"), Entry("d", Route("GET", <<".*">>, "static")),
      Entry("a", Route("GET", Users, "getUserById")), Entry("b", Route("POST", <<"/login">>, "login")),
      Entry("c", Route("GET", <<"/products/", "([a-zA-Z0-9_-]+)">>, "getProductByName"))>>
SiteRequests ==
    {<<"get", <<"/users/", "7">>>>, <<"get", <<"/products/", "page">>>>,
     <<"close", <<"/secret">>>>, <<"post2", <<"/login">>>>,
     <<"nan", <<"/login">>>>, <<"badheader", <<>>>>}
MCFiles == Orders \cup {SiteLines}
MCRequests == [f \in {SiteLines} |-> SiteRequests]
=============================================================================
