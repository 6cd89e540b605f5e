------------------------------- MODULE Router -------------------------------
(***************************************************************************)
(* From server.ini to routes, and from a request to the answer of the      *)
(* handler its route leads to: Config::load, the loop over [routes] in     *)
(* main, HttpRouter and the handlers of handlers.cpp.  A text is a         *)
(* sequence of tokens: words, and the characters the code looks for.       *)
(***************************************************************************)
EXTENDS FiniteSetsExt, SequencesExt

CONSTANTS
    KeyOrder,     \* the names routes may have, in the order of std::map
    Registry,     \* the names of the handlers that are registered
    WebFiles,     \* the paths that lead to files,
    Unreadable,   \* and those of them that cannot be opened
    Numbers,      \* the tokens \d+ matches,
    Names         \* and the others [a-zA-Z0-9_-]+ matches

ASSUME KeyOrderAssumption ==
    /\ KeyOrder \in Seq(ToSet(KeyOrder))
    /\ \A i, j \in DOMAIN KeyOrder : KeyOrder[i] = KeyOrder[j] => i = j

VARIABLES
    file,       \* the lines of server.ini that are not read yet
    section,    \* current_section
    data,       \* data_: sections, their keys and values
    names,      \* the names of the routes that are not registered yet
    statics,    \* static_routes_: handlers by path and method
    regexes,    \* regex_routes_
    phase       \* "load", "register", "serve"

routerVars == <<file, section, data, names, statics, regexes, phase>>

RouterInit(lines) ==
    /\ file = lines /\ section = <<>> /\ data = <<>> /\ names = {}
    /\ statics = <<>> /\ regexes = <<>>
    /\ phase = "load"

-----------------------------------------------------------------------------
(* Config.                                                                 *)

Trim(s) ==
    LET solid == {i \in DOMAIN s : s[i] # " "} IN
    IF solid = {} THEN <<>> ELSE SubSeq(s, Min(solid), Max(solid))
FirstOf(s, chars) == Min({i \in DOMAIN s : s[i] \in chars} \cup {Len(s) + 1})
Before(s, chars) == SubSeq(s, 1, FirstOf(s, chars) - 1)
Behind(s, chars) == SubSeq(s, FirstOf(s, chars) + 1, Len(s))

Ignored(line) == IF line = <<>> THEN TRUE ELSE line[1] \in {";", "#"}
IsHeader(line) == line[1] = "[" /\ Last(line) = "]"
NameOf(line) == Trim(SubSeq(line, 2, Len(line) - 1))
KeyOf(line) == Trim(Before(line, {"="}))
ValueOf(line) == Trim(Behind(line, {"="}))
\* A line without a sign or without a key means nothing.
IsEntry(line) == "=" \in ToSet(line) /\ KeyOf(line) # <<>>
With(f, x, y) == [z \in DOMAIN f \cup {x} |-> IF z = x THEN y ELSE f[z]]
SectionOf(s) == IF s \in DOMAIN data THEN data[s] ELSE <<>>   \* getSection

ReadHeader(line) ==
    /\ section' = NameOf(line)
    /\ UNCHANGED data
\* Nor does one before the first header, or behind a header without a name.
ReadEntry(line) ==
    /\ data' = IF IsEntry(line) /\ section # <<>>
               THEN With(data, section, With(SectionOf(section), KeyOf(line), ValueOf(line)))
               ELSE data
    /\ UNCHANGED section
ReadLine ==
    /\ phase = "load" /\ file # <<>>
    /\ LET line == Trim(Head(file)) IN
       \/ Ignored(line) /\ UNCHANGED <<section, data>>
       \/ ~Ignored(line) /\ IsHeader(line) /\ ReadHeader(line)
       \/ ~Ignored(line) /\ ~IsHeader(line) /\ ReadEntry(line)
    /\ file' = Tail(file)
    /\ UNCHANGED <<names, statics, regexes, phase>>

-----------------------------------------------------------------------------
(* The routes.  std::regex is external: what is special, what compiles,    *)
(* what a pattern matches and captures.                                    *)

Groups == {"(\\d+)", "([a-zA-Z0-9_-]+)"}
Special == Groups \cup {".*", "(\\d{1", "3})"}
IsStatic(path) == ToSet(path) \cap Special = {}
Compiles(path) == ToSet(path) \cap Special \subseteq Groups \cup {".*"}

Fits(piece, token) ==
    CASE piece = "(\\d+)" -> token \in Numbers
      [] piece = "([a-zA-Z0-9_-]+)" -> token \in Numbers \cup Names
      [] piece = "." -> TRUE
      [] OTHER -> piece = token
\* A pattern with .* for n tokens.
Widened(pattern, n) ==
    FlattenSeq([i \in DOMAIN pattern |-> IF pattern[i] = ".*" THEN [j \in 1..n |-> "."] ELSE <<pattern[i]>>])
Readings(pattern, path) ==
    {p \in {Widened(pattern, n) : n \in 0..Len(path)} :
        Len(p) = Len(path) /\ \A i \in DOMAIN p : Fits(p[i], path[i])}
Matches(pattern, path) == Readings(pattern, path) # {}
Captured(pattern, path) ==
    LET p == CHOOSE p \in Readings(pattern, path) : TRUE
        groups == {i \in DOMAIN p : p[i] \in Groups}
    IN  [i \in 1..Cardinality(groups) |->
            path[CHOOSE g \in groups : Cardinality({h \in groups : h < g}) = i - 1]]

\* "METHOD, /path/pattern, handler_name", with a comment behind it.
RouteOf(value) ==
    LET text == Before(value, {";", "#"})
        behind == Behind(text, {","})
    IN  [method |-> Trim(Before(text, {","})), path |-> Trim(Before(behind, {","})),
         handler |-> Trim(Behind(behind, {","}))]
IsRoute(r) == r.method \in {<<"GET">>, <<"POST">>} /\ r.handler \in Registry

\* HttpRouter::addRoute
HandlersAt(path) == IF path \in DOMAIN statics THEN statics[path] ELSE <<>>
AddRouteFirst(r) ==   \* faulty variant: a regex route goes in front
    IF IsStatic(r.path)
    THEN /\ statics' = With(statics, r.path, With(HandlersAt(r.path), r.method, r.handler))
         /\ UNCHANGED regexes
    ELSE /\ regexes' = IF Compiles(r.path) THEN <<r>> \o regexes ELSE regexes
         /\ UNCHANGED statics
AddRoute(r) ==
    IF IsStatic(r.path)
    THEN /\ statics' = With(statics, r.path, With(HandlersAt(r.path), r.method, r.handler))
         /\ UNCHANGED regexes
    ELSE /\ regexes' = IF Compiles(r.path) THEN Append(regexes, r) ELSE regexes
         /\ UNCHANGED statics

\* main goes over the names of [routes] in the order of the map.
RoutesSection == <<"routes">>
Rank(key) == CHOOSE i \in DOMAIN KeyOrder : KeyOrder[i] = key
LoadEnds ==
    /\ phase = "load" /\ file = <<>>
    /\ names' = DOMAIN SectionOf(RoutesSection)
    /\ phase' = "register"
    /\ UNCHANGED <<file, section, data, statics, regexes>>
RegisterRoute ==
    /\ phase = "register"
    /\ \E key \in names :
          /\ \A k \in names : Rank(key) <= Rank(k)
          /\ LET r == RouteOf(data[RoutesSection][key]) IN
             IF IsRoute(r) THEN AddRoute(r) ELSE UNCHANGED <<statics, regexes>>
          /\ names' = names \ {key}
    /\ UNCHANGED <<file, section, data, phase>>
DevTools == [method |-> <<"GET">>, path |-> <<"/.well-known">>, handler |-> <<"devtools">>]
RegisterLast ==
    /\ phase = "register" /\ names = {}
    /\ AddRoute(DevTools)
    /\ phase' = "serve"
    /\ UNCHANGED <<file, section, data, names>>

Load == ReadLine \/ LoadEnds \/ RegisterRoute \/ RegisterLast

-----------------------------------------------------------------------------
(* HttpRouter::route: the handler and the route parameters it is given.    *)

RootPath(path) == IF path = <<"/">> THEN <<"/index.html">> ELSE path   \* parseRequestLine
IsExact(method, path) == path \in DOMAIN statics /\ method \in DOMAIN statics[path]
Matching(method, path) ==
    {i \in DOMAIN regexes : regexes[i].method = method /\ Matches(regexes[i].path, path)}
HandlerFor(method, path) ==
    CASE IsExact(method, path) -> statics[path][method]
      [] ~IsExact(method, path) /\ Matching(method, path) # {} ->
           regexes[Min(Matching(method, path))].handler
      [] OTHER -> <<"handleNotFound">>
\* The parameters of a request stay those of an earlier one unless a regex route matches.
ParamsKept(method, path, old) ==   \* faulty variant: captures are put behind the old ones
    IF IsExact(method, path) \/ Matching(method, path) = {} THEN old
    ELSE old \o Captured(regexes[Min(Matching(method, path))].path, path)
ParamsFor(method, path, old) ==
    IF IsExact(method, path) \/ Matching(method, path) = {} THEN old
    ELSE Captured(regexes[Min(Matching(method, path))].path, path)

\* The handlers of handlers.cpp, and others of which only the name is told.
Response(code, body, hasLength) == [code |-> code, body |-> body, hasLength |-> hasLength]
NotFound == Response(404, <<>>, TRUE)
IsSafe(path) == path \in WebFiles /\ ".." \notin ToSet(path)   \* getSafeFilePath
StaticFile(path) ==
    CASE ~IsSafe(path) -> NotFound
      [] IsSafe(path) /\ path \in Unreadable -> Response(500, <<>>, TRUE)
      [] IsSafe(path) /\ path \notin Unreadable -> Response(200, path, TRUE)
Login(credentials) == IF credentials THEN Response(200, <<>>, TRUE) ELSE Response(403, <<>>, TRUE)
GetUserById(params) ==
    IF params = <<>> THEN Response(400, <<>>, FALSE) ELSE Response(200, <<params[1]>>, TRUE)
GetProductByName(params) ==
    IF params = <<>> THEN Response(0, <<>>, FALSE) ELSE Response(200, <<params[1]>>, TRUE)
Handle(handler, path, params, credentials) ==
    CASE handler = <<"static">> -> StaticFile(path)
      [] handler = <<"login">> -> Login(credentials)
      [] handler = <<"getUserById">> -> GetUserById(params)
      [] handler = <<"getProductByName">> -> GetProductByName(params)
      [] handler \in {<<"handleNotFound">>, <<"devtools">>} -> NotFound
      [] OTHER -> Response(200, handler, TRUE)

=============================================================================
