-------------------------------- MODULE Site --------------------------------
(***************************************************************************)
(* The server of a site: its configuration is loaded, and then the         *)
(* requests of a connection are read (HttpRequest), routed and answered    *)
(* (Router), whatever pieces they arrive in.                               *)
(***************************************************************************)
EXTENDS HttpRequest, Router

CONSTANTS
    Files,       \* what server.ini may hold
    Requests,    \* the requests, <<kind, path>>, that are sent to the sites of some files
    Paths        \* the paths the routes are asked for

\* KeyOrder holds the keys of the files.
ASSUME FilesAssumption ==
    \A f \in Files :
        /\ f \in Seq(ToSet(f))
        /\ \A i \in DOMAIN f :
              LET line == Trim(f[i]) IN
              /\ f[i] \in Seq(ToSet(f[i]))
              /\ ~Ignored(line) /\ ~IsHeader(line) /\ IsEntry(line) => KeyOf(line) \in ToSet(KeyOrder)

ASSUME RequestsAssumption ==
    \A f \in DOMAIN Requests : \A r \in Requests[f] : r[1] \in Kinds /\ r[2] \in Seq(ToSet(r[2]))

VARIABLES
    ini,         \* the lines of server.ini
    paths,       \* the paths of the requests sent
    params,      \* route_params_ of the connection's HttpRequest
    responses    \* [req, response] of the requests handled

siteVars == <<ini, paths, params, responses>>

SiteInit ==
    /\ ini \in Files
    /\ paths = <<>> /\ params = <<>> /\ responses = <<>>
    /\ RouterInit(ini)
    /\ Init

Configure == Load /\ UNCHANGED <<vars, siteVars>>

SendRequest(kind, path) ==
    /\ phase = "serve" /\ ini \in DOMAIN Requests /\ <<kind, path>> \in Requests[ini]
    /\ Send(kind)
    /\ paths' = Append(paths, path)
    /\ UNCHANGED <<routerVars, ini, params, responses>>

\* A round of onMessage with a whole request: it is routed and answered.
RouteAndServe ==
    LET path == RootPath(paths[request.req])
        method == <<request.method>>
        given == ParamsFor(method, path, params)
    IN  /\ Serve
        /\ params' = given
        /\ responses' = Append(responses,
               [req |-> request.req,
                response |-> Handle(HandlerFor(method, path), path, given, request.body # 0)])
        /\ UNCHANGED <<routerVars, ini, paths>>

Receive == (\E n \in 1..Len(wire) : Read(n)) \/ ReadDone
ReadOn ==
    \/ Incomplete \/ BadLine \/ ParseRequestLine \/ ParseHeader \/ EndOfHeaders \/ ParseBody

SiteNext ==
    \/ Configure
    \/ \E r \in UNION Range(Requests) : SendRequest(r[1], r[2])
    \/ Receive /\ UNCHANGED <<routerVars, siteVars>>
    \/ ReadOn /\ UNCHANGED <<routerVars, siteVars>>
    \/ RouteAndServe

SiteSpec == SiteInit /\ [][SiteNext]_<<vars, routerVars, siteVars>>

-----------------------------------------------------------------------------
(* What server.ini means.                                                  *)

FileLine == [i \in DOMAIN ini |-> Trim(ini[i])]
Headers == {i \in DOMAIN FileLine : ~Ignored(FileLine[i]) /\ IsHeader(FileLine[i])}
InSection(i, s) ==   \* the last header above line i is that of section s
    \E h \in Headers :
        /\ h < i /\ \A g \in Headers : g < i => g <= h
        /\ NameOf(FileLine[h]) = s
EntryLines(s) ==
    {i \in DOMAIN FileLine \ Headers :
        ~Ignored(FileLine[i]) /\ IsEntry(FileLine[i]) /\ InSection(i, s)}
Holding(lines) ==   \* those that no later line replaces
    {i \in lines : \A k \in lines : KeyOf(FileLine[k]) = KeyOf(FileLine[i]) => k <= i}
Entries(s) == {<<KeyOf(FileLine[i]), ValueOf(FileLine[i])>> : i \in Holding(EntryLines(s))}

\* Of exact routes the one with the last name holds, of patterns the one with the first.
Declared ==
    {[rank |-> Rank(e[1]), route |-> RouteOf(e[2])] : e \in
        {f \in Entries(RoutesSection) : IsRoute(RouteOf(f[2]))}}
Exact(declared, method, path) ==
    {d \in declared : d.route.path = path /\ IsStatic(path) /\ d.route.method = method}
Fitting(declared, method, path) ==
    {d \in declared : d.route.method = method /\ ~IsStatic(d.route.path)
                      /\ Compiles(d.route.path) /\ Matches(d.route.path, path)}
Leading(exact, fitting) ==
    IF exact # {} THEN {d \in exact : \A f \in exact : f.rank <= d.rank}
    ELSE {d \in fitting : \A f \in fitting : d.rank <= f.rank}
HandlerOf(leading) ==
    IF leading = {} THEN <<"handleNotFound">> ELSE (CHOOSE d \in leading : TRUE).route.handler
MeantHandler(declared, method, path) ==
    IF method = <<"GET">> /\ path = DevTools.path THEN DevTools.handler
    ELSE HandlerOf(Leading(Exact(declared, method, path), Fitting(declared, method, path)))
\* What the route of a request captures, and nothing else.
ParamsOf(method, path) ==
    IF IsExact(method, path) \/ Matching(method, path) = {} THEN <<>>
    ELSE Captured(regexes[Min(Matching(method, path))].path, path)

Methods == {<<"GET">>, <<"POST">>, <<"HEAD">>}

\* Once the site is configured the router leads every request where the lines of its
\* server.ini say: repeated keys, reopened sections, comments, lines out of place and
\* broken routes included.
RoutesFollowFile ==
    phase = "serve" /\ sent = <<>> =>
        \E declared \in {Declared} : \A method \in Methods, path \in Paths :
            HandlerFor(method, path) = MeantHandler(declared, method, path)

\* A request is answered as its route says, by itself: not with the parameters an
\* earlier request left behind, and with its length, so that the answer that follows on
\* the connection can be told from it.
Alone(r) ==
    LET method == <<Lines(sent[r])[1]>>
        path == RootPath(paths[r])
    IN  Handle(HandlerFor(method, path), path, ParamsOf(method, path), BodyLength(sent[r]) # 0)
AnsweredByItsRoute ==
    moved = "no" /\ ~cut /\ responses # <<>> =>
        /\ Last(responses).response = Alone(Last(responses).req)
        /\ Last(responses).response.hasLength

=============================================================================
