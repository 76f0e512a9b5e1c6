------------------------------- MODULE Router -------------------------------
(***************************************************************************)
(* The router (router.c): a trie of path segments with one handler for a   *)
(* method at each node, and what a list of routes means without a trie.    *)
(* A path is a sequence of "/" and other characters; a pattern's segment   *)
(* that begins with ":" is a parameter.  Node 0 is the root; a node has    *)
(* its parent, and its handlers by method.                                 *)
(***************************************************************************)
EXTENDS Integers, Sequences, SequencesExt, FiniteSetsExt, Text

CONSTANTS MaxChildren, MaxParams, MaxSegment

NoHandler == "none"
NoNode == -1
router_init == [nodes |-> <<>>, handlers |-> <<>>]

node_new(parent, segment, is_param) ==
    [parent |-> parent, is_param |-> is_param, segment |-> Upto(segment, MaxSegment)]
\* The children of a node, oldest first.
Children(t, node) == SelectSeq([i \in DOMAIN t.nodes |-> i], LAMBDA i : t.nodes[i].parent = node)
IsChild(t, i, segment, is_param) == t.nodes[i].is_param = is_param /\ t.nodes[i].segment = segment
find_or_create_child(t, node, segment, is_param) ==
    LET found == {i \in Range(Children(t, node)) : IsChild(t, i, segment, is_param)} IN
    IF found # {} THEN <<t, Min(found)>>
    ELSE IF Len(Children(t, node)) >= MaxChildren THEN <<t, NoNode>>
    ELSE <<[t EXCEPT !.nodes = Append(@, node_new(node, segment, is_param))], Len(t.nodes) + 1>>

HandlerAt(t, node, method) ==
    LET set == {i \in DOMAIN t.handlers : t.handlers[i].node = node /\ t.handlers[i].method = method}
    IN  IF set = {} THEN NoHandler ELSE t.handlers[Max(set)].handler
SetHandler(t, node, method, handler) ==
    [t EXCEPT !.handlers = Append(@, [node |-> node, method |-> method, handler |-> handler])]

\* p is a position in path.
RECURSIVE AddFrom(_, _, _, _, _, _)
AddFrom(t, current, path, p, method, handler) ==
    IF current = NoNode THEN t
    ELSE IF p > Len(path) THEN SetHandler(t, current, method, handler)
    ELSE LET end == Until(path, p, {"/"})
             is_param == CharAt(path, p) = ":"
             segment == Cut(path, IF is_param THEN p + 1 ELSE p, end)
             child == find_or_create_child(t, current, segment, is_param)
         IN  AddFrom(child[1], child[2], path, end + 1, method, handler)
router_add(t, method, path, handler) ==
    AddFrom(t, 0, path, IF CharAt(path, 1) = "/" THEN 2 ELSE 1, method, handler)
\* Routes of a program, in its order.
Routed(routes) ==
    FoldLeft(LAMBDA t, r : router_add(t, r.method, r.path, r.handler), router_init, routes)

\* The handler and the parameters that the first child of `children' with a
\* match for the rest of the path gives.
RECURSIVE FirstMatch(_, _, _, _, _, _), match_recursive(_, _, _, _, _)
FirstMatch(t, children, segment, rest, method, params) ==
    IF children = <<>> THEN <<NoHandler, params>>
    ELSE LET child == Head(children)
             captured == IF t.nodes[child].is_param
                         THEN Append(params, <<t.nodes[child].segment, segment>>) ELSE params
             result == match_recursive(t, child, rest, method, captured)
         IN  IF result[1] # NoHandler THEN result
             ELSE FirstMatch(t, Tail(children), segment, rest, method, params)
match_recursive(t, node, path, method, params) ==
    LET p == IF CharAt(path, 1) = "/" THEN Tail(path) ELSE path
        end == Until(p, 1, {"/"})
        segment == Cut(p, 1, end)
        Fits(i) == IF t.nodes[i].is_param THEN Len(params) < MaxParams
                   ELSE t.nodes[i].segment = segment
        fitting == SelectSeq(Children(t, node), Fits)
        literal == SelectSeq(fitting, LAMBDA i : ~t.nodes[i].is_param)
        named == SelectSeq(fitting, LAMBDA i : t.nodes[i].is_param)
    IN  IF p = <<>> THEN <<HandlerAt(t, node, method), params>>
        ELSE FirstMatch(t, literal \o named, segment, From(p, end), method, params)
router_match(t, method, path) == match_recursive(t, 0, path, method, <<>>)

-----------------------------------------------------------------------------
(* A list of routes without the trie: of the routes that fit a path, the   *)
(* one that is literal where others have a parameter, segment by segment   *)
(* from the left, and whose parameters were named first; of equal ones the *)
(* last.                                                                   *)

Segments(path) ==
    LET parts == Parts(IF CharAt(path, 1) = "/" THEN Tail(path) ELSE path, <<"/">>) IN
    IF Last(parts) = <<>> THEN Front(parts) ELSE parts
Named(segment) == CharAt(segment, 1) = ":"
Fit(route, method, path) ==
    LET r == Segments(route.path)
        p == Segments(path)
    IN  /\ route.method = method /\ Len(r) = Len(p)
        /\ \A i \in DOMAIN r : Named(r[i]) \/ r[i] = p[i]
        /\ Cardinality({i \in DOMAIN r : Named(r[i])}) <= MaxParams
\* Where the first k segments of a route are first used.
FirstUse(routes, route, k) ==
    Min({j \in DOMAIN routes : LET s == Segments(routes[j].path) IN
            Len(s) >= k /\ Cut(s, 1, k + 1) = Cut(Segments(route.path), 1, k + 1)})
Rank(routes, route) ==
    [k \in DOMAIN Segments(route.path) |->
        IF Named(Segments(route.path)[k]) THEN FirstUse(routes, route, k) ELSE 0]
Before(a, b) == \E k \in DOMAIN a : a[k] < b[k] /\ \A i \in 1 .. k - 1 : a[i] = b[i]
Best(routes, fit) ==
    Max({i \in fit : \A j \in fit : ~Before(Rank(routes, routes[j]), Rank(routes, routes[i]))})
ParamsOf(pattern, segments) ==
    LET names == SelectSeq([i \in DOMAIN pattern |-> i], LAMBDA i : Named(pattern[i])) IN
    [n \in DOMAIN names |-> <<Tail(pattern[names[n]]), segments[names[n]]>>]
ChosenOf(routes, fit, path) ==
    IF fit = {} THEN <<NoHandler, <<>>>>
    ELSE LET best == routes[Best(routes, fit)]
         IN  <<best.handler, ParamsOf(Segments(best.path), Segments(path))>>
Chosen(routes, method, path) ==
    ChosenOf(routes, {i \in DOMAIN routes : Fit(routes[i], method, path)}, path)

\* Within its limits, the trie chooses the route that the list means.
WithinLimits(routes) ==
    /\ \A r \in Range(routes) : \A s \in Range(Segments(r.path)) :
          Len(s) <= (IF Named(s) THEN MaxSegment + 1 ELSE MaxSegment)
    /\ \A r \in Range(routes) : \A k \in DOMAIN Segments(r.path) :
          Cardinality({Cut(Segments(q.path), 1, k + 1) : q \in {q \in Range(routes) :
                /\ Len(Segments(q.path)) >= k
                /\ Cut(Segments(q.path), 1, k) = Cut(Segments(r.path), 1, k)}}) <= MaxChildren
SameRoute(found, chosen) == found[1] = chosen[1] /\ (found[1] # NoHandler => found[2] = chosen[2])
RouteLaw(routes, method, path) ==
    WithinLimits(routes) =>
        SameRoute(router_match(Routed(routes), method, path), Chosen(routes, method, path))
=============================================================================
