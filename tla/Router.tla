------------------------------- MODULE Router -------------------------------
(***************************************************************************)
(* Router (src/src/http/router.cpp): the table that add_route builds from  *)
(* the registrations at startup, and dispatch, which finds the handler of  *)
(* a request in it.                                                        *)
(*                                                                         *)
(* A path is the sequence of its segments, as split_path returns it; a     *)
(* trailing slash is an empty last segment.                                *)
(***************************************************************************)
EXTENDS Integers, SequencesExt

CONSTANTS
    Decodes,     \* what decode_component makes of the segments that have a
                 \* percent sign: a text, or Undecodable
    Undecodable

decode_component(segment) ==
    IF segment \in DOMAIN Decodes THEN Decodes[segment] ELSE segment

(* The segments of a pattern that are parameters.                          *)
Parameters == {"{id}", "{role}"}
is_pattern_path(path) == ToSet(path) \cap Parameters # {}

StaticSegments(path) == Cardinality({i \in DOMAIN path : path[i] \notin Parameters})

EmptyTable == [exact |-> << >>, patterns |-> << >>]

WithMethod(methods, method, handler) ==
    [m \in DOMAIN methods \cup {method} |-> IF m = method THEN handler ELSE methods[m]]

(* Mutant: a registration replaces the methods that the pattern had.       *)
AddForgetsMethods(table, route) ==
    [table EXCEPT !.patterns =
        SelectSeq(@, LAMBDA p : p.path # route.path)
        \o <<[path |-> route.path, methods |-> WithMethod(<< >>, route.method, route.handler)]>>]

(* Two patterns that differ in the names of their parameters at the most.  *)
SameShape(path, other) ==
    /\ Len(path) = Len(other)
    /\ \A i \in DOMAIN path :
          path[i] = other[i] \/ {path[i], other[i]} \subseteq Parameters

(* A registration that add_route refuses: it throws, and the server does   *)
(* not start.  A method is registered twice for a path, or a pattern names *)
(* the parameters of one that is there differently.                        *)
Conflicts(table, route) ==
    IF is_pattern_path(route.path)
    THEN \E i \in DOMAIN table.patterns :
            LET known == table.patterns[i]
            IN  /\ SameShape(known.path, route.path)
                /\ known.path # route.path \/ route.method \in DOMAIN known.methods
    ELSE /\ route.path \in DOMAIN table.exact
         /\ route.method \in DOMAIN table.exact[route.path]

(* Patterns of one shape share an entry; the list is kept sorted by the    *)
(* number of static segments, stably.                                      *)
AddPattern(table, route) ==
    LET patterns == table.patterns
        known == {i \in DOMAIN patterns : patterns[i].path = route.path}
        updated == [i \in DOMAIN patterns |->
                      [patterns[i] EXCEPT !.methods =
                         IF i \in known THEN WithMethod(@, route.method, route.handler) ELSE @]]
        before == {i \in DOMAIN patterns :
                      StaticSegments(patterns[i].path) >= StaticSegments(route.path)}
        entry == [path |-> route.path,
                  methods |-> WithMethod(<< >>, route.method, route.handler)]
    IN  [table EXCEPT !.patterns =
            IF known # {} THEN updated
            ELSE InsertAt(patterns, Cardinality(before) + 1, entry)]

add_route(table, route) ==
    IF is_pattern_path(route.path) THEN AddPattern(table, route)
    ELSE [table EXCEPT !.exact =
            [path \in DOMAIN @ \cup {route.path} |->
                IF path \in DOMAIN @
                THEN IF path = route.path THEN WithMethod(@[path], route.method, route.handler)
                     ELSE @[path]
                ELSE WithMethod(<< >>, route.method, route.handler)]]

match_pattern(pattern, path) ==
    /\ Len(path) = Len(pattern)
    /\ \A i \in DOMAIN pattern :
          IF pattern[i] \in Parameters
          THEN path[i] # "" /\ decode_component(path[i]) # Undecodable
          ELSE path[i] = pattern[i]

(* The decoded parameters of a path that matches.                          *)
RouteParameters(pattern, path) ==
    [name \in ToSet(pattern) \cap Parameters |->
        decode_component(path[CHOOSE i \in DOMAIN pattern : pattern[i] = name])]

Unrouted(status) == [status |-> status, handler |-> "", parameters |-> << >>]
Routed(handler, parameters) == [status |-> 0, handler |-> handler, parameters |-> parameters]

(* An exact path first, then the first pattern that matches; either may    *)
(* not have the method.                                                    *)
dispatch(table, request) ==
    LET exact == request.path \in DOMAIN table.exact
        matching == {i \in DOMAIN table.patterns :
                        match_pattern(table.patterns[i].path, request.path)}
        found == IF exact THEN [path |-> request.path, methods |-> table.exact[request.path]]
                 ELSE table.patterns[Min(matching)]
    IN  IF ~request.absolute THEN Unrouted(400)
        ELSE IF ~exact /\ matching = {} THEN Unrouted(404)
        ELSE IF request.method \notin DOMAIN found.methods THEN Unrouted(405)
        ELSE Routed(found.methods[request.method], RouteParameters(found.path, request.path))
=============================================================================
