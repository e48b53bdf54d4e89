--------------------------- MODULE MCPointerStore ---------------------------
(* Constants of PointerStore for TLC, after test_message.py. *)
EXTENDS PointerStore

MCNames == {"1", "2"}

MCIdxSegs == <<"0", "1">>

\* test_get's document: {'a': {'b': [{'c': 'c'}, {'d': 'd'}]}, 'e': None, 'f': 0}
MCGetDoc ==
    MapNode([k \in {"a", "e", "f"} |->
        CASE k = "a" -> MapNode([b \in {"b"} |->
                          ListNode(<<MapNode([c \in {"c"} |-> Leaf("c")]),
                                     MapNode([d \in {"d"} |-> Leaf("d")])>>)])
          [] k = "e" -> Null
          [] k = "f" -> Zero])

\* test_set's document: {}
MCSetDoc == MapNode(<<>>)

MCDocs == {MCGetDoc, MCSetDoc}

\* '/a/b', '/a/b/1', '/e/e2', '/f' and '/g/h'.
MCPaths == {<<"a", "b">>, <<"a", "b", "1">>, <<"e", "e2">>, <<"f">>, <<"g", "h">>}

MCDefaults == {Leaf("default")}

\* The written paths' neighbours: list elements beside '/a/b/1', keys beside
\* '/a/b' and '/f', and paths below the written ones.
MCProbes == {<<"a">>, <<"a", "b", "0">>, <<"a", "b", "0", "c">>, <<"a", "b", "1", "d">>,
             <<"e">>, <<"f">>, <<"g">>, <<"g", "h", "i">>}

\* A string and an empty mapping, as test_set writes.
MCNewValues == {Leaf("new"), MapNode(<<>>)}


(***************************************************************************)
(* Walk and Put as the recursion over the path that spec.md 4.1 describes, *)
(* segment by segment: the reference that PointerStore's Walk and Put are  *)
(* checked against on every run.                                           *)
(***************************************************************************)
RECURSIVE RefWalk(_, _)
RefWalk(d, p) ==
    IF p = <<>> THEN d
    ELSE CASE d.kind = "map" /\ p[1] \in DOMAIN d.m -> RefWalk(d.m[p[1]], Tail(p))
           [] d.kind = "list" /\ IsIdx(p[1]) /\ Idx(p[1]) \in DOMAIN d.s ->
                RefWalk(d.s[Idx(p[1])], Tail(p))
           [] OTHER -> Missing

RECURSIVE RefPut(_, _, _)
RefPut(d, p, x) ==
    IF p = <<>> THEN x
    ELSE CASE d.kind = "map" ->
                LET child == IF p[1] \in DOMAIN d.m THEN d.m[p[1]] ELSE MapNode(<<>>)
                    new == RefPut(child, Tail(p), x)
                IN  IF new = SetErr THEN SetErr
                    ELSE MapNode([k \in DOMAIN d.m \cup {p[1]} |->
                                    IF k = p[1] THEN new ELSE d.m[k]])
           [] d.kind = "list" /\ IsIdx(p[1]) /\ Idx(p[1]) \in DOMAIN d.s ->
                LET new == RefPut(d.s[Idx(p[1])], Tail(p), x)
                IN  IF new = SetErr THEN SetErr
                    ELSE ListNode([d.s EXCEPT ![Idx(p[1])] = new])
           [] OTHER -> SetErr

\* The test documents, and every document a set on them writes.
CheckDocs ==
    MCDocs \cup ({RefPut(d, p, x) : d \in MCDocs, p \in MCPaths, x \in MCNewValues} \ {SetErr})

\* The test paths, their prefixes, and paths through a list element, past a
\* list's end, through a leaf and through null.
CheckPaths ==
    UNION {{SubSeq(p, 1, k) : k \in 0..Len(p)} : p \in MCPaths}
    \cup {<<"a", "b", "0", "c">>, <<"a", "b", "0", "z">>, <<"a", "b", "5">>,
          <<"f", "x">>, <<"e", "e2", "e3">>, <<"a", "b", "1", "d", "q">>}

(***************************************************************************)
(* Walk and Put, computed over the prefixes of the path, agree with the    *)
(* segment-by-segment recursion on every checked document, path and value. *)
(***************************************************************************)
ASSUME WalkPutMatchReference ==
    \A d \in CheckDocs, p \in CheckPaths :
        /\ Walk(d, p) = RefWalk(d, p)
        /\ \A x \in MCNewValues : Put(d, p, x) = RefPut(d, p, x)
=============================================================================
