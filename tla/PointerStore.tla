---------------------------- MODULE PointerStore ----------------------------
(***************************************************************************)
(* JSONPointerStore of zato.server.message, modelled from spec.md section  *)
(* 4.1 and the tests in zato-server/test/zato/server/test_message.py (its  *)
(* code is not part of this repository).  data maps a name to an entry     *)
(* holding the path text; get and set walk the path segment by segment.    *)
(*                                                                         *)
(* A JSON document is a node: a leaf, a mapping or a list.  A path is a    *)
(* sequence of segments; a segment names a key of a mapping or, when it is *)
(* in IdxSegs, an index of a list.                                         *)
(***************************************************************************)
EXTENDS Naturals, Sequences, SequencesExt

CONSTANTS
    Names,       \* names callers register
    Paths,       \* the path expressions, as sequences of segments
    Docs,        \* the documents callers pass in
    Defaults,    \* defaults a caller passes to get
    NewValues,   \* values a caller passes to set
    IdxSegs,     \* the segments that are list indexes, in order: <<"0", "1", ...>>
    Probes       \* paths at which the properties compare documents

VARIABLES
    data,     \* name -> entry, the store's dictionary
    doc,      \* the caller's document
    result,   \* what the last call returned
    call      \* the last call: operation, name, argument, in_place

vars == <<data, doc, result, call>>

\* A leaf holds a token for its value: "null", "0", a string...
Leaf(x) == [kind |-> "leaf", v |-> x]
MapNode(f) == [kind |-> "map", m |-> f]
ListNode(s) == [kind |-> "list", s |-> s]

\* Values that are not nodes are records of other shapes, so that TLC can
\* compare them with nodes.
Null == Leaf("null")
Zero == Leaf("0")
Missing == [kind |-> "missing"]
NoEntry == [none |-> TRUE]
NoResult == [ret |-> "none"]
NoCall == <<>>
LookupErr == [err |-> "LookupError"]
SetErr == [err |-> "SetError"]

\* The segments that name list indexes, and the index one stands for.
IsIdx(seg) == \E i \in DOMAIN IdxSegs : IdxSegs[i] = seg
Idx(seg) == CHOOSE i \in DOMAIN IdxSegs : IdxSegs[i] = seg

(***************************************************************************)
(* jsonpointer's walk: a mapping is entered by key, a list by index; a     *)
(* segment the node does not have leaves the path unresolved.  at[i] is    *)
(* the node after the first i segments; Missing has no key and no index,   *)
(* so once the walk has failed it stays failed.                            *)
(***************************************************************************)
Walk(d, p) ==
    LET Step(node, seg) ==
            CASE node.kind = "map" /\ seg \in DOMAIN node.m -> node.m[seg]
              [] node.kind = "list" /\ IsIdx(seg) /\ Idx(seg) \in DOMAIN node.s ->
                    node.s[Idx(seg)]
              [] OTHER -> Missing
        at[i \in 0..Len(p)] == IF i = 0 THEN d ELSE Step(at[i - 1], p[i])
    IN  at[Len(p)]

(***************************************************************************)
(* A faulty Put: every segment on the way gets a new, empty mapping, as  *)
(* if set used setdefault's default without looking at the existing key.   *)
(***************************************************************************)
PutFreshMaps(d, p, x) ==
    LET Child(node, seg) ==
            CASE node.kind = "map" -> MapNode(<<>>)
              [] node.kind = "list" /\ IsIdx(seg) /\ Idx(seg) \in DOMAIN node.s ->
                    node.s[Idx(seg)]
              [] OTHER -> Missing
        Rebuild(node, seg, new) ==
            CASE new = SetErr -> SetErr
              [] node.kind = "map" ->
                    MapNode([k \in DOMAIN node.m \cup {seg} |->
                               IF k = seg THEN new ELSE node.m[k]])
              [] node.kind = "list" /\ IsIdx(seg) /\ Idx(seg) \in DOMAIN node.s ->
                    ListNode([node.s EXCEPT ![Idx(seg)] = new])
              [] OTHER -> SetErr
        down[i \in 0..Len(p)] == IF i = 0 THEN d ELSE Child(down[i - 1], p[i])
        up[j \in 0..Len(p)] ==
            IF j = 0 THEN x
            ELSE Rebuild(down[Len(p) - j], p[Len(p) - j + 1], up[j - 1])
    IN  up[Len(p)]

(***************************************************************************)
(* set's walk: a missing key of a mapping gets a new, empty mapping; a     *)
(* list element past the end or a leaf on the way cannot be written.       *)
(* down[i] is the node set enters after i segments; up[j] is the node it   *)
(* builds j levels above the written value, SetErr once a level fails.     *)
(***************************************************************************)
Put(d, p, x) ==
    LET Child(node, seg) ==
            CASE node.kind = "map" ->
                    IF seg \in DOMAIN node.m THEN node.m[seg] ELSE MapNode(<<>>)
              [] node.kind = "list" /\ IsIdx(seg) /\ Idx(seg) \in DOMAIN node.s ->
                    node.s[Idx(seg)]
              [] OTHER -> Missing
        Rebuild(node, seg, new) ==
            CASE new = SetErr -> SetErr
              [] node.kind = "map" ->
                    MapNode([k \in DOMAIN node.m \cup {seg} |->
                               IF k = seg THEN new ELSE node.m[k]])
              [] node.kind = "list" /\ IsIdx(seg) /\ Idx(seg) \in DOMAIN node.s ->
                    ListNode([node.s EXCEPT ![Idx(seg)] = new])
              [] OTHER -> SetErr
        down[i \in 0..Len(p)] == IF i = 0 THEN d ELSE Child(down[i - 1], p[i])
        up[j \in 0..Len(p)] ==
            IF j = 0 THEN x
            ELSE Rebuild(down[Len(p) - j], p[Len(p) - j + 1], up[j - 1])
    IN  up[Len(p)]

Init ==
    /\ data = [n \in Names |-> NoEntry]
    /\ doc \in Docs
    /\ result = NoResult
    /\ call = NoCall

\* add(name, path): data[name] = an entry for the path; an old entry goes.
Add(n, p) ==
    /\ data' = [data EXCEPT ![n] = [path |-> p]]
    /\ result' = NoResult
    /\ call' = <<"add", n, [path |-> p], FALSE>>
    /\ UNCHANGED doc

(***************************************************************************)
(* get(name, doc, default): an unknown name raises; a path that cannot be *)
(* followed, or that ends at null, gives the default; any other value,    *)
(* a falsy one included, is returned.                                      *)
(***************************************************************************)
Get(n, dflt) ==
    /\ result' =
         IF data[n] = NoEntry THEN LookupErr
         ELSE LET v == Walk(doc, data[n].path)
              IN  IF v = Missing \/ v = Null THEN dflt ELSE v
    /\ call' = <<"read", n, dflt, FALSE>>
    /\ UNCHANGED <<data, doc>>

\* Mutant of Set: the walk of PutFreshMaps in place of Put's.
SetFreshMaps(n, x, inPlace) ==
    /\ IF data[n] = NoEntry
         THEN /\ result' = LookupErr
              /\ UNCHANGED doc
         ELSE LET new == PutFreshMaps(doc, data[n].path, x)
              IN  /\ result' = new
                  /\ doc' = IF inPlace /\ new # SetErr THEN new ELSE doc
    /\ call' = <<"write", n, x, inPlace>>
    /\ UNCHANGED data

(***************************************************************************)
(* set(name, doc, value, in_place): writes on doc itself, or on a deep    *)
(* copy of it when in_place is False, and returns the document written.    *)
(* A path that cannot be written raises and changes nothing.               *)
(***************************************************************************)
Set(n, x, inPlace) ==
    /\ IF data[n] = NoEntry
         THEN /\ result' = LookupErr
              /\ UNCHANGED doc
         ELSE LET new == Put(doc, data[n].path, x)
              IN  /\ result' = new
                  /\ doc' = IF inPlace /\ new # SetErr THEN new ELSE doc
    /\ call' = <<"write", n, x, inPlace>>
    /\ UNCHANGED data

Next ==
    \E n \in Names :
        \/ \E p \in Paths : Add(n, p)
        \/ \E dflt \in Defaults : Get(n, dflt)
        \/ \E x \in NewValues, inPlace \in BOOLEAN : Set(n, x, inPlace)

Spec == Init /\ [][Next]_vars

----------------------------------------------------------------------------
(* Properties *)

(***************************************************************************)
(* set with in_place=False returns a document that holds the value at the *)
(* path, has a mapping or a list at every segment on the way, and agrees  *)
(* with the caller's document at every path that neither leads to nor     *)
(* lies below the written one: creating the missing mappings on the way   *)
(* keeps the siblings that were there.                                     *)
(***************************************************************************)
CopyWriteOnlyAtPath ==
    (call # NoCall /\ call[1] = "write" /\ ~call[4]
       /\ result \notin {LookupErr, SetErr}) =>
        LET p == data[call[2]].path
        IN  /\ Walk(result, p) = call[3]
            /\ \A k \in 0..(Len(p) - 1) :
                   Walk(result, SubSeq(p, 1, k)).kind \in {"map", "list"}
            /\ \A q \in Probes :
                   ~IsPrefix(p, q) /\ ~IsPrefix(q, p) => Walk(result, q) = Walk(doc, q)

=============================================================================
