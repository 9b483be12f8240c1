----------------------------- MODULE MCTagLinks -----------------------------
(* Instances of TagLinks: two artists and a cap of two, so that one attach   *)
(* too many is one attach more.                                              *)
EXTENDS TagLinks

CONSTANTS a, b, c

\* Artist 1 is at the cap, artist 2 below it.
TwoTagRows == <<a, b>>
LinksAtTheCap == {<<1, 1>>, <<1, 2>>, <<2, 1>>}

\* A tag that is detached is attached again; both artists get a new tag, or
\* the other one's; two tags are merged either way, and swap their names; one
\* is deleted.
TagRequests ==
  [op : {"attach"}, artists : {{1}}, name : {a, c}]
    \union [op : {"bulk attach"}, artists : {{1, 2}}, name : {b, c}]
    \union [op : {"detach"}, artists : {{1}, {1, 2}}, tag : {1}]
    \union [op : {"delete"}, tag : {1}]
    \union {[op |-> "merge", tag |-> t, into |-> 3 - t] : t \in {1, 2}}
    \union {[op |-> "rename", tag |-> t, name |-> IF t = 1 THEN b ELSE a, by |-> 1] : t \in {1, 2}}

\* Two tabs rename a tag to the name of another one, which goes away.
RenameRequests ==
  [op : {"rename"}, tag : {1}, name : {b}, by : {1, 2}] \union [op : {"delete"}, tag : {2}]
=============================================================================
