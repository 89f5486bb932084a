------------------------------- MODULE MCVfs -------------------------------
(* Two file systems f and g with a directory x each, that of f with a file  *)
(* y, and one, n, with y alone.  The root has no entries until one of them  *)
(* is mounted on it.                                                        *)
EXTENDS Vfs, TLC

Entries ==
    LET some == [f |-> [x |-> "fx", y |-> "none"], fx |-> [x |-> "none", y |-> "fxy"],
                 g |-> [x |-> "gx", y |-> "none"], n |-> [x |-> "none", y |-> "ny"]]
    IN  [e \in Node |-> IF e \in DOMAIN some THEN some[e] ELSE [name \in Name |-> "none"]]

Paths == {<<>>, <<"x">>, <<"x", "y">>}
CONSTANTS t1, t2, t3
Roles == t1 :> {"open", "io"} @@ t2 :> {"mount", "io"} @@ t3 :> {"mount"}
=============================================================================
