------------------------------ MODULE MCHttpBmc ------------------------------
(* Three callers over two permits and a cache of one entry. *)
EXTENDS HttpBmc

CONSTANTS a, b, T1, T2

MCMaxVersion == a :> 1 @@ b :> 0

MCOffered ==
    1 :> {[op |-> "get", url |-> a, type |-> T1], [op |-> "get", url |-> a, type |-> T2]}
    @@ 2 :> {[op |-> "get", url |-> b, type |-> T1], [op |-> "update", url |-> a, etag |-> 0],
             [op |-> "delete", url |-> a]}
    @@ 3 :> {[op |-> "session", url |-> b], [op |-> "refer", url |-> b, sameOrigin |-> FALSE]}
=============================================================================
