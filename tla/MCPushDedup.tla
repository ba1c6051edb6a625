----------------------------- MODULE MCPushDedup -----------------------------
(***************************************************************************)
(* Three (category, key) pairs for TLC: two keys of one category and one   *)
(* of another, interchangeable because the pairs are never taken apart.    *)
(***************************************************************************)
EXTENDS PushDedup, TLC

CONSTANTS p1, p2, p3

MCPairs == {p1, p2, p3}
=============================================================================
