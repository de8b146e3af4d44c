---------------------------- MODULE MCTokenStore ----------------------------
(* The instance of TokenStore that TLC checks: two goroutines refresh a token while a
   second process works on the same key or on another. *)
EXTENDS TokenStore

CONSTANTS c1, c2, c3, k1, k2, p1, p2

OneAndAnother == [c \in {c1, c2, c3} |-> IF c = c3 THEN p2 ELSE p1]
TheirJobs == [c \in {c1, c2, c3} |->
    IF c = c3 THEN {<<"refresh", k1>>, <<"login", k2>>, <<"logout", k1>>}
    ELSE {<<"refresh", k1>>}]
=============================================================================
