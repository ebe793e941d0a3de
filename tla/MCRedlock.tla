------------------------------ MODULE MCRedlock ------------------------------
(* Two clients: with different owners, on the same three servers, on pairs *)
(* that share one, on disjoint ones and on a single one; and with one      *)
(* owner on two servers.  The drift allows for early servers, for a pause  *)
(* between the two readings of the clock, or for neither.                  *)
EXTENDS Redlock

Pair(S, o, T, p) ==
    [c \in Clients |-> IF c = 1 THEN [servers |-> S, owner |-> o] ELSE [servers |-> T, owner |-> p]]

Short(calls) == [ttl |-> 2, drift |-> 1, early |-> 0, calls |-> calls]

Long(early) == [ttl |-> 3, drift |-> 2, early |-> early, calls |-> {3}]

SmallSetups ==
    {[manager |-> Pair({1, 2, 3}, "a", {1, 2, 3}, "b"), times |-> Short({2}), force |-> FALSE],
     [manager |-> Pair({1, 2}, "a", {2, 3}, "b"), times |-> Long(1), force |-> FALSE],
     [manager |-> Pair({1}, "a", {2, 3}, "b"), times |-> Long(0), force |-> FALSE],
     [manager |-> Pair({1}, "a", {1}, "b"), times |-> Short({0, 1, 2}), force |-> TRUE],
     [manager |-> Pair({1, 2}, "a", {1, 2}, "a"), times |-> Short({0, 2}), force |-> FALSE]}
=============================================================================
