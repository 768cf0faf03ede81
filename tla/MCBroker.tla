------------------------------ MODULE MCBroker ------------------------------
(* Values of the constants of Broker for TLC. *)
EXTENDS Broker

\* Two workers of one card; two workers of two cards.
SameTask  == [w \in Workers |-> "card1"]
OwnTask   == [w \in Workers |-> IF w = 1 THEN "card1" ELSE "card2"]

\* Accounts on one pool; two that share a pool and one on its own.
OnePool   == [a \in Accounts |-> "pool"]
TwoPools  == [a \in Accounts |-> IF a = "a3" THEN "p2" ELSE "p1"]
RoomForOne == [a \in Accounts |-> 1]
RoomForTwo == [a \in Accounts |-> 2]
=============================================================================
