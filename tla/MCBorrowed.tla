----------------------------- MODULE MCBorrowed -----------------------------
(* What callers borrow and give back, for TLC: the slots of the in-process     *)
(* limiter and the connections of the Redis client, one of the two in each     *)
(* behaviour.                                                                  *)
EXTENDS Slots, RedisClient, TLC

VARIABLE part   \* the one that moves

\* The other one has not begun.
IdleSlots  == Init /\ global = 0 /\ ceilings = [a \in Apps |-> 0]
IdleClient == RedisInit /\ password = CHOOSE w \in Passwords : TRUE

MCInit ==
  \/ part = "slots" /\ Init /\ IdleClient
  \/ part = "client" /\ RedisInit /\ IdleSlots

MCNext ==
  /\ \/ part = "slots" /\ Next /\ UNCHANGED redisVars
     \/ part = "client" /\ RedisNext /\ UNCHANGED vars
  /\ UNCHANGED part

MCSpec == MCInit /\ [][MCNext]_<<vars, redisVars, part>>

Symmetry == Permutations(Calls) \cup Permutations(Conns)
=============================================================================
