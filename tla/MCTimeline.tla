------------------------------ MODULE MCTimeline ------------------------------
(* Timeline on small instances for TLC. *)
EXTENDS Timeline, TLC

CONSTANTS ann, bob, cat, p1, p2

(* Ann posts; Bob follows her from the start, Cat may begin to; in one of  *)
(* the runs Ann follows herself, too.                                      *)
MCOwner == [p \in Photo |-> ann]
MCFollowers == [u \in User |-> IF u = ann THEN <<bob>> ELSE <<>>]
HerselfToo == [u \in User |-> IF u = ann THEN <<bob, ann>> ELSE <<>>]
MCFollows == {<<cat, ann>>}
NoFollows == {}

(* Ann's timeline is full, the others have room for one entry; only Bob's   *)
(* has; none has.                                                           *)
MCBacklog == [u \in User |-> IF u = ann THEN Cap ELSE Cap - 1]
BobsBacklog == [u \in User |-> IF u = bob THEN Cap - 1 ELSE Cap]
FullBacklog == [u \in User |-> Cap]

Interchangeable == Permutations(Worker)
==============================================================================
