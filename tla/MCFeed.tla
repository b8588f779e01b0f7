------------------------------- MODULE MCFeed --------------------------------
(* TimelinePage, and with it Feedback, on small instances for TLC.          *)
EXTENDS TimelinePage, TLC

CONSTANTS u1, u2, p1, p2, p3, p4, p5

Owned == [p \in Photo |-> IF p \in {p1, p2} THEN u1 ELSE u2]
Four == <<p1, p2, p3, p4>>

Ask(op, u, p, n) == [op |-> op, user |-> u, photo |-> p, id |-> n]
Flags(f) == [p \in Photo |-> IF p \in DOMAIN f THEN f[p] ELSE 0]
NoFlags == [p \in Photo |-> 0]

(* Likes taken back and given again while somebody reads; comments; photos  *)
(* flagged, once and twice, under a reader; and a timeline that grows.      *)
Small == {
  [asked |-> {Ask("like", u1, p3, 1), Ask("unlike", u1, p3, 2), Ask("like", u1, p3, 3)},
   flag |-> NoFlags, reads |-> FALSE, pushes |-> 0],
  [asked |-> {Ask("like", u1, p4, 1), Ask("unlike", u1, p4, 2), Ask("like", u2, p1, 3)},
   flag |-> Flags(p1 :> 1), reads |-> TRUE, pushes |-> 0],
  [asked |-> {Ask("comment", u1, p1, 1), Ask("comment", u1, p1, 2), Ask("comment", u2, p1, 3)},
   flag |-> NoFlags, reads |-> FALSE, pushes |-> 0],
  [asked |-> {Ask("flag", u1, p2, 1), Ask("flag", u2, p2, 2), Ask("flag", u1, p3, 3)},
   flag |-> Flags(p3 :> 1), reads |-> TRUE, pushes |-> 1],
  [asked |-> {}, flag |-> Flags(p1 :> 2 @@ p2 :> 2 @@ p3 :> 2), reads |-> TRUE, pushes |-> 0],
  [asked |-> {}, flag |-> NoFlags, reads |-> TRUE, pushes |-> 3]}
==============================================================================
