---------------------------- MODULE MCSocialGraph -----------------------------
(* SocialGraph on small instances for TLC. *)
EXTENDS SocialGraph, TLC

CONSTANTS ann, bob, les

MCAuto == <<les>>
MCExisting == <<les, bob>>

(* Bob follows Ann by her address or her id while she signs up, and by      *)
(* mistake himself.                                                         *)
MCRequests == {
  [op |-> "login", user |-> ann],
  [op |-> "follow", user |-> bob, who |-> ann],
  [op |-> "followByID", user |-> bob, who |-> ann],
  [op |-> "followByID", user |-> bob, who |-> bob]}

(* Sign-up alone, and again once the user exists.                           *)
LoginRequests == [op : {"login"}, user : {ann}]

Interchangeable == Permutations(Worker)
==============================================================================
