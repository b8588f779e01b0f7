----------------------------- MODULE MCRedisConn -----------------------------
(* RedisConn and Replies on a small instance for TLC. *)
EXTENDS RedisConn, Replies

(* Contents of up to two bytes, line ends among them. *)
SmallPayloads == UNION {[1 .. k -> {1, CR, LF}] : k \in 0 .. 2}

(* The properties of Replies have no state; TLC is asked for them where the *)
(* connection has none either.                                              *)
Unused == pc = "none" /\ inbox = <<>>

(* What either side sends on a new connection the other one reads as it was *)
(* sent, byte for byte, and never part of it for the whole (readReply,      *)
(* writeCommand).                                                           *)
FramedFromTheStart == Unused => RepliesFramed /\ CommandsRead

(* Every number the server sends arrives exactly or as an error, whichever  *)
(* of the two ways Redis has of sending it is used (parseInt, Int, Int64);  *)
(* texts keep their places, and a missing one is told from an empty one     *)
(* where the callers ask (Strings, String).                                 *)
ValuesExact == Unused => IntegersArrive /\ TextsArrive
==============================================================================
