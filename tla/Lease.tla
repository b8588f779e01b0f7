-------------------------------- MODULE Lease --------------------------------
(***************************************************************************)
(* What the borrowers of pooled Redis connections may rely on: a connection *)
(* comes out of the pool the way it went in, and it goes in only when it is *)
(* fit for somebody else.  RedisPool implements this with fit meaning "not  *)
(* closed", RedisConn, for the state of the protocol on one connection,     *)
(* with fit meaning "no transaction, no subscription and no reply left that *)
(* an earlier borrower caused".                                             *)
(***************************************************************************)
CONSTANT Conn

VARIABLES
  place,  (* "none": not dialled, or closed and forgotten; "held": somebody  *)
          (* borrows it, tests it or is about to close it; "pooled": idle    *)
  unfit   (* would the next borrower notice that it has been used?           *)

vars == <<place, unfit>>

Init == place = [c \in Conn |-> "none"] /\ unfit \in [Conn -> BOOLEAN]

Moves(c, from, to) == place[c] = from /\ place'[c] = to

Dial(c) == Moves(c, "none", "held") /\ ~unfit'[c]

Use(c) == Moves(c, "held", "held")

GiveBack(c) == Moves(c, "held", "pooled") /\ ~unfit[c] /\ ~unfit'[c]

Borrow(c) == Moves(c, "pooled", "held") /\ unfit'[c] = unfit[c]

Scrap(c) == Moves(c, "held", "none") /\ unfit'[c]

Rest(c) == place'[c] = place[c] /\ unfit'[c] = unfit[c]

(* One step of a pool may concern several of its connections. *)
Next ==
  \A c \in Conn : Dial(c) \/ Use(c) \/ GiveBack(c) \/ Borrow(c) \/ Scrap(c) \/ Rest(c)

Spec == Init /\ [][Next]_vars
==============================================================================
