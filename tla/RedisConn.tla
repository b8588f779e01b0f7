------------------------------ MODULE RedisConn ------------------------------
(***************************************************************************)
(* One connection to Redis: conn of third_party/redisx/conn.go inside the   *)
(* pooledConnection of pool.go, with the server's side of the session.      *)
(*                                                                          *)
(* A goroutine that borrows the connection writes commands (Send, Flush,    *)
(* Do) and gives it back (Close).  A second one may be in Receive at the    *)
(* same time; the two share pending under conn.mu, and an action is the     *)
(* code between two points where the other side, or the server, can come    *)
(* in between.                                                              *)
(***************************************************************************)
EXTENDS Integers, Sequences, FiniteSets

CONSTANTS
  Ops,       (* names of the commands a borrower uses                        *)
  MaxSent,   (* bound: commands of one borrower                              *)
  MaxPushed  (* bound: messages the server pushes to one borrower            *)

ASSUME BoundsAssumption == MaxSent \in Nat /\ MaxPushed \in Nat

VARIABLES
  pc,       (* where the borrower is; "pooled" and "none" when there is none *)
  reader,   (* where the goroutine in Receive is                             *)
  pending,  (* conn.pending                                                  *)
  err,      (* conn.err # nil                                                *)
  state,    (* pooledConnection.state, as the set of its flags               *)
  cmd,      (* the command Send or Do is at                                  *)
  want,     (* replies Do has still to read                                  *)
  buf,      (* conn.bw: commands not yet on the socket                       *)
  wire,     (* commands on their way to the server                           *)
  inbox,    (* replies and messages not yet read, conn.br included           *)
  session,  (* what the server keeps for this connection                     *)
  up,       (* is the peer still there?                                      *)
  sent,     (* commands this borrower has sent                               *)
  pushed    (* messages this borrower has been sent                          *)

client == <<pc, reader, pending, err, state, cmd, want, sent>>
server == <<session, up, pushed>>
vars == <<client, server, buf, wire, inbox>>

------------------------------------------------------------------------------
(* Commands                                                                 *)

NoCommand == [op |-> "none", id |-> 0]
Pushed == [op |-> "push", id |-> 0]

(* commandInfos: what a command says about the connection's state.  A       *)
(* command that is not in the table changes nothing.                        *)
commandInfos == [
  WATCH |-> [set |-> {"watch"}, clear |-> {}],
  UNWATCH |-> [set |-> {}, clear |-> {"watch"}],
  MULTI |-> [set |-> {"multi"}, clear |-> {}],
  EXEC |-> [set |-> {}, clear |-> {"watch", "multi"}],
  DISCARD |-> [set |-> {}, clear |-> {"watch", "multi"}],
  PSUBSCRIBE |-> [set |-> {"subscribe"}, clear |-> {}],
  SUBSCRIBE |-> [set |-> {"subscribe"}, clear |-> {}],
  MONITOR |-> [set |-> {"monitor"}, clear |-> {}]]

Flagged(s, op) ==
  IF op \in DOMAIN commandInfos
  THEN (s \cup commandInfos[op].set) \ commandInfos[op].clear
  ELSE s

SubscriberOps == {"SUBSCRIBE", "PSUBSCRIBE", "UNSUBSCRIBE", "PUNSUBSCRIBE"}

(* A borrower keeps to what makes sense to Redis: nothing but               *)
(* (un)subscriptions once it subscribes, and no UNSUBSCRIBE before; EXEC    *)
(* and DISCARD in a transaction, and neither another one nor WATCH nor a    *)
(* subscription inside it.                                                  *)
Allowed(op) ==
  /\ "subscribe" \in state => op \in SubscriberOps
  /\ op \in {"UNSUBSCRIBE", "PUNSUBSCRIBE"} => "subscribe" \in state
  /\ op \in {"EXEC", "DISCARD"} => "multi" \in state
  /\ "multi" \in state => op \notin {"MULTI", "WATCH", "MONITOR"} \cup SubscriberOps

Init ==
  /\ pc = "none" /\ reader = "out"
  /\ pending = 0 /\ err = FALSE /\ state = {} /\ cmd = NoCommand /\ want = 0
  /\ buf = <<>> /\ wire = <<>> /\ inbox = <<>>
  /\ session = {} /\ up = FALSE
  /\ sent = 0 /\ pushed = 0

------------------------------------------------------------------------------
(* The socket                                                               *)

(* What of a sequence is lost is its end. *)
Prefixes(s) == {SubSeq(s, 1, k) : k \in 0 .. Len(s)}

(* conn.fatal: the first error closes the socket; replies that are already  *)
(* in conn.br can still be read.                                            *)
Fatal ==
  /\ err' = TRUE
  /\ up' = FALSE
  /\ wire' = <<>>
  /\ inbox' \in Prefixes(inbox)

(* conn.bw.Flush succeeds: on a socket whose peer is gone it may, too, the  *)
(* first time, and what was written is lost.                                *)
FlushOk(commands) ==
  /\ commands = <<>> \/ ~err
  /\ wire' = IF up THEN wire \o commands ELSE <<>>

FlushFails(commands) == commands # <<>> /\ ~up

(* conn.bw is full in the middle of a Send or of Do: part of it goes early. *)
Spill ==
  /\ up /\ buf # <<>>
  /\ wire' = Append(wire, Head(buf))
  /\ buf' = Tail(buf)
  /\ UNCHANGED <<client, server, inbox>>

------------------------------------------------------------------------------
(* The borrower writes                                                      *)

Command(op) == [op |-> op, id |-> sent + 1]

(* pooledConnection.Send, then conn.Send up to Unlock. *)
SendCount(op) ==
  /\ pc = "use" /\ sent < MaxSent /\ Allowed(op)
  /\ state' = Flagged(state, op)
  /\ pending' = pending + 1
  /\ cmd' = Command(op)
  /\ sent' = sent + 1
  /\ pc' = "write"
  /\ UNCHANGED <<reader, err, want, server, buf, wire, inbox>>

(* conn.Send: writeCommand. *)
SendWrite ==
  /\ pc = "write"
  /\ buf' = Append(buf, cmd)
  /\ cmd' = NoCommand
  /\ pc' = "use"
  /\ UNCHANGED <<reader, pending, err, state, want, sent, server, wire, inbox>>

Flush ==
  /\ pc = "use" /\ buf # <<>>
  /\ buf' = <<>>
  /\ \/ FlushOk(buf) /\ UNCHANGED <<err, up, inbox>>
     \/ FlushFails(buf) /\ Fatal
  /\ UNCHANGED <<pc, reader, pending, state, cmd, want, sent, session, pushed>>

(* Do takes over the replies still to come, whatever becomes of them.       *)
TakenSlip == pending' = pending  (* slip: c.pending = 0 forgotten *)
Taken == pending' = 0

(* conn.Do with a command: everything that is pending is read with it.      *)
ToReadSlip(n) == IF n > 1 THEN n ELSE n + 1  (* slip: of several, one too few *)
ToRead(n) == n + 1

DoBegin(op) ==
  LET c == Command(op) IN
  /\ pc = "use" /\ reader = "out" /\ sent < MaxSent /\ Allowed(op)
  /\ state' = Flagged(state, op)
  /\ Taken
  /\ sent' = sent + 1
  /\ buf' = <<>>
  /\ \/ /\ FlushOk(Append(buf, c))
        /\ cmd' = c /\ want' = ToRead(pending) /\ pc' = "do"
        /\ UNCHANGED <<err, up, inbox>>
     \/ /\ FlushFails(Append(buf, c))
        /\ Fatal
        /\ UNCHANGED <<cmd, want, pc>>
  /\ UNCHANGED <<reader, session, pushed>>

------------------------------------------------------------------------------
(* The borrower reads                                                       *)

DoRead ==
  /\ pc = "do" /\ inbox # <<>>
  /\ inbox' = Tail(inbox)
  /\ want' = want - 1
  /\ IF want = 1 THEN pc' = "use" /\ cmd' = NoCommand ELSE UNCHANGED <<pc, cmd>>
  /\ UNCHANGED <<reader, pending, err, state, sent, server, buf, wire>>

(* conn.Receive up to readReply, which waits; it may come before the Send   *)
(* whose reply it gets.                                                     *)
Receive ==
  /\ pc \in {"use", "write"} /\ reader = "out"
  /\ reader' = "read"
  /\ UNCHANGED <<pc, pending, err, state, cmd, want, sent, server, buf, wire, inbox>>

ReceiveRead ==
  /\ reader = "read" /\ inbox # <<>>
  /\ inbox' = Tail(inbox)
  /\ reader' = "count"
  /\ UNCHANGED <<pc, pending, err, state, cmd, want, sent, server, buf, wire>>

(* pending is not lowered below zero. *)
LoweredSlip(n) == n - 1  (* slip: if c.pending > 0 forgotten *)
Lowered(n) == IF n > 0 THEN n - 1 ELSE n

ReceiveCount ==
  /\ reader = "count"
  /\ pending' = Lowered(pending)
  /\ reader' = "out"
  /\ UNCHANGED <<pc, err, state, cmd, want, sent, server, buf, wire, inbox>>

(* A read ends in an error: the peer is gone and nothing is left to read.   *)
Reading == pc \in {"do", "drain", "sentinel"} \/ reader = "read"

(* Do returns the error; the loop of Close ends, Do("") is still called.    *)
AfterErrorSlip ==  (* slip: the loop of Close goes on *)
  CASE pc = "do" -> "use" [] pc = "drain" -> "put" [] OTHER -> pc
AfterError ==
  CASE pc = "do" -> "use" [] pc = "sentinel" -> "flush" [] pc = "drain" -> "put" [] OTHER -> pc

ReadFails ==
  /\ Reading
  /\ Fatal
  /\ pc' = AfterError
  /\ cmd' = IF pc = "do" THEN NoCommand ELSE cmd
  /\ reader' = "out"
  /\ UNCHANGED <<pending, state, want, sent, session, pushed, buf>>

ReadError == ~up /\ inbox = <<>> /\ ReadFails

(* App Engine fails a socket call that lasts beyond the request's deadline. *)
Deadline == up /\ ReadFails

------------------------------------------------------------------------------
(* pooledConnection.Close                                                   *)

Sentinel == "ECHO"

(* Its argument is random: no borrower sends the same.                      *)
ASSUME SentinelAssumption == Sentinel \notin Ops

(* The commands that undo what the flags say the borrower left behind.      *)
UndoTransaction ==
  CASE "multi" \in state -> <<"DISCARD">>
    [] "multi" \notin state /\ "watch" \in state -> <<"UNWATCH">>
    [] OTHER -> <<>>
Undo ==
  UndoTransaction
    \o IF "subscribe" \in state THEN <<"UNSUBSCRIBE", "PUNSUBSCRIBE", Sentinel>> ELSE <<>>

(* Up to the loop that waits for the sentinel, or up to Do("").  The Flush  *)
(* before the loop may fail: the first Receive then does, too.              *)
Close ==
  LET commands == buf \o [i \in DOMAIN Undo |-> [op |-> Undo[i], id |-> sent + i]] IN
  /\ pc = "use" /\ reader = "out"
  /\ pending' = pending + Len(Undo)
  /\ sent' = sent + Len(Undo)
  /\ state' = state \ {"multi", "watch"}
  /\ IF "subscribe" \in state
     THEN /\ buf' = <<>>
          /\ pc' = "sentinel"
          /\ \/ FlushOk(commands) /\ UNCHANGED <<err, up, inbox>>
             \/ FlushFails(commands) /\ Fatal
     ELSE /\ buf' = commands
          /\ pc' = "flush"
          /\ UNCHANGED <<err, up, wire, inbox>>
  /\ UNCHANGED <<reader, cmd, want, session, pushed>>

(* One Receive of the loop: an Error ends it, the sentinel ends it well.    *)
SentinelRead ==
  LET r == Head(inbox)
      found == r.to.op = Sentinel /\ ~r.error
  IN
  /\ pc = "sentinel" /\ inbox # <<>>
  /\ inbox' = Tail(inbox)
  /\ pending' = Lowered(pending)
  /\ state' = IF found THEN state \ {"subscribe"} ELSE state
  /\ pc' = IF found \/ r.error THEN "flush" ELSE pc
  /\ UNCHANGED <<reader, err, cmd, want, sent, server, buf, wire>>

(* Do(""): with nothing pending it does nothing at all.                     *)
DrainBegin ==
  /\ pc = "flush"
  /\ Taken
  /\ IF pending = 0
     THEN pc' = "put" /\ UNCHANGED <<want, err, up, buf, wire, inbox>>
     ELSE /\ buf' = <<>>
          /\ want' = pending
          /\ \/ FlushOk(buf) /\ pc' = "drain" /\ UNCHANGED <<err, up, inbox>>
             \/ FlushFails(buf) /\ Fatal /\ pc' = "put"
  /\ UNCHANGED <<reader, state, cmd, sent, session, pushed>>

DrainRead ==
  /\ pc = "drain" /\ inbox # <<>>
  /\ inbox' = Tail(inbox)
  /\ want' = want - 1
  /\ pc' = IF want = 1 THEN "put" ELSE pc
  /\ UNCHANGED <<reader, pending, err, state, cmd, sent, server, buf, wire>>

(* Pool.put(c, pc.state != 0).                                              *)
KeepsSlip == ~err  (* slip: forceClose not looked at *)
Keeps == ~err /\ state = {}

Put ==
  /\ pc = "put" /\ Keeps
  /\ pc' = "pooled"
  /\ sent' = 0 /\ pushed' = 0 /\ want' = 0
  /\ UNCHANGED <<reader, pending, err, state, cmd, session, up, buf, wire, inbox>>

(* The connection is closed and forgotten. *)
PutBack ==
  /\ pc = "put" /\ ~Keeps
  /\ pc' = "none" /\ reader' = "out"
  /\ pending' = 0 /\ err' = FALSE /\ state' = {} /\ cmd' = NoCommand /\ want' = 0
  /\ buf' = <<>> /\ wire' = <<>> /\ inbox' = <<>>
  /\ session' = {} /\ up' = FALSE
  /\ sent' = 0 /\ pushed' = 0

(* Pool.get hands out an idle connection, or a new one.  The flags of       *)
(* pooledConnection are new each time.                                      *)
Borrow ==
  /\ pc = "pooled"
  /\ pc' = "use"
  /\ UNCHANGED <<reader, pending, err, state, cmd, want, sent, server, buf, wire, inbox>>

Dial ==
  /\ pc = "none"
  /\ pc' = "use" /\ up' = TRUE
  /\ UNCHANGED <<reader, pending, err, state, cmd, want, sent, session, pushed, buf, wire, inbox>>

------------------------------------------------------------------------------
(* The server                                                               *)

Subscribed(s) == s \cap {"channels", "patterns"} # {}

Refuses(s, op) ==
  \/ Subscribed(s) /\ op \notin SubscriberOps
  \/ op \in {"EXEC", "DISCARD"} /\ "multi" \notin s
  \/ op \in {"MULTI", "WATCH"} /\ "multi" \in s

Queues(s, op) == "multi" \in s /\ op \notin {"EXEC", "DISCARD"}

After(s, op) ==
  CASE op = "WATCH" -> s \cup {"watch"}
    [] op = "MULTI" -> s \cup {"multi"}
    [] op = "UNWATCH" -> s \ {"watch"}
    [] op \in {"EXEC", "DISCARD"} -> s \ {"watch", "multi"}
    [] op = "SUBSCRIBE" -> s \cup {"channels"}
    [] op = "PSUBSCRIBE" -> s \cup {"patterns"}
    [] op = "UNSUBSCRIBE" -> s \ {"channels"}
    [] op = "PUNSUBSCRIBE" -> s \ {"patterns"}
    [] op = "MONITOR" -> s \cup {"monitor"}
    [] OTHER -> s

(* The session after a command. *)
Executed(s, op) == IF Refuses(s, op) \/ Queues(s, op) THEN s ELSE After(s, op)

(* The server executes one command.  Only plain ones may fail of their own; *)
(* a subscription of two channels is answered twice.                        *)
Serve ==
  LET c == Head(wire)
      answer(e) == [to |-> c, error |-> e]
  IN
  /\ up /\ wire # <<>>
  /\ wire' = Tail(wire)
  /\ session' = Executed(session, c.op)
  /\ inbox' \in
       CASE Refuses(session, c.op) -> {Append(inbox, answer(TRUE))}
         [] ~Refuses(session, c.op) /\ c.op \in SubscriberOps ->
              {inbox \o <<answer(FALSE)>>, inbox \o <<answer(FALSE), answer(FALSE)>>}
         [] ~Refuses(session, c.op) /\ c.op = "GET" -> {Append(inbox, answer(e)) : e \in BOOLEAN}
         [] OTHER -> {Append(inbox, answer(FALSE))}
  /\ UNCHANGED <<client, up, pushed, buf>>

(* A message published, or a command of somebody else that is monitored.    *)
Publish ==
  /\ up /\ pushed < MaxPushed
  /\ Subscribed(session) \/ "monitor" \in session
  /\ inbox' = Append(inbox, [to |-> Pushed, error |-> FALSE])
  /\ pushed' = pushed + 1
  /\ UNCHANGED <<client, session, up, buf, wire>>

(* The peer goes, with what is on its way. *)
Drop ==
  /\ up
  /\ up' = FALSE
  /\ wire' = <<>>
  /\ inbox' \in Prefixes(inbox)
  /\ UNCHANGED <<client, session, pushed, buf>>

------------------------------------------------------------------------------
Write == (\E op \in Ops : SendCount(op) \/ DoBegin(op)) \/ SendWrite \/ Flush

Read == DoRead \/ ReceiveRead \/ ReceiveCount \/ ReadError

Closing == SentinelRead \/ DrainBegin \/ DrainRead \/ Put \/ PutBack

Next ==
  \/ Write \/ Receive \/ Read \/ Close \/ Closing
  \/ Borrow \/ Dial \/ Spill \/ Serve \/ Publish \/ Drop \/ Deadline

(* Goroutines run on and the server answers while it is there; nothing      *)
(* makes it go, and no deadline has to pass.                                *)
Fairness ==
  /\ WF_vars(Read) /\ WF_vars(Closing) /\ WF_vars(SendWrite) /\ WF_vars(Serve)

Spec == Init /\ [][Next]_vars /\ Fairness

------------------------------------------------------------------------------
Flags == {"watch", "multi", "subscribe", "monitor"}
Modes == {"watch", "multi", "channels", "patterns", "monitor"}
Names == Ops \cup SubscriberOps \cup {"DISCARD", "UNWATCH", Sentinel}
Commands == [op : Names, id : Nat]
Replies == [to : Commands \cup {Pushed}, error : BOOLEAN]

(* Types of the variables; pending and want are never negative. *)
TypeOK ==
  /\ pc \in {"none", "pooled", "use", "write", "do", "sentinel", "flush", "drain", "put"}
  /\ reader \in {"out", "read", "count"}
  /\ pending \in Nat /\ want \in Nat
  /\ err \in BOOLEAN /\ up \in BOOLEAN
  /\ state \in SUBSET Flags
  /\ cmd \in Commands \cup {NoCommand}
  /\ buf \in Seq(Commands) /\ wire \in Seq(Commands) /\ inbox \in Seq(Replies)
  /\ session \in SUBSET Modes
  /\ sent \in Nat /\ pushed \in 0 .. MaxPushed

(* The connection goes back to the pool, and stays there, without a         *)
(* transaction, a watched key, a subscription or a reply left over,         *)
(* whatever the last borrower did with it and wherever he stopped: what     *)
(* Lease promises the next one.                                             *)
Used == err \/ session # {} \/ pending > 0 \/ buf \o wire # <<>> \/ inbox # <<>>
Leases ==
  INSTANCE Lease WITH
    Conn <- {"conn"},
    place <- [c \in {"conn"} |-> IF pc \in {"none", "pooled"} THEN pc ELSE "held"],
    unfit <- [c \in {"conn"} |-> IF pc = "none" THEN TRUE ELSE Used]
CleanLease == Leases!Spec

(* Do("") and Do count on a reply for each command that is pending: the     *)
(* server never owes fewer (it may owe more: messages, and subscriptions of *)
(* several channels), so neither ever waits for a reply that will not come. *)
Answers == IF pc \in {"do", "drain"} THEN want ELSE pending
NeverStarved ==
  up /\ reader = "out" =>
    Answers <= Len(buf) + Len(wire) + Len(inbox) + (IF pc = "write" THEN 1 ELSE 0)

(* Do returns the reply of its own command, not one that an earlier Send    *)
(* has left on the connection, unless the server pushes messages to it.     *)
DoGetsOwnReply ==
  pc = "do" /\ want = 1 /\ inbox # <<>> /\ state \cap {"subscribe", "monitor"} = {}
    => Head(inbox).to = cmd

(* Close comes back without the help of a deadline, even from the wait for  *)
(* the sentinel.                                                            *)
CloseReturns == pc \in {"sentinel", "flush", "drain", "put"} ~> pc \in {"pooled", "none"}
==============================================================================
