---------------------------- MODULE RedisConnProofs ----------------------------
(***************************************************************************)
(* Proofs about RedisConn, for any commands and any bounds: the types of   *)
(* the variables; that the client never waits for a reply the server does  *)
(* not owe it; that Do returns its own reply; and that a connection goes   *)
(* back to the pool clean (RedisConn implements Lease).                    *)
(*                                                                         *)
(* ConnInv is about numbers only.  LeaseInv, in the second half, relates   *)
(* the flags of pooledConnection to what the server will hold once it has  *)
(* executed all that is under way, as long as nothing was lost.            *)
(***************************************************************************)
EXTENDS RedisConn, SequenceTheorems, TLAPS

(* A second goroutine is in Receive only while the borrower may send; Do    *)
(* has taken over all that was pending.                                    *)
Places ==
  /\ reader # "out" => pc \in {"use", "write"}
  /\ pc \in {"do", "drain"} => pending = 0 /\ want >= 1
  /\ pc = "write" => cmd \in Commands
  /\ pc = "none" => pending = 0

(* Counted by Send and not written yet; read by Receive, not yet counted.   *)
Unwritten == IF pc = "write" THEN 1 ELSE 0
Uncounted == IF reader = "count" THEN 1 ELSE 0

(* NeverStarved, with the goroutine in Receive: the reply it has read is    *)
(* still part of pending until it has the lock.                            *)
Owed == up => Answers <= Len(buf) + Len(wire) + Len(inbox) + Unwritten + Uncounted

ConnInv == TypeOK /\ Places /\ Owed
------------------------------------------------------------------------------
(* Lists                                                                    *)

LEMMA EmptyList == /\ \A S : <<>> \in Seq(S)
                   /\ Len(<<>>) = 0
  OBVIOUS

LEMMA Longer ==
  ASSUME NEW S, NEW s \in Seq(S), NEW x \in S
  PROVE  Append(s, x) \in Seq(S) /\ Len(Append(s, x)) = Len(s) + 1 /\ Len(s) \in Nat
  BY AppendProperties, LenProperties

LEMMA Joined ==
  ASSUME NEW S, NEW s \in Seq(S), NEW t \in Seq(S)
  PROVE  s \o t \in Seq(S) /\ Len(s \o t) = Len(s) + Len(t) /\ Len(s) \in Nat /\ Len(t) \in Nat
  BY ConcatProperties, LenProperties

LEMMA Shorter ==
  ASSUME NEW S, NEW s \in Seq(S), s # <<>>
  PROVE  Head(s) \in S /\ Tail(s) \in Seq(S) /\ Len(Tail(s)) = Len(s) - 1 /\ Len(s) \in Nat /\ Len(s) >= 1
  BY HeadTailProperties, LenProperties, EmptySeq

LEMMA PrefixTyped ==
  ASSUME NEW S, NEW s \in Seq(S), NEW p \in Prefixes(s)
  PROVE  p \in Seq(S)
<1>1. PICK k \in 0 .. Len(s) : p = SubSeq(s, 1, k)
  BY DEF Prefixes
<1>2. Len(s) \in Nat /\ k \in Int /\ \A i \in 1 .. k : i \in 1 .. Len(s)
  BY LenProperties
<1>3. \A i \in 1 .. k : s[i] \in S
  BY <1>2, ElementOfSeq
<1> QED
  BY <1>1, <1>2, <1>3, SubSeqProperties
------------------------------------------------------------------------------
(* Commands                                                                 *)

LEMMA FlaggedTyped ==
  ASSUME NEW s \in SUBSET Flags, NEW op
  PROVE  Flagged(s, op) \subseteq Flags
<1>1. CASE op \notin DOMAIN commandInfos
  BY <1>1 DEF Flagged
<1>2. CASE op \in DOMAIN commandInfos
  <2>1. op \in {"WATCH", "UNWATCH", "MULTI", "EXEC", "DISCARD", "PSUBSCRIBE", "SUBSCRIBE", "MONITOR"}
    BY <1>2 DEF commandInfos
  <2>2. commandInfos[op].set \subseteq Flags
    BY <2>1 DEF commandInfos, Flags
  <2> QED
    BY <1>2, <2>2 DEF Flagged
<1> QED
  BY <1>1, <1>2

LEMMA CommandTyped ==
  ASSUME TypeOK, NEW op \in Ops
  PROVE  Command(op) \in Commands
  BY DEF TypeOK, Command, Commands, Names

LEMMA UndoTyped == Undo \in Seq(Names) /\ Len(Undo) \in Nat
<1>1. <<"DISCARD">> \in Seq(Names) /\ <<"UNWATCH">> \in Seq(Names) /\ <<>> \in Seq(Names)
      /\ <<"UNSUBSCRIBE", "PUNSUBSCRIBE", Sentinel>> \in Seq(Names)
  BY DEF Names, SubscriberOps, Sentinel
<1>2. UndoTransaction \in Seq(Names)
  BY <1>1 DEF UndoTransaction
<1>3. PICK t \in Seq(Names) : Undo = UndoTransaction \o t
  BY <1>1 DEF Undo
<1>4. UndoTransaction \o t \in Seq(Names)
  BY <1>2, ConcatProperties
<1> QED
  BY <1>3, <1>4, LenProperties

(* What Close adds to the buffer.                                           *)
Undoing == [i \in DOMAIN Undo |-> [op |-> Undo[i], id |-> sent + i]]

LEMMA UndoingTyped ==
  ASSUME TypeOK
  PROVE  Undoing \in Seq(Commands) /\ Len(Undoing) = Len(Undo)
<1>1. DOMAIN Undo = 1 .. Len(Undo) /\ Len(Undo) \in Nat /\ Undo \in Seq(Names)
  BY UndoTyped, LenProperties
<1>2. \A i \in 1 .. Len(Undo) : Undo[i] \in Names
  BY <1>1, ElementOfSeq
<1>3. \A i \in 1 .. Len(Undo) : [op |-> Undo[i], id |-> sent + i] \in Commands
  BY <1>1, <1>2 DEF Commands, TypeOK
<1>4. Undoing = [i \in 1 .. Len(Undo) |-> [op |-> Undo[i], id |-> sent + i]]
  BY <1>1 DEF Undoing
<1>5. Undoing \in Seq(Commands) /\ DOMAIN Undoing = 1 .. Len(Undo)
  BY <1>1, <1>3, <1>4, IsASeq
<1>6. DOMAIN Undoing = 1 .. Len(Undoing) /\ Len(Undoing) \in Nat
  BY <1>5, LenProperties
<1> HIDE DEF Undoing
<1> QED
  BY <1>1, <1>5, <1>6
------------------------------------------------------------------------------
(* The socket                                                               *)

LEMMA FatalTyped ==
  ASSUME TypeOK, Fatal
  PROVE  err' = TRUE /\ up' = FALSE /\ wire' \in Seq(Commands) /\ inbox' \in Seq(Replies)
  BY PrefixTyped, EmptyList DEF TypeOK, Fatal

LEMMA FlushTyped ==
  ASSUME TypeOK, NEW commands \in Seq(Commands), FlushOk(commands)
  PROVE  wire' \in Seq(Commands) /\ (up => Len(wire') = Len(wire) + Len(commands))
<1>1. wire \o commands \in Seq(Commands) /\ Len(wire \o commands) = Len(wire) + Len(commands)
  BY Joined DEF TypeOK
<1>2. <<>> \in Seq(Commands)
  BY EmptyList
<1> QED
  BY <1>1, <1>2 DEF FlushOk

(* Either way a flush ends, the types are kept; the peer is still there     *)
(* only if it went well.                                                    *)
LEMMA FlushEnds ==
  ASSUME TypeOK, NEW commands \in Seq(Commands),
         (FlushOk(commands) /\ UNCHANGED <<err, up, inbox>>) \/ Fatal
  PROVE  /\ wire' \in Seq(Commands) /\ inbox' \in Seq(Replies) /\ err' \in BOOLEAN /\ up' \in BOOLEAN
         /\ up' => up /\ Len(wire') = Len(wire) + Len(commands) /\ inbox' = inbox
<1>1. CASE FlushOk(commands) /\ UNCHANGED <<err, up, inbox>>
  <2>1. wire' \in Seq(Commands) /\ (up => Len(wire') = Len(wire) + Len(commands))
    BY <1>1, FlushTyped
  <2> QED
    BY <1>1, <2>1 DEF TypeOK
<1>2. CASE Fatal
  BY <1>2, FatalTyped
<1> QED
  BY <1>1, <1>2

(* Every reply that is written is well formed.                              *)
LEMMA AnswerTyped ==
  ASSUME NEW c \in Commands, NEW e \in BOOLEAN
  PROVE  [to |-> c, error |-> e] \in Replies
  BY DEF Replies

LEMMA PushTyped == [to |-> Pushed, error |-> FALSE] \in Replies
  BY DEF Replies

LEMMA ExecutedTyped ==
  ASSUME NEW s \in SUBSET Modes, NEW op
  PROVE  Executed(s, op) \subseteq Modes
<1>1. \/ After(s, op) \subseteq s
      \/ After(s, op) \in {s \cup {"watch"}, s \cup {"multi"}, s \cup {"channels"},
                           s \cup {"patterns"}, s \cup {"monitor"}}
  BY DEF After
<1> QED
  BY <1>1 DEF Executed, Modes
------------------------------------------------------------------------------
(* The steps of the borrower                                                *)

LEMMA WriteStep ==
  ASSUME ConnInv, Write
  PROVE  ConnInv'
<1> USE DEF client, server, Unwritten, Uncounted, Answers
<1>t. /\ pending \in Nat /\ want \in Nat /\ sent \in Nat
      /\ buf \in Seq(Commands) /\ wire \in Seq(Commands) /\ inbox \in Seq(Replies)
      /\ Len(buf) \in Nat /\ Len(wire) \in Nat /\ Len(inbox) \in Nat
  BY LenProperties DEF ConnInv, TypeOK
<1>1. ASSUME NEW op \in Ops, SendCount(op) PROVE ConnInv'
  <2>1. state' \in SUBSET Flags
    BY <1>1, FlaggedTyped DEF SendCount, ConnInv, TypeOK
  <2>2. cmd' \in Commands
    BY <1>1, CommandTyped DEF SendCount, ConnInv
  <2>3. TypeOK'
    BY <1>1, <2>1, <2>2 DEF SendCount, ConnInv, TypeOK
  <2>4. Places'
    BY <1>1, <2>2 DEF SendCount, ConnInv, Places
  <2>5. Owed'
    BY <1>1, <1>t DEF SendCount, ConnInv, Owed
  <2> QED
    BY <2>3, <2>4, <2>5 DEF ConnInv
<1>2. CASE SendWrite
  <2>1. cmd \in Commands
    BY <1>2 DEF SendWrite, ConnInv, Places
  <2>2. buf' \in Seq(Commands) /\ Len(buf') = Len(buf) + 1
    BY <1>2, <1>t, <2>1, Longer DEF SendWrite
  <2>3. TypeOK'
    BY <1>2, <2>2 DEF SendWrite, ConnInv, TypeOK
  <2>4. Places'
    BY <1>2 DEF SendWrite, ConnInv, Places
  <2>5. Owed'
    BY <1>2, <1>t, <2>2 DEF SendWrite, ConnInv, Owed
  <2> QED
    BY <2>3, <2>4, <2>5 DEF ConnInv
<1>3. CASE Flush
  <2>1. buf' = <<>> /\ buf' \in Seq(Commands) /\ Len(buf') = 0
    BY <1>3, EmptyList DEF Flush
  <2>2. \/ FlushOk(buf) /\ UNCHANGED <<err, up, inbox>>
        \/ Fatal
    BY <1>3 DEF Flush
  <2>3. /\ wire' \in Seq(Commands) /\ inbox' \in Seq(Replies) /\ err' \in BOOLEAN /\ up' \in BOOLEAN
        /\ up' => up /\ Len(wire') = Len(wire) + Len(buf) /\ inbox' = inbox
    BY <1>t, <2>2, FlushEnds DEF ConnInv
  <2>4. TypeOK'
    BY <1>3, <2>1, <2>3 DEF Flush, ConnInv, TypeOK
  <2>5. Places'
    BY <1>3 DEF Flush, ConnInv, Places
  <2>6. Owed'
    BY <1>3, <1>t, <2>1, <2>3 DEF Flush, ConnInv, Owed
  <2> QED
    BY <2>4, <2>5, <2>6 DEF ConnInv
<1>4. ASSUME NEW op \in Ops, DoBegin(op) PROVE ConnInv'
  <2> DEFINE c == Command(op)
             all == Append(buf, c)
  <2>1. state' \in SUBSET Flags
    BY <1>4, FlaggedTyped DEF DoBegin, ConnInv, TypeOK
  <2>2. c \in Commands
    BY CommandTyped DEF ConnInv
  <2>3. all \in Seq(Commands) /\ Len(all) = Len(buf) + 1
    BY <1>t, <2>2, Longer
  <2>4. buf' = <<>> /\ buf' \in Seq(Commands) /\ Len(buf') = 0
    BY <1>4, EmptyList DEF DoBegin
  <2>5. /\ pc = "use" /\ reader = "out" /\ reader' = "out" /\ pending' = 0 /\ sent' = sent + 1
        /\ session' = session /\ pushed' = pushed
        /\ \/ FlushOk(all) /\ cmd' = c /\ want' = pending + 1 /\ pc' = "do" /\ UNCHANGED <<err, up, inbox>>
           \/ Fatal /\ UNCHANGED <<cmd, want, pc>>
    BY <1>4 DEF DoBegin, Taken, ToRead
  <2> HIDE DEF c, all
  <2>6. /\ wire' \in Seq(Commands) /\ inbox' \in Seq(Replies) /\ err' \in BOOLEAN /\ up' \in BOOLEAN
        /\ up' => /\ up /\ Len(wire') = Len(wire) + Len(all) /\ inbox' = inbox
                  /\ want' = pending + 1 /\ pc' = "do"
    <3>1. Fatal => ~up'
      BY DEF Fatal
    <3>2. /\ wire' \in Seq(Commands) /\ inbox' \in Seq(Replies) /\ err' \in BOOLEAN /\ up' \in BOOLEAN
          /\ up' => up /\ Len(wire') = Len(wire) + Len(all) /\ inbox' = inbox
      BY <2>3, <2>5, FlushEnds DEF ConnInv
    <3> QED
      BY <2>5, <3>1, <3>2
  <2>7. TypeOK'
    BY <1>t, <2>1, <2>2, <2>4, <2>5, <2>6 DEF ConnInv, TypeOK
  <2>8. Places'
    BY <1>t, <2>5 DEF ConnInv, Places
  <2>9. Owed'
    BY <1>t, <2>3, <2>4, <2>5, <2>6 DEF ConnInv, Owed
  <2> QED
    BY <2>7, <2>8, <2>9 DEF ConnInv
<1> QED
  BY <1>1, <1>2, <1>3, <1>4 DEF Write

LEMMA ReadStep ==
  ASSUME ConnInv, Read \/ Receive \/ Deadline
  PROVE  ConnInv'
<1> USE DEF client, server, Unwritten, Uncounted, Answers
<1>t. /\ pending \in Nat /\ want \in Nat /\ sent \in Nat
      /\ buf \in Seq(Commands) /\ wire \in Seq(Commands) /\ inbox \in Seq(Replies)
      /\ Len(buf) \in Nat /\ Len(wire) \in Nat /\ Len(inbox) \in Nat
  BY LenProperties DEF ConnInv, TypeOK
<1>i. inbox # <<>> => Tail(inbox) \in Seq(Replies) /\ Len(Tail(inbox)) = Len(inbox) - 1
  BY <1>t, Shorter
<1>1. CASE DoRead
  <2>1. want >= 1 /\ pending = 0 /\ reader = "out"
    BY <1>1 DEF DoRead, ConnInv, Places, TypeOK
  <2>2. TypeOK'
    BY <1>1, <1>t, <1>i, <2>1 DEF DoRead, ConnInv, TypeOK
  <2>3. Places'
    BY <1>1, <1>t, <2>1 DEF DoRead, ConnInv, Places
  <2>4. Owed'
    BY <1>1, <1>t, <1>i, <2>1 DEF DoRead, ConnInv, Owed
  <2> QED
    BY <2>2, <2>3, <2>4 DEF ConnInv
<1>2. CASE Receive
  <2>1. TypeOK' /\ Places'
    BY <1>2 DEF Receive, ConnInv, TypeOK, Places
  <2>2. Owed'
    BY <1>2, <1>t DEF Receive, ConnInv, Owed
  <2> QED
    BY <2>1, <2>2 DEF ConnInv
<1>3. CASE ReceiveRead
  <2>1. pc \in {"use", "write"}
    BY <1>3 DEF ReceiveRead, ConnInv, Places
  <2>2. TypeOK' /\ Places'
    BY <1>3, <1>i, <2>1 DEF ReceiveRead, ConnInv, TypeOK, Places
  <2>3. Owed'
    BY <1>3, <1>t, <1>i DEF ReceiveRead, ConnInv, Owed
  <2> QED
    BY <2>2, <2>3 DEF ConnInv
<1>4. CASE ReceiveCount
  <2>1. pc \in {"use", "write"}
    BY <1>4 DEF ReceiveCount, ConnInv, Places
  <2>2. pending' \in Nat /\ (pending = 0 => pending' = 0) /\ (pending # 0 => pending' = pending - 1)
    BY <1>4, <1>t DEF ReceiveCount, Lowered
  <2>3. TypeOK'
    BY <1>4, <2>2 DEF ReceiveCount, ConnInv, TypeOK
  <2>4. Places'
    BY <1>4, <2>1 DEF ReceiveCount, ConnInv, Places
  <2>5. Owed'
    BY <1>4, <1>t, <2>1, <2>2 DEF ReceiveCount, ConnInv, Owed
  <2> QED
    BY <2>3, <2>4, <2>5 DEF ConnInv
<1>5. CASE ReadError \/ Deadline
  <2>1. ReadFails
    BY <1>5 DEF ReadError, Deadline
  <2>2. up' = FALSE /\ err' = TRUE /\ wire' \in Seq(Commands) /\ inbox' \in Seq(Replies)
    BY <2>1, FatalTyped DEF ReadFails, ConnInv
  <2>3. reader' = "out" /\ pc' \in {"use", "write", "flush", "put"} /\ (pc' = "write" => pc = "write")
    <3>1. pc \in {"do", "drain", "sentinel"} \/ pc \in {"use", "write"}
      BY <2>1 DEF ReadFails, Reading, ConnInv, Places, TypeOK
    <3> QED
      BY <2>1, <3>1 DEF ReadFails, AfterError
  <2>4. cmd' \in Commands \cup {NoCommand} /\ (pc' = "write" => cmd' = cmd)
    BY <2>1, <2>3 DEF ReadFails, ConnInv, TypeOK
  <2>5. UNCHANGED <<pending, state, want, sent, session, pushed, buf>>
    BY <2>1 DEF ReadFails
  <2>6. TypeOK'
    BY <2>2, <2>3, <2>4, <2>5 DEF ConnInv, TypeOK
  <2>7. Places'
    BY <2>3, <2>4 DEF ConnInv, Places
  <2> QED
    BY <2>2, <2>6, <2>7 DEF ConnInv, Owed
<1> QED
  BY <1>1, <1>2, <1>3, <1>4, <1>5 DEF Read

LEMMA CloseStep ==
  ASSUME ConnInv, Close \/ Closing
  PROVE  ConnInv'
<1> USE DEF client, server, Unwritten, Uncounted, Answers
<1>t. /\ pending \in Nat /\ want \in Nat /\ sent \in Nat
      /\ buf \in Seq(Commands) /\ wire \in Seq(Commands) /\ inbox \in Seq(Replies)
      /\ Len(buf) \in Nat /\ Len(wire) \in Nat /\ Len(inbox) \in Nat
  BY LenProperties DEF ConnInv, TypeOK
<1>i. inbox # <<>> => Tail(inbox) \in Seq(Replies) /\ Len(Tail(inbox)) = Len(inbox) - 1
  BY <1>t, Shorter
<1>1. CASE Close
  <2> DEFINE commands == buf \o Undoing
             n == Len(Undo)
  <2>1. commands \in Seq(Commands) /\ Len(commands) = Len(buf) + n /\ n \in Nat
    <3>1. Undoing \in Seq(Commands) /\ Len(Undoing) = n /\ n \in Nat
      BY UndoTyped, UndoingTyped DEF ConnInv
    <3> HIDE DEF n
    <3>2. Len(buf \o Undoing) = Len(buf) + Len(Undoing) /\ buf \o Undoing \in Seq(Commands)
      BY <1>t, <3>1, Joined
    <3> QED
      BY <3>1, <3>2
  <2>2. /\ pc = "use" /\ reader = "out" /\ reader' = reader
        /\ pending' = pending + n /\ sent' = sent + n /\ state' = state \ {"multi", "watch"}
        /\ UNCHANGED <<cmd, want, session, pushed>>
        /\ \/ buf' = <<>> /\ pc' = "sentinel" /\ FlushOk(commands) /\ UNCHANGED <<err, up, inbox>>
           \/ buf' = <<>> /\ pc' = "sentinel" /\ Fatal
           \/ buf' = commands /\ pc' = "flush" /\ UNCHANGED <<err, up, wire, inbox>>
    BY <1>1 DEF Close, Undoing
  <2> HIDE DEF commands, n
  <2>3. <<>> \in Seq(Commands) /\ Len(<<>>) = 0
    BY EmptyList
  <2>4. /\ wire' \in Seq(Commands) /\ inbox' \in Seq(Replies) /\ buf' \in Seq(Commands)
        /\ err' \in BOOLEAN /\ up' \in BOOLEAN
        /\ up' => up /\ inbox' = inbox /\ Len(buf') + Len(wire') = Len(buf) + Len(wire) + n
    <3>1. CASE buf' = <<>> /\ ((FlushOk(commands) /\ UNCHANGED <<err, up, inbox>>) \/ Fatal)
      <4>1. /\ wire' \in Seq(Commands) /\ inbox' \in Seq(Replies) /\ err' \in BOOLEAN /\ up' \in BOOLEAN
            /\ up' => up /\ Len(wire') = Len(wire) + Len(commands) /\ inbox' = inbox
        BY <2>1, <3>1, FlushEnds DEF ConnInv
      <4>2. Len(buf') = 0 /\ buf' \in Seq(Commands)
        BY <2>3, <3>1
      <4> QED
        BY <1>t, <2>1, <4>1, <4>2
    <3>2. CASE buf' = commands /\ UNCHANGED <<err, up, wire, inbox>>
      <4>1. err \in BOOLEAN /\ up \in BOOLEAN
        BY DEF ConnInv, TypeOK
      <4>2. Len(buf') = Len(buf) + n
        BY <2>1, <3>2
      <4>3. Len(wire') = Len(wire) /\ buf' \in Seq(Commands) /\ inbox' = inbox /\ wire' = wire
        BY <2>1, <3>2
      <4>4. Len(buf') + Len(wire') = Len(buf) + Len(wire) + n
        BY <1>t, <2>1, <4>2, <4>3
      <4> QED
        BY <1>t, <3>2, <4>1, <4>3, <4>4
    <3> QED
      BY <2>2, <3>1, <3>2
  <2>5. TypeOK'
    BY <1>t, <2>1, <2>2, <2>4 DEF ConnInv, TypeOK
  <2>6. Places'
    BY <2>2 DEF ConnInv, Places
  <2>7. Owed'
    <3>1. up' => pending <= Len(buf) + Len(wire) + Len(inbox)
      BY <1>t, <2>2, <2>4 DEF ConnInv, Owed
    <3>2. Len(buf') \in Nat /\ Len(wire') \in Nat
      BY <2>4, LenProperties
    <3> QED
      BY <1>t, <2>1, <2>2, <2>4, <3>1, <3>2 DEF Owed
  <2> QED
    BY <2>5, <2>6, <2>7 DEF ConnInv
<1>2. CASE SentinelRead
  <2>1. reader = "out" /\ pc' \in {"sentinel", "flush"} /\ pc = "sentinel" /\ reader' = reader
    BY <1>2 DEF SentinelRead, ConnInv, Places, TypeOK
  <2>2. pending' \in Nat /\ (pending = 0 => pending' = 0) /\ (pending # 0 => pending' = pending - 1)
    BY <1>2, <1>t DEF SentinelRead, Lowered
  <2>3. state' \subseteq Flags
    BY <1>2 DEF SentinelRead, ConnInv, TypeOK
  <2>4. /\ inbox # <<>> /\ inbox' = Tail(inbox)
        /\ UNCHANGED <<reader, err, cmd, want, sent, server, buf, wire>>
    BY <1>2 DEF SentinelRead
  <2>5. TypeOK'
    BY <1>i, <2>1, <2>2, <2>3, <2>4 DEF ConnInv, TypeOK
  <2>6. Places'
    BY <2>1, <2>4 DEF ConnInv, Places
  <2>7. Owed'
    BY <1>t, <1>i, <2>1, <2>2, <2>4 DEF ConnInv, Owed
  <2> QED
    BY <2>5, <2>6, <2>7 DEF ConnInv
<1>3. CASE DrainBegin
  <2>1. pc = "flush" /\ reader = "out" /\ reader' = reader /\ pending' = 0
        /\ UNCHANGED <<reader, state, cmd, sent, session, pushed>>
    BY <1>3 DEF DrainBegin, Taken, ConnInv, Places, TypeOK
  <2>2. CASE pending = 0
    <3>1. pc' = "put" /\ UNCHANGED <<want, err, up, buf, wire, inbox>>
      BY <1>3, <2>2 DEF DrainBegin
    <3> QED
      BY <1>t, <2>1, <3>1 DEF ConnInv, TypeOK, Places, Owed
  <2>3. CASE pending # 0
    <3>1. /\ buf' = <<>> /\ want' = pending
          /\ \/ FlushOk(buf) /\ pc' = "drain" /\ UNCHANGED <<err, up, inbox>>
             \/ Fatal /\ pc' = "put"
      BY <1>3, <2>3 DEF DrainBegin
    <3>2. buf' \in Seq(Commands) /\ Len(buf') = 0
      BY <3>1, EmptyList
    <3>3. /\ wire' \in Seq(Commands) /\ inbox' \in Seq(Replies) /\ err' \in BOOLEAN /\ up' \in BOOLEAN
          /\ up' => up /\ Len(wire') = Len(wire) + Len(buf) /\ inbox' = inbox /\ pc' = "drain"
      <4>1. Fatal => ~up'
        BY DEF Fatal
      <4>2. /\ wire' \in Seq(Commands) /\ inbox' \in Seq(Replies) /\ err' \in BOOLEAN /\ up' \in BOOLEAN
            /\ up' => up /\ Len(wire') = Len(wire) + Len(buf) /\ inbox' = inbox
        BY <1>t, <3>1, FlushEnds DEF ConnInv
      <4> QED
        BY <3>1, <4>1, <4>2
    <3>4. TypeOK'
      BY <1>t, <2>1, <3>1, <3>2, <3>3 DEF ConnInv, TypeOK
    <3>5. Places'
      BY <1>t, <2>1, <2>3, <3>1 DEF ConnInv, Places
    <3>6. Owed'
      BY <1>t, <2>1, <3>1, <3>2, <3>3 DEF ConnInv, Owed
    <3> QED
      BY <3>4, <3>5, <3>6 DEF ConnInv
  <2> QED
    BY <2>2, <2>3
<1>4. CASE DrainRead
  <2>1. want >= 1 /\ pending = 0 /\ reader = "out"
    BY <1>4 DEF DrainRead, ConnInv, Places, TypeOK
  <2>2. TypeOK'
    BY <1>4, <1>t, <1>i, <2>1 DEF DrainRead, ConnInv, TypeOK
  <2>3. Places'
    BY <1>4, <1>t, <2>1 DEF DrainRead, ConnInv, Places
  <2>4. Owed'
    BY <1>4, <1>t, <1>i, <2>1 DEF DrainRead, ConnInv, Owed
  <2> QED
    BY <2>2, <2>3, <2>4 DEF ConnInv
<1>5. CASE Put
  <2>1. TypeOK' /\ Places'
    BY <1>5, BoundsAssumption DEF Put, ConnInv, TypeOK, Places
  <2>2. Owed'
    BY <1>5, <1>t DEF Put, ConnInv, Owed
  <2> QED
    BY <2>1, <2>2 DEF ConnInv
<1>6. CASE PutBack
  <2>1. TypeOK'
    <3>1. <<>> \in Seq(Commands) /\ <<>> \in Seq(Replies) /\ 0 \in 0 .. MaxPushed
      BY EmptyList, BoundsAssumption
    <3> QED
      BY <1>6, <3>1 DEF PutBack, TypeOK
  <2>2. Places' /\ Owed'
    BY <1>6 DEF PutBack, Places, Owed
  <2> QED
    BY <2>1, <2>2 DEF ConnInv
<1> QED
  BY <1>1, <1>2, <1>3, <1>4, <1>5, <1>6 DEF Closing
------------------------------------------------------------------------------
(* The steps of the others                                                  *)

LEMMA PoolStep ==
  ASSUME ConnInv, Borrow \/ Dial
  PROVE  ConnInv'
<1> USE DEF client, server, Unwritten, Uncounted, Answers
<1>t. /\ pending \in Nat /\ Len(buf) \in Nat /\ Len(wire) \in Nat /\ Len(inbox) \in Nat
  BY LenProperties DEF ConnInv, TypeOK
<1>1. TypeOK' /\ Places'
  BY DEF Borrow, Dial, ConnInv, TypeOK, Places
<1>2. Owed'
  <2>1. CASE Borrow
    BY <2>1 DEF Borrow, ConnInv, Owed
  <2>2. CASE Dial
    <3>1. pending' = 0 /\ pc' = "use" /\ Len(buf') \in Nat /\ Len(wire') \in Nat /\ Len(inbox') \in Nat
      BY <1>t, <2>2 DEF Dial, ConnInv, Places
    <3> QED
      BY <3>1 DEF Owed
  <2> QED
    BY <2>1, <2>2
<1> QED
  BY <1>1, <1>2 DEF ConnInv

LEMMA SocketStep ==
  ASSUME ConnInv, Spill \/ Serve \/ Publish \/ Drop
  PROVE  ConnInv'
<1> USE DEF client, server, Unwritten, Uncounted, Answers
<1>t. /\ pending \in Nat /\ want \in Nat
      /\ buf \in Seq(Commands) /\ wire \in Seq(Commands) /\ inbox \in Seq(Replies)
      /\ Len(buf) \in Nat /\ Len(wire) \in Nat /\ Len(inbox) \in Nat
  BY LenProperties DEF ConnInv, TypeOK
<1>1. CASE Spill
  <2>1. /\ buf # <<>> /\ wire' = Append(wire, Head(buf)) /\ buf' = Tail(buf)
        /\ UNCHANGED <<client, server, inbox>>
    BY <1>1 DEF Spill
  <2>2. Head(buf) \in Commands /\ Tail(buf) \in Seq(Commands) /\ Len(Tail(buf)) = Len(buf) - 1
    BY <1>t, <2>1, Shorter
  <2>3. Append(wire, Head(buf)) \in Seq(Commands) /\ Len(Append(wire, Head(buf))) = Len(wire) + 1
    BY <1>t, <2>2, Longer
  <2>4. wire' \in Seq(Commands) /\ Len(wire') = Len(wire) + 1 /\ buf' \in Seq(Commands) /\ Len(buf') = Len(buf) - 1
    BY <2>1, <2>2, <2>3
  <2>5. TypeOK' /\ Places'
    BY <2>1, <2>4 DEF ConnInv, TypeOK, Places
  <2>6. Owed'
    BY <1>t, <2>1, <2>4 DEF ConnInv, Owed
  <2> QED
    BY <2>5, <2>6 DEF ConnInv
<1>2. CASE Serve
  <2> DEFINE c == Head(wire)
             answer(e) == [to |-> c, error |-> e]
  <2>1. c \in Commands /\ wire' \in Seq(Commands) /\ Len(wire') = Len(wire) - 1
    BY <1>2, <1>t, Shorter DEF Serve
  <2>2. session' \subseteq Modes
    BY <1>2, ExecutedTyped DEF Serve, ConnInv, TypeOK
  <2>3. /\ \A e \in BOOLEAN : answer(e) \in Replies
        /\ \A e \in BOOLEAN : Append(inbox, answer(e)) \in Seq(Replies)
        /\ \A e \in BOOLEAN : Len(Append(inbox, answer(e))) = Len(inbox) + 1
    <3>1. \A e \in BOOLEAN : answer(e) \in Replies
      BY <2>1, AnswerTyped
    <3> HIDE DEF answer
    <3> QED
      BY <1>t, <3>1, Longer
  <2>4. /\ inbox \o <<answer(FALSE)>> \in Seq(Replies)
        /\ inbox \o <<answer(FALSE), answer(FALSE)>> \in Seq(Replies)
        /\ Len(inbox \o <<answer(FALSE)>>) = Len(inbox) + 1
        /\ Len(inbox \o <<answer(FALSE), answer(FALSE)>>) = Len(inbox) + 2
    <3> DEFINE a == answer(FALSE)
    <3>1. a \in Replies
      BY <2>3
    <3> HIDE DEF a
    <3>2. <<a>> \in Seq(Replies) /\ <<a, a>> \in Seq(Replies) /\ Len(<<a>>) = 1 /\ Len(<<a, a>>) = 2
      BY <3>1
    <3>3. /\ inbox \o <<a>> \in Seq(Replies) /\ inbox \o <<a, a>> \in Seq(Replies)
          /\ Len(inbox \o <<a>>) = Len(inbox) + Len(<<a>>)
          /\ Len(inbox \o <<a, a>>) = Len(inbox) + Len(<<a, a>>)
      BY <1>t, <3>2, Joined
    <3> QED
      BY <3>2, <3>3 DEF a
  <2>5. inbox' \in {Append(inbox, answer(e)) : e \in BOOLEAN}
                     \cup {inbox \o <<answer(FALSE)>>, inbox \o <<answer(FALSE), answer(FALSE)>>}
    BY <1>2 DEF Serve
  <2> HIDE DEF c, answer
  <2>6. inbox' \in Seq(Replies) /\ Len(inbox') >= Len(inbox) + 1 /\ Len(inbox') \in Nat
    <3>1. inbox' \in Seq(Replies) /\ (Len(inbox') = Len(inbox) + 1 \/ Len(inbox') = Len(inbox) + 2)
      BY <2>3, <2>4, <2>5
    <3> QED
      BY <1>t, <3>1
  <2>7. UNCHANGED <<client, up, pushed, buf>>
    BY <1>2 DEF Serve
  <2>8. TypeOK' /\ Places'
    BY <2>1, <2>2, <2>6, <2>7 DEF ConnInv, TypeOK, Places
  <2>9. Owed'
    BY <1>t, <2>1, <2>6, <2>7 DEF ConnInv, Owed
  <2> QED
    BY <2>8, <2>9 DEF ConnInv
<1>3. CASE Publish
  <2>1. inbox' \in Seq(Replies) /\ Len(inbox') = Len(inbox) + 1
    BY <1>3, <1>t, PushTyped, Longer DEF Publish
  <2>2. pushed' \in 0 .. MaxPushed
    BY <1>3, BoundsAssumption DEF Publish, ConnInv, TypeOK
  <2>3. TypeOK' /\ Places'
    BY <1>3, <2>1, <2>2 DEF Publish, ConnInv, TypeOK, Places
  <2>4. Owed'
    BY <1>3, <1>t, <2>1 DEF Publish, ConnInv, Owed
  <2> QED
    BY <2>3, <2>4 DEF ConnInv
<1>4. CASE Drop
  <2>1. up' = FALSE /\ wire' \in Seq(Commands) /\ inbox' \in Seq(Replies) /\ UNCHANGED <<client, session, pushed, buf>>
    BY <1>4, <1>t, PrefixTyped, EmptyList DEF Drop
  <2> QED
    BY <2>1 DEF ConnInv, TypeOK, Places, Owed
<1> QED
  BY <1>1, <1>2, <1>3, <1>4

LEMMA InitInv == Init => ConnInv
<1> SUFFICES ASSUME Init PROVE ConnInv
  OBVIOUS
<1>1. TypeOK
  <2>1. <<>> \in Seq(Commands) /\ <<>> \in Seq(Replies) /\ 0 \in 0 .. MaxPushed
    BY EmptyList, BoundsAssumption
  <2> QED
    BY <2>1 DEF Init, TypeOK
<1>2. Places /\ Owed
  BY DEF Init, Places, Owed
<1> QED
  BY <1>1, <1>2 DEF ConnInv

LEMMA NextInv == ConnInv /\ [Next]_vars => ConnInv'
<1> SUFFICES ASSUME ConnInv, [Next]_vars PROVE ConnInv'
  OBVIOUS
<1>1. CASE UNCHANGED vars
  BY <1>1 DEF vars, client, server, ConnInv, TypeOK, Places, Owed, Answers, Unwritten, Uncounted
<1> QED
  BY <1>1, WriteStep, ReadStep, CloseStep, PoolStep, SocketStep DEF Next

(* Every reachable state satisfies the invariant.                           *)
THEOREM ConnInvariant == Spec => []ConnInv
  BY InitInv, NextInv, PTL DEF Spec
------------------------------------------------------------------------------
(* The types of the variables; in particular neither pending nor the number *)
(* of replies Do has still to read is ever negative.                        *)
THEOREM ConnTyped == Spec => []TypeOK
<1>1. ConnInv => TypeOK
  BY DEF ConnInv
<1> QED
  BY <1>1, ConnInvariant, PTL

(* While the peer is there, the commands and replies under way are enough   *)
(* for all that Do and Do("") will wait for, however Send, Flush, Receive   *)
(* and Close were called and two goroutines shared pending.                 *)
THEOREM NobodyStarves == Spec => []NeverStarved
<1>1. ConnInv => NeverStarved
  BY DEF ConnInv, Owed, NeverStarved, Unwritten, Uncounted, Answers, TypeOK
<1> QED
  BY <1>1, ConnInvariant, PTL
------------------------------------------------------------------------------
(* What a connection is like when Close gives it back.                      *)

(* Close has begun, and the connection is not in the pool yet.              *)
Ending == pc \in {"sentinel", "flush", "drain", "put"}

Phases ==
  /\ err => ~up
  /\ ~up => wire = <<>>
  /\ pc = "none" => ~err /\ ~up /\ state = {} /\ session = {} /\ buf = <<>> /\ inbox = <<>>
  /\ pc = "pooled" => ~Used /\ state = {}
  /\ pc = "do" => ~err /\ buf = <<>>
  /\ pc = "sentinel" => buf = <<>> /\ "subscribe" \in state
  /\ pc = "put" => pending = 0
  /\ Ending => state \subseteq {"subscribe", "monitor"}
  /\ ~("multi" \in state /\ "subscribe" \in state)

(* It will not be kept, so that nobody has to know what is left on it.      *)
Doomed ==
  \/ err
  \/ pc \in {"flush", "drain", "put"} /\ state # {}
  \/ pc = "sentinel" /\ "monitor" \in state

(* Only a flagged connection has subscriptions under way; the sentinel is   *)
(* sent by Close.                                                           *)
Marked ==
  {c \in Commands :
     /\ c.op \in SubscriberOps => "subscribe" \in state
     /\ c.op = "MONITOR" => "monitor" \in state
     /\ c.op = Sentinel => Ending}
MarkedReplies == {r \in Replies : r.to.op = Sentinel => Ending}

Tagged ==
  /\ buf \in Seq(Marked) /\ wire \in Seq(Marked) /\ inbox \in Seq(MarkedReplies)
  /\ pc = "write" => cmd \in Marked
  /\ Subscribed(session) => "subscribe" \in state
  /\ "monitor" \in session => "monitor" \in state

(* A connection that is not pushed to owes no more replies than are         *)
(* counted: with Owed, exactly those while the peer is there.               *)
Plain == state \cap {"subscribe", "monitor"} = {}
Total == Len(buf) + Len(wire) + Len(inbox) + Unwritten + Uncounted
Counts == Plain => Total <= Answers

(* The command of Do is the last one under way.                             *)
Own ==
  pc = "do" =>
    /\ wire # <<>> => wire[Len(wire)] = cmd
    /\ wire = <<>> /\ inbox # <<>> /\ Plain /\ Total = Answers => inbox[Len(inbox)].to = cmd

(* The commands sent and not executed yet.                                  *)
Way == wire \o buf \o (IF pc = "write" THEN <<cmd>> ELSE <<>>)

(* From session s, the server comes to e by the commands of w; if f, it     *)
(* refuses one of them.                                                     *)
Leads(s, w, e, f) ==
  \E ses \in [1 .. Len(w) + 1 -> SUBSET Modes] :
    /\ ses[1] = s /\ ses[Len(w) + 1] = e
    /\ \A i \in 1 .. Len(w) : ses[i + 1] = Executed(ses[i], w[i].op)
    /\ f => \E i \in 1 .. Len(w) : Refuses(ses[i], w[i].op)

(* The flags of pooledConnection say what the session will be.              *)
Agree(e) ==
  /\ "multi" \in e <=> "multi" \in state
  /\ "watch" \in e => state \cap {"watch", "multi"} # {}
  /\ Subscribed(e) => "subscribe" \in state
  /\ "monitor" \in e => "monitor" \in state

Errors == \E i \in 1 .. Len(inbox) : inbox[i].error

(* Nothing that was sent has been lost.                                     *)
Intact == up \/ (~err /\ Plain /\ Total = Answers)

(* What the commands under way will leave behind; an UNWATCH that is        *)
(* refused ends the wait for the sentinel.                                  *)
Ahead ==
  /\ pc \in {"use", "write", "do"} => \E e \in SUBSET Modes : Leads(session, Way, e, FALSE) /\ Agree(e)
  /\ pc \in {"flush", "drain", "put"} => Leads(session, Way, {}, FALSE)
  /\ pc = "sentinel" =>
       \E e \in SUBSET Modes, f \in BOOLEAN : Leads(session, Way, e, f) /\ (e = {} \/ f \/ Errors)

(* The answer to the sentinel is the last one, and comes from a session     *)
(* without anything unless an error comes before it.                        *)
Found(r) == r.to.op = Sentinel /\ ~r.error
LastFound ==
  pc = "sentinel" =>
    /\ \A i \in 1 .. Len(wire) : wire[i].op = Sentinel => i = Len(wire)
    /\ \A i \in 1 .. Len(inbox) : Found(inbox[i]) =>
         /\ i = Len(inbox) /\ wire = <<>> /\ pending <= Len(inbox)
         /\ ~Subscribed(session) /\ "monitor" \notin session
         /\ session = {} \/ Errors

Fit == Tagged /\ Counts /\ (Intact => Ahead) /\ LastFound

LeaseInv == ConnInv /\ Phases /\ Own /\ (~Doomed => Fit)
------------------------------------------------------------------------------
(* What the server makes of a sequence of commands                          *)

LEMMA LeadsNowhere ==
  ASSUME NEW s \in SUBSET Modes
  PROVE  /\ Leads(s, <<>>, s, FALSE)
         /\ \A e, f : Leads(s, <<>>, e, f) => e = s /\ ~f
<1>1. Len(<<>>) = 0
  OBVIOUS
<1>2. Leads(s, <<>>, s, FALSE)
  <2> DEFINE one == [i \in 1 .. 1 |-> s]
  <2>1. one \in [1 .. Len(<<>>) + 1 -> SUBSET Modes]
    BY <1>1
  <2>2. one[1] = s /\ one[Len(<<>>) + 1] = s /\ 1 .. Len(<<>>) = {}
    BY <1>1
  <2> HIDE DEF one
  <2> QED
    BY <2>1, <2>2 DEF Leads
<1> QED
  BY <1>1, <1>2 DEF Leads

LEMMA LeadsOn ==
  ASSUME NEW s \in SUBSET Modes, NEW w \in Seq(Commands), NEW e, NEW f \in BOOLEAN,
         Leads(s, w, e, f), NEW c \in Commands
  PROVE  Leads(s, Append(w, c), Executed(e, c.op), f \/ Refuses(e, c.op))
<1> DEFINE n == Len(w)
           v == Append(w, c)
<1>1. PICK ses \in [1 .. n + 1 -> SUBSET Modes] :
        /\ ses[1] = s /\ ses[n + 1] = e
        /\ \A i \in 1 .. n : ses[i + 1] = Executed(ses[i], w[i].op)
        /\ f => \E i \in 1 .. n : Refuses(ses[i], w[i].op)
  BY DEF Leads
<1>2. n \in Nat /\ Len(v) = n + 1 /\ v[n + 1] = c /\ \A i \in 1 .. n : v[i] = w[i]
  BY AppendProperties, LenProperties
<1> HIDE DEF n, v
<1> DEFINE new == [i \in 1 .. n + 2 |-> IF i = n + 2 THEN Executed(e, c.op) ELSE ses[i]]
<1>3. e \in SUBSET Modes
  BY <1>1, <1>2
<1>4. new \in [1 .. Len(v) + 1 -> SUBSET Modes]
  BY <1>1, <1>2, <1>3, ExecutedTyped
<1>5. new[n + 2] = Executed(e, c.op) /\ \A i \in 1 .. n + 1 : new[i] = ses[i]
  BY <1>2
<1> HIDE DEF new
<1>6. \A i \in 1 .. Len(v) : new[i + 1] = Executed(new[i], v[i].op)
  <2> SUFFICES ASSUME NEW i \in 1 .. n + 1 PROVE new[i + 1] = Executed(new[i], v[i].op)
    BY <1>2
  <2>1. CASE i = n + 1
    BY <1>1, <1>2, <1>5, <2>1
  <2>2. CASE i \in 1 .. n
    BY <1>1, <1>2, <1>5, <2>2
  <2> QED
    BY <1>2, <2>1, <2>2
<1>7. (f \/ Refuses(e, c.op)) => \E i \in 1 .. Len(v) : Refuses(new[i], v[i].op)
  <2>1. CASE f
    BY <1>1, <1>2, <1>5, <2>1
  <2>2. CASE Refuses(e, c.op)
    BY <1>1, <1>2, <1>5, <2>2
  <2> QED
    BY <2>1, <2>2
<1>8. new[1] = s /\ new[Len(v) + 1] = Executed(e, c.op)
  BY <1>1, <1>2, <1>5
<1> QED
  BY <1>4, <1>6, <1>7, <1>8 DEF Leads, v

LEMMA LeadsFrom ==
  ASSUME NEW s \in SUBSET Modes, NEW w \in Seq(Commands), w # <<>>, NEW e, NEW f \in BOOLEAN,
         Leads(s, w, e, f)
  PROVE  Leads(Executed(s, Head(w).op), Tail(w), e, f /\ ~Refuses(s, Head(w).op))
<1> DEFINE n == Len(w)
           v == Tail(w)
<1>1. PICK ses \in [1 .. n + 1 -> SUBSET Modes] :
        /\ ses[1] = s /\ ses[n + 1] = e
        /\ \A i \in 1 .. n : ses[i + 1] = Executed(ses[i], w[i].op)
        /\ f => \E i \in 1 .. n : Refuses(ses[i], w[i].op)
  BY DEF Leads
<1>2. n \in Nat /\ n >= 1 /\ Len(v) = n - 1 /\ w[1] = Head(w) /\ \A i \in 1 .. n - 1 : v[i] = w[i + 1]
  BY HeadTailProperties, LenProperties, EmptySeq
<1> HIDE DEF n, v
<1> DEFINE new == [i \in 1 .. n |-> ses[i + 1]]
<1>3. new \in [1 .. Len(v) + 1 -> SUBSET Modes]
  BY <1>1, <1>2
<1>4. \A i \in 1 .. n : new[i] = ses[i + 1]
  OBVIOUS
<1> HIDE DEF new
<1>5. \A i \in 1 .. Len(v) : new[i + 1] = Executed(new[i], v[i].op)
  <2> SUFFICES ASSUME NEW i \in 1 .. n - 1 PROVE new[i + 1] = Executed(new[i], v[i].op)
    BY <1>2
  <2>1. i + 1 \in 1 .. n /\ i \in 1 .. n /\ v[i] = w[i + 1]
    BY <1>2
  <2>2. ses[(i + 1) + 1] = Executed(ses[i + 1], w[i + 1].op)
    BY <1>1, <2>1
  <2> QED
    BY <1>4, <2>1, <2>2
<1>6. f /\ ~Refuses(s, Head(w).op) => \E i \in 1 .. Len(v) : Refuses(new[i], v[i].op)
  <2> SUFFICES ASSUME f, ~Refuses(s, Head(w).op) PROVE \E i \in 1 .. n - 1 : Refuses(new[i], v[i].op)
    BY <1>2
  <2>1. PICK i \in 1 .. n : Refuses(ses[i], w[i].op)
    BY <1>1
  <2>2. i # 1
    BY <1>1, <1>2, <2>1
  <2>3. i - 1 \in 1 .. n - 1 /\ new[i - 1] = ses[i] /\ v[i - 1] = w[i]
    BY <1>2, <1>4, <2>2
  <2> QED
    BY <2>1, <2>3
<1>7. new[1] = Executed(s, Head(w).op) /\ new[Len(v) + 1] = e
  BY <1>1, <1>2, <1>4
<1> QED
  BY <1>3, <1>5, <1>6, <1>7 DEF Leads, v

(* A command the borrower is allowed does to the session what it does to    *)
(* the flags, and is not refused.                                           *)
LEMMA AgreeOn ==
  ASSUME Phases, NEW op \in Ops, Allowed(op), state' = Flagged(state, op),
         NEW e \in SUBSET Modes, Agree(e)
  PROVE  Agree(Executed(e, op))'
<1>1. ~("multi" \in state /\ "subscribe" \in state)
  BY DEF Phases
<1>2. CASE op \notin DOMAIN commandInfos
  <2>1. state' = state
    BY <1>2 DEF Flagged
  <2>2. op \notin {"WATCH", "UNWATCH", "MULTI", "EXEC", "DISCARD", "PSUBSCRIBE", "SUBSCRIBE", "MONITOR"}
    BY <1>2 DEF commandInfos
  <2>3. Executed(e, op) \subseteq e /\ ("multi" \in e <=> "multi" \in Executed(e, op))
    BY <2>2 DEF Executed, After
  <2> QED
    BY <2>1, <2>3 DEF Agree, Subscribed
<1>3. CASE op \in DOMAIN commandInfos
  <2>1. state' = (state \cup commandInfos[op].set) \ commandInfos[op].clear
    BY <1>3 DEF Flagged
  <2>2. op \in {"WATCH", "UNWATCH", "MULTI", "EXEC", "DISCARD", "PSUBSCRIBE", "SUBSCRIBE", "MONITOR"}
    BY <1>3 DEF commandInfos
  <2>3. CASE op = "WATCH"
    <3>1. state' = state \cup {"watch"}
      BY <2>1, <2>3 DEF commandInfos
    <3> QED
      BY <2>3, <3>1 DEF Executed, Refuses, Queues, After, Agree, Subscribed, Allowed, SubscriberOps
  <2>4. CASE op = "UNWATCH"
    <3>1. state' = state \ {"watch"}
      BY <2>1, <2>4 DEF commandInfos
    <3>2. ~Subscribed(e)
      BY <2>4 DEF Allowed, Agree, SubscriberOps
    <3> QED
      BY <2>4, <3>1, <3>2 DEF Executed, Refuses, Queues, After, Agree, Subscribed
  <2>5. CASE op = "MULTI"
    <3>1. state' = state \cup {"multi"}
      BY <2>1, <2>5 DEF commandInfos
    <3>2. ~Refuses(e, op) /\ ~Queues(e, op)
      BY <2>5 DEF Allowed, Agree, SubscriberOps, Refuses, Queues
    <3> QED
      BY <2>5, <3>1, <3>2 DEF Executed, After, Agree, Subscribed
  <2>6. CASE op \in {"EXEC", "DISCARD"}
    <3>1. state' = state \ {"watch", "multi"}
      BY <2>1, <2>6 DEF commandInfos
    <3>2. ~Refuses(e, op) /\ ~Queues(e, op)
      BY <1>1, <2>6 DEF Allowed, Agree, SubscriberOps, Refuses, Queues
    <3> QED
      BY <2>6, <3>1, <3>2 DEF Executed, After, Agree, Subscribed
  <2>7. CASE op \in {"SUBSCRIBE", "PSUBSCRIBE"}
    <3>1. state' = state \cup {"subscribe"}
      BY <2>1, <2>7 DEF commandInfos
    <3>2. Executed(e, op) \in {e, e \cup {"channels"}, e \cup {"patterns"}}
      BY <2>7 DEF Executed, After
    <3> QED
      BY <3>1, <3>2 DEF Agree, Subscribed
  <2>8. CASE op = "MONITOR"
    <3>1. state' = state \cup {"monitor"}
      BY <2>1, <2>8 DEF commandInfos
    <3>2. Executed(e, op) \in {e, e \cup {"monitor"}}
      BY <2>8 DEF Executed, After
    <3> QED
      BY <3>1, <3>2 DEF Agree, Subscribed
  <2> QED
    BY <2>2, <2>3, <2>4, <2>5, <2>6, <2>7, <2>8
<1> QED
  BY <1>2, <1>3

------------------------------------------------------------------------------
(* The invariant, part by part                                              *)

LEMMA UndoFlags ==
  ASSUME TypeOK
  PROVE  state \ {"multi", "watch"} \subseteq {"subscribe", "monitor"}
  BY DEF TypeOK, Flags

LEMMA FlaggedPhases ==
  ASSUME Phases, NEW op \in Ops, Allowed(op), state' = Flagged(state, op)
  PROVE  /\ ~("multi" \in state' /\ "subscribe" \in state')
         /\ "subscribe" \in state => "subscribe" \in state'
         /\ "monitor" \in state => "monitor" \in state'
<1>1. ~("multi" \in state /\ "subscribe" \in state)
  BY DEF Phases
<1>2. CASE op \notin DOMAIN commandInfos
  BY <1>1, <1>2 DEF Flagged
<1>3. CASE op \in DOMAIN commandInfos
  <2>1. state' = (state \cup commandInfos[op].set) \ commandInfos[op].clear
    BY <1>3 DEF Flagged
  <2>2. op \in {"WATCH", "UNWATCH", "MULTI", "EXEC", "DISCARD", "PSUBSCRIBE", "SUBSCRIBE", "MONITOR"}
    BY <1>3 DEF commandInfos
  <2> QED
    BY <1>1, <2>1, <2>2 DEF commandInfos, Allowed, SubscriberOps
<1> QED
  BY <1>2, <1>3

(* When it comes to Put, whatever is kept has nothing left on it.           *)
LEMMA PutClean ==
  ASSUME LeaseInv, pc = "put", Keeps
  PROVE  ~Used /\ pending = 0 /\ session = {} /\ buf = <<>> /\ wire = <<>> /\ inbox = <<>>
<1>1. ~Doomed /\ Fit /\ Plain /\ pending = 0 /\ ~err
  BY DEF LeaseInv, Phases, Doomed, Keeps, Plain
<1>2. reader = "out"
  BY DEF LeaseInv, ConnInv, Places, TypeOK
<1>3. buf \in Seq(Commands) /\ wire \in Seq(Commands) /\ inbox \in Seq(Replies)
  BY DEF LeaseInv, ConnInv, TypeOK
<1>4. Len(buf) \in Nat /\ Len(wire) \in Nat /\ Len(inbox) \in Nat
  BY <1>3, LenProperties
<1>5. Answers = 0 /\ Total = Len(buf) + Len(wire) + Len(inbox) + 0 + 0
  BY <1>1, <1>2 DEF Answers, Total, Unwritten, Uncounted
<1>6. Total <= 0
  BY <1>1, <1>5 DEF Fit, Counts
<1>7. Len(buf) = 0 /\ Len(wire) = 0 /\ Len(inbox) = 0 /\ Total = Answers
  BY <1>4, <1>5, <1>6
<1>8. buf = <<>> /\ wire = <<>> /\ inbox = <<>>
  BY <1>3, <1>7, EmptySeq
<1>9. Leads(session, Way, {}, FALSE)
  BY <1>1, <1>7 DEF Fit, Intact, Ahead
<1>10. Way = <<>>
  BY <1>8 DEF Way
<1>11. session = {}
  BY <1>9, <1>10, LeadsNowhere DEF LeaseInv, ConnInv, TypeOK
<1>12. buf \o wire = <<>>
  BY <1>8
<1> QED
  BY <1>1, <1>8, <1>11, <1>12 DEF Used

(* A connection is out of the pool for good, or as good as new.             *)
LEMMA PooledClean ==
  ASSUME ConnInv, Phases, pc = "pooled" \/ pc = "none"
  PROVE  ~Used /\ err = FALSE /\ pending = 0 /\ session = {} /\ buf = <<>> /\ wire = <<>> /\ inbox = <<>> /\ state = {}
<1>1. CASE pc = "none"
  <2>1. <<>> \o <<>> = <<>>
    OBVIOUS
  <2>2. buf \o wire = <<>>
    BY <1>1, <2>1 DEF Phases
  <2> QED
    BY <1>1, <2>2 DEF ConnInv, Places, Phases, Used
<1>2. CASE pc = "pooled"
  <2>1. ~err /\ session = {} /\ ~(pending > 0) /\ buf \o wire = <<>> /\ inbox = <<>> /\ state = {}
    BY <1>2 DEF Phases, Used
  <2>2. buf = <<>> /\ wire = <<>>
    BY <2>1, ConcatEqualIffEmpty DEF ConnInv, TypeOK
  <2> QED
    BY <1>2, <2>1, <2>2 DEF ConnInv, TypeOK, Phases
<1> QED
  BY <1>1, <1>2

LEMMA PhasesNext ==
  ASSUME LeaseInv, [Next]_vars, ConnInv'
  PROVE  Phases'
<1> USE DEF client, server
<1>0. Phases /\ TypeOK /\ Places
  BY DEF LeaseInv, ConnInv
<1>f. Fatal => err' /\ ~up' /\ wire' = <<>>
  BY DEF Fatal
<1>o. \A c : FlushOk(c) /\ UNCHANGED <<err, up, inbox>> => (~up' => wire' = <<>>)
  BY DEF FlushOk
<1>1. ASSUME NEW op \in Ops, SendCount(op) PROVE Phases'
  BY <1>0, <1>1, FlaggedPhases DEF SendCount, Phases, Ending
<1>2. CASE SendWrite
  BY <1>0, <1>2 DEF SendWrite, Phases, Ending
<1>3. CASE Flush
  BY <1>0, <1>3, <1>f, <1>o DEF Flush, Phases, Ending
<1>4. ASSUME NEW op \in Ops, DoBegin(op) PROVE Phases'
  <2>1. Append(buf, Command(op)) # <<>>
    BY <1>0, CommandTyped, AppendProperties DEF TypeOK
  <2>2. /\ pc = "use" /\ Allowed(op) /\ state' = Flagged(state, op) /\ buf' = <<>> /\ session' = session
        /\ \/ ~err /\ UNCHANGED <<err, up, inbox>> /\ FlushOk(Append(buf, Command(op))) /\ pc' = "do"
           \/ Fatal /\ pc' = pc
    BY <1>4, <2>1 DEF DoBegin, FlushOk
  <2>3. ~("multi" \in state' /\ "subscribe" \in state')
    BY <1>0, <2>2, FlaggedPhases
  <2> QED
    BY <1>0, <1>f, <1>o, <2>2, <2>3 DEF Phases, Ending
<1>5. CASE DoRead \/ Receive \/ ReceiveRead \/ ReceiveCount
  BY <1>0, <1>5 DEF DoRead, Receive, ReceiveRead, ReceiveCount, Phases, Places, Ending
<1>6. CASE ReadError \/ Deadline
  <2>1. ReadFails
    BY <1>6 DEF ReadError, Deadline
  <2>2. /\ pc' \in {"use", "write", "flush", "put"}
        /\ pc' = "flush" => pc = "sentinel"
        /\ pc' = "put" => pc = "drain"
    BY <1>0, <2>1 DEF ReadFails, Reading, AfterError, Places, TypeOK
  <2>3. state' = state /\ pending' = pending /\ buf' = buf /\ Fatal
    BY <2>1 DEF ReadFails
  <2> QED
    BY <1>0, <1>f, <2>2, <2>3 DEF Phases, Places, Ending
<1>7. CASE Close
  <2>1. pc' \in {"sentinel", "flush"} /\ state' = state \ {"multi", "watch"} /\ state' \subseteq {"subscribe", "monitor"}
    BY <1>0, <1>7, UndoFlags DEF Close
  <2>2. pc' = "sentinel" => buf' = <<>> /\ "subscribe" \in state'
    BY <1>7 DEF Close
  <2>3. (err' => ~up') /\ (~up' => wire' = <<>>)
    BY <1>0, <1>7, <1>f, <1>o DEF Close, Phases
  <2> QED
    BY <2>1, <2>2, <2>3 DEF Phases, Ending
<1>8. CASE SentinelRead
  BY <1>0, <1>8 DEF SentinelRead, Phases, Ending
<1>9. CASE DrainBegin
  <2>1. /\ pc = "flush" /\ pending' = 0 /\ state' = state /\ session' = session
        /\ pc' \in {"put", "drain"}
    BY <1>9 DEF DrainBegin, Taken
  <2>2. (err' => ~up') /\ (~up' => wire' = <<>>)
    BY <1>0, <1>9, <1>f, <1>o DEF DrainBegin, Phases
  <2> QED
    BY <1>0, <2>1, <2>2 DEF Phases, Ending
<1>10. CASE DrainRead
  BY <1>0, <1>10 DEF DrainRead, Phases, Places, Ending
<1>11. CASE Put
  <2>1. ~Used /\ state = {} /\ ~err
    BY <1>11, PutClean DEF Put, Keeps
  <2>2. ~Used'
    BY <1>11, <2>1 DEF Put, Used
  <2> QED
    BY <1>0, <1>11, <2>1, <2>2 DEF Put, Phases, Ending
<1>12. CASE PutBack
  BY <1>12 DEF PutBack, Phases, Ending
<1>13. CASE Borrow \/ Dial
  <2>1. state = {} /\ ~err
    BY <1>0, <1>13, PooledClean DEF Borrow, Dial, LeaseInv
  <2> QED
    BY <1>0, <1>13, <2>1 DEF Borrow, Dial, Phases, Ending
<1>14. CASE Spill \/ Serve \/ Publish \/ Drop
  <2>1. pc = "pooled" => buf = <<>> /\ wire = <<>> /\ inbox = <<>> /\ session = {} /\ pending = 0 /\ ~err
    BY PooledClean DEF LeaseInv
  <2>2. pc = "pooled" => ~Spill /\ ~Serve /\ ~Publish
    BY <2>1 DEF Spill, Serve, Publish, Subscribed
  <2>3. CASE Drop
    <3>1. /\ up /\ ~up' /\ wire' = <<>> /\ inbox' \in Prefixes(inbox)
          /\ UNCHANGED <<client, session, pushed, buf>>
      BY <2>3 DEF Drop
    <3>2. inbox = <<>> => inbox' = <<>>
      <4>1. ASSUME inbox = <<>> PROVE inbox' = <<>>
        <5>1. PICK k \in 0 .. Len(inbox) : inbox' = SubSeq(inbox, 1, k)
          BY <3>1 DEF Prefixes
        <5>2. k = 0
          BY <4>1, <5>1
        <5> QED
          BY <5>1, <5>2, SubSeqEmpty
      <4> QED
        BY <4>1
    <3>3. pc = "pooled" => ~Used'
      <4>1. ASSUME pc = "pooled" PROVE buf' \o wire' = <<>>
        BY <2>1, <3>1, <4>1
      <4> QED
        BY <2>1, <3>1, <3>2, <4>1 DEF Used
    <3> QED
      BY <1>0, <3>1, <3>2, <3>3 DEF Phases, Ending
  <2>4. CASE Spill
    <3>1. /\ up /\ buf # <<>> /\ UNCHANGED <<client, server, inbox>>
      BY <2>4 DEF Spill
    <3> QED
      BY <1>0, <2>2, <2>4, <3>1 DEF Phases, Ending
  <2>5. CASE Serve
    BY <1>0, <2>2, <2>5 DEF Serve, Phases, Ending
  <2>6. CASE Publish
    BY <1>0, <2>2, <2>6 DEF Publish, Phases, Ending
  <2> QED
    BY <1>14, <2>3, <2>4, <2>5, <2>6
<1>15. CASE UNCHANGED vars
  BY <1>0, <1>15 DEF vars, Phases, Ending, Used
<1> QED
  BY <1>1, <1>2, <1>3, <1>4, <1>5, <1>6, <1>7, <1>8, <1>9, <1>10, <1>11, <1>12, <1>13, <1>14, <1>15
     DEF Next, Write, Read, Closing

(* What is doomed is closed and forgotten, and nothing else.                *)
LEMMA DoomStays ==
  ASSUME LeaseInv, [Next]_vars, ~Doomed'
  PROVE  ~Doomed \/ PutBack
<1> USE DEF client, server
<1> SUFFICES ASSUME Doomed, ~PutBack PROVE Doomed'
  OBVIOUS
<1>0. Phases /\ TypeOK /\ Places
  BY DEF LeaseInv, ConnInv
<1>f. Fatal => err'
  BY DEF Fatal
<1>1. ASSUME NEW op \in Ops, SendCount(op) \/ DoBegin(op) PROVE Doomed'
  BY <1>1, <1>f DEF SendCount, DoBegin, Doomed
<1>2. CASE SendWrite \/ Flush
  BY <1>2, <1>f DEF SendWrite, Flush, Doomed
<1>3. CASE DoRead \/ Receive \/ ReceiveRead \/ ReceiveCount
  BY <1>0, <1>3 DEF DoRead, Receive, ReceiveRead, ReceiveCount, Doomed, Places
<1>4. CASE ReadError \/ Deadline
  BY <1>4, <1>f DEF ReadError, Deadline, ReadFails, Doomed
<1>5. CASE Close
  BY <1>5, <1>f DEF Close, Doomed
<1>6. CASE SentinelRead
  <2>1. pc = "sentinel" /\ pc' \in {"sentinel", "flush"} /\ state' \in {state, state \ {"subscribe"}} /\ err' = err
    BY <1>6 DEF SentinelRead
  <2> QED
    BY <2>1 DEF Doomed
<1>7. CASE DrainBegin \/ DrainRead
  <2>1. pc' \in {"drain", "put"} /\ pc \in {"flush", "drain"} /\ state' = state /\ (err => err')
    BY <1>7, <1>f DEF DrainBegin, DrainRead
  <2> QED
    BY <2>1 DEF Doomed
<1>8. ~Put
  BY DEF Put, Keeps, Doomed
<1>9. CASE Borrow \/ Dial
  BY <1>9, PooledClean DEF Borrow, Dial, Doomed, LeaseInv
<1>10. CASE Spill \/ Serve \/ Publish \/ Drop
  BY <1>10 DEF Spill, Serve, Publish, Drop, Doomed
<1>11. CASE UNCHANGED vars
  BY <1>11 DEF vars, Doomed
<1> QED
  BY <1>1, <1>2, <1>3, <1>4, <1>5, <1>6, <1>7, <1>8, <1>9, <1>10, <1>11 DEF Next, Write, Read, Closing

(* The tags of what is under way survive while the flags only grow.         *)
LEMMA TagsGrow ==
  ASSUME "subscribe" \in state => "subscribe" \in state',
         "monitor" \in state => "monitor" \in state',
         Ending => Ending'
  PROVE  Marked \subseteq Marked' /\ MarkedReplies \subseteq MarkedReplies'
  BY DEF Marked, MarkedReplies

LEMMA TagsKept ==
  ASSUME Tagged,
         "subscribe" \in state => "subscribe" \in state',
         "monitor" \in state => "monitor" \in state',
         Ending => Ending'
  PROVE  /\ buf \in Seq(Marked') /\ wire \in Seq(Marked') /\ inbox \in Seq(MarkedReplies')
         /\ pc = "write" => cmd \in Marked'
         /\ Subscribed(session) => "subscribe" \in state'
         /\ "monitor" \in session => "monitor" \in state'
<1> DEFINE M == Marked
           N == Marked'
           R == MarkedReplies
           T == MarkedReplies'
<1>1. M \subseteq N /\ R \subseteq T
  BY TagsGrow
<1>2. buf \in Seq(M) /\ wire \in Seq(M) /\ inbox \in Seq(R) /\ (pc = "write" => cmd \in M)
  BY DEF Tagged
<1>3. (Subscribed(session) => "subscribe" \in state') /\ ("monitor" \in session => "monitor" \in state')
  BY DEF Tagged
<1> HIDE DEF M, N, R, T
<1>4. buf \in Seq(N) /\ wire \in Seq(N) /\ inbox \in Seq(T)
  BY <1>1, <1>2, SeqMonotonic
<1> QED
  BY <1>1, <1>2, <1>3, <1>4 DEF N, T

LEMMA CommandMarked ==
  ASSUME LeaseInv, NEW op \in Ops, Allowed(op), state' = Flagged(state, op)
  PROVE  Command(op) \in Marked'
<1>1. Command(op) \in Commands /\ Command(op).op = op
  BY CommandTyped DEF LeaseInv, ConnInv, Command
<1>2. op # Sentinel
  BY SentinelAssumption
<1>3. op = "MONITOR" => "monitor" \in state'
  BY DEF Flagged, commandInfos
<1>4. op \in {"SUBSCRIBE", "PSUBSCRIBE"} => "subscribe" \in state'
  BY DEF Flagged, commandInfos
<1>5. op \in {"UNSUBSCRIBE", "PUNSUBSCRIBE"} => "subscribe" \in state'
  BY DEF Flagged, commandInfos, Allowed
<1>6. op \in SubscriberOps => "subscribe" \in state'
  BY <1>4, <1>5 DEF SubscriberOps
<1> QED
  BY <1>1, <1>2, <1>3, <1>6 DEF Marked

LEMMA UndoingMarked ==
  ASSUME LeaseInv, Ending', state' = state \ {"multi", "watch"}
  PROVE  Undoing \in Seq(Marked')
<1>1. Undoing \in Seq(Commands) /\ Len(Undoing) = Len(Undo) /\ Len(Undo) \in Nat /\ DOMAIN Undo = 1 .. Len(Undo)
  BY UndoTyped, UndoingTyped, LenProperties DEF LeaseInv, ConnInv
<1>2. \A i \in 1 .. Len(Undo) : Undoing[i] \in Commands /\ Undoing[i].op = Undo[i]
  BY <1>1, ElementOfSeq DEF Undoing
<1>3. \A i \in 1 .. Len(Undo) : Undo[i] # "MONITOR" /\ (Undo[i] \in SubscriberOps => "subscribe" \in state')
  BY DEF Undo, UndoTransaction, SubscriberOps, Sentinel
<1>4. \A i \in 1 .. Len(Undo) : Undoing[i] \in Marked'
  BY <1>2, <1>3 DEF Marked
<1> DEFINE N == Marked'
<1>5. \A i \in 1 .. Len(Undo) : Undoing[i] \in N
  BY <1>4
<1> HIDE DEF N
<1>6. Undoing = [i \in 1 .. Len(Undo) |-> Undoing[i]]
  BY <1>1 DEF Undoing
<1> HIDE DEF Undoing
<1>7. [i \in 1 .. Len(Undo) |-> Undoing[i]] \in Seq(N)
  BY <1>1, <1>5, IsASeq
<1> QED
  BY <1>6, <1>7 DEF N

(* How a flush ends, for commands with some property.                       *)
LEMMA FlushTagged ==
  ASSUME NEW M, NEW R, wire \in Seq(M), inbox \in Seq(R), NEW commands \in Seq(M),
         (FlushOk(commands) /\ UNCHANGED <<err, up, inbox>>) \/ Fatal
  PROVE  wire' \in Seq(M) /\ inbox' \in Seq(R)
<1>1. wire \o commands \in Seq(M) /\ <<>> \in Seq(M)
  BY Joined, EmptyList
<1>2. CASE FlushOk(commands) /\ UNCHANGED <<err, up, inbox>>
  BY <1>1, <1>2 DEF FlushOk
<1>3. CASE Fatal
  BY <1>1, <1>3, PrefixTyped DEF Fatal
<1> QED
  BY <1>2, <1>3

(* With the server's answer to the first command.                           *)
LEMMA ServeTagged ==
  ASSUME NEW R, inbox \in Seq(R), Serve, \A e \in BOOLEAN : [to |-> Head(wire), error |-> e] \in R
  PROVE  inbox' \in Seq(R)
<1> DEFINE answer(e) == [to |-> Head(wire), error |-> e]
<1>1. \A e \in BOOLEAN : Append(inbox, answer(e)) \in Seq(R)
  <2>1. \A e \in BOOLEAN : answer(e) \in R
    OBVIOUS
  <2> HIDE DEF answer
  <2> QED
    BY <2>1, Longer
<1>2. inbox \o <<answer(FALSE)>> \in Seq(R) /\ inbox \o <<answer(FALSE), answer(FALSE)>> \in Seq(R)
  <2> DEFINE a == answer(FALSE)
  <2>1. a \in R
    OBVIOUS
  <2> HIDE DEF a
  <2>2. <<a>> \in Seq(R) /\ <<a, a>> \in Seq(R)
    BY <2>1
  <2> QED
    BY <2>2, Joined DEF a
<1>3. inbox' \in {Append(inbox, answer(e)) : e \in BOOLEAN}
                   \cup {inbox \o <<answer(FALSE)>>, inbox \o <<answer(FALSE), answer(FALSE)>>}
  BY DEF Serve
<1> QED
  BY <1>1, <1>2, <1>3

LEMMA TaggedNext ==
  ASSUME LeaseInv, [Next]_vars, ConnInv', ~Doomed'
  PROVE  Tagged'
<1> USE DEF client, server
<1>0. Phases /\ TypeOK /\ Places
  BY DEF LeaseInv, ConnInv
<1>1. CASE PutBack
  <2>1. <<>> \in Seq(Marked') /\ <<>> \in Seq(MarkedReplies')
    BY EmptyList
  <2> QED
    BY <1>1, <2>1 DEF PutBack, Tagged, Subscribed
<1>2. CASE ~PutBack
  <2> DEFINE M == Marked'
             R == MarkedReplies'
  <2>0. ~Doomed /\ Tagged /\ LastFound
    BY <1>2, DoomStays DEF LeaseInv, Fit
  <2>k. ASSUME "subscribe" \in state => "subscribe" \in state',
               "monitor" \in state => "monitor" \in state',
               Ending => Ending'
        PROVE  /\ buf \in Seq(M) /\ wire \in Seq(M) /\ inbox \in Seq(R)
               /\ pc = "write" => cmd \in M
               /\ Subscribed(session) => "subscribe" \in state'
               /\ "monitor" \in session => "monitor" \in state'
    BY <2>0, <2>k, TagsKept
  <2>e. <<>> \in Seq(M)
    BY EmptyList
  <2>g. Tagged' <=>
          /\ buf' \in Seq(M) /\ wire' \in Seq(M) /\ inbox' \in Seq(R)
          /\ pc' = "write" => cmd' \in M
          /\ Subscribed(session') => "subscribe" \in state'
          /\ "monitor" \in session' => "monitor" \in state'
    BY DEF Tagged, Subscribed
  <2>m. \A op \in Ops : Allowed(op) /\ state' = Flagged(state, op) => Command(op) \in M
    BY CommandMarked
  <2>r. \A e \in BOOLEAN, c \in M : [to |-> c, error |-> e] \in R
    BY DEF Marked, MarkedReplies, Replies
  <2>u. Ending' /\ state' = state \ {"multi", "watch"} => Undoing \in Seq(M)
    BY UndoingMarked
  <2> HIDE DEF M, R
  <2>1. ASSUME NEW op \in Ops, SendCount(op) PROVE Tagged'
    <3>1. ("subscribe" \in state => "subscribe" \in state') /\ ("monitor" \in state => "monitor" \in state')
      BY <1>0, <2>1, FlaggedPhases DEF SendCount
    <3>2. Command(op) \in M /\ ~Ending
      BY <2>m, <2>1 DEF SendCount, Ending
    <3> QED
      BY <2>1, <2>k, <2>g, <3>1, <3>2 DEF SendCount
  <2>2. CASE SendWrite
    <3>1. Append(buf, cmd) \in Seq(M)
      BY <2>2, <2>k, Longer DEF SendWrite, Ending
    <3> QED
      BY <2>2, <2>k, <2>g, <3>1 DEF SendWrite, Ending
  <2>3. CASE Flush
    <3>1. /\ buf \in Seq(M) /\ wire \in Seq(M) /\ inbox \in Seq(R)
          /\ Subscribed(session) => "subscribe" \in state'
          /\ "monitor" \in session => "monitor" \in state'
      BY <2>3, <2>k DEF Flush, Ending
    <3>2. wire' \in Seq(M) /\ inbox' \in Seq(R)
      BY <2>3, <3>1, FlushTagged DEF Flush
    <3> QED
      BY <2>3, <2>e, <2>g, <3>1, <3>2 DEF Flush
  <2>4. ASSUME NEW op \in Ops, DoBegin(op) PROVE Tagged'
    <3>1. ("subscribe" \in state => "subscribe" \in state') /\ ("monitor" \in state => "monitor" \in state')
      BY <1>0, <2>4, FlaggedPhases DEF DoBegin
    <3>2. Command(op) \in M /\ ~Ending
      BY <2>m, <2>4 DEF DoBegin, Ending
    <3>3. /\ buf \in Seq(M) /\ wire \in Seq(M) /\ inbox \in Seq(R)
          /\ Subscribed(session) => "subscribe" \in state'
          /\ "monitor" \in session => "monitor" \in state'
      BY <2>k, <3>1, <3>2
    <3>4. Append(buf, Command(op)) \in Seq(M)
      BY <3>2, <3>3, Longer
    <3>5. wire' \in Seq(M) /\ inbox' \in Seq(R)
      BY <2>4, <3>3, <3>4, FlushTagged DEF DoBegin
    <3> QED
      BY <2>4, <2>e, <2>g, <3>3, <3>5 DEF DoBegin
  <2>5. CASE DoRead \/ ReceiveRead
    <3>1. Tail(inbox) \in Seq(R)
      BY <1>0, <2>5, <2>k, Shorter DEF DoRead, ReceiveRead, Ending, Places
    <3> QED
      BY <1>0, <2>5, <2>k, <2>g, <3>1 DEF DoRead, ReceiveRead, Ending, Places
  <2>6. CASE Receive \/ ReceiveCount
    BY <2>6, <2>k, <2>g DEF Receive, ReceiveCount, Ending
  <2>7. ~ReadError /\ ~Deadline
    BY DEF ReadError, Deadline, ReadFails, Fatal, Doomed
  <2>8. CASE Close
    <3>1. /\ state' = state \ {"multi", "watch"} /\ Ending' /\ session' = session /\ cmd' = cmd
          /\ pc' # "write"
      BY <2>8 DEF Close, Ending
    <3>2. /\ buf \in Seq(M) /\ wire \in Seq(M) /\ inbox \in Seq(R)
          /\ Subscribed(session) => "subscribe" \in state'
          /\ "monitor" \in session => "monitor" \in state'
      BY <2>k, <3>1
    <3>3. buf \o Undoing \in Seq(M)
      BY <2>u, <3>1, <3>2, Joined
    <3>4. /\ buf' \in {<<>>, buf \o Undoing}
          /\ \/ (FlushOk(buf \o Undoing) /\ UNCHANGED <<err, up, inbox>>) \/ Fatal
             \/ UNCHANGED <<wire, inbox>>
      BY <2>8 DEF Close, Undoing
    <3>5. wire' \in Seq(M) /\ inbox' \in Seq(R)
      BY <3>2, <3>3, <3>4, FlushTagged
    <3> QED
      BY <2>e, <2>g, <3>1, <3>2, <3>3, <3>4, <3>5
  <2>9. CASE SentinelRead
    <3>1. CASE state' = state
      <4>1. Ending => Ending'
        BY <2>9 DEF SentinelRead, Ending
      <4>2. Tail(inbox) \in Seq(R)
        BY <2>9, <2>k, <3>1, <4>1, Shorter DEF SentinelRead
      <4> QED
        BY <2>9, <2>k, <2>g, <3>1, <4>1, <4>2 DEF SentinelRead
    <3>2. CASE state' # state
      <4>1. pc = "sentinel" /\ Found(Head(inbox)) /\ inbox # <<>>
        BY <2>9, <3>2 DEF SentinelRead, Found
      <4>2. Len(inbox) \in Nat /\ Len(inbox) >= 1 /\ Head(inbox) = inbox[1]
            /\ Tail(inbox) \in Seq(Replies) /\ Len(Tail(inbox)) = Len(inbox) - 1
        BY <1>0, <4>1, Shorter DEF TypeOK
      <4>3. 1 = Len(inbox) /\ wire = <<>> /\ ~Subscribed(session) /\ "monitor" \notin session
        <5>1. 1 \in 1 .. Len(inbox) /\ Found(inbox[1])
          BY <4>1, <4>2
        <5> QED
          BY <2>0, <4>1, <5>1 DEF LastFound
      <4>4. inbox' = <<>>
        BY <2>9, <4>2, <4>3, EmptySeq DEF SentinelRead
      <4>5. <<>> \in Seq(R)
        BY EmptyList
      <4>6. buf' = <<>> /\ wire' = <<>> /\ pc' = "flush" /\ session' = session
        BY <1>0, <2>9, <4>1, <4>3 DEF SentinelRead, Phases, Found
      <4> QED
        BY <2>e, <2>g, <4>3, <4>4, <4>5, <4>6
    <3> QED
      BY <3>1, <3>2
  <2>10. CASE DrainBegin
    <3>1. /\ buf \in Seq(M) /\ wire \in Seq(M) /\ inbox \in Seq(R)
          /\ Subscribed(session) => "subscribe" \in state'
          /\ "monitor" \in session => "monitor" \in state'
      BY <2>10, <2>k DEF DrainBegin, Ending
    <3>2. buf' \in Seq(M) /\ wire' \in Seq(M) /\ inbox' \in Seq(R)
      BY <2>10, <2>e, <3>1, FlushTagged DEF DrainBegin
    <3> QED
      BY <2>10, <2>g, <3>1, <3>2 DEF DrainBegin
  <2>11. CASE DrainRead
    <3>1. Tail(inbox) \in Seq(R) /\ (Ending => Ending')
      BY <2>11, <2>k, Shorter DEF DrainRead, Ending
    <3> QED
      BY <2>11, <2>k, <2>g, <3>1 DEF DrainRead
  <2>12. CASE Put
    <3>1. buf = <<>> /\ wire = <<>> /\ inbox = <<>> /\ session = {}
      BY <2>12, PutClean DEF Put
    <3>2. <<>> \in Seq(R)
      BY EmptyList
    <3> QED
      BY <2>12, <2>e, <2>g, <3>1, <3>2 DEF Put, Subscribed
  <2>13. CASE Borrow \/ Dial
    BY <2>13, <2>k, <2>g DEF Borrow, Dial, Ending
  <2>14. CASE Spill
    <3>1. buf \in Seq(M) /\ wire \in Seq(M)
      BY <2>14, <2>k DEF Spill, Ending
    <3>2. Append(wire, Head(buf)) \in Seq(M) /\ Tail(buf) \in Seq(M)
      BY <2>14, <3>1, Shorter, Longer DEF Spill
    <3> QED
      BY <2>14, <2>k, <2>g, <3>2 DEF Spill, Ending
  <2>15. CASE Serve
    <3>1. /\ buf \in Seq(M) /\ wire \in Seq(M) /\ inbox \in Seq(R) /\ (pc = "write" => cmd \in M)
          /\ Subscribed(session) => "subscribe" \in state'
          /\ "monitor" \in session => "monitor" \in state'
      BY <2>15, <2>k DEF Serve, Ending
    <3>2. wire # <<>> /\ wire' = Tail(wire) /\ session' = Executed(session, Head(wire).op)
          /\ UNCHANGED <<client, up, pushed, buf>>
      BY <2>15 DEF Serve
    <3>3. Head(wire) \in M /\ wire' \in Seq(M)
      BY <3>1, <3>2, Shorter
    <3>4. inbox' \in Seq(R)
      BY <2>15, <2>r, <3>1, <3>3, ServeTagged
    <3>5. /\ Head(wire).op \in SubscriberOps => "subscribe" \in state'
          /\ Head(wire).op = "MONITOR" => "monitor" \in state'
      BY <3>3 DEF M, Marked
    <3>6. /\ Subscribed(session') => Subscribed(session) \/ Head(wire).op \in SubscriberOps
          /\ "monitor" \in session' => "monitor" \in session \/ Head(wire).op = "MONITOR"
      BY <3>2 DEF Executed, After, Subscribed, SubscriberOps
    <3> QED
      BY <2>g, <3>1, <3>2, <3>3, <3>4, <3>5, <3>6
  <2>16. CASE Publish
    <3>1. [to |-> Pushed, error |-> FALSE] \in R
      BY PushTyped DEF R, MarkedReplies, Pushed, Sentinel
    <3>2. inbox' \in Seq(R)
      BY <2>16, <2>k, <3>1, Longer DEF Publish, Ending
    <3> QED
      BY <2>16, <2>k, <2>g, <3>2 DEF Publish, Ending
  <2>17. CASE Drop
    <3>1. inbox' \in Seq(R)
      BY <2>17, <2>k, PrefixTyped DEF Drop, Ending
    <3> QED
      BY <2>17, <2>e, <2>k, <2>g, <3>1 DEF Drop, Ending
  <2>18. CASE UNCHANGED vars
    BY <2>18, <2>k, <2>g DEF vars, Ending
  <2> QED
    BY <1>2, <2>1, <2>2, <2>3, <2>4, <2>5, <2>6, <2>7, <2>8, <2>9, <2>10, <2>11, <2>12, <2>13,
       <2>14, <2>15, <2>16, <2>17, <2>18 DEF Next, Write, Read, Closing
<1> QED
  BY <1>1, <1>2

LEMMA FlushShorter ==
  ASSUME TypeOK, NEW commands \in Seq(Commands), FlushOk(commands)
  PROVE  Len(wire') <= Len(wire) + Len(commands) /\ Len(wire') \in Nat
<1>1. Len(wire \o commands) = Len(wire) + Len(commands) /\ Len(wire) \in Nat /\ Len(commands) \in Nat
  BY Joined DEF TypeOK
<1>2. Len(<<>>) = 0
  OBVIOUS
<1> QED
  BY <1>1, <1>2 DEF FlushOk

LEMMA PrefixShorter ==
  ASSUME NEW S, NEW s \in Seq(S), NEW p \in Prefixes(s)
  PROVE  /\ Len(p) <= Len(s) /\ Len(p) \in Nat /\ Len(s) \in Nat
         /\ Len(p) = Len(s) => p = s
         /\ \A i \in 1 .. Len(p) : p[i] = s[i]
<1>1. PICK k \in 0 .. Len(s) : p = SubSeq(s, 1, k)
  BY DEF Prefixes
<1>2. Len(s) \in Nat /\ k \in Int /\ \A i \in 1 .. k : i \in 1 .. Len(s)
  BY LenProperties
<1>3. \A i \in 1 .. k : s[i] \in S
  BY <1>2, ElementOfSeq
<1>4. Len(p) = k /\ \A i \in 1 .. k : p[i] = s[i]
  BY <1>1, <1>2, <1>3, SubSeqProperties
<1>5. k = Len(s) => p = s
  BY <1>1, SubSeqFull
<1> QED
  BY <1>2, <1>4, <1>5

(* The server's answer is one reply, or two to a subscription.              *)
LEMMA ServeCounts ==
  ASSUME TypeOK, Serve
  PROVE  /\ inbox' \in {Append(inbox, [to |-> Head(wire), error |-> e]) : e \in BOOLEAN}
               \/ Head(wire).op \in SubscriberOps
         /\ Head(wire).op \notin SubscriberOps => Len(inbox') = Len(inbox) + 1
<1> DEFINE answer(e) == [to |-> Head(wire), error |-> e]
<1>1. Head(wire) \in Commands /\ inbox \in Seq(Replies)
  BY Shorter DEF Serve, TypeOK
<1>2. \A e \in BOOLEAN : answer(e) \in Replies
  BY <1>1, AnswerTyped
<1>3. \A e \in BOOLEAN : Len(Append(inbox, answer(e))) = Len(inbox) + 1
  <2> HIDE DEF answer
  <2> QED
    BY <1>1, <1>2, Longer
<1>4. inbox \o <<answer(FALSE)>> = Append(inbox, answer(FALSE))
  <2> DEFINE a == answer(FALSE)
  <2>1. a \in Replies
    BY <1>2
  <2> HIDE DEF a
  <2>2. inbox \o <<a>> = Append(inbox, a)
    BY <1>1, <2>1, AppendIsConcat
  <2> QED
    BY <2>2 DEF a
<1>5. Head(wire).op \notin SubscriberOps => inbox' \in {Append(inbox, answer(e)) : e \in BOOLEAN}
  BY DEF Serve
<1> QED
  BY <1>3, <1>5

LEMMA CountsNext ==
  ASSUME LeaseInv, [Next]_vars, ConnInv', ~Doomed'
  PROVE  Counts'
<1> USE DEF client, server, Unwritten, Uncounted, Answers
<1> SUFFICES ASSUME Plain' PROVE Total' <= Answers'
  BY DEF Counts
<1>0. Phases /\ TypeOK /\ Places
  BY DEF LeaseInv, ConnInv
<1>t. /\ pending \in Nat /\ want \in Nat /\ sent \in Nat
      /\ buf \in Seq(Commands) /\ wire \in Seq(Commands) /\ inbox \in Seq(Replies)
      /\ Len(buf) \in Nat /\ Len(wire) \in Nat /\ Len(inbox) \in Nat
  BY <1>0, LenProperties DEF TypeOK
<1>i. inbox # <<>> => Len(Tail(inbox)) = Len(inbox) - 1 /\ Len(inbox) >= 1
  BY <1>t, Shorter
<1>e. Len(<<>>) = 0
  OBVIOUS
<1>1. CASE PutBack
  BY <1>1, <1>e DEF PutBack, Total
<1>2. CASE ~PutBack
  <2>0. ~Doomed /\ Tagged /\ Counts /\ LastFound
    BY <1>2, DoomStays DEF LeaseInv, Fit
  <2>c. state' = state => Total <= Answers /\ Plain
    BY <2>0 DEF Plain, Counts
  <2>f. ~Fatal
    BY DEF Fatal, Doomed
  <2>1. ASSUME NEW op \in Ops, SendCount(op) PROVE Total' <= Answers'
    <3>1. Plain
      BY <1>0, <2>1, FlaggedPhases DEF SendCount, Plain
    <3> QED
      BY <1>t, <2>0, <2>1, <3>1 DEF SendCount, Counts, Total
  <2>2. CASE SendWrite
    <3>1. Len(buf') = Len(buf) + 1
      BY <1>0, <1>t, <2>2, Longer DEF SendWrite, Places
    <3> QED
      BY <1>t, <2>c, <2>2, <3>1 DEF SendWrite, Total
  <2>3. CASE Flush
    <3>1. FlushOk(buf) /\ inbox' = inbox /\ buf' = <<>>
      BY <2>f, <2>3 DEF Flush
    <3>2. Len(wire') <= Len(wire) + Len(buf) /\ Len(wire') \in Nat
      BY <1>0, <1>t, <3>1, FlushShorter
    <3> QED
      BY <1>t, <1>e, <2>c, <2>3, <3>1, <3>2 DEF Flush, Total
  <2>4. ASSUME NEW op \in Ops, DoBegin(op) PROVE Total' <= Answers'
    <3>1. Plain
      BY <1>0, <2>4, FlaggedPhases DEF DoBegin, Plain
    <3>2. FlushOk(Append(buf, Command(op))) /\ inbox' = inbox /\ buf' = <<>> /\ want' = pending + 1 /\ pc' = "do"
      BY <2>f, <2>4 DEF DoBegin, ToRead
    <3>3. Append(buf, Command(op)) \in Seq(Commands) /\ Len(Append(buf, Command(op))) = Len(buf) + 1
      BY <1>0, <1>t, CommandTyped, Longer
    <3>4. Len(wire') <= Len(wire) + (Len(buf) + 1) /\ Len(wire') \in Nat
      BY <1>0, <3>2, <3>3, FlushShorter
    <3> QED
      BY <1>t, <1>e, <2>0, <2>4, <3>1, <3>2, <3>4 DEF DoBegin, Counts, Total
  <2>5. CASE DoRead \/ DrainRead
    <3>1. want >= 1 /\ pending = 0 /\ reader = "out"
      BY <1>0, <2>5 DEF DoRead, DrainRead, Places, TypeOK
    <3> QED
      BY <1>t, <1>i, <2>c, <2>5, <3>1 DEF DoRead, DrainRead, Total
  <2>6. CASE Receive
    BY <1>t, <2>c, <2>6 DEF Receive, Total
  <2>7. CASE ReceiveRead
    BY <1>0, <1>t, <1>i, <2>c, <2>7 DEF ReceiveRead, Total, Places
  <2>8. CASE ReceiveCount
    BY <1>0, <1>t, <2>c, <2>8 DEF ReceiveCount, Lowered, Total, Places
  <2>9. ~ReadError /\ ~Deadline
    BY <2>f DEF ReadError, Deadline, ReadFails
  <2>10. CASE Close
    <3>1. state' = state \ {"multi", "watch"} /\ pc = "use" /\ pc' \in {"sentinel", "flush"} /\ reader = "out" /\ reader' = "out"
      BY <2>10 DEF Close
    <3>2. "subscribe" \notin state /\ Plain
      BY <3>1 DEF Plain
    <3>3. buf' = buf \o Undoing /\ pending' = pending + Len(Undo) /\ UNCHANGED <<wire, inbox>> /\ pc' = "flush"
      BY <2>10, <3>2 DEF Close, Undoing
    <3>4. Len(buf') = Len(buf) + Len(Undo) /\ Len(Undo) \in Nat
      <4>1. Undoing \in Seq(Commands) /\ Len(Undoing) = Len(Undo) /\ Len(Undo) \in Nat
        BY <1>0, UndoTyped, UndoingTyped
      <4>2. Len(buf \o Undoing) = Len(buf) + Len(Undoing)
        BY <1>t, <4>1, Joined
      <4> QED
        BY <3>3, <4>1, <4>2
    <3>5. Len(buf) + Len(wire) + Len(inbox) <= pending
      BY <1>t, <2>0, <3>1, <3>2 DEF Counts, Total
    <3>6. Total' = Len(buf') + Len(wire) + Len(inbox) + 0 + 0 /\ Answers' = pending'
      BY <3>1, <3>3 DEF Total
    <3> QED
      BY <1>t, <3>3, <3>4, <3>5, <3>6
  <2>11. CASE SentinelRead
    <3>1. "subscribe" \in state /\ buf = <<>> /\ pc = "sentinel" /\ reader = "out"
      BY <1>0, <2>11 DEF SentinelRead, Phases, Places, TypeOK
    <3>2. state' # state /\ inbox # <<>> /\ inbox' = Tail(inbox)
      BY <2>11, <3>1 DEF SentinelRead, Plain
    <3>3. Found(Head(inbox))
      BY <2>11, <3>2 DEF SentinelRead, Found
    <3>4. Len(inbox) >= 1 /\ Head(inbox) = inbox[1]
      BY <1>i, <3>2
    <3>5. 1 \in 1 .. Len(inbox) /\ Found(inbox[1])
      BY <1>t, <3>3, <3>4
    <3>6. 1 = Len(inbox) /\ wire = <<>>
      BY <2>0, <3>1, <3>5 DEF LastFound
    <3>7. Len(inbox') = 0
      BY <1>i, <3>2, <3>6
    <3>8. /\ UNCHANGED <<reader, buf, wire>> /\ pc' = "flush" /\ pending' \in Nat
      BY <1>t, <2>11, <3>3 DEF SentinelRead, Found, Lowered
    <3> QED
      BY <1>e, <3>1, <3>6, <3>7, <3>8 DEF Total
  <2>12. CASE DrainBegin
    <3>1. state' = state /\ pc = "flush" /\ pc' \in {"drain", "put"} /\ reader' = reader /\ reader = "out"
      BY <1>0, <2>12 DEF DrainBegin, Places, TypeOK
    <3>2. Len(buf) + Len(wire) + Len(inbox) <= pending
      BY <1>t, <2>c, <3>1 DEF Total
    <3>3. CASE pending = 0
      BY <1>t, <2>12, <3>1, <3>2, <3>3 DEF DrainBegin, Taken, Total
    <3>4. CASE pending # 0
      <4>1. FlushOk(buf) /\ inbox' = inbox /\ buf' = <<>> /\ pc' = "drain" /\ want' = pending
        BY <2>f, <2>12, <3>4 DEF DrainBegin
      <4>2. Len(wire') <= Len(wire) + Len(buf) /\ Len(wire') \in Nat
        BY <1>0, <1>t, <4>1, FlushShorter
      <4> QED
        BY <1>t, <1>e, <3>1, <3>2, <4>1, <4>2 DEF Total
    <3> QED
      BY <3>3, <3>4
  <2>13. CASE Put
    BY <1>0, <1>e, <2>13, PutClean DEF Put, Total, Places
  <2>14. CASE Borrow \/ Dial
    <3>1. buf = <<>> /\ wire = <<>> /\ inbox = <<>> /\ pending = 0
      BY <1>0, <2>14, PooledClean DEF Borrow, Dial, LeaseInv
    <3>2. reader = "out"
      BY <1>0, <2>14 DEF Borrow, Dial, Places, TypeOK
    <3> QED
      BY <1>e, <2>14, <3>1, <3>2 DEF Borrow, Dial, Total
  <2>15. CASE Spill
    <3>1. Head(buf) \in Commands /\ Len(Tail(buf)) = Len(buf) - 1
      BY <1>t, <2>15, Shorter DEF Spill
    <3>2. Len(Append(wire, Head(buf))) = Len(wire) + 1
      BY <1>t, <3>1, Longer
    <3> QED
      BY <1>t, <2>c, <2>15, <3>1, <3>2 DEF Spill, Total
  <2>16. CASE Serve
    <3>1. wire # <<>> /\ wire' = Tail(wire) /\ UNCHANGED <<client, up, pushed, buf>>
      BY <2>16 DEF Serve
    <3>2. Head(wire) \in Marked /\ Len(wire') = Len(wire) - 1
      <4> DEFINE M == Marked
      <4>1. wire \in Seq(M)
        BY <2>0 DEF Tagged
      <4> HIDE DEF M
      <4>2. Head(wire) \in M /\ Len(wire') = Len(wire) - 1
        BY <3>1, <4>1, Shorter
      <4> QED
        BY <4>2 DEF M
    <3>3. Head(wire).op \notin SubscriberOps
      BY <2>c, <3>1, <3>2 DEF Marked, Plain
    <3>4. Len(inbox') = Len(inbox) + 1
      BY <1>0, <2>16, <3>3, ServeCounts
    <3> QED
      BY <1>t, <2>c, <3>1, <3>2, <3>4 DEF Total
  <2>17. ~Publish
    BY <2>0, <2>c DEF Publish, Tagged, Plain
  <2>18. CASE Drop
    <3>1. wire' = <<>> /\ inbox' \in Prefixes(inbox) /\ UNCHANGED <<client, buf>>
      BY <2>18 DEF Drop
    <3>2. Len(inbox') <= Len(inbox) /\ Len(inbox') \in Nat
      BY <1>t, <3>1, PrefixShorter
    <3> QED
      BY <1>t, <1>e, <2>c, <3>1, <3>2 DEF Total
  <2>19. CASE UNCHANGED vars
    BY <2>c, <2>19 DEF vars, Total
  <2> QED
    BY <1>2, <2>1, <2>2, <2>3, <2>4, <2>5, <2>6, <2>7, <2>8, <2>9, <2>10, <2>11, <2>12, <2>13,
       <2>14, <2>15, <2>16, <2>17, <2>18, <2>19 DEF Next, Write, Read, Closing
<1> QED
  BY <1>1, <1>2

LEMMA LastAppended ==
  ASSUME NEW S, NEW s \in Seq(S), NEW x \in S
  PROVE  /\ Append(s, x)[Len(Append(s, x))] = x
         /\ Append(s, x) # <<>>
  BY AppendProperties, LenProperties

LEMMA LastJoined ==
  ASSUME NEW S, NEW s \in Seq(S), NEW t \in Seq(S), t # <<>>
  PROVE  (s \o t)[Len(s \o t)] = t[Len(t)]
<1>1. Len(s) \in Nat /\ Len(t) \in Nat /\ Len(t) >= 1 /\ Len(s \o t) = Len(s) + Len(t)
  BY Joined, Shorter
<1>2. \A i \in 1 .. Len(s) + Len(t) : (s \o t)[i] = IF i <= Len(s) THEN s[i] ELSE t[i - Len(s)]
  BY ConcatProperties
<1> QED
  BY <1>1, <1>2

LEMMA LastOfTail ==
  ASSUME NEW S, NEW s \in Seq(S), s # <<>>
  PROVE  /\ Tail(s) # <<>> => Tail(s)[Len(Tail(s))] = s[Len(s)]
         /\ Tail(s) = <<>> => Head(s) = s[Len(s)]
<1>1. /\ Tail(s) \in Seq(S) /\ Len(Tail(s)) = Len(s) - 1 /\ Len(s) \in Nat /\ Head(s) = s[1]
      /\ \A i \in 1 .. Len(Tail(s)) : Tail(s)[i] = s[i + 1]
  BY HeadTailProperties, LenProperties
<1>2. Tail(s) # <<>> => Len(Tail(s)) >= 1
  BY <1>1, Shorter
<1>3. Tail(s) = <<>> => Len(s) = 1
  BY <1>1, EmptySeq
<1> QED
  BY <1>1, <1>2, <1>3

LEMMA OwnNext ==
  ASSUME LeaseInv, [Next]_vars, ConnInv'
  PROVE  Own'
<1> USE DEF client, server, Unwritten, Uncounted, Answers
<1> SUFFICES ASSUME pc' = "do" PROVE Own'
  BY DEF Own
<1>0. Phases /\ TypeOK /\ Places /\ Own
  BY DEF LeaseInv, ConnInv
<1>t. /\ pending \in Nat /\ want \in Nat /\ sent \in Nat
      /\ buf \in Seq(Commands) /\ wire \in Seq(Commands) /\ inbox \in Seq(Replies)
      /\ Len(buf) \in Nat /\ Len(wire) \in Nat /\ Len(inbox) \in Nat
  BY <1>0, LenProperties DEF TypeOK
<1>i. inbox # <<>> => Len(Tail(inbox)) = Len(inbox) - 1 /\ Len(inbox) >= 1
  BY <1>t, Shorter
<1>e. Len(<<>>) = 0
  OBVIOUS
<1>f. pc \in {"use", "do"} /\ ~err => Fit
  BY DEF LeaseInv, Doomed
<1>1. ASSUME NEW op \in Ops, DoBegin(op) PROVE Own'
  <2> DEFINE c == Command(op)
             all == Append(buf, c)
  <2>1. c \in Commands
    BY <1>0, CommandTyped
  <2>2. all \in Seq(Commands) /\ all # <<>> /\ all[Len(all)] = c
    BY <1>t, <2>1, Longer, LastAppended
  <2>3. /\ pc = "use" /\ reader = "out" /\ reader' = "out" /\ Allowed(op) /\ state' = Flagged(state, op)
        /\ FlushOk(all) /\ cmd' = c /\ want' = pending + 1 /\ UNCHANGED <<err, up, inbox>> /\ buf' = <<>>
    BY <1>1 DEF DoBegin, ToRead
  <2> HIDE DEF c, all
  <2>4. ~err /\ Fit
    BY <1>f, <2>2, <2>3 DEF FlushOk
  <2>5. CASE up
    <3>1. wire' = wire \o all
      BY <2>3, <2>5 DEF FlushOk
    <3>2. Len(wire \o all) = Len(wire) + Len(all) /\ Len(all) >= 1 /\ Len(all) \in Nat
      BY <1>t, <2>2, Joined, Shorter
    <3>3. wire' # <<>>
      BY <1>t, <1>e, <3>1, <3>2
    <3>4. wire'[Len(wire')] = cmd'
      BY <1>t, <2>2, <2>3, <3>1, LastJoined
    <3> QED
      BY <3>3, <3>4 DEF Own
  <2>6. CASE ~up
    <3>1. wire' = <<>>
      BY <2>3, <2>6 DEF FlushOk
    <3>2. Plain' => Plain
      BY <1>0, <2>3, FlaggedPhases DEF Plain
    <3>3. Plain' => Len(buf) + Len(wire) + Len(inbox) <= pending
      BY <1>t, <2>3, <2>4, <3>2 DEF Fit, Counts, Total
    <3>4. Plain' => Total' # Answers'
      BY <1>t, <1>e, <2>3, <3>1, <3>3 DEF Total
    <3> QED
      BY <3>1, <3>4 DEF Own
  <2> QED
    BY <2>5, <2>6
<1>2. CASE pc = "do"
  <2>0. Fit /\ ~err /\ buf = <<>> /\ reader = "out" /\ pending = 0
    BY <1>0, <1>2, <1>f DEF Phases, Places, TypeOK
  <2>c. Plain => Len(wire) + Len(inbox) <= want /\ Total = Len(wire) + Len(inbox)
    BY <1>t, <1>e, <1>2, <2>0 DEF Fit, Counts, Total
  <2>1. CASE DoRead
    <3>1. inbox # <<>> /\ inbox' = Tail(inbox) /\ want' = want - 1 /\ cmd' = cmd
          /\ UNCHANGED <<reader, pending, state, buf, wire>>
      BY <1>2, <2>1 DEF DoRead
    <3>2. inbox' # <<>> => inbox'[Len(inbox')] = inbox[Len(inbox)]
      BY <1>t, <3>1, LastOfTail
    <3>3. Total' = Total - 1 /\ Answers' = Answers - 1 /\ Total \in Nat /\ Answers \in Nat
      BY <1>t, <1>e, <1>i, <1>2, <2>0, <3>1 DEF Total
    <3>4. Total' = Answers' => Total = Answers
      BY <3>3
    <3> QED
      BY <1>0, <1>2, <3>1, <3>2, <3>4 DEF Own, Plain
  <2>2. CASE Serve
    <3>1. wire # <<>> /\ wire' = Tail(wire) /\ UNCHANGED <<client, buf>>
      BY <2>2 DEF Serve
    <3>2. wire[Len(wire)] = cmd
      BY <1>0, <1>2, <3>1 DEF Own
    <3>3. wire' # <<>> => wire'[Len(wire')] = cmd
      BY <1>t, <3>1, <3>2, LastOfTail
    <3>4. wire' = <<>> => Head(wire) = cmd
      BY <1>t, <3>1, <3>2, LastOfTail
    <3>5. Plain => Head(wire).op \notin SubscriberOps
      <4> DEFINE M == Marked
      <4>1. wire \in Seq(M)
        BY <2>0 DEF Fit, Tagged
      <4> HIDE DEF M
      <4>2. Head(wire) \in M
        BY <3>1, <4>1, Shorter
      <4> QED
        BY <4>2 DEF M, Marked, Plain
    <3>6. Plain => inbox'[Len(inbox')].to = Head(wire)
      <4> SUFFICES ASSUME Plain PROVE inbox'[Len(inbox')].to = Head(wire)
        OBVIOUS
      <4>1. PICK e \in BOOLEAN : inbox' = Append(inbox, [to |-> Head(wire), error |-> e])
        BY <1>0, <2>2, <3>5, ServeCounts
      <4> DEFINE a == [to |-> Head(wire), error |-> e]
      <4>2. Head(wire) \in Commands
        BY <1>t, <3>1, Shorter
      <4>3. a \in Replies /\ a.to = Head(wire)
        BY <4>2, AnswerTyped
      <4> HIDE DEF a
      <4>4. Append(inbox, a)[Len(Append(inbox, a))] = a
        BY <1>t, <4>3, LastAppended
      <4> QED
        BY <4>1, <4>3, <4>4 DEF a
    <3> QED
      BY <3>1, <3>3, <3>4, <3>6 DEF Own, Plain
  <2>3. CASE Publish
    <3>1. ~Plain /\ UNCHANGED <<client, wire>>
      BY <2>0, <2>3 DEF Publish, Fit, Tagged, Plain
    <3> QED
      BY <1>0, <1>2, <3>1 DEF Own, Plain
  <2>4. CASE Drop
    <3>1. wire' = <<>> /\ inbox' \in Prefixes(inbox) /\ UNCHANGED <<client, buf>>
      BY <2>4 DEF Drop
    <3>2. /\ Len(inbox') <= Len(inbox) /\ Len(inbox') \in Nat
          /\ Len(inbox') = Len(inbox) => inbox' = inbox
      BY <1>t, <3>1, PrefixShorter
    <3>3. Total' = Len(inbox') /\ Answers' = want
      BY <1>e, <1>2, <2>0, <3>1, <3>2 DEF Total
    <3>4. Plain /\ Total' = Answers' => inbox' = inbox /\ Len(wire) = 0 /\ Total = Answers
      BY <1>t, <1>2, <2>c, <3>2, <3>3
    <3>5. Plain /\ Total' = Answers' => wire = <<>>
      BY <1>t, <3>4, EmptySeq
    <3> QED
      BY <1>0, <1>2, <3>1, <3>4, <3>5 DEF Own, Plain
  <2>5. ~Spill
    BY <2>0 DEF Spill
  <2>6. CASE UNCHANGED vars
    BY <1>0, <2>6 DEF vars, Own, Plain, Total
  <2>7. /\ \A op \in Ops : ~SendCount(op) /\ ~DoBegin(op)
        /\ ~SendWrite /\ ~Flush /\ ~Receive /\ ~ReceiveRead /\ ~ReceiveCount /\ ~Close /\ ~Closing
        /\ ~Borrow /\ ~Dial
    BY <1>2, <2>0 DEF SendCount, DoBegin, SendWrite, Flush, Receive, ReceiveRead, ReceiveCount, Close,
       Closing, SentinelRead, DrainBegin, DrainRead, Put, PutBack, Borrow, Dial
  <2>8. ~ReadError /\ ~Deadline
    BY <1>2 DEF ReadError, Deadline, ReadFails, AfterError
  <2> QED
    BY <2>1, <2>2, <2>3, <2>4, <2>5, <2>6, <2>7, <2>8 DEF Next, Write, Read
<1>3. pc # "do" => \E op \in Ops : DoBegin(op)
  <2>1. pc # "do" => /\ \A op \in Ops : ~SendCount(op)
                     /\ ~SendWrite /\ ~Flush /\ ~Receive /\ ~DoRead /\ ~ReceiveRead /\ ~ReceiveCount
                     /\ ~Close /\ ~Closing /\ ~Borrow /\ ~Dial /\ ~Spill /\ ~Serve /\ ~Publish /\ ~Drop
    BY DEF SendCount, SendWrite, Flush, Receive, DoRead, ReceiveRead, ReceiveCount, Close,
       Closing, SentinelRead, DrainBegin, DrainRead, Put, PutBack, Borrow, Dial, Spill, Serve, Publish, Drop
  <2>2. pc # "do" => ~ReadError /\ ~Deadline
    BY DEF ReadError, Deadline, ReadFails, AfterError
  <2>3. pc # "do" => ~UNCHANGED vars
    BY DEF vars
  <2> QED
    BY <2>1, <2>2, <2>3 DEF Next, Write, Read
<1> QED
  BY <1>1, <1>2, <1>3

------------------------------------------------------------------------------
(* The commands under way, before and after a step                          *)

LEMMA AppendInto ==
  ASSUME NEW S, NEW s \in Seq(S), NEW t \in Seq(S), NEW x \in S
  PROVE  s \o Append(t, x) = Append(s \o t, x)
<1>1. <<x>> \in Seq(S) /\ s \o t \in Seq(S)
  BY Joined
<1>2. Append(t, x) = t \o <<x>> /\ Append(s \o t, x) = (s \o t) \o <<x>>
  BY <1>1, AppendIsConcat
<1> QED
  BY <1>1, <1>2, ConcatAssociative

LEMMA HeadMoves ==
  ASSUME NEW S, NEW s \in Seq(S), NEW t \in Seq(S), t # <<>>
  PROVE  Append(s, Head(t)) \o Tail(t) = s \o t
<1> DEFINE v == Append(s, Head(t)) \o Tail(t)
           w == s \o t
           n == Len(s)
           m == Len(t)
<1>1. /\ Head(t) \in S /\ Tail(t) \in Seq(S) /\ Len(Tail(t)) = m - 1 /\ m \in Nat /\ m >= 1 /\ n \in Nat
      /\ Head(t) = t[1]
  BY Shorter, LenProperties
<1>2. \A i \in 1 .. m - 1 : Tail(t)[i] = t[i + 1]
  BY <1>1, HeadTailProperties
<1>3. /\ Append(s, Head(t)) \in Seq(S) /\ Len(Append(s, Head(t))) = n + 1
      /\ \A i \in 1 .. n : Append(s, Head(t))[i] = s[i]
      /\ Append(s, Head(t))[n + 1] = t[1]
  BY <1>1, AppendProperties
<1>4. v \in Seq(S) /\ Len(v) = n + m
  BY <1>1, <1>3, ConcatProperties
<1>5. \A i \in 1 .. (n + 1) + (m - 1) :
        v[i] = IF i <= n + 1 THEN Append(s, Head(t))[i] ELSE Tail(t)[i - (n + 1)]
  BY <1>1, <1>3, ConcatProperties
<1>6. w \in Seq(S) /\ Len(w) = n + m /\ \A i \in 1 .. n + m : w[i] = IF i <= n THEN s[i] ELSE t[i - n]
  BY <1>1, ConcatProperties
<1> HIDE DEF v, w, n, m
<1>7. \A i \in 1 .. n + m : v[i] = w[i]
  <2> SUFFICES ASSUME NEW i \in 1 .. n + m PROVE v[i] = w[i]
    OBVIOUS
  <2>1. CASE i <= n
    BY <1>1, <1>3, <1>5, <1>6, <2>1
  <2>2. CASE i = n + 1
    BY <1>1, <1>3, <1>5, <1>6, <2>2
  <2>3. CASE i > n + 1
    <3>1. v[i] = Tail(t)[i - (n + 1)] /\ w[i] = t[i - n]
      BY <1>1, <1>5, <1>6, <2>3
    <3>2. i - (n + 1) \in 1 .. m - 1
      BY <1>1, <2>3
    <3>3. Tail(t)[i - (n + 1)] = t[(i - (n + 1)) + 1]
      BY <1>2, <3>2
    <3>4. (i - (n + 1)) + 1 = i - n
      BY <1>1
    <3> QED
      BY <3>1, <3>3, <3>4
  <2> QED
    BY <1>1, <2>1, <2>2, <2>3
<1>8. v = w
  BY <1>4, <1>6, <1>7, SeqEqual
<1> QED
  BY <1>8 DEF v, w

LEMMA TailJoined ==
  ASSUME NEW S, NEW s \in Seq(S), NEW t \in Seq(S), s # <<>>
  PROVE  Head(s \o t) = Head(s) /\ Tail(s \o t) = Tail(s) \o t /\ s \o t # <<>>
<1> DEFINE u == s \o t
           v == Tail(s \o t)
           w == Tail(s) \o t
           n == Len(s)
           m == Len(t)
<1>1. /\ Tail(s) \in Seq(S) /\ Len(Tail(s)) = n - 1 /\ m \in Nat /\ n >= 1 /\ n \in Nat
      /\ Head(s) = s[1]
  BY Shorter, LenProperties
<1>2. \A i \in 1 .. n - 1 : Tail(s)[i] = s[i + 1]
  BY <1>1, HeadTailProperties
<1>3. u \in Seq(S) /\ Len(u) = n + m /\ \A i \in 1 .. n + m : u[i] = IF i <= n THEN s[i] ELSE t[i - n]
  BY ConcatProperties
<1>4. u # <<>>
  BY <1>1, <1>3, EmptySeq
<1>5. Head(u) = u[1] /\ u[1] = s[1]
  BY <1>1, <1>3
<1>6. v \in Seq(S) /\ Len(v) = (n + m) - 1 /\ \A i \in 1 .. (n + m) - 1 : v[i] = u[i + 1]
  BY <1>3, <1>4, HeadTailProperties
<1>7. w \in Seq(S) /\ Len(w) = (n - 1) + m
      /\ \A i \in 1 .. (n - 1) + m : w[i] = IF i <= n - 1 THEN Tail(s)[i] ELSE t[i - (n - 1)]
  BY <1>1, ConcatProperties
<1> HIDE DEF u, v, w, n, m
<1>8. \A i \in 1 .. (n + m) - 1 : v[i] = w[i]
  <2> SUFFICES ASSUME NEW i \in 1 .. (n + m) - 1 PROVE v[i] = w[i]
    OBVIOUS
  <2>1. CASE i <= n - 1
    BY <1>1, <1>2, <1>3, <1>6, <1>7, <2>1
  <2>2. CASE i > n - 1
    <3>1. v[i] = u[i + 1] /\ w[i] = t[i - (n - 1)]
      <4>1. i \in 1 .. (n - 1) + m /\ ~(i <= n - 1)
        BY <1>1, <2>2
      <4>2. w[i] = t[i - (n - 1)]
        BY <1>7, <4>1
      <4> QED
        BY <1>6, <4>2
    <3>2. u[i + 1] = t[(i + 1) - n] /\ (i + 1) - n = i - (n - 1)
      BY <1>1, <1>3, <2>2
    <3> QED
      BY <3>1, <3>2
  <2> QED
    BY <1>1, <2>1, <2>2
<1>9. Len(v) = Len(w)
  BY <1>1, <1>6, <1>7
<1>10. v = w
  BY <1>1, <1>6, <1>7, <1>8, <1>9, SeqEqual
<1> QED
  BY <1>1, <1>4, <1>5, <1>10 DEF u, v, w

LEMMA WayTyped ==
  ASSUME TypeOK, Places
  PROVE  /\ Way \in Seq(Commands)
         /\ wire \o buf \in Seq(Commands)
         /\ pc = "write" => cmd \in Commands /\ Way = Append(wire \o buf, cmd)
         /\ pc # "write" => Way = wire \o buf
<1>1. wire \o buf \in Seq(Commands)
  BY Joined DEF TypeOK
<1>2. CASE pc = "write"
  <2>1. cmd \in Commands
    BY <1>2 DEF Places
  <2>2. Append(wire \o buf, cmd) = (wire \o buf) \o <<cmd>> /\ Append(wire \o buf, cmd) \in Seq(Commands)
    BY <1>1, <2>1, AppendIsConcat, Longer
  <2>3. wire \in Seq(Commands) /\ buf \in Seq(Commands) /\ <<cmd>> \in Seq(Commands)
    BY <2>1 DEF TypeOK
  <2>4. (wire \o buf) \o <<cmd>> = wire \o (buf \o <<cmd>>)
    BY <2>3, ConcatAssociative
  <2>5. Way = Append(wire \o buf, cmd)
    BY <1>2, <2>2, <2>4 DEF Way
  <2> QED
    BY <1>1, <1>2, <2>1, <2>2, <2>5
<1>3. CASE pc # "write"
  <2>1. wire \in Seq(Commands) /\ buf \in Seq(Commands)
    BY DEF TypeOK
  <2>2. (wire \o buf) \o <<>> = wire \o buf /\ buf \o <<>> = buf
    BY <1>1, <2>1, ConcatEmptySeq
  <2>3. Way = wire \o buf
    BY <1>3, <2>2 DEF Way
  <2> QED
    BY <1>1, <1>3, <2>3
<1> QED
  BY <1>2, <1>3

------------------------------------------------------------------------------
(* What Close leaves behind                                                 *)

LEMMA LeadsJoined ==
  ASSUME NEW s \in SUBSET Modes, NEW w \in Seq(Commands), NEW e, NEW f \in BOOLEAN, Leads(s, w, e, f),
         NEW v \in Seq(Commands), NEW x, NEW g \in BOOLEAN, Leads(e, v, x, g)
  PROVE  Leads(s, w \o v, x, f \/ g)
<1> DEFINE n == Len(w)
           m == Len(v)
           u == w \o v
<1>1. PICK one \in [1 .. n + 1 -> SUBSET Modes] :
        /\ one[1] = s /\ one[n + 1] = e
        /\ \A i \in 1 .. n : one[i + 1] = Executed(one[i], w[i].op)
        /\ f => \E i \in 1 .. n : Refuses(one[i], w[i].op)
  BY DEF Leads
<1>2. PICK two \in [1 .. m + 1 -> SUBSET Modes] :
        /\ two[1] = e /\ two[m + 1] = x
        /\ \A i \in 1 .. m : two[i + 1] = Executed(two[i], v[i].op)
        /\ g => \E i \in 1 .. m : Refuses(two[i], v[i].op)
  BY DEF Leads
<1>3. n \in Nat /\ m \in Nat /\ Len(u) = n + m /\ \A i \in 1 .. n + m : u[i] = IF i <= n THEN w[i] ELSE v[i - n]
  BY ConcatProperties, LenProperties
<1> HIDE DEF n, m, u
<1> DEFINE new == [i \in 1 .. n + m + 1 |-> IF i <= n THEN one[i] ELSE two[i - n]]
<1>4. /\ \A i \in 1 .. n : new[i] = one[i] /\ u[i] = w[i]
      /\ \A i \in 1 .. m : u[n + i] = v[i]
      /\ \A i \in 1 .. m + 1 : new[n + i] = two[i]
  <2>1. \A i \in 1 .. n : new[i] = one[i] /\ u[i] = w[i]
    BY <1>3
  <2>2. \A i \in 1 .. m + 1 : n + i \in 1 .. n + m + 1 /\ ~(n + i <= n) /\ (n + i) - n = i
    BY <1>3
  <2>3. \A i \in 1 .. m : n + i \in 1 .. n + m /\ ~(n + i <= n) /\ (n + i) - n = i
    BY <1>3
  <2>4. \A i \in 1 .. m : u[n + i] = v[i]
    BY <1>3, <2>3
  <2>5. \A i \in 1 .. m + 1 : new[n + i] = two[i]
    BY <2>2
  <2> QED
    BY <2>1, <2>4, <2>5
<1>5. new \in [1 .. Len(u) + 1 -> SUBSET Modes]
  <2>1. \A i \in 1 .. n + m + 1 : (IF i <= n THEN one[i] ELSE two[i - n]) \in SUBSET Modes
    <3> SUFFICES ASSUME NEW i \in 1 .. n + m + 1 PROVE (IF i <= n THEN one[i] ELSE two[i - n]) \in SUBSET Modes
      OBVIOUS
    <3>1. CASE i <= n
      <4>1. i \in 1 .. n + 1
        BY <1>3, <3>1
      <4>2. one[i] \in SUBSET Modes
        BY <4>1
      <4> QED
        BY <3>1, <4>2
    <3>2. CASE ~(i <= n)
      <4>1. i - n \in 1 .. m + 1
        BY <1>3, <3>2
      <4>2. two[i - n] \in SUBSET Modes
        BY <4>1
      <4> QED
        BY <3>2, <4>2
    <3> QED
      BY <3>1, <3>2
  <2>2. new \in [1 .. n + m + 1 -> SUBSET Modes]
    BY <2>1
  <2> HIDE DEF new
  <2> QED
    BY <1>3, <2>2
<1>6. new[n + 1] = e /\ new[1] = s /\ new[Len(u) + 1] = x
  <2>1. new[n + 1] = two[1]
    BY <1>3, <1>4
  <2>2. n + (m + 1) = Len(u) + 1 /\ m + 1 \in 1 .. m + 1
    BY <1>3
  <2>3. new[n + (m + 1)] = two[m + 1]
    BY <1>4, <2>2
  <2> HIDE DEF new
  <2>4. new[1] = s
    <3>1. CASE n = 0
      BY <1>1, <1>2, <1>3, <2>1, <3>1
    <3>2. CASE n # 0
      <4>1. 1 \in 1 .. n
        BY <1>3, <3>2
      <4> QED
        BY <1>1, <1>4, <4>1
    <3> QED
      BY <3>1, <3>2
  <2> QED
    BY <1>2, <2>1, <2>2, <2>3, <2>4
<1> HIDE DEF new
<1>7. \A i \in 1 .. Len(u) : new[i + 1] = Executed(new[i], u[i].op)
  <2> SUFFICES ASSUME NEW i \in 1 .. n + m PROVE new[i + 1] = Executed(new[i], u[i].op)
    BY <1>3
  <2>1. CASE i \in 1 .. n
    <3>1. new[i + 1] = one[i + 1]
      <4>1. CASE i = n
        BY <1>1, <1>3, <1>6, <4>1
      <4>2. CASE i # n
        <5>1. i + 1 \in 1 .. n
          BY <1>3, <2>1, <4>2
        <5> QED
          BY <1>4, <5>1
      <4> QED
        BY <4>1, <4>2
    <3> QED
      BY <1>1, <1>4, <2>1, <3>1
  <2>2. CASE i \notin 1 .. n
    <3> DEFINE j == i - n
    <3>1. j \in 1 .. m /\ j \in 1 .. m + 1 /\ j + 1 \in 1 .. m + 1 /\ i = n + j /\ i + 1 = n + (j + 1)
      BY <1>3, <2>2
    <3> HIDE DEF j
    <3>2. new[n + j] = two[j] /\ new[n + (j + 1)] = two[j + 1] /\ u[n + j] = v[j]
      BY <1>4, <3>1
    <3>3. two[j + 1] = Executed(two[j], v[j].op)
      BY <1>2, <3>1
    <3> QED
      BY <3>1, <3>2, <3>3
  <2> QED
    BY <2>1, <2>2
<1>8. f \/ g => \E i \in 1 .. Len(u) : Refuses(new[i], u[i].op)
  <2>1. ASSUME f PROVE \E i \in 1 .. Len(u) : Refuses(new[i], u[i].op)
    <3>1. PICK i \in 1 .. n : Refuses(one[i], w[i].op)
      BY <1>1, <2>1
    <3>2. i \in 1 .. Len(u)
      BY <1>3
    <3> QED
      BY <1>4, <3>1, <3>2
  <2>2. ASSUME g PROVE \E i \in 1 .. Len(u) : Refuses(new[i], u[i].op)
    <3>1. PICK i \in 1 .. m : Refuses(two[i], v[i].op)
      BY <1>2, <2>2
    <3>2. n + i \in 1 .. Len(u) /\ i \in 1 .. m + 1
      BY <1>3
    <3>3. Refuses(new[n + i], u[n + i].op)
      BY <1>4, <3>1, <3>2
    <3> QED
      BY <3>2, <3>3
  <2> QED
    BY <2>1, <2>2
<1> QED
  BY <1>5, <1>6, <1>7, <1>8 DEF Leads, u

(* The commands Close sends undo what a session that agrees with the flags  *)
(* holds; only an UNWATCH within a subscription is refused.                 *)
LEMMA UndoLeads ==
  ASSUME LeaseInv, NEW e \in SUBSET Modes, Agree(e), "monitor" \notin state
  PROVE  \E x \in SUBSET Modes, f \in BOOLEAN :
           /\ Leads(e, Undoing, x, f)
           /\ x = {} \/ f
           /\ "subscribe" \notin state => x = {} /\ ~f
<1>0. /\ Undoing \in Seq(Commands) /\ Len(Undoing) = Len(Undo) /\ Len(Undo) \in Nat
      /\ DOMAIN Undo = 1 .. Len(Undo) /\ ~("multi" \in state /\ "subscribe" \in state)
  BY UndoTyped, UndoingTyped, LenProperties DEF LeaseInv, ConnInv, Phases
<1>1. \A i \in 1 .. Len(Undo) : Undoing[i].op = Undo[i]
  BY <1>0 DEF Undoing
<1>2. "monitor" \notin e
  BY DEF Agree
<1> DEFINE undone(x, f, ses) ==
      /\ ses \in [1 .. Len(Undo) + 1 -> SUBSET Modes]
      /\ ses[1] = e /\ ses[Len(Undo) + 1] = x
      /\ \A i \in 1 .. Len(Undo) : ses[i + 1] = Executed(ses[i], Undo[i])
      /\ f => \E i \in 1 .. Len(Undo) : Refuses(ses[i], Undo[i])
<1>3. \A x, f, ses : undone(x, f, ses) => Leads(e, Undoing, x, f)
  BY <1>0, <1>1 DEF Leads
<1>4. CASE "subscribe" \notin state
  <2>1. ~Subscribed(e) /\ e \subseteq {"watch", "multi"}
    BY <1>2, <1>4 DEF Agree, Subscribed, Modes
  <2>2. CASE "multi" \in state
    <3>1. Undo = <<"DISCARD">>
      BY <1>4, <2>2 DEF Undo, UndoTransaction
    <3>2. Executed(e, "DISCARD") = {}
      BY <2>1, <2>2 DEF Agree, Executed, Refuses, Queues, After, SubscriberOps
    <3>3. undone({}, FALSE, <<e, {}>>)
      BY <3>1, <3>2
    <3> QED
      BY <1>3, <3>3
  <2>3. CASE "multi" \notin state /\ "watch" \in state
    <3>1. Undo = <<"UNWATCH">>
      BY <1>4, <2>3 DEF Undo, UndoTransaction
    <3>2. Executed(e, "UNWATCH") = {}
      BY <2>1, <2>3 DEF Agree, Executed, Refuses, Queues, After, SubscriberOps
    <3>3. undone({}, FALSE, <<e, {}>>)
      BY <3>1, <3>2
    <3> QED
      BY <1>3, <3>3
  <2>4. CASE "multi" \notin state /\ "watch" \notin state
    <3>1. Undo = <<>>
      BY <1>4, <2>4 DEF Undo, UndoTransaction
    <3>2. e = {}
      BY <2>1, <2>4 DEF Agree
    <3>3. undone({}, FALSE, <<e>>)
      BY <3>1, <3>2
    <3> QED
      BY <1>3, <3>3
  <2> QED
    BY <2>2, <2>3, <2>4
<1>5. CASE "subscribe" \in state
  <2>1. "multi" \notin state /\ "multi" \notin e
    BY <1>0, <1>5 DEF Agree
  <2>2. \A s \in SUBSET {"channels", "patterns", "watch"} :
          /\ Executed(s, "UNSUBSCRIBE") = s \ {"channels"}
          /\ Executed(s, "PUNSUBSCRIBE") = s \ {"patterns"}
          /\ Executed(s, Sentinel) = s
    BY DEF Executed, Refuses, Queues, After, SubscriberOps, Sentinel
  <2>3. CASE "watch" \notin state
    <3>1. Undo = <<"UNSUBSCRIBE", "PUNSUBSCRIBE", Sentinel>>
      <4>1. UndoTransaction = <<>>
        BY <2>1, <2>3 DEF UndoTransaction
      <4>2. <<>> \o <<"UNSUBSCRIBE", "PUNSUBSCRIBE", Sentinel>> = <<"UNSUBSCRIBE", "PUNSUBSCRIBE", Sentinel>>
        OBVIOUS
      <4> QED
        BY <1>5, <4>1, <4>2 DEF Undo
    <3>2. e \in SUBSET {"channels", "patterns"}
      BY <1>2, <2>1, <2>3 DEF Agree, Modes
    <3>3. undone({}, FALSE, <<e, e \ {"channels"}, {}, {}>>)
      <4>1. /\ Executed(e, "UNSUBSCRIBE") = e \ {"channels"}
            /\ Executed(e \ {"channels"}, "PUNSUBSCRIBE") = {}
            /\ Executed({}, Sentinel) = {}
        BY <2>2, <3>2
      <4> QED
        BY <3>1, <4>1
    <3> QED
      BY <1>3, <3>3
  <2>4. CASE "watch" \in state
    <3>1. Undo = <<"UNWATCH", "UNSUBSCRIBE", "PUNSUBSCRIBE", Sentinel>>
      <4>1. UndoTransaction = <<"UNWATCH">>
        BY <2>1, <2>4 DEF UndoTransaction
      <4>2. <<"UNWATCH">> \o <<"UNSUBSCRIBE", "PUNSUBSCRIBE", Sentinel>>
              = <<"UNWATCH", "UNSUBSCRIBE", "PUNSUBSCRIBE", Sentinel>>
        <5> DEFINE one == <<"UNWATCH">>
                   three == <<"UNSUBSCRIBE", "PUNSUBSCRIBE", Sentinel>>
                   four == <<"UNWATCH", "UNSUBSCRIBE", "PUNSUBSCRIBE", Sentinel>>
        <5>1. /\ one \in Seq(Names) /\ three \in Seq(Names) /\ four \in Seq(Names)
              /\ Len(one) = 1 /\ Len(three) = 3 /\ Len(four) = 4
          BY DEF Names, SubscriberOps
        <5>2. one[1] = four[1] /\ three[1] = four[2] /\ three[2] = four[3] /\ three[3] = four[4]
          OBVIOUS
        <5> HIDE DEF one, three, four
        <5>3. /\ one \o three \in Seq(Names) /\ Len(one \o three) = 4
              /\ \A i \in 1 .. 4 : (one \o three)[i] = IF i <= 1 THEN one[i] ELSE three[i - 1]
          <6>1. /\ one \o three \in Seq(Names) /\ Len(one \o three) = Len(one) + Len(three)
                /\ \A i \in 1 .. Len(one) + Len(three) :
                     (one \o three)[i] = IF i <= Len(one) THEN one[i] ELSE three[i - Len(one)]
            BY <5>1, ConcatProperties
          <6>2. Len(one) + Len(three) = 4
            BY <5>1
          <6> QED
            BY <5>1, <6>1, <6>2
        <5>4. \A i \in 1 .. 4 : (one \o three)[i] = four[i]
          BY <5>2, <5>3
        <5>5. one \o three = four
          BY <5>1, <5>3, <5>4, SeqEqual
        <5> QED
          BY <5>5 DEF one, three, four
      <4> QED
        BY <1>5, <4>1, <4>2 DEF Undo
    <3>2. e \in SUBSET {"channels", "patterns", "watch"}
      BY <1>2, <2>1 DEF Modes
    <3> DEFINE e1 == Executed(e, "UNWATCH")
               e2 == e1 \ {"channels"}
               e3 == e2 \ {"patterns"}
               ses == <<e, e1, e2, e3, e3>>
    <3>3. IF Subscribed(e) THEN Refuses(e, "UNWATCH") /\ e1 = e
                           ELSE e1 = e \ {"watch"}
      BY <2>1 DEF Executed, Refuses, Queues, After, SubscriberOps
    <3>4. e1 \in SUBSET {"channels", "patterns", "watch"}
      BY <3>2, <3>3
    <3>5. Executed(e1, "UNSUBSCRIBE") = e2 /\ Executed(e2, "PUNSUBSCRIBE") = e3 /\ Executed(e3, Sentinel) = e3
      BY <2>2, <3>4
    <3>6. e3 \in SUBSET Modes /\ e2 \in SUBSET Modes /\ e1 \in SUBSET Modes
      BY <3>4 DEF Modes
    <3>7. ~Subscribed(e) => e3 = {}
      BY <3>2, <3>3 DEF Subscribed
    <3> HIDE DEF e1, e2, e3
    <3>8. undone(e3, Subscribed(e), ses)
      <4>1. Len(Undo) = 4 /\ Undo[1] = "UNWATCH" /\ Undo[2] = "UNSUBSCRIBE" /\ Undo[3] = "PUNSUBSCRIBE" /\ Undo[4] = Sentinel
        BY <3>1
      <4>2. ses \in [1 .. 5 -> SUBSET Modes] /\ ses[1] = e /\ ses[2] = e1 /\ ses[3] = e2 /\ ses[4] = e3 /\ ses[5] = e3
        BY <3>6
      <4> HIDE DEF ses
      <4>3. \A i \in 1 .. 4 : ses[i + 1] = Executed(ses[i], Undo[i])
        <5> SUFFICES ASSUME NEW i \in 1 .. 4 PROVE ses[i + 1] = Executed(ses[i], Undo[i])
          OBVIOUS
        <5>1. i = 1 \/ i = 2 \/ i = 3 \/ i = 4
          OBVIOUS
        <5> QED
          BY <3>5, <4>1, <4>2, <5>1 DEF e1
      <4> QED
        BY <3>3, <4>1, <4>2, <4>3
    <3>9. Leads(e, Undoing, e3, Subscribed(e)) /\ Subscribed(e) \in BOOLEAN
      BY <1>3, <3>8 DEF Subscribed
    <3> QED
      BY <1>5, <3>6, <3>7, <3>9
  <2> QED
    BY <2>3, <2>4
<1> QED
  BY <1>4, <1>5

------------------------------------------------------------------------------
(* Replies                                                                  *)

(* The server's answer comes after what is there; a refusal is an error,    *)
(* and only a subscription is answered more than once.                      *)
LEMMA ServeExtends ==
  ASSUME TypeOK, Serve
  PROVE  /\ Len(inbox') >= Len(inbox) + 1 /\ Len(inbox') \in Nat
         /\ \A i \in 1 .. Len(inbox) : inbox'[i] = inbox[i]
         /\ \A i \in 1 .. Len(inbox') : i > Len(inbox) =>
              inbox'[i].to = Head(wire) /\ (Refuses(session, Head(wire).op) => inbox'[i].error)
         /\ Head(wire).op \notin SubscriberOps => Len(inbox') = Len(inbox) + 1
<1> DEFINE answer(e) == [to |-> Head(wire), error |-> e]
           no == Refuses(session, Head(wire).op)
           n == Len(inbox)
           a == answer(FALSE)
<1>1. Head(wire) \in Commands /\ inbox \in Seq(Replies) /\ n \in Nat
  BY Shorter, LenProperties DEF Serve, TypeOK
<1>2. \A e \in BOOLEAN : answer(e) \in Replies /\ answer(e).to = Head(wire) /\ answer(e).error = e
  BY <1>1, AnswerTyped
<1>3. /\ \A e \in BOOLEAN : inbox' = Append(inbox, answer(e)) /\ (no => e)
           => /\ Len(inbox') = n + 1
              /\ \A i \in 1 .. n : inbox'[i] = inbox[i]
              /\ inbox'[n + 1].to = Head(wire) /\ (no => inbox'[n + 1].error)
  <2> SUFFICES ASSUME NEW e \in BOOLEAN, inbox' = Append(inbox, answer(e)), no => e
               PROVE  /\ Len(inbox') = n + 1
                      /\ \A i \in 1 .. n : inbox'[i] = inbox[i]
                      /\ inbox'[n + 1].to = Head(wire) /\ (no => inbox'[n + 1].error)
    OBVIOUS
  <2> DEFINE b == answer(e)
  <2>1. b \in Replies /\ b.to = Head(wire) /\ b.error = e
    BY <1>2
  <2> HIDE DEF b
  <2>2. /\ Len(Append(inbox, b)) = n + 1
        /\ \A i \in 1 .. n : Append(inbox, b)[i] = inbox[i]
        /\ Append(inbox, b)[n + 1] = b
    BY <1>1, <2>1, AppendProperties
  <2>3. inbox' = Append(inbox, b)
    BY DEF b
  <2> QED
    BY <2>1, <2>2, <2>3
<1>4. \/ \E e \in BOOLEAN : inbox' = Append(inbox, answer(e)) /\ (no => e)
      \/ inbox' = inbox \o <<a>> /\ ~no
      \/ inbox' = inbox \o <<a, a>> /\ ~no /\ Head(wire).op \in SubscriberOps
  BY DEF Serve
<1>5. a \in Replies /\ a.to = Head(wire)
  BY <1>2
<1> HIDE DEF answer, no, n, a
<1>6. inbox \o <<a>> = Append(inbox, a)
  BY <1>1, <1>5, AppendIsConcat
<1>7. CASE \E e \in BOOLEAN : inbox' = Append(inbox, answer(e)) /\ (no => e)
  <2>1. /\ Len(inbox') = n + 1
        /\ \A i \in 1 .. n : inbox'[i] = inbox[i]
        /\ inbox'[n + 1].to = Head(wire) /\ (no => inbox'[n + 1].error)
    BY <1>3, <1>7
  <2>2. \A i \in 1 .. n + 1 : i > n => i = n + 1
    BY <1>1
  <2> QED
    BY <1>1, <2>1, <2>2 DEF n, no
<1>8. CASE inbox' = inbox \o <<a>> /\ ~no
  <2>1. inbox' = Append(inbox, answer(FALSE)) /\ (no => FALSE)
    BY <1>6, <1>8 DEF a
  <2> QED
    BY <1>7, <2>1
<1>9. CASE inbox' = inbox \o <<a, a>> /\ ~no /\ Head(wire).op \in SubscriberOps
  <2> DEFINE two == <<a, a>>
  <2>1. two \in Seq(Replies) /\ Len(two) = 2 /\ two[1] = a /\ two[2] = a
    BY <1>5
  <2> HIDE DEF two
  <2>2. inbox' = inbox \o two
    BY <1>9 DEF two
  <2>3. Len(inbox') = n + 2 /\ \A i \in 1 .. n + 2 : inbox'[i] = IF i <= n THEN inbox[i] ELSE two[i - n]
    <3>1. Len(inbox \o two) = n + Len(two)
          /\ \A i \in 1 .. n + Len(two) : (inbox \o two)[i] = IF i <= n THEN inbox[i] ELSE two[i - n]
      BY <1>1, <2>1, ConcatProperties DEF n
    <3> QED
      BY <2>1, <2>2, <3>1
  <2>4. \A i \in 1 .. n : inbox'[i] = inbox[i]
    BY <1>1, <2>3
  <2>5. \A i \in 1 .. n + 2 : i > n => inbox'[i].to = Head(wire)
    <3> SUFFICES ASSUME NEW i \in 1 .. n + 2, i > n PROVE inbox'[i].to = Head(wire)
      OBVIOUS
    <3>1. i = n + 1 \/ i = n + 2
      BY <1>1
    <3>2. inbox'[i] = two[i - n] /\ (i - n = 1 \/ i - n = 2)
      BY <1>1, <2>3, <3>1
    <3> QED
      BY <1>5, <2>1, <3>2
  <2>6. ~no /\ Head(wire).op \in SubscriberOps
    BY <1>9
  <2>7. n \in Nat
    BY <1>1
  <2> HIDE DEF two
  <2>8. n + 2 >= n + 1 /\ n + 2 \in Nat
    BY <2>7
  <2> QED
    BY <2>3, <2>4, <2>5, <2>6, <2>8 DEF n, no
<1> QED
  BY <1>4, <1>7, <1>8, <1>9

LEMMA PublishExtends ==
  ASSUME TypeOK, Publish
  PROVE  /\ Len(inbox') = Len(inbox) + 1
         /\ \A i \in 1 .. Len(inbox) : inbox'[i] = inbox[i]
         /\ inbox'[Len(inbox) + 1].to = Pushed
<1> DEFINE r == [to |-> Pushed, error |-> FALSE]
<1>1. inbox' = Append(inbox, r) /\ inbox \in Seq(Replies)
  BY DEF Publish, TypeOK
<1>2. r \in Replies /\ r.to = Pushed
  BY PushTyped
<1> HIDE DEF r
<1> QED
  BY <1>1, <1>2, AppendProperties

LEMMA ErrorsKept ==
  ASSUME TypeOK, Serve \/ Publish
  PROVE  /\ Errors => Errors'
         /\ Serve /\ Refuses(session, Head(wire).op) => Errors'
<1>1. Len(inbox) \in Nat
  BY LenProperties DEF TypeOK
<1>2. /\ Len(inbox') >= Len(inbox) + 1 /\ Len(inbox') \in Nat
      /\ \A i \in 1 .. Len(inbox) : inbox'[i] = inbox[i]
  BY <1>1, ServeExtends, PublishExtends
<1>3. Errors => Errors'
  <2> SUFFICES ASSUME Errors PROVE Errors'
    OBVIOUS
  <2>1. PICK i \in 1 .. Len(inbox) : inbox[i].error
    BY DEF Errors
  <2>2. i \in 1 .. Len(inbox') /\ inbox'[i].error
    BY <1>1, <1>2, <2>1
  <2> QED
    BY <2>2 DEF Errors
<1>4. Serve /\ Refuses(session, Head(wire).op) => Errors'
  <2> SUFFICES ASSUME Serve, Refuses(session, Head(wire).op) PROVE Errors'
    OBVIOUS
  <2>1. Len(inbox) + 1 \in 1 .. Len(inbox') /\ Len(inbox) + 1 > Len(inbox)
    BY <1>1, <1>2
  <2>2. inbox'[Len(inbox) + 1].error
    BY <2>1, ServeExtends
  <2> QED
    BY <2>1, <2>2 DEF Errors
<1> QED
  BY <1>3, <1>4

LEMMA ErrorsLater ==
  ASSUME TypeOK, inbox # <<>>, inbox' = Tail(inbox), ~Head(inbox).error, Errors
  PROVE  Errors'
<1>1. /\ Len(Tail(inbox)) = Len(inbox) - 1 /\ Len(inbox) \in Nat /\ Head(inbox) = inbox[1]
      /\ \A i \in 1 .. Len(Tail(inbox)) : Tail(inbox)[i] = inbox[i + 1]
  BY HeadTailProperties, LenProperties DEF TypeOK
<1>2. PICK i \in 1 .. Len(inbox) : inbox[i].error
  BY DEF Errors
<1>3. i - 1 \in 1 .. Len(Tail(inbox)) /\ (i - 1) + 1 = i
  BY <1>1, <1>2
<1>4. Tail(inbox)[i - 1].error
  BY <1>1, <1>2, <1>3
<1> QED
  BY <1>3, <1>4 DEF Errors

------------------------------------------------------------------------------
(* What the commands under way will leave behind, after a step              *)

LEMMA LeadsWeaker ==
  ASSUME NEW s, NEW w, NEW e, NEW f, Leads(s, w, e, f)
  PROVE  Leads(s, w, e, FALSE)
  BY DEF Leads

(* Nothing about it changes.                                                *)
LEMMA AheadSame ==
  ASSUME Ahead, session' = session, Way' = Way, state' = state,
         pc' \in {"use", "write", "do"} => pc \in {"use", "write", "do"},
         pc' \in {"flush", "drain", "put"} => pc \in {"flush", "drain", "put"},
         pc' = "sentinel" => pc = "sentinel" /\ (Errors => Errors')
  PROVE  Ahead'
<1>1. \A e : Agree(e) <=> Agree(e)'
  BY DEF Agree
<1>2. \A e, f : Leads(session', Way', e, f) <=> Leads(session, Way, e, f)
  OBVIOUS
<1>3. pc' \in {"use", "write", "do"} => \E e \in SUBSET Modes : Leads(session', Way', e, FALSE) /\ Agree(e)'
  BY <1>1, <1>2 DEF Ahead
<1>4. pc' \in {"flush", "drain", "put"} => Leads(session', Way', {}, FALSE)
  BY <1>2 DEF Ahead
<1>5. pc' = "sentinel" =>
        \E e \in SUBSET Modes, f \in BOOLEAN : Leads(session', Way', e, f) /\ (e = {} \/ f \/ Errors')
  BY <1>2 DEF Ahead
<1> QED
  BY <1>3, <1>4, <1>5 DEF Ahead

(* The borrower adds a command.                                             *)
LEMMA AheadMore ==
  ASSUME Phases, TypeOK, Places, Ahead, pc = "use", NEW op \in Ops, Allowed(op), state' = Flagged(state, op),
         pc' \in {"use", "write", "do"}, session' = session, Way' = Append(Way, Command(op))
  PROVE  Ahead'
<1>1. PICK e \in SUBSET Modes : Leads(session, Way, e, FALSE) /\ Agree(e)
  BY DEF Ahead
<1>2. Command(op) \in Commands /\ Command(op).op = op /\ session \in SUBSET Modes /\ Way \in Seq(Commands)
  BY CommandTyped, WayTyped DEF Command, TypeOK
<1>3. Leads(session, Append(Way, Command(op)), Executed(e, op), FALSE \/ Refuses(e, op))
  BY <1>1, <1>2, LeadsOn
<1>4. Leads(session', Way', Executed(e, op), FALSE)
  BY <1>3, LeadsWeaker
<1>5. Agree(Executed(e, op))' /\ Executed(e, op) \in SUBSET Modes
  BY <1>1, AgreeOn, ExecutedTyped
<1> QED
  BY <1>4, <1>5 DEF Ahead

(* Close adds what undoes the flags.                                        *)
LEMMA AheadUndone ==
  ASSUME LeaseInv, Ahead, pc = "use", session' = session, Way' = Way \o Undoing, "monitor" \notin state,
         pc' = IF "subscribe" \in state THEN "sentinel" ELSE "flush"
  PROVE  Ahead'
<1>1. PICK e \in SUBSET Modes : Leads(session, Way, e, FALSE) /\ Agree(e)
  BY DEF Ahead
<1>2. PICK x \in SUBSET Modes, f \in BOOLEAN :
        /\ Leads(e, Undoing, x, f)
        /\ x = {} \/ f
        /\ "subscribe" \notin state => x = {} /\ ~f
  BY <1>1, UndoLeads
<1>3. session \in SUBSET Modes /\ Way \in Seq(Commands) /\ Undoing \in Seq(Commands)
  BY WayTyped, UndoingTyped DEF LeaseInv, ConnInv, TypeOK
<1>4. Leads(session, Way \o Undoing, x, FALSE \/ f)
  BY <1>1, <1>2, <1>3, LeadsJoined
<1>5. Leads(session', Way', x, f)
  BY <1>4
<1>6. Leads(session', Way', x, FALSE)
  BY <1>5, LeadsWeaker
<1>7. CASE "subscribe" \in state
  BY <1>2, <1>5, <1>7 DEF Ahead
<1>8. CASE "subscribe" \notin state
  BY <1>2, <1>6, <1>8 DEF Ahead
<1> QED
  BY <1>7, <1>8

(* The server executes a command.                                           *)
LEMMA AheadServed ==
  ASSUME TypeOK, Places, Ahead, Serve, pc' = pc, state' = state, Way' = Tail(Way)
  PROVE  Ahead'
<1> DEFINE op == Head(wire).op
<1>1. /\ wire # <<>> /\ session' = Executed(session, op) /\ session \in SUBSET Modes
      /\ Way \in Seq(Commands)
  BY WayTyped DEF Serve, TypeOK
<1>2. Head(Way) = Head(wire) /\ Way # <<>>
  <2>1. wire \in Seq(Commands) /\ buf \in Seq(Commands)
    BY DEF TypeOK
  <2>2. Head(wire \o buf) = Head(wire) /\ wire \o buf # <<>> /\ wire \o buf \in Seq(Commands)
    BY <1>1, <2>1, TailJoined, Joined
  <2>3. CASE pc = "write"
    <3>1. cmd \in Commands /\ Way = Append(wire \o buf, cmd)
      BY <2>3, WayTyped
    <3> QED
      BY <2>2, <3>1, HeadTailAppend, AppendProperties
  <2>4. CASE pc # "write"
    BY <2>2, <2>4, WayTyped
  <2> QED
    BY <2>3, <2>4
<1>3. ASSUME NEW e, NEW f \in BOOLEAN, Leads(session, Way, e, f)
      PROVE  Leads(session', Way', e, f /\ ~Refuses(session, op))
  BY <1>1, <1>2, <1>3, LeadsFrom
<1>4. (Errors => Errors') /\ (Refuses(session, op) => Errors')
  BY ErrorsKept
<1>5. \A e : Agree(e) <=> Agree(e)'
  BY DEF Agree
<1> HIDE DEF op
<1>6. ASSUME NEW e, Leads(session, Way, e, FALSE) PROVE Leads(session', Way', e, FALSE)
  BY <1>3, <1>6, LeadsWeaker
<1>7. pc' \in {"use", "write", "do"} => \E e \in SUBSET Modes : Leads(session', Way', e, FALSE) /\ Agree(e)'
  <2> SUFFICES ASSUME pc' \in {"use", "write", "do"}
               PROVE  \E e \in SUBSET Modes : Leads(session', Way', e, FALSE) /\ Agree(e)'
    OBVIOUS
  <2>1. PICK e \in SUBSET Modes : Leads(session, Way, e, FALSE) /\ Agree(e)
    BY DEF Ahead
  <2> QED
    BY <1>5, <1>6, <2>1
<1>8. pc' \in {"flush", "drain", "put"} => Leads(session', Way', {}, FALSE)
  BY <1>6 DEF Ahead
<1>9. pc' = "sentinel" =>
        \E e \in SUBSET Modes, f \in BOOLEAN : Leads(session', Way', e, f) /\ (e = {} \/ f \/ Errors')
  <2> SUFFICES ASSUME pc' = "sentinel"
               PROVE  \E e \in SUBSET Modes, f \in BOOLEAN : Leads(session', Way', e, f) /\ (e = {} \/ f \/ Errors')
    OBVIOUS
  <2>1. PICK e \in SUBSET Modes, f \in BOOLEAN : Leads(session, Way, e, f) /\ (e = {} \/ f \/ Errors)
    BY DEF Ahead
  <2>2. Leads(session', Way', e, f /\ ~Refuses(session, op))
    BY <1>3, <2>1
  <2>3. CASE Refuses(session, op)
    <3>1. Leads(session', Way', e, FALSE)
      BY <2>2, LeadsWeaker
    <3> QED
      BY <1>4, <2>3, <3>1
  <2>4. CASE ~Refuses(session, op)
    <3>1. Leads(session', Way', e, f)
      BY <2>2, <2>4
    <3> QED
      BY <1>4, <2>1, <3>1
  <2> QED
    BY <2>3, <2>4
<1> QED
  BY <1>7, <1>8, <1>9 DEF Ahead

(* With one more command, or none, at the end.                              *)
LEMMA WayOf ==
  ASSUME NEW w \in Seq(Commands), NEW b \in Seq(Commands)
  PROVE  /\ w \o b \o <<>> = w \o b
         /\ \A x \in Commands : w \o b \o <<x>> = Append(w \o b, x)
<1>1. w \o b \in Seq(Commands)
  BY Joined
<1>2. w \o b \o <<>> = w \o b
  BY <1>1, ConcatEmptySeq
<1>3. ASSUME NEW x \in Commands PROVE w \o b \o <<x>> = Append(w \o b, x)
  <2>1. <<x>> \in Seq(Commands) /\ Append(w \o b, x) = (w \o b) \o <<x>>
    BY <1>1, AppendIsConcat
  <2>2. (w \o b) \o <<x>> = w \o (b \o <<x>>)
    BY <2>1, ConcatAssociative
  <2> QED
    BY <2>1, <2>2
<1> QED
  BY <1>2, <1>3

(* A flush of all there is, while the peer is there.                        *)
LEMMA WayFlushed ==
  ASSUME TypeOK, NEW commands \in Seq(Commands), FlushOk(commands), up, buf' = <<>>, pc' # "write"
  PROVE  Way' = wire \o commands
<1>1. wire' = wire \o commands /\ wire \o commands \in Seq(Commands)
  BY Joined DEF FlushOk, TypeOK
<1>2. (wire \o commands) \o <<>> = wire \o commands /\ <<>> \in Seq(Commands)
  BY <1>1, ConcatEmptySeq, EmptyList
<1>3. Way' = wire' \o buf'
  BY <1>1, <1>2, WayOf DEF Way
<1> QED
  BY <1>1, <1>2, <1>3

LEMMA AheadNext ==
  ASSUME LeaseInv, [Next]_vars, ConnInv', ~Doomed', Intact'
  PROVE  Ahead'
<1> USE DEF client, server, Unwritten, Uncounted, Answers
<1>0. Phases /\ TypeOK /\ Places
  BY DEF LeaseInv, ConnInv
<1>t. /\ pending \in Nat /\ want \in Nat /\ sent \in Nat
      /\ buf \in Seq(Commands) /\ wire \in Seq(Commands) /\ inbox \in Seq(Replies)
      /\ Len(buf) \in Nat /\ Len(wire) \in Nat /\ Len(inbox) \in Nat
  BY <1>0, LenProperties DEF TypeOK
<1>i. inbox # <<>> => Len(Tail(inbox)) = Len(inbox) - 1 /\ Len(inbox) >= 1
  BY <1>t, Shorter
<1>e. Len(<<>>) = 0
  OBVIOUS
<1>w. Way \in Seq(Commands) /\ (pc # "write" => Way = wire \o buf)
  BY <1>0, WayTyped
<1>1. CASE PutBack \/ Put
  BY <1>1 DEF PutBack, Put, Ahead
<1>2. CASE ~PutBack
  <2>0. ~Doomed /\ Tagged /\ Counts /\ (Intact => Ahead) /\ LastFound
    BY <1>2, DoomStays DEF LeaseInv, Fit
  <2>c. Plain => Total <= Answers
    BY <2>0 DEF Counts
  <2>d. up' \/ (~err' /\ Plain' /\ Total' = Answers')
    BY DEF Intact
  <2>f. ~Fatal
    BY DEF Fatal, Doomed
  <2>p. state' = state => (Plain' <=> Plain)
    BY DEF Plain
  <2>1. ASSUME NEW op \in Ops, SendCount(op) PROVE Ahead'
    <3>1. Plain' => Plain
      BY <1>0, <2>1, FlaggedPhases DEF SendCount, Plain
    <3>2. Total' = Total + 1 /\ Answers' = Answers + 1 /\ up' = up /\ err' = err /\ Total \in Int /\ Answers \in Int
      BY <1>0, <1>t, <2>1 DEF SendCount, Total
    <3>3. Ahead
      BY <2>0, <2>d, <3>1, <3>2 DEF Intact
    <3>4. Way' = Append(Way, Command(op))
      <4>1. Command(op) \in Commands
        BY <1>0, CommandTyped
      <4>2. pc' = "write" /\ cmd' = Command(op) /\ wire' = wire /\ buf' = buf /\ pc = "use"
        BY <2>1 DEF SendCount
      <4>3. Way' = wire \o buf \o <<Command(op)>>
        BY <4>2 DEF Way
      <4> QED
        BY <1>t, <1>w, <4>1, <4>2, <4>3, WayOf
    <3> QED
      BY <1>0, <2>1, <3>3, <3>4, AheadMore DEF SendCount
  <2>2. CASE SendWrite
    <3>1. cmd \in Commands /\ buf' = Append(buf, cmd) /\ pc = "write" /\ pc' = "use"
          /\ UNCHANGED <<reader, pending, err, state, want, sent, session, up, pushed, wire, inbox>>
      BY <1>0, <2>2 DEF SendWrite, Places
    <3>2. Append(buf, cmd) \in Seq(Commands) /\ Len(buf') = Len(buf) + 1
      BY <1>t, <3>1, Longer
    <3>3. Total' = Total /\ Answers' = Answers
      BY <1>t, <3>1, <3>2 DEF Total
    <3>4. Ahead
      BY <2>0, <2>d, <2>p, <3>1, <3>3 DEF Intact
    <3>5. Way' = Way
      <4>1. Way = Append(wire \o buf, cmd)
        BY <1>0, <3>1, WayTyped
      <4>2. wire \o Append(buf, cmd) = Append(wire \o buf, cmd)
        BY <1>t, <3>1, AppendInto
      <4>3. Way' = wire \o Append(buf, cmd) \o <<>>
        BY <3>1 DEF Way
      <4>4. Way' = wire \o Append(buf, cmd)
        BY <1>t, <3>2, <4>3, WayOf
      <4> QED
        BY <4>1, <4>2, <4>4
    <3> QED
      BY <3>1, <3>4, <3>5, AheadSame
  <2>3. CASE Flush
    <3>1. /\ FlushOk(buf) /\ buf # <<>> /\ buf' = <<>> /\ pc = "use" /\ pc' = "use"
          /\ UNCHANGED <<reader, pending, err, up, inbox, state, want, session>>
      BY <2>f, <2>3 DEF Flush
    <3>2. CASE up
      <4>1. Way' = Way
        BY <1>0, <1>t, <1>w, <3>1, <3>2, WayFlushed
      <4>2. Ahead
        BY <2>0, <3>2 DEF Intact
      <4> QED
        BY <3>1, <4>1, <4>2, AheadSame
    <3>3. CASE ~up
      <4>1. wire' = <<>> /\ wire = <<>>
        BY <1>0, <3>1, <3>3 DEF FlushOk, Phases
      <4>2. Len(buf) >= 1
        BY <1>t, <3>1, Shorter
      <4>3. Total' = Len(inbox) + Uncounted /\ Total = Len(buf) + Len(inbox) + Uncounted /\ Answers' = Answers
        BY <1>t, <1>e, <3>1, <4>1 DEF Total
      <4>4. Plain' => Total' < Answers'
        BY <1>t, <2>c, <2>p, <3>1, <4>2, <4>3
      <4> QED
        BY <1>t, <2>d, <3>1, <3>3, <4>3, <4>4
    <3> QED
      BY <3>2, <3>3
  <2>4. ASSUME NEW op \in Ops, DoBegin(op) PROVE Ahead'
    <3> DEFINE c == Command(op)
               all == Append(buf, c)
    <3>1. c \in Commands
      BY <1>0, CommandTyped
    <3> HIDE DEF c
    <3>2. all \in Seq(Commands) /\ Append(wire \o buf, c) = wire \o all
      <4>1. all \in Seq(Commands)
        BY <1>t, <3>1, Longer
      <4>2. Append(wire \o buf, c) = wire \o all
        <5>1. \A s, t \in Seq(Commands) : \A x \in Commands : s \o Append(t, x) = Append(s \o t, x)
          BY AppendInto
        <5>2. wire \in Seq(Commands) /\ buf \in Seq(Commands)
          BY <1>t
        <5>3. wire \o Append(buf, c) = Append(wire \o buf, c)
          BY <3>1, <5>1, <5>2, Zenon
        <5> QED
          BY <5>3, Zenon
      <4> QED
        BY <4>1, <4>2
    <3>3. /\ pc = "use" /\ reader = "out" /\ reader' = "out" /\ Allowed(op) /\ state' = Flagged(state, op)
          /\ FlushOk(all) /\ cmd' = c /\ want' = pending + 1 /\ pc' = "do" /\ buf' = <<>>
          /\ UNCHANGED <<err, up, inbox, session>>
      BY <2>f, <2>4 DEF DoBegin, ToRead, c
    <3> HIDE DEF all
    <3>4. CASE up
      <4>1. Way' = Append(Way, c)
        BY <1>0, <1>w, <3>2, <3>3, <3>4, WayFlushed
      <4>2. Ahead
        BY <2>0, <3>4 DEF Intact
      <4> QED
        BY <1>0, <3>3, <4>1, <4>2, AheadMore DEF c
    <3>5. CASE ~up
      <4>1. wire' = <<>>
        BY <3>3, <3>5 DEF FlushOk
      <4>2. Plain' => Plain
        BY <1>0, <3>3, FlaggedPhases DEF Plain
      <4>3. Plain' => Len(buf) + Len(wire) + Len(inbox) <= pending
        BY <1>t, <2>c, <3>3, <4>2 DEF Total
      <4>4. Plain' => Total' # Answers'
        BY <1>t, <1>e, <3>3, <4>1, <4>3 DEF Total
      <4> QED
        BY <2>d, <3>3, <3>5, <4>4
    <3> QED
      BY <3>4, <3>5
  <2>5. CASE DoRead \/ DrainRead
    <3>1. want >= 1 /\ pending = 0 /\ reader = "out" /\ inbox # <<>>
      BY <1>0, <2>5 DEF DoRead, DrainRead, Places, TypeOK
    <3>2. /\ inbox' = Tail(inbox) /\ want' = want - 1
          /\ UNCHANGED <<reader, pending, err, state, sent, session, up, buf, wire>>
          /\ (pc = "do" /\ pc' \in {"do", "use"}) \/ (pc = "drain" /\ pc' \in {"drain", "put"})
          /\ want # 1 => pc' = pc
          /\ want = 1 => pc' \in {"use", "put"}
      BY <2>5 DEF DoRead, DrainRead
    <3>3. Total' = Total - 1 /\ Answers' = Answers - 1 /\ Total \in Int /\ Answers \in Int
      <4>1. Total' = Total - 1 /\ Total \in Int
        <5>1. Len(inbox') = Len(inbox) - 1
          BY <1>i, <3>1, <3>2
        <5>2. Unwritten' = Unwritten /\ Uncounted' = Uncounted /\ Unwritten \in Nat /\ Uncounted \in Nat
          BY <3>2
        <5>3. Len(buf') = Len(buf) /\ Len(wire') = Len(wire)
          BY <3>2
        <5> HIDE DEF Unwritten, Uncounted
        <5> QED
          BY <1>t, <5>1, <5>2, <5>3 DEF Total
      <4>2. Answers = want /\ Answers' = want - 1
        BY <1>t, <3>1, <3>2
      <4> QED
        BY <1>t, <4>1, <4>2
    <3>4. Ahead
      BY <2>0, <2>d, <2>p, <3>2, <3>3 DEF Intact
    <3>5. Way' = Way
      BY <3>2 DEF Way
    <3> QED
      BY <3>2, <3>4, <3>5, AheadSame
  <2>6. CASE Receive \/ ReceiveRead \/ ReceiveCount
    <3>1. /\ pc \in {"use", "write"} /\ pc' = pc
          /\ UNCHANGED <<err, state, cmd, session, up, buf, wire>>
      BY <1>0, <2>6 DEF Receive, ReceiveRead, ReceiveCount, Places
    <3>2. Plain => (Total' = Answers' => Total = Answers)
      <4>1. CASE Receive
        BY <1>t, <4>1 DEF Receive, Total
      <4>2. CASE ReceiveRead
        BY <1>t, <1>i, <3>1, <4>2 DEF ReceiveRead, Total
      <4>3. CASE ReceiveCount
        <5>1. Total' = Total - 1 /\ Total \in Int /\ Total >= 1 /\ Answers = pending
          BY <1>t, <3>1, <4>3 DEF ReceiveCount, Total
        <5>2. Answers' = Lowered(pending)
          BY <3>1, <4>3 DEF ReceiveCount
        <5>3. Plain => Total <= pending
          BY <2>c, <5>1
        <5>4. Plain => Lowered(pending) = pending - 1
          BY <1>t, <5>1, <5>3 DEF Lowered
        <5>5. Plain => (Total - 1 = pending - 1 => Total = pending)
          BY <1>t, <5>1
        <5> QED
          BY <5>1, <5>2, <5>4, <5>5
      <4> QED
        BY <2>6, <4>1, <4>2, <4>3
    <3>3. Ahead
      BY <2>0, <2>d, <2>p, <3>1, <3>2 DEF Intact
    <3>4. Way' = Way
      BY <3>1 DEF Way
    <3> QED
      BY <3>1, <3>3, <3>4, AheadSame
  <2>7. ~ReadError /\ ~Deadline
    BY <2>f DEF ReadError, Deadline, ReadFails
  <2>8. CASE Close
    <3>1. /\ pc = "use" /\ reader = "out" /\ reader' = "out" /\ session' = session /\ cmd' = cmd
          /\ state' = state \ {"multi", "watch"} /\ pending' = pending + Len(Undo)
          /\ err' = err /\ up' = up /\ inbox' = inbox
          /\ pc' = IF "subscribe" \in state THEN "sentinel" ELSE "flush"
      BY <2>f, <2>8 DEF Close
    <3>2. "monitor" \notin state
      BY <3>1 DEF Doomed
    <3>3. Undoing \in Seq(Commands) /\ Len(Undoing) = Len(Undo) /\ Len(Undo) \in Nat
      BY <1>0, UndoTyped, UndoingTyped
    <3>4. buf \o Undoing \in Seq(Commands) /\ Len(buf \o Undoing) = Len(buf) + Len(Undo)
      <4>1. buf \o Undoing \in Seq(Commands) /\ Len(buf \o Undoing) = Len(buf) + Len(Undoing)
        BY <1>t, <3>3, Joined
      <4> QED
        BY <3>3, <4>1
    <3>5. wire \o (buf \o Undoing) = (wire \o buf) \o Undoing
      BY <1>t, <3>3, ConcatAssociative
    <3>6. CASE "subscribe" \in state
      <4>1. buf' = <<>> /\ FlushOk(buf \o Undoing) /\ pc' # "write"
        BY <2>f, <2>8, <3>6 DEF Close, Undoing
      <4>2. up
        BY <2>d, <3>1, <3>6 DEF Plain
      <4>3. Way' = Way \o Undoing
        BY <1>0, <1>w, <3>1, <3>4, <3>5, <4>1, <4>2, WayFlushed
      <4>4. Ahead
        BY <2>0, <4>2 DEF Intact
      <4> QED
        BY <3>1, <3>2, <4>3, <4>4, AheadUndone
    <3>7. CASE "subscribe" \notin state
      <4>1. buf' = buf \o Undoing /\ wire' = wire /\ pc' = "flush"
        BY <2>8, <3>1, <3>7 DEF Close, Undoing
      <4>2. Way' = Way \o Undoing
        <5>1. Way' = wire \o (buf \o Undoing) \o <<>>
          BY <4>1 DEF Way
        <5>2. Way' = wire \o (buf \o Undoing)
          BY <1>t, <3>4, <5>1, WayOf
        <5> QED
          BY <1>w, <3>1, <3>5, <5>2
      <4>3. Total' = Total + Len(Undo) /\ Answers' = Answers + Len(Undo) /\ Total \in Int /\ Answers \in Int
        <5>1. Len(buf') = Len(buf) + Len(Undo) /\ Len(wire') = Len(wire) /\ Len(inbox') = Len(inbox)
          BY <3>1, <3>4, <4>1
        <5>2. Total' = Len(buf') + Len(wire') + Len(inbox') /\ Total = Len(buf) + Len(wire) + Len(inbox)
          BY <1>t, <3>1, <3>3, <4>1, <5>1 DEF Total
        <5>3. Answers' = pending' /\ Answers = pending
          BY <3>1, <4>1
        <5> QED
          BY <1>t, <3>1, <3>3, <5>1, <5>2, <5>3
      <4>4. Plain
        BY <3>2, <3>7 DEF Plain
      <4>5. Ahead
        BY <2>0, <2>d, <3>1, <3>3, <4>3, <4>4 DEF Intact
      <4> QED
        BY <3>1, <3>2, <4>2, <4>5, AheadUndone
    <3> QED
      BY <3>6, <3>7
  <2>9. CASE SentinelRead
    <3>1. /\ pc = "sentinel" /\ inbox # <<>> /\ inbox' = Tail(inbox)
          /\ UNCHANGED <<reader, err, cmd, session, up, buf, wire>>
      BY <2>9 DEF SentinelRead
    <3>2. "subscribe" \in state /\ buf = <<>>
      BY <1>0, <3>1 DEF Phases
    <3>3. CASE Found(Head(inbox))
      <4>1. Len(inbox) >= 1 /\ Head(inbox) = inbox[1] /\ 1 \in 1 .. Len(inbox)
        BY <1>t, <1>i, <3>1
      <4>2. 1 = Len(inbox) /\ wire = <<>> /\ (session = {} \/ Errors)
        BY <2>0, <3>1, <3>3, <4>1 DEF LastFound
      <4>3. ~Errors
        <5>1. \A i \in 1 .. Len(inbox) : i = 1
          BY <4>2
        <5> QED
          BY <3>3, <4>1, <5>1 DEF Errors, Found
      <4>4. session' = {} /\ pc' = "flush"
        BY <2>9, <3>1, <3>3, <4>2, <4>3 DEF SentinelRead, Found
      <4>5. Way' = <<>>
        <5>1. Way' = <<>> \o <<>> \o <<>>
          BY <3>1, <3>2, <4>2, <4>4 DEF Way
        <5> QED
          BY <5>1
      <4>6. Leads({}, <<>>, {}, FALSE)
        BY LeadsNowhere
      <4> QED
        BY <4>4, <4>5, <4>6 DEF Ahead
    <3>4. CASE ~Found(Head(inbox))
      <4>1. state' = state /\ pc' = IF Head(inbox).error THEN "flush" ELSE "sentinel"
        BY <2>9, <3>1, <3>4 DEF SentinelRead, Found
      <4>2. pc' = "sentinel" /\ ~Head(inbox).error
        BY <3>2, <4>1 DEF Doomed
      <4>3. up
        BY <2>d, <3>1, <3>2, <4>1 DEF Plain
      <4>4. Way' = Way
        BY <3>1, <4>2 DEF Way
      <4>5. Errors => Errors'
        BY <1>0, <3>1, <4>2, ErrorsLater
      <4>6. Ahead
        BY <2>0, <4>3 DEF Intact
      <4> QED
        BY <3>1, <4>1, <4>2, <4>4, <4>5, <4>6, AheadSame
    <3> QED
      BY <3>3, <3>4
  <2>10. CASE DrainBegin
    <3>1. state' = state /\ pc = "flush" /\ pc' \in {"drain", "put"} /\ reader' = reader /\ reader = "out"
          /\ cmd' = cmd /\ session' = session
      BY <1>0, <2>10 DEF DrainBegin, Places, TypeOK
    <3>2. CASE pending = 0
      <4>1. pending' = 0 /\ pc' = "put" /\ UNCHANGED <<err, up, buf, wire, inbox>>
        BY <2>10, <3>2 DEF DrainBegin, Taken
      <4>2. Total' = Total /\ Answers' = Answers
        BY <3>1, <3>2, <4>1 DEF Total
      <4>3. Ahead
        BY <2>0, <2>d, <2>p, <3>1, <4>1, <4>2 DEF Intact
      <4>4. Way' = Way
        BY <3>1, <4>1 DEF Way
      <4> QED
        BY <3>1, <4>3, <4>4, AheadSame
    <3>3. CASE pending # 0
      <4>1. /\ FlushOk(buf) /\ inbox' = inbox /\ buf' = <<>> /\ pc' = "drain" /\ want' = pending
            /\ UNCHANGED <<err, up>>
        BY <2>f, <2>10, <3>3 DEF DrainBegin
      <4>2. CASE up
        <5>1. Way' = Way
          BY <1>0, <1>t, <1>w, <3>1, <4>1, <4>2, WayFlushed
        <5>2. Ahead
          BY <2>0, <4>2 DEF Intact
        <5> QED
          BY <3>1, <5>1, <5>2, AheadSame
      <4>3. CASE ~up
        <5>1. wire' = <<>> /\ wire = <<>>
          BY <1>0, <4>1, <4>3 DEF FlushOk, Phases
        <5>2. Total' = Len(inbox) /\ Total = Len(buf) + Len(inbox) /\ Answers' = pending /\ Answers = pending
          BY <1>t, <1>e, <3>1, <4>1, <5>1 DEF Total
        <5>3. Plain /\ Len(buf) = 0 /\ Total = Answers
          BY <1>t, <2>c, <2>d, <2>p, <3>1, <4>1, <4>3, <5>2
        <5>4. buf = <<>>
          BY <1>t, <5>3, EmptySeq
        <5>5. Way' = Way
          BY <3>1, <4>1, <5>1, <5>4 DEF Way
        <5>6. Ahead
          BY <2>0, <2>d, <4>1, <5>3 DEF Intact
        <5> QED
          BY <3>1, <5>5, <5>6, AheadSame
      <4> QED
        BY <4>2, <4>3
    <3> QED
      BY <3>2, <3>3
  <2>11. CASE Borrow \/ Dial
    <3>1. buf = <<>> /\ wire = <<>> /\ session = {} /\ state = {}
      BY <1>0, <2>11, PooledClean DEF Borrow, Dial, LeaseInv
    <3>2. buf' = <<>> /\ wire' = <<>> /\ session' = {} /\ state' = {} /\ pc' = "use"
      BY <2>11, <3>1 DEF Borrow, Dial
    <3>3. Way' = <<>>
      <4>1. Way' = <<>> \o <<>> \o <<>>
        BY <3>2 DEF Way
      <4> QED
        BY <4>1
    <3>4. Leads({}, <<>>, {}, FALSE) /\ Agree({})'
      BY <3>2, LeadsNowhere DEF Agree, Subscribed
    <3> QED
      BY <3>2, <3>3, <3>4 DEF Ahead
  <2>12. CASE Spill
    <3>1. /\ up /\ buf # <<>> /\ wire' = Append(wire, Head(buf)) /\ buf' = Tail(buf)
          /\ UNCHANGED <<client, server, inbox>>
      BY <2>12 DEF Spill
    <3>2. Append(wire, Head(buf)) \o Tail(buf) = wire \o buf
      BY <1>t, <3>1, HeadMoves
    <3>3. Append(wire, Head(buf)) \in Seq(Commands) /\ Tail(buf) \in Seq(Commands)
      BY <1>t, <3>1, Shorter, Longer
    <3>4. Way' = Way
      <4>1. CASE pc = "write"
        <5>1. cmd \in Commands /\ Way = Append(wire \o buf, cmd)
          BY <1>0, <4>1, WayTyped
        <5>2. Way' = Append(wire, Head(buf)) \o Tail(buf) \o <<cmd>>
          BY <3>1, <4>1 DEF Way
        <5> QED
          BY <3>2, <3>3, <5>1, <5>2, WayOf
      <4>2. CASE pc # "write"
        <5>1. Way' = Append(wire, Head(buf)) \o Tail(buf) \o <<>>
          BY <3>1, <4>2 DEF Way
        <5> QED
          BY <1>w, <3>2, <3>3, <4>2, <5>1, WayOf
      <4> QED
        BY <4>1, <4>2
    <3>5. Ahead
      BY <2>0, <3>1 DEF Intact
    <3>6. Errors => Errors'
      BY <3>1 DEF Errors
    <3> QED
      BY <3>1, <3>4, <3>5, <3>6, AheadSame
  <2>13. CASE Serve
    <3>1. up /\ wire # <<>> /\ wire' = Tail(wire) /\ UNCHANGED <<client, up, pushed, buf>>
      BY <2>13 DEF Serve
    <3>2. Ahead
      BY <2>0, <3>1 DEF Intact
    <3>3. /\ Tail(wire) \in Seq(Commands) /\ wire \o buf \in Seq(Commands)
          /\ Tail(wire \o buf) = Tail(wire) \o buf /\ wire \o buf # <<>>
      BY <1>t, <3>1, Shorter, TailJoined, Joined
    <3>4. Way' = Tail(Way)
      <4>1. CASE pc = "write"
        <5>1. cmd \in Commands /\ Way = Append(wire \o buf, cmd)
          BY <1>0, <4>1, WayTyped
        <5>2. Tail(Way) = Append(Tail(wire) \o buf, cmd)
          BY <3>3, <5>1, HeadTailAppend
        <5>3. Way' = Tail(wire) \o buf \o <<cmd>>
          BY <3>1, <4>1 DEF Way
        <5> QED
          BY <1>t, <3>3, <5>1, <5>2, <5>3, WayOf
      <4>2. CASE pc # "write"
        <5>1. Way' = Tail(wire) \o buf \o <<>>
          BY <3>1, <4>2 DEF Way
        <5> QED
          BY <1>t, <1>w, <3>3, <4>2, <5>1, WayOf
      <4> QED
        BY <4>1, <4>2
    <3> QED
      BY <1>0, <2>13, <3>1, <3>2, <3>4, AheadServed
  <2>14. CASE Publish
    <3>1. up /\ UNCHANGED <<client, session, up, buf, wire>>
      BY <2>14 DEF Publish
    <3>2. Ahead
      BY <2>0, <3>1 DEF Intact
    <3>3. Way' = Way
      BY <3>1 DEF Way
    <3>4. Errors => Errors'
      BY <1>0, <2>14, ErrorsKept
    <3> QED
      BY <3>1, <3>2, <3>3, <3>4, AheadSame
  <2>15. CASE Drop
    <3>1. up /\ ~up' /\ wire' = <<>> /\ inbox' \in Prefixes(inbox) /\ UNCHANGED <<client, session, pushed, buf>>
      BY <2>15 DEF Drop
    <3>2. /\ Len(inbox') <= Len(inbox) /\ Len(inbox') \in Nat
          /\ Len(inbox') = Len(inbox) => inbox' = inbox
      BY <1>t, <3>1, PrefixShorter
    <3>3. Plain /\ Total' = Answers' /\ Answers' = Answers
      BY <2>d, <2>p, <3>1
    <3>4. Total' = Len(buf) + Len(inbox') + Unwritten + Uncounted
      BY <1>t, <1>e, <3>1, <3>2 DEF Total
    <3>5. Total = Len(buf) + Len(wire) + Len(inbox) + Unwritten + Uncounted
      BY DEF Total
    <3>6. Len(wire) = 0 /\ inbox' = inbox
      <4>1. Total <= Total'
        BY <2>c, <3>3
      <4>2. Len(buf) + Len(wire) + Len(inbox) + Unwritten + Uncounted <= Len(buf) + Len(inbox') + Unwritten + Uncounted
        BY <3>4, <3>5, <4>1
      <4> QED
        BY <1>t, <3>2, <4>2
    <3>7. wire = <<>>
      BY <1>t, <3>6, EmptySeq
    <3>8. Way' = Way
      BY <3>1, <3>7 DEF Way
    <3>9. Ahead
      BY <2>0, <3>1 DEF Intact
    <3>10. Errors => Errors'
      BY <3>6 DEF Errors
    <3> QED
      BY <3>1, <3>8, <3>9, <3>10, AheadSame
  <2>16. CASE UNCHANGED vars
    <3>1. Way' = Way /\ (Errors => Errors') /\ (Intact' <=> Intact)
      BY <2>16 DEF vars, Way, Errors, Intact, Plain, Total
    <3> QED
      BY <2>0, <2>16, <3>1, AheadSame DEF vars
  <2> QED
    BY <1>1, <1>2, <2>1, <2>2, <2>3, <2>4, <2>5, <2>6, <2>7, <2>8, <2>9, <2>10, <2>11, <2>12, <2>13,
       <2>14, <2>15, <2>16 DEF Next, Write, Read, Closing
<1> QED
  BY <1>1, <1>2

------------------------------------------------------------------------------
(* The answer to the sentinel                                               *)

(* Of what Close sends only the last may be the sentinel.                   *)
LEMMA UndoingLast ==
  ASSUME TypeOK
  PROVE  \A i \in 1 .. Len(Undoing) : Undoing[i].op = Sentinel => i = Len(Undoing)
<1>1. /\ Len(Undoing) = Len(Undo) /\ Len(Undo) \in Nat /\ DOMAIN Undo = 1 .. Len(Undo)
  BY UndoTyped, UndoingTyped, LenProperties
<1>2. \A i \in 1 .. Len(Undo) : Undoing[i].op = Undo[i]
  BY <1>1 DEF Undoing
<1>3. UndoTransaction \in {<<>>, <<"DISCARD">>, <<"UNWATCH">>}
  BY DEF UndoTransaction
<1> DEFINE three == <<"UNSUBSCRIBE", "PUNSUBSCRIBE", Sentinel>>
<1>4. /\ three \in Seq(Names) /\ Len(three) = 3 /\ three[1] # Sentinel /\ three[2] # Sentinel
      /\ <<"DISCARD">> \in Seq(Names) /\ <<"UNWATCH">> \in Seq(Names)
  BY DEF Names, SubscriberOps, Sentinel
<1>5. \A i \in 1 .. Len(Undo) : Undo[i] = Sentinel => i = Len(Undo)
  <2>1. CASE "subscribe" \notin state
    <3>1. <<>> \o <<>> = <<>> /\ <<"DISCARD">> \o <<>> = <<"DISCARD">> /\ <<"UNWATCH">> \o <<>> = <<"UNWATCH">>
      BY <1>4, ConcatEmptySeq
    <3>2. Undo \in {<<>>, <<"DISCARD">>, <<"UNWATCH">>}
      BY <1>3, <2>1, <3>1 DEF Undo
    <3> QED
      BY <3>2 DEF Sentinel
  <2>2. CASE "subscribe" \in state
    <3> HIDE DEF three
    <3> DEFINE t == UndoTransaction
    <3>1. Undo = t \o three
      BY <2>2 DEF Undo, three
    <3>2. t \in Seq(Names) /\ Len(t) \in 0 .. 1 /\ (Len(t) = 1 => t[1] # Sentinel)
      <4>1. <<>> \in Seq(Names) /\ Len(<<>>) = 0
        BY EmptyList
      <4>2. CASE t = <<>>
        BY <4>1, <4>2
      <4>3. CASE t = <<"DISCARD">>
        BY <1>4, <4>3 DEF Sentinel
      <4>4. CASE t = <<"UNWATCH">>
        BY <1>4, <4>4 DEF Sentinel
      <4> QED
        BY <1>3, <4>2, <4>3, <4>4
    <3> HIDE DEF t
    <3>3. /\ Len(t \o three) = Len(t) + Len(three)
          /\ \A i \in 1 .. Len(t) + Len(three) : (t \o three)[i] = IF i <= Len(t) THEN t[i] ELSE three[i - Len(t)]
      BY <1>4, <3>2, ConcatProperties
    <3>4. Len(Undo) = Len(t) + 3 /\ \A i \in 1 .. Len(t) + 3 : Undo[i] = IF i <= Len(t) THEN t[i] ELSE three[i - Len(t)]
      BY <1>4, <3>1, <3>3
    <3> SUFFICES ASSUME NEW i \in 1 .. Len(t) + 3, i # Len(t) + 3 PROVE Undo[i] # Sentinel
      BY <3>4
    <3>5. CASE i <= Len(t)
      <4>1. i = 1 /\ Len(t) = 1
        <5> DEFINE k == Len(t)
        <5>1. k \in {0, 1} /\ i \in Int /\ i >= 1 /\ i <= k
          BY <3>2, <3>5
        <5> HIDE DEF k
        <5>2. i = 1 /\ k = 1
          BY <5>1
        <5> QED
          BY <5>2 DEF k
      <4> QED
        BY <3>2, <3>4, <4>1
    <3>6. CASE ~(i <= Len(t))
      <4>1. i - Len(t) = 1 \/ i - Len(t) = 2
        BY <3>2, <3>6
      <4>2. Undo[i] = three[i - Len(t)]
        BY <3>4, <3>6
      <4> QED
        BY <1>4, <4>1, <4>2
    <3> QED
      BY <3>5, <3>6
  <2> QED
    BY <2>1, <2>2
<1> QED
  BY <1>1, <1>2, <1>5

LEMMA LastFoundNext ==
  ASSUME LeaseInv, [Next]_vars, ConnInv', ~Doomed'
  PROVE  LastFound'
<1> USE DEF client, server
<1> SUFFICES ASSUME pc' = "sentinel" PROVE LastFound'
  BY DEF LastFound
<1>0. Phases /\ TypeOK /\ Places
  BY DEF LeaseInv, ConnInv
<1>t. /\ pending \in Nat
      /\ buf \in Seq(Commands) /\ wire \in Seq(Commands) /\ inbox \in Seq(Replies)
      /\ Len(buf) \in Nat /\ Len(wire) \in Nat /\ Len(inbox) \in Nat
  BY <1>0, LenProperties DEF TypeOK
<1>n. ~PutBack /\ ~Put
  BY DEF PutBack, Put
<1>i. ~Doomed /\ Tagged /\ (Intact => Ahead) /\ LastFound
  BY <1>n, DoomStays DEF LeaseInv, Fit
<1>f. ~Fatal
  BY DEF Fatal, Doomed
<1>g. ASSUME \A i \in 1 .. Len(wire') : wire'[i].op = Sentinel => i = Len(wire'),
             \A i \in 1 .. Len(inbox') : Found(inbox'[i]) =>
               /\ i = Len(inbox') /\ wire' = <<>> /\ pending' <= Len(inbox')
               /\ ~Subscribed(session') /\ "monitor" \notin session'
               /\ session' = {} \/ Errors'
      PROVE  LastFound'
  BY <1>g DEF LastFound, Found, Subscribed
<1>1. CASE Close
  <2>1. /\ pc = "use" /\ inbox' = inbox /\ "subscribe" \in state
        /\ FlushOk(buf \o Undoing)
    BY <1>f, <1>1 DEF Close, Undoing
  <2>2. ~Ending
    BY <2>1 DEF Ending
  <2>3. /\ \A i \in 1 .. Len(inbox) : inbox[i].to.op # Sentinel
        /\ \A i \in 1 .. Len(wire) : wire[i].op # Sentinel
        /\ \A i \in 1 .. Len(buf) : buf[i].op # Sentinel
    <3> DEFINE M == Marked
               R == MarkedReplies
    <3>1. buf \in Seq(M) /\ wire \in Seq(M) /\ inbox \in Seq(R)
      BY <1>i DEF Tagged
    <3>2. \A c \in M : c.op # Sentinel
      BY <2>2 DEF Marked
    <3>3. \A r \in R : r.to.op # Sentinel
      BY <2>2 DEF MarkedReplies
    <3> HIDE DEF M, R
    <3> QED
      BY <3>1, <3>2, <3>3, ElementOfSeq
  <2>4. \A i \in 1 .. Len(inbox') : ~Found(inbox'[i])
    BY <2>1, <2>3 DEF Found
  <2>5. CASE ~up
    <3>1. wire' = <<>>
      BY <2>1, <2>5 DEF FlushOk
    <3>2. \A i \in 1 .. Len(wire') : i = Len(wire')
      BY <3>1
    <3> QED
      BY <1>g, <2>4, <3>2
  <2>6. CASE up
    <3> DEFINE v == Undoing
               b == buf \o v
               w == wire \o b
    <3>1. v \in Seq(Commands) /\ Len(v) \in Nat /\ \A i \in 1 .. Len(v) : v[i].op = Sentinel => i = Len(v)
      BY <1>0, UndoingTyped, UndoingLast, LenProperties
    <3> HIDE DEF v
    <3>2. /\ b \in Seq(Commands) /\ Len(b) = Len(buf) + Len(v)
          /\ \A i \in 1 .. Len(buf) + Len(v) : b[i] = IF i <= Len(buf) THEN buf[i] ELSE v[i - Len(buf)]
      BY <1>t, <3>1, ConcatProperties
    <3> HIDE DEF b
    <3>3. /\ Len(w) = Len(wire) + Len(b)
          /\ \A i \in 1 .. Len(wire) + Len(b) : w[i] = IF i <= Len(wire) THEN wire[i] ELSE b[i - Len(wire)]
      <4>1. b \in Seq(Commands)
        BY <3>2
      <4> QED
        BY <1>t, <4>1, ConcatProperties
    <3> HIDE DEF w
    <3>4. \A i \in 1 .. Len(b) : b[i].op = Sentinel => i = Len(b)
      <4> SUFFICES ASSUME NEW i \in 1 .. Len(buf) + Len(v), b[i].op = Sentinel PROVE i = Len(buf) + Len(v)
        BY <3>2
      <4>1. ~(i <= Len(buf))
        <5> SUFFICES ASSUME i <= Len(buf) PROVE FALSE
          OBVIOUS
        <5>1. i \in 1 .. Len(buf)
          BY <1>t
        <5> QED
          BY <2>3, <3>2, <5>1
      <4>2. b[i] = v[i - Len(buf)] /\ i - Len(buf) \in 1 .. Len(v)
        BY <1>t, <3>1, <3>2, <4>1
      <4>3. i - Len(buf) = Len(v)
        BY <3>1, <4>2
      <4>4. i \in Int /\ Len(buf) \in Int /\ Len(v) \in Int
        BY <1>t, <3>1
      <4> QED
        BY <4>3, <4>4
    <3>5. \A i \in 1 .. Len(w) : w[i].op = Sentinel => i = Len(w)
      <4>0. Len(b) \in Nat
        BY <1>t, <3>1, <3>2
      <4> SUFFICES ASSUME NEW i \in 1 .. Len(wire) + Len(b), w[i].op = Sentinel PROVE i = Len(wire) + Len(b)
        BY <3>3
      <4>1. ~(i <= Len(wire))
        <5> SUFFICES ASSUME i <= Len(wire) PROVE FALSE
          OBVIOUS
        <5>1. i \in 1 .. Len(wire)
          BY <1>t
        <5> QED
          BY <2>3, <3>3, <5>1
      <4>2. w[i] = b[i - Len(wire)] /\ i - Len(wire) \in 1 .. Len(b)
        BY <1>t, <3>3, <4>0, <4>1
      <4>3. i - Len(wire) = Len(b)
        BY <3>4, <4>2
      <4> QED
        BY <1>t, <4>0, <4>3
    <3>6. wire' = w
      BY <2>1, <2>6 DEF FlushOk, w, b, v
    <3> QED
      BY <1>g, <2>4, <3>5, <3>6
  <2> QED
    BY <2>5, <2>6
<1>2. CASE pc = "sentinel"
  <2>0. /\ buf = <<>> /\ "subscribe" \in state /\ reader = "out" /\ "monitor" \notin session
        /\ \A i \in 1 .. Len(wire) : wire[i].op = Sentinel => i = Len(wire)
        /\ \A i \in 1 .. Len(inbox) : Found(inbox[i]) =>
             /\ i = Len(inbox) /\ wire = <<>> /\ pending <= Len(inbox)
             /\ ~Subscribed(session) /\ "monitor" \notin session
             /\ session = {} \/ Errors
    <3>1. "monitor" \notin session
      BY <1>2, <1>i DEF Tagged, Doomed
    <3>2. buf = <<>> /\ "subscribe" \in state /\ reader = "out"
      BY <1>0, <1>2 DEF Phases, Places, TypeOK
    <3>3. /\ \A i \in 1 .. Len(wire) : wire[i].op = Sentinel => i = Len(wire)
          /\ \A i \in 1 .. Len(inbox) : Found(inbox[i]) =>
               /\ i = Len(inbox) /\ wire = <<>> /\ pending <= Len(inbox)
               /\ ~Subscribed(session) /\ "monitor" \notin session
               /\ session = {} \/ Errors
      BY <1>2, <1>i DEF LastFound
    <3> QED
      BY <3>1, <3>2, <3>3
  <2>1. CASE SentinelRead
    <3>1. /\ inbox # <<>> /\ inbox' = Tail(inbox) /\ pending' = Lowered(pending)
          /\ UNCHANGED <<session, up, wire>> /\ ~Head(inbox).error
      BY <1>2, <2>1 DEF SentinelRead
    <3>2. /\ Len(inbox') = Len(inbox) - 1 /\ Len(inbox) >= 1
          /\ \A i \in 1 .. Len(inbox') : inbox'[i] = inbox[i + 1]
      BY <1>t, <3>1, Shorter, HeadTailProperties
    <3>3. Errors => Errors'
      BY <1>0, <3>1, ErrorsLater
    <3>4. ASSUME NEW i \in 1 .. Len(inbox'), Found(inbox'[i])
          PROVE  /\ i = Len(inbox') /\ wire' = <<>> /\ pending' <= Len(inbox')
                 /\ ~Subscribed(session') /\ "monitor" \notin session'
                 /\ session' = {} \/ Errors'
      <4>1. i + 1 \in 1 .. Len(inbox) /\ Found(inbox[i + 1]) /\ Len(inbox) >= 2
        BY <1>t, <3>2, <3>4
      <4>2. /\ i + 1 = Len(inbox) /\ wire = <<>> /\ pending <= Len(inbox)
            /\ ~Subscribed(session) /\ "monitor" \notin session
            /\ session = {} \/ Errors
        BY <2>0, <4>1
      <4>3. i = Len(inbox')
        BY <1>t, <3>2, <4>2
      <4>4. pending' <= Len(inbox')
        BY <1>t, <3>1, <3>2, <4>1, <4>2 DEF Lowered
      <4> QED
        BY <3>1, <3>3, <4>2, <4>3, <4>4
    <3> QED
      BY <1>g, <2>0, <3>1, <3>4
  <2>2. CASE Serve
    <3>1. /\ up /\ wire # <<>> /\ wire' = Tail(wire) /\ session' = Executed(session, Head(wire).op)
          /\ UNCHANGED <<client, up, pushed, buf>>
      BY <2>2 DEF Serve
    <3>2. /\ Len(wire') = Len(wire) - 1 /\ Len(wire) >= 1 /\ Head(wire) = wire[1]
          /\ \A i \in 1 .. Len(wire') : wire'[i] = wire[i + 1]
      BY <1>t, <3>1, Shorter, HeadTailProperties
    <3>3. \A i \in 1 .. Len(wire') : wire'[i].op = Sentinel => i = Len(wire')
      <4> SUFFICES ASSUME NEW i \in 1 .. Len(wire'), wire'[i].op = Sentinel PROVE i = Len(wire')
        OBVIOUS
      <4>1. i + 1 \in 1 .. Len(wire) /\ wire[i + 1].op = Sentinel
        BY <1>t, <3>2
      <4> QED
        BY <1>t, <2>0, <3>2, <4>1
    <3>4. ASSUME NEW i \in 1 .. Len(inbox'), Found(inbox'[i])
          PROVE  /\ i = Len(inbox') /\ wire' = <<>> /\ pending' <= Len(inbox')
                 /\ ~Subscribed(session') /\ "monitor" \notin session'
                 /\ session' = {} \/ Errors'
      <4> DEFINE op == Head(wire).op
      <4>1. /\ Len(inbox') >= Len(inbox) + 1 /\ Len(inbox') \in Nat
            /\ \A k \in 1 .. Len(inbox) : inbox'[k] = inbox[k]
            /\ \A k \in 1 .. Len(inbox') : k > Len(inbox) =>
                 inbox'[k].to = Head(wire) /\ (Refuses(session, op) => inbox'[k].error)
            /\ op \notin SubscriberOps => Len(inbox') = Len(inbox) + 1
        BY <1>0, <2>2, ServeExtends
      <4>2. i > Len(inbox)
        <5> SUFFICES ASSUME ~(i > Len(inbox)) PROVE FALSE
          OBVIOUS
        <5>1. i \in 1 .. Len(inbox)
          BY <1>t
        <5> QED
          BY <2>0, <3>1, <3>4, <4>1, <5>1
      <4>3. op = Sentinel /\ ~Refuses(session, op)
        BY <3>4, <4>1, <4>2 DEF Found
      <4>4. op \notin SubscriberOps /\ ~Subscribed(session) /\ session' = session
        BY <3>1, <4>3 DEF SubscriberOps, Sentinel, Refuses, Executed, After
      <4>5. Len(inbox') = Len(inbox) + 1 /\ i = Len(inbox')
        BY <1>t, <4>1, <4>2, <4>4
      <4>6. 1 \in 1 .. Len(wire) /\ wire[1].op = Sentinel
        BY <1>t, <3>2, <4>3
      <4>7. 1 = Len(wire)
        BY <2>0, <4>6
      <4>8. wire' = <<>>
        <5>1. Tail(wire) \in Seq(Commands) /\ Len(Tail(wire)) = 0
          BY <1>t, <3>1, <4>7, Shorter
        <5> QED
          BY <3>1, <5>1, EmptySeq
      <4>9. pending' <= Len(inbox')
        <5>1. up' /\ buf' = <<>> /\ pc' = "sentinel" /\ reader' = "out" /\ pending' \in Nat
          BY <1>t, <2>0, <3>1
        <5>2. pending' <= Len(buf') + Len(wire') + Len(inbox') + 0 + 0
          BY <5>1 DEF ConnInv, Owed, Answers, Unwritten, Uncounted
        <5>3. Len(buf') = 0 /\ Len(wire') = 0
          BY <4>8, <5>1
        <5> QED
          BY <4>1, <5>1, <5>2, <5>3
      <4>10. session' = {} \/ Errors'
        <5>1. Ahead
          BY <1>i, <3>1 DEF Intact
        <5>2. PICK e \in SUBSET Modes, f \in BOOLEAN : Leads(session, Way, e, f) /\ (e = {} \/ f \/ Errors)
          BY <1>2, <5>1 DEF Ahead
        <5>3. Way = wire
          <6>1. wire \o <<>> = wire
            BY <1>t, ConcatEmptySeq
          <6> QED
            BY <1>0, <1>2, <2>0, <6>1, WayTyped
        <5>4. Leads(Executed(session, op), Tail(wire), e, f /\ ~Refuses(session, op)) /\ session \in SUBSET Modes
          BY <1>0, <1>t, <3>1, <5>2, <5>3, LeadsFrom DEF TypeOK
        <5>5. Leads(session, <<>>, e, f)
          BY <3>1, <4>3, <4>4, <4>8, <5>4
        <5>6. e = session /\ ~f
          BY <5>4, <5>5, LeadsNowhere
        <5>7. Errors => Errors'
          BY <1>0, <2>2, ErrorsKept
        <5> QED
          BY <4>4, <5>2, <5>6, <5>7
      <4> QED
        BY <2>0, <4>4, <4>5, <4>8, <4>9, <4>10
    <3> QED
      BY <1>g, <3>3, <3>4
  <2>3. CASE Publish
    <3>1. wire' = wire /\ (Subscribed(session) \/ "monitor" \in session)
      BY <2>3 DEF Publish
    <3>2. /\ Len(inbox') = Len(inbox) + 1
          /\ \A i \in 1 .. Len(inbox) : inbox'[i] = inbox[i]
          /\ inbox'[Len(inbox) + 1].to = Pushed
      BY <1>0, <2>3, PublishExtends
    <3>3. ASSUME NEW i \in 1 .. Len(inbox') PROVE ~Found(inbox'[i])
      <4>1. CASE i \in 1 .. Len(inbox)
        BY <2>0, <3>1, <3>2, <4>1
      <4>2. CASE i \notin 1 .. Len(inbox)
        <5>1. i = Len(inbox) + 1
          BY <1>t, <3>2, <4>2
        <5> QED
          BY <3>2, <5>1 DEF Found, Pushed, Sentinel
      <4> QED
        BY <4>1, <4>2
    <3> QED
      BY <1>g, <2>0, <3>1, <3>3
  <2>4. CASE Drop
    <3>1. wire' = <<>> /\ inbox' \in Prefixes(inbox) /\ UNCHANGED <<client, session>>
      BY <2>4 DEF Drop
    <3>2. /\ Len(inbox') <= Len(inbox) /\ Len(inbox') \in Nat
          /\ Len(inbox') = Len(inbox) => inbox' = inbox
          /\ \A i \in 1 .. Len(inbox') : inbox'[i] = inbox[i]
      BY <1>t, <3>1, PrefixShorter
    <3>3. \A i \in 1 .. Len(wire') : i = Len(wire')
      BY <3>1
    <3>4. ASSUME NEW i \in 1 .. Len(inbox'), Found(inbox'[i])
          PROVE  /\ i = Len(inbox') /\ wire' = <<>> /\ pending' <= Len(inbox')
                 /\ ~Subscribed(session') /\ "monitor" \notin session'
                 /\ session' = {} \/ Errors'
      <4>1. i \in 1 .. Len(inbox) /\ Found(inbox[i])
        BY <1>t, <3>2, <3>4
      <4>2. i = Len(inbox) /\ pending <= Len(inbox) /\ ~Subscribed(session) /\ "monitor" \notin session
            /\ (session = {} \/ Errors)
        BY <2>0, <4>1
      <4>3. inbox' = inbox
        BY <1>t, <3>2, <4>2
      <4>4. Errors => Errors'
        BY <4>3 DEF Errors
      <4> QED
        BY <3>1, <4>2, <4>3, <4>4
    <3> QED
      BY <1>g, <3>3, <3>4
  <2>5. CASE UNCHANGED vars
    BY <1>i, <2>5 DEF vars, LastFound, Found, Subscribed, Errors
  <2>6. ~Spill
    BY <2>0 DEF Spill
  <2>7. /\ \A op \in Ops : ~SendCount(op) /\ ~DoBegin(op)
        /\ ~SendWrite /\ ~Flush /\ ~Receive /\ ~DoRead /\ ~ReceiveRead /\ ~ReceiveCount /\ ~Close
        /\ ~DrainBegin /\ ~DrainRead /\ ~Borrow /\ ~Dial
    BY <1>2, <2>0 DEF SendCount, DoBegin, SendWrite, Flush, Receive, DoRead, ReceiveRead, ReceiveCount, Close,
       DrainBegin, DrainRead, Borrow, Dial
  <2>8. ~ReadError /\ ~Deadline
    BY <1>f DEF ReadError, Deadline, ReadFails
  <2> QED
    BY <1>n, <2>1, <2>2, <2>3, <2>4, <2>5, <2>6, <2>7, <2>8 DEF Next, Write, Read, Closing
<1>3. pc # "sentinel" => Close
  <2>1. pc # "sentinel" =>
          /\ \A op \in Ops : ~SendCount(op) /\ ~DoBegin(op)
          /\ ~SendWrite /\ ~Flush /\ ~Receive /\ ~DoRead /\ ~ReceiveRead /\ ~ReceiveCount
          /\ ~Closing /\ ~Borrow /\ ~Dial /\ ~Spill /\ ~Serve /\ ~Publish /\ ~Drop
    BY DEF SendCount, DoBegin, SendWrite, Flush, Receive, DoRead, ReceiveRead, ReceiveCount,
       Closing, SentinelRead, DrainBegin, DrainRead, Put, PutBack, Borrow, Dial, Spill, Serve, Publish, Drop
  <2>2. ~ReadError /\ ~Deadline
    BY <1>f DEF ReadError, Deadline, ReadFails
  <2>3. pc # "sentinel" => ~UNCHANGED vars
    BY DEF vars
  <2> QED
    BY <2>1, <2>2, <2>3 DEF Next, Write, Read
<1> QED
  BY <1>1, <1>2, <1>3

------------------------------------------------------------------------------
(* The invariant of the whole                                               *)

LEMMA InitLease == Init => LeaseInv
<1> SUFFICES ASSUME Init PROVE LeaseInv
  OBVIOUS
<1>1. ConnInv
  BY InitInv
<1>2. Phases /\ Own
  BY DEF Init, Phases, Ending, Own
<1>3. Len(<<>>) = 0
  OBVIOUS
<1>4. Tagged
  <2>1. <<>> \in Seq(Marked) /\ <<>> \in Seq(MarkedReplies)
    BY EmptyList
  <2> QED
    BY <2>1 DEF Init, Tagged, Subscribed
<1>5. Counts
  BY <1>3 DEF Init, Counts, Total, Unwritten, Uncounted, Answers
<1>6. Ahead /\ LastFound
  BY DEF Init, Ahead, LastFound
<1> QED
  BY <1>1, <1>2, <1>4, <1>5, <1>6 DEF LeaseInv, Fit

LEMMA NextLease == LeaseInv /\ [Next]_vars => LeaseInv'
<1> SUFFICES ASSUME LeaseInv, [Next]_vars PROVE LeaseInv'
  OBVIOUS
<1>1. ConnInv'
  BY NextInv DEF LeaseInv
<1>2. Phases' /\ Own'
  BY <1>1, PhasesNext, OwnNext
<1>3. ~Doomed' => Fit'
  BY <1>1, TaggedNext, CountsNext, AheadNext, LastFoundNext DEF Fit
<1> QED
  BY <1>1, <1>2, <1>3 DEF LeaseInv

(* What is on the connection belongs to whoever borrows it: the flags tell  *)
(* what the server will hold for it, pending what it still owes, as long as *)
(* the connection may be kept.                                              *)
THEOREM LeaseInvariant == Spec => []LeaseInv
  BY InitLease, NextLease, PTL DEF Spec

(* Do hands back the reply of its own command: when one reply is left to    *)
(* read, nothing else is under way.                                         *)
THEOREM OwnReply == Spec => []DoGetsOwnReply
<1>1. LeaseInv => DoGetsOwnReply
  <2> USE DEF Unwritten, Uncounted, Answers
  <2> SUFFICES ASSUME LeaseInv, pc = "do", want = 1, inbox # <<>>, state \cap {"subscribe", "monitor"} = {}
               PROVE  Head(inbox).to = cmd
    BY DEF DoGetsOwnReply
  <2>1. /\ ~err /\ buf = <<>> /\ reader = "out" /\ Plain
        /\ wire \in Seq(Commands) /\ inbox \in Seq(Replies) /\ Len(wire) \in Nat
    BY LenProperties DEF LeaseInv, ConnInv, Phases, Places, TypeOK, Plain
  <2>2. Counts
    BY <2>1 DEF LeaseInv, Doomed, Fit
  <2>3. Len(inbox) \in Nat /\ Len(inbox) >= 1 /\ Len(buf) = 0
    BY <2>1, Shorter, EmptyList
  <2>4. Total = Len(wire) + Len(inbox) /\ Answers = 1
    BY <2>1, <2>3 DEF Total
  <2>5. Len(wire) + Len(inbox) <= 1
    BY <2>1, <2>2, <2>4 DEF Counts
  <2>6. Len(wire) = 0 /\ Len(inbox) = 1 /\ Total = Answers
    <3>0. \A a, b \in Nat : b >= 1 /\ a + b <= 1 => a = 0 /\ b = 1
      OBVIOUS
    <3>1. Len(wire) = 0 /\ Len(inbox) = 1
      BY <2>1, <2>3, <2>5, <3>0
    <3>2. Total = 1
      BY <2>4, <3>1
    <3> QED
      BY <2>4, <3>1, <3>2
  <2>7. wire = <<>>
    BY <2>1, <2>6, EmptySeq
  <2>8. inbox[Len(inbox)].to = cmd
    BY <2>1, <2>6, <2>7 DEF LeaseInv, Own
  <2> QED
    BY <2>6, <2>8
<1> QED
  BY <1>1, LeaseInvariant, PTL

(* A step moves the connection into the pool, out of it, or neither.        *)
LEMMA PlaceMoves ==
  ASSUME ConnInv, [Next]_vars
  PROVE  \/ Dial \/ Put \/ PutBack \/ Borrow
         \/ pc' = pc /\ pc \in {"none", "pooled"}
         \/ pc' \notin {"none", "pooled"} /\ pc \notin {"none", "pooled"}
<1> USE DEF client, server
<1>1. ASSUME NEW op \in Ops, SendCount(op) \/ DoBegin(op)
      PROVE  pc = "use" /\ pc' \in {"use", "write", "do"}
  BY <1>1 DEF SendCount, DoBegin
<1>2. SendWrite \/ Flush \/ Receive \/ DoRead =>
        pc \in {"use", "write", "do"} /\ pc' \in {"use", "write", "do"}
  BY DEF SendWrite, Flush, Receive, DoRead
<1>3. ReceiveRead \/ ReceiveCount \/ Spill \/ Serve \/ Publish \/ Drop \/ UNCHANGED vars => pc' = pc
  BY DEF ReceiveRead, ReceiveCount, Spill, Serve, Publish, Drop, vars
<1>4. ReadError \/ Deadline => (pc' = pc) \/ (pc' \in {"use", "flush", "put"} /\ pc \in {"do", "sentinel", "drain"})
  BY DEF ReadError, Deadline, ReadFails, AfterError
<1>5. Close \/ SentinelRead \/ DrainBegin \/ DrainRead =>
        /\ pc \in {"use", "sentinel", "flush", "drain"}
        /\ pc' \in {"sentinel", "flush", "drain", "put"}
  BY DEF Close, SentinelRead, DrainBegin, DrainRead
<1> QED
  BY <1>1, <1>2, <1>3, <1>4, <1>5 DEF Next, Write, Read, Closing

LEMMA NextIsLease ==
  ASSUME LeaseInv, [Next]_vars, LeaseInv'
  PROVE  [Leases!Next]_(Leases!vars)
<1> DEFINE spot == IF pc \in {"none", "pooled"} THEN pc ELSE "held"
           used == IF pc = "none" THEN TRUE ELSE Used
<1>1. SUFFICES \/ spot = "none" /\ spot' = "held" /\ ~used'
               \/ spot = "held" /\ spot' = "held"
               \/ spot = "held" /\ spot' = "pooled" /\ ~used /\ ~used'
               \/ spot = "pooled" /\ spot' = "held" /\ used' = used
               \/ spot = "held" /\ spot' = "none" /\ used'
               \/ spot' = spot /\ used' = used
  <2>1. /\ [c \in {"conn"} |-> spot]["conn"] = spot /\ ([c \in {"conn"} |-> spot]["conn"])' = spot'
        /\ [c \in {"conn"} |-> used]["conn"] = used /\ ([c \in {"conn"} |-> used]["conn"])' = used'
    OBVIOUS
  <2> QED
    BY <1>1, <2>1 DEF Leases!Next, Leases!Dial, Leases!Use, Leases!GiveBack, Leases!Borrow, Leases!Scrap,
       Leases!Rest, Leases!Moves
<1>2. ConnInv /\ Phases /\ Phases'
  BY DEF LeaseInv
<1>3. CASE Dial
  <2>1. ~Used
    BY <1>2, <1>3, PooledClean DEF Dial
  <2>2. ~Used'
    BY <1>3, <2>1 DEF Dial, Used
  <2> QED
    BY <1>3, <2>2 DEF Dial
<1>4. CASE Put
  <2>1. ~Used
    BY <1>4, PutClean DEF Put
  <2>2. ~Used'
    BY <1>4, <2>1 DEF Put, Used
  <2> QED
    BY <1>4, <2>1, <2>2 DEF Put
<1>5. CASE PutBack
  BY <1>5 DEF PutBack
<1>6. CASE Borrow
  <2>1. pc = "pooled" /\ pc' = "use" /\ Used' = Used
    <3>1. pc = "pooled" /\ pc' = "use" /\ UNCHANGED <<err, session, pending, buf, wire, inbox>>
      BY <1>6 DEF Borrow, server
    <3>2. Used' = Used
      BY <3>1 DEF Used
    <3> QED
      BY <3>1, <3>2
  <2>2. spot = "pooled" /\ spot' = "held" /\ used = Used /\ used' = Used'
    BY <2>1
  <2> QED
    BY <2>1, <2>2
<1>7. CASE pc' = pc /\ pc \in {"none", "pooled"}
  <2>1. pc = "pooled" => ~Used /\ ~Used'
    BY <1>2, <1>7 DEF Phases
  <2>2. Used \in BOOLEAN /\ Used' \in BOOLEAN
    BY DEF Used
  <2>3. CASE pc = "none"
    <3>1. spot = "none" /\ spot' = "none" /\ used = TRUE /\ used' = TRUE
      BY <1>7, <2>3
    <3> QED
      BY <3>1
  <2>4. CASE pc = "pooled"
    <3>1. spot = "pooled" /\ spot' = "pooled" /\ used = FALSE /\ used' = FALSE
      BY <1>7, <2>1, <2>2, <2>4
    <3> QED
      BY <3>1
  <2> QED
    BY <1>7, <2>3, <2>4
<1>8. CASE pc' \notin {"none", "pooled"} /\ pc \notin {"none", "pooled"}
  BY <1>8
<1> QED
  BY <1>2, <1>3, <1>4, <1>5, <1>6, <1>7, <1>8, PlaceMoves

(* The connection implements Lease: it goes back to the pool without a      *)
(* transaction, a watched key, a subscription or a reply left over, stays   *)
(* as it is there, and goes out as it came in.                              *)
THEOREM LeaseKept == Spec => CleanLease
<1>1. Init => Leases!Init
  BY DEF Init, Leases!Init
<1>2. LeaseInv /\ [Next]_vars => [Leases!Next]_(Leases!vars)
  BY NextLease, NextIsLease
<1> QED
  BY <1>1, <1>2, LeaseInvariant, PTL DEF Spec, CleanLease, Leases!Spec
===============================================================================
