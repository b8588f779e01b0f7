------------------------------- MODULE Replies -------------------------------
(***************************************************************************)
(* What goes over a Redis connection: conn.go's reader and writer of the    *)
(* protocol and the conversions of reply.go, over bytes.  Decimal is Base,  *)
(* int64 and int are Bits and IntBits wide.                                 *)
(***************************************************************************)
EXTENDS Integers, Sequences
LOCAL INSTANCE SequencesExt

CONSTANTS
  Base,     (* 10 in the code            *)
  Bits,     (* width of an int64         *)
  IntBits,  (* width of an int           *)
  Payloads, (* bound: contents of a bulk *)
  Items     (* bound: items of an array  *)

ASSUME WidthAssumption == Base > 1 /\ 0 < IntBits /\ IntBits <= Bits

------------------------------------------------------------------------------
(* Bytes: a digit is its value. *)
Digits == 0 .. Base - 1
Minus == Base
CR == Base + 1
LF == Base + 2
Plus == Base + 3
Colon == Base + 4
Dollar == Base + 5
Star == Base + 6
CRLF == <<CR, LF>>

Least(w) == -(2^(w - 1))
Most(w) == 2^(w - 1) - 1
Wrap(n, w) == ((n - Least(w)) % 2^w) + Least(w)

Decimal[n \in Nat] ==
  IF n < Base THEN <<n>> ELSE Append(Decimal[n \div Base], n % Base)
Text(n) == IF n < 0 THEN <<Minus>> \o Decimal[-n] ELSE Decimal[n]

(* Replies; the type names are those of readReply's results. *)
Reply(t, n, b, i) == [type |-> t, int |-> n, bytes |-> b, items |-> i]
Nil == Reply("nil", 0, <<>>, <<>>)
Integer(n) == Reply("int64", n, <<>>, <<>>)
Bulk(b) == Reply("[]byte", 0, b, <<>>)
Simple(b) == Reply("string", 0, b, <<>>)
Failure(b) == Reply("Error", 0, b, <<>>)
Array(i) == Reply("[]interface{}", 0, <<>>, i)

------------------------------------------------------------------------------
(* Reading: what is read and what is left, or an error.                     *)

Got(r, s) == [ok |-> TRUE, reply |-> r, rest |-> s]
Fails == [ok |-> FALSE, reply |-> Nil, rest |-> <<>>]
Skip(s, n) == SubSeq(s, n + 1, Len(s))

readLine(s) ==
  LET i == SelectInSeq(s, LAMBDA b : b = LF) IN
  IF i < 2 \/ s[i - 1] # CR THEN Fails
  ELSE [Got(Nil, Skip(s, i)) EXCEPT !.reply.bytes = SubSeq(s, 1, i - 2)]

Number(p, w) == FoldLeft(LAMBDA n, d : Wrap(n * Base + d, w), 0, p)

AllDigits(p) == \A i \in DOMAIN p : p[i] \in Digits

parseLen(p) ==
  CASE p = <<>> -> Fails
    [] p = <<Minus, 1>> -> Got(Integer(-1), <<>>)
    [] p \notin {<<>>, <<Minus, 1>>} ->
         IF AllDigits(p) THEN Got(Integer(Number(p, IntBits)), <<>>) ELSE Fails

(* The sign is applied to what the digits give in 64 bits. *)
parseInt(p) ==
  LET negate == p # <<>> /\ p[1] = Minus
      q == IF negate THEN Tail(p) ELSE p
      n == Number(q, Bits)
  IN
  IF q = <<>> \/ ~AllDigits(q) THEN Fails
  ELSE Got(Integer(IF negate THEN Wrap(-n, Bits) ELSE n), <<>>)

(* A bulk is read by its length, whatever is in it. *)
ReadBulkSlip(n, s) ==  (* slip: read up to the end of the line *)
  LET e == readLine(s) IN IF e.ok THEN Got(Bulk(e.reply.bytes), e.rest) ELSE Fails
ReadBulk(n, s) ==
  LET e == readLine(Skip(s, n)) IN
  IF Len(s) >= n /\ e.ok /\ e.reply.bytes = <<>> THEN Got(Bulk(SubSeq(s, 1, n)), e.rest) ELSE Fails

RECURSIVE readReply(_)
readReply(s) ==
  LET l == readLine(s)
      line == l.reply.bytes
      p == Tail(line)
      n == parseLen(p)
      item(r) == LET x == readReply(r.rest) IN
        IF r.ok /\ x.ok THEN Got(Array(Append(r.reply.items, x.reply)), x.rest) ELSE Fails
  IN
  IF ~l.ok \/ line = <<>> THEN Fails
  ELSE CASE line[1] = Plus -> Got(Simple(p), l.rest)
         [] line[1] = Minus -> Got(Failure(p), l.rest)
         [] line[1] = Colon -> [parseInt(p) EXCEPT !.rest = l.rest]
         [] line[1] \in {Dollar, Star} ->
              CASE ~n.ok -> Fails
                [] n.ok /\ n.reply.int < 0 -> Got(Nil, l.rest)
                [] OTHER ->
                     IF line[1] = Dollar THEN ReadBulk(n.reply.int, l.rest)
                     ELSE FoldLeft(LAMBDA r, i : item(r), Got(Array(<<>>), l.rest),
                                   [i \in 1 .. n.reply.int |-> i])
         [] OTHER -> Fails

------------------------------------------------------------------------------
(* Writing a command.                                                       *)

(* The digits, last one first, until nothing is left. *)
writeLen(prefix, n) == <<prefix>> \o Decimal[n] \o CRLF

writeBytes(b) == writeLen(Dollar, Len(b)) \o b \o CRLF

(* An argument is written as its text, whatever its type. *)
Argument(a) ==
  CASE a.type \in {"string", "[]byte"} -> a.bytes
    [] a.type = "int64" -> Text(a.int)
    [] a.type = "nil" -> <<>>

writeCommand(args) ==
  writeLen(Star, Len(args)) \o FoldLeft(LAMBDA s, a : s \o writeBytes(Argument(a)), <<>>, args)

------------------------------------------------------------------------------
(* Conversions                                                              *)

Value(v) == [err |-> "nil", val |-> v]
NoValue(e, zero) == [err |-> e, val |-> zero]

Refuse(reply, zero) ==
  CASE reply.type = "nil" -> NoValue("ErrNil", zero)
    [] reply.type = "Error" -> NoValue("Error", zero)
    [] OTHER -> NoValue("unexpected type", zero)

ParseInt(b, w) ==
  LET q == IF b # <<>> /\ b[1] \in {Minus, Plus} THEN Tail(b) ELSE b
      n == FoldLeft(LAMBDA k, d : k * Base + d, 0, q) * (IF b[1] = Minus THEN -1 ELSE 1)
  IN
  CASE q = <<>> \/ ~AllDigits(q) -> NoValue("ErrSyntax", 0)
    [] q # <<>> /\ AllDigits(q) ->
         CASE n < Least(w) -> NoValue("ErrRange", Least(w))
           [] n > Most(w) -> NoValue("ErrRange", Most(w))
           [] OTHER -> Value(n)

(* Int of reply.go. *)
ToIntSlip(reply) ==  (* slip: int64(x) != reply not looked at *)
  CASE reply.type = "int64" -> Value(Wrap(reply.int, IntBits))
    [] reply.type = "[]byte" -> ParseInt(reply.bytes, IntBits)
    [] OTHER -> Refuse(reply, 0)
ToInt(reply) ==
  LET x == Wrap(reply.int, IntBits) IN
  CASE reply.type = "int64" -> IF x = reply.int THEN Value(x) ELSE NoValue("ErrRange", 0)
    [] reply.type = "[]byte" -> ParseInt(reply.bytes, IntBits)
    [] OTHER -> Refuse(reply, 0)

Int64(reply) ==
  CASE reply.type = "int64" -> Value(reply.int)
    [] reply.type = "[]byte" -> ParseInt(reply.bytes, Bits)
    [] OTHER -> Refuse(reply, 0)

String(reply) ==
  IF reply.type \in {"[]byte", "string"} THEN Value(reply.bytes) ELSE Refuse(reply, <<>>)

Values(reply) ==
  IF reply.type = "[]interface{}" THEN Value(reply.items) ELSE Refuse(reply, <<>>)

Strings(reply) ==
  CASE reply.type # "[]interface{}" -> Refuse(reply, <<>>)
    [] reply.type = "[]interface{}" ->
         IF \A i \in DOMAIN reply.items : reply.items[i].type \in {"nil", "[]byte"}
         THEN Value([i \in DOMAIN reply.items |-> reply.items[i].bytes])
         ELSE NoValue("unexpected element type", <<>>)

------------------------------------------------------------------------------
(* The server's side, and what it sends.                                    *)

RECURSIVE Encode(_)
Encode(r) ==
  CASE r.type = "nil" -> <<Dollar, Minus, 1>> \o CRLF
    [] r.type = "int64" -> <<Colon>> \o Text(r.int) \o CRLF
    [] r.type = "[]byte" -> <<Dollar>> \o Text(Len(r.bytes)) \o CRLF \o r.bytes \o CRLF
    [] r.type = "string" -> <<Plus>> \o r.bytes \o CRLF
    [] r.type = "Error" -> <<Minus>> \o r.bytes \o CRLF
    [] r.type = "[]interface{}" ->
         FoldLeft(LAMBDA s, x : s \o Encode(x), <<Star>> \o Text(Len(r.items)) \o CRLF, r.items)

Leaves ==
  {Nil} \cup {Integer(n) : n \in {Least(Bits), -1, 0, Most(Bits)}}
    \cup {Bulk(b) : b \in Payloads} \cup {Simple(b) : b \in {<<>>, <<1>>}} \cup {Failure(<<1>>)}
Arrays(S) == {Array(i) : i \in UNION {[1 .. k -> S] : k \in 0 .. Items}}
Sent ==
  LET flat == Leaves \cup Arrays(Leaves) IN
  flat \cup Arrays({Nil, Bulk(CRLF), Array(<<>>), Array(<<Nil, Bulk(<<>>)>>), Array(<<Integer(1)>>)})

Int64s == Least(Bits) .. Most(Bits)
Exact(n, w) == IF n \in Least(w) .. Most(w) THEN {Value(n)} ELSE {}

(* What the server sends is read as it was sent, whatever bytes a value is  *)
(* made of and however arrays are nested, and nothing of what follows it is *)
(* touched; as long as part of it is missing nothing is taken for a reply.  *)
RepliesFramed ==
  \A v \in Sent :
    LET s == Encode(v)
        next == Encode(Integer(1))
    IN
    /\ readReply(s \o next) = Got(v, next)
    /\ \A k \in 0 .. Len(s) - 1 : ~readReply(SubSeq(s, 1, k)).ok

(* Every 64-bit number, the least one too, arrives as it is; where it does  *)
(* not fit an int, ToInt gives an error and never another number, and the two *)
(* ways Redis has of sending a number agree.                                *)
IntegersArrive ==
  \A n \in Int64s :
    LET number == readReply(Encode(Integer(n))).reply
        text == readReply(Encode(Bulk(Text(n)))).reply
        ok(r, w) == IF r.err = "nil" THEN {r} ELSE {}
    IN
    /\ Int64(number) = Value(n) /\ Int64(text) = Value(n)
    /\ ok(ToInt(number), IntBits) = Exact(n, IntBits)
    /\ ok(ToInt(text), IntBits) = Exact(n, IntBits)

(* Strings keeps each value at its place, with the empty one for a missing  *)
(* one, as getTimeline relies on for the fields it asks for; what is not an *)
(* array of texts is an error, and a missing reply is ErrNil, the one error *)
(* the callers let pass.                                                    *)
TextsArrive ==
  \A v \in Sent :
    LET r == readReply(Encode(v)).reply
        list == Strings(r)
    IN
    /\ list.err = "nil" =>
         /\ Len(list.val) = Len(Values(r).val)
         /\ \A i \in DOMAIN list.val :
              list.val[i] = IF v.items[i] = Nil THEN <<>> ELSE String(v.items[i]).val
    /\ list.err = "nil" \/ v.type # "[]interface{}"
         \/ \E i \in DOMAIN v.items : v.items[i].type \notin {"nil", "[]byte"}
    /\ (v = Nil) <=> (String(r).err = "ErrNil")

(* A command is read by the server as the arguments it was given, whatever  *)
(* bytes they are made of, the empty and the missing one included.          *)
CommandsRead ==
  \A args \in UNION {[1 .. k -> Leaves \ {Failure(<<1>>)}] : k \in 1 .. Items} :
    readReply(writeCommand(args))
      = Got(Array([i \in DOMAIN args |-> Bulk(Argument(args[i]))]), <<>>)
==============================================================================
