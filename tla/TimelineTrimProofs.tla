-------------------------- MODULE TimelineTrimProofs --------------------------
(***************************************************************************)
(* Proof that concurrent trims of a timeline cannot add up to more than    *)
(* TrimmedAtMost allows, for any users, photos, requests, Cap and Recent.  *)
(*                                                                         *)
(* The argument keeps an account for each timeline: the entries it has,    *)
(* less those each request is committed to remove.                         *)
(***************************************************************************)
EXTENDS TimelineProofs, FiniteSetTheorems

(* A fan-out removes an entry of TL:u when it receives a length above Cap:  *)
(* at most once, as the RPOP takes the other replies with it.              *)
WillPop(w, u) ==
  \/ \E i \in DOMAIN wire[w] : wire[w][i] = Pop(u)
  \/ /\ pc[w] = "recv" /\ ~down[w]
     /\ \E i \in DOMAIN replies[w] : i \in DOMAIN todo[w] /\ todo[w][i] = u /\ TooLong(replies[w][i])

(* The entries request w is committed to remove from TL:u.                  *)
Due(w, u) ==
  IF pc[w] \in {"push", "trim"}
  THEN IF down[w] \/ task[w].user # u THEN 0
       ELSE IF pc[w] = "push" THEN Excess(count[w]) ELSE count[w]
  ELSE IF WillPop(w, u) THEN 1 ELSE 0
Dues(u) == [w \in Worker |-> Due(w, u)]

(* One pair for each entry that some request is to remove.                  *)
Slots(d) == UNION {{w} \X (1 .. d[w]) : w \in Worker}
Owed(d) == Cardinality(Slots(d))
Margin(n) == (Cardinality(Worker) - 1) * n

(* The account of a list of length len that was to have due entries at      *)
(* least, with d owed, extra the most it was ever over Cap.  While only     *)
(* fan-outs trim it, whatever is owed is beyond a full list.               *)
Solvent(len, due, d, extra, caught) ==
  /\ d \in [Worker -> 0 .. extra]
  /\ len - Owed(d) >= Least(Cap, due) - Margin(extra)
  /\ \/ caught
     \/ /\ len - Owed(d) >= Least(Cap, due)
        /\ Owed(d) > 0 => len - Owed(d) >= Cap

FannedTo(u) == {p \in Photo : pushed[<<p, u>>] > 0}
Account(u) ==
  /\ IsFiniteSet(FannedTo(u))
  /\ Solvent(Len(tl[u]), Backlog[u] + Fanned(u), Dues(u), Excess(longest[u]), CaughtUp(u))

(* A request counts from zero, the pushes on its connection are for the     *)
(* followers whose replies have not come, and an RPOP is the last command. *)
Orderly(w) ==
  /\ pc[w] \in {"idle", "find", "put", "claim", "send"} => replies[w] = <<>>
  /\ pc[w] \in {"idle", "query"} => count[w] = 0
  /\ pc[w] = "recv" /\ ~down[w] =>
       \A i \in DOMAIN wire[w] : /\ wire[w][i].op = "LPUSH"
                                 /\ Len(replies[w]) + i \in DOMAIN todo[w]
                                 /\ wire[w][i].user = todo[w][Len(replies[w]) + i]
  /\ \A i \in DOMAIN wire[w] :
       wire[w][i].op = "RPOP" => i = Len(wire[w]) /\ (pc[w] \in {"pop", "idle"} \/ down[w])

TrimInv ==
  /\ TimelineInv
  /\ \A w \in Worker : Orderly(w)
  /\ \A u \in User : Account(u)
------------------------------------------------------------------------------
(* Accounts                                                                 *)

LEMMA ProductOne ==
  ASSUME NEW w, NEW n \in Nat
  PROVE  IsFiniteSet({w} \X (1 .. n)) /\ Cardinality({w} \X (1 .. n)) = n
<1>1. IsFiniteSet({w}) /\ Cardinality({w}) = 1
  BY FS_Singleton
<1>2. IsFiniteSet(1 .. n) /\ Cardinality(1 .. n) = n
  BY FS_Interval
<1>3. /\ IsFiniteSet({w} \X (1 .. n))
      /\ Cardinality({w} \X (1 .. n)) = Cardinality({w}) * Cardinality(1 .. n)
  BY <1>1, <1>2, FS_Product, Zenon
<1>4. 1 * n = n
  OBVIOUS
<1> QED
  BY <1>1, <1>2, <1>3, <1>4, Zenon

LEMMA SlotOf ==
  ASSUME NEW d, NEW s
  PROVE  s \in Slots(d) <=> \E w \in Worker : s \in {w} \X (1 .. d[w])
  BY DEF Slots

LEMMA WorkerCount == Cardinality(Worker) \in Nat /\ Cardinality(Worker) >= 1
<1>1. Cardinality(Worker) \in Nat /\ Cardinality(Worker) # 0
  BY WorkerAssumption, FS_CardinalityType, FS_EmptySet
<1> QED
  BY <1>1

LEMMA MarginFacts ==
  ASSUME NEW m \in Nat, NEW n \in Nat, m <= n
  PROVE  Margin(m) \in Nat /\ Margin(n) \in Nat /\ Margin(m) <= Margin(n)
<1> DEFINE k == Cardinality(Worker) - 1
<1>1. k \in Nat
  BY WorkerCount
<1> HIDE DEF k
<1>2. k * m \in Nat /\ k * n \in Nat /\ k * m <= k * n
  BY <1>1, SMT
<1> QED
  BY <1>2 DEF Margin, k

(* What all requests owe is what one owes and what the others owe: no more  *)
(* than the margin.                                                        *)
LEMMA OwedFacts ==
  ASSUME NEW m \in Nat, NEW d \in [Worker -> 0 .. m], NEW w \in Worker
  PROVE  \E o \in 0 .. Margin(m) :
           /\ Owed(d) = o + d[w] /\ Owed(d) \in Nat
           /\ \A n \in Nat : Owed([d EXCEPT ![w] = n]) = o + n
<1> DEFINE R == UNION {{v} \X (1 .. d[v]) : v \in Worker \ {w}}
           S == (Worker \ {w}) \X (1 .. m)
<1>1. R \subseteq S
  <2> SUFFICES ASSUME NEW v \in Worker \ {w} PROVE {v} \X (1 .. d[v]) \subseteq S
    BY Zenon
  <2>1. d[v] \in 0 .. m
    OBVIOUS
  <2>2. 1 .. d[v] \subseteq 1 .. m
    BY <2>1
  <2> QED
    BY <2>2
<1>2. IsFiniteSet(S) /\ Cardinality(S) = Margin(m)
  <2>1. IsFiniteSet(Worker \ {w}) /\ Cardinality(Worker \ {w}) = Cardinality(Worker) - 1
    BY WorkerAssumption, FS_RemoveElement
  <2>2. IsFiniteSet(1 .. m) /\ Cardinality(1 .. m) = m
    BY FS_Interval
  <2>3. IsFiniteSet(S) /\ Cardinality(S) = Cardinality(Worker \ {w}) * Cardinality(1 .. m)
    BY <2>1, <2>2, FS_Product
  <2> HIDE DEF S
  <2> QED
    BY <2>1, <2>2, <2>3 DEF Margin
<1> HIDE DEF S
<1>3. IsFiniteSet(R) /\ Cardinality(R) <= Margin(m) /\ Cardinality(R) \in Nat
  BY <1>1, <1>2, FS_Subset, FS_CardinalityType
<1>4. Margin(m) \in Nat
  BY MarginFacts
<1>5. ASSUME NEW e, \A v \in Worker \ {w} : e[v] = d[v], e[w] \in Nat
      PROVE  Owed(e) = Cardinality(R) + e[w]
  <2> DEFINE T == {w} \X (1 .. e[w])
  <2>1. Slots(e) = R \cup T
    <3>1. \A s : s \in Slots(e) <=> \E v \in Worker : s \in {v} \X (1 .. e[v])
      BY SlotOf
    <3>2. \A s : s \in R <=> \E v \in Worker \ {w} : s \in {v} \X (1 .. e[v])
      BY <1>5
    <3> HIDE DEF R
    <3>3. \A s : s \in Slots(e) <=> s \in R \/ s \in T
      BY <3>1, <3>2
    <3> QED
      BY <3>3
  <2>2. R \cap T = {}
    OBVIOUS
  <2>3. IsFiniteSet(T) /\ Cardinality(T) = e[w]
    BY <1>5, ProductOne
  <2>4. Cardinality(R \cup T) = Cardinality(R) + Cardinality(T) - Cardinality(R \cap T)
    BY <1>3, <2>3, FS_Union
  <2>5. Cardinality(R \cap T) = 0
    BY <2>2, FS_EmptySet
  <2> HIDE DEF R, T
  <2> QED
    BY <1>3, <1>5, <2>1, <2>3, <2>4, <2>5 DEF Owed
<1> HIDE DEF R
<1>6. Owed(d) = Cardinality(R) + d[w]
  BY <1>5
<1>7. ASSUME NEW n \in Nat PROVE Owed([d EXCEPT ![w] = n]) = Cardinality(R) + n
  <2> DEFINE e == [d EXCEPT ![w] = n]
  <2>1. e[w] = n /\ \A v \in Worker \ {w} : e[v] = d[v]
    OBVIOUS
  <2> HIDE DEF e
  <2>2. Owed(e) = Cardinality(R) + e[w]
    BY <1>5, <2>1
  <2> QED
    BY <2>1, <2>2 DEF e
<1>8. Owed(d) \in Nat
  BY <1>3, <1>6
<1> QED
  BY <1>3, <1>4, <1>6, <1>7, <1>8

LEMMA LeastFacts ==
  ASSUME NEW a \in Nat, NEW b \in Nat
  PROVE  /\ Least(Cap, a) \in Nat /\ Least(Cap, a) <= Cap /\ Least(Cap, a) <= a
         /\ Least(Cap, a + 1) <= Least(Cap, a) + 1
         /\ Excess(a) \in Nat /\ Excess(a) = a - Least(Cap, a)
         /\ a <= b => Excess(a) <= Excess(b)
         /\ TooLong(a) => Excess(a) >= 1
  BY BoundsAssumption DEF Least, Excess, TooLong

(* No entry is removed that was not owed, and nobody owes more.             *)
LEMMA Settled ==
  ASSUME NEW len \in Nat, NEW due \in Nat, NEW extra \in Nat, NEW d, NEW c \in BOOLEAN,
         Solvent(len, due, d, extra, c), NEW w \in Worker,
         NEW len1 \in Nat, NEW n \in 0 .. d[w], len1 >= len - (d[w] - n)
  PROVE  Solvent(len1, due, [d EXCEPT ![w] = n], extra, c)
<1> DEFINE e == [d EXCEPT ![w] = n]
<1>1. d \in [Worker -> 0 .. extra] /\ d[w] \in 0 .. extra
  BY DEF Solvent
<1>2. PICK o \in 0 .. Margin(extra) : Owed(d) = o + d[w] /\ Owed(d) \in Nat /\ Owed(e) = o + n
  <2>1. \E o \in 0 .. Margin(extra) :
          /\ Owed(d) = o + d[w] /\ Owed(d) \in Nat
          /\ \A k \in Nat : Owed([d EXCEPT ![w] = k]) = o + k
    BY <1>1, OwedFacts
  <2>2. n \in Nat
    BY <1>1
  <2> QED
    BY <2>1, <2>2
<1>3. Margin(extra) \in Nat /\ Least(Cap, due) \in Nat /\ Cap \in Nat
  BY MarginFacts, LeastFacts, BoundsAssumption
<1>4. e \in [Worker -> 0 .. extra]
  BY <1>1
<1> HIDE DEF e
<1>5. len1 - Owed(e) >= len - Owed(d) /\ Owed(e) <= Owed(d) /\ Owed(e) \in Nat
  BY <1>1, <1>2, <1>3
<1>6. len1 - Owed(e) >= Least(Cap, due) - Margin(extra)
  BY <1>1, <1>2, <1>3, <1>5 DEF Solvent
<1>7. c \/ (len1 - Owed(e) >= Least(Cap, due) /\ (Owed(e) > 0 => len1 - Owed(e) >= Cap))
  BY <1>1, <1>2, <1>3, <1>5 DEF Solvent
<1> QED
  BY <1>4, <1>6, <1>7 DEF Solvent, e

(* An entry more, and one owed at most when the list was full without it.   *)
LEMMA Pushed ==
  ASSUME NEW len \in Nat, NEW due \in Nat, NEW extra \in Nat, NEW d, NEW c \in BOOLEAN,
         Solvent(len, due, d, extra, c), NEW w \in Worker,
         NEW due1 \in {due, due + 1}, NEW extra1 \in Nat, extra1 >= extra,
         NEW n \in 0 .. extra1, n <= d[w] \/ (d[w] = 0 /\ n = 1 /\ TooLong(len + 1))
  PROVE  Solvent(len + 1, due1, [d EXCEPT ![w] = n], extra1, c)
<1> DEFINE e == [d EXCEPT ![w] = n]
<1>1. d \in [Worker -> 0 .. extra] /\ d[w] \in 0 .. extra
  BY DEF Solvent
<1>2. PICK o \in 0 .. Margin(extra) : Owed(d) = o + d[w] /\ Owed(d) \in Nat /\ Owed(e) = o + n
  <2>1. \E o \in 0 .. Margin(extra) :
          /\ Owed(d) = o + d[w] /\ Owed(d) \in Nat
          /\ \A k \in Nat : Owed([d EXCEPT ![w] = k]) = o + k
    BY <1>1, OwedFacts
  <2>2. n \in Nat
    BY <1>1
  <2> QED
    BY <2>1, <2>2
<1>3. /\ Margin(extra) \in Nat /\ Margin(extra1) \in Nat /\ Margin(extra) <= Margin(extra1)
      /\ Least(Cap, due) \in Nat /\ Least(Cap, due) <= Cap /\ Cap \in Nat
      /\ Least(Cap, due1) \in Nat /\ Least(Cap, due1) <= Cap /\ Least(Cap, due1) <= Least(Cap, due) + 1
  <2>1. Margin(extra) \in Nat /\ Margin(extra1) \in Nat /\ Margin(extra) <= Margin(extra1)
    BY MarginFacts
  <2>2. \A a \in Nat : /\ Least(Cap, a) \in Nat /\ Least(Cap, a) <= Cap
                      /\ Least(Cap, a + 1) <= Least(Cap, a) + 1
    BY LeastFacts
  <2>3. due1 \in Nat /\ Cap \in Nat
    BY BoundsAssumption
  <2>4. CASE due1 = due
    BY <2>1, <2>2, <2>3, <2>4
  <2>5. CASE due1 = due + 1
    BY <2>1, <2>2, <2>3, <2>5
  <2> QED
    BY <2>4, <2>5
<1>4. e \in [Worker -> 0 .. extra1]
  BY <1>1
<1> HIDE DEF e
<1>5. CASE n <= d[w]
  <2>1. (len + 1) - Owed(e) >= (len - Owed(d)) + 1 /\ Owed(e) <= Owed(d) /\ Owed(e) \in Nat
    BY <1>1, <1>2, <1>3, <1>5
  <2>2. (len + 1) - Owed(e) >= Least(Cap, due1) - Margin(extra1)
    BY <1>1, <1>2, <1>3, <2>1 DEF Solvent
  <2>3. c \/ ((len + 1) - Owed(e) >= Least(Cap, due1) /\ (Owed(e) > 0 => (len + 1) - Owed(e) >= Cap))
    BY <1>1, <1>2, <1>3, <2>1 DEF Solvent
  <2> QED
    BY <1>4, <2>2, <2>3 DEF Solvent, e
<1>6. CASE d[w] = 0 /\ n = 1 /\ TooLong(len + 1)
  <2>1. len >= Cap /\ Owed(e) = o + 1 /\ Owed(d) = o /\ o \in Nat
    BY <1>2, <1>3, <1>6 DEF TooLong
  <2>2. (len + 1) - Owed(e) >= Least(Cap, due1) - Margin(extra1)
    BY <1>2, <1>3, <2>1
  <2>3. c \/ (len + 1) - Owed(e) >= Cap
    BY <1>2, <1>3, <2>1 DEF Solvent
  <2>4. c \/ (len + 1) - Owed(e) >= Least(Cap, due1)
    BY <1>2, <1>3, <2>1, <2>3
  <2> QED
    BY <1>4, <2>2, <2>3, <2>4 DEF Solvent, e
<1> QED
  BY <1>5, <1>6

(* An entry more, and everything above Cap owed.                            *)
LEMMA Planned ==
  ASSUME NEW len \in Nat, NEW due \in Nat, NEW extra \in Nat, NEW d,
         Solvent(len, due, d, extra, TRUE), NEW w \in Worker,
         NEW extra1 \in Nat, extra1 >= extra, extra1 >= Excess(len + 1)
  PROVE  Solvent(len + 1, due, [d EXCEPT ![w] = Excess(len + 1)], extra1, TRUE)
<1> DEFINE n == Excess(len + 1)
           e == [d EXCEPT ![w] = n]
<1>1. d \in [Worker -> 0 .. extra] /\ d[w] \in 0 .. extra
  BY DEF Solvent
<1>2. n \in Nat /\ n <= extra1
  BY LeastFacts
<1>3. PICK o \in 0 .. Margin(extra) : Owed(d) = o + d[w] /\ Owed(d) \in Nat /\ Owed(e) = o + n
  <2>1. \E o \in 0 .. Margin(extra) :
          /\ Owed(d) = o + d[w] /\ Owed(d) \in Nat
          /\ \A k \in Nat : Owed([d EXCEPT ![w] = k]) = o + k
    BY <1>1, OwedFacts
  <2>2. n \in Nat
    BY <1>1, <1>2
  <2> QED
    BY <2>1, <2>2
<1>4. /\ Margin(extra) \in Nat /\ Margin(extra1) \in Nat /\ Margin(extra) <= Margin(extra1)
      /\ Least(Cap, due) \in Nat /\ Least(Cap, due) <= Cap /\ Cap \in Nat
  BY MarginFacts, LeastFacts, BoundsAssumption
<1>5. e \in [Worker -> 0 .. extra1]
  BY <1>1, <1>2
<1> HIDE DEF e
<1>6. CASE len + 1 > Cap
  <2>1. n = (len + 1) - Cap
    BY <1>6 DEF Excess, TooLong
  <2> HIDE DEF n
  <2>2. (len + 1) - Owed(e) >= Least(Cap, due) - Margin(extra1)
    BY <1>2, <1>3, <1>4, <2>1
  <2> QED
    BY <1>5, <2>2 DEF Solvent, e, n
<1>7. CASE ~(len + 1 > Cap)
  <2>1. n = 0
    BY <1>7 DEF Excess, TooLong
  <2> HIDE DEF n
  <2>2. (len + 1) - Owed(e) >= Least(Cap, due) - Margin(extra1)
    BY <1>1, <1>3, <1>4, <2>1 DEF Solvent
  <2> QED
    BY <1>5, <2>2 DEF Solvent, e, n
<1> QED
  BY <1>6, <1>7
------------------------------------------------------------------------------
(* The connection of a request                                              *)

LEMMA OpKinds == \A u, p : Pop(u).op = "RPOP" /\ Push(u, p).op = "LPUSH" /\ Push(u, p).user = u
  BY DEF Pop, Push

LEMMA CutPrefix ==
  ASSUME Registers, NEW w \in Worker, NEW k \in 0 .. Len(wire[w]), Cut(w, k)
  PROVE  /\ Len(wire'[w]) <= Len(wire[w])
         /\ \A i \in DOMAIN wire'[w] : i \in DOMAIN wire[w] /\ wire'[w][i] = wire[w][i]
<1>1. wire[w] \in Seq(Commands)
  BY AtFacts
<1>2. wire'[w] = SubSeq(wire[w], 1, k)
  BY DEF Cut, Registers
<1>3. /\ SubSeq(wire[w], 1, k) \in Seq(Commands)
      /\ \A i \in DOMAIN SubSeq(wire[w], 1, k) : i \in DOMAIN wire[w] /\ SubSeq(wire[w], 1, k)[i] = wire[w][i]
  BY <1>1, PrefixFacts
<1> DEFINE x == SubSeq(wire[w], 1, k)
<1> HIDE DEF x
<1>4. Len(x) <= Len(wire[w])
  <2>1. Len(x) \in Nat /\ DOMAIN x = 1 .. Len(x) /\ Len(wire[w]) \in Nat /\ DOMAIN wire[w] = 1 .. Len(wire[w])
    BY <1>1, <1>3, LenProperties DEF x
  <2>2. Len(x) # 0 => Len(x) \in DOMAIN x
    BY <2>1
  <2>3. Len(x) # 0 => Len(x) \in DOMAIN wire[w]
    BY <1>3, <2>2 DEF x
  <2> QED
    BY <2>1, <2>3
<1> QED
  BY <1>2, <1>3, <1>4 DEF x

(* A request that does not use its connection.                              *)
LEMMA NoWire ==
  ASSUME Registers, NEW w \in Worker, pc[w] \in {"find", "put", "claim", "send", "query", "push", "trim", "greet"}
  PROVE  wire[w] = <<>>
  BY AtFacts DEF Fits

LEMMA OrderlyStep ==
  ASSUME Registers, Shared, Entities, NEW w \in Worker, Orderly(w), Step(w)
  PROVE  Orderly(w)'
<1> USE DEF data, net, history
<1>a. /\ pc[w] \in PCs /\ todo[w] \in Seq(User \cup Photo) /\ wire[w] \in Seq(Commands)
      /\ replies[w] \in Seq(Nat) /\ down[w] \in BOOLEAN /\ count[w] \in Nat
  BY AtFacts
<1>b. /\ Len(wire[w]) \in Nat /\ DOMAIN wire[w] = 1 .. Len(wire[w])
      /\ Len(replies[w]) \in Nat /\ DOMAIN replies[w] = 1 .. Len(replies[w])
      /\ Len(todo[w]) \in Nat /\ DOMAIN todo[w] = 1 .. Len(todo[w])
  BY <1>a, LenProperties
<1>c. DOMAIN <<>> = {} /\ Len(<<>>) = 0
  BY EmptyList
<1>1. CASE Finish(w) \/ DatastoreError(w)
  <2>1. pc'[w] = "idle" /\ replies'[w] = <<>> /\ count'[w] = 0 /\ wire'[w] = wire[w]
    BY <1>1 DEF Finish, DatastoreError, Leave, Goto, Registers
  <2> QED
    BY <2>1 DEF Orderly
<1>2. CASE Kill(w)
  <2>1. pc'[w] = "idle" /\ replies'[w] = <<>> /\ count'[w] = 0
    BY <1>2 DEF Kill, Leave, Goto, Registers
  <2>2. PICK k \in 0 .. Len(wire[w]) : Cut(w, k)
    BY <1>2 DEF Kill
  <2>3. ASSUME NEW i \in DOMAIN wire'[w], wire'[w][i].op = "RPOP" PROVE i = Len(wire'[w])
    <3>1. i \in DOMAIN wire[w] /\ wire[w][i].op = "RPOP" /\ Len(wire'[w]) <= Len(wire[w])
      BY <2>2, <2>3, CutPrefix
    <3>2. i = Len(wire[w])
      BY <3>1 DEF Orderly
    <3>3. wire'[w] \in Seq(Commands)
      BY RegistersStep DEF Registers
    <3>4. DOMAIN wire'[w] = 1 .. Len(wire'[w]) /\ Len(wire'[w]) \in Nat
      BY <3>3, LenProperties
    <3> QED
      BY <1>b, <3>1, <3>2, <3>4
  <2> QED
    BY <2>1, <2>3 DEF Orderly
<1>3. CASE Break(w)
  <2>1. pc'[w] = pc[w] /\ down'[w] = TRUE /\ pc[w] \in {"recv", "pop", "push", "trim", "greet"}
    BY <1>3 DEF Break, Registers
  <2>2. PICK k \in 0 .. Len(wire[w]) : Cut(w, k)
    BY <1>3 DEF Break
  <2>3. ASSUME NEW i \in DOMAIN wire'[w], wire'[w][i].op = "RPOP" PROVE i = Len(wire'[w])
    <3>1. i \in DOMAIN wire[w] /\ wire[w][i].op = "RPOP" /\ Len(wire'[w]) <= Len(wire[w])
      BY <2>2, <2>3, CutPrefix
    <3>2. i = Len(wire[w])
      BY <3>1 DEF Orderly
    <3>3. wire'[w] \in Seq(Commands)
      BY RegistersStep DEF Registers
    <3>4. DOMAIN wire'[w] = 1 .. Len(wire'[w]) /\ Len(wire'[w]) \in Nat
      BY <3>3, LenProperties
    <3> QED
      BY <1>b, <3>1, <3>2, <3>4
  <2> QED
    BY <2>1, <2>3 DEF Orderly
<1>4. CASE \E t \in queue : Start(w, t)
  <2>1. PICK t \in queue : Start(w, t)
    BY <1>4
  <2>2. t.op \in {"addPhoto", "iNowFollow", "initialPhotos"}
    BY TaskKinds DEF Shared
  <2>3. /\ pc'[w] \in {"find", "query", "greet"} /\ pc[w] = "idle"
        /\ wire'[w] = <<>> /\ replies'[w] = replies[w] /\ count'[w] = count[w]
    BY <2>1, <2>2 DEF Start, Goto, Registers
  <2> QED
    BY <1>c, <2>3 DEF Orderly
<1>5. CASE FindUser(w) \/ PutPhoto(w) \/ Claim(w) \/ ClaimError(w) \/ Query(w)
  <2>1. /\ pc[w] \in {"find", "put", "claim", "query"}
        /\ pc'[w] \in {"put", "claim", "send", "done", "push"}
        /\ wire'[w] = wire[w] /\ replies'[w] = replies[w]
        /\ pc[w] = "query" => pc'[w] = "push"
    BY <1>5 DEF FindUser, PutPhoto, Claim, ClaimError, Query, Goto, Registers
  <2>2. wire[w] = <<>>
    BY <2>1, NoWire
  <2> QED
    BY <1>c, <2>1, <2>2 DEF Orderly
<1>6. CASE PushOne(w) \/ PushesDone(w) \/ TrimOne(w) \/ FollowDone(w) \/ Greet(w)
  <2>1. /\ pc[w] \in {"push", "trim", "greet"}
        /\ pc'[w] \in {"push", "trim", "done"} /\ wire'[w] = wire[w]
    BY <1>6 DEF PushOne, PushesDone, TrimOne, FollowDone, Greet, Goto, Registers
  <2>2. wire[w] = <<>>
    BY <2>1, NoWire
  <2> QED
    BY <1>c, <2>1, <2>2 DEF Orderly
<1>7. CASE SendAll(w)
  <2>1. /\ pc[w] = "send" /\ pc'[w] = "recv" /\ replies'[w] = replies[w] /\ todo'[w] = todo[w]
        /\ wire'[w] = [i \in DOMAIN todo[w] |-> Push(todo[w][i], task[w].photo)]
    BY <1>7 DEF SendAll, Goto, Registers
  <2>2. replies[w] = <<>> /\ Len(replies'[w]) = 0
    BY <1>c, <2>1 DEF Orderly
  <2>3. \A i \in DOMAIN wire'[w] : /\ wire'[w][i].op = "LPUSH" /\ wire'[w][i].user = todo'[w][i]
                                   /\ i \in DOMAIN todo'[w] /\ 0 + i = i
    BY <1>b, <2>1, OpKinds
  <2> QED
    BY <2>1, <2>2, <2>3 DEF Orderly
<1>8. CASE Serve(w)
  <2>1. /\ wire[w] # <<>> /\ pc'[w] = pc[w] /\ todo'[w] = todo[w] /\ down'[w] = down[w]
        /\ wire'[w] = Tail(wire[w]) /\ count'[w] = count[w]
    BY <1>8 DEF Serve, Registers
  <2>2. pc[w] \notin {"find", "put", "claim", "send", "query"}
    BY <2>1, NoWire
  <2>3. pc[w] = "idle" \/ down[w] => replies'[w] = replies[w]
    BY <1>8 DEF Serve
  <2>4. pc[w] = "recv" /\ ~down[w] => Len(replies'[w]) = Len(replies[w]) + 1
    <3> SUFFICES ASSUME pc[w] = "recv", ~down[w] PROVE Len(replies'[w]) = Len(replies[w]) + 1
      OBVIOUS
    <3>1. PICK a : replies' = [replies EXCEPT ![w] = Append(@, a)] /\ a \in Nat
      <4> DEFINE c == Head(wire[w])
                 list == IF c.op = "LPUSH" THEN <<c.photo>> \o tl[c.user] ELSE ButLast(tl[c.user])
                 a == IF c.op = "LPUSH" THEN Len(list) ELSE 0
      <4>1. replies' = [replies EXCEPT ![w] = Append(@, a)]
        BY <1>8 DEF Serve
      <4>2. a \in Nat
        <5>1. c \in Commands
          BY <1>a, <2>1, TailFacts
        <5>2. c.op = "LPUSH" => c.photo \in Photo /\ tl[c.user] \in Seq(Photo \cup {Old, Welcome})
          BY <5>1 DEF Commands, Shared
        <5>3. c.op = "LPUSH" => <<c.photo>> \o tl[c.user] \in Seq(Photo \cup {Old, Welcome})
          BY <5>2, FrontFacts
        <5> HIDE DEF c
        <5> QED
          BY <5>3, LenProperties
      <4> QED
        BY <4>1, <4>2
    <3>2. replies'[w] = Append(replies[w], a)
      BY <3>1 DEF Registers
    <3> QED
      BY <1>a, <3>1, <3>2, AppendProperties
  <2>5. /\ \A i \in DOMAIN wire'[w] : i \in Nat /\ i + 1 \in DOMAIN wire[w] /\ wire'[w][i] = wire[w][i + 1]
        /\ Len(wire'[w]) = Len(wire[w]) - 1
    BY <1>a, <2>1, TailFacts, HeadTailProperties
  <2>6. ASSUME NEW i \in DOMAIN wire'[w], wire'[w][i].op = "RPOP"
        PROVE  i = Len(wire'[w]) /\ (pc[w] \in {"pop", "idle"} \/ down[w])
    <3>1. i + 1 = Len(wire[w]) /\ (pc[w] \in {"pop", "idle"} \/ down[w])
      BY <2>5, <2>6 DEF Orderly
    <3> QED
      BY <1>b, <2>5, <3>1
  <2>7. ASSUME pc[w] = "recv", ~down[w], NEW i \in DOMAIN wire'[w]
        PROVE  /\ wire'[w][i].op = "LPUSH" /\ Len(replies'[w]) + i \in DOMAIN todo'[w]
               /\ wire'[w][i].user = todo'[w][Len(replies'[w]) + i]
    <3>1. /\ wire[w][i + 1].op = "LPUSH" /\ Len(replies[w]) + (i + 1) \in DOMAIN todo[w]
          /\ wire[w][i + 1].user = todo[w][Len(replies[w]) + (i + 1)]
      BY <2>5, <2>7 DEF Orderly
    <3>2. Len(replies[w]) + (i + 1) = Len(replies'[w]) + i
      BY <1>b, <2>4, <2>5, <2>7
    <3> QED
      BY <2>1, <2>5, <3>1, <3>2
  <2> QED
    BY <2>1, <2>2, <2>3, <2>6, <2>7 DEF Orderly
<1>9. CASE Receive(w)
  <2> DEFINE f == Head(todo[w])
             trim == TooLong(Head(replies[w])) /\ ~down[w]
  <2>1. /\ pc[w] = "recv" /\ todo[w] # <<>> /\ replies[w] # <<>>
        /\ todo'[w] = Tail(todo[w]) /\ replies'[w] = Tail(replies[w]) /\ down'[w] = down[w]
        /\ wire'[w] = (IF trim THEN Append(wire[w], Pop(f)) ELSE wire[w])
        /\ pc'[w] = (IF trim THEN "pop" ELSE "recv")
    BY <1>9 DEF Receive, Goto, Registers
  <2>2. CASE trim
    <3>1. f \in User
      <4>1. todo[w] \in Seq(User)
        BY <2>1, AtFacts DEF Fits
      <4> QED
        BY <2>1, <4>1, TailFacts
    <3>2. Pop(f) \in Commands
      BY <3>1 DEF Pop, Commands
    <3> HIDE DEF f
    <3>3. /\ Len(Append(wire[w], Pop(f))) = Len(wire[w]) + 1
          /\ Append(wire[w], Pop(f)) \in Seq(Commands)
          /\ \A i \in 1 .. Len(wire[w]) : Append(wire[w], Pop(f))[i] = wire[w][i]
      BY <1>a, <3>2, AppendProperties
    <3>4. DOMAIN Append(wire[w], Pop(f)) = 1 .. Len(wire[w]) + 1
      BY <3>3, LenProperties
    <3>5. \A i \in DOMAIN wire[w] : wire[w][i].op = "LPUSH"
      BY <2>1, <2>2 DEF Orderly
    <3>6. \A i \in DOMAIN wire'[w] : wire'[w][i].op = "RPOP" => i = Len(wire'[w])
      BY <1>b, <2>1, <2>2, <3>3, <3>4, <3>5
    <3> QED
      BY <2>1, <2>2, <3>6 DEF Orderly
  <2>3. CASE ~trim
    <3>1. wire'[w] = wire[w] /\ pc'[w] = "recv"
      BY <2>1, <2>3
    <3> HIDE DEF trim
    <3>2. Len(replies'[w]) = Len(replies[w]) - 1 /\ Len(todo'[w]) = Len(todo[w]) - 1
      BY <1>a, <2>1, HeadTailProperties
    <3>3. \A j \in DOMAIN todo[w] : j # 1 => j - 1 \in DOMAIN todo'[w] /\ todo[w][j] = todo'[w][j - 1]
      BY <1>a, <2>1, TailFacts
    <3>4. ASSUME ~down[w], NEW i \in DOMAIN wire[w]
          PROVE  /\ wire[w][i].op = "LPUSH" /\ Len(replies'[w]) + i \in DOMAIN todo'[w]
                 /\ wire[w][i].user = todo'[w][Len(replies'[w]) + i]
      <4> DEFINE j == Len(replies[w]) + i
      <4>1. wire[w][i].op = "LPUSH" /\ j \in DOMAIN todo[w] /\ wire[w][i].user = todo[w][j]
        BY <2>1, <3>4 DEF Orderly
      <4>2. Len(replies[w]) # 0
        BY <1>a, <2>1, EmptySeq
      <4>3. j # 1 /\ j - 1 = Len(replies'[w]) + i
        BY <1>b, <3>2, <4>2
      <4> HIDE DEF j
      <4> QED
        BY <3>3, <4>1, <4>3
    <3> QED
      BY <2>1, <3>1, <3>4 DEF Orderly
  <2> QED
    BY <2>2, <2>3
<1>10. CASE ReceiveError(w) \/ AddDone(w)
  <2>1. /\ pc[w] = "recv" /\ pc'[w] \in {"recv", "done"} /\ wire'[w] = wire[w] /\ down'[w] = down[w]
        /\ down[w] \/ pc'[w] = "done"
    BY <1>10 DEF ReceiveError, AddDone, Goto, Registers
  <2>2. ~down[w] => \A i \in DOMAIN wire[w] : wire[w][i].op = "LPUSH"
    BY <2>1 DEF Orderly
  <2> QED
    BY <2>1, <2>2 DEF Orderly
<1>11. CASE DoPop(w)
  <2>1. /\ pc[w] = "pop" /\ pc'[w] = "recv" /\ wire'[w] = wire[w] /\ down'[w] = down[w]
        /\ wire[w] = <<>> \/ down[w]
    BY <1>11 DEF DoPop, Goto, Registers
  <2> QED
    BY <1>c, <2>1 DEF Orderly
<1>12. CASE Deadline(w)
  <2>1. pc[w] = "recv" /\ pc'[w] = "recv" /\ wire'[w] = <<>> /\ down'[w] = TRUE
    BY <1>12 DEF Deadline, Starved, Registers
  <2> QED
    BY <1>c, <2>1 DEF Orderly
<1> QED
  BY <1>1, <1>2, <1>3, <1>4, <1>5, <1>6, <1>7, <1>8, <1>9, <1>10, <1>11, <1>12 DEF Step, Run
------------------------------------------------------------------------------
(* What a step of request w does to the account of u                        *)

(* It removes no more than it owed, adds an entry, or adds one of           *)
(* iNowFollow's and plans what to remove by the length it gets back.       *)
Removes(w, u) ==
  /\ Due(w, u)' \in 0 .. Due(w, u)
  /\ Len(tl'[u]) \in Nat
  /\ Len(tl'[u]) >= Len(tl[u]) - (Due(w, u) - Due(w, u)')
  /\ longest'[u] = longest[u] /\ FannedTo(u)' = FannedTo(u)
Adds(w, u) ==
  /\ Len(tl'[u]) = Len(tl[u]) + 1
  /\ longest'[u] >= longest[u] /\ longest'[u] >= Len(tl'[u])
  /\ \/ FannedTo(u)' = FannedTo(u)
     \/ \E p : FannedTo(u)' = FannedTo(u) \cup {p}
  /\ Due(w, u)' \in Nat
  /\ Due(w, u)' <= Due(w, u) \/ (Due(w, u) = 0 /\ Due(w, u)' = 1 /\ TooLong(Len(tl'[u])))
Plans(w, u) ==
  /\ Len(tl'[u]) = Len(tl[u]) + 1
  /\ longest'[u] >= longest[u] /\ longest'[u] >= Len(tl'[u])
  /\ FannedTo(u)' = FannedTo(u)
  /\ Due(w, u)' = Excess(Len(tl'[u])) /\ CaughtUp(u)

LEMMA DueType ==
  ASSUME Registers, NEW w \in Worker, NEW u
  PROVE  Due(w, u) \in Nat
<1>1. count[w] \in Nat
  BY AtFacts
<1>2. Excess(count[w]) \in Nat
  BY <1>1, LeastFacts
<1> QED
  BY <1>1, <1>2 DEF Due

(* Elsewhere than in push and trim, only what WillPop says is owed.         *)
LEMMA NoMore ==
  ASSUME NEW w \in Worker, NEW u, Due(w, u) \in Nat,
         pc'[w] \notin {"push", "trim"} \/ (down'[w] /\ pc'[w] = pc[w]),
         WillPop(w, u)' => WillPop(w, u) /\ pc[w] \notin {"push", "trim"}
  PROVE  Due(w, u)' \in 0 .. Due(w, u)
<1>1. CASE pc'[w] \notin {"push", "trim"}
  <2>1. Due(w, u)' = IF WillPop(w, u)' THEN 1 ELSE 0
    BY <1>1 DEF Due
  <2>2. WillPop(w, u)' => Due(w, u) = 1
    BY DEF Due
  <2> QED
    BY <2>1, <2>2
<1>2. CASE pc'[w] \in {"push", "trim"}
  <2>1. Due(w, u)' = 0
    BY <1>2 DEF Due
  <2> QED
    BY <2>1
<1> QED
  BY <1>1, <1>2

LEMMA LengthType ==
  ASSUME Shared, NEW u \in User
  PROVE  Len(tl[u]) \in Nat /\ longest[u] \in Nat
<1>1. tl[u] \in Seq(Photo \cup {Old, Welcome})
  BY DEF Shared
<1> QED
  BY <1>1, LenProperties DEF Shared

LEMMA ButLastLength ==
  ASSUME NEW S, NEW s \in Seq(S)
  PROVE  Len(ButLast(s)) \in Nat /\ Len(ButLast(s)) >= Len(s) - 1
<1>1. Len(s) \in Nat /\ 1 \in Int /\ Len(s) - 1 \in Int
  BY LenProperties
<1>2. \A i \in 1 .. Len(s) - 1 : s[i] \in S
  BY <1>1, ElementOfSeq
<1>3. Len(ButLast(s)) = IF 1 <= Len(s) - 1 THEN (Len(s) - 1) - 1 + 1 ELSE 0
  BY <1>1, <1>2, SubSeqProperties DEF ButLast
<1> QED
  BY <1>1, <1>3

(* Steps that leave the lists alone commit a request to nothing new.        *)
LEMMA RemovesNothing ==
  ASSUME Registers, Shared, Entities, NEW w \in Worker, Orderly(w), Step(w), NEW u \in User,
         ~Serve(w), ~PushOne(w), ~TrimOne(w), ~Greet(w)
  PROVE  Removes(w, u)
<1> USE DEF data, net, history
<1>a. /\ pc[w] \in PCs /\ todo[w] \in Seq(User \cup Photo) /\ wire[w] \in Seq(Commands)
      /\ replies[w] \in Seq(Nat) /\ down[w] \in BOOLEAN /\ count[w] \in Nat
  BY AtFacts
<1>b. DOMAIN <<>> = {} /\ Len(<<>>) = 0
  BY EmptyList
<1>d. Due(w, u) \in Nat
  BY DueType
<1>e. tl' = tl /\ pushed' = pushed /\ longest' = longest
  BY DEF Step, Run, Finish, DatastoreError, Kill, Break, Start, FindUser, PutPhoto, Claim, ClaimError,
    SendAll, Receive, ReceiveError, DoPop, Deadline, AddDone, Query, PushesDone, FollowDone
<1> SUFFICES Due(w, u)' \in 0 .. Due(w, u)
  BY <1>d, <1>e, LengthType DEF Removes, FannedTo
<1>n. ASSUME pc[w] \in {"push", "trim"}, NEW i \in DOMAIN wire[w] PROVE FALSE
  BY <1>b, <1>n, NoWire
<1>1. CASE Finish(w) \/ DatastoreError(w)
  <2>1. pc'[w] = "idle" /\ wire'[w] = wire[w]
    BY <1>1 DEF Finish, DatastoreError, Leave, Goto, Registers
  <2> QED
    BY <1>d, <1>n, <2>1, NoMore DEF WillPop
<1>2. CASE Kill(w) \/ Break(w)
  <2>1. \/ pc'[w] = "idle"
        \/ pc'[w] = pc[w] /\ down'[w]
    BY <1>2 DEF Kill, Break, Leave, Goto, Registers
  <2>2. PICK k \in 0 .. Len(wire[w]) : Cut(w, k)
    BY <1>2 DEF Kill, Break
  <2>3. \A i \in DOMAIN wire'[w] : i \in DOMAIN wire[w] /\ wire'[w][i] = wire[w][i]
    BY <2>2, CutPrefix
  <2> QED
    BY <1>d, <1>n, <2>1, <2>3, NoMore DEF WillPop
<1>3. CASE \E t \in queue : Start(w, t)
  <2>1. PICK t \in queue : Start(w, t)
    BY <1>3
  <2>2. t.op \in {"addPhoto", "iNowFollow", "initialPhotos"}
    BY TaskKinds DEF Shared
  <2>3. pc'[w] \in {"find", "query", "greet"} /\ wire'[w] = <<>>
    BY <2>1, <2>2 DEF Start, Goto, Registers
  <2> QED
    BY <1>b, <1>d, <2>3, NoMore DEF WillPop
<1>4. CASE FindUser(w) \/ PutPhoto(w) \/ Claim(w) \/ ClaimError(w) \/ FollowDone(w)
  <2>1. /\ pc[w] \in {"find", "put", "claim", "push", "trim", "greet"}
        /\ pc'[w] \in {"put", "claim", "send", "done"} /\ wire'[w] = wire[w]
    BY <1>4 DEF FindUser, PutPhoto, Claim, ClaimError, FollowDone, Goto, Registers
  <2>2. wire'[w] = <<>>
    BY <2>1, NoWire
  <2> QED
    BY <1>b, <1>d, <2>1, <2>2, NoMore DEF WillPop
<1>5. CASE Query(w)
  <2>1. pc[w] = "query" /\ pc'[w] = "push" /\ count'[w] = count[w]
    BY <1>5 DEF Query, Goto, Registers
  <2>2. count'[w] = 0
    BY <2>1 DEF Orderly
  <2>3. Excess(0) = 0
    BY BoundsAssumption DEF Excess, TooLong
  <2>4. Due(w, u)' = 0
    BY <2>1, <2>2, <2>3 DEF Due
  <2> QED
    BY <1>d, <2>4
<1>6. CASE PushesDone(w)
  <2>1. /\ pc[w] = "push" /\ pc'[w] = "trim" /\ count'[w] = Excess(count[w])
        /\ down'[w] = down[w] /\ task'[w] = task[w]
    BY <1>6 DEF PushesDone, Goto, Registers
  <2>2. Due(w, u)' = Due(w, u)
    BY <2>1 DEF Due
  <2> QED
    BY <1>d, <2>2
<1>7. CASE SendAll(w)
  <2>1. /\ pc[w] = "send" /\ pc'[w] = "recv" /\ replies'[w] = replies[w]
        /\ wire'[w] = [i \in DOMAIN todo[w] |-> Push(todo[w][i], task[w].photo)]
    BY <1>7 DEF SendAll, Goto, Registers
  <2>2. replies'[w] = <<>>
    BY <2>1 DEF Orderly
  <2>3. \A i \in DOMAIN wire'[w] : wire'[w][i].op = "LPUSH"
    BY <2>1, OpKinds
  <2>4. \A i \in DOMAIN wire'[w] : wire'[w][i] # Pop(u)
    BY <2>3, OpKinds
  <2>5. ~WillPop(w, u)'
    BY <1>b, <2>2, <2>4 DEF WillPop
  <2> QED
    BY <1>d, <2>1, <2>5, NoMore
<1>8. CASE Receive(w)
  <2> DEFINE f == Head(todo[w])
             trim == TooLong(Head(replies[w])) /\ ~down[w]
  <2>1. /\ pc[w] = "recv" /\ todo[w] # <<>> /\ replies[w] # <<>>
        /\ todo'[w] = Tail(todo[w]) /\ replies'[w] = Tail(replies[w]) /\ down'[w] = down[w]
        /\ wire'[w] = (IF trim THEN Append(wire[w], Pop(f)) ELSE wire[w])
        /\ pc'[w] = (IF trim THEN "pop" ELSE "recv")
    BY <1>8 DEF Receive, Goto, Registers
  <2>2. ASSUME WillPop(w, u)' PROVE WillPop(w, u)
    <3>1. CASE trim
      <4>1. f \in User
        <5>1. todo[w] \in Seq(User)
          BY <2>1, AtFacts DEF Fits
        <5> QED
          BY <2>1, <5>1, TailFacts
      <4>2. Pop(f) \in Commands
        BY <4>1 DEF Pop, Commands
      <4>3. PICK i \in DOMAIN wire'[w] : wire'[w][i] = Pop(u)
        BY <2>1, <2>2, <3>1 DEF WillPop
      <4> HIDE DEF f
      <4>4. i \in DOMAIN wire[w] \/ wire'[w][i] = Pop(f)
        BY <1>a, <2>1, <3>1, <4>2, <4>3, AppendFacts
      <4>5. i \in DOMAIN wire[w] => wire[w][i] = wire'[w][i]
        BY <1>a, <2>1, <3>1, <4>2, AppendFacts
      <4>6. CASE i \in DOMAIN wire[w]
        BY <4>3, <4>5, <4>6 DEF WillPop
      <4>7. CASE wire'[w][i] = Pop(f)
        <5>1. Pop(f) = Pop(u)
          BY <4>3, <4>7
        <5>2. u = f
          BY <5>1 DEF Pop
        <5>3. /\ 1 \in DOMAIN replies[w] /\ replies[w][1] = Head(replies[w])
              /\ 1 \in DOMAIN todo[w] /\ todo[w][1] = f
          BY <1>a, <2>1, TailFacts DEF f
        <5> QED
          BY <2>1, <3>1, <5>2, <5>3 DEF WillPop
      <4> QED
        BY <4>4, <4>6, <4>7
    <3>2. CASE ~trim
      <4>1. wire'[w] = wire[w] /\ pc'[w] = "recv"
        BY <2>1, <3>2
      <4> HIDE DEF trim, f
      <4>2. /\ \A i \in DOMAIN replies'[w] : i + 1 \in DOMAIN replies[w] /\ replies'[w][i] = replies[w][i + 1]
            /\ \A i \in DOMAIN todo'[w] : i + 1 \in DOMAIN todo[w] /\ todo'[w][i] = todo[w][i + 1]
        BY <1>a, <2>1, TailFacts
      <4>3. CASE \E i \in DOMAIN wire'[w] : wire'[w][i] = Pop(u)
        BY <4>1, <4>3 DEF WillPop
      <4>4. CASE ~down[w] /\ \E i \in DOMAIN replies'[w] : /\ i \in DOMAIN todo'[w] /\ todo'[w][i] = u
                                                           /\ TooLong(replies'[w][i])
        <5>1. PICK i \in DOMAIN replies'[w] : i \in DOMAIN todo'[w] /\ todo'[w][i] = u /\ TooLong(replies'[w][i])
          BY <4>4
        <5>2. /\ i + 1 \in DOMAIN replies[w] /\ i + 1 \in DOMAIN todo[w]
              /\ todo[w][i + 1] = u /\ TooLong(replies[w][i + 1])
          BY <4>2, <5>1
        <5> QED
          BY <2>1, <4>4, <5>2 DEF WillPop
      <4> QED
        BY <2>1, <2>2, <4>1, <4>3, <4>4 DEF WillPop
    <3> QED
      BY <3>1, <3>2
  <2>3. pc'[w] \notin {"push", "trim"}
    BY <2>1
  <2> QED
    BY <1>d, <2>1, <2>2, <2>3, NoMore
<1>9. CASE ReceiveError(w) \/ AddDone(w) \/ DoPop(w) \/ Deadline(w)
  <2>1. /\ pc[w] \in {"recv", "pop"} /\ pc'[w] \in {"recv", "done"} /\ wire'[w] = wire[w]
        /\ pc'[w] = "recv" => down'[w] \/ replies'[w] = <<>>
    BY <1>9 DEF ReceiveError, AddDone, DoPop, Deadline, Starved, Goto, Registers
  <2> QED
    BY <1>b, <1>d, <2>1, NoMore DEF WillPop
<1> QED
  BY <1>1, <1>2, <1>3, <1>4, <1>5, <1>6, <1>7, <1>8, <1>9 DEF Step, Run

(* The server pushes or pops; an answer above Cap commits the request.      *)
LEMMA ServeAccount ==
  ASSUME Registers, Shared, Entities, NEW w \in Worker, Orderly(w), Serve(w), NEW u \in User
  PROVE  Removes(w, u) \/ Adds(w, u)
<1> USE DEF data, net, history
<1> DEFINE c == Head(wire[w])
           list == IF c.op = "LPUSH" THEN <<c.photo>> \o tl[c.user] ELSE ButLast(tl[c.user])
           answer == IF c.op = "LPUSH" THEN Len(list) ELSE 0
           n == Len(replies[w]) + 1
<1>a. wire[w] \in Seq(Commands) /\ wire[w] # <<>> /\ replies[w] \in Seq(Nat)
  BY AtFacts DEF Serve
<1>b. c \in Commands /\ c = wire[w][1] /\ 1 \in DOMAIN wire[w]
  BY <1>a, TailFacts
<1>c. c.user \in User /\ (c.op = "LPUSH" => c.photo \in Photo) /\ c.op \in {"LPUSH", "RPOP"}
  BY <1>b DEF Commands
<1>d. /\ tl' = [tl EXCEPT ![c.user] = list]
      /\ wire'[w] = Tail(wire[w]) /\ pc'[w] = pc[w] /\ down'[w] = down[w] /\ todo'[w] = todo[w]
      /\ task'[w] = task[w] /\ count'[w] = count[w]
      /\ IF pc[w] = "idle" \/ down[w] THEN replies' = replies
         ELSE replies' = [replies EXCEPT ![w] = Append(@, answer)]
      /\ IF c.op = "LPUSH"
         THEN pushed' = [pushed EXCEPT ![<<c.photo, c.user>>] = @ + 1] /\ Lengthen(c.user, list)
         ELSE UNCHANGED <<pushed, longest>>
  BY <1>a DEF Serve, Registers
<1>e. /\ tl[c.user] \in Seq(Photo \cup {Old, Welcome}) /\ tl \in [User -> Seq(Photo \cup {Old, Welcome})]
      /\ longest \in [User -> Nat] /\ pushed \in [Photo \X User -> Nat]
  BY <1>c DEF Shared
<1>f. Due(w, u) \in Nat /\ Len(tl[u]) \in Nat /\ longest[u] \in Nat
  BY DueType, LengthType
<1>g. pc[w] \notin {"push", "trim"}
  BY <1>a, NoWire
<1>h. /\ Tail(wire[w]) \in Seq(Commands) /\ Len(Tail(wire[w])) = Len(wire[w]) - 1
      /\ \A i \in DOMAIN Tail(wire[w]) : i \in Nat /\ i + 1 \in DOMAIN wire[w] /\ Tail(wire[w])[i] = wire[w][i + 1]
  BY <1>a, TailFacts, HeadTailProperties
<1>i. \A x : Due(w, x) = (IF WillPop(w, x) THEN 1 ELSE 0) /\ Due(w, x)' = (IF WillPop(w, x)' THEN 1 ELSE 0)
  BY <1>d, <1>g DEF Due
<1> HIDE DEF c
<1>1. CASE c.op = "LPUSH"
  <2>1. list \in Seq(Photo \cup {Old, Welcome}) /\ Len(list) = Len(tl[c.user]) + 1
    BY <1>1, <1>c, <1>e, FrontFacts
  <2>2. answer = Len(list) /\ answer \in Nat
    BY <1>1, <2>1, LenProperties
  <2> HIDE DEF list, answer
  <2>3. ASSUME WillPop(w, u)', ~WillPop(w, u) PROVE u = c.user /\ TooLong(answer)
    <3>1. ~\E i \in DOMAIN wire'[w] : wire'[w][i] = Pop(u)
      BY <1>d, <1>h, <2>3 DEF WillPop
    <3>2. pc[w] = "recv" /\ ~down[w]
      BY <1>d, <2>3, <3>1 DEF WillPop
    <3>3. PICK i \in DOMAIN replies'[w] : i \in DOMAIN todo[w] /\ todo[w][i] = u /\ TooLong(replies'[w][i])
      BY <1>d, <2>3, <3>1 DEF WillPop
    <3>4. replies'[w] = Append(replies[w], answer)
      BY <1>d, <3>2 DEF Registers
    <3>5. /\ Len(replies[w]) \in Nat /\ DOMAIN replies[w] = 1 .. Len(replies[w])
          /\ DOMAIN replies'[w] = 1 .. n /\ replies'[w][n] = answer
          /\ \A j \in 1 .. Len(replies[w]) : replies'[w][j] = replies[w][j]
      <4>1. /\ Append(replies[w], answer) \in Seq(Nat) /\ Len(Append(replies[w], answer)) = n
            /\ Append(replies[w], answer)[n] = answer
            /\ \A j \in 1 .. Len(replies[w]) : Append(replies[w], answer)[j] = replies[w][j]
        BY <1>a, <2>2, AppendProperties
      <4> QED
        BY <1>a, <3>4, <4>1, LenProperties
    <3>6. i \notin DOMAIN replies[w]
      BY <2>3, <3>2, <3>3, <3>5 DEF WillPop
    <3>7. i = n
      BY <3>3, <3>5, <3>6
    <3>8. wire[w][1].user = todo[w][n]
      BY <1>b, <3>2 DEF Orderly
    <3> QED
      BY <1>b, <3>3, <3>5, <3>7, <3>8
  <2>4. CASE u # c.user
    <3>1. Due(w, u)' \in 0 .. Due(w, u)
      BY <1>i, <2>3, <2>4
    <3>2. tl'[u] = tl[u]
      BY <1>d, <1>e, <2>4
    <3>3. longest'[u] = longest[u]
      BY <1>1, <1>d, <1>e, <2>4 DEF Lengthen
    <3>4. \A p \in Photo : pushed'[<<p, u>>] = pushed[<<p, u>>]
      BY <1>1, <1>d, <1>e, <2>4
    <3>5. FannedTo(u)' = FannedTo(u)
      BY <3>4 DEF FannedTo
    <3>6. Len(tl'[u]) >= Len(tl[u]) - (Due(w, u) - Due(w, u)')
      BY <1>f, <3>1, <3>2
    <3> QED
      BY <1>f, <3>1, <3>2, <3>3, <3>5, <3>6 DEF Removes
  <2>5. CASE u = c.user
    <3>1. Len(tl'[u]) = Len(tl[u]) + 1 /\ Len(tl'[u]) = answer
      BY <1>d, <1>e, <2>1, <2>2, <2>5
    <3>2. longest'[u] >= longest[u] /\ longest'[u] >= Len(tl'[u])
      BY <1>1, <1>d, <1>e, <2>1, <2>2, <2>5, <3>1, LengthenFacts
    <3>3. /\ c.photo \in Photo
          /\ \A p \in Photo : pushed[<<p, u>>] \in Nat /\ pushed'[<<p, u>>] =
               IF p = c.photo THEN pushed[<<p, u>>] + 1 ELSE pushed[<<p, u>>]
      BY <1>1, <1>c, <1>d, <1>e, <2>5
    <3>4. FannedTo(u)' = FannedTo(u) \cup {c.photo}
      <4>1. \A p \in Photo : pushed'[<<p, u>>] > 0 <=> pushed[<<p, u>>] > 0 \/ p = c.photo
        BY <3>3
      <4> QED
        BY <3>3, <4>1 DEF FannedTo
    <3>5. Due(w, u)' \in Nat
      BY <1>i
    <3>6. Due(w, u)' <= Due(w, u) \/ (Due(w, u) = 0 /\ Due(w, u)' = 1 /\ TooLong(Len(tl'[u])))
      BY <1>i, <2>3, <3>1
    <3> QED
      BY <3>1, <3>2, <3>4, <3>5, <3>6 DEF Adds
  <2> QED
    BY <2>4, <2>5
<1>2. CASE c.op = "RPOP"
  <2>1. Len(wire[w]) = 1 /\ (pc[w] \in {"pop", "idle"} \/ down[w])
    BY <1>2, <1>b DEF Orderly
  <2>2. DOMAIN wire'[w] = {}
    <3>1. DOMAIN Tail(wire[w]) = 1 .. Len(Tail(wire[w]))
      BY <1>h, LenProperties
    <3> QED
      BY <1>d, <1>h, <2>1, <3>1
  <2>3. ~WillPop(w, u)'
    BY <1>d, <2>1, <2>2 DEF WillPop
  <2>4. u = c.user => WillPop(w, u)
    <3>1. c = Pop(c.user)
      BY <1>b, <1>2 DEF Commands, Pop
    <3> QED
      BY <1>b, <3>1 DEF WillPop
  <2>5. Len(tl'[u]) \in Nat /\ Len(tl'[u]) >= Len(tl[u]) - (IF u = c.user THEN 1 ELSE 0)
    <3>1. CASE u = c.user
      BY <1>2, <1>d, <1>e, <1>f, <3>1, ButLastLength
    <3>2. CASE u # c.user
      BY <1>d, <1>e, <1>f, <3>2
    <3> QED
      BY <3>1, <3>2
  <2>6. longest'[u] = longest[u] /\ FannedTo(u)' = FannedTo(u)
    BY <1>2, <1>d DEF FannedTo
  <2>7. Due(w, u)' = 0 /\ (u = c.user => Due(w, u) = 1)
    BY <1>i, <2>3, <2>4
  <2>8. Due(w, u)' \in 0 .. Due(w, u)
    BY <1>f, <2>7
  <2>9. Len(tl'[u]) >= Len(tl[u]) - (Due(w, u) - Due(w, u)')
    <3>1. CASE u = c.user
      BY <2>5, <2>7, <3>1
    <3>2. CASE u # c.user
      BY <1>f, <2>5, <2>7, <3>2
    <3> QED
      BY <3>1, <3>2
  <2> QED
    BY <2>5, <2>6, <2>8, <2>9 DEF Removes
<1> QED
  BY <1>1, <1>2, <1>c

(* The pushes and trims of iNowFollow, and the greeting.                    *)
LEMMA OwnAccount ==
  ASSUME Registers, Shared, Entities, NEW w \in Worker, Orderly(w), NEW u \in User,
         PushOne(w) \/ TrimOne(w) \/ Greet(w)
  PROVE  Removes(w, u) \/ Adds(w, u) \/ Plans(w, u)
<1> USE DEF data, net, history
<1> DEFINE a == task[w].user
<1>a. /\ pc[w] \in {"push", "trim", "greet"} /\ todo[w] \in Seq(User \cup Photo) /\ count[w] \in Nat /\ ~down[w]
      /\ wire[w] = <<>> /\ DOMAIN <<>> = {}
  BY AtFacts, NoWire, EmptyList DEF PushOne, TrimOne, Greet
<1>b. a \in User
  BY AtFacts, TaskKinds DEF PushOne, TrimOne, Greet, Fits
<1>c. /\ tl[a] \in Seq(Photo \cup {Old, Welcome}) /\ tl \in [User -> Seq(Photo \cup {Old, Welcome})]
      /\ longest \in [User -> Nat]
  BY <1>b DEF Shared
<1>d. Due(w, u) \in Nat /\ Len(tl[u]) \in Nat /\ longest[u] \in Nat
  BY DueType, LengthType
<1>e. FannedTo(u)' = FannedTo(u)
  BY DEF PushOne, TrimOne, Greet, FannedTo
<1>f. task'[w] = task[w] /\ down'[w] = down[w] /\ wire'[w] = wire[w]
  BY DEF PushOne, TrimOne, Greet
<1>1. CASE PushOne(w)
  <2> DEFINE list == <<Head(todo[w])>> \o tl[a]
  <2>1. /\ pc[w] = "push" /\ pc'[w] = "push" /\ todo[w] # <<>> /\ tl' = [tl EXCEPT ![a] = list]
        /\ count'[w] = Len(list) /\ Lengthen(a, list)
    BY <1>1 DEF PushOne, Registers
  <2>2. list \in Seq(Photo \cup {Old, Welcome}) /\ Len(list) = Len(tl[a]) + 1
    <3>1. todo[w] \in Seq(Photo)
      BY <2>1, AtFacts DEF Fits
    <3>2. Head(todo[w]) \in Photo
      BY <2>1, <3>1, TailFacts
    <3> QED
      BY <1>c, <3>2, FrontFacts
  <2> HIDE DEF list
  <2>3. CASE u = a
    <3>1. Len(tl'[u]) = Len(tl[u]) + 1 /\ tl'[u] = list
      BY <1>c, <2>1, <2>2, <2>3
    <3>2. longest'[u] >= longest[u] /\ longest'[u] >= Len(tl'[u])
      BY <1>b, <1>c, <2>1, <2>2, <2>3, <3>1, LengthenFacts
    <3>3. Due(w, u)' = Excess(Len(tl'[u]))
      BY <1>a, <1>f, <2>1, <2>3, <3>1 DEF Due
    <3>4. CaughtUp(u)
      <4>1. task[w] \in FollowTasks
        BY <2>1, AtFacts DEF Fits
      <4>2. task[w].op = "iNowFollow" /\ task[w].who \in User /\ <<a, task[w].who>> \in Follows
        BY <4>1, TaskKinds
      <4>3. a \in Range(followsMe[task[w].who])
        BY <4>2 DEF Entities
      <4> QED
        BY <2>3, <4>2, <4>3 DEF CaughtUp
    <3> QED
      BY <1>e, <3>1, <3>2, <3>3, <3>4 DEF Plans
  <2>4. CASE u # a
    <3>1. tl'[u] = tl[u] /\ longest'[u] = longest[u]
      BY <1>c, <2>1, <2>4 DEF Lengthen
    <3>2. Due(w, u)' = 0
      BY <1>f, <2>1, <2>4 DEF Due
    <3> QED
      BY <1>d, <1>e, <3>1, <3>2 DEF Removes
  <2> QED
    BY <2>3, <2>4
<1>2. CASE TrimOne(w)
  <2>1. /\ pc[w] = "trim" /\ pc'[w] = "trim" /\ tl' = [tl EXCEPT ![a] = ButLast(@)]
        /\ count[w] > 0 /\ count'[w] = count[w] - 1 /\ longest' = longest
    BY <1>2 DEF TrimOne, Registers
  <2>2. CASE u = a
    <3>1. Due(w, u) = count[w] /\ Due(w, u)' = count[w] - 1
      BY <1>a, <1>f, <2>1, <2>2 DEF Due
    <3>2. Len(tl'[u]) \in Nat /\ Len(tl'[u]) >= Len(tl[u]) - 1
      BY <1>c, <2>1, <2>2, ButLastLength
    <3> QED
      BY <1>a, <1>d, <1>e, <2>1, <3>1, <3>2 DEF Removes
  <2>3. CASE u # a
    <3>1. Due(w, u)' = 0 /\ tl'[u] = tl[u]
      BY <1>c, <1>f, <2>1, <2>3 DEF Due
    <3> QED
      BY <1>d, <1>e, <2>1, <3>1 DEF Removes
  <2> QED
    BY <2>2, <2>3
<1>3. CASE Greet(w)
  <2> DEFINE list == <<Welcome>> \o tl[a]
  <2>1. /\ pc[w] = "greet" /\ pc'[w] = "done" /\ tl' = [tl EXCEPT ![a] = list] /\ Lengthen(a, list)
    BY <1>3 DEF Greet, Goto, Registers
  <2>2. list \in Seq(Photo \cup {Old, Welcome}) /\ Len(list) = Len(tl[a]) + 1
    BY <1>c, FrontFacts
  <2> HIDE DEF list
  <2>3. Due(w, u)' = 0
    BY <1>a, <1>f, <2>1 DEF Due, WillPop
  <2>4. CASE u = a
    <3>1. Len(tl'[u]) = Len(tl[u]) + 1 /\ tl'[u] = list
      BY <1>c, <2>1, <2>2, <2>4
    <3>2. longest'[u] >= longest[u] /\ longest'[u] >= Len(tl'[u])
      BY <1>b, <1>c, <2>1, <2>2, <2>4, <3>1, LengthenFacts
    <3> QED
      BY <1>d, <1>e, <2>3, <3>1, <3>2 DEF Adds
  <2>5. CASE u # a
    <3>1. tl'[u] = tl[u] /\ longest'[u] = longest[u]
      BY <1>c, <2>1, <2>5 DEF Lengthen
    <3> QED
      BY <1>d, <1>e, <2>3, <3>1 DEF Removes
  <2> QED
    BY <2>4, <2>5
<1> QED
  BY <1>1, <1>2, <1>3

LEMMA AccountStep ==
  ASSUME Registers, Shared, Shared', NEW w \in Worker, NEW u \in User, Account(u), followsMe' = followsMe,
         \A v \in Worker \ {w} : Due(v, u)' = Due(v, u),
         Removes(w, u) \/ Adds(w, u) \/ Plans(w, u)
  PROVE  Account(u)'
<1> DEFINE len == Len(tl[u])
           due == Backlog[u] + Fanned(u)
           extra == Excess(longest[u])
           d == Dues(u)
           c == CaughtUp(u)
           n == Due(w, u)'
           len1 == Len(tl'[u])
           due1 == Backlog[u] + Fanned(u)'
           extra1 == Excess(longest'[u])
<1>1. len \in Nat /\ longest[u] \in Nat /\ longest'[u] \in Nat /\ len1 \in Nat
  <2>1. len \in Nat /\ longest[u] \in Nat
    BY LengthType
  <2>2. longest'[u] \in Nat /\ tl'[u] \in Seq(Photo \cup {Old, Welcome})
    BY DEF Shared
  <2>3. len1 \in Nat
    BY <2>2, LenProperties
  <2> QED
    BY <2>1, <2>2, <2>3
<1>2. extra \in Nat /\ extra1 \in Nat /\ c \in BOOLEAN
  BY <1>1, LeastFacts DEF CaughtUp
<1>3. Fanned(u) = Cardinality(FannedTo(u)) /\ Fanned(u)' = Cardinality(FannedTo(u)')
  BY DEF Fanned, FannedTo
<1>4. IsFiniteSet(FannedTo(u)) /\ Fanned(u) \in Nat /\ due \in Nat
  BY <1>3, StartAssumption, FS_CardinalityType DEF Account
<1>5. c' = c
  BY DEF CaughtUp
<1>6. d[w] = Due(w, u) /\ Dues(u)' = [d EXCEPT ![w] = n]
  BY DEF Dues
<1>7. Solvent(len, due, d, extra, c)
  BY DEF Account
<1>8. SUFFICES IsFiniteSet(FannedTo(u)') /\ Solvent(len1, due1, [d EXCEPT ![w] = n], extra1, c)
  BY <1>5, <1>6 DEF Account
<1> HIDE DEF len, extra, d, c, n, len1, extra1
<1>9. CASE Removes(w, u)
  <2>1. FannedTo(u)' = FannedTo(u) /\ extra1 = extra /\ n \in 0 .. d[w] /\ len1 >= len - (d[w] - n)
    BY <1>6, <1>9 DEF Removes, n, extra, extra1, len, len1
  <2>2. due1 = due
    BY <1>3, <2>1
  <2> HIDE DEF due, due1
  <2>3. Solvent(len1, due, [d EXCEPT ![w] = n], extra, c)
    BY <1>1, <1>2, <1>4, <1>7, <2>1, Settled
  <2> QED
    BY <1>4, <2>1, <2>2, <2>3
<1>10. CASE Adds(w, u)
  <2>1. /\ len1 = len + 1 /\ longest'[u] >= longest[u] /\ longest'[u] >= len1
        /\ n \in Nat /\ (n <= d[w] \/ (d[w] = 0 /\ n = 1 /\ TooLong(len1)))
    BY <1>6, <1>10 DEF Adds, n, len, len1
  <2>2. extra1 >= extra /\ (TooLong(len1) => extra1 >= 1)
    <3>1. \A a, b \in Nat : /\ a <= b => Excess(a) <= Excess(b)
                            /\ TooLong(a) => Excess(a) >= 1
                            /\ Excess(a) \in Nat
      BY LeastFacts
    <3>2. extra1 >= extra
      BY <1>1, <2>1, <3>1 DEF extra, extra1
    <3>3. Excess(len1) <= extra1
      BY <1>1, <2>1, <3>1 DEF extra1
    <3> QED
      BY <1>1, <1>2, <3>1, <3>2, <3>3
  <2>3. d[w] \in 0 .. extra
    BY <1>7 DEF Solvent
  <2>4. n \in 0 .. extra1
    BY <1>2, <2>1, <2>2, <2>3
  <2>5. IsFiniteSet(FannedTo(u)') /\ due1 \in {due, due + 1}
    <3>1. CASE FannedTo(u)' = FannedTo(u)
      BY <1>3, <1>4, <3>1
    <3>2. CASE \E p : FannedTo(u)' = FannedTo(u) \cup {p}
      <4>1. PICK p : FannedTo(u)' = FannedTo(u) \cup {p}
        BY <3>2
      <4>2. /\ IsFiniteSet(FannedTo(u) \cup {p})
            /\ Cardinality(FannedTo(u) \cup {p}) \in {Cardinality(FannedTo(u)), Cardinality(FannedTo(u)) + 1}
        BY <1>4, FS_AddElement
      <4>3. Fanned(u)' \in {Fanned(u), Fanned(u) + 1}
        BY <1>3, <4>1, <4>2
      <4>4. Backlog[u] \in Nat
        BY StartAssumption
      <4> QED
        BY <1>4, <4>1, <4>2, <4>3, <4>4
    <3> QED
      BY <1>10, <3>1, <3>2 DEF Adds
  <2> HIDE DEF due, due1
  <2>6. Solvent(len + 1, due1, [d EXCEPT ![w] = n], extra1, c)
    BY <1>1, <1>2, <1>4, <1>7, <2>1, <2>2, <2>4, <2>5, Pushed
  <2> QED
    BY <2>1, <2>5, <2>6
<1>11. CASE Plans(w, u)
  <2>1. /\ len1 = len + 1 /\ longest'[u] >= longest[u] /\ longest'[u] >= len1
        /\ FannedTo(u)' = FannedTo(u) /\ n = Excess(len + 1) /\ c
    BY <1>11 DEF Plans, n, len, len1, c
  <2>2. extra1 >= extra /\ extra1 >= Excess(len + 1)
    <3>1. \A a, b \in Nat : (a <= b => Excess(a) <= Excess(b)) /\ Excess(a) \in Nat
      BY LeastFacts
    <3> QED
      BY <1>1, <2>1, <3>1 DEF extra, extra1
  <2>3. due1 = due /\ c = TRUE
    BY <1>2, <1>3, <2>1
  <2> HIDE DEF due, due1
  <2>4. Solvent(len + 1, due, [d EXCEPT ![w] = Excess(len + 1)], extra1, TRUE)
    BY <1>1, <1>2, <1>4, <1>7, <2>2, <2>3, Planned
  <2> QED
    BY <1>4, <2>1, <2>3, <2>4
<1> QED
  BY <1>9, <1>10, <1>11
------------------------------------------------------------------------------
(* The invariant                                                            *)

LEMMA TrimStep ==
  ASSUME TrimInv, NEW w \in Worker, Step(w)
  PROVE  TrimInv'
<1>1. Registers /\ Shared /\ Entities /\ TimelineInv
  BY DEF TrimInv, TimelineInv
<1>2. TimelineInv'
  BY <1>1, NextInv DEF Next, Step
<1>3. Shared'
  BY <1>2 DEF TimelineInv
<1>4. \A v \in Worker \ {w} : /\ pc'[v] = pc[v] /\ task'[v] = task[v] /\ todo'[v] = todo[v]
                             /\ wire'[v] = wire[v] /\ down'[v] = down[v]
                             /\ count'[v] = count[v] /\ replies'[v] = replies[v]
  BY <1>1, RegistersStep
<1>5. ASSUME NEW v \in Worker PROVE Orderly(v)'
  <2>1. Orderly(v)
    BY DEF TrimInv
  <2>2. CASE v = w
    BY <1>1, <2>1, <2>2, OrderlyStep
  <2>3. CASE v # w
    BY <1>4, <2>1, <2>3 DEF Orderly
  <2> QED
    BY <2>2, <2>3
<1>6. ASSUME NEW u \in User PROVE Account(u)'
  <2>1. Account(u) /\ Orderly(w)
    BY DEF TrimInv
  <2>2. Removes(w, u) \/ Adds(w, u) \/ Plans(w, u)
    <3>1. CASE Serve(w)
      BY <1>1, <2>1, <3>1, ServeAccount
    <3>2. CASE PushOne(w) \/ TrimOne(w) \/ Greet(w)
      BY <1>1, <2>1, <3>2, OwnAccount
    <3>3. CASE ~Serve(w) /\ ~PushOne(w) /\ ~TrimOne(w) /\ ~Greet(w)
      BY <1>1, <2>1, <3>3, RemovesNothing
    <3> QED
      BY <3>1, <3>2, <3>3
  <2>3. \A v \in Worker \ {w} : Due(v, u)' = Due(v, u)
    BY <1>4 DEF Due, WillPop
  <2>4. followsMe' = followsMe
    BY <1>1, StepFacts
  <2> QED
    BY <1>1, <1>3, <2>1, <2>2, <2>3, <2>4, AccountStep
<1> QED
  BY <1>2, <1>5, <1>6 DEF TrimInv

(* Whoever begins to follow is to be caught up from then on.                *)
LEMMA CaughtUpLater ==
  ASSUME NEW len \in Nat, NEW due \in Nat, NEW extra \in Nat, NEW d, NEW c \in BOOLEAN, NEW c1 \in BOOLEAN,
         c => c1, Solvent(len, due, d, extra, c)
  PROVE  Solvent(len, due, d, extra, c1)
  BY DEF Solvent

(* What is not a step of a request changes none of the accounts.            *)
LEMMA TrimKept ==
  ASSUME TrimInv, TimelineInv', \A u \in User : CaughtUp(u) => CaughtUp(u)',
         UNCHANGED <<tl, pc, task, todo, count, wire, replies, down, pushed, longest>>
  PROVE  TrimInv'
<1>1. \A w \in Worker : Orderly(w)'
  BY DEF TrimInv, Orderly
<1>2. ASSUME NEW u \in User PROVE Account(u)'
  <2>1. Account(u) /\ Shared
    BY DEF TrimInv, TimelineInv
  <2>2. Dues(u)' = Dues(u)
    BY DEF Dues, Due, WillPop
  <2>3. FannedTo(u)' = FannedTo(u) /\ Fanned(u)' = Fanned(u)
    BY DEF FannedTo, Fanned
  <2>4. Len(tl[u]) \in Nat /\ longest[u] \in Nat /\ Excess(longest[u]) \in Nat
    BY <2>1, LengthType, LeastFacts
  <2>5. Backlog[u] + Fanned(u) \in Nat
    <3>1. Fanned(u) = Cardinality(FannedTo(u)) /\ IsFiniteSet(FannedTo(u))
      BY <2>1 DEF Fanned, FannedTo, Account
    <3>2. Fanned(u) \in Nat /\ Backlog[u] \in Nat
      BY <3>1, FS_CardinalityType, StartAssumption
    <3> QED
      BY <3>2
  <2>6. CaughtUp(u) \in BOOLEAN /\ CaughtUp(u)' \in BOOLEAN /\ (CaughtUp(u) => CaughtUp(u)')
    BY DEF CaughtUp
  <2>7. Solvent(Len(tl[u]), Backlog[u] + Fanned(u), Dues(u), Excess(longest[u]), CaughtUp(u))
    BY <2>1 DEF Account
  <2>8. Solvent(Len(tl[u]), Backlog[u] + Fanned(u), Dues(u), Excess(longest[u]), CaughtUp(u)')
    BY <2>4, <2>5, <2>6, <2>7, CaughtUpLater
  <2> QED
    BY <2>1, <2>2, <2>3, <2>8 DEF Account
<1> QED
  BY <1>1, <1>2 DEF TrimInv

LEMMA TrimNext == TrimInv /\ [Next]_vars => TrimInv'
<1> SUFFICES ASSUME TrimInv, [Next]_vars PROVE TrimInv'
  OBVIOUS
<1> USE DEF data, net, history
<1>1. TimelineInv /\ TimelineInv'
  BY NextInv DEF TrimInv
<1>2. ASSUME NEW p \in Photo, PostPhoto(p) PROVE TrimInv'
  BY <1>1, <1>2, TrimKept DEF PostPhoto, CaughtUp
<1>3. ASSUME NEW a \in User, NEW u \in User, FollowTx(a, u) PROVE TrimInv'
  <2>1. followsMe[u] \in Seq(User) /\ followsMe \in [User -> Seq(User)]
    BY <1>1 DEF TimelineInv, Shared
  <2>2. Range(followsMe[u]) \subseteq Range(Append(followsMe[u], a))
    BY <2>1, AppendFacts
  <2>3. followsMe' = followsMe \/ followsMe' = [followsMe EXCEPT ![u] = Append(@, a)]
    BY <1>3 DEF FollowTx
  <2>4. \A x \in User : Range(followsMe[x]) \subseteq Range(followsMe'[x])
    BY <2>1, <2>2, <2>3
  <2>5. \A x \in User : CaughtUp(x) => CaughtUp(x)'
    BY <2>4 DEF CaughtUp
  <2> QED
    BY <1>1, <1>3, <2>5, TrimKept DEF FollowTx
<1>6. ASSUME NEW a \in User, NEW u \in User, CallINowFollow(a, u) \/ LoseCall(a, u) PROVE TrimInv'
  BY <1>1, <1>6, TrimKept DEF CallINowFollow, LoseCall, CaughtUp
<1>4. ASSUME NEW w \in Worker, Step(w) PROVE TrimInv'
  BY <1>4, TrimStep
<1>5. CASE UNCHANGED vars
  BY <1>1, <1>5, TrimKept DEF vars, CaughtUp
<1> QED
  BY <1>2, <1>3, <1>4, <1>5, <1>6 DEF Next, Step

LEMMA TrimInit == Init => TrimInv
<1> SUFFICES ASSUME Init PROVE TrimInv
  OBVIOUS
<1>1. TimelineInv /\ Shared
  BY InitInv DEF TimelineInv
<1>2. DOMAIN <<>> = {}
  BY EmptyList
<1>3. ASSUME NEW w \in Worker
      PROVE  /\ Orderly(w)
             /\ \A u : Due(w, u) = 0
  <2>1. pc[w] = "idle" /\ wire[w] = <<>> /\ replies[w] = <<>> /\ count[w] = 0
    BY <1>3 DEF Init
  <2> QED
    BY <1>2, <2>1 DEF Orderly, Due, WillPop
<1>4. ASSUME NEW u \in User PROVE Account(u)
  <2>1. FannedTo(u) = {}
    BY DEF Init, FannedTo
  <2>2. IsFiniteSet(FannedTo(u)) /\ Fanned(u) = 0
    <3>1. Fanned(u) = Cardinality(FannedTo(u))
      BY DEF Fanned, FannedTo
    <3> QED
      BY <2>1, <3>1, FS_EmptySet
  <2>3. Len(tl[u]) = Backlog[u] /\ longest[u] = Backlog[u] /\ Backlog[u] \in Nat
    <3>1. Backlog[u] \in Nat
      BY StartAssumption
    <3>2. [i \in 1 .. Backlog[u] |-> Old] \in Seq({Old}) /\ DOMAIN [i \in 1 .. Backlog[u] |-> Old] = 1 .. Backlog[u]
      BY <3>1, IsASeq
    <3>3. Len([i \in 1 .. Backlog[u] |-> Old]) = Backlog[u]
      BY <3>1
    <3> QED
      BY <3>1, <3>3 DEF Init
  <2>4. Excess(longest[u]) \in Nat
    BY <2>3, LeastFacts
  <2>5. Dues(u) = [w \in Worker |-> 0]
    BY <1>3 DEF Dues
  <2>6. Owed(Dues(u)) = 0
    <3>1. Slots(Dues(u)) = {}
      BY <2>5 DEF Slots
    <3> QED
      BY <3>1, FS_EmptySet DEF Owed
  <2>7. Dues(u) \in [Worker -> 0 .. Excess(longest[u])]
    BY <2>4, <2>5
  <2>8. Least(Cap, Backlog[u]) <= Backlog[u] /\ Least(Cap, Backlog[u]) \in Nat /\ Margin(Excess(longest[u])) \in Nat
    BY <2>3, <2>4, LeastFacts, MarginFacts
  <2>9. Backlog[u] + Fanned(u) = Backlog[u] /\ Len(tl[u]) - Owed(Dues(u)) = Backlog[u]
    BY <2>2, <2>3, <2>6
  <2>10. Solvent(Len(tl[u]), Backlog[u] + Fanned(u), Dues(u), Excess(longest[u]), CaughtUp(u))
    BY <2>3, <2>6, <2>7, <2>8, <2>9 DEF Solvent
  <2> QED
    BY <2>2, <2>10 DEF Account
<1> QED
  BY <1>1, <1>3, <1>4 DEF TrimInv

(* Every timeline's account is solvent in every state: the inductive        *)
(* invariant of addPhoto's and iNowFollow's trims.                         *)
THEOREM TrimInvariant == Spec => []TrimInv
<1>1. Init => TrimInv
  BY TrimInit
<1>2. TrimInv /\ [Next]_vars => TrimInv'
  BY TrimNext
<1> QED
  BY <1>1, <1>2, PTL DEF Spec

(* The requests that trim TL:u by a length that was true once never take   *)
(* more away together than TrimmedAtMost says: nothing that a list below   *)
(* Cap should have while only fan-outs trim it, and no more than the other *)
(* requests have each seen it over Cap while iNowFollows do, too.          *)
THEOREM TrimmedNoFurther == Spec => []TrimmedAtMost
<1>1. TrimInv => TrimmedAtMost
  <2> SUFFICES ASSUME TrimInv, NEW u \in User
               PROVE  Len(tl[u]) >= Least(Cap, Backlog[u] + Fanned(u))
                                      - (IF CaughtUp(u) THEN Beside(u) ELSE 0)
    BY DEF TrimmedAtMost
  <2>1. Account(u) /\ Registers /\ Shared
    BY DEF TrimInv, TimelineInv
  <2>2. Len(tl[u]) \in Nat /\ longest[u] \in Nat
    BY <2>1, LengthType
  <2>3. Excess(longest[u]) \in Nat /\ Beside(u) = Margin(Excess(longest[u]))
    BY <2>2, LeastFacts DEF Beside, Margin
  <2>4. Margin(Excess(longest[u])) \in Nat
    BY <2>3, MarginFacts
  <2>5. Dues(u) \in [Worker -> 0 .. Excess(longest[u])]
    BY <2>1 DEF Account, Solvent
  <2>6. Owed(Dues(u)) \in Nat
    <3>1. PICK w \in Worker : TRUE
      BY WorkerAssumption
    <3> QED
      BY <2>3, <2>5, OwedFacts
  <2>7. Least(Cap, Backlog[u] + Fanned(u)) \in Nat
    <3>1. Fanned(u) = Cardinality(FannedTo(u)) /\ IsFiniteSet(FannedTo(u))
      BY <2>1 DEF Fanned, FannedTo, Account
    <3>2. Fanned(u) \in Nat /\ Backlog[u] \in Nat
      BY <3>1, FS_CardinalityType, StartAssumption
    <3> QED
      BY <3>2, LeastFacts
  <2> DEFINE m == Least(Cap, Backlog[u] + Fanned(u))
             o == Owed(Dues(u))
             g == Margin(Excess(longest[u]))
  <2>8. /\ Len(tl[u]) - o >= m - g
        /\ CaughtUp(u) \/ Len(tl[u]) - o >= m
    BY <2>1 DEF Account, Solvent
  <2> HIDE DEF m, o, g
  <2>9. Len(tl[u]) \in Nat /\ o \in Nat /\ m \in Nat /\ g \in Nat
    BY <2>2, <2>4, <2>6, <2>7 DEF m, o, g
  <2>10. Len(tl[u]) >= m - g /\ (CaughtUp(u) \/ Len(tl[u]) >= m)
    BY <2>8, <2>9
  <2>11. CASE CaughtUp(u)
    BY <2>3, <2>10, <2>11 DEF m, g
  <2>12. CASE ~CaughtUp(u)
    BY <2>9, <2>10, <2>12 DEF m
  <2> QED
    BY <2>11, <2>12
<1> QED
  BY <1>1, TrimInvariant, PTL
==============================================================================
