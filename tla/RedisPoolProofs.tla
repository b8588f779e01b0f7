--------------------------- MODULE RedisPoolProofs ---------------------------
(***************************************************************************)
(* The pool keeps its promises for any number of goroutines and            *)
(* connections and for every setting of its options.                       *)
(***************************************************************************)
EXTENDS RedisPool, FiniteSetTheorems, SequenceTheorems, TLAPS

(* What the critical sections do to the idle list, as facts about sequences *)
(* without repetition: pop at the front, pop at the back, push.            *)
LEMMA PopFront ==
  ASSUME NEW S, NEW s \in Seq(S), s # <<>>, IsInjective(s)
  PROVE  /\ Tail(s) \in Seq(S) /\ Len(Tail(s)) = Len(s) - 1
         /\ IsInjective(Tail(s))
         /\ Head(s) \in S /\ Head(s) \in Range(s)
         /\ Range(Tail(s)) = Range(s) \ {Head(s)}
<1>1. /\ Tail(s) \in Seq(S) /\ Len(Tail(s)) = Len(s) - 1
      /\ Head(s) = s[1] /\ Len(s) \in Nat \ {0}
      /\ DOMAIN s = 1 .. Len(s) /\ DOMAIN Tail(s) = 1 .. Len(s) - 1
      /\ \A i \in 1 .. Len(s) - 1 : Tail(s)[i] = s[i + 1]
  BY HeadTailProperties, LenProperties, EmptySeq
<1>2. IsInjective(Tail(s))
  BY <1>1 DEF IsInjective
<1>3. Head(s) \in S /\ Head(s) \in Range(s)
  BY <1>1 DEF Range
<1>4. ASSUME NEW x \in Range(Tail(s)) PROVE x \in Range(s) \ {Head(s)}
  <2>1. PICK i \in 1 .. Len(s) - 1 : x = s[i + 1]
    BY <1>1 DEF Range
  <2>2. i + 1 \in DOMAIN s /\ 1 \in DOMAIN s /\ i + 1 # 1
    BY <1>1
  <2> QED
    BY <1>1, <2>1, <2>2 DEF Range, IsInjective
<1>5. ASSUME NEW x \in Range(s) \ {Head(s)} PROVE x \in Range(Tail(s))
  <2>1. PICK i \in 1 .. Len(s) : x = s[i] /\ i # 1
    BY <1>1 DEF Range
  <2>2. i - 1 \in 1 .. Len(s) - 1 /\ Tail(s)[i - 1] = x
    BY <1>1, <2>1
  <2> QED
    BY <1>1, <2>2 DEF Range
<1> QED
  BY <1>1, <1>2, <1>3, <1>4, <1>5

LEMMA PopBack ==
  ASSUME NEW S, NEW s \in Seq(S), s # <<>>, IsInjective(s)
  PROVE  /\ WithoutBack(s) \in Seq(S) /\ Len(WithoutBack(s)) = Len(s) - 1
         /\ IsInjective(WithoutBack(s))
         /\ s[Len(s)] \in S /\ s[Len(s)] \in Range(s)
         /\ Range(WithoutBack(s)) = Range(s) \ {s[Len(s)]}
<1> DEFINE t == WithoutBack(s)
<1>1. /\ Len(s) \in Nat /\ Len(s) >= 1 /\ DOMAIN s = 1 .. Len(s)
      /\ \A i \in 1 .. Len(s) : s[i] \in S
  BY LenProperties, EmptySeq, ElementOfSeq
<1>2. /\ t \in Seq(S) /\ Len(t) = Len(s) - 1 /\ DOMAIN t = 1 .. Len(s) - 1
      /\ \A i \in 1 .. Len(s) - 1 : t[i] = s[i]
  <2>1. /\ t \in Seq(S) /\ Len(t) = Len(s) - 1
        /\ \A i \in 1 .. Len(s) - 1 : t[i] = s[i]
    BY <1>1, SubSeqProperties, 1 \in Int, Len(s) - 1 \in Int DEF WithoutBack
  <2> QED
    BY <2>1, LenProperties
<1> HIDE DEF t
<1>3. IsInjective(t)
  BY <1>1, <1>2 DEF IsInjective
<1>4. s[Len(s)] \in S /\ s[Len(s)] \in Range(s)
  BY <1>1 DEF Range
<1>d. DOMAIN s = DOMAIN t \cup {Len(s)} /\ Len(s) \notin DOMAIN t
  <2>1. \A n \in Nat : n \notin 1 .. n - 1
    OBVIOUS
  <2>2. \A n \in Nat, i \in Int : n >= 1 => (i \in 1 .. n <=> i \in 1 .. n - 1 \/ i = n)
    OBVIOUS
  <2> QED
    BY <1>1, <1>2, <2>1, <2>2
<1>5. Range(t) = Range(s) \ {s[Len(s)]}
  <2>1. ASSUME NEW x \in Range(t) PROVE x \in Range(s) \ {s[Len(s)]}
    <3>1. PICK i \in DOMAIN t : x = s[i]
      BY <1>2 DEF Range
    <3> QED
      BY <1>d, <3>1 DEF Range, IsInjective
  <2>2. ASSUME NEW x \in Range(s) \ {s[Len(s)]} PROVE x \in Range(t)
    <3>1. PICK i \in DOMAIN s : x = s[i] /\ i # Len(s)
      BY DEF Range
    <3>2. i \in DOMAIN t /\ t[i] = x
      BY <1>d, <1>2, <3>1
    <3> QED
      BY <3>2 DEF Range
  <2> QED
    BY <2>1, <2>2
<1> QED
  BY <1>2, <1>3, <1>4, <1>5 DEF t

LEMMA PushFront ==
  ASSUME NEW S, NEW s \in Seq(S), IsInjective(s), NEW c \in S, c \notin Range(s)
  PROVE  /\ <<c>> \o s \in Seq(S) /\ Len(<<c>> \o s) = Len(s) + 1
         /\ IsInjective(<<c>> \o s) /\ <<c>> \o s # <<>>
         /\ Range(<<c>> \o s) = Range(s) \cup {c}
<1> DEFINE t == <<c>> \o s
<1>1. /\ <<c>> \in Seq(S) /\ Len(<<c>>) = 1 /\ <<c>>[1] = c
      /\ Len(s) \in Nat /\ DOMAIN s = 1 .. Len(s)
  BY LenProperties
<1>2. /\ t \in Seq(S) /\ Len(t) = Len(s) + 1
      /\ \A i \in 1 .. Len(s) + 1 : t[i] = IF i <= 1 THEN c ELSE s[i - 1]
  BY <1>1, ConcatProperties
<1>3. DOMAIN t = 1 .. Len(s) + 1 /\ t # <<>>
  BY <1>1, <1>2, LenProperties, EmptySeq
<1> HIDE DEF t
<1>4. IsInjective(t)
  <2>1. \A i \in 1 .. Len(s) : s[i] # c
    BY <1>1 DEF Range
  <2>2. SUFFICES ASSUME NEW i \in 1 .. Len(s) + 1, NEW j \in 1 .. Len(s) + 1,
                        t[i] = t[j]
                 PROVE  i = j
    BY <1>3 DEF IsInjective
  <2>3. CASE i = 1 \/ j = 1
    BY <1>1, <1>2, <2>1, <2>2, <2>3
  <2>4. CASE i # 1 /\ j # 1
    <3>1. i - 1 \in DOMAIN s /\ j - 1 \in DOMAIN s /\ s[i - 1] = s[j - 1]
      BY <1>1, <1>2, <2>2, <2>4
    <3>2. i - 1 = j - 1
      BY <3>1 DEF IsInjective
    <3> QED
      BY <1>1, <3>2
  <2> QED
    BY <2>3, <2>4
<1>5. ASSUME NEW x \in Range(t) PROVE x \in Range(s) \cup {c}
  <2>1. PICK i \in 1 .. Len(s) + 1 : x = t[i]
    BY <1>3 DEF Range
  <2> QED
    BY <1>1, <1>2, <2>1 DEF Range
<1>6. c \in Range(t)
  BY <1>1, <1>2, <1>3 DEF Range
<1>7. ASSUME NEW x \in Range(s) PROVE x \in Range(t)
  <2>1. PICK i \in 1 .. Len(s) : x = s[i]
    BY <1>1 DEF Range
  <2>2. i + 1 \in 1 .. Len(s) + 1 /\ t[i + 1] = x
    BY <1>1, <1>2, <2>1
  <2> QED
    BY <1>3, <2>2 DEF Range
<1> QED
  BY <1>2, <1>3, <1>4, <1>5, <1>6, <1>7 DEF t

(* The conjunction of the invariants is inductive once Placed is added. *)
IInv ==
  /\ TypeOK /\ Placed /\ Exclusive /\ ActiveExact /\ WithinLimits /\ NoLeak
  /\ IdleUsable

Is(b) == IF b THEN 1 ELSE 0

(* One goroutine moves: the number of counted goroutines follows it. *)
LEMMA Recount ==
  ASSUME pc \in [Proc -> PCs], NEW p \in Proc, NEW l \in PCs, Goto(p, l)
  PROVE  /\ Cardinality(Holders) \in Nat
         /\ Cardinality(Holders') =
              Cardinality(Holders) + Is(l \in Counted) - Is(pc[p] \in Counted)
<1>1. IsFiniteSet(Holders) /\ Cardinality(Holders) \in Nat
  BY ProcAssumption, FS_Subset, FS_CardinalityType DEF Holders
<1>2. CASE l \in Counted
  <2>1. Holders' = Holders \cup {p}
    BY <1>2 DEF Goto, Holders
  <2>2. p \in Holders <=> pc[p] \in Counted
    BY DEF Holders
  <2> QED
    BY <1>1, <1>2, <2>1, <2>2, FS_AddElement DEF Is
<1>3. CASE l \notin Counted
  <2>1. Holders' = Holders \ {p}
    BY <1>3 DEF Goto, Holders
  <2>2. p \in Holders <=> pc[p] \in Counted
    BY DEF Holders
  <2> QED
    <3>1. Cardinality(Holders \ {p}) =
            IF p \in Holders THEN Cardinality(Holders) - 1 ELSE Cardinality(Holders)
      BY <1>1, FS_RemoveElement
    <3> QED
      BY <1>1, <1>3, <2>1, <2>2, <3>1 DEF Is
<1> QED
  BY <1>2, <1>3

(* The idle list of a state that satisfies the invariant. *)
LEMMA IdleFacts ==
  ASSUME IInv
  PROVE  /\ idle \in Seq(Conn) /\ IsInjective(idle) /\ Len(idle) \in Nat
         /\ idle = <<>> <=> Len(idle) = 0
         /\ idle = <<>> <=> Range(idle) = {}
<1>1. idle \in Seq(Conn) /\ IsInjective(idle)
  BY DEF IInv, TypeOK, Exclusive
<1>2. Len(idle) \in Nat /\ (idle = <<>> <=> Len(idle) = 0)
  BY <1>1, LenProperties, EmptySeq
<1>3. DOMAIN idle = 1 .. Len(idle)
  BY <1>1, LenProperties
<1>4. (1 .. Len(idle) = {}) <=> Len(idle) = 0
  BY <1>2
<1>5. idle = <<>> <=> Range(idle) = {}
  BY <1>2, <1>3, <1>4 DEF Range
<1> QED
  BY <1>1, <1>2, <1>5

(* The initial state: nothing is dialled, lent or idle. *)
LEMMA InitInv == Init => IInv
<1> SUFFICES ASSUME Init PROVE IInv
  OBVIOUS
<1>1. /\ idle \in Seq(Conn) /\ Len(idle) = 0 /\ Range(idle) = {}
      /\ IsInjective(idle)
  <2>1. idle \in Seq(Conn) /\ Len(idle) = 0
    BY EmptySeq DEF Init
  <2>2. DOMAIN idle = {}
    BY <2>1, LenProperties
  <2> QED
    BY <2>1, <2>2 DEF Range, IsInjective
<1>2. TypeOK
  <2>1. pc \in [Proc -> PCs]
    BY DEF Init, PCs
  <2>2. conn \in [Proc -> Conn \cup {NoConn}] /\ budget \in [Proc -> Nat]
    BY DEF Init
  <2>3. victims \in [Proc -> SUBSET Conn]
    BY DEF Init
  <2>4. closed \in BOOLEAN
    BY DEF Init
  <2>5. active \in Int
    BY DEF Init
  <2>6. stale \in SUBSET Conn /\ open \in SUBSET Conn /\ dead \in SUBSET Conn
    BY DEF Init
  <2> QED
    BY <1>1, <2>1, <2>2, <2>3, <2>4, <2>5, <2>6 DEF TypeOK
<1>3. Placed /\ NoLeak /\ IdleUsable
  BY <1>1 DEF Init, Placed, NoLeak, IdleUsable, Idle
<1>x. Exclusive
  BY <1>1 DEF Init, Exclusive, Idle
<1>4. ActiveExact
  <2>1. Holders = {}
    BY DEF Init, Holders, Counted
  <2> QED
    BY <1>1, <2>1, FS_EmptySet DEF Init, ActiveExact
<1>5. WithinLimits
  BY <1>1, LimitsAssumption DEF Init, WithinLimits
<1> QED
  BY <1>2, <1>3, <1>x, <1>4, <1>5 DEF IInv

------------------------------------------------------------------------------
(* The parts get's critical sections are made of.  The pool's count a may  *)
(* already leave out the connection that Retry gives up.                   *)
LEMMA PruneStep ==
  ASSUME IInv, NEW p \in Proc, NEW n \in Nat, pc[p] \in {"out", "prune"},
         Prune(p, n), UNCHANGED <<closed, open, dead, victims>>
  PROVE  IInv'
<1>0. /\ idle \in Seq(Conn) /\ IsInjective(idle) /\ Len(idle) \in Nat
      /\ idle # <<>> /\ n > 0
  BY IdleFacts DEF Prune, CanPrune
<1>1. /\ idle' \in Seq(Conn) /\ Len(idle') = Len(idle) - 1 /\ IsInjective(idle')
      /\ Back \in Conn /\ Back \in Range(idle) /\ Range(idle') = Range(idle) \ {Back}
  BY <1>0, PopBack DEF Prune, Back
<1>2. TypeOK'
  BY <1>0, <1>1 DEF IInv, TypeOK, Prune, Goto, Hold, Left, Spent, PCs
<1>3. conn[p] = NoConn
  BY DEF IInv, Placed
<1>4. Placed'
  BY <1>1, ConnAssumption DEF IInv, TypeOK, Placed, Prune, Goto, Hold
<1>5. Exclusive'
  BY <1>1, <1>3, ConnAssumption DEF IInv, TypeOK, Exclusive, Idle, Prune, Hold
<1>6. ActiveExact'
  <2>1. "pruneClose" \in PCs /\ "pruneClose" \notin Counted /\ pc[p] \notin Counted
    BY DEF PCs, Counted
  <2>2. Cardinality(Holders') = Cardinality(Holders) /\ Cardinality(Holders) \in Nat
    BY <2>1, Recount DEF IInv, TypeOK, Prune, Is
  <2> QED
    BY <1>0, <1>1, <2>2 DEF IInv, TypeOK, ActiveExact, Prune
<1>7. WithinLimits'
  BY <1>0, <1>1, LimitsAssumption DEF IInv, TypeOK, WithinLimits, Prune
<1>8. NoLeak'
  BY <1>1, <1>3, ConnAssumption DEF IInv, TypeOK, NoLeak, Known, Idle, Prune, Hold
<1>9. IdleUsable'
  BY <1>0, <1>1 DEF IInv, IdleUsable, Idle, Prune
<1> QED
  BY <1>2, <1>4, <1>5, <1>6, <1>7, <1>8, <1>9 DEF IInv

LEMMA PopIdleStep ==
  ASSUME IInv, NEW p \in Proc, NEW n \in Nat, pc[p] \in {"out", "prune", "retry"},
         PopIdle(p, n, active - Is(pc[p] \in Counted)),
         UNCHANGED <<closed, open, dead, victims>>
  PROVE  IInv'
<1>0. /\ idle \in Seq(Conn) /\ IsInjective(idle) /\ Len(idle) \in Nat
      /\ idle # <<>> /\ n > 0
  BY IdleFacts DEF PopIdle
<1> DEFINE c == Head(idle)
<1>1. /\ idle' \in Seq(Conn) /\ Len(idle') = Len(idle) - 1 /\ IsInjective(idle')
      /\ c \in Conn /\ c \in Range(idle) /\ Range(idle') = Range(idle) \ {c}
  BY <1>0, PopFront DEF PopIdle
<1>t. Is(pc[p] \in Counted) \in 0 .. 1 /\ active \in Int
  BY DEF Is, IInv, TypeOK
<1>2. TypeOK'
  BY <1>0, <1>1, <1>t DEF IInv, TypeOK, PopIdle, Goto, Hold, Left, Spent, PCs, Counted
<1>3. conn[p] \notin open
  BY ConnAssumption DEF IInv, TypeOK, Placed
<1>4. Placed'
  BY <1>1, ConnAssumption DEF IInv, TypeOK, Placed, PopIdle, Goto, Hold
<1>5. Exclusive'
  BY <1>1, ConnAssumption DEF IInv, TypeOK, Exclusive, Idle, PopIdle, Hold
<1>6. ActiveExact'
  <2>1. "test" \in PCs /\ "test" \in Counted
    BY DEF PCs, Counted
  <2>2. Goto(p, "test") /\ pc \in [Proc -> PCs]
    BY DEF IInv, TypeOK, PopIdle
  <2>3. /\ Cardinality(Holders) \in Nat
        /\ Cardinality(Holders') = Cardinality(Holders) + 1 - Is(pc[p] \in Counted)
    BY <2>1, <2>2, Recount DEF Is
  <2>4. active' = active - Is(pc[p] \in Counted) /\ active = Len(idle) + Cardinality(Holders)
    BY DEF PopIdle, IInv, ActiveExact
  <2> QED
    BY <1>0, <1>1, <1>t, <2>3, <2>4 DEF ActiveExact
<1>7. WithinLimits'
  BY <1>0, <1>1, <1>t, LimitsAssumption DEF IInv, WithinLimits, PopIdle
<1>8. NoLeak'
  BY <1>1, <1>3 DEF IInv, TypeOK, NoLeak, Known, Idle, PopIdle, Hold
<1>9. IdleUsable'
  BY <1>0, <1>1 DEF IInv, IdleUsable, Idle, PopIdle
<1> QED
  BY <1>2, <1>4, <1>5, <1>6, <1>7, <1>8, <1>9 DEF IInv

(* No idle connection is left: an errorConnection, or a connection counted *)
(* before it is dialled.                                                   *)
LEMMA NoIdleStep ==
  ASSUME IInv, NEW p \in Proc, NEW n \in Nat, pc[p] \in {"out", "prune", "retry"},
         \/ Exhausted(p, n, active - Is(pc[p] \in Counted))
         \/ StartDial(p, n, active - Is(pc[p] \in Counted)),
         UNCHANGED <<closed, open, dead, victims>>
  PROVE  IInv'
<1> DEFINE a == active - Is(pc[p] \in Counted)
<1>1. PICK l \in {"errored", "dial"} :
        /\ Goto(p, l) /\ Hold(p, NoConn) /\ Left(p, 0)
        /\ active' = a + Is(l = "dial")
        /\ l = "dial" => ~AtLimit(a)
        /\ UNCHANGED <<idle, stale>>
  <2>1. a \in Int
    BY DEF IInv, TypeOK, Is
  <2>2. CASE Exhausted(p, n, a)
    BY <2>1, <2>2 DEF Exhausted, Is
  <2>3. CASE StartDial(p, n, a)
    BY <2>1, <2>3 DEF StartDial, Is
  <2> QED
    BY <2>2, <2>3
<1>t. Is(pc[p] \in Counted) \in 0 .. 1 /\ Is(l = "dial") \in 0 .. 1 /\ active \in Int
  BY DEF Is, IInv, TypeOK
<1>2. TypeOK'
  BY <1>1, <1>t DEF IInv, TypeOK, Goto, Hold, Left, PCs, Counted
<1>3. conn[p] \notin open
  BY ConnAssumption DEF IInv, TypeOK, Placed
<1>4. Placed'
  BY <1>1, ConnAssumption DEF IInv, TypeOK, Placed, Goto, Hold
<1>5. Exclusive'
  <2>1. NoConn \notin Range(idle)
    BY IdleFacts, ConnAssumption, RangeOfSeq
  <2> QED
    BY <1>1, <2>1, ConnAssumption DEF IInv, TypeOK, Exclusive, Idle, Hold
<1>6. ActiveExact'
  <2>1. l \in PCs /\ Is(l \in Counted) = Is(l = "dial")
    BY <1>1 DEF PCs, Counted, Is
  <2>2. Goto(p, l) /\ pc \in [Proc -> PCs]
    BY <1>1 DEF IInv, TypeOK
  <2>3. /\ Cardinality(Holders) \in Nat
        /\ Cardinality(Holders') =
             Cardinality(Holders) + Is(l = "dial") - Is(pc[p] \in Counted)
    BY <2>1, <2>2, Recount
  <2>4. active = Len(idle) + Cardinality(Holders) /\ Len(idle) \in Nat
    BY IdleFacts DEF IInv, ActiveExact
  <2> QED
    BY <1>1, <1>t, <2>3, <2>4 DEF ActiveExact
<1>7. WithinLimits'
  BY <1>1, <1>t, LimitsAssumption DEF IInv, WithinLimits, AtLimit, Is
<1>8. NoLeak'
  BY <1>1, <1>3 DEF IInv, TypeOK, NoLeak, Known, Idle, Hold
<1>9. IdleUsable'
  BY <1>1 DEF IInv, IdleUsable, Idle
<1> QED
  BY <1>2, <1>4, <1>5, <1>6, <1>7, <1>8, <1>9 DEF IInv

LEMMA ScanStep ==
  ASSUME IInv, NEW p \in Proc, NEW n \in Nat, pc[p] \in {"out", "prune"},
         Scan(p, n), UNCHANGED <<closed, open, dead, victims>>
  PROVE  IInv'
<1>1. /\ Len(idle) \in Nat /\ active \in Int
      /\ Is(pc[p] \in Counted) = 0
  BY IdleFacts DEF IInv, TypeOK, Is, Counted
<1>2. active = active - Is(pc[p] \in Counted)
  BY <1>1
<1>3. CASE Prune(p, n)
  BY <1>3, PruneStep
<1>4. CASE Borrow(p, Len(idle), active)
  BY <1>1, <1>2, <1>4, PopIdleStep, NoIdleStep DEF Borrow
<1> QED
  BY <1>3, <1>4 DEF Scan

------------------------------------------------------------------------------
(* The steps that leave the idle list alone and pass no more than one       *)
(* connection on.                                                          *)

(* The counter stays exact when it moves with the goroutine. *)
LEMMA CountMoves ==
  ASSUME IInv, NEW p \in Proc, NEW l \in PCs, Goto(p, l), idle' = idle,
         active' = active + Is(l \in Counted) - Is(pc[p] \in Counted)
  PROVE  ActiveExact'
<1>1. /\ Cardinality(Holders) \in Nat
      /\ Cardinality(Holders') =
           Cardinality(Holders) + Is(l \in Counted) - Is(pc[p] \in Counted)
  BY Recount DEF IInv, TypeOK
<1>2. active = Len(idle) + Cardinality(Holders) /\ Len(idle) \in Nat
  BY IdleFacts DEF IInv, ActiveExact
<1>3. Is(l \in Counted) \in Int /\ Is(pc[p] \in Counted) \in Int
  BY DEF Is
<1> QED
  BY <1>1, <1>2, <1>3 DEF ActiveExact

(* The goroutine keeps what it holds or drops it; connections may close. *)
LEMMA LocalStep ==
  ASSUME IInv, NEW p \in Proc, NEW l \in PCs, NEW c \in {conn[p], NoConn},
         Goto(p, l), Hold(p, c), budget' \in [Proc -> Nat],
         active' = active + Is(l \in Counted) - Is(pc[p] \in Counted),
         l \in Counted => pc[p] \in Counted,
         open' \in {open, open \ {conn[p]}},
         c = NoConn => conn[p] \notin open',
         pc[p] # "shut" \/ victims[p] = {},
         c = NoConn <=>
           l \in {"out", "errored", "prune", "dial", "dialFail", "shut"},
         l = "retry" => c \notin open',
         l = "put" => c \in open',
         UNCHANGED <<closed, idle, stale, dead, victims>>
  PROVE  IInv'
<1>1. TypeOK'
  <2>1. active' \in Int
    BY DEF IInv, TypeOK, Is
  <2>2. pc' \in [Proc -> PCs] /\ conn' \in [Proc -> Conn \cup {NoConn}]
    BY DEF IInv, TypeOK, Goto, Hold
  <2>3. open' \in SUBSET Conn
    BY DEF IInv, TypeOK
  <2> QED
    BY <2>1, <2>2, <2>3 DEF IInv, TypeOK
<1>2. Exclusive'
  <2>1. NoConn \notin Range(idle)
    BY IdleFacts, ConnAssumption, RangeOfSeq
  <2>2. \A q \in Proc : NoConn \notin victims[q]
    BY ConnAssumption DEF IInv, TypeOK
  <2> QED
    BY <2>1, <2>2 DEF IInv, TypeOK, Exclusive, Idle, Hold
<1>3. Placed'
  <2>1. \A q \in Proc : q # p => conn[q] # conn[p] \/ conn[q] = NoConn
    BY DEF IInv, Exclusive
  <2>2. NoConn \notin open
    BY ConnAssumption DEF IInv, TypeOK
  <2> QED
    BY <2>1, <2>2 DEF IInv, TypeOK, Placed, Goto, Hold
<1>4. ActiveExact'
  BY CountMoves
<1>5. WithinLimits'
  BY LimitsAssumption DEF IInv, TypeOK, WithinLimits, Is
<1>6. NoLeak'
  BY DEF IInv, TypeOK, NoLeak, Known, Idle, Hold
<1>7. IdleUsable'
  BY DEF IInv, IdleUsable, Exclusive, Idle
<1> QED
  BY <1>1, <1>2, <1>3, <1>4, <1>5, <1>6, <1>7 DEF IInv

(* The steps that do nothing but move a goroutine and what it holds. *)
LEMMA LocalActions ==
  ASSUME IInv, NEW p \in Proc,
         \/ GetClosed(p) \/ PruneClose(p) \/ TestOk(p) \/ TestFail(p)
         \/ DialFail(p) \/ DialFailed(p)
         \/ ReleaseClean(p) \/ ReleaseBroken(p) \/ ReleaseErrored(p)
         \/ PutClosed(p) \/ PutDec(p) \/ PutClose(p) \/ ShutDone(p)
  PROVE  IInv'
<1> USE DEF PCs, Counted, Is, CloseConn
<1>a. /\ active \in Int /\ budget \in [Proc -> Nat]
      /\ conn \in [Proc -> Conn \cup {NoConn}] /\ NoConn \notin open
      /\ conn = [conn EXCEPT ![p] = conn[p]]
  BY ConnAssumption DEF IInv, TypeOK
<1>b. /\ conn[p] = NoConn <=>
           pc[p] \in {"out", "errored", "prune", "dial", "dialFail", "shut"}
      /\ pc[p] = "retry" => conn[p] \notin open
      /\ pc[p] = "put" => conn[p] \in open
  BY DEF IInv, Placed
<1>c. Left(p, 0) => budget' \in [Proc -> Nat]
  BY <1>a DEF Left
<1>1. CASE GetClosed(p)
  BY <1>1, <1>a, <1>b, LocalStep DEF GetClosed, Hold
<1>2. CASE PruneClose(p)
  BY <1>2, <1>a, <1>b, LocalStep DEF PruneClose
<1>3. CASE TestOk(p)
  BY <1>3, <1>a, <1>b, <1>c, LocalStep DEF TestOk, Hold
<1>4. CASE TestFail(p)
  BY <1>4, <1>a, <1>b, LocalStep DEF TestFail, Hold
<1>5. CASE DialFail(p)
  BY <1>5, <1>a, <1>b, LocalStep DEF DialFail, Hold
<1>6. CASE DialFailed(p)
  BY <1>6, <1>a, <1>b, LocalStep DEF DialFailed, Hold
<1>7. CASE ReleaseClean(p)
  BY <1>7, <1>a, <1>b, LocalStep DEF ReleaseClean, Hold
<1>8. CASE ReleaseBroken(p)
  BY <1>8, <1>a, <1>b, LocalStep DEF ReleaseBroken, Hold
<1>9. CASE ReleaseErrored(p)
  BY <1>9, <1>a, <1>b, LocalStep DEF ReleaseErrored, Hold
<1>10. CASE PutClosed(p)
  BY <1>10, <1>a, <1>b, LocalStep DEF PutClosed, Hold
<1>11. CASE PutDec(p)
  BY <1>11, <1>a, <1>b, LocalStep DEF PutDec, Hold
<1>12. CASE PutClose(p)
  BY <1>12, <1>a, <1>b, LocalStep DEF PutClose
<1>13. CASE ShutDone(p)
  BY <1>13, <1>a, <1>b, LocalStep DEF ShutDone, Hold
<1> QED
  BY <1>1, <1>2, <1>3, <1>4, <1>5, <1>6, <1>7, <1>8, <1>9, <1>10, <1>11,
     <1>12, <1>13

(* A dialled connection is one nothing refers to. *)
LEMMA DialOkStep ==
  ASSUME IInv, NEW p \in Proc, DialOk(p)
  PROVE  IInv'
<1>1. PICK c \in Conn \ Known :
        /\ Hold(p, c) /\ open' = open \cup {c} /\ dead' = dead \ {c}
        /\ Goto(p, "use") /\ pc[p] = "dial"
        /\ UNCHANGED <<closed, active, idle, stale, budget, victims>>
  BY DEF DialOk
<1>2. /\ c \notin Range(idle) /\ c # NoConn /\ conn[p] = NoConn
      /\ \A q \in Proc : conn[q] # c /\ c \notin victims[q]
  BY <1>1, ConnAssumption DEF Known, Idle, IInv, Placed
<1>3. TypeOK'
  BY <1>1 DEF IInv, TypeOK, Goto, Hold, PCs, Counted
<1>4. Placed'
  BY <1>1, <1>2 DEF IInv, TypeOK, Placed, Goto, Hold
<1>5. Exclusive'
  BY <1>1, <1>2 DEF IInv, TypeOK, Exclusive, Idle, Hold
<1>6. ActiveExact'
  <2>1. "use" \in PCs /\ Is("use" \in Counted) = Is(pc[p] \in Counted) /\ active \in Int
    BY <1>1 DEF PCs, Counted, Is, IInv, TypeOK
  <2>2. Is(pc[p] \in Counted) \in Int
    BY DEF Is
  <2> QED
    BY <1>1, <2>1, <2>2, CountMoves
<1>7. WithinLimits' /\ IdleUsable'
  BY <1>1 DEF IInv, WithinLimits, IdleUsable, Idle
<1>8. NoLeak'
  <2>1. conn'[p] = c /\ \A q \in Proc \ {p} : conn'[q] = conn[q]
    BY <1>1 DEF IInv, TypeOK, Hold
  <2>2. \A x \in open : x # NoConn /\ x \in Known
    BY ConnAssumption DEF IInv, TypeOK, NoLeak
  <2> QED
    BY <1>1, <1>2, <2>1, <2>2 DEF NoLeak, Known, Idle
<1> QED
  BY <1>3, <1>4, <1>5, <1>6, <1>7, <1>8 DEF IInv

(* put pushes to the front, and gives the goroutine the back entry when     *)
(* there are too many.                                                     *)
LEMMA PutStep ==
  ASSUME IInv, NEW p \in Proc, PutKept(p) \/ PutEvict(p)
  PROVE  IInv'
<1>0. /\ pc[p] = "put" /\ ~closed /\ conn[p] \in Conn /\ conn[p] \in open
      /\ conn[p] \notin Range(idle) /\ conn[p] # NoConn
      /\ idle \in Seq(Conn) /\ IsInjective(idle) /\ Len(idle) \in Nat
      /\ Pushed(p) = <<conn[p]>> \o idle
  BY ConnAssumption, IdleFacts
     DEF PutKept, PutEvict, Accepts, IInv, TypeOK, Placed, Exclusive, Idle, Pushed
<1>1. /\ Pushed(p) \in Seq(Conn) /\ Len(Pushed(p)) = Len(idle) + 1
      /\ IsInjective(Pushed(p)) /\ Pushed(p) # <<>>
      /\ Range(Pushed(p)) = Range(idle) \cup {conn[p]}
  BY <1>0, PushFront
<1>a. active = Len(idle) + Cardinality(Holders) /\ active \in Int
  BY DEF IInv, ActiveExact, TypeOK
<1>2. CASE PutKept(p)
  <2>1. TypeOK'
    <3>1. pc' \in [Proc -> PCs] /\ conn' \in [Proc -> Conn \cup {NoConn}]
      BY <1>2 DEF PutKept, IInv, TypeOK, Goto, Hold, PCs
    <3>2. idle' \in Seq(Conn)
      BY <1>1, <1>2 DEF PutKept
    <3> QED
      BY <1>2, <3>1, <3>2 DEF PutKept, IInv, TypeOK
  <2>2. Placed'
    BY <1>2 DEF PutKept, IInv, TypeOK, Placed, Goto, Hold
  <2>3. Exclusive'
    <3>1. /\ conn'[p] = NoConn /\ \A q \in Proc \ {p} : conn'[q] = conn[q]
          /\ victims' = victims /\ Range(idle') = Range(idle) \cup {conn[p]}
          /\ IsInjective(idle')
      BY <1>1, <1>2 DEF PutKept, IInv, TypeOK, Hold
    <3>2. NoConn \notin Range(idle') /\ \A q \in Proc : NoConn \notin victims[q]
      BY <1>0, <3>1, ConnAssumption, RangeOfSeq DEF IInv, TypeOK
    <3>3. \A q \in Proc \ {p} : conn[q] # conn[p]
      BY <1>0 DEF IInv, Exclusive
    <3> QED
      BY <3>1, <3>2, <3>3 DEF IInv, Exclusive, Idle
  <2>4. ActiveExact'
    <3>1. /\ "out" \in PCs /\ Is("out" \in Counted) = 0
          /\ Is(pc[p] \in Counted) = 1
      BY <1>0 DEF PCs, Counted, Is
    <3>2. /\ Cardinality(Holders) \in Nat
          /\ Cardinality(Holders') = Cardinality(Holders) + 0 - 1
      BY <1>2, <3>1, Recount DEF PutKept, IInv, TypeOK
    <3>3. active' = active /\ Len(idle') = Len(idle) + 1
      BY <1>1, <1>2 DEF PutKept
    <3> QED
      BY <1>0, <1>a, <3>2, <3>3 DEF ActiveExact
  <2>5. WithinLimits'
    BY <1>2 DEF PutKept, IInv, WithinLimits
  <2>6. NoLeak'
    BY <1>0, <1>1, <1>2, ConnAssumption
       DEF PutKept, IInv, TypeOK, NoLeak, Known, Idle, Hold
  <2>7. IdleUsable'
    BY <1>0, <1>1, <1>2 DEF PutKept, IInv, IdleUsable, Idle
  <2> QED
    BY <2>1, <2>2, <2>3, <2>4, <2>5, <2>6, <2>7 DEF IInv
<1>3. CASE PutEvict(p)
  <2> DEFINE b == Pushed(p)[Len(Pushed(p))]
  <2>0. /\ idle' = WithoutBack(Pushed(p)) /\ Hold(p, b) /\ Goto(p, "putDec")
        /\ stale' = stale \ {b}
        /\ UNCHANGED <<closed, active, open, dead, budget, victims>>
    BY <1>3 DEF PutEvict
  <2>1. /\ idle' \in Seq(Conn) /\ Len(idle') = Len(idle) /\ IsInjective(idle')
        /\ b \in Conn /\ b \in Range(Pushed(p))
        /\ Range(idle') = Range(Pushed(p)) \ {b}
    <3> DEFINE t == Pushed(p)
    <3>1. /\ t \in Seq(Conn) /\ t # <<>> /\ IsInjective(t) /\ Len(t) - 1 = Len(idle)
      BY <1>0, <1>1
    <3> HIDE DEF t
    <3>2. /\ WithoutBack(t) \in Seq(Conn) /\ Len(WithoutBack(t)) = Len(t) - 1
          /\ IsInjective(WithoutBack(t))
          /\ t[Len(t)] \in Conn /\ t[Len(t)] \in Range(t)
          /\ Range(WithoutBack(t)) = Range(t) \ {t[Len(t)]}
      BY <3>1, PopBack
    <3> QED
      BY <2>0, <3>1, <3>2 DEF t
  <2> HIDE DEF b
  <2>2. TypeOK'
    <3>1. pc' \in [Proc -> PCs] /\ conn' \in [Proc -> Conn \cup {NoConn}]
      BY <2>0, <2>1 DEF IInv, TypeOK, Goto, Hold, PCs, Counted
    <3> QED
      BY <2>0, <2>1, <3>1 DEF IInv, TypeOK
  <2>3. Placed'
    <3>1. b # NoConn
      BY <2>1, ConnAssumption
    <3>2. /\ conn'[p] = b /\ pc'[p] = "putDec"
          /\ \A q \in Proc \ {p} : conn'[q] = conn[q] /\ pc'[q] = pc[q]
      BY <2>0 DEF IInv, TypeOK, Goto, Hold
    <3> QED
      BY <1>0, <2>0, <3>1, <3>2 DEF IInv, Placed
  <2>4. Exclusive'
    <3>1. \A q \in Proc \ {p} : conn[q] # b
      BY <1>0, <1>1, <2>1 DEF IInv, Exclusive, Idle
    <3>2. \A q \in Proc : b \notin victims[q] /\ victims[q] \cap Range(idle') = {}
      BY <1>1, <2>1 DEF IInv, Exclusive, Idle
    <3>3. b \notin Range(idle') /\ \A q \in Proc \ {p} : conn[q] \notin Range(idle')
      BY <1>0, <1>1, <2>1 DEF IInv, Exclusive, Idle
    <3> QED
      BY <2>0, <2>1, <3>1, <3>2, <3>3 DEF IInv, TypeOK, Exclusive, Idle, Hold
  <2>5. ActiveExact'
    <3>1. /\ "putDec" \in PCs /\ Is("putDec" \in Counted) = 1
          /\ Is(pc[p] \in Counted) = 1
      BY <1>0 DEF PCs, Counted, Is
    <3>2. /\ Cardinality(Holders) \in Nat
          /\ Cardinality(Holders') = Cardinality(Holders) + 1 - 1
      BY <2>0, <3>1, Recount DEF IInv, TypeOK
    <3> QED
      BY <1>a, <2>0, <2>1, <3>2 DEF ActiveExact
  <2>6. WithinLimits'
    BY <2>0, <2>1 DEF IInv, WithinLimits
  <2>7. NoLeak'
    BY <1>0, <1>1, <2>0, <2>1 DEF IInv, TypeOK, NoLeak, Known, Idle, Hold
  <2>8. IdleUsable'
    BY <1>0, <1>1, <2>0, <2>1 DEF IInv, IdleUsable, Idle
  <2> QED
    BY <2>2, <2>3, <2>4, <2>5, <2>6, <2>7, <2>8 DEF IInv
<1> QED
  BY <1>2, <1>3

(* Pool.Close takes the idle list over. *)
LEMMA ShutStep ==
  ASSUME IInv, NEW p \in Proc, Shut(p)
  PROVE  IInv'
<1>0. /\ idle \in Seq(Conn) /\ Len(idle) \in Nat /\ Range(idle) \subseteq Conn
      /\ active \in Int
  BY IdleFacts, RangeOfSeq DEF IInv, TypeOK
<1>1. /\ idle' \in Seq(Conn) /\ Len(idle') = 0 /\ Range(idle') = {}
      /\ IsInjective(idle') /\ idle' = <<>>
  <2>1. idle' = <<>> /\ idle' \in Seq(Conn) /\ Len(idle') = 0
    BY EmptySeq DEF Shut
  <2>2. DOMAIN idle' = {}
    BY <2>1, LenProperties
  <2> QED
    BY <2>1, <2>2 DEF Range, IsInjective
<1>2. /\ pc[p] = "out" /\ conn[p] = NoConn /\ conn' = conn /\ open' = open
      /\ Goto(p, "shut") /\ closed' = TRUE /\ active' = active - Len(idle)
      /\ victims' = [victims EXCEPT ![p] = Range(idle)] /\ stale' = {}
      /\ UNCHANGED <<dead, budget>>
  BY DEF Shut, Idle, IInv, Placed
<1>3. TypeOK'
  <2>1. pc' \in [Proc -> PCs] /\ victims' \in [Proc -> SUBSET Conn]
    BY <1>0, <1>2 DEF IInv, TypeOK, Goto, PCs
  <2>2. active' \in Int
    BY <1>0, <1>2
  <2>3. closed' \in BOOLEAN /\ stale' \in SUBSET Conn
    BY <1>2
  <2> QED
    BY <1>1, <1>2, <2>1, <2>2, <2>3 DEF IInv, TypeOK
<1>v. /\ victims'[p] = Range(idle) /\ victims[p] = {}
      /\ \A q \in Proc \ {p} : victims'[q] = victims[q]
  BY <1>2 DEF IInv, TypeOK, Placed
<1>4. Placed'
  <2>1. /\ pc'[p] = "shut" /\ \A q \in Proc \ {p} : pc'[q] = pc[q]
    BY <1>2 DEF IInv, TypeOK, Goto
  <2> QED
    BY <1>2, <1>v, <2>1 DEF IInv, Placed
<1>5. Exclusive'
  BY <1>1, <1>2, <1>v DEF IInv, Exclusive, Idle
<1>6. ActiveExact'
  <2>1. /\ "shut" \in PCs /\ Is("shut" \in Counted) = 0
        /\ Is(pc[p] \in Counted) = 0
    BY <1>2 DEF PCs, Counted, Is
  <2>2. /\ Cardinality(Holders) \in Nat
        /\ Cardinality(Holders') = Cardinality(Holders) + 0 - 0
    BY <1>2, <2>1, Recount DEF IInv, TypeOK
  <2> QED
    BY <1>0, <1>1, <1>2, <2>2 DEF IInv, ActiveExact
<1>7. WithinLimits'
  BY <1>0, <1>1, <1>2, LimitsAssumption DEF IInv, WithinLimits
<1>8. NoLeak'
  BY <1>1, <1>2, <1>v DEF IInv, NoLeak, Known, Idle
<1>9. IdleUsable'
  BY <1>1 DEF IdleUsable, Idle
<1> QED
  BY <1>3, <1>4, <1>5, <1>6, <1>7, <1>8, <1>9 DEF IInv

(* A connection is closed while something still refers to it. *)
LEMMA ShutOneStep ==
  ASSUME IInv, NEW p \in Proc, ShutOne(p)
  PROVE  IInv'
<1>1. PICK c \in victims[p] :
        /\ victims' = [victims EXCEPT ![p] = @ \ {c}] /\ open' = open \ {c}
        /\ pc[p] = "shut"
        /\ UNCHANGED <<closed, active, idle, stale, dead, pc, conn, budget>>
  BY DEF ShutOne, CloseConn
<1>2. /\ c \notin Range(idle) /\ \A q \in Proc : conn[q] # c
      /\ \A q \in Proc : victims'[q] = IF q = p THEN victims[p] \ {c} ELSE victims[q]
  BY <1>1 DEF IInv, TypeOK, Exclusive, Idle
<1>3. TypeOK'
  <2>1. victims' \in [Proc -> SUBSET Conn] /\ open' \in SUBSET Conn
    BY <1>1 DEF IInv, TypeOK
  <2> QED
    BY <1>1, <2>1 DEF IInv, TypeOK
<1>4. Placed'
  BY <1>1, <1>2 DEF IInv, Placed
<1>5. Exclusive'
  BY <1>1, <1>2 DEF IInv, Exclusive, Idle
<1>6. ActiveExact' /\ WithinLimits'
  BY <1>1 DEF IInv, ActiveExact, Holders, WithinLimits
<1>7. NoLeak' /\ IdleUsable'
  BY <1>1, <1>2 DEF IInv, NoLeak, Known, Idle, IdleUsable
<1> QED
  BY <1>3, <1>4, <1>5, <1>6, <1>7 DEF IInv

LEMMA FatalStep ==
  ASSUME IInv, NEW p \in Proc, Fatal(p)
  PROVE  IInv'
<1>1. /\ pc[p] = "use" /\ open' = open \ {conn[p]} /\ conn[p] \notin Range(idle)
      /\ \A q \in Proc \ {p} : conn[q] # conn[p] \/ conn[q] = NoConn
      /\ UNCHANGED <<closed, active, idle, stale, dead, pc, conn, budget, victims>>
  BY DEF Fatal, IInv, Exclusive, Idle
<1>2. TypeOK'
  <2>1. open' \in SUBSET Conn
    BY <1>1 DEF IInv, TypeOK
  <2> QED
    BY <1>1, <2>1 DEF IInv, TypeOK
<1>3. Placed'
  BY <1>1 DEF IInv, Placed
<1>4. Exclusive' /\ ActiveExact' /\ WithinLimits'
  BY <1>1 DEF IInv, Exclusive, Idle, ActiveExact, Holders, WithinLimits
<1>5. NoLeak' /\ IdleUsable'
  BY <1>1 DEF IInv, NoLeak, Known, Idle, IdleUsable
<1> QED
  BY <1>2, <1>3, <1>4, <1>5 DEF IInv

(* The surroundings touch nothing the invariants read except by type. *)
LEMMA QuietStep ==
  ASSUME IInv, stale' \in SUBSET Conn, dead' \in SUBSET Conn,
         UNCHANGED <<closed, active, idle, open, pc, conn, budget, victims>>
  PROVE  IInv'
<1>1. TypeOK'
  BY DEF IInv, TypeOK
<1>2. Placed' /\ Exclusive'
  BY DEF IInv, Placed, Exclusive, Idle
<1>3. ActiveExact' /\ WithinLimits' /\ NoLeak' /\ IdleUsable'
  BY DEF IInv, ActiveExact, Holders, WithinLimits, NoLeak, Known, Idle, IdleUsable
<1> QED
  BY <1>1, <1>2, <1>3 DEF IInv

------------------------------------------------------------------------------
(* Every step of the pool and its surroundings preserves the invariant. *)
LEMMA NextInv == IInv /\ [Next]_vars => IInv'
<1> SUFFICES ASSUME IInv, [Next]_vars PROVE IInv'
  OBVIOUS
<1>1. ASSUME NEW p \in Proc, Get(p) PROVE IInv'
  <2>1. (IF Expires THEN Len(idle) ELSE 0) \in Nat
    BY IdleFacts
  <2> QED
    BY <1>1, <2>1, ScanStep DEF Get
<1>2. ASSUME NEW p \in Proc, PruneMore(p) PROVE IInv'
  <2>1. budget[p] \in Nat
    BY DEF IInv, TypeOK
  <2> QED
    BY <1>2, <2>1, ScanStep DEF PruneMore
<1>3. ASSUME NEW p \in Proc, Retry(p) PROVE IInv'
  <2>1. /\ budget[p] \in Nat /\ pc[p] = "retry"
        /\ Borrow(p, budget[p], active - 1)
        /\ UNCHANGED <<closed, open, dead, victims>>
    BY <1>3 DEF IInv, TypeOK, Retry
  <2>2. active - 1 = active - Is(pc[p] \in Counted)
    BY <2>1 DEF Is, Counted
  <2> QED
    BY <2>1, <2>2, PopIdleStep, NoIdleStep DEF Borrow
<1>4. ASSUME NEW p \in Proc, GetStep(p) PROVE IInv'
  BY <1>2, <1>3, <1>4, LocalActions, DialOkStep DEF GetStep
<1>5. ASSUME NEW p \in Proc, CloseStep(p) PROVE IInv'
  BY <1>5, LocalActions, PutStep, ShutOneStep DEF CloseStep
<1>6. ASSUME Age PROVE IInv'
  <2>1. idle \in Seq(Conn) /\ stale' \subseteq stale \cup Range(idle)
    BY <1>6, IdleFacts DEF Age, Range
  <2>2. stale' \in SUBSET Conn
    BY <2>1, RangeOfSeq DEF IInv, TypeOK
  <2> QED
    BY <1>6, <2>2, QuietStep DEF Age, IInv, TypeOK
<1>7. ASSUME NEW c \in Conn, Drop(c) PROVE IInv'
  BY <1>7, QuietStep DEF Drop, IInv, TypeOK
<1>8. CASE UNCHANGED vars
  BY <1>8, QuietStep DEF vars, IInv, TypeOK
<1> QED
  BY <1>1, <1>4, <1>5, <1>6, <1>7, <1>8, LocalActions, ShutStep, FatalStep DEF Next

(* The inductive invariant holds in every reachable state. *)
THEOREM PoolInvariant == Spec => []IInv
  BY InitInv, NextInv, PTL DEF Spec

(* The variables keep their types. *)
THEOREM PoolTypes == Spec => []TypeOK
<1>1. IInv => TypeOK
  BY DEF IInv
<1> QED
  BY <1>1, PoolInvariant, PTL

(* However get, put and Close interleave, no two goroutines and no two     *)
(* places in the pool ever have the same connection.                       *)
THEOREM PoolExclusive == Spec => []Exclusive
<1>1. IInv => Exclusive
  BY DEF IInv
<1> QED
  BY <1>1, PoolInvariant, PTL

(* Pool.active is exact, on every path through get and put.                *)
THEOREM PoolCount == Spec => []ActiveExact
<1>1. IInv => ActiveExact
  BY DEF IInv
<1> QED
  BY <1>1, PoolInvariant, PTL

(* MaxIdle and MaxActive are respected whenever the mutex is free.         *)
THEOREM PoolLimits == Spec => []WithinLimits
<1>1. IInv => WithinLimits
  BY DEF IInv
<1> QED
  BY <1>1, PoolInvariant, PTL

(* No open connection is forgotten: each is idle, held by a goroutine, or  *)
(* about to be closed by Pool.Close.                                       *)
THEOREM PoolNoLeak == Spec => []NoLeak
<1>1. IInv => NoLeak
  BY DEF IInv
<1> QED
  BY <1>1, PoolInvariant, PTL

(* No former borrower has closed a connection of the idle list, and a      *)
(* closed pool has no idle connections.                                    *)
THEOREM PoolUsable == Spec => []IdleUsable
<1>1. IInv => IdleUsable
  BY DEF IInv
<1> QED
  BY <1>1, PoolInvariant, PTL

------------------------------------------------------------------------------
(* A function onto its range does not make its domain larger. *)
LEMMA RangeBound ==
  ASSUME NEW f, f = [x \in DOMAIN f |-> f[x]], IsFiniteSet(DOMAIN f)
  PROVE  IsFiniteSet(Range(f)) /\ Cardinality(Range(f)) <= Cardinality(DOMAIN f)
<1>1. f \in Surjection(DOMAIN f, Range(f))
  BY DEF Surjection, Range
<1> QED
  BY <1>1, FS_Surjection

(* What is open and not on its way out is idle or counted with the         *)
(* goroutine that holds it.                                                *)
LEMMA AllocatedBounded == IInv => AllocatedBound
<1> SUFFICES ASSUME IInv, MaxActive > 0
             PROVE  Cardinality(open \ Leaving) <= MaxActive
  BY DEF AllocatedBound
<1> DEFINE held == [p \in Holders |-> conn[p]]
<1>1. open \ Leaving \subseteq Range(idle) \cup Range(held)
  <2>1. SUFFICES ASSUME NEW c \in open, c \notin Leaving, c \notin Range(idle)
                 PROVE  c \in Range(held)
    OBVIOUS
  <2>2. \A p \in Proc : c \notin victims[p]
    BY <2>1 DEF Leaving
  <2>3. PICK p \in Proc : c = conn[p]
    BY <2>1, <2>2 DEF IInv, NoLeak, Known, Idle
  <2>4. c # NoConn
    BY ConnAssumption DEF IInv, TypeOK
  <2>5. pc[p] \in Counted
    BY <2>1, <2>3, <2>4 DEF IInv, TypeOK, Placed, PCs, Leaving
  <2> QED
    BY <2>3, <2>5 DEF Holders, Range
<1>2. IsFiniteSet(Range(idle)) /\ Cardinality(Range(idle)) <= Len(idle)
  <2>1. /\ idle \in Seq(Conn) /\ Len(idle) \in Nat /\ DOMAIN idle = 1 .. Len(idle)
        /\ idle = [i \in DOMAIN idle |-> idle[i]]
    BY IdleFacts, LenProperties
  <2>2. IsFiniteSet(DOMAIN idle) /\ Cardinality(DOMAIN idle) = Len(idle)
    <3> DEFINE n == Len(idle)
    <3>1. /\ IsFiniteSet(1 .. n)
          /\ Cardinality(1 .. n) = IF 1 > n THEN 0 ELSE n - 1 + 1
      BY <2>1, FS_Interval, 1 \in Int, n \in Int
    <3> QED
      BY <2>1, <3>1
  <2> QED
    BY <2>1, <2>2, RangeBound
<1>3. IsFiniteSet(Holders) /\ Cardinality(Holders) \in Nat
  BY ProcAssumption, FS_Subset, FS_CardinalityType DEF Holders
<1>4. IsFiniteSet(Range(held)) /\ Cardinality(Range(held)) <= Cardinality(Holders)
  <2> DEFINE h == held
  <2>1. DOMAIN h = Holders /\ h = [p \in DOMAIN h |-> h[p]]
    OBVIOUS
  <2> HIDE DEF h
  <2>2. IsFiniteSet(Range(h)) /\ Cardinality(Range(h)) <= Cardinality(DOMAIN h)
    BY <1>3, <2>1, RangeBound
  <2> QED
    BY <2>1, <2>2 DEF h
<1> DEFINE I == Range(idle)
           H == Range(held)
           A == open \ Leaving
<1> HIDE DEF I, H, A, held
<1>5. /\ IsFiniteSet(I \cup H)
      /\ Cardinality(I \cup H) <= Cardinality(I) + Cardinality(H)
  <2>1. Cardinality(I \cup H) = Cardinality(I) + Cardinality(H) - Cardinality(I \cap H)
    BY <1>2, <1>4, FS_Union DEF I, H
  <2>2. /\ Cardinality(I) \in Nat /\ Cardinality(H) \in Nat
        /\ Cardinality(I \cap H) \in Nat /\ IsFiniteSet(I \cup H)
    BY <1>2, <1>4, FS_CardinalityType, FS_Intersection, FS_Union DEF I, H
  <2> QED
    BY <2>1, <2>2
<1>6. Cardinality(A) <= Cardinality(I \cup H) /\ Cardinality(A) \in Nat
  BY <1>1, <1>5, FS_Subset, FS_CardinalityType DEF A, I, H
<1>7. active = Len(idle) + Cardinality(Holders) /\ active <= MaxActive
  BY DEF IInv, ActiveExact, WithinLimits
<1>8. /\ Cardinality(I) \in Nat /\ Cardinality(H) \in Nat
      /\ Cardinality(I \cup H) \in Nat
  BY <1>2, <1>4, <1>5, FS_CardinalityType DEF I, H
<1>9. Len(idle) \in Nat /\ active \in Int /\ MaxActive \in Nat
  BY IdleFacts, LimitsAssumption DEF IInv, TypeOK
<1>10. Cardinality(I) <= Len(idle) /\ Cardinality(H) <= Cardinality(Holders)
  BY <1>2, <1>4 DEF I, H
<1> QED
  BY <1>3, <1>5, <1>6, <1>7, <1>8, <1>9, <1>10 DEF A

(* MaxActive bounds the connections allocated at a time, but for those     *)
(* that a goroutine is just closing.                                       *)
THEOREM PoolAllocated == Spec => []AllocatedBound
  BY PoolInvariant, AllocatedBounded, PTL

------------------------------------------------------------------------------
(* The refinement of Lease.  A step dials the connections of the set N,    *)
(* which nothing referred to; for the others it is enough that none is     *)
(* opened, that none comes out of nowhere and that the idle ones stay      *)
(* known and open.                                                         *)
Dials(N) ==
  /\ N \subseteq open' \cap Known' /\ N \cap Known = {} /\ N \cap Range(idle') = {}
  /\ open' \subseteq open \cup N
  /\ Known' \subseteq Known \cup N \cup {NoConn}
  /\ Range(idle) \subseteq open' \cap Known'

LEMMA DialsIsLease ==
  ASSUME IInv, IInv', NEW N, Dials(N)
  PROVE  Leases!Next
<1>1. ASSUME NEW c \in Conn
      PROVE  \/ Place(c) = "none" /\ c \notin Known /\ c \notin Range(idle)
                /\ c \notin open
             \/ Place(c) = "held" /\ c \in Known /\ c \notin Range(idle)
             \/ Place(c) = "pooled" /\ c \in Range(idle) /\ c \in Known /\ c \in open
  BY DEF Place, Idle, Known, IInv, NoLeak, IdleUsable
<1>2. ASSUME NEW c \in Conn
      PROVE  \/ Place(c)' = "none" /\ c \notin Known' /\ c \notin Range(idle')
                /\ c \notin open'
             \/ Place(c)' = "held" /\ c \in Known' /\ c \notin Range(idle')
             \/ Place(c)' = "pooled" /\ c \in Range(idle') /\ c \in Known' /\ c \in open'
  BY DEF Place, Idle, Known, IInv, NoLeak, IdleUsable
<1>3. ASSUME NEW c \in Conn
      PROVE  \/ Place(c) = "none" /\ Place(c)' = "held" /\ c \in open'
             \/ Place(c) = "held" /\ Place(c)' = "held"
             \/ Place(c) = "held" /\ Place(c)' = "pooled" /\ c \in open /\ c \in open'
             \/ Place(c) = "pooled" /\ Place(c)' = "held" /\ (c \in open <=> c \in open')
             \/ Place(c) = "held" /\ Place(c)' = "none" /\ c \notin open'
             \/ Place(c)' = Place(c) /\ (c \in open <=> c \in open')
  <2>1. c # NoConn
    BY ConnAssumption
  <2> QED
    BY <1>1, <1>2, <2>1 DEF Dials
<1> QED
  BY <1>3 DEF Leases!Next, Leases!Dial, Leases!Use, Leases!GiveBack, Leases!Borrow,
              Leases!Scrap, Leases!Rest, Leases!Moves

(* One goroutine moves connections between the idle list, its hand and the *)
(* list it closes, and may drop some that are not idle.                    *)
At(p) == Range(idle) \cup victims[p] \cup {conn[p]}

LEMMA MovesOwn ==
  ASSUME IInv, NEW p \in Proc,
         \A q \in Proc \ {p} : conn'[q] = conn[q] /\ victims'[q] = victims[q],
         At(p)' \subseteq At(p) \cup {NoConn},
         Range(idle) \subseteq At(p)' \cap open',
         open' \subseteq open
  PROVE  Dials({})
<1>1. Known' \subseteq Known \cup {NoConn}
  BY DEF Known, Idle, At
<1>2. Range(idle) \subseteq Known'
  BY DEF Known, Idle, At
<1> QED
  BY <1>1, <1>2 DEF Dials

LEMMA LocalDials ==
  ASSUME IInv, NEW p \in Proc,
         idle' = idle, open' \subseteq open, Range(idle) \subseteq open',
         \A q \in Proc \ {p} : conn'[q] = conn[q] /\ victims'[q] = victims[q],
         conn'[p] \in {conn[p], NoConn}, victims'[p] \subseteq victims[p]
  PROVE  Dials({})
<1>1. At(p)' \subseteq At(p) \cup {NoConn} /\ Range(idle) \subseteq At(p)'
  BY DEF At
<1> QED
  BY <1>1, MovesOwn

LEMMA ScanDials ==
  ASSUME IInv, NEW p \in Proc, NEW n \in Nat, NEW a,
         Prune(p, n) \/ Borrow(p, n, a),
         UNCHANGED <<closed, open, dead, victims>>
  PROVE  Dials({})
<1>1. /\ idle \in Seq(Conn) /\ IsInjective(idle) /\ Range(idle) \subseteq open
      /\ \A c : Hold(p, c) => conn'[p] = c /\ \A q \in Proc \ {p} : conn'[q] = conn[q]
  BY IdleFacts DEF IInv, IdleUsable, Idle, Hold, TypeOK
<1>2. CASE Prune(p, n)
  <2>1. conn'[p] = Back /\ \A q \in Proc \ {p} : conn'[q] = conn[q]
    BY <1>1, <1>2 DEF Prune
  <2>2. Back \in Range(idle) /\ Range(idle') = Range(idle) \ {Back}
    BY <1>1, <1>2, PopBack DEF Prune, CanPrune, Back
  <2> QED
    BY <1>1, <2>1, <2>2, MovesOwn DEF At
<1>3. CASE PopIdle(p, n, a)
  <2>1. conn'[p] = Head(idle) /\ \A q \in Proc \ {p} : conn'[q] = conn[q]
    BY <1>1, <1>3 DEF PopIdle
  <2>2. Head(idle) \in Range(idle) /\ Range(idle') = Range(idle) \ {Head(idle)}
    BY <1>1, <1>3, PopFront DEF PopIdle
  <2> QED
    BY <1>1, <2>1, <2>2, MovesOwn DEF At
<1>4. CASE Exhausted(p, n, a) \/ StartDial(p, n, a)
  BY <1>1, <1>4, LocalDials DEF Exhausted, StartDial
<1> QED
  BY <1>2, <1>3, <1>4 DEF Borrow

(* Every step dials one new connection or none. *)
LEMMA NextDials == IInv /\ [Next]_vars => \E N : Dials(N)
<1> SUFFICES ASSUME IInv, [Next]_vars PROVE \E N : Dials(N)
  OBVIOUS
<1>0. /\ Range(idle) \subseteq open /\ \A p \in Proc : conn[p] \notin Range(idle)
      /\ \A p \in Proc : victims[p] \cap Range(idle) = {}
      /\ \A p \in Proc : \A c : Hold(p, c) =>
           conn'[p] = c /\ \A q \in Proc \ {p} : conn'[q] = conn[q]
      /\ \A p \in Proc : budget[p] \in Nat
      /\ Len(idle) \in Nat
  BY IdleFacts DEF IInv, IdleUsable, Exclusive, Idle, Hold, TypeOK
<1>1. ASSUME NEW p \in Proc, Get(p) PROVE Dials({})
  BY <1>0, <1>1, ScanDials DEF Get, Scan
<1>2. ASSUME NEW p \in Proc, PruneMore(p) PROVE Dials({})
  BY <1>0, <1>2, ScanDials DEF PruneMore, Scan
<1>3. ASSUME NEW p \in Proc, Retry(p) PROVE Dials({})
  BY <1>0, <1>3, ScanDials DEF Retry
<1>4. ASSUME NEW p \in Proc,
             \/ GetClosed(p) \/ PruneClose(p) \/ TestOk(p) \/ TestFail(p)
             \/ DialFail(p) \/ DialFailed(p) \/ Fatal(p)
             \/ ReleaseClean(p) \/ ReleaseBroken(p) \/ ReleaseErrored(p)
             \/ PutClosed(p) \/ PutDec(p) \/ PutClose(p) \/ ShutDone(p)
      PROVE  Dials({})
  BY <1>0, <1>4, LocalDials
     DEF GetClosed, PruneClose, TestOk, TestFail, DialFail, DialFailed, Fatal,
         ReleaseClean, ReleaseBroken, ReleaseErrored, PutClosed, PutDec, PutClose,
         ShutDone, CloseConn
<1>5. ASSUME NEW p \in Proc, DialOk(p) PROVE \E N : Dials(N)
  <2>1. PICK c \in Conn \ Known :
          /\ Hold(p, c) /\ open' = open \cup {c} /\ pc[p] = "dial"
          /\ UNCHANGED <<idle, victims>>
    BY <1>5 DEF DialOk
  <2>2. Known' \subseteq Known \cup {c} /\ c \in Known' /\ Range(idle) \subseteq Known'
    BY <1>0, <2>1 DEF Known, Idle
  <2>3. c \notin Range(idle')
    BY <2>1 DEF Known, Idle
  <2>4. Dials({c})
    BY <1>0, <2>1, <2>2, <2>3 DEF Dials
  <2> QED
    BY <2>4
<1>6. ASSUME NEW p \in Proc, PutKept(p) \/ PutEvict(p) PROVE Dials({})
  <2>1. /\ Pushed(p) \in Seq(Conn) /\ IsInjective(Pushed(p)) /\ Pushed(p) # <<>>
        /\ Range(Pushed(p)) = Range(idle) \cup {conn[p]}
    BY <1>0, <1>6, IdleFacts, PushFront, ConnAssumption
       DEF PutKept, PutEvict, IInv, TypeOK, Placed, Pushed
  <2>2. CASE PutKept(p)
    BY <1>0, <2>1, <2>2, MovesOwn DEF PutKept, At
  <2>3. CASE PutEvict(p)
    <3> DEFINE b == Pushed(p)[Len(Pushed(p))]
    <3>1. conn'[p] = b /\ \A q \in Proc \ {p} : conn'[q] = conn[q]
      BY <1>0, <2>3 DEF PutEvict
    <3>2. b \in Range(Pushed(p)) /\ Range(idle') = Range(Pushed(p)) \ {b}
      BY <2>1, <2>3, PopBack DEF PutEvict
    <3> QED
      BY <1>0, <2>1, <2>3, <3>1, <3>2, MovesOwn DEF PutEvict, At
  <2> QED
    BY <1>6, <2>2, <2>3
<1>7. ASSUME NEW p \in Proc, Shut(p) PROVE Dials({})
  <2>1. /\ victims'[p] = Range(idle) /\ \A q \in Proc \ {p} : victims'[q] = victims[q]
        /\ Range(idle') = {} /\ UNCHANGED <<open, conn>>
    <3>1. idle' = <<>> /\ victims' = [victims EXCEPT ![p] = Range(idle)]
          /\ UNCHANGED <<open, conn>>
      BY <1>7 DEF Shut, Idle
    <3>2. DOMAIN idle' = {}
      BY <3>1, EmptySeq, LenProperties
    <3> QED
      BY <3>1, <3>2 DEF IInv, TypeOK, Range
  <2> QED
    BY <1>0, <2>1, MovesOwn DEF At
<1>8. ASSUME NEW p \in Proc, ShutOne(p) PROVE Dials({})
  <2>1. PICK c \in victims[p] :
          /\ victims' = [victims EXCEPT ![p] = @ \ {c}] /\ open' = open \ {c}
          /\ UNCHANGED <<idle, conn>>
    BY <1>8 DEF ShutOne, CloseConn
  <2>2. victims'[p] \subseteq victims[p] /\ \A q \in Proc \ {p} : victims'[q] = victims[q]
    BY <2>1 DEF IInv, TypeOK
  <2> QED
    BY <1>0, <2>1, <2>2, LocalDials
<1>9. CASE Age \/ (\E c \in Conn : Drop(c)) \/ UNCHANGED vars
  <2>1. UNCHANGED <<idle, open, conn, victims>>
    BY <1>9 DEF Age, Drop, vars
  <2>2. Known' = Known /\ Range(idle) \subseteq Known
    BY <2>1 DEF Known, Idle
  <2>3. Dials({})
    BY <1>0, <2>1, <2>2 DEF Dials
  <2> QED
    BY <2>3
<1> QED
  BY <1>1, <1>2, <1>3, <1>4, <1>5, <1>6, <1>7, <1>8, <1>9 DEF Next, GetStep, CloseStep

(* The pool implements Lease: a connection comes out of the idle list as it *)
(* went in, only a newly dialled one is opened, and only one that is still  *)
(* open is ever put.                                                        *)
THEOREM PoolLeased == Spec => Leased
<1>1. Init => Leases!Init
  <2> SUFFICES ASSUME Init PROVE Leases!Init
    OBVIOUS
  <2>1. Known \subseteq {NoConn} /\ open = {} /\ Idle = {}
    <3>1. idle = <<>> /\ DOMAIN idle = {}
      BY EmptySeq, LenProperties DEF Init
    <3> QED
      BY <3>1 DEF Init, Known, Idle, Range
  <2>2. \A c \in Conn : Place(c) = "none"
    BY <2>1, ConnAssumption DEF Place
  <2> QED
    BY <2>1, <2>2 DEF Leases!Init
<1>2. IInv /\ [Next]_vars => [Leases!Next]_(Leases!vars)
  BY NextInv, NextDials, DialsIsLease
<1> QED
  BY <1>1, <1>2, PoolInvariant, PTL DEF Spec, Leased, Leases!Spec
==============================================================================
