---------------------------- MODULE TimelineProofs ----------------------------
(***************************************************************************)
(* Proofs about Timeline, for any users, photos, followers, requests and   *)
(* faults: types, one fan-out per photo, and who can miss a photo.         *)
(***************************************************************************)
EXTENDS Timeline, SequenceTheorems, TLAPS

AddTasks == [op : {"addPhoto"}, photo : Photo]
FollowTasks == {[op |-> "iNowFollow", user |-> f[1], who |-> f[2]] : f \in Follows}
GreetTasks == [op : {"initialPhotos"}, user : Newcomers]

(* A request serves the call its place in the code belongs to, has users or *)
(* photos to go through, and uses the connection in some places only: l, t, *)
(* d, x and b are its pc, task, todo, wire and down.                       *)
Fits(l, t, d, x, b) ==
  /\ l = "idle" => t = NoTask
  /\ l \in {"find", "put", "claim", "send", "recv", "pop"} => t \in AddTasks
  /\ l \in {"query", "push", "trim"} => t \in FollowTasks
  /\ l = "greet" => t \in GreetTasks
  /\ l = "done" => t \in Tasks
  /\ l \in {"put", "claim", "send", "recv", "pop"} => d \in Seq(User)
  /\ l \in {"push", "trim"} => d \in Seq(Photo)
  /\ l \in {"find", "put", "claim", "send", "query", "push", "trim", "greet"} => x = <<>>
  /\ l \in {"idle", "find", "put", "claim", "send", "query"} => b = FALSE

At(w) == Fits(pc[w], task[w], todo[w], wire[w], down[w])

Registers ==
  /\ pc \in [Worker -> PCs]
  /\ task \in [Worker -> Tasks \cup {NoTask}]
  /\ todo \in [Worker -> Seq(User \cup Photo)]
  /\ count \in [Worker -> Nat]
  /\ wire \in [Worker -> Seq(Commands)]
  /\ replies \in [Worker -> Seq(Nat)]
  /\ down \in [Worker -> BOOLEAN]
  /\ \A w \in Worker : At(w)

Shared ==
  /\ followsMe \in [User -> Seq(User)]
  /\ following \in [Follows -> {"idle", "call", "called"}]
  /\ photos \in [User -> Seq(Photo)]
  /\ tl \in [User -> Seq(Photo \cup {Old, Welcome})]
  /\ image \subseteq Photo
  /\ queue \subseteq Tasks
  /\ faults \in 0 .. MaxFaults
  /\ pushed \in [Photo \X User -> Nat]
  /\ reached \subseteq Photo \X User
  /\ lost \subseteq Photo \X User
  /\ longest \in [User -> Nat]
  /\ passed \subseteq Photo \X User

(* On addPhoto's list d for p everybody is once, but for an owner who       *)
(* follows himself: he is there twice.                                     *)
Once(d, p) ==
  \A i, j \in DOMAIN d : d[i] = d[j] =>
    i = j \/ (ListedTwice(p, d[i]) /\ \A k \in DOMAIN d : d[k] = d[i] => k \in {i, j})

(* Followers are listed once, whoever is to be caught up is listed already, *)
(* and photos are kept with their owners.                                  *)
Entities ==
  /\ \A u \in User : IsInjective(followsMe[u])
  /\ \A w \in Worker : pc[w] \in {"put", "claim", "send"} => Once(todo[w], task[w].photo)
  /\ \A u \in User : \A p \in Range(photos[u]) : Owner[p] = u
  /\ \A t \in queue : t.op = "iNowFollow" => t.user \in Range(followsMe[t.who])
  /\ \A w \in Worker : task[w].op = "iNowFollow" => task[w].user \in Range(followsMe[task[w].who])

(* Whoever followById is past its transaction for is listed, and there is   *)
(* an iNowFollow only once it is past its call.                            *)
Called(t) == <<t.user, t.who>> \in Follows /\ following[<<t.user, t.who>>] = "called"
Followed ==
  /\ \A f \in Follows : following[f] # "idle" => f[1] \in Range(followsMe[f[2]])
  /\ \A t \in queue : t.op = "iNowFollow" => Called(t)
  /\ \A w \in Worker : task[w].op = "iNowFollow" => Called(task[w])

Stored(p) == p \in Range(photos[Owner[p]])

(* A photo is stored before it is claimed, and before its call is done.    *)
StoredFirst ==
  /\ \A p \in image : Stored(p)
  /\ \A w \in Worker :
       /\ task[w].op = "addPhoto" /\ pc[w] \notin {"find", "put"} => Stored(task[w].photo)
       /\ task[w].op = "addPhoto" /\ task[w] \notin queue => Stored(task[w].photo)

(* Before the claim nothing of a fan-out exists; then one request is about  *)
(* to send it; then its pushes are on one connection, and those to u there  *)
(* and those done are no more than there ought to be.                      *)
Sending(w, p) == pc[w] = "send" /\ task[w].photo = p
OnWire(w, i, u, p) == i \in DOMAIN wire[w] /\ wire[w][i] = Push(u, p)
Unsent(p) ==
  /\ \A u \in User : pushed[<<p, u>>] = 0
  /\ \A u \in User, w \in Worker : \A i \in DOMAIN wire[w] : ~OnWire(w, i, u, p)

Rest(w, i, u, p) ==
  /\ pushed[<<p, u>>] < Times(p, u)
  /\ \A v \in Worker : \A j \in DOMAIN wire[v] :
       OnWire(v, j, u, p) => v = w /\ (j = i \/ pushed[<<p, u>>] + 2 <= Times(p, u))
  /\ \A j, k \in DOMAIN wire[w] :
       OnWire(w, j, u, p) /\ OnWire(w, k, u, p) => i = j \/ i = k \/ j = k

OneFanOut ==
  /\ \A p \in Photo \ image : Unsent(p) /\ \A w \in Worker : ~Sending(w, p)
  /\ \A w \in Worker, p \in Photo :
       Sending(w, p) => Unsent(p) /\ \A v \in Worker \ {w} : ~Sending(v, p)
  /\ \A u \in User, p \in Photo, w \in Worker : \A i \in DOMAIN wire[w] :
       OnWire(w, i, u, p) => Rest(w, i, u, p)
  /\ FanOutOnce

(* Photo p has been pushed to a, is certain to be unless a fault hits it,  *)
(* or is known to have been missed.                                        *)
Covered(p, a) ==
  \/ <<p, a>> \in reached \cup lost \cup passed
  \/ \E w \in Worker :
       \/ pc[w] = "push" /\ ~down[w] /\ task[w].user = a /\ p \in Range(todo[w])
       \/ pc[w] = "send" /\ task[w].photo = p /\ a \in Range(todo[w])
       \/ \E i \in DOMAIN wire[w] : OnWire(w, i, a, p)

(* Nobody has claimed p, and whoever is about to has a on his list.        *)
Listed(p, a) ==
  LET t == [op |-> "addPhoto", photo |-> p] IN
  /\ p \notin image
  /\ Stored(p) => t \in queue
  /\ \A w \in Worker : task[w] = t =>
       /\ t \in queue
       /\ pc[w] \in {"find", "put", "claim"}
       /\ pc[w] \in {"put", "claim"} => a \in Range(todo[w])

(* The iNowFollow of a and u has not been queued yet, or it has not read    *)
(* any photos yet.                                                         *)
Calling(a, u) == <<a, u>> \in Follows /\ following[<<a, u>>] = "call"
Unread(a, u) ==
  LET t == [op |-> "iNowFollow", user |-> a, who |-> u] IN
  /\ t \in queue
  /\ \A w \in Worker : task[w] = t => pc[w] = "query"

Cared ==
  \A u \in User : \A a \in Range(followsMe[u]) :
    Calling(a, u) \/ Unread(a, u) \/ \A p \in Photo : Owner[p] = u => Covered(p, a) \/ Listed(p, a)

TimelineInv == Registers /\ Shared /\ Entities /\ Followed /\ StoredFirst /\ OneFanOut /\ Cared
------------------------------------------------------------------------------
(* Lists                                                                    *)

LEMMA RangeOf == ASSUME NEW S, NEW s \in Seq(S) PROVE Range(s) = {s[i] : i \in 1 .. Len(s)} /\ Range(s) \subseteq S
  BY LenProperties, ElementOfSeq DEF Range

LEMMA EmptyList == Range(<<>>) = {} /\ IsInjective(<<>>) /\ \A S : <<>> \in Seq(S)
  BY DEF Range, IsInjective

LEMMA FrontFacts ==
  ASSUME NEW S, NEW s \in Seq(S), NEW x \in S
  PROVE  /\ <<x>> \o s \in Seq(S)
         /\ Len(<<x>> \o s) = Len(s) + 1
         /\ Range(<<x>> \o s) = {x} \cup Range(s)
<1>1. <<x>> \in Seq(S) /\ Len(<<x>>) = 1 /\ Range(<<x>>) = {x}
  BY DEF Range
<1>2. Len(s) \in Nat
  BY LenProperties
<1>3. <<x>> \o s \in Seq(S) /\ Len(<<x>> \o s) = Len(<<x>>) + Len(s)
  BY <1>1, ConcatProperties
<1>4. Range(<<x>> \o s) = Range(<<x>>) \cup Range(s)
  <2>1. \A t \in Seq(S) : Range(t \o s) = Range(t) \cup Range(s)
    BY RangeConcatenation
  <2> QED
    BY <1>1, <2>1
<1> QED
  BY <1>1, <1>2, <1>3, <1>4

LEMMA ButLastFacts ==
  ASSUME NEW S, NEW s \in Seq(S)
  PROVE  ButLast(s) \in Seq(S)
<1>1. Len(s) \in Nat /\ 1 \in Int /\ Len(s) - 1 \in Int
  BY LenProperties
<1>2. \A i \in 1 .. Len(s) - 1 : s[i] \in S
  BY <1>1, ElementOfSeq
<1> QED
  BY <1>1, <1>2, SubSeqProperties DEF ButLast

LEMMA TailFacts ==
  ASSUME NEW S, NEW s \in Seq(S), s # <<>>
  PROVE  /\ Head(s) \in S /\ Head(s) = s[1] /\ 1 \in DOMAIN s
         /\ Tail(s) \in Seq(S)
         /\ Range(s) = {Head(s)} \cup Range(Tail(s))
         /\ \A i \in DOMAIN Tail(s) : i \in Nat /\ i + 1 \in DOMAIN s /\ Tail(s)[i] = s[i + 1]
         /\ \A j \in DOMAIN s : j # 1 => j - 1 \in DOMAIN Tail(s) /\ s[j] = Tail(s)[j - 1]
<1>1. /\ Head(s) \in S /\ Tail(s) \in Seq(S) /\ Len(Tail(s)) = Len(s) - 1
      /\ \A i \in 1 .. Len(Tail(s)) : Tail(s)[i] = s[i + 1]
  BY HeadTailProperties
<1>2. Len(s) \in Nat /\ Len(s) # 0 /\ DOMAIN s = 1 .. Len(s) /\ DOMAIN Tail(s) = 1 .. Len(s) - 1
  BY <1>1, LenProperties, EmptySeq
<1>3. Head(s) = s[1]
  OBVIOUS
<1>4. \A i \in DOMAIN Tail(s) : i \in Nat /\ i + 1 \in DOMAIN s /\ Tail(s)[i] = s[i + 1]
  BY <1>1, <1>2
<1>5. \A j \in DOMAIN s : j # 1 => j - 1 \in DOMAIN Tail(s) /\ s[j] = Tail(s)[j - 1]
  <2> SUFFICES ASSUME NEW j \in DOMAIN s, j # 1
               PROVE  j - 1 \in DOMAIN Tail(s) /\ s[j] = Tail(s)[j - 1]
    OBVIOUS
  <2>1. j \in Int /\ j - 1 \in 1 .. Len(s) - 1 /\ (j - 1) + 1 = j
    BY <1>2
  <2> QED
    BY <1>2, <1>4, <2>1
<1>6. 1 \in DOMAIN s
  BY <1>2
<1>7. Range(s) = {Head(s)} \cup Range(Tail(s))
  <2> DEFINE t == Tail(s)
  <2>1. \A i \in DOMAIN t : t[i] \in Range(s)
    BY <1>4 DEF Range
  <2>2. \A j \in DOMAIN s : s[j] = Head(s) \/ s[j] \in Range(t)
    BY <1>3, <1>5 DEF Range
  <2>3. Head(s) \in Range(s)
    BY <1>3, <1>6 DEF Range
  <2> HIDE DEF t
  <2>4. Range(t) \subseteq Range(s)
    BY <2>1 DEF Range
  <2>5. Range(s) \subseteq {Head(s)} \cup Range(t)
    BY <2>2 DEF Range
  <2> QED
    BY <2>3, <2>4, <2>5 DEF t
<1> QED
  BY <1>1, <1>3, <1>4, <1>5, <1>6, <1>7

LEMMA AppendFacts ==
  ASSUME NEW S, NEW s \in Seq(S), NEW x \in S
  PROVE  /\ Append(s, x) \in Seq(S)
         /\ Range(Append(s, x)) = Range(s) \cup {x}
         /\ \A i \in DOMAIN s : i \in DOMAIN Append(s, x) /\ Append(s, x)[i] = s[i]
         /\ \A i \in DOMAIN Append(s, x) : i \in DOMAIN s \/ Append(s, x)[i] = x
         /\ IsInjective(s) /\ x \notin Range(s) => IsInjective(Append(s, x))
<1> DEFINE m == Append(s, x)
<1>1. /\ m \in Seq(S) /\ Len(m) = Len(s) + 1 /\ Len(s) \in Nat
      /\ m[Len(s) + 1] = x
      /\ \A j \in 1 .. Len(s) : m[j] = s[j]
  BY AppendProperties, LenProperties
<1>2. DOMAIN m = 1 .. Len(s) + 1 /\ DOMAIN s = 1 .. Len(s)
  BY <1>1, LenProperties
<1> HIDE DEF m
<1>3. \A i \in DOMAIN s : i \in DOMAIN m /\ m[i] = s[i]
  BY <1>1, <1>2
<1>4. \A i \in DOMAIN m : i \in DOMAIN s \/ i = Len(s) + 1
  BY <1>1, <1>2
<1>5. Len(s) + 1 \in DOMAIN m
  BY <1>1, <1>2
<1>6. Range(m) = Range(s) \cup {x}
  BY <1>1, <1>3, <1>4, <1>5 DEF Range
<1>7. ASSUME IsInjective(s), x \notin Range(s) PROVE IsInjective(m)
  <2>1. \A i \in DOMAIN s : s[i] # x
    BY <1>7 DEF Range
  <2> QED
    BY <1>1, <1>3, <1>4, <1>7, <2>1 DEF IsInjective
<1> QED
  BY <1>1, <1>3, <1>4, <1>6, <1>7 DEF m

(* The first k of a list, and the others.                                  *)
LEMMA PrefixFacts ==
  ASSUME NEW S, NEW s \in Seq(S), NEW k \in 0 .. Len(s)
  PROVE  /\ SubSeq(s, 1, k) \in Seq(S)
         /\ \A i \in DOMAIN SubSeq(s, 1, k) : i \in DOMAIN s /\ SubSeq(s, 1, k)[i] = s[i]
         /\ \A i \in DOMAIN s : \/ i \in DOMAIN SubSeq(s, 1, k) /\ SubSeq(s, 1, k)[i] = s[i]
                                \/ s[i] \in Range(SubSeq(s, k + 1, Len(s)))
         /\ Range(SubSeq(s, k + 1, Len(s))) \subseteq Range(s)
<1>1. Len(s) \in Nat /\ k \in Int /\ k + 1 \in Int /\ 0 <= k /\ k <= Len(s) /\ DOMAIN s = 1 .. Len(s)
  BY LenProperties
<1>2. \A i \in 1 .. Len(s) : s[i] \in S
  BY ElementOfSeq
<1> DEFINE f == SubSeq(s, 1, k)
           g == SubSeq(s, k + 1, Len(s))
<1>3. f \in Seq(S) /\ Len(f) = k /\ \A i \in 1 .. k : f[i] = s[i]
  <2>1. \A i \in 1 .. k : s[i] \in S
    BY <1>1, <1>2
  <2>2. f \in Seq(S) /\ Len(f) = (IF 1 <= k THEN k - 1 + 1 ELSE 0)
        /\ \A i \in 1 .. k - 1 + 1 : f[i] = s[1 + i - 1]
    BY <1>1, <2>1, SubSeqProperties
  <2> HIDE DEF f
  <2> QED
    BY <1>1, <2>2
<1>4. g \in Seq(S) /\ Len(g) = Len(s) - k /\ \A i \in 1 .. Len(s) - k : g[i] = s[k + i]
  <2>1. \A i \in k + 1 .. Len(s) : s[i] \in S
    BY <1>1, <1>2
  <2>2. g \in Seq(S) /\ Len(g) = (IF k + 1 <= Len(s) THEN Len(s) - (k + 1) + 1 ELSE 0)
        /\ \A i \in 1 .. Len(s) - (k + 1) + 1 : g[i] = s[(k + 1) + i - 1]
    BY <1>1, <2>1, SubSeqProperties
  <2> HIDE DEF g
  <2>3. \A i \in 1 .. Len(s) - k : i \in 1 .. Len(s) - (k + 1) + 1 /\ (k + 1) + i - 1 = k + i
    BY <1>1
  <2>4. Len(g) = Len(s) - k
    <3>1. Len(s) \in Int /\ k \in Int /\ k <= Len(s)
      BY <1>1
    <3>2. k + 1 <= Len(s) => Len(s) - (k + 1) + 1 = Len(s) - k
      BY <3>1
    <3>3. ~(k + 1 <= Len(s)) => Len(s) - k = 0
      BY <3>1
    <3> QED
      BY <2>2, <3>2, <3>3
  <2>5. \A i \in 1 .. Len(s) - k : g[i] = s[k + i]
    BY <2>2, <2>3
  <2> QED
    BY <2>2, <2>4, <2>5
<1>5. DOMAIN f = 1 .. k /\ DOMAIN g = 1 .. Len(s) - k
  BY <1>3, <1>4, LenProperties
<1> HIDE DEF f, g
<1>6. \A i \in DOMAIN f : i \in DOMAIN s /\ f[i] = s[i]
  BY <1>1, <1>3, <1>5
<1>7. ASSUME NEW i \in DOMAIN s PROVE (i \in DOMAIN f /\ f[i] = s[i]) \/ s[i] \in Range(g)
  <2>1. CASE i <= k
    BY <1>1, <1>3, <1>5, <2>1
  <2>2. CASE ~(i <= k)
    <3>1. i - k \in 1 .. Len(s) - k /\ k + (i - k) = i
      BY <1>1, <2>2
    <3> QED
      BY <1>4, <1>5, <3>1 DEF Range
  <2> QED
    BY <2>1, <2>2
<1>8. Range(g) \subseteq Range(s)
  <2>1. \A j \in 1 .. Len(s) - k : k + j \in DOMAIN s
    BY <1>1
  <2> QED
    BY <1>4, <1>5, <2>1 DEF Range
<1> QED
  BY <1>3, <1>6, <1>7, <1>8 DEF f, g

(* The photos newer than p and those older: what PutPhoto keeps.           *)
LEMMA OthersFacts ==
  ASSUME NEW S, NEW s \in Seq(S), NEW p \in S
  PROVE  /\ Others(s, p) \in Seq(S)
         /\ Range(s) \subseteq Range(Others(s, p)) \cup {p}
         /\ Range(Others(s, p)) \subseteq Range(s)
<1>1. CASE p \notin Range(s)
  BY <1>1 DEF Others
<1>2. CASE p \in Range(s)
  <2> DEFINE k == CHOOSE i \in DOMAIN s : s[i] = p
  <2>1. k \in DOMAIN s /\ s[k] = p
    BY <1>2 DEF Range
  <2> HIDE DEF k
  <2>2. Len(s) \in Nat /\ DOMAIN s = 1 .. Len(s) /\ k \in Int /\ 1 <= k /\ k <= Len(s)
    BY <2>1, LenProperties
  <2>3. k - 1 \in 0 .. Len(s) /\ k \in 0 .. Len(s) /\ (k - 1) + 1 = k
    BY <2>2
  <2> DEFINE f == SubSeq(s, 1, k - 1)
             g == SubSeq(s, k + 1, Len(s))
             h == SubSeq(s, 1, k)
  <2>4. /\ f \in Seq(S)
        /\ \A i \in DOMAIN f : i \in DOMAIN s /\ f[i] = s[i]
        /\ \A i \in 1 .. k - 1 : i \in DOMAIN f /\ f[i] = s[i]
    <3>1. f \in Seq(S) /\ \A i \in DOMAIN f : i \in DOMAIN s /\ f[i] = s[i]
      BY <2>3, PrefixFacts
    <3>2. \A i \in 1 .. k - 1 : s[i] \in S
      BY <2>2, ElementOfSeq
    <3>3. Len(f) = (IF 1 <= k - 1 THEN (k - 1) - 1 + 1 ELSE 0)
      BY <2>2, <3>2, SubSeqProperties
    <3>4. DOMAIN f = 1 .. Len(f)
      BY <3>1, LenProperties
    <3> HIDE DEF f
    <3> QED
      BY <2>2, <3>1, <3>3, <3>4
  <2>5. /\ \A i \in DOMAIN s : i \in DOMAIN h \/ s[i] \in Range(g)
        /\ Range(g) \subseteq Range(s)
    BY <2>3, PrefixFacts
  <2>6. g \in Seq(S)
    <3>1. \A i \in k + 1 .. Len(s) : s[i] \in S
      BY <2>2, ElementOfSeq
    <3> QED
      BY <2>2, <3>1, SubSeqProperties
  <2>7. DOMAIN h = 1 .. k
    <3>1. \A i \in 1 .. k : s[i] \in S
      BY <2>2, ElementOfSeq
    <3>2. h \in Seq(S) /\ Len(h) = (IF 1 <= k THEN k - 1 + 1 ELSE 0)
      BY <2>2, <3>1, SubSeqProperties
    <3>3. DOMAIN h = 1 .. Len(h)
      BY <3>2, LenProperties
    <3> HIDE DEF h
    <3> QED
      BY <2>2, <3>2, <3>3
  <2> HIDE DEF f, g, h
  <2>8. \A i \in DOMAIN s : i \in 1 .. k - 1 \/ i = k \/ s[i] \in Range(g)
    BY <2>2, <2>5, <2>7
  <2>9. Range(s) \subseteq Range(f) \cup Range(g) \cup {p}
    BY <2>1, <2>4, <2>8 DEF Range
  <2>10. Range(f) \subseteq Range(s)
    BY <2>4 DEF Range
  <2>11. Others(s, p) = f \o g
    BY <1>2 DEF Others, f, g, k
  <2>12. f \o g \in Seq(S) /\ Range(f \o g) = Range(f) \cup Range(g)
    BY <2>4, <2>6, ConcatProperties, RangeConcatenation
  <2> QED
    BY <2>5, <2>9, <2>10, <2>11, <2>12
<1> QED
  BY <1>1, <1>2

LEMMA NewestFacts ==
  ASSUME NEW S, NEW s \in Seq(S)
  PROVE  /\ Newest(s) \in Seq(S)
         /\ \A p \in Range(s) : p \in Range(Newest(s)) \/ \E i \in Recent + 1 .. Len(s) : s[i] = p
<1> DEFINE k == Least(Recent, Len(s))
<1>1. Len(s) \in Nat /\ Recent \in Nat
  BY LenProperties, BoundsAssumption
<1>d. DOMAIN s = 1 .. Len(s)
  BY LenProperties
<1>2. k \in Int /\ 0 <= k /\ k <= Len(s) /\ (k = Recent \/ k = Len(s))
  BY <1>1 DEF Least
<1> HIDE DEF k
<1> DEFINE f == SubSeq(s, 1, k)
<1>3. \A i \in 1 .. k : s[i] \in S
  <2>1. \A i \in 1 .. k : i \in 1 .. Len(s)
    BY <1>1, <1>2
  <2> QED
    BY <2>1, ElementOfSeq
<1>4. f \in Seq(S) /\ Len(f) = (IF 1 <= k THEN k - 1 + 1 ELSE 0) /\ \A i \in 1 .. k - 1 + 1 : f[i] = s[1 + i - 1]
  BY <1>1, <1>2, <1>3, SubSeqProperties
<1>5. DOMAIN f = 1 .. Len(f)
  BY <1>4, LenProperties
<1> HIDE DEF f
<1>6. DOMAIN f = 1 .. k /\ \A i \in 1 .. k : f[i] = s[i]
  BY <1>2, <1>4, <1>5
<1>7. ASSUME NEW p \in Range(s) PROVE p \in Range(f) \/ \E i \in Recent + 1 .. Len(s) : s[i] = p
  <2>1. PICK i \in 1 .. Len(s) : s[i] = p
    BY <1>d DEF Range
  <2>2. CASE i \in 1 .. k
    BY <1>6, <2>1, <2>2 DEF Range
  <2>3. CASE i \notin 1 .. k
    <3>1. i \in Recent + 1 .. Len(s)
      BY <1>1, <1>2, <2>3
    <3> QED
      BY <2>1, <3>1
  <2> QED
    BY <2>2, <2>3
<1> QED
  BY <1>4, <1>7 DEF f, k, Newest
------------------------------------------------------------------------------
(* The registers of a request                                               *)

(* w comes to l, with t, d, n, x, y and b in its registers.                *)
Sets(w, l, t, d, n, x, y, b) ==
  /\ pc' = [pc EXCEPT ![w] = l]
  /\ task' = [task EXCEPT ![w] = t]
  /\ todo' = [todo EXCEPT ![w] = d]
  /\ count' = [count EXCEPT ![w] = n]
  /\ wire' = [wire EXCEPT ![w] = x]
  /\ replies' = [replies EXCEPT ![w] = y]
  /\ down' = [down EXCEPT ![w] = b]

LEMMA SetsFacts ==
  ASSUME Registers, NEW w \in Worker, NEW l, NEW t, NEW d, NEW n, NEW x, NEW y, NEW b,
         Sets(w, l, t, d, n, x, y, b)
  PROVE  /\ pc'[w] = l /\ task'[w] = t /\ todo'[w] = d /\ wire'[w] = x /\ down'[w] = b
         /\ \A v \in Worker \ {w} : /\ pc'[v] = pc[v] /\ task'[v] = task[v] /\ todo'[v] = todo[v]
                                    /\ wire'[v] = wire[v] /\ down'[v] = down[v]
                                    /\ count'[v] = count[v] /\ replies'[v] = replies[v]
  BY DEF Registers, Sets

LEMMA SetsTyped ==
  ASSUME Registers, NEW w \in Worker, NEW l \in PCs, NEW t \in Tasks \cup {NoTask},
         NEW d \in Seq(User \cup Photo), NEW n \in Nat, NEW x \in Seq(Commands), NEW y \in Seq(Nat),
         NEW b \in BOOLEAN, Fits(l, t, d, x, b), Sets(w, l, t, d, n, x, y, b)
  PROVE  Registers'
<1>1. /\ pc' \in [Worker -> PCs] /\ task' \in [Worker -> Tasks \cup {NoTask}]
      /\ todo' \in [Worker -> Seq(User \cup Photo)] /\ count' \in [Worker -> Nat]
  BY DEF Registers, Sets
<1>2. /\ wire' \in [Worker -> Seq(Commands)] /\ replies' \in [Worker -> Seq(Nat)]
      /\ down' \in [Worker -> BOOLEAN]
  BY DEF Registers, Sets
<1>3. At(w)'
  BY SetsFacts DEF At
<1>4. ASSUME NEW v \in Worker \ {w} PROVE At(v)'
  <2>1. Fits(pc[v], task[v], todo[v], wire[v], down[v])
    BY DEF Registers, At
  <2> QED
    BY <2>1, SetsFacts DEF At
<1> QED
  BY <1>1, <1>2, <1>3, <1>4 DEF Registers

LEMMA TaskKinds ==
  /\ Tasks = AddTasks \cup FollowTasks \cup GreetTasks
  /\ \A t \in AddTasks : t.op = "addPhoto" /\ t.photo \in Photo /\ t = [op |-> "addPhoto", photo |-> t.photo]
  /\ \A t \in FollowTasks : /\ t.op = "iNowFollow" /\ t.user \in User /\ t.who \in User
                            /\ <<t.user, t.who>> \in Follows
                            /\ t = [op |-> "iNowFollow", user |-> t.user, who |-> t.who]
  /\ \A t \in GreetTasks : t.op = "initialPhotos" /\ t.user \in User
  /\ NoTask.op = "none" /\ NoTask \notin Tasks
<1>1. Tasks = AddTasks \cup FollowTasks \cup GreetTasks
  BY DEF Tasks, AddTasks, FollowTasks, GreetTasks
<1>2. \A t \in AddTasks : t.op = "addPhoto" /\ t.photo \in Photo /\ t = [op |-> "addPhoto", photo |-> t.photo]
  BY DEF AddTasks
<1>3. \A t \in FollowTasks : /\ t.op = "iNowFollow" /\ t.user \in User /\ t.who \in User
                             /\ <<t.user, t.who>> \in Follows
                             /\ t = [op |-> "iNowFollow", user |-> t.user, who |-> t.who]
  <2> SUFFICES ASSUME NEW t \in FollowTasks
               PROVE  /\ t.op = "iNowFollow" /\ t.user \in User /\ t.who \in User
                      /\ <<t.user, t.who>> \in Follows
                      /\ t = [op |-> "iNowFollow", user |-> t.user, who |-> t.who]
    OBVIOUS
  <2>1. PICK f \in Follows : t = [op |-> "iNowFollow", user |-> f[1], who |-> f[2]]
    BY DEF FollowTasks
  <2>2. f \in User \X User /\ f = <<f[1], f[2]>>
    BY FollowsAssumption
  <2> QED
    BY <2>1, <2>2
<1>4. \A t \in GreetTasks : t.op = "initialPhotos" /\ t.user \in User
  BY SetsAssumption DEF GreetTasks
<1>5. NoTask.op = "none"
  BY DEF NoTask
<1>6. \A t \in Tasks : t.op # "none"
  BY <1>1, <1>2, <1>3, <1>4
<1> QED
  BY <1>1, <1>2, <1>3, <1>4, <1>5, <1>6

LEMMA AtFacts ==
  ASSUME Registers, NEW w \in Worker
  PROVE  /\ pc[w] \in PCs /\ task[w] \in Tasks \cup {NoTask} /\ todo[w] \in Seq(User \cup Photo)
         /\ count[w] \in Nat /\ wire[w] \in Seq(Commands) /\ replies[w] \in Seq(Nat)
         /\ down[w] \in BOOLEAN /\ Fits(pc[w], task[w], todo[w], wire[w], down[w])
  BY DEF Registers, At

(* What has been left to go through is of the kind it was before.          *)
LEMMA Seqs ==
  /\ \A s \in Seq(User) : s \in Seq(User \cup Photo)
  /\ \A s \in Seq(Photo) : s \in Seq(User \cup Photo)
<1>1. User \subseteq User \cup Photo /\ Photo \subseteq User \cup Photo
  OBVIOUS
<1> QED
  BY <1>1, SeqMonotonic

(* A step of request w alone.                                              *)
Step(w) ==
  \/ Run(w)
  \/ \E t \in queue : Start(w, t)
  \/ DatastoreError(w) \/ Kill(w) \/ Break(w) \/ ClaimError(w)

(* Its registers may only come to fit the place in the code it reaches.    *)
LEMMA StepSets ==
  ASSUME Registers, Shared, Entities, NEW w \in Worker, Step(w)
  PROVE  \E l \in PCs, t \in Tasks \cup {NoTask}, d \in Seq(User \cup Photo), n \in Nat,
            x \in Seq(Commands), y \in Seq(Nat), b \in BOOLEAN :
           Fits(l, t, d, x, b) /\ Sets(w, l, t, d, n, x, y, b)
<1> DEFINE Good(l, t, d, n, x, y, b) ==
             /\ l \in PCs /\ t \in Tasks \cup {NoTask} /\ d \in Seq(User \cup Photo) /\ n \in Nat
             /\ x \in Seq(Commands) /\ y \in Seq(Nat) /\ b \in BOOLEAN
             /\ Fits(l, t, d, x, b) /\ Sets(w, l, t, d, n, x, y, b)
<1> SUFFICES \E l, t, d, n, x, y, b : Good(l, t, d, n, x, y, b)
  BY ZenonT(60)
<1>a. /\ pc[w] \in PCs /\ task[w] \in Tasks \cup {NoTask} /\ todo[w] \in Seq(User \cup Photo)
      /\ count[w] \in Nat /\ wire[w] \in Seq(Commands) /\ replies[w] \in Seq(Nat)
      /\ down[w] \in BOOLEAN /\ Fits(pc[w], task[w], todo[w], wire[w], down[w])
  BY AtFacts
<1>s. /\ pc = [pc EXCEPT ![w] = pc[w]] /\ task = [task EXCEPT ![w] = task[w]]
      /\ todo = [todo EXCEPT ![w] = todo[w]] /\ count = [count EXCEPT ![w] = count[w]]
      /\ wire = [wire EXCEPT ![w] = wire[w]] /\ replies = [replies EXCEPT ![w] = replies[w]]
      /\ down = [down EXCEPT ![w] = down[w]]
  BY DEF Registers
<1>e. /\ <<>> \in Seq(User \cup Photo) /\ <<>> \in Seq(Commands) /\ <<>> \in Seq(Nat)
      /\ <<>> \in Seq(User) /\ <<>> \in Seq(Photo)
  BY EmptyList
<1>p. /\ \A s \in Seq(Commands) : \A k \in 0 .. Len(s) : SubSeq(s, 1, k) \in Seq(Commands)
      /\ \A s \in Seq(Nat) : \A k \in 0 .. Len(s) : SubSeq(s, 1, k) \in Seq(Nat)
      /\ \A k \in 0 .. Len(<<>>) : SubSeq(<<>>, 1, k) = <<>>
  <2>1. /\ \A s \in Seq(Commands) : \A k \in 0 .. Len(s) : SubSeq(s, 1, k) \in Seq(Commands)
        /\ \A s \in Seq(Nat) : \A k \in 0 .. Len(s) : SubSeq(s, 1, k) \in Seq(Nat)
    BY PrefixFacts
  <2>2. Len(<<>>) = 0 /\ SubSeq(<<>>, 1, 0) = <<>>
    BY SubSeqEmpty
  <2> QED
    BY <2>1, <2>2
<1>l. ASSUME NEW x \in Seq(Commands), Leave(w), wire' = [wire EXCEPT ![w] = x]
      PROVE  Good("idle", NoTask, <<>>, 0, x, <<>>, FALSE)
  BY <1>e, <1>l DEF Leave, Goto, Sets, Fits, PCs
<1>1. CASE Finish(w) \/ DatastoreError(w)
  BY <1>1, <1>a, <1>l, <1>s DEF Finish, DatastoreError
<1>2. CASE Kill(w)
  <2>1. PICK k \in 0 .. Len(wire[w]) : wire' = [wire EXCEPT ![w] = SubSeq(@, 1, k)]
    BY <1>2 DEF Kill, Cut
  <2> QED
    BY <1>2, <1>a, <1>l, <1>p, <2>1 DEF Kill
<1>3. CASE Break(w)
  <2>1. PICK k \in 0 .. Len(wire[w]), j \in 0 .. Len(replies[w]) :
          /\ wire' = [wire EXCEPT ![w] = SubSeq(@, 1, k)]
          /\ replies' = [replies EXCEPT ![w] = SubSeq(@, 1, j)]
    BY <1>3 DEF Break, Cut
  <2>2. Sets(w, pc[w], task[w], todo[w], count[w], SubSeq(wire[w], 1, k), SubSeq(replies[w], 1, j), TRUE)
    BY <1>3, <1>s, <2>1 DEF Break, Sets
  <2>3. wire[w] = <<>> => SubSeq(wire[w], 1, k) = <<>>
    BY <1>p
  <2>4. Fits(pc[w], task[w], todo[w], SubSeq(wire[w], 1, k), TRUE)
    BY <1>3, <1>a, <2>3 DEF Break, Fits
  <2> QED
    BY <1>a, <1>p, <2>2, <2>4
<1>4. CASE ClaimError(w) \/ Claim(w)
  <2>1. PICK l \in {"done", "send"} : Sets(w, l, task[w], todo[w], count[w], wire[w], replies[w], down[w])
    BY <1>4, <1>s DEF ClaimError, Claim, Goto, Sets, net
  <2>2. Fits(l, task[w], todo[w], wire[w], down[w])
    BY <1>4, <1>a, TaskKinds DEF ClaimError, Claim, Fits
  <2>3. l \in PCs
    BY DEF PCs
  <2> QED
    BY <1>a, <2>1, <2>2, <2>3
<1>5. CASE \E t \in queue : Start(w, t)
  <2>1. PICK t \in queue : Start(w, t)
    BY <1>5
  <2>2. t \in Tasks
    BY DEF Shared
  <2>3. PICK l \in {"find", "query", "greet"} :
          /\ l = "find" => t \in AddTasks
          /\ l = "query" => t \in FollowTasks
          /\ l = "greet" => t \in GreetTasks
          /\ Sets(w, l, t, todo[w], count[w], wire[w], replies[w], down[w])
    <3>1. (t.op = "addPhoto" /\ t \in AddTasks) \/ (t.op = "iNowFollow" /\ t \in FollowTasks)
          \/ (t.op = "initialPhotos" /\ t \in GreetTasks)
      BY <2>2, TaskKinds
    <3> QED
      BY <1>s, <2>1, <3>1 DEF Start, Goto, Sets, net
  <2>4. Fits(l, t, todo[w], wire[w], down[w])
    BY <1>a, <2>1, <2>3 DEF Start, Fits
  <2>5. l \in PCs
    BY DEF PCs
  <2> QED
    BY <1>a, <2>2, <2>3, <2>4, <2>5
<1>6. CASE FindUser(w)
  <2> DEFINE p == task[w].photo
             d == Recipients(p)
  <2>1. pc[w] = "find" /\ p \in Photo /\ Owner[p] \in User /\ task[w] \in AddTasks
    BY <1>6, <1>a, TaskKinds, OwnerAssumption DEF FindUser, Fits
  <2>2. followsMe[Owner[p]] \in Seq(User)
    BY <2>1 DEF Shared
  <2>3. d = Append(followsMe[Owner[p]], Owner[p])
    BY DEF Recipients
  <2> HIDE DEF p
  <2>4. d \in Seq(User)
    BY <2>1, <2>2, <2>3, AppendFacts
  <2>5. todo' = [todo EXCEPT ![w] = d] /\ pc' = [pc EXCEPT ![w] = "put"]
        /\ UNCHANGED <<task, count, wire, replies, down>>
    BY <1>6 DEF FindUser, Goto, net, p
  <2> HIDE DEF d
  <2>6. Sets(w, "put", task[w], d, count[w], wire[w], replies[w], down[w])
    BY <1>s, <2>5 DEF Sets
  <2>7. Fits("put", task[w], d, wire[w], down[w])
    BY <1>a, <2>1, <2>4 DEF Fits
  <2> QED
    BY <1>a, <2>4, <2>6, <2>7, Seqs DEF PCs
<1>7. CASE PutPhoto(w)
  <2>1. Sets(w, "claim", task[w], todo[w], count[w], wire[w], replies[w], down[w])
    BY <1>7, <1>s DEF PutPhoto, Goto, Sets, net
  <2>2. Fits("claim", task[w], todo[w], wire[w], down[w])
    BY <1>7, <1>a DEF PutPhoto, Fits
  <2> QED
    BY <1>a, <2>1, <2>2 DEF PCs
<1>8. CASE SendAll(w)
  <2> DEFINE p == task[w].photo
             x == [i \in DOMAIN todo[w] |-> Push(todo[w][i], p)]
  <2>1. pc[w] = "send" /\ p \in Photo /\ task[w] \in AddTasks /\ todo[w] \in Seq(User)
    BY <1>8, <1>a, TaskKinds DEF SendAll, Fits
  <2>2. x \in Seq(Commands)
    <3>1. DOMAIN todo[w] = 1 .. Len(todo[w]) /\ Len(todo[w]) \in Nat
      BY <2>1, LenProperties
    <3>2. \A i \in 1 .. Len(todo[w]) : Push(todo[w][i], p) \in Commands
      BY <2>1, ElementOfSeq DEF Push, Commands
    <3> QED
      BY <3>1, <3>2, IsASeq
  <2>3. Sets(w, "recv", task[w], todo[w], count[w], x, replies[w], down[w])
    BY <1>8, <1>s DEF SendAll, Goto, Sets
  <2> HIDE DEF x
  <2>4. Fits("recv", task[w], todo[w], x, down[w])
    BY <2>1 DEF Fits
  <2> QED
    BY <1>a, <2>2, <2>3, <2>4 DEF PCs
<1>9. CASE Serve(w)
  <2>1. wire[w] # <<>> /\ Head(wire[w]) \in Commands /\ Tail(wire[w]) \in Seq(Commands)
    BY <1>9, <1>a, TailFacts DEF Serve
  <2> DEFINE c == Head(wire[w])
             answer == IF c.op = "LPUSH" THEN Len(<<c.photo>> \o tl[c.user]) ELSE 0
  <2>2. answer \in Nat
    <3>1. CASE c.op = "LPUSH"
      <4>1. c.photo \in Photo \cup {Old, Welcome} /\ c.user \in User
        BY <2>1, <3>1 DEF Commands
      <4>2. tl[c.user] \in Seq(Photo \cup {Old, Welcome})
        BY <4>1 DEF Shared
      <4>3. <<c.photo>> \o tl[c.user] \in Seq(Photo \cup {Old, Welcome})
        BY <4>1, <4>2, FrontFacts
      <4> QED
        BY <3>1, <4>3, LenProperties
    <3> QED
      BY <3>1
  <2>3. PICK y \in {replies[w], Append(replies[w], answer)} :
          Sets(w, pc[w], task[w], todo[w], count[w], Tail(wire[w]), y, down[w])
    BY <1>9, <1>s DEF Serve, Sets
  <2> HIDE DEF answer, c
  <2>4. y \in Seq(Nat)
    <3>1. replies[w] \in Seq(Nat)
      BY <1>a
    <3>2. Append(replies[w], answer) \in Seq(Nat)
      BY <2>2, <3>1, AppendProperties
    <3> QED
      BY <3>1, <3>2
  <2>5. Fits(pc[w], task[w], todo[w], Tail(wire[w]), down[w])
    BY <1>a, <2>1 DEF Fits
  <2> QED
    BY <1>a, <2>1, <2>3, <2>4, <2>5
<1>10. CASE Receive(w)
  <2>1. /\ pc[w] = "recv" /\ todo[w] # <<>> /\ replies[w] # <<>>
        /\ todo[w] \in Seq(User) /\ task[w] \in AddTasks
    BY <1>10, <1>a DEF Receive, Fits
  <2>2. Head(todo[w]) \in User /\ Tail(todo[w]) \in Seq(User) /\ Tail(replies[w]) \in Seq(Nat)
    BY <1>a, <2>1, HeadTailProperties
  <2>3. PICK l \in {"recv", "pop"}, x \in {wire[w], Append(wire[w], Pop(Head(todo[w])))} :
          Sets(w, l, task[w], Tail(todo[w]), count[w], x, Tail(replies[w]), down[w])
    BY <1>10, <1>s DEF Receive, Goto, Sets
  <2>4. Pop(Head(todo[w])) \in Commands
    BY <2>2 DEF Pop, Commands
  <2>5. x \in Seq(Commands)
    <3>1. wire[w] \in Seq(Commands)
      BY <1>a
    <3>2. Append(wire[w], Pop(Head(todo[w]))) \in Seq(Commands)
      BY <2>4, <3>1, AppendProperties
    <3> QED
      BY <3>1, <3>2
  <2>6. Fits(l, task[w], Tail(todo[w]), x, down[w])
    BY <2>1, <2>2 DEF Fits
  <2>7. l \in PCs
    BY DEF PCs
  <2> QED
    BY <1>a, <2>2, <2>3, <2>5, <2>6, <2>7, Seqs
<1>11. CASE ReceiveError(w)
  <2>1. pc[w] = "recv" /\ todo[w] # <<>> /\ todo[w] \in Seq(User) /\ task[w] \in AddTasks
    BY <1>11, <1>a DEF ReceiveError, Fits
  <2>2. Tail(todo[w]) \in Seq(User)
    BY <2>1, HeadTailProperties
  <2>3. Sets(w, pc[w], task[w], Tail(todo[w]), count[w], wire[w], replies[w], down[w])
    BY <1>11, <1>s DEF ReceiveError, Sets, net
  <2>4. Fits(pc[w], task[w], Tail(todo[w]), wire[w], down[w])
    BY <2>1, <2>2 DEF Fits
  <2> QED
    BY <1>a, <2>2, <2>3, <2>4, Seqs
<1>12. CASE DoPop(w)
  <2>1. Sets(w, "recv", task[w], todo[w], count[w], wire[w], <<>>, down[w])
    BY <1>12, <1>s DEF DoPop, Goto, Sets
  <2>2. Fits("recv", task[w], todo[w], wire[w], down[w])
    BY <1>12, <1>a DEF DoPop, Fits
  <2> QED
    BY <1>a, <1>e, <2>1, <2>2 DEF PCs
<1>13. CASE Deadline(w)
  <2>1. Sets(w, pc[w], task[w], todo[w], count[w], wire[w], replies[w], TRUE)
    BY <1>13, <1>s DEF Deadline, Sets
  <2>2. Fits(pc[w], task[w], todo[w], wire[w], TRUE)
    BY <1>13, <1>a DEF Deadline, Starved, Fits
  <2> QED
    BY <1>a, <2>1, <2>2
<1>14. CASE AddDone(w) \/ FollowDone(w) \/ Greet(w)
  <2>1. Sets(w, "done", task[w], todo[w], count[w], wire[w], replies[w], down[w])
    BY <1>14, <1>s DEF AddDone, FollowDone, Greet, Goto, Sets, net
  <2>2. Fits("done", task[w], todo[w], wire[w], down[w])
    BY <1>14, <1>a, TaskKinds DEF AddDone, FollowDone, Greet, Fits
  <2> QED
    BY <1>a, <2>1, <2>2 DEF PCs
<1>15. CASE Query(w)
  <2>1. pc[w] = "query" /\ task[w] \in FollowTasks /\ task[w].who \in User
    BY <1>15, <1>a, TaskKinds DEF Query, Fits
  <2> DEFINE d == Newest(photos[task[w].who])
  <2>2. d \in Seq(Photo)
    BY <2>1, NewestFacts DEF Shared
  <2>3. todo' = [todo EXCEPT ![w] = d] /\ pc' = [pc EXCEPT ![w] = "push"]
        /\ UNCHANGED <<task, count, wire, replies, down>>
    BY <1>15 DEF Query, Goto, net
  <2> HIDE DEF d
  <2>4. Sets(w, "push", task[w], d, count[w], wire[w], replies[w], down[w])
    BY <1>s, <2>3 DEF Sets
  <2>5. Fits("push", task[w], d, wire[w], down[w])
    BY <1>a, <2>1, <2>2 DEF Fits
  <2> QED
    BY <1>a, <2>2, <2>4, <2>5, Seqs DEF PCs
<1>16. CASE PushOne(w)
  <2>1. /\ pc[w] = "push" /\ todo[w] # <<>> /\ todo[w] \in Seq(Photo)
        /\ task[w] \in FollowTasks /\ task[w].user \in User
    BY <1>16, <1>a, TaskKinds DEF PushOne, Fits
  <2>2. Head(todo[w]) \in Photo /\ Tail(todo[w]) \in Seq(Photo)
    BY <2>1, HeadTailProperties
  <2> DEFINE n == Len(<<Head(todo[w])>> \o tl[task[w].user])
  <2>3. n \in Nat
    <3>1. Head(todo[w]) \in Photo \cup {Old, Welcome}
          /\ tl[task[w].user] \in Seq(Photo \cup {Old, Welcome})
      BY <2>1, <2>2 DEF Shared
    <3>2. <<Head(todo[w])>> \o tl[task[w].user] \in Seq(Photo \cup {Old, Welcome})
      BY <3>1, FrontFacts
    <3> QED
      BY <3>2, LenProperties
  <2>4. Sets(w, pc[w], task[w], Tail(todo[w]), n, wire[w], replies[w], down[w])
    BY <1>16, <1>s DEF PushOne, Sets, net
  <2> HIDE DEF n
  <2>5. Fits(pc[w], task[w], Tail(todo[w]), wire[w], down[w])
    BY <1>a, <2>1, <2>2 DEF Fits
  <2> QED
    BY <1>a, <2>2, <2>3, <2>4, <2>5, Seqs
<1>17. CASE PushesDone(w)
  <2>1. Excess(count[w]) \in Nat
    BY <1>a, BoundsAssumption DEF Excess, TooLong
  <2>2. Sets(w, "trim", task[w], todo[w], Excess(count[w]), wire[w], replies[w], down[w])
    BY <1>17, <1>s DEF PushesDone, Goto, Sets, net
  <2>3. Fits("trim", task[w], todo[w], wire[w], down[w])
    BY <1>17, <1>a DEF PushesDone, Fits
  <2> QED
    BY <1>a, <2>1, <2>2, <2>3 DEF PCs
<1>18. CASE TrimOne(w)
  <2>1. count[w] - 1 \in Nat
    BY <1>18, <1>a DEF TrimOne
  <2>2. Sets(w, pc[w], task[w], todo[w], count[w] - 1, wire[w], replies[w], down[w])
    BY <1>18, <1>s DEF TrimOne, Sets, net
  <2> QED
    BY <1>a, <2>1, <2>2
<1> QED
  BY <1>1, <1>2, <1>3, <1>4, <1>5, <1>6, <1>7, <1>8, <1>9, <1>10, <1>11, <1>12, <1>13, <1>14,
     <1>15, <1>16, <1>17, <1>18 DEF Step, Run
(* Hence the requests that do not step keep theirs, and all keep the types. *)
LEMMA RegistersStep ==
  ASSUME Registers, Shared, Entities, NEW w \in Worker, Step(w)
  PROVE  /\ Registers'
         /\ \A v \in Worker \ {w} : /\ pc'[v] = pc[v] /\ task'[v] = task[v] /\ todo'[v] = todo[v]
                                    /\ wire'[v] = wire[v] /\ down'[v] = down[v]
                                    /\ count'[v] = count[v] /\ replies'[v] = replies[v]
<1>1. PICK l \in PCs, t \in Tasks \cup {NoTask}, d \in Seq(User \cup Photo), n \in Nat,
           x \in Seq(Commands), y \in Seq(Nat), b \in BOOLEAN :
        Fits(l, t, d, x, b) /\ Sets(w, l, t, d, n, x, y, b)
  BY StepSets
<1>2. Registers'
  BY <1>1, SetsTyped
<1> QED
  BY <1>1, <1>2, SetsFacts

(* A fault on the connection cuts off commands, and counts as lost every    *)
(* push it keeps from happening.                                           *)
LEMMA CutFacts ==
  ASSUME Registers, Shared, NEW w \in Worker, NEW k \in 0 .. Len(wire[w]), Cut(w, k)
  PROVE  /\ lost \subseteq lost' /\ lost' \subseteq Photo \X User
         /\ pc[w] = "send" => \A u \in Range(todo[w]) : <<task[w].photo, u>> \in lost'
         /\ pc[w] = "push" => \A p \in Range(todo[w]) : <<p, task[w].user>> \in lost'
         /\ \A i \in DOMAIN wire'[w] : i \in DOMAIN wire[w] /\ wire'[w][i] = wire[w][i]
         /\ \A i \in DOMAIN wire[w], u \in User, p \in Photo :
              wire[w][i] = Push(u, p) =>
                \/ i \in DOMAIN wire'[w] /\ wire'[w][i] = Push(u, p)
                \/ <<p, u>> \in lost'
<1> DEFINE x == SubSeq(wire[w], 1, k)
           gone == SubSeq(wire[w], k + 1, Len(wire[w]))
           cut == {<<c.photo, c.user>> : c \in {d \in Range(gone) : d.op = "LPUSH"}}
<1>1. wire[w] \in Seq(Commands) /\ Fits(pc[w], task[w], todo[w], wire[w], down[w])
  BY AtFacts
<1>2. wire'[w] = x
  BY DEF Cut, Registers
<1>3. /\ \A i \in DOMAIN x : i \in DOMAIN wire[w] /\ x[i] = wire[w][i]
      /\ \A i \in DOMAIN wire[w] : (i \in DOMAIN x /\ x[i] = wire[w][i]) \/ wire[w][i] \in Range(gone)
      /\ Range(gone) \subseteq Range(wire[w])
  BY <1>1, PrefixFacts
<1>4. Range(gone) \subseteq Commands
  BY <1>1, <1>3, RangeOf
<1>5. /\ pc[w] = "send" => lost' = lost \cup {<<task[w].photo, u>> : u \in Range(todo[w])}
      /\ pc[w] = "push" => lost' = lost \cup {<<p, task[w].user>> : p \in Range(todo[w])}
      /\ pc[w] \notin {"send", "push"} => lost' = lost \cup cut
  BY DEF Cut
<1> HIDE DEF x, gone
<1>6. cut \subseteq Photo \X User
  BY <1>4 DEF Commands
<1>7. lost \subseteq Photo \X User
  BY DEF Shared
<1>8. CASE pc[w] = "send"
  <2>1. task[w].photo \in Photo /\ todo[w] \in Seq(User) /\ wire[w] = <<>>
    BY <1>1, <1>8, TaskKinds DEF Fits
  <2>2. Range(todo[w]) \subseteq User
    BY <2>1, RangeOf
  <2>3. DOMAIN wire[w] = {}
    BY <2>1
  <2> QED
    BY <1>2, <1>3, <1>5, <1>7, <1>8, <2>1, <2>2, <2>3
<1>9. CASE pc[w] = "push"
  <2>1. task[w].user \in User /\ todo[w] \in Seq(Photo) /\ wire[w] = <<>>
    BY <1>1, <1>9, TaskKinds DEF Fits
  <2>2. Range(todo[w]) \subseteq Photo
    BY <2>1, RangeOf
  <2>3. DOMAIN wire[w] = {}
    BY <2>1
  <2> QED
    BY <1>2, <1>3, <1>5, <1>7, <1>9, <2>1, <2>2, <2>3
<1>10. CASE pc[w] \notin {"send", "push"}
  <2> HIDE DEF cut
  <2>1. lost' = lost \cup cut
    BY <1>5, <1>10
  <2>2. ASSUME NEW i \in DOMAIN wire[w], NEW u \in User, NEW p \in Photo, wire[w][i] = Push(u, p)
        PROVE  (i \in DOMAIN wire'[w] /\ wire'[w][i] = Push(u, p)) \/ <<p, u>> \in lost'
    <3>1. CASE i \in DOMAIN x /\ x[i] = wire[w][i]
      BY <1>2, <2>2, <3>1
    <3>2. CASE wire[w][i] \in Range(gone)
      <4>1. Push(u, p) \in Range(gone) /\ Push(u, p).op = "LPUSH"
            /\ Push(u, p).photo = p /\ Push(u, p).user = u
        BY <2>2, <3>2 DEF Push
      <4>2. <<p, u>> \in cut
        BY <4>1 DEF cut
      <4> QED
        BY <2>1, <4>2
    <3> QED
      BY <1>3, <3>1, <3>2
  <2> QED
    BY <1>2, <1>3, <1>6, <1>7, <1>10, <2>1, <2>2
<1> QED
  BY <1>8, <1>9, <1>10
------------------------------------------------------------------------------
(* Types                                                                    *)

(* The longest a list has been only grows.                                 *)
LEMMA LengthenFacts ==
  ASSUME longest \in [User -> Nat], NEW S, NEW u \in User, NEW list \in Seq(S), Lengthen(u, list)
  PROVE  /\ longest' \in [User -> Nat]
         /\ longest'[u] >= Len(list)
         /\ \A x \in User : longest'[x] >= longest[x]
<1> DEFINE n == IF Len(list) > longest[u] THEN Len(list) ELSE longest[u]
<1>1. Len(list) \in Nat /\ \A x \in User : longest[x] \in Nat
  BY LenProperties
<1>2. n \in Nat /\ n >= Len(list) /\ n >= longest[u]
  BY <1>1
<1>3. longest' = [longest EXCEPT ![u] = n]
  BY DEF Lengthen
<1> HIDE DEF n
<1> QED
  BY <1>1, <1>2, <1>3

LEMMA StoringType == ASSUME Registers, NEW u, NEW a PROVE Storing(u, a) \subseteq Photo
<1>1. ASSUME NEW v \in Worker, pc[v] = "put" PROVE task[v].photo \in Photo
  BY <1>1, AtFacts, TaskKinds DEF Fits
<1> QED
  BY <1>1 DEF Storing

LEMMA SharedStep ==
  ASSUME Registers, Shared, Entities, NEW w \in Worker, Step(w)
  PROVE  Shared'
<1> USE DEF data, net, history
<1>a. /\ pc[w] \in PCs /\ task[w] \in Tasks \cup {NoTask} /\ todo[w] \in Seq(User \cup Photo)
      /\ wire[w] \in Seq(Commands) /\ Fits(pc[w], task[w], todo[w], wire[w], down[w])
  BY AtFacts
<1>f. ASSUME Fault PROVE faults' \in 0 .. MaxFaults
  BY <1>f, BoundsAssumption DEF Fault, Shared
<1>1. CASE \/ Finish(w) \/ FindUser(w) \/ SendAll(w) \/ Receive(w) \/ ReceiveError(w) \/ DoPop(w)
           \/ Deadline(w) \/ AddDone(w) \/ PushesDone(w) \/ FollowDone(w)
           \/ \E t \in queue : Start(w, t)
  BY <1>1 DEF Finish, FindUser, SendAll, Receive, ReceiveError, DoPop, Deadline, AddDone, PushesDone,
              FollowDone, Start, Shared
<1>2. CASE DatastoreError(w)
  BY <1>2, <1>f DEF DatastoreError, AfterError, Shared
<1>3. CASE Kill(w) \/ Break(w)
  <2>1. PICK k \in 0 .. Len(wire[w]) : Cut(w, k)
    BY <1>3 DEF Kill, Break
  <2>2. lost' \subseteq Photo \X User
    BY <2>1, CutFacts
  <2> QED
    BY <1>3, <1>f, <2>2 DEF Kill, Break, Shared
<1>4. CASE Claim(w) \/ ClaimError(w)
  <2>1. task[w].photo \in Photo /\ todo[w] \in Seq(User)
    BY <1>4, <1>a, TaskKinds DEF Claim, ClaimError, Fits
  <2>2. Range(todo[w]) \subseteq User
    BY <2>1, RangeOf
  <2>3. image' \subseteq Photo
    BY <1>4, <2>1 DEF Claim, ClaimError, Shared
  <2>4. lost' \subseteq Photo \X User
    BY <1>4, <2>1, <2>2 DEF Claim, ClaimError, Shared
  <2>5. faults' \in 0 .. MaxFaults
    BY <1>4, <1>f DEF Claim, ClaimError, Shared
  <2> QED
    BY <1>4, <2>3, <2>4, <2>5 DEF Claim, ClaimError, Shared
<1>5. CASE PutPhoto(w)
  <2> DEFINE p == task[w].photo
  <2>1. p \in Photo /\ Owner[p] \in User
    BY <1>5, <1>a, TaskKinds, OwnerAssumption DEF PutPhoto, Fits
  <2>2. photos[Owner[p]] \in Seq(Photo)
    BY <2>1 DEF Shared
  <2>3. Others(photos[Owner[p]], p) \in Seq(Photo)
    BY <2>1, <2>2, OthersFacts
  <2>4. <<p>> \o Others(photos[Owner[p]], p) \in Seq(Photo)
    BY <2>1, <2>3, FrontFacts
  <2>5. photos' = [photos EXCEPT ![Owner[p]] = <<p>> \o Others(@, p)]
    BY <1>5 DEF PutPhoto
  <2> HIDE DEF p
  <2>6. photos' \in [User -> Seq(Photo)]
    BY <2>1, <2>4, <2>5 DEF Shared
  <2> QED
    BY <1>5, <2>6 DEF PutPhoto, Shared
<1>6. CASE Query(w)
  <2> DEFINE t == task[w]
             older == {photos[t.who][i] : i \in (Recent + 1) .. Len(photos[t.who])}
  <2>1. t.user \in User /\ t.who \in User
    BY <1>6, <1>a, TaskKinds DEF Query, Fits
  <2>2. Storing(t.who, t.user) \subseteq Photo
    BY StoringType
  <2>3. older \subseteq Photo
    <3>1. photos[t.who] \in Seq(Photo)
      BY <2>1 DEF Shared
    <3>2. Len(photos[t.who]) \in Nat /\ Recent \in Nat
      BY <3>1, LenProperties, BoundsAssumption
    <3>3. \A i \in (Recent + 1) .. Len(photos[t.who]) : i \in 1 .. Len(photos[t.who])
      BY <3>2
    <3> QED
      BY <3>1, <3>3, ElementOfSeq
  <2>4. passed' = passed \cup {<<p, t.user>> : p \in Storing(t.who, t.user) \cup older}
    BY <1>6 DEF Query
  <2> HIDE DEF older
  <2>5. passed' \subseteq Photo \X User
    BY <2>1, <2>2, <2>3, <2>4 DEF Shared
  <2> QED
    BY <1>6, <2>5 DEF Query, Shared
<1>7. CASE Serve(w)
  <2> DEFINE c == Head(wire[w])
             u == c.user
             list == IF c.op = "LPUSH" THEN <<c.photo>> \o tl[u] ELSE ButLast(tl[u])
  <2>1. c \in Commands
    BY <1>7, <1>a, TailFacts DEF Serve
  <2>2. u \in User /\ (c.op = "LPUSH" => c.photo \in Photo)
    BY <2>1 DEF Commands
  <2>3. list \in Seq(Photo \cup {Old, Welcome})
    <3>1. tl[u] \in Seq(Photo \cup {Old, Welcome})
      BY <2>2 DEF Shared
    <3>2. c.op = "LPUSH" => <<c.photo>> \o tl[u] \in Seq(Photo \cup {Old, Welcome})
      BY <2>2, <3>1, FrontFacts
    <3>3. ButLast(tl[u]) \in Seq(Photo \cup {Old, Welcome})
      BY <3>1, ButLastFacts
    <3> QED
      BY <3>2, <3>3
  <2>4. /\ tl' = [tl EXCEPT ![u] = list]
        /\ IF c.op = "LPUSH"
           THEN /\ pushed' = [pushed EXCEPT ![<<c.photo, u>>] = @ + 1]
                /\ reached' = reached \cup {<<c.photo, u>>}
                /\ Lengthen(u, list)
           ELSE UNCHANGED <<pushed, reached, longest>>
        /\ UNCHANGED <<data, queue, faults, lost, passed>>
    BY <1>7 DEF Serve
  <2> HIDE DEF list, c
  <2>7. longest' \in [User -> Nat]
    <3>1. longest \in [User -> Nat]
      BY DEF Shared
    <3> QED
      BY <2>2, <2>3, <2>4, <3>1, LengthenFacts
  <2>5. tl' \in [User -> Seq(Photo \cup {Old, Welcome})]
    BY <2>2, <2>3, <2>4 DEF Shared
  <2>6. pushed' \in [Photo \X User -> Nat] /\ reached' \subseteq Photo \X User
    <3>1. pushed \in [Photo \X User -> Nat] /\ reached \subseteq Photo \X User
      BY DEF Shared
    <3>2. CASE c.op = "LPUSH"
      <4>1. <<c.photo, u>> \in Photo \X User
        BY <2>2, <3>2
      <4>2. pushed' = [pushed EXCEPT ![<<c.photo, u>>] = @ + 1] /\ reached' = reached \cup {<<c.photo, u>>}
        BY <2>4, <3>2
      <4>3. \A pu \in Photo \X User : pushed[pu] + 1 \in Nat
        BY <3>1
      <4> QED
        BY <3>1, <4>1, <4>2, <4>3
    <3>3. CASE c.op # "LPUSH"
      BY <2>4, <3>1, <3>3
    <3> QED
      BY <3>2, <3>3
  <2> QED
    BY <2>4, <2>5, <2>6, <2>7 DEF Shared
<1>8. CASE PushOne(w)
  <2> DEFINE u == task[w].user
             list == <<Head(todo[w])>> \o tl[u]
  <2>1. u \in User /\ todo[w] \in Seq(Photo) /\ todo[w] # <<>>
    BY <1>8, <1>a, TaskKinds DEF PushOne, Fits
  <2>2. Head(todo[w]) \in Photo
    BY <2>1, TailFacts
  <2>3. list \in Seq(Photo \cup {Old, Welcome})
    BY <2>1, <2>2, FrontFacts DEF Shared
  <2>4. tl' = [tl EXCEPT ![u] = list] /\ reached' = reached \cup {<<Head(todo[w]), u>>}
        /\ Lengthen(u, list)
        /\ UNCHANGED <<data, queue, faults, pushed, lost, passed>>
    BY <1>8 DEF PushOne
  <2> HIDE DEF list
  <2>5. longest' \in [User -> Nat]
    BY <2>1, <2>3, <2>4, LengthenFacts DEF Shared
  <2> QED
    BY <2>1, <2>2, <2>3, <2>4, <2>5 DEF Shared
<1>9. CASE TrimOne(w) \/ Greet(w)
  <2> DEFINE u == task[w].user
  <2>1. u \in User
    BY <1>9, <1>a, TaskKinds DEF TrimOne, Greet, Fits
  <2>2. tl[u] \in Seq(Photo \cup {Old, Welcome})
    BY <2>1 DEF Shared
  <2>3. ButLast(tl[u]) \in Seq(Photo \cup {Old, Welcome})
        /\ <<Welcome>> \o tl[u] \in Seq(Photo \cup {Old, Welcome})
    BY <2>2, ButLastFacts, FrontFacts
  <2>4. PICK list \in {ButLast(tl[u]), <<Welcome>> \o tl[u]} :
          /\ tl' = [tl EXCEPT ![u] = list]
          /\ Lengthen(u, list) \/ UNCHANGED longest
          /\ UNCHANGED <<data, queue, faults, pushed, reached, lost, passed>>
    BY <1>9 DEF TrimOne, Greet
  <2>5. longest' \in [User -> Nat]
    BY <2>1, <2>3, <2>4, LengthenFacts DEF Shared
  <2> QED
    BY <2>1, <2>3, <2>4, <2>5 DEF Shared
<1> QED
  BY <1>1, <1>2, <1>3, <1>4, <1>5, <1>6, <1>7, <1>8, <1>9 DEF Step, Run
------------------------------------------------------------------------------
(* What a step of a request leaves alone                                    *)

LEMMA StepFacts ==
  ASSUME Registers, Shared, Entities, NEW w \in Worker, Step(w)
  PROVE  /\ followsMe' = followsMe /\ following' = following
         /\ \/ queue' = queue
            \/ pc[w] = "done" /\ queue' = queue \ {task[w]} /\ task'[w] = NoTask
         /\ \/ task'[w] = task[w]
            \/ task'[w] = NoTask
            \/ task'[w] \in queue /\ queue' = queue /\ pc'[w] \in {"find", "query", "greet"}
               /\ (task'[w].op = "addPhoto" => pc'[w] = "find")
               /\ (task'[w].op = "iNowFollow" => pc'[w] = "query")
         /\ image \subseteq image' /\ reached \subseteq reached' /\ lost \subseteq lost'
         /\ passed \subseteq passed'
<1> USE DEF data, net, history
<1>a. Fits(pc[w], task[w], todo[w], wire[w], down[w])
  BY AtFacts
<1>l. ASSUME Leave(w) PROVE task'[w] = NoTask
  BY <1>l DEF Leave, Registers
<1>1. CASE Finish(w) \/ DatastoreError(w)
  BY <1>1, <1>l DEF Finish, DatastoreError, AfterError
<1>2. CASE Kill(w)
  <2>1. lost \subseteq lost'
    BY <1>2, CutFacts DEF Kill
  <2> QED
    BY <1>2, <1>l, <2>1 DEF Kill
<1>3. CASE Break(w)
  <2>1. lost \subseteq lost'
    BY <1>3, CutFacts DEF Break
  <2> QED
    BY <1>3, <2>1 DEF Break
<1>4. CASE \E t \in queue : Start(w, t)
  <2>1. PICK t \in queue : Start(w, t)
    BY <1>4
  <2>2. t \in Tasks
    BY DEF Shared
  <2>3. \/ t.op = "addPhoto" /\ pc'[w] = "find" /\ task'[w] = t
        \/ t.op = "iNowFollow" /\ pc'[w] = "query" /\ task'[w] = t
        \/ t.op = "initialPhotos" /\ pc'[w] = "greet" /\ task'[w] = t
    BY <2>1, <2>2, TaskKinds DEF Start, Goto, Registers
  <2> QED
    BY <2>1, <2>3 DEF Start
<1>5. CASE \/ FindUser(w) \/ PutPhoto(w) \/ Claim(w) \/ SendAll(w) \/ Receive(w) \/ ReceiveError(w)
           \/ DoPop(w) \/ Deadline(w) \/ AddDone(w) \/ Query(w) \/ PushOne(w) \/ PushesDone(w)
           \/ TrimOne(w) \/ FollowDone(w) \/ Greet(w) \/ ClaimError(w)
  BY <1>5 DEF FindUser, PutPhoto, Claim, SendAll, Receive, ReceiveError, DoPop, Deadline, AddDone,
              Query, PushOne, PushesDone, TrimOne, FollowDone, Greet, ClaimError
<1>6. CASE Serve(w)
  BY <1>6 DEF Serve
<1> QED
  BY <1>1, <1>2, <1>3, <1>4, <1>5, <1>6 DEF Step, Run

(* PutPhoto stores its photo with its owner, and drops no other.            *)
LEMMA PutFacts ==
  ASSUME Registers, Shared, NEW w \in Worker, PutPhoto(w)
  PROVE  /\ task[w].photo \in Photo /\ Owner[task[w].photo] \in User
         /\ Range(photos'[Owner[task[w].photo]]) = {task[w].photo} \cup Range(photos[Owner[task[w].photo]])
         /\ \A u \in User : u # Owner[task[w].photo] => photos'[u] = photos[u]
<1> DEFINE p == task[w].photo
<1>a. Fits(pc[w], task[w], todo[w], wire[w], down[w])
  BY AtFacts
<1>1. p \in Photo /\ Owner[p] \in User
  BY <1>a, TaskKinds, OwnerAssumption DEF PutPhoto, Fits
<1> DEFINE s == photos[Owner[p]]
<1>2. s \in Seq(Photo)
  BY <1>1 DEF Shared
<1>3. photos' = [photos EXCEPT ![Owner[p]] = <<p>> \o Others(@, p)]
  BY DEF PutPhoto
<1> HIDE DEF p
<1>4. photos'[Owner[p]] = <<p>> \o Others(s, p) /\ \A u \in User : u # Owner[p] => photos'[u] = photos[u]
  BY <1>1, <1>3 DEF Shared
<1> HIDE DEF s
<1>5. /\ Others(s, p) \in Seq(Photo)
      /\ Range(s) \subseteq Range(Others(s, p)) \cup {p}
      /\ Range(Others(s, p)) \subseteq Range(s)
  BY <1>1, <1>2, OthersFacts
<1>6. Range(<<p>> \o Others(s, p)) = {p} \cup Range(Others(s, p))
  BY <1>1, <1>5, FrontFacts
<1> QED
  BY <1>1, <1>4, <1>5, <1>6 DEF p, s

LEMMA PhotosKept ==
  ASSUME Registers, Shared, NEW w \in Worker, Step(w), ~PutPhoto(w)
  PROVE  photos' = photos
<1> USE DEF data, net, history
<1>1. CASE \/ Finish(w) \/ DatastoreError(w) \/ Kill(w) \/ Break(w) \/ ClaimError(w)
           \/ \E t \in queue : Start(w, t)
  BY <1>1 DEF Finish, DatastoreError, Kill, Break, ClaimError, Start
<1>2. CASE \/ FindUser(w) \/ Claim(w) \/ SendAll(w) \/ Receive(w) \/ ReceiveError(w)
           \/ DoPop(w) \/ Deadline(w) \/ AddDone(w) \/ Query(w) \/ PushOne(w) \/ PushesDone(w)
           \/ TrimOne(w) \/ FollowDone(w) \/ Greet(w)
  BY <1>2 DEF FindUser, Claim, SendAll, Receive, ReceiveError, DoPop, Deadline, AddDone,
              Query, PushOne, PushesDone, TrimOne, FollowDone, Greet
<1>3. CASE Serve(w)
  BY <1>3 DEF Serve
<1> QED
  BY <1>1, <1>2, <1>3 DEF Step, Run

LEMMA StoredStep ==
  ASSUME Registers, Shared, NEW w \in Worker, Step(w), NEW p \in Photo
  PROVE  /\ Stored(p) => Stored(p)'
         /\ Stored(p)' => Stored(p) \/ (PutPhoto(w) /\ task[w].photo = p)
         /\ PutPhoto(w) /\ task[w].photo = p => Stored(p)'
<1>1. Owner[p] \in User
  BY OwnerAssumption
<1>2. CASE PutPhoto(w)
  BY <1>1, <1>2, PutFacts DEF Stored
<1>3. CASE ~PutPhoto(w)
  BY <1>3, PhotosKept DEF Stored
<1> QED
  BY <1>2, <1>3

(* FindUser makes the list, and the calls up to the Send loop keep it.     *)
LEMMA OnceStep ==
  ASSUME Registers, Shared, Entities, NEW w \in Worker, Step(w), NEW v \in Worker,
         pc'[v] \in {"put", "claim", "send"}
  PROVE  Once(todo'[v], task'[v].photo)
<1>1. CASE v # w
  BY <1>1, RegistersStep DEF Entities
<1>2. CASE v = w
  <2>1. CASE Finish(w) \/ DatastoreError(w) \/ Kill(w)
    BY <1>2, <2>1 DEF Registers, Finish, DatastoreError, Kill, Leave, Goto
  <2>2. CASE \E t \in queue : Start(w, t)
    <3>1. PICK t \in queue : Start(w, t)
      BY <2>2
    <3>2. t.op \in {"addPhoto", "iNowFollow", "initialPhotos"}
      BY TaskKinds DEF Shared
    <3> QED
      BY <1>2, <3>1, <3>2 DEF Start, Goto, Registers
  <2>3. CASE FindUser(w)
    <3> DEFINE p == task[w].photo
               f == followsMe[Owner[p]]
    <3>1. p \in Photo /\ Owner[p] \in User
      BY <2>3, AtFacts, TaskKinds, OwnerAssumption DEF FindUser, Fits
    <3>2. f \in Seq(User) /\ IsInjective(f)
      BY <3>1 DEF Shared, Entities
    <3>3. todo'[w] = Append(f, Owner[p]) /\ task'[w].photo = p
      BY <2>3 DEF FindUser, Recipients, Registers
    <3> HIDE DEF p
    <3>4. ASSUME Owner[p] \notin Range(f) PROVE Once(Append(f, Owner[p]), p)
      BY <3>1, <3>2, <3>4, AppendFacts DEF Once, IsInjective
    <3>5. ASSUME Owner[p] \in Range(f) PROVE Once(Append(f, Owner[p]), p)
      <4>1. ListedTwice(p, Owner[p])
        BY <3>5 DEF ListedTwice
      <4> DEFINE d == Append(f, Owner[p])
                 n == Len(f) + 1
      <4>2. /\ \A i \in DOMAIN f : d[i] = f[i]
            /\ \A i \in DOMAIN d : i \in DOMAIN f \/ i = n
            /\ d[n] = Owner[p]
        BY <3>1, <3>2, AppendProperties, LenProperties
      <4> HIDE DEF d, n
      <4>3. \A i, j \in DOMAIN f : f[i] = f[j] => i = j
        BY <3>2 DEF IsInjective
      <4>4. ASSUME NEW i \in DOMAIN d, NEW j \in DOMAIN d, d[i] = d[j], i # j
            PROVE  d[i] = Owner[p] /\ \A k \in DOMAIN d : d[k] = d[i] => k \in {i, j}
        BY <4>2, <4>3, <4>4
      <4>5. Once(d, p)
        BY <4>1, <4>4 DEF Once
      <4> QED
        BY <4>5 DEF d
    <3> QED
      BY <1>2, <3>3, <3>4, <3>5
  <2>4. CASE PutPhoto(w) \/ Claim(w)
    BY <1>2, <2>4 DEF PutPhoto, Claim, Entities
  <2>5. CASE \/ ClaimError(w) \/ SendAll(w) \/ Receive(w) \/ DoPop(w)
             \/ AddDone(w) \/ Query(w) \/ PushesDone(w) \/ FollowDone(w) \/ Greet(w)
    BY <1>2, <2>5 DEF Registers, ClaimError, SendAll, Receive, DoPop, AddDone,
      Query, PushesDone, FollowDone, Greet, Goto
  <2>6. CASE Break(w) \/ Serve(w) \/ Deadline(w)
    BY <1>2, <2>6 DEF Break, Serve, Deadline, Entities
  <2>7. CASE ReceiveError(w) \/ PushOne(w) \/ TrimOne(w)
    BY <1>2, <2>7 DEF ReceiveError, PushOne, TrimOne
  <2> QED
    BY <2>1, <2>2, <2>3, <2>4, <2>5, <2>6, <2>7 DEF Step, Run
<1> QED
  BY <1>1, <1>2

LEMMA EntitiesStep ==
  ASSUME Registers, Shared, Entities, NEW w \in Worker, Step(w)
  PROVE  Entities'
<1>1. followsMe' = followsMe /\ queue' \subseteq queue
  BY StepFacts
<1>2. ASSUME NEW u \in User, NEW p \in Range(photos'[u]) PROVE Owner[p] = u
  <2>1. CASE PutPhoto(w)
    BY <1>2, <2>1, PutFacts DEF Entities
  <2>2. CASE ~PutPhoto(w)
    BY <1>2, <2>2, PhotosKept DEF Entities
  <2> QED
    BY <2>1, <2>2
<1>3. ASSUME NEW v \in Worker, NEW t, t = task'[v], t.op = "iNowFollow"
      PROVE  t.user \in Range(followsMe[t.who])
  <2>1. t = task[v] \/ t = NoTask \/ t \in queue
    BY <1>3, StepFacts, RegistersStep
  <2>2. t # NoTask
    BY <1>3, TaskKinds
  <2> QED
    BY <1>3, <2>1, <2>2 DEF Entities
<1>4. /\ \A u \in User : IsInjective(followsMe'[u])
      /\ \A t \in queue' : t.op = "iNowFollow" => t.user \in Range(followsMe'[t.who])
  BY <1>1 DEF Entities
<1>5. \A v \in Worker : task'[v].op = "iNowFollow" => task'[v].user \in Range(followsMe'[task'[v].who])
  BY <1>1, <1>3
<1>6. \A v \in Worker : pc'[v] \in {"put", "claim", "send"} => Once(todo'[v], task'[v].photo)
  BY <1>1, OnceStep
<1>7. (\A v \in Worker : pc[v] \in {"put", "claim", "send"} => Once(todo[v], task[v].photo))'
  BY <1>1, <1>6 DEF Once, ListedTwice
<1> QED
  BY <1>2, <1>4, <1>5, <1>7 DEF Entities

LEMMA FollowedStep ==
  ASSUME Registers, Shared, Entities, Followed, NEW w \in Worker, Step(w)
  PROVE  Followed'
<1>1. followsMe' = followsMe /\ following' = following /\ queue' \subseteq queue
  BY StepFacts
<1>2. ASSUME NEW v \in Worker, NEW t, t = task'[v], t.op = "iNowFollow"
      PROVE  Called(t)
  <2>1. t = task[v] \/ t = NoTask \/ t \in queue
    BY <1>2, StepFacts, RegistersStep
  <2>2. t # NoTask
    BY <1>2, TaskKinds
  <2> QED
    BY <1>2, <2>1, <2>2 DEF Followed
<1>3. \A v \in Worker : task'[v].op = "iNowFollow" => Called(task'[v])
  BY <1>2
<1> QED
  BY <1>1, <1>3 DEF Followed, Called

LEMMA StoredFirstStep ==
  ASSUME Registers, Shared, Entities, StoredFirst, NEW w \in Worker, Step(w)
  PROVE  StoredFirst'
<1> USE DEF data, net, history
<1>a. Fits(pc[w], task[w], todo[w], wire[w], down[w])
  BY AtFacts
<1>1. ASSUME NEW p \in image' PROVE Stored(p)'
  <2>1. p \in Photo
    BY <1>1, SharedStep DEF Shared
  <2>2. CASE p \in image
    BY <2>1, <2>2, StoredStep DEF StoredFirst
  <2>3. CASE p \notin image
    <3>1. Claim(w) \/ ClaimError(w)
      BY <1>1, <2>3 DEF Step, Run, Finish, DatastoreError, Kill, Break, Start, FindUser, PutPhoto,
        SendAll, Serve, Receive, ReceiveError, DoPop, Deadline, AddDone, Query, PushOne, PushesDone,
        TrimOne, FollowDone, Greet
    <3>2. p = task[w].photo /\ pc[w] = "claim" /\ task[w].op = "addPhoto"
      BY <1>1, <1>a, <2>3, <3>1, TaskKinds DEF Claim, ClaimError, Fits
    <3>3. Stored(p)
      BY <3>2 DEF StoredFirst
    <3> QED
      BY <2>1, <3>3, StoredStep
  <2> QED
    BY <2>2, <2>3
<1>2. ASSUME NEW v \in Worker, NEW t, t = task'[v], t.op = "addPhoto",
             pc'[v] \notin {"find", "put"} \/ t \notin queue'
      PROVE  Stored(t.photo)'
  <2>2. t \in Tasks \cup {NoTask} /\ t # NoTask
    BY <1>2, RegistersStep, TaskKinds DEF Registers
  <2>3. t.op = "addPhoto" /\ t.photo \in Photo
    BY <1>2, <2>2, TaskKinds
  <2>4. t = task[v]
    BY <1>2, <2>2, <2>3, StepFacts, RegistersStep
  <2>5. CASE Stored(t.photo)
    BY <2>3, <2>5, StoredStep
  <2>6. CASE ~Stored(t.photo)
    <3>1. pc[v] \in {"find", "put"} /\ t \in queue
      BY <2>3, <2>4, <2>6 DEF StoredFirst
    <3>2. t \in queue'
      <4>1. CASE queue' = queue
        BY <3>1, <4>1
      <4>2. CASE pc[w] = "done" /\ queue' = queue \ {task[w]}
        <5>1. task[w] = t => Stored(t.photo)
          BY <2>3, <4>2 DEF StoredFirst
        <5> QED
          BY <2>6, <3>1, <4>2, <5>1
      <4> QED
        BY <4>1, <4>2, StepFacts
    <3>3. pc'[v] \notin {"find", "put"}
      BY <1>2, <3>2
    <3>4. v = w
      BY <3>1, <3>3, RegistersStep
    <3>5. PutPhoto(w) \/ task'[w] = NoTask
      <4>1. pc[w] \in {"find", "put"} /\ pc'[w] \notin {"find", "put"}
        BY <3>1, <3>3, <3>4
      <4>2. pc'[w] # pc[w] /\ pc[w] \notin {"claim", "send", "recv", "pop", "query", "push", "trim", "greet", "done", "idle"}
        BY <4>1
      <4>3. PutPhoto(w) \/ FindUser(w) \/ DatastoreError(w) \/ Kill(w)
        BY <4>2 DEF Step, Run, Finish, Break, Start, Claim, ClaimError,
          SendAll, Serve, Receive, ReceiveError, DoPop, Deadline, Starved, AddDone, Query, PushOne, PushesDone,
          TrimOne, FollowDone, Greet
      <4>4. FindUser(w) => pc'[w] = "put"
        BY DEF FindUser, Goto, Registers
      <4>5. DatastoreError(w) \/ Kill(w) => task'[w] = NoTask
        BY DEF DatastoreError, Kill, Leave, Registers
      <4> QED
        BY <4>1, <4>3, <4>4, <4>5
    <3>6. PutPhoto(w) /\ task[w].photo = t.photo
      BY <1>2, <2>2, <2>4, <3>4, <3>5
    <3> QED
      BY <2>3, <3>6, StoredStep
  <2> QED
    BY <2>5, <2>6
<1>3. ASSUME NEW v \in Worker
      PROVE  (/\ task[v].op = "addPhoto" /\ pc[v] \notin {"find", "put"} => Stored(task[v].photo)
              /\ task[v].op = "addPhoto" /\ task[v] \notin queue => Stored(task[v].photo))'
  BY <1>2 DEF Stored
<1> QED
  BY <1>1, <1>3 DEF StoredFirst
------------------------------------------------------------------------------
(* One fan-out for each photo                                               *)

(* Only Claim lets a request send.                                          *)
LEMMA SendingStep ==
  ASSUME Registers, Shared, Entities, NEW w \in Worker, Step(w), ~Claim(w), NEW v \in Worker, NEW p,
         Sending(v, p)'
  PROVE  Sending(v, p)
<1>1. CASE v # w
  BY <1>1, RegistersStep DEF Sending
<1>2. CASE v = w
  <2>1. pc'[w] = "send"
    BY <1>2 DEF Sending
  <2>2. CASE Finish(w) \/ DatastoreError(w) \/ Kill(w)
    BY <2>1, <2>2 DEF Registers, Finish, DatastoreError, Kill, Leave, Goto
  <2>5. CASE \E t \in queue : Start(w, t)
    <3>1. PICK t \in queue : Start(w, t)
      BY <2>5
    <3>2. t \in Tasks
      BY DEF Shared
    <3>3. t.op \in {"addPhoto", "iNowFollow", "initialPhotos"}
      BY <3>2, TaskKinds
    <3>4. pc'[w] \in {"find", "query", "greet"}
      BY <3>1, <3>3 DEF Start, Goto, Registers
    <3> QED
      BY <2>1, <3>4
  <2>3. CASE \/ FindUser(w) \/ PutPhoto(w) \/ ClaimError(w) \/ SendAll(w) \/ Receive(w) \/ DoPop(w)
             \/ AddDone(w) \/ Query(w) \/ PushesDone(w) \/ FollowDone(w) \/ Greet(w)
    BY <2>1, <2>3 DEF Registers, FindUser, PutPhoto, ClaimError, SendAll, Receive, DoPop, AddDone,
      Query, PushesDone, FollowDone, Greet, Goto
  <2>4. CASE \/ Break(w) \/ Serve(w) \/ ReceiveError(w) \/ Deadline(w) \/ PushOne(w) \/ TrimOne(w)
    BY <1>2, <2>4 DEF Break, Serve, ReceiveError, Deadline, PushOne, TrimOne, Sending
  <2> QED
    BY <2>2, <2>3, <2>4, <2>5 DEF Step, Run
<1> QED
  BY <1>1, <1>2

(* Only SendAll adds pushes to a connection, and only Serve moves them up.  *)
LEMMA WireStep ==
  ASSUME Registers, Shared, Entities, NEW w \in Worker, Step(w), ~SendAll(w), ~Serve(w),
         NEW v \in Worker, NEW i, NEW u \in User, NEW p \in Photo, OnWire(v, i, u, p)'
  PROVE  OnWire(v, i, u, p)
<1> USE DEF data, net, history
<1>1. CASE v # w
  BY <1>1, RegistersStep DEF OnWire
<1>2. CASE v = w
  <2>1. CASE Kill(w) \/ Break(w)
    <3>1. PICK k \in 0 .. Len(wire[w]) : Cut(w, k)
      BY <2>1 DEF Kill, Break
    <3> QED
      BY <1>2, <3>1, CutFacts DEF OnWire
  <2>2. CASE Receive(w)
    <3>1. todo[w] \in Seq(User) /\ todo[w] # <<>> /\ wire[w] \in Seq(Commands)
      BY <2>2, AtFacts DEF Receive, Fits
    <3>2. Head(todo[w]) \in User
      BY <3>1, TailFacts
    <3>3. Pop(Head(todo[w])) \in Commands
      BY <3>2 DEF Pop, Commands
    <3>4. Pop(Head(todo[w])) # Push(u, p)
      <4>1. Pop(Head(todo[w])).op = "RPOP" /\ Push(u, p).op = "LPUSH"
        BY DEF Pop, Push
      <4> QED
        BY <4>1
    <3>5. wire'[w] = wire[w] \/ wire'[w] = Append(wire[w], Pop(Head(todo[w])))
      BY <2>2 DEF Receive, Registers
    <3>6. \A j \in DOMAIN Append(wire[w], Pop(Head(todo[w]))) :
            \/ j \in DOMAIN wire[w]
            \/ Append(wire[w], Pop(Head(todo[w])))[j] = Pop(Head(todo[w]))
      BY <3>1, <3>3, AppendFacts
    <3>7. \A j \in DOMAIN wire[w] : Append(wire[w], Pop(Head(todo[w])))[j] = wire[w][j]
      BY <3>1, <3>3, AppendFacts
    <3> QED
      BY <1>2, <3>4, <3>5, <3>6, <3>7 DEF OnWire
  <2>3. CASE ~Kill(w) /\ ~Break(w) /\ ~Receive(w)
    <3>1. wire' = wire
      BY <2>3 DEF Step, Run, Finish, DatastoreError, Start, FindUser, PutPhoto, Claim,
        ClaimError, ReceiveError, DoPop, Deadline, AddDone, Query, PushOne,
        PushesDone, TrimOne, FollowDone, Greet
    <3> QED
      BY <3>1 DEF OnWire
  <2> QED
    BY <2>1, <2>2, <2>3
<1> QED
  BY <1>1, <1>2

LEMMA OneFanOutStep ==
  ASSUME Registers, Shared, Entities, OneFanOut, NEW w \in Worker, Step(w)
  PROVE  OneFanOut'
<1> USE DEF data, net, history
<1>a. /\ task[w] \in Tasks \cup {NoTask} /\ wire[w] \in Seq(Commands)
      /\ Fits(pc[w], task[w], todo[w], wire[w], down[w])
  BY AtFacts
<1>i. image \subseteq image'
  BY StepFacts
<1>k. \A pu \in Photo \X User : pushed[pu] \in Nat
  BY DEF Shared
<1>t. \A p, u : Times(p, u)' = Times(p, u) /\ Times(p, u) \in {1, 2}
  BY StepFacts DEF Times, ListedTwice
<1>1. CASE ~Claim(w) /\ ~SendAll(w) /\ ~Serve(w)
  <2>1. pushed' = pushed
    BY <1>1 DEF Step, Run, Finish, DatastoreError, Kill, Break, Start, FindUser, PutPhoto,
      ClaimError, Receive, ReceiveError, DoPop, Deadline, AddDone, Query, PushOne,
      PushesDone, TrimOne, FollowDone, Greet
  <2>2. \A v \in Worker, p \in Photo : Sending(v, p)' => Sending(v, p)
    BY <1>1, SendingStep
  <2>3. \A v \in Worker, u \in User, p \in Photo : \A i \in DOMAIN wire'[v] :
          OnWire(v, i, u, p)' => OnWire(v, i, u, p)
    BY <1>1, WireStep
  <2>4. \A p \in Photo : Unsent(p) => Unsent(p)'
    BY <2>1, <2>3 DEF Unsent, OnWire
  <2>5. \A p \in Photo \ image' : Unsent(p)' /\ \A v \in Worker : ~Sending(v, p)'
    BY <1>i, <2>2, <2>4 DEF OneFanOut
  <2>6. \A v \in Worker, p \in Photo :
          Sending(v, p)' => Unsent(p)' /\ \A x \in Worker \ {v} : ~Sending(x, p)'
    BY <2>2, <2>4 DEF OneFanOut
  <2>7. ASSUME NEW u \in User, NEW p \in Photo, NEW v \in Worker, NEW i \in DOMAIN wire'[v], OnWire(v, i, u, p)'
        PROVE  Rest(v, i, u, p)'
    <3>1. i \in DOMAIN wire[v] /\ Rest(v, i, u, p)
      BY <2>3, <2>7 DEF OneFanOut, OnWire
    <3>2. \A x \in Worker : \A j \in DOMAIN wire'[x] : OnWire(x, j, u, p)' => j \in DOMAIN wire[x] /\ OnWire(x, j, u, p)
      BY <2>3 DEF OnWire
    <3> QED
      BY <1>t, <2>1, <3>1, <3>2 DEF Rest
  <2>8. FanOutOnce'
    BY <1>t, <2>1 DEF OneFanOut, FanOutOnce
  <2> QED
    BY <2>5, <2>6, <2>7, <2>8 DEF OneFanOut
<1>2. CASE Claim(w)
  <2> DEFINE q == task[w].photo
  <2>1. q \in Photo /\ image' = image \cup {q} /\ pushed' = pushed /\ wire' = wire /\ task' = task
    BY <1>2, <1>a, TaskKinds DEF Claim, Fits
  <2>2. pc' = [pc EXCEPT ![w] = IF q \in image THEN "done" ELSE "send"]
    BY <1>2 DEF Claim, Goto, Duplicate
  <2> HIDE DEF q
  <2>3. /\ \A v \in Worker \ {w} : pc'[v] = pc[v]
        /\ pc'[w] = "send" => q \notin image
    BY <2>2 DEF Registers
  <2>4. \A p \in Photo : Unsent(p)' = Unsent(p)
    BY <2>1 DEF Unsent, OnWire
  <2>5. \A v \in Worker, p \in Photo : Sending(v, p)' => Sending(v, p) \/ (v = w /\ p = q /\ q \notin image)
    BY <2>1, <2>3 DEF Sending, q
  <2>6. \A p \in Photo \ image' : Unsent(p)' /\ \A v \in Worker : ~Sending(v, p)'
    BY <2>1, <2>4, <2>5 DEF OneFanOut
  <2>7. \A v \in Worker, p \in Photo :
          Sending(v, p)' => Unsent(p)' /\ \A x \in Worker \ {v} : ~Sending(x, p)'
    BY <2>1, <2>4, <2>5 DEF OneFanOut
  <2>8. ASSUME NEW u \in User, NEW p \in Photo, NEW v \in Worker, NEW i \in DOMAIN wire'[v], OnWire(v, i, u, p)'
        PROVE  Rest(v, i, u, p)'
    <3>1. Rest(v, i, u, p)
      BY <2>1, <2>8 DEF OneFanOut, OnWire
    <3> QED
      BY <1>t, <2>1, <3>1 DEF Rest, OnWire
  <2>9. FanOutOnce'
    BY <1>t, <2>1 DEF OneFanOut, FanOutOnce
  <2> QED
    BY <2>6, <2>7, <2>8, <2>9 DEF OneFanOut
<1>3. CASE SendAll(w)
  <2> DEFINE q == task[w].photo
             d == todo[w]
  <2>1. /\ pc[w] = "send" /\ q \in Photo /\ d \in Seq(User) /\ Once(d, q) /\ wire[w] = <<>>
        /\ pushed' = pushed /\ task' = task /\ image' = image
    BY <1>3, <1>a, TaskKinds DEF SendAll, Fits, Entities
  <2>2. wire' = [wire EXCEPT ![w] = [i \in DOMAIN d |-> Push(d[i], q)]] /\ pc' = [pc EXCEPT ![w] = "recv"]
    BY <1>3 DEF SendAll, Goto
  <2>3. Sending(w, q)
    BY <2>1 DEF Sending
  <2> HIDE DEF q, d
  <2>4. /\ wire'[w] = [i \in DOMAIN d |-> Push(d[i], q)]
        /\ \A v \in Worker \ {w} : wire'[v] = wire[v] /\ pc'[v] = pc[v]
        /\ pc'[w] = "recv"
    BY <2>2 DEF Registers
  <2>5. \A v \in Worker, p \in Photo : Sending(v, p)' => v # w /\ Sending(v, p)
    BY <2>1, <2>4 DEF Sending
  <2>6. ASSUME NEW v \in Worker, NEW i, NEW u \in User, NEW p \in Photo, OnWire(v, i, u, p)'
        PROVE  \/ v # w /\ OnWire(v, i, u, p) /\ p # q
               \/ v = w /\ p = q /\ i \in DOMAIN d /\ d[i] = u
    <3>1. CASE v # w
      <4>1. OnWire(v, i, u, p) /\ i \in DOMAIN wire[v]
        BY <2>4, <2>6, <3>1 DEF OnWire
      <4>2. p # q
        BY <2>1, <2>3, <4>1 DEF OneFanOut, Unsent
      <4> QED
        BY <3>1, <4>1, <4>2
    <3>2. CASE v = w
      <4>1. i \in DOMAIN d /\ Push(d[i], q) = Push(u, p)
        BY <2>4, <2>6, <3>2 DEF OnWire
      <4>2. d[i] = u /\ q = p
        BY <4>1 DEF Push
      <4> QED
        BY <3>2, <4>1, <4>2
    <3> QED
      BY <3>1, <3>2
  <2>7. \A p \in Photo : Unsent(p) /\ p # q => Unsent(p)'
    <3> SUFFICES ASSUME NEW p \in Photo, Unsent(p), p # q PROVE Unsent(p)'
      OBVIOUS
    <3>1. ASSUME NEW u \in User, NEW v \in Worker, NEW i \in DOMAIN wire'[v] PROVE ~OnWire(v, i, u, p)'
      <4>1. OnWire(v, i, u, p)' => OnWire(v, i, u, p) /\ i \in DOMAIN wire[v]
        BY <2>6 DEF OnWire
      <4> QED
        BY <4>1 DEF Unsent
    <3>2. \A u \in User : pushed'[<<p, u>>] = 0
      BY <2>1 DEF Unsent
    <3> QED
      BY <3>1, <3>2 DEF Unsent
  <2>8. q \in image
    BY <2>1, <2>3 DEF OneFanOut
  <2>9. \A p \in Photo \ image' : Unsent(p)' /\ \A v \in Worker : ~Sending(v, p)'
    BY <2>1, <2>5, <2>7, <2>8 DEF OneFanOut
  <2>10. \A v \in Worker, p \in Photo :
           Sending(v, p)' => Unsent(p)' /\ \A x \in Worker \ {v} : ~Sending(x, p)'
    BY <2>1, <2>3, <2>5, <2>7 DEF OneFanOut
  <2>11. ASSUME NEW u \in User, NEW p \in Photo, NEW v \in Worker, NEW i \in DOMAIN wire'[v], OnWire(v, i, u, p)'
         PROVE  Rest(v, i, u, p)'
    <3>1. CASE v # w
      <4>1. OnWire(v, i, u, p) /\ i \in DOMAIN wire[v] /\ p # q
        BY <2>6, <2>11, <3>1 DEF OnWire
      <4>2. \A x \in Worker : \A j \in DOMAIN wire'[x] :
              OnWire(x, j, u, p)' => OnWire(x, j, u, p) /\ j \in DOMAIN wire[x]
        BY <2>6, <4>1 DEF OnWire
      <4>3. Rest(v, i, u, p)
        BY <2>11, <4>1 DEF OneFanOut
      <4> QED
        BY <1>t, <2>1, <4>2, <4>3 DEF Rest
    <3>2. CASE v = w
      <4>1. p = q /\ i \in DOMAIN d /\ d[i] = u
        BY <2>6, <2>11, <3>2
      <4>2. pushed[<<q, u>>] = 0
        BY <2>1, <2>3 DEF OneFanOut, Unsent
      <4>3. \A x \in Worker : \A j \in DOMAIN wire'[x] : OnWire(x, j, u, p)' => x = w /\ j \in DOMAIN d /\ d[j] = u
        BY <2>6, <4>1
      <4>4. \A j \in DOMAIN d : d[j] = u => j = i \/ (ListedTwice(p, u) /\ \A k \in DOMAIN d : d[k] = u => k \in {i, j})
        BY <2>1, <4>1 DEF Once
      <4>5. ListedTwice(p, u) => Times(p, u) = 2
        BY DEF Times
      <4>6. /\ pushed'[<<p, u>>] = 0
            /\ \A j \in DOMAIN d : d[j] = u => j = i \/ 0 + 2 <= Times(p, u)
            /\ \A j, k \in DOMAIN d : d[j] = u /\ d[k] = u => i = j \/ i = k \/ j = k
        BY <2>1, <4>1, <4>2, <4>4, <4>5
      <4>7. 0 < Times(p, u)
        BY <1>t
      <4> QED
        BY <1>t, <3>2, <4>3, <4>6, <4>7 DEF Rest
    <3> QED
      BY <3>1, <3>2
  <2>12. FanOutOnce'
    BY <1>t, <2>1 DEF OneFanOut, FanOutOnce
  <2> QED
    BY <1>t, <2>9, <2>10, <2>11, <2>12 DEF OneFanOut
<1>4. CASE Serve(w)
  <2> DEFINE c == Head(wire[w])
             x == Tail(wire[w])
  <2>1. /\ wire[w] # <<>> /\ c \in Commands /\ c = wire[w][1] /\ 1 \in DOMAIN wire[w]
        /\ \A i \in DOMAIN x : i \in Nat /\ i + 1 \in DOMAIN wire[w] /\ x[i] = wire[w][i + 1]
    BY <1>4, <1>a, TailFacts DEF Serve
  <2>2. /\ wire' = [wire EXCEPT ![w] = x] /\ pc' = pc /\ task' = task /\ image' = image
        /\ IF c.op = "LPUSH" THEN pushed' = [pushed EXCEPT ![<<c.photo, c.user>>] = @ + 1]
                             ELSE pushed' = pushed
    BY <1>4 DEF Serve
  <2> HIDE DEF c, x
  <2>3. wire'[w] = x /\ \A v \in Worker \ {w} : wire'[v] = wire[v]
    BY <2>2 DEF Registers
  <2>4. \A v \in Worker, p \in Photo : Sending(v, p)' => Sending(v, p)
    BY <2>2 DEF Sending
  (* Every push still on a connection was there before, behind the one served. *)
  <2>5. ASSUME NEW v \in Worker, NEW i, NEW u \in User, NEW p \in Photo, OnWire(v, i, u, p)'
        PROVE  /\ v # w => OnWire(v, i, u, p)
               /\ v = w => i \in Nat /\ i + 1 # 1 /\ OnWire(v, i + 1, u, p)
    <3>1. CASE v # w
      <4>1. OnWire(v, i, u, p)
        BY <2>3, <2>5, <3>1 DEF OnWire
      <4> QED
        BY <3>1, <4>1
    <3>2. CASE v = w
      <4>1. i \in DOMAIN x /\ x[i] = Push(u, p)
        BY <2>3, <2>5, <3>2 DEF OnWire
      <4>2. i \in Nat /\ OnWire(w, i + 1, u, p) /\ i + 1 \in DOMAIN wire[w]
        BY <2>1, <4>1 DEF OnWire
      <4>3. i \in DOMAIN wire'[w] /\ i # 0
        <5>1. x \in Seq(Commands)
          BY <1>a, <2>1, TailFacts DEF x
        <5>2. DOMAIN x = 1 .. Len(x) /\ Len(x) \in Nat
          BY <5>1, LenProperties
        <5> QED
          BY <2>3, <4>1, <5>2
      <4>4. i + 1 # 1
        BY <4>2, <4>3
      <4> QED
        BY <3>2, <4>2, <4>4
    <3> QED
      BY <3>1, <3>2
  (* The push served was still to come. *)
  <2>6. ASSUME NEW u \in User, NEW p \in Photo
        PROVE  /\ c = Push(u, p) => Rest(w, 1, u, p) /\ pushed'[<<p, u>>] = pushed[<<p, u>>] + 1
               /\ c # Push(u, p) => pushed'[<<p, u>>] = pushed[<<p, u>>]
    <3>1. pushed \in [Photo \X User -> Nat] /\ <<p, u>> \in Photo \X User
      BY DEF Shared
    <3>2. CASE c = Push(u, p)
      <4>1. c.op = "LPUSH" /\ c.user = u /\ c.photo = p
        BY <3>2 DEF Push
      <4>2. pushed' = [pushed EXCEPT ![<<p, u>>] = @ + 1]
        BY <2>2, <4>1
      <4>3. OnWire(w, 1, u, p)
        BY <2>1, <3>2 DEF OnWire
      <4>4. Rest(w, 1, u, p)
        BY <2>1, <4>3 DEF OneFanOut
      <4>5. pushed'[<<p, u>>] = pushed[<<p, u>>] + 1
        BY <3>1, <4>2
      <4> QED
        BY <3>2, <4>4, <4>5
    <3>3. CASE c # Push(u, p)
      <4>1. CASE c.op = "LPUSH"
        <5>1. <<c.photo, c.user>> # <<p, u>>
          BY <2>1, <3>3, <4>1 DEF Push, Commands
        <5>2. pushed' = [pushed EXCEPT ![<<c.photo, c.user>>] = @ + 1]
          BY <2>2, <4>1
        <5> QED
          BY <3>1, <3>3, <5>1, <5>2
      <4>2. CASE c.op # "LPUSH"
        BY <2>2, <3>3, <4>2
      <4> QED
        BY <4>1, <4>2
    <3> QED
      BY <3>2, <3>3
  <2>7. ASSUME NEW p \in Photo, Unsent(p) PROVE Unsent(p)'
    <3>1. ASSUME NEW u \in User PROVE c # Push(u, p)
      BY <2>1, <2>7 DEF Unsent, OnWire
    <3>2. \A u \in User : pushed'[<<p, u>>] = 0
      BY <2>6, <2>7, <3>1 DEF Unsent
    <3>3. ASSUME NEW u \in User, NEW v \in Worker, NEW i \in DOMAIN wire'[v] PROVE ~OnWire(v, i, u, p)'
      <4>1. ~OnWire(v, i, u, p) \/ v = w
        BY <2>3, <2>7 DEF Unsent, OnWire
      <4>2. ~OnWire(w, i + 1, u, p)
        BY <2>7 DEF Unsent, OnWire
      <4> QED
        BY <2>5, <4>1, <4>2
    <3> QED
      BY <3>2, <3>3 DEF Unsent
  <2>8. \A p \in Photo \ image' : Unsent(p)' /\ \A v \in Worker : ~Sending(v, p)'
    BY <2>2, <2>4, <2>7 DEF OneFanOut
  <2>9. \A v \in Worker, p \in Photo :
          Sending(v, p)' => Unsent(p)' /\ \A y \in Worker \ {v} : ~Sending(y, p)'
    BY <2>4, <2>7 DEF OneFanOut
  <2>10. ASSUME NEW u \in User, NEW p \in Photo, NEW v \in Worker, NEW i \in DOMAIN wire'[v], OnWire(v, i, u, p)'
         PROVE  Rest(v, i, u, p)'
    <3> DEFINE Before(y, j) == IF y = w THEN j + 1 ELSE j
               r == pushed[<<p, u>>]
    <3>1. ASSUME NEW y \in Worker, NEW j \in DOMAIN wire'[y], OnWire(y, j, u, p)'
          PROVE  /\ OnWire(y, Before(y, j), u, p) /\ Before(y, j) \in DOMAIN wire[y]
                 /\ y = w => j \in Nat /\ Before(y, j) # 1
      BY <2>5, <3>1 DEF OnWire
    <3>2. OnWire(v, Before(v, i), u, p) /\ Before(v, i) \in DOMAIN wire[v] /\ (v = w => i \in Nat /\ Before(v, i) # 1)
      BY <2>10, <3>1
    <3>3. Rest(v, Before(v, i), u, p)
      BY <3>2 DEF OneFanOut
    <3>4. r \in Nat /\ Times(p, u) \in {1, 2}
      BY <1>t, <1>k
    <3>5. CASE c = Push(u, p)
      <4>1. Rest(w, 1, u, p) /\ pushed'[<<p, u>>] = r + 1
        BY <2>6, <3>5
      <4>2. OnWire(w, 1, u, p)
        BY <2>1, <3>5 DEF OnWire
      <4>3. v = w /\ r + 2 <= Times(p, u)
        BY <3>2, <4>1 DEF Rest
      <4>4. pushed'[<<p, u>>] < Times(p, u)
        BY <3>4, <4>1, <4>3
      <4>5. ASSUME NEW y \in Worker, NEW j \in DOMAIN wire'[y], OnWire(y, j, u, p)' PROVE y = v /\ j = i
        <5>1. /\ OnWire(y, Before(y, j), u, p) /\ Before(y, j) \in DOMAIN wire[y]
              /\ y = w => j \in Nat /\ Before(y, j) # 1
          BY <3>1, <4>5
        <5>2. y = w
          BY <4>1, <5>1 DEF Rest
        <5>3. Before(y, j) = Before(v, i)
          BY <2>1, <3>2, <4>1, <4>3, <5>1, <5>2 DEF Rest
        <5> QED
          BY <3>2, <4>3, <5>1, <5>2, <5>3
      <4> QED
        BY <1>t, <4>4, <4>5 DEF Rest
    <3>6. CASE c # Push(u, p)
      <4>1. pushed'[<<p, u>>] = r
        BY <2>6, <3>6
      <4>2. ASSUME NEW y \in Worker, NEW j \in DOMAIN wire'[y], OnWire(y, j, u, p)'
            PROVE  y = v /\ (j = i \/ r + 2 <= Times(p, u))
        <5>1. /\ OnWire(y, Before(y, j), u, p) /\ Before(y, j) \in DOMAIN wire[y]
              /\ y = w => j \in Nat
          BY <3>1, <4>2
        <5>2. y = v /\ (Before(y, j) = Before(v, i) \/ r + 2 <= Times(p, u))
          BY <3>3, <5>1 DEF Rest
        <5> QED
          BY <3>2, <5>1, <5>2
      <4>3. ASSUME NEW j \in DOMAIN wire'[v], NEW k \in DOMAIN wire'[v], OnWire(v, j, u, p)', OnWire(v, k, u, p)'
            PROVE  i = j \/ i = k \/ j = k
        <5>1. /\ OnWire(v, Before(v, j), u, p) /\ Before(v, j) \in DOMAIN wire[v] /\ (v = w => j \in Nat)
              /\ OnWire(v, Before(v, k), u, p) /\ Before(v, k) \in DOMAIN wire[v] /\ (v = w => k \in Nat)
          BY <3>1, <4>3
        <5>2. Before(v, i) = Before(v, j) \/ Before(v, i) = Before(v, k) \/ Before(v, j) = Before(v, k)
          BY <3>3, <5>1 DEF Rest
        <5> QED
          BY <3>2, <5>1, <5>2
      <4> QED
        BY <1>t, <3>3, <4>1, <4>2, <4>3 DEF Rest
    <3> QED
      BY <3>5, <3>6
  <2>11. FanOutOnce'
    <3> SUFFICES ASSUME NEW p \in Photo, NEW u \in User
                 PROVE  pushed'[<<p, u>>] <= Times(p, u)
      BY <1>t DEF FanOutOnce
    <3>1. pushed[<<p, u>>] <= Times(p, u) /\ pushed[<<p, u>>] \in Nat /\ Times(p, u) \in {1, 2}
      BY <1>k, <1>t DEF OneFanOut, FanOutOnce
    <3>2. c = Push(u, p) => pushed[<<p, u>>] < Times(p, u)
      BY <2>6 DEF Rest
    <3> QED
      BY <2>6, <3>1, <3>2
  <2> QED
    BY <1>t, <2>8, <2>9, <2>10, <2>11 DEF OneFanOut
<1> QED
  BY <1>1, <1>2, <1>3, <1>4
------------------------------------------------------------------------------
(* Nobody is forgotten                                                      *)

(* The request a call belongs to is at the call's own places in the code.   *)
LEMMA Active ==
  ASSUME Registers, Shared, Entities, NEW w \in Worker, Step(w), pc[w] \in {"find", "put", "claim", "send", "query", "push"}
  PROVE  /\ wire[w] = <<>> /\ ~Serve(w)
         /\ \/ task'[w] = NoTask /\ (DatastoreError(w) \/ Kill(w))
            \/ pc[w] = "find" /\ FindUser(w)
            \/ pc[w] = "put" /\ PutPhoto(w)
            \/ pc[w] = "claim" /\ (Claim(w) \/ ClaimError(w))
            \/ pc[w] = "send" /\ SendAll(w)
            \/ pc[w] = "query" /\ Query(w)
            \/ pc[w] = "push" /\ (PushOne(w) \/ PushesDone(w) \/ FollowDone(w) \/ Break(w))
<1>1. wire[w] = <<>> /\ ~Serve(w)
  BY AtFacts DEF Fits, Serve
<1>2. DatastoreError(w) \/ Kill(w) => task'[w] = NoTask
  BY DEF DatastoreError, Kill, Leave, Registers
<1>3. ~(\E t \in queue : Start(w, t)) /\ ~Finish(w)
  BY DEF Start, Finish
<1>4. ~Receive(w) /\ ~ReceiveError(w) /\ ~DoPop(w) /\ ~Deadline(w) /\ ~AddDone(w) /\ ~TrimOne(w) /\ ~Greet(w)
  BY DEF Receive, ReceiveError, DoPop, Deadline, Starved, AddDone, TrimOne, Greet
<1>5. /\ FindUser(w) => pc[w] = "find"
      /\ PutPhoto(w) => pc[w] = "put"
      /\ Claim(w) \/ ClaimError(w) => pc[w] = "claim"
      /\ SendAll(w) => pc[w] = "send"
      /\ Query(w) => pc[w] = "query"
      /\ PushOne(w) \/ PushesDone(w) \/ FollowDone(w) \/ Break(w) => pc[w] = "push"
  BY DEF FindUser, PutPhoto, Claim, ClaimError, SendAll, Query, PushOne, PushesDone, FollowDone, Break
<1> QED
  BY <1>1, <1>2, <1>3, <1>4, <1>5 DEF Step, Run

(* A photo on its way arrives, or a fault has hit that very push.           *)
LEMMA CoveredStep ==
  ASSUME Registers, Shared, Entities, NEW w \in Worker, Step(w), NEW p \in Photo, NEW a \in User, Covered(p, a)
  PROVE  Covered(p, a)'
<1> USE DEF data, net, history
<1>a. /\ task[w] \in Tasks \cup {NoTask} /\ wire[w] \in Seq(Commands)
      /\ Fits(pc[w], task[w], todo[w], wire[w], down[w])
  BY AtFacts
<1>1. CASE <<p, a>> \in reached \cup lost \cup passed
  BY <1>1, StepFacts DEF Covered
<1>2. ASSUME NEW v \in Worker, v # w,
             \/ pc[v] = "push" /\ ~down[v] /\ task[v].user = a /\ p \in Range(todo[v])
             \/ pc[v] = "send" /\ task[v].photo = p /\ a \in Range(todo[v])
             \/ \E i \in DOMAIN wire[v] : OnWire(v, i, a, p)
      PROVE  Covered(p, a)'
  <2>1. /\ pc'[v] = pc[v] /\ task'[v] = task[v] /\ todo'[v] = todo[v]
        /\ wire'[v] = wire[v] /\ down'[v] = down[v]
    BY <1>2, RegistersStep
  <2> QED
    BY <1>2, <2>1 DEF Covered, OnWire
<1>3. CASE pc[w] = "push" /\ ~down[w] /\ task[w].user = a /\ p \in Range(todo[w])
  <2>1. todo[w] \in Seq(Photo) /\ todo[w] # <<>>
    BY <1>3, <1>a, EmptyList DEF Fits
  <2>2. CASE Kill(w) \/ Break(w)
    <3>1. PICK k \in 0 .. Len(wire[w]) : Cut(w, k)
      BY <2>2 DEF Kill, Break
    <3>2. <<p, a>> \in lost'
      BY <1>3, <3>1, CutFacts
    <3> QED
      BY <3>2 DEF Covered
  <2>3. CASE PushOne(w)
    <3>1. Range(todo[w]) = {Head(todo[w])} \cup Range(Tail(todo[w]))
      BY <2>1, TailFacts
    <3>2. /\ reached' = reached \cup {<<Head(todo[w]), a>>} /\ todo'[w] = Tail(todo[w])
          /\ pc'[w] = "push" /\ ~down'[w] /\ task'[w].user = a
      BY <1>3, <2>3 DEF PushOne, Registers
    <3> QED
      BY <1>3, <3>1, <3>2 DEF Covered
  <2>4. ~PushesDone(w) /\ ~FollowDone(w)
    BY <1>3, <2>1 DEF PushesDone, FollowDone
  <2>5. ~DatastoreError(w)
    BY <1>3 DEF DatastoreError
  <2> QED
    BY <1>3, <2>2, <2>3, <2>4, <2>5, Active
<1>4. CASE pc[w] = "send" /\ task[w].photo = p /\ a \in Range(todo[w])
  <2>1. CASE Kill(w)
    <3>1. PICK k \in 0 .. Len(wire[w]) : Cut(w, k)
      BY <2>1 DEF Kill
    <3>2. <<p, a>> \in lost'
      BY <1>4, <3>1, CutFacts
    <3> QED
      BY <3>2 DEF Covered
  <2>2. CASE SendAll(w)
    <3>1. PICK i \in DOMAIN todo[w] : todo[w][i] = a
      BY <1>4 DEF Range
    <3>2. wire'[w] = [j \in DOMAIN todo[w] |-> Push(todo[w][j], p)]
      BY <1>4, <2>2 DEF SendAll, Registers
    <3>3. OnWire(w, i, a, p)' /\ i \in DOMAIN wire'[w]
      BY <3>1, <3>2 DEF OnWire
    <3> QED
      BY <3>3 DEF Covered
  <2>3. ~DatastoreError(w)
    BY <1>4 DEF DatastoreError
  <2> QED
    BY <1>4, <2>1, <2>2, <2>3, Active
<1>5. ASSUME NEW i \in DOMAIN wire[w], OnWire(w, i, a, p) PROVE Covered(p, a)'
  <2>1. wire[w] # <<>> /\ wire[w][i] = Push(a, p)
    BY <1>5 DEF OnWire
  <2>2. ASSUME NEW j \in DOMAIN wire'[w], wire'[w][j] = Push(a, p) PROVE Covered(p, a)'
    <3>1. OnWire(w, j, a, p)'
      BY <2>2 DEF OnWire
    <3> QED
      BY <3>1 DEF Covered
  <2>3. CASE Kill(w) \/ Break(w)
    <3>1. PICK k \in 0 .. Len(wire[w]) : Cut(w, k)
      BY <2>3 DEF Kill, Break
    <3>2. (i \in DOMAIN wire'[w] /\ wire'[w][i] = Push(a, p)) \/ <<p, a>> \in lost'
      BY <2>1, <3>1, CutFacts
    <3> QED
      BY <2>2, <3>2 DEF Covered
  <2>4. CASE Serve(w)
    <3>1. /\ Head(wire[w]) = wire[w][1]
          /\ \A j \in DOMAIN wire[w] : j # 1 => j - 1 \in DOMAIN Tail(wire[w]) /\ wire[w][j] = Tail(wire[w])[j - 1]
      BY <1>a, <2>1, TailFacts
    <3>2. wire'[w] = Tail(wire[w])
      BY <2>4 DEF Serve, Registers
    <3>3. CASE i = 1
      <4>1. Head(wire[w]).op = "LPUSH" /\ Head(wire[w]).user = a /\ Head(wire[w]).photo = p
        BY <2>1, <3>1, <3>3 DEF Push
      <4>2. reached' = reached \cup {<<p, a>>}
        BY <2>4, <4>1 DEF Serve
      <4> QED
        BY <4>2 DEF Covered
    <3>4. CASE i # 1
      BY <2>1, <2>2, <3>1, <3>2, <3>4
    <3> QED
      BY <3>3, <3>4
  <2>5. CASE Receive(w)
    <3>1. todo[w] \in Seq(User) /\ todo[w] # <<>>
      BY <1>a, <2>5 DEF Receive, Fits
    <3>2. Pop(Head(todo[w])) \in Commands
      BY <3>1, TailFacts DEF Pop, Commands
    <3>3. \A j \in DOMAIN wire[w] : /\ j \in DOMAIN Append(wire[w], Pop(Head(todo[w])))
                                    /\ Append(wire[w], Pop(Head(todo[w])))[j] = wire[w][j]
      BY <1>a, <3>2, AppendFacts
    <3>4. wire'[w] = wire[w] \/ wire'[w] = Append(wire[w], Pop(Head(todo[w])))
      BY <2>5 DEF Receive, Registers
    <3> QED
      BY <2>1, <2>2, <3>3, <3>4
  <2>6. CASE ~Kill(w) /\ ~Break(w) /\ ~Serve(w) /\ ~Receive(w)
    <3>1. ~SendAll(w)
      BY <1>a, <2>1 DEF SendAll, Fits
    <3>2. wire' = wire
      BY <2>6, <3>1 DEF Step, Run, Finish, DatastoreError, Start, FindUser, PutPhoto, Claim,
        ClaimError, ReceiveError, DoPop, Deadline, AddDone, Query, PushOne,
        PushesDone, TrimOne, FollowDone, Greet
    <3> QED
      BY <2>1, <2>2, <3>2
  <2> QED
    BY <2>3, <2>4, <2>5, <2>6
<1> QED
  BY <1>1, <1>2, <1>3, <1>4, <1>5 DEF Covered

(* The first claim of a photo is by a request that has a on its list.       *)
LEMMA ListedStep ==
  ASSUME Registers, Shared, Entities, NEW w \in Worker, Step(w), NEW p \in Photo, NEW a \in User,
         a \in Range(followsMe[Owner[p]]), Listed(p, a)
  PROVE  Covered(p, a)' \/ Listed(p, a)'
<1> USE DEF data, net, history
<1> DEFINE t == [op |-> "addPhoto", photo |-> p]
<1>a. /\ task[w] \in Tasks \cup {NoTask} /\ Fits(pc[w], task[w], todo[w], wire[w], down[w])
  BY AtFacts
<1>b. /\ p \notin image
      /\ Stored(p) => t \in queue
      /\ \A v \in Worker : task[v] = t =>
           /\ t \in queue
           /\ pc[v] \in {"find", "put", "claim"}
           /\ pc[v] \in {"put", "claim"} => a \in Range(todo[v])
  BY DEF Listed
<1>c. task[w] \in AddTasks /\ task[w].photo = p => task[w] = t
  BY TaskKinds
<1>t. t # NoTask /\ t.op = "addPhoto" /\ t.photo = p
  BY DEF NoTask
<1> HIDE DEF t
<1>1. CASE task[w] = t /\ pc[w] = "claim" /\ (Claim(w) \/ ClaimError(w))
  <2>1. a \in Range(todo[w]) /\ task[w].photo = p /\ ~Duplicate(p)
    BY <1>1, <1>b, <1>t DEF Duplicate
  <2>2. CASE Claim(w)
    <3>1. pc'[w] = "send" /\ task'[w].photo = p /\ a \in Range(todo'[w])
      BY <2>1, <2>2 DEF Claim, Goto, Registers
    <3> QED
      BY <3>1 DEF Covered
  <2>3. CASE ClaimError(w)
    <3>1. <<p, a>> \in lost'
      BY <2>1, <2>3 DEF ClaimError
    <3> QED
      BY <3>1 DEF Covered
  <2> QED
    BY <1>1, <2>2, <2>3
<1>2. CASE ~(task[w] = t /\ pc[w] = "claim" /\ (Claim(w) \/ ClaimError(w)))
  <2>1. p \notin image'
    <3>1. CASE Claim(w) \/ ClaimError(w)
      <4>1. pc[w] = "claim" /\ image' \subseteq image \cup {task[w].photo} /\ task[w] \in AddTasks
        BY <1>a, <3>1 DEF Claim, ClaimError, Fits
      <4>2. task[w].photo # p
        BY <1>2, <1>c, <3>1, <4>1
      <4> QED
        BY <1>b, <4>1, <4>2
    <3>2. CASE ~Claim(w) /\ ~ClaimError(w)
      <4>1. image' = image
        BY <3>2 DEF Step, Run, Finish, DatastoreError, Kill, Break, Start, FindUser, PutPhoto,
          SendAll, Serve, Receive, ReceiveError, DoPop, Deadline, AddDone, Query, PushOne, PushesDone,
          TrimOne, FollowDone, Greet
      <4> QED
        BY <1>b, <4>1
    <3> QED
      BY <3>1, <3>2
  <2>2. t \in queue => t \in queue'
    BY <1>b, StepFacts
  <2>3. Stored(p)' => t \in queue'
    <3>1. CASE Stored(p)
      BY <1>b, <2>2, <3>1
    <3>2. CASE PutPhoto(w) /\ task[w].photo = p
      <4>1. task[w] = t
        BY <1>a, <1>c, <3>2 DEF PutPhoto, Fits
      <4> QED
        BY <1>b, <2>2, <4>1
    <3> QED
      BY <3>1, <3>2, StoredStep
  <2>4. ASSUME NEW v \in Worker, v # w, task'[v] = t
        PROVE  /\ t \in queue' /\ pc'[v] \in {"find", "put", "claim"}
               /\ pc'[v] \in {"put", "claim"} => a \in Range(todo'[v])
    <3>1. pc'[v] = pc[v] /\ task'[v] = task[v] /\ todo'[v] = todo[v]
      BY <2>4, RegistersStep
    <3> QED
      BY <1>b, <2>2, <2>4, <3>1
  <2>5. ASSUME task'[w] = t
        PROVE  /\ t \in queue' /\ pc'[w] \in {"find", "put", "claim"}
               /\ pc'[w] \in {"put", "claim"} => a \in Range(todo'[w])
    <3>1. CASE task[w] = t
      <4>1. t \in queue /\ pc[w] \in {"find", "put", "claim"} /\ (pc[w] \in {"put", "claim"} => a \in Range(todo[w]))
        BY <1>b, <3>1
      <4>2. (pc[w] = "find" /\ FindUser(w)) \/ (pc[w] = "put" /\ PutPhoto(w))
        BY <1>2, <1>t, <2>5, <3>1, <4>1, Active
      <4>3. CASE FindUser(w)
        <5>1. pc'[w] = "put" /\ todo'[w] = Append(followsMe[Owner[p]], Owner[p])
          BY <1>t, <3>1, <4>3 DEF FindUser, Goto, Registers, Recipients
        <5>2. followsMe[Owner[p]] \in Seq(User) /\ Owner[p] \in User
          BY OwnerAssumption DEF Shared
        <5>3. Range(Append(followsMe[Owner[p]], Owner[p])) = Range(followsMe[Owner[p]]) \cup {Owner[p]}
          BY <5>2, AppendFacts
        <5> QED
          BY <2>2, <4>1, <5>1, <5>3
      <4>4. CASE pc[w] = "put" /\ PutPhoto(w)
        <5>1. pc'[w] = "claim" /\ todo' = todo
          BY <4>4 DEF PutPhoto, Goto, Registers
        <5> QED
          BY <2>2, <4>1, <4>4, <5>1
      <4> QED
        BY <4>2, <4>3, <4>4
    <3>2. CASE task[w] # t
      <4>1. task'[w] \in queue /\ queue' = queue /\ (task'[w].op = "addPhoto" => pc'[w] = "find")
        BY <1>t, <2>5, <3>2, StepFacts
      <4> QED
        BY <1>t, <2>5, <4>1
    <3> QED
      BY <3>1, <3>2
  <2> QED
    BY <2>1, <2>3, <2>4, <2>5 DEF Listed, t
<1> QED
  BY <1>1, <1>2

(* An iNowFollow stays queued until it has read the photos.                 *)
LEMMA UnreadStep ==
  ASSUME Registers, Shared, Entities, NEW w \in Worker, Step(w), NEW a \in User, NEW u \in User, Unread(a, u)
  PROVE  \/ Unread(a, u)'
         \/ Query(w) /\ task[w] = [op |-> "iNowFollow", user |-> a, who |-> u]
<1> DEFINE t == [op |-> "iNowFollow", user |-> a, who |-> u]
<1>b. t \in queue /\ \A v \in Worker : task[v] = t => pc[v] = "query"
  BY DEF Unread
<1>t. t # NoTask /\ t.op = "iNowFollow"
  BY DEF NoTask
<1> HIDE DEF t
<1>1. CASE task[w] = t /\ Query(w)
  BY <1>1 DEF t
<1>2. CASE ~(task[w] = t /\ Query(w))
  <2>1. t \in queue'
    BY <1>b, StepFacts
  <2>2. ASSUME NEW v \in Worker, task'[v] = t PROVE pc'[v] = "query"
    <3>1. CASE v # w
      BY <1>b, <2>2, <3>1, RegistersStep
    <3>2. CASE v = w /\ task[w] = t
      BY <1>b, <1>t, <1>2, <2>2, <3>2, Active
    <3>3. CASE v = w /\ task[w] # t
      BY <1>t, <2>2, <3>3, StepFacts
    <3> QED
      BY <3>1, <3>2, <3>3
  <2> QED
    BY <2>1, <2>2 DEF Unread, t
<1> QED
  BY <1>1, <1>2

(* Whoever is about to store p has read the followers before a was one, or  *)
(* p is yet to be claimed by requests that know him.                       *)
LEMMA YetToClaim ==
  ASSUME StoredFirst, NEW p \in Photo, ~Stored(p), NEW a
  PROVE  p \in Storing(Owner[p], a) \/ Listed(p, a)
<1> DEFINE t == [op |-> "addPhoto", photo |-> p]
<1>1. p \notin image /\ t.op = "addPhoto" /\ t.photo = p
  BY DEF StoredFirst
<1>2. \A v \in Worker : task[v] = t => pc[v] \in {"find", "put"} /\ t \in queue
  BY <1>1 DEF StoredFirst
<1>3. CASE \E v \in Worker : task[v] = t /\ pc[v] = "put" /\ a \notin Range(todo[v])
  BY <1>1, <1>3 DEF Storing
<1>4. CASE \A v \in Worker : task[v] = t /\ pc[v] = "put" => a \in Range(todo[v])
  BY <1>1, <1>2, <1>4 DEF Listed
<1> QED
  BY <1>3, <1>4

(* When it reads them, those stored are pushed or known to be passed by,    *)
(* and the others are yet to be claimed by requests that will find a.       *)
LEMMA QueryStep ==
  ASSUME Registers, Shared, Entities, StoredFirst, NEW w \in Worker, Query(w), NEW a \in User, NEW u \in User,
         task[w] = [op |-> "iNowFollow", user |-> a, who |-> u], NEW p \in Photo, Owner[p] = u,
         a \in Range(followsMe[u])
  PROVE  Covered(p, a)' \/ Listed(p, a)'
<1> DEFINE older == {photos[u][i] : i \in (Recent + 1) .. Len(photos[u])}
<1>1. /\ pc[w] = "query" /\ task[w].user = a /\ task[w].who = u
      /\ pc'[w] = "push" /\ todo'[w] = Newest(photos[u]) /\ task' = task
      /\ image' = image /\ photos' = photos /\ queue' = queue /\ down' = down
      /\ \A v \in Worker \ {w} : pc'[v] = pc[v] /\ todo'[v] = todo[v]
  BY DEF Query, Goto, Registers, net, data
<1>2. passed' = passed \cup {<<q, a>> : q \in Storing(u, a) \cup older}
  BY <1>1 DEF Query
<1>3. down[w] = FALSE
  BY <1>1, AtFacts DEF Fits
<1>4. CASE Stored(p)
  <2>1. photos[u] \in Seq(Photo) /\ p \in Range(photos[u])
    BY <1>4 DEF Shared, Stored
  <2>2. p \in Range(Newest(photos[u])) \/ p \in older
    BY <2>1, NewestFacts
  <2> HIDE DEF older
  <2>3. CASE p \in Range(Newest(photos[u]))
    BY <1>1, <1>3, <2>3 DEF Covered
  <2>4. CASE p \in older
    BY <1>2, <2>4 DEF Covered
  <2> QED
    BY <2>2, <2>3, <2>4
<1>5. CASE ~Stored(p)
  <2>1. p \in Storing(u, a) \/ Listed(p, a)
    BY <1>5, YetToClaim
  <2>2. CASE p \in Storing(u, a)
    BY <1>2, <2>2 DEF Covered
  <2>3. CASE Listed(p, a)
    <3>1. Step(w)
      BY DEF Step, Run
    <3> QED
      BY <2>3, <3>1, ListedStep
  <2> QED
    BY <2>1, <2>2, <2>3
<1> QED
  BY <1>4, <1>5

LEMMA CaredStep ==
  ASSUME Registers, Shared, Entities, StoredFirst, Cared, NEW w \in Worker, Step(w)
  PROVE  Cared'
<1> SUFFICES ASSUME NEW u \in User, NEW a \in Range(followsMe'[u])
             PROVE  Calling(a, u)' \/ Unread(a, u)'
                      \/ \A p \in Photo : Owner[p] = u => Covered(p, a)' \/ Listed(p, a)'
  BY DEF Cared
<1>1. a \in Range(followsMe[u]) /\ a \in User
  <2>1. followsMe' = followsMe /\ followsMe[u] \in Seq(User)
    BY StepFacts DEF Shared
  <2> QED
    BY <2>1, RangeOf
<1>2. CASE Unread(a, u)
  <2>1. CASE Unread(a, u)'
    BY <2>1
  <2>2. CASE Query(w) /\ task[w] = [op |-> "iNowFollow", user |-> a, who |-> u]
    BY <1>1, <2>2, QueryStep
  <2> QED
    BY <1>1, <1>2, <2>1, <2>2, UnreadStep
<1>4. CASE Calling(a, u)
  BY <1>4, StepFacts DEF Calling
<1>3. CASE ~Calling(a, u) /\ ~Unread(a, u)
  <2> SUFFICES ASSUME NEW p \in Photo, Owner[p] = u PROVE Covered(p, a)' \/ Listed(p, a)'
    OBVIOUS
  <2>1. Covered(p, a) \/ Listed(p, a)
    BY <1>1, <1>3 DEF Cared
  <2> QED
    BY <1>1, <2>1, CoveredStep, ListedStep
<1> QED
  BY <1>2, <1>3, <1>4
------------------------------------------------------------------------------
(* The handlers, and the start                                              *)

(* What a longer queue, or one more loss, cannot take away.                 *)
LEMMA Queued ==
  ASSUME NEW a, NEW p, NEW u, queue \subseteq queue', lost \subseteq lost',
         UNCHANGED <<photos, image, pc, task, todo, wire, down, reached, passed>>
  PROVE  /\ Unread(a, u) => Unread(a, u)'
         /\ Covered(p, a) => Covered(p, a)'
         /\ Listed(p, a) => Listed(p, a)'
<1>1. /\ photos' = photos /\ image' = image /\ pc' = pc /\ task' = task /\ todo' = todo
      /\ wire' = wire /\ down' = down /\ reached' = reached /\ passed' = passed
  OBVIOUS
<1>2. Unread(a, u) => Unread(a, u)'
  BY <1>1 DEF Unread
<1>3. Covered(p, a) => Covered(p, a)'
  BY <1>1 DEF Covered, OnWire
<1>4. Listed(p, a) => Listed(p, a)'
  BY <1>1 DEF Listed, Stored
<1> QED
  BY <1>2, <1>3, <1>4

LEMMA PostPhotoStep ==
  ASSUME TimelineInv, NEW p \in Photo, PostPhoto(p)
  PROVE  TimelineInv'
<1> USE DEF TimelineInv
<1> DEFINE t == [op |-> "addPhoto", photo |-> p]
<1>1. /\ followsMe' = followsMe /\ following' = following /\ photos' = photos /\ image' = image
      /\ tl' = tl /\ pc' = pc
      /\ task' = task /\ todo' = todo /\ count' = count /\ wire' = wire /\ replies' = replies
      /\ down' = down /\ faults' = faults /\ pushed' = pushed /\ reached' = reached
      /\ lost' = lost /\ longest' = longest /\ passed' = passed /\ queue' = queue \cup {t}
  BY DEF PostPhoto, data, net, history
<1>2. t \in Tasks /\ t.op = "addPhoto"
  BY DEF Tasks
<1> HIDE DEF t
<1>3. Registers'
  BY <1>1 DEF Registers, At
<1>4. Shared'
  BY <1>1, <1>2 DEF Shared
<1>5. Entities'
  BY <1>1, <1>2 DEF Entities, Once, ListedTwice
<1>6. StoredFirst'
  BY <1>1 DEF StoredFirst, Stored
<1>7. OneFanOut'
  BY <1>1 DEF OneFanOut, Unsent, Sending, OnWire, Rest, FanOutOnce, Times, ListedTwice
<1>8. Cared'
  <2>1. \A a, u, q : /\ Unread(a, u) => Unread(a, u)'
                     /\ Covered(q, a) => Covered(q, a)'
                     /\ Listed(q, a) => Listed(q, a)'
    BY <1>1, Queued
  <2> QED
    BY <1>1, <2>1 DEF Cared, Calling
<1>9. Followed'
  BY <1>1, <1>2 DEF Followed, Called
<1> QED
  BY <1>3, <1>4, <1>5, <1>6, <1>7, <1>8, <1>9

LEMMA FollowTxStep ==
  ASSUME TimelineInv, NEW a \in User, NEW u \in User, FollowTx(a, u)
  PROVE  TimelineInv'
<1> USE DEF TimelineInv
<1>1. /\ photos' = photos /\ image' = image /\ tl' = tl /\ pc' = pc
      /\ task' = task /\ todo' = todo /\ count' = count /\ wire' = wire /\ replies' = replies
      /\ down' = down /\ faults' = faults /\ pushed' = pushed /\ reached' = reached
      /\ lost' = lost /\ longest' = longest /\ passed' = passed /\ queue' = queue
  BY DEF FollowTx, net, history
<1>2. /\ <<a, u>> \in Follows /\ following[<<a, u>>] = "idle" /\ followsMe[u] \in Seq(User)
      /\ following' = [following EXCEPT ![<<a, u>>] = "call"]
      /\ following' \in [Follows -> {"idle", "call", "called"}]
  BY DEF FollowTx, Shared
<1>3. /\ followsMe' \in [User -> Seq(User)]
      /\ IsInjective(followsMe'[u])
      /\ Range(followsMe'[u]) = Range(followsMe[u]) \cup {a}
      /\ \A x \in User : x # u => followsMe'[x] = followsMe[x]
  <2>1. CASE a \in Range(followsMe[u])
    BY <2>1 DEF FollowTx, Shared, Entities
  <2>2. CASE a \notin Range(followsMe[u])
    <3>1. /\ Append(followsMe[u], a) \in Seq(User)
          /\ Range(Append(followsMe[u], a)) = Range(followsMe[u]) \cup {a}
          /\ IsInjective(Append(followsMe[u], a))
      BY <1>2, <2>2, AppendFacts DEF Entities
    <3>2. followsMe' = [followsMe EXCEPT ![u] = Append(followsMe[u], a)]
      BY <2>2 DEF FollowTx
    <3>3. followsMe'[u] = Append(followsMe[u], a) /\ \A x \in User : x # u => followsMe'[x] = followsMe[x]
      BY <3>2 DEF Shared
    <3>4. followsMe' \in [User -> Seq(User)]
      BY <3>1, <3>2 DEF Shared
    <3> QED
      BY <3>1, <3>3, <3>4
  <2> QED
    BY <2>1, <2>2
<1>6. \A x \in User : Range(followsMe[x]) \subseteq Range(followsMe'[x])
  BY <1>3
<1>t. ASSUME NEW p \in Photo, NEW x, ListedTwice(p, x) PROVE ListedTwice(p, x)'
  BY <1>t, <1>6, OwnerAssumption DEF ListedTwice
<1>7. Registers'
  BY <1>1 DEF Registers, At
<1>8. Shared'
  BY <1>1, <1>2, <1>3 DEF Shared
<1>9. Entities'
  <2>1. ASSUME NEW x \in User PROVE IsInjective(followsMe'[x])
    <3>1. IsInjective(followsMe[x])
      BY DEF Entities
    <3> QED
      BY <1>3, <3>1
  <2>2. ASSUME NEW s \in Tasks, s.op = "iNowFollow", s.user \in Range(followsMe[s.who])
        PROVE  s.user \in Range(followsMe'[s.who])
    <3>1. s.who \in User
      BY <2>2, TaskKinds
    <3> QED
      BY <1>6, <2>2, <3>1
  <2>3. ASSUME NEW s \in queue', s.op = "iNowFollow" PROVE s.user \in Range(followsMe'[s.who])
    <3>1. s \in queue /\ s \in Tasks
      BY <1>1, <2>3 DEF Shared
    <3> QED
      BY <2>2, <2>3, <3>1 DEF Entities
  <2>4. ASSUME NEW w \in Worker, task[w].op = "iNowFollow"
        PROVE  task[w].user \in Range(followsMe'[task[w].who])
    <3>1. task[w] \in Tasks
      BY <2>4, TaskKinds, AtFacts
    <3> QED
      BY <2>2, <2>4, <3>1 DEF Entities
  <2>5. \A x \in User : \A p \in Range(photos[x]) : Owner[p] = x
    BY DEF Entities
  <2>6. ASSUME NEW w \in Worker, pc[w] \in {"put", "claim", "send"}
        PROVE  Once(todo[w], task[w].photo)'
    <3>1. task[w].photo \in Photo /\ Once(todo[w], task[w].photo)
      BY <2>6, AtFacts, TaskKinds DEF Fits, Entities
    <3> QED
      BY <1>1, <1>t, <3>1 DEF Once
  <2> QED
    BY <1>1, <2>1, <2>3, <2>4, <2>5, <2>6 DEF Entities
<1>10. StoredFirst'
  BY <1>1 DEF StoredFirst, Stored
<1>11. OneFanOut'
  <2>3. ASSUME NEW p \in Photo, NEW x \in User
        PROVE  /\ pushed'[<<p, x>>] = pushed[<<p, x>>] /\ pushed[<<p, x>>] \in Nat
               /\ Times(p, x) \in Nat /\ Times(p, x)' \in Nat /\ Times(p, x)' >= Times(p, x)
    <3>1. pushed[<<p, x>>] \in Nat
      BY DEF Shared
    <3>2. Times(p, x) \in {1, 2} /\ Times(p, x)' \in {1, 2} /\ (Times(p, x) = 2 => Times(p, x)' = 2)
      BY <1>t DEF Times
    <3> QED
      BY <1>1, <3>1, <3>2
  <2>1. FanOutOnce'
    <3>1. \A p \in Photo, x \in User : pushed[<<p, x>>] <= Times(p, x)
      BY DEF OneFanOut, FanOutOnce
    <3>2. ASSUME NEW p \in Photo, NEW x \in User PROVE pushed'[<<p, x>>] <= Times(p, x)'
      <4>1. pushed[<<p, x>>] <= Times(p, x)
        BY <3>1
      <4> QED
        BY <2>3, <4>1
    <3> QED
      BY <3>2 DEF FanOutOnce
  <2>2. /\ \A p : Unsent(p)' <=> Unsent(p)
        /\ \A w, p : Sending(w, p)' <=> Sending(w, p)
        /\ \A w, i, x, p : OnWire(w, i, x, p)' <=> OnWire(w, i, x, p)
    BY <1>1 DEF Unsent, Sending, OnWire
  <2>4. ASSUME NEW x \in User, NEW p \in Photo, NEW w \in Worker, NEW i \in DOMAIN wire[w], OnWire(w, i, x, p)
        PROVE  Rest(w, i, x, p)'
    <3> DEFINE r == pushed[<<p, x>>]
    <3>1. Rest(w, i, x, p)
      BY <2>4 DEF OneFanOut
    <3>2. r < Times(p, x)' /\ (r + 2 <= Times(p, x) => r + 2 <= Times(p, x)')
      BY <2>3, <3>1 DEF Rest
    <3> QED
      BY <1>1, <2>2, <2>3, <3>1, <3>2 DEF Rest
  <2> QED
    BY <1>1, <2>1, <2>2, <2>4 DEF OneFanOut
<1>12. Cared'
  <2>1. \A b, x, q : /\ Unread(b, x) => Unread(b, x)'
                     /\ Covered(q, b) => Covered(q, b)'
                     /\ Listed(q, b) => Listed(q, b)'
    BY <1>1, Queued
  <2>2. /\ Calling(a, u)'
        /\ \A b, x : Calling(b, x) => Calling(b, x)'
    BY <1>2 DEF Calling, Shared
  <2>3. ASSUME NEW x \in User, NEW b \in Range(followsMe'[x])
        PROVE  Calling(b, x)' \/ Unread(b, x)'
                 \/ \A p \in Photo : Owner[p] = x => Covered(p, b)' \/ Listed(p, b)'
    <3>1. CASE x = u /\ b = a
      BY <2>2, <3>1
    <3>2. CASE b \in Range(followsMe[x])
      BY <2>1, <2>2, <3>2 DEF Cared
    <3> QED
      BY <1>3, <3>1, <3>2
  <2> QED
    BY <2>3 DEF Cared
<1>13. Followed'
  <2>1. ASSUME NEW f \in Follows, following'[f] # "idle" PROVE f[1] \in Range(followsMe'[f[2]])
    <3>1. f[1] \in User /\ f[2] \in User /\ f = <<f[1], f[2]>>
      BY FollowsAssumption
    <3>2. CASE f = <<a, u>>
      BY <1>3, <3>1, <3>2
    <3>3. CASE f # <<a, u>>
      <4>1. following'[f] = following[f]
        BY <1>2, <3>3 DEF Shared
      <4> QED
        BY <1>6, <2>1, <3>1, <4>1 DEF Followed
    <3> QED
      BY <3>2, <3>3
  <2>2. \A t : Called(t) => Called(t)'
    BY <1>2 DEF Called, Shared
  <2> QED
    BY <1>1, <2>1, <2>2 DEF Followed
<1> QED
  BY <1>7, <1>8, <1>9, <1>10, <1>11, <1>12, <1>13

(* What neither call nor loss of a call has to do with.                     *)
LEMMA CallsAside ==
  ASSUME TimelineInv, queue \subseteq queue',
         UNCHANGED <<followsMe, photos, image, pc, task, todo, count, net, pushed>>
  PROVE  Registers' /\ StoredFirst' /\ OneFanOut'
<1>1. /\ followsMe' = followsMe /\ photos' = photos /\ image' = image /\ pc' = pc
      /\ task' = task /\ todo' = todo /\ count' = count /\ wire' = wire /\ replies' = replies
      /\ down' = down /\ pushed' = pushed
  BY DEF net
<1>2. Registers'
  BY <1>1 DEF TimelineInv, Registers, At
<1>3. StoredFirst'
  BY <1>1 DEF TimelineInv, StoredFirst, Stored
<1>4. OneFanOut'
  BY <1>1 DEF TimelineInv, OneFanOut, Unsent, Sending, OnWire, Rest, FanOutOnce, Times, ListedTwice
<1> QED
  BY <1>2, <1>3, <1>4

LEMMA CallStep ==
  ASSUME TimelineInv, NEW a \in User, NEW u \in User, CallINowFollow(a, u)
  PROVE  TimelineInv'
<1> USE DEF TimelineInv
<1> DEFINE t == [op |-> "iNowFollow", user |-> a, who |-> u]
<1>1. /\ followsMe' = followsMe /\ photos' = photos /\ image' = image /\ tl' = tl /\ pc' = pc
      /\ task' = task /\ todo' = todo /\ count' = count /\ wire' = wire /\ replies' = replies
      /\ down' = down /\ faults' = faults /\ pushed' = pushed /\ reached' = reached
      /\ lost' = lost /\ longest' = longest /\ passed' = passed /\ queue' = queue \cup {t}
  BY DEF CallINowFollow, net, history
<1>2. /\ <<a, u>> \in Follows /\ following[<<a, u>>] = "call"
      /\ following' = [following EXCEPT ![<<a, u>>] = "called"]
      /\ following' \in [Follows -> {"idle", "call", "called"}]
  BY DEF CallINowFollow, Shared
<1>3. t \in Tasks /\ t.user = a /\ t.who = u /\ t.op = "iNowFollow"
  <2>1. t \in FollowTasks
    BY <1>2 DEF FollowTasks
  <2> QED
    BY <2>1, TaskKinds
<1>4. a \in Range(followsMe[u])
  BY <1>2 DEF Followed
<1> HIDE DEF t
<1>5. Registers' /\ StoredFirst' /\ OneFanOut'
  BY <1>1, CallsAside DEF net
<1>6. Shared'
  BY <1>1, <1>2, <1>3 DEF Shared
<1>7. Entities'
  BY <1>1, <1>3, <1>4 DEF Entities, Once, ListedTwice
<1>8. Followed'
  <2>1. Called(t)' /\ \A s : Called(s) => Called(s)'
    BY <1>2, <1>3 DEF Called, Shared
  <2>2. \A f \in Follows : following'[f] # "idle" => following[f] # "idle"
    BY <1>2 DEF Shared
  <2> QED
    BY <1>1, <2>1, <2>2 DEF Followed
<1>9. Cared'
  <2>1. \A b, x, q : /\ Unread(b, x) => Unread(b, x)'
                     /\ Covered(q, b) => Covered(q, b)'
                     /\ Listed(q, b) => Listed(q, b)'
    BY <1>1, Queued
  <2>2. Unread(a, u)'
    <3>1. ASSUME NEW w \in Worker, task[w] = t PROVE FALSE
      BY <1>2, <1>3, <3>1 DEF Followed, Called
    <3>2. t \in queue' /\ \A w \in Worker : task'[w] # t
      BY <1>1, <3>1
    <3> QED
      BY <3>2 DEF Unread, t
  <2>3. \A b, x : Calling(b, x) => Calling(b, x)' \/ Unread(b, x)'
    <3>1. ASSUME NEW b, NEW x, Calling(b, x), <<b, x>> # <<a, u>> PROVE Calling(b, x)'
      BY <1>2, <3>1 DEF Calling, Shared
    <3> QED
      BY <2>2, <3>1
  <2> QED
    BY <1>1, <2>1, <2>3 DEF Cared
<1> QED
  BY <1>5, <1>6, <1>7, <1>8, <1>9

(* The call is lost: what it would have pushed, or passed by, is lost.      *)
LEMMA LoseStep ==
  ASSUME TimelineInv, NEW a \in User, NEW u \in User, LoseCall(a, u)
  PROVE  TimelineInv'
<1> USE DEF TimelineInv
<1> DEFINE P == Range(photos[u]) \cup Storing(u, a)
<1>1. /\ followsMe' = followsMe /\ photos' = photos /\ image' = image /\ tl' = tl /\ pc' = pc
      /\ task' = task /\ todo' = todo /\ count' = count /\ wire' = wire /\ replies' = replies
      /\ down' = down /\ pushed' = pushed /\ reached' = reached
      /\ longest' = longest /\ passed' = passed /\ queue' = queue
  BY DEF LoseCall, net
<1>2. /\ <<a, u>> \in Follows /\ following[<<a, u>>] = "call"
      /\ following' = [following EXCEPT ![<<a, u>>] = "idle"]
      /\ following' \in [Follows -> {"idle", "call", "called"}]
      /\ faults' \in 0 .. MaxFaults
  BY BoundsAssumption DEF LoseCall, Fault, Shared
<1>3. lost' = lost \cup {<<p, a>> : p \in P} /\ P \subseteq Photo
  <2>1. Range(photos[u]) \subseteq Photo
    BY RangeOf DEF Shared
  <2> QED
    BY <2>1, StoringType DEF LoseCall
<1> HIDE DEF P
<1>4. lost \subseteq lost' /\ lost' \subseteq Photo \X User
  BY <1>3 DEF Shared
<1>5. Registers' /\ StoredFirst' /\ OneFanOut'
  BY <1>1, CallsAside DEF net
<1>6. Shared'
  BY <1>1, <1>2, <1>4 DEF Shared
<1>7. Entities'
  BY <1>1 DEF Entities, Once, ListedTwice
<1>8. Followed'
  <2>1. \A s : Called(s) => Called(s)'
    BY <1>2 DEF Called, Shared
  <2>2. \A f \in Follows : following'[f] # "idle" => following[f] # "idle"
    BY <1>2 DEF Shared
  <2> QED
    BY <1>1, <2>1, <2>2 DEF Followed
<1>9. Cared'
  <2>1. \A b, x, q : /\ Unread(b, x) => Unread(b, x)'
                     /\ Covered(q, b) => Covered(q, b)'
                     /\ Listed(q, b) => Listed(q, b)'
    BY <1>1, <1>4, Queued
  <2>2. ASSUME NEW p \in Photo, Owner[p] = u PROVE Covered(p, a)' \/ Listed(p, a)'
    <3>1. p \in P \/ Listed(p, a)
      BY <2>2, YetToClaim DEF P, Stored
    <3>2. CASE p \in P
      BY <1>3, <3>2 DEF Covered
    <3> QED
      BY <2>1, <3>1, <3>2
  <2>3. ASSUME NEW b, NEW x, Calling(b, x), <<b, x>> # <<a, u>> PROVE Calling(b, x)'
    BY <1>2, <2>3 DEF Calling, Shared
  <2>4. ASSUME NEW x \in User, NEW b \in Range(followsMe'[x])
        PROVE  Calling(b, x)' \/ Unread(b, x)'
                 \/ \A p \in Photo : Owner[p] = x => Covered(p, b)' \/ Listed(p, b)'
    <3>1. CASE b = a /\ x = u
      BY <2>2, <3>1
    <3>2. CASE ~(b = a /\ x = u)
      BY <1>1, <2>1, <2>3, <2>4, <3>2 DEF Cared
    <3> QED
      BY <3>1, <3>2
  <2> QED
    BY <2>4 DEF Cared
<1> QED
  BY <1>5, <1>6, <1>7, <1>8, <1>9

LEMMA InitInv == Init => TimelineInv
<1> SUFFICES ASSUME Init PROVE TimelineInv
  OBVIOUS
<1>1. /\ <<>> \in Seq(User \cup Photo) /\ <<>> \in Seq(Commands) /\ <<>> \in Seq(Nat)
      /\ <<>> \in Seq(Photo) /\ Range(<<>>) = {} /\ DOMAIN <<>> = {}
  BY EmptyList
<1>2. queue \subseteq GreetTasks /\ queue \subseteq Tasks
  BY TaskKinds DEF Init, GreetTasks
<1>3. \A t \in queue : t.op = "initialPhotos"
  BY <1>2, TaskKinds
<1>4. Registers
  <2>1. /\ pc \in [Worker -> PCs] /\ task \in [Worker -> Tasks \cup {NoTask}]
        /\ todo \in [Worker -> Seq(User \cup Photo)] /\ count \in [Worker -> Nat]
    BY <1>1 DEF Init, PCs
  <2>2. /\ wire \in [Worker -> Seq(Commands)] /\ replies \in [Worker -> Seq(Nat)]
        /\ down \in [Worker -> BOOLEAN]
    BY <1>1 DEF Init
  <2>3. \A w \in Worker : At(w)
    BY DEF Init, At, Fits
  <2> QED
    BY <2>1, <2>2, <2>3 DEF Registers
<1>5. Shared
  <2>1. tl \in [User -> Seq(Photo \cup {Old, Welcome})]
    <3>1. \A u \in User : [i \in 1 .. Backlog[u] |-> Old] \in Seq(Photo \cup {Old, Welcome})
      BY StartAssumption, IsASeq
    <3> QED
      BY <3>1 DEF Init
  <2>2. /\ followsMe \in [User -> Seq(User)] /\ photos \in [User -> Seq(Photo)]
        /\ following \in [Follows -> {"idle", "call", "called"}]
    BY <1>1, StartAssumption DEF Init
  <2>3. faults \in 0 .. MaxFaults
    BY BoundsAssumption DEF Init
  <2>4. pushed \in [Photo \X User -> Nat]
    BY DEF Init
  <2>5. image = {} /\ reached = {} /\ lost = {} /\ passed = {} /\ longest \in [User -> Nat]
    BY StartAssumption DEF Init
  <2> QED
    BY <1>2, <2>1, <2>2, <2>3, <2>4, <2>5 DEF Shared
<1>6. \A w \in Worker : task[w] = NoTask /\ task[w].op = "none" /\ pc[w] = "idle" /\ wire[w] = <<>>
  BY TaskKinds DEF Init
<1>7. \A u \in User : photos[u] = <<>> /\ followsMe[u] = Followers[u]
  BY DEF Init
<1>8. Entities
  BY <1>1, <1>3, <1>6, <1>7, StartAssumption DEF Entities
<1>13. Followed
  BY <1>3, <1>6 DEF Init, Followed
<1>9. image = {} /\ \A p \in Photo : ~Stored(p)
  BY <1>1, <1>7, OwnerAssumption DEF Init, Stored
<1>10. StoredFirst
  BY <1>6, <1>9 DEF StoredFirst
<1>11. OneFanOut
  <2>1. \A p \in Photo, u \in User : pushed[<<p, u>>] = 0
    BY DEF Init
  <2>2. \A w \in Worker : DOMAIN wire[w] = {} /\ \A p \in Photo : ~Sending(w, p)
    BY <1>1, <1>6 DEF Sending
  <2>3. \A p \in Photo : Unsent(p)
    BY <2>1, <2>2 DEF Unsent
  <2>4. FanOutOnce
    <3>1. ASSUME NEW p \in Photo, NEW u \in User PROVE pushed[<<p, u>>] <= Times(p, u)
      <4>1. pushed[<<p, u>>] = 0
        BY <2>1
      <4>2. Times(p, u) \in {1, 2}
        BY DEF Times
      <4> QED
        BY <4>1, <4>2
    <3> QED
      BY <3>1 DEF FanOutOnce
  <2> QED
    BY <2>2, <2>3, <2>4 DEF OneFanOut
<1>12. Cared
  <2>1. \A p \in Photo, a \in User : Listed(p, a)
    <3>1. ASSUME NEW p \in Photo, NEW w \in Worker PROVE task[w] # [op |-> "addPhoto", photo |-> p]
      BY <1>6
    <3> QED
      BY <1>9, <3>1 DEF Listed
  <2>2. \A u \in User : Range(followsMe[u]) \subseteq User
    BY <1>5, RangeOf DEF Shared
  <2> QED
    BY <2>1, <2>2 DEF Cared
<1> QED
  BY <1>4, <1>5, <1>8, <1>10, <1>11, <1>12, <1>13 DEF TimelineInv

LEMMA NextInv == TimelineInv /\ [Next]_vars => TimelineInv'
<1> SUFFICES ASSUME TimelineInv, [Next]_vars PROVE TimelineInv'
  OBVIOUS
<1>1. ASSUME NEW p \in Photo, PostPhoto(p) PROVE TimelineInv'
  BY <1>1, PostPhotoStep
<1>2. ASSUME NEW a \in User, NEW u \in User, FollowTx(a, u) \/ CallINowFollow(a, u) \/ LoseCall(a, u)
      PROVE  TimelineInv'
  BY <1>2, FollowTxStep, CallStep, LoseStep
<1>3. ASSUME NEW w \in Worker, Step(w) PROVE TimelineInv'
  BY <1>3, RegistersStep, SharedStep, EntitiesStep, FollowedStep, StoredFirstStep, OneFanOutStep, CaredStep DEF TimelineInv
<1>4. CASE UNCHANGED vars
  <2>1. /\ followsMe' = followsMe /\ following' = following /\ photos' = photos /\ image' = image
        /\ tl' = tl /\ pc' = pc
        /\ task' = task /\ todo' = todo /\ count' = count /\ wire' = wire /\ replies' = replies
        /\ down' = down /\ faults' = faults /\ pushed' = pushed /\ reached' = reached
        /\ lost' = lost /\ longest' = longest /\ passed' = passed /\ queue' = queue
    BY <1>4 DEF vars, data, net, history
  <2>2. Registers' /\ Shared' /\ Entities' /\ Followed'
    BY <2>1 DEF TimelineInv, Registers, At, Shared, Entities, Once, ListedTwice, Followed, Called
  <2>3. StoredFirst' /\ OneFanOut'
    BY <2>1 DEF TimelineInv, StoredFirst, Stored, OneFanOut, Unsent, Sending, OnWire, Rest, FanOutOnce, Times,
      ListedTwice
  <2>4. Cared'
    <3>1. \A a, u, q : /\ Unread(a, u) => Unread(a, u)'
                       /\ Covered(q, a) => Covered(q, a)'
                       /\ Listed(q, a) => Listed(q, a)'
      BY <2>1, Queued
    <3> QED
      BY <2>1, <3>1 DEF TimelineInv, Cared, Calling
  <2> QED
    BY <2>2, <2>3, <2>4 DEF TimelineInv
<1> QED
  BY <1>1, <1>2, <1>3, <1>4 DEF Next, Step

(* Every reachable state satisfies the invariant.                           *)
THEOREM TimelineInvariant == Spec => []TimelineInv
  BY InitInv, NextInv, PTL DEF Spec
------------------------------------------------------------------------------
(* The types of the variables, whatever the requests, the server and the    *)
(* faults do.                                                               *)
THEOREM TimelineTyped == Spec => []TypeOK
<1>1. TimelineInv => TypeOK
  BY DEF TimelineInv, Registers, Shared, TypeOK
<1> QED
  BY <1>1, TimelineInvariant, PTL

(* However often a photo is reported, retried or served by several requests *)
(* at once, addPhoto pushes it to a timeline at most once: only the request *)
(* whose HSETNX finds no date sends, and its list names everybody once, but *)
(* for an owner who follows himself: he is there twice.                    *)
THEOREM FannedOutOnce == Spec => []FanOutOnce
<1>1. TimelineInv => FanOutOnce
  BY DEF TimelineInv, OneFanOut
<1> QED
  BY <1>1, TimelineInvariant, PTL

(* When nothing is left to do, a follower has missed a photo only through a *)
(* fault on that very push, because his iNowFollow passed it by, or because *)
(* a fault after followById's transaction kept that from being queued.     *)
THEOREM MissedRarely == Spec => []MissedOnlyByRace
<1>1. TimelineInv => MissedOnlyByRace
  <2> SUFFICES ASSUME TimelineInv, Quiet, NEW u \in User, NEW a \in Range(followsMe[u]), NEW p \in Range(photos[u])
               PROVE  <<p, a>> \in reached \cup lost \cup passed
    BY DEF MissedOnlyByRace
  <2>1. queue = {} /\ \A w \in Worker : pc[w] = "idle" /\ wire[w] = <<>> /\ DOMAIN wire[w] = {}
    BY DEF Quiet
  <2>2. p \in Photo /\ Owner[p] = u /\ Stored(p)
    BY RangeOf DEF TimelineInv, Shared, Entities, Stored
  <2>3. ~Calling(a, u) /\ ~Unread(a, u) /\ ~Listed(p, a)
    BY <2>1, <2>2 DEF Calling, Quiet, Unread, Listed
  <2>4. Covered(p, a)
    BY <2>2, <2>3 DEF TimelineInv, Cared
  <2> QED
    BY <2>1, <2>4 DEF Covered
<1> QED
  BY <1>1, TimelineInvariant, PTL
===============================================================================
