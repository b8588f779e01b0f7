-------------------------- MODULE TimelinePageProofs --------------------------
(***************************************************************************)
(* What a reader of a timeline may rely on, for any timeline, batch and    *)
(* cap, and whatever is pushed, trimmed, liked and flagged meanwhile.      *)
(***************************************************************************)
EXTENDS TimelinePage, FeedbackProofs, NaturalsInduction, WellFoundedInduction,
        SequenceTheorems

Entries == [photo : Photo, likes : Int]

PageTypes ==
  /\ tl \in Seq(Photo) /\ list \in Seq(Photo)
  /\ pushes \in Nat /\ again \subseteq Photo
  /\ at \in {"nobody", "phone", "loop", "likes"}
  /\ lastid \in Photo \cup {Top}
  /\ ix \in Nat /\ i \in 0 .. Batch /\ ix + i <= Len(list)
  /\ page \in Seq(Entries) /\ Len(page) <= i
  /\ shown \subseteq Photo /\ done \in BOOLEAN
  /\ at = "likes" => Within
  /\ at \in {"loop", "likes"} => ~done

(* A photo the reader need not be shown any more, and those he should be.  *)
Seen(p) == p \in shown \/ TwiceFlagged(p)
Old == Photos(Base) \ again

(* What stands above the reader's place, if that is still there.           *)
SeenAbove(s) ==
  \A j \in DOMAIN s :
    /\ s[j] \in Old
    /\ \A k \in DOMAIN s : k <= j => s[k] # lastid
    /\ \E k \in DOMAIN s : s[k] = lastid
    => Seen(s[j])

(* The page starts at the reader's place, or at the top.                   *)
Placed ==
  /\ (\E k \in DOMAIN list : list[k] = lastid) => ix + 1 \in DOMAIN list /\ list[ix + 1] = lastid
  /\ (\A k \in DOMAIN list : list[k] # lastid) => ix = 0
  /\ \A k \in DOMAIN list : k <= ix => list[k] # lastid

(* The loop has put on the page what it has passed, or passed it over.     *)
OnPage(p) == \E k \in DOMAIN page : page[k].photo = p

Passed ==
  /\ \A j \in DOMAIN list : ix < j /\ j <= ix + i => OnPage(list[j]) \/ TwiceFlagged(list[j])
  /\ page # <<>> =>
       \E j \in DOMAIN list :
         /\ ix < j /\ j <= ix + i
         /\ list[j] = page[Len(page)].photo
         /\ \A k \in DOMAIN list : j < k /\ k <= ix + i => TwiceFlagged(list[k])

(* The timeline is what LRANGE returned, with photos pushed on top and the  *)
(* end trimmed; after an error it returned nothing.                        *)
ShiftedBy(n) ==
  \A j \in DOMAIN tl :
    IF j <= n THEN tl[j] \in again ELSE j - n \in DOMAIN list /\ tl[j] = list[j - n]
Shifted == list = <<>> \/ \E n \in Nat : ShiftedBy(n)

Reading == at \in {"loop", "likes"} => SeenAbove(list) /\ Placed /\ Passed /\ Shifted

PageInv ==
  /\ FeedbackInv /\ PageTypes
  /\ SeenAbove(tl) /\ Reading /\ EndMeansAll

------------------------------------------------------------------------------
(* A nonempty set of natural numbers has a least element.                  *)
LEMMA Least ==
  ASSUME NEW S \in SUBSET Nat, S # {}
  PROVE  \E k \in S : \A j \in S : k <= j
<1>1. PICK k \in S : \A j \in S : ~(<<j, k>> \in OpToRel(<, Nat))
  BY NatLessThanWellFounded, WFMin
<1>2. \A j \in S : ~(j < k)
  BY <1>1 DEF OpToRel
<1> QED
  BY <1>2

(* Start finds the first occurrence of lastid.                             *)
LEMMA StartFinds ==
  ASSUME NEW s \in Seq(Photo)
  PROVE  /\ Start(s) \in Nat /\ Start(s) <= Len(s)
         /\ (\E k \in DOMAIN s : s[k] = lastid) =>
              Start(s) + 1 \in DOMAIN s /\ s[Start(s) + 1] = lastid
         /\ (\A k \in DOMAIN s : s[k] # lastid) => Start(s) = 0
         /\ \A k \in DOMAIN s : k <= Start(s) => s[k] # lastid
<1> DEFINE places == {k \in DOMAIN s : s[k] = lastid}
<1>1. DOMAIN s = 1 .. Len(s) /\ Len(s) \in Nat
  BY LenProperties
<1>2. CASE places = {}
  BY <1>1, <1>2 DEF Start
<1>3. CASE places # {}
  <2> DEFINE m == CHOOSE k \in places : \A j \in places : k <= j
  <2>1. \E k \in places : \A j \in places : k <= j
    <3>1. places \in SUBSET Nat
      BY <1>1
    <3> QED
      BY <1>3, <3>1, Least
  <2>2. m \in places /\ \A j \in places : m <= j
    BY <2>1
  <2>3. Start(s) = m - 1
    BY <1>3 DEF Start
  <2> QED
    BY <1>1, <2>2, <2>3
<1> QED
  BY <1>2, <1>3

(* A sequence without repetition, by the measure Repeats takes.            *)
LEMMA NoRepeats ==
  ASSUME NEW S, NEW s \in Seq(S), ~Repeats(s)
  PROVE  \A j, k \in DOMAIN s : s[j] = s[k] => j = k
<1>1. DOMAIN s = 1 .. Len(s) /\ Len(s) \in Nat /\ s \in [1 .. Len(s) -> S]
  BY LenProperties
<1> DEFINE n == Len(s)
<1>2. IsFiniteSet(1 .. n) /\ Cardinality(1 .. n) = n
  BY <1>1, FS_Interval, 1 \in Int, n \in Int
<1>3. s \in Surjection(1 .. n, Photos(s))
  BY <1>1 DEF Surjection, Photos
<1>4. /\ IsFiniteSet(Photos(s)) /\ Cardinality(Photos(s)) <= n
      /\ Cardinality(Photos(s)) = n <=> s \in Injection(1 .. n, Photos(s))
  BY <1>2, <1>3, FS_Surjection
<1>5. Cardinality(Photos(s)) \in Nat /\ ~(Cardinality(Photos(s)) < n)
  BY <1>4, FS_CardinalityType DEF Repeats
<1>6. s \in Injection(1 .. n, Photos(s))
  BY <1>1, <1>4, <1>5
<1> QED
  BY <1>1, <1>6 DEF Injection, IsInjective

LEMMA PageInitial == PageInit => PageInv
<1> SUFFICES ASSUME PageInit PROVE PageInv
  OBVIOUS
<1>1. PICK l \in Workloads : InitWith(l) /\ pushes = l.pushes /\ at \in {"phone", "nobody"}
  BY DEF PageInit
<1>2. FeedbackInv
  BY <1>1, FeedbackInit
<1>3. /\ tl = Base /\ again = {} /\ lastid = Top /\ list = <<>> /\ ix = 0 /\ i = 0
      /\ page = <<>> /\ shown = {} /\ done = FALSE
  BY DEF PageInit
<1>4. PageTypes
  <2>1. list \in Seq(Photo) /\ page \in Seq(Entries) /\ Len(list) = 0 /\ Len(page) = 0
    BY <1>3, EmptySeq
  <2> QED
    <3>1. pushes \in Nat /\ at \in {"nobody", "phone", "loop", "likes"}
          /\ at \notin {"loop", "likes"}
      BY <1>1, PageAssumption
    <3>2. i \in 0 .. Batch /\ ix \in Nat /\ ix + i <= Len(list) /\ Len(page) <= i
      BY <1>3, <2>1, PageAssumption
    <3> QED
      BY <1>3, <2>1, <3>1, <3>2, PageAssumption DEF PageTypes
<1>5. SeenAbove(tl)
  BY <1>3, PageAssumption, ElementOfSeq, LenProperties DEF SeenAbove
<1> QED
  BY <1>1, <1>2, <1>3, <1>4, <1>5 DEF PageInv, Reading, EndMeansAll

------------------------------------------------------------------------------
(* While the reader waits: what he has seen he has seen, photos only get    *)
(* more flags, and what is pushed is no longer old.                        *)
LEMMA FlagsGrow ==
  ASSUME FeedbackInv, Next
  PROVE  \A p \in Photo : flag'[p] >= flag[p]
<1>1. flag \in [Photo -> Nat]
  BY DEF FeedbackInv, Types
<1>2. ASSUME NEW w \in Worker, HIncrBy(w) PROVE \A p \in Photo : flag'[p] >= flag[p]
  BY <1>1, <1>2 DEF HIncrBy
<1>3. ASSUME NEW w \in Worker, Step(w), ~HIncrBy(w) PROVE flag' = flag
  BY <1>3 DEF Step, HSet, PutLike, DeleteLike, HDel, LookAtClock, PutComment, Kill, redis
<1>4. ASSUME NEW w \in Worker, NEW r \in asked, Begin(w, r) PROVE flag' = flag
  BY <1>4 DEF Begin, redis
<1>5. Tick => flag' = flag
  BY DEF Tick, redis
<1> QED
  BY <1>1, <1>2, <1>3, <1>4, <1>5 DEF Next

LEMMA SeenGrows ==
  ASSUME FeedbackInv, \A p \in Photo : flag'[p] >= flag[p], flag' \in [Photo -> Nat],
         shown \subseteq shown'
  PROVE  \A p \in Photo : (TwiceFlagged(p) => TwiceFlagged(p)') /\ (Seen(p) => Seen(p)')
BY DEF Seen, TwiceFlagged, FeedbackInv, Types

LEMMA WaitStep ==
  ASSUME PageInv, FeedbackInv', PageTypes', UNCHANGED reader,
         \A p \in Photo : flag'[p] >= flag[p], again \subseteq again',
         SeenAbove(tl)', Shifted => Shifted'
  PROVE  PageInv'
<1>0. /\ UNCHANGED <<at, lastid, list, ix, i, page, shown, done>>
      /\ list \in Seq(Photo) /\ DOMAIN list = 1 .. Len(list) /\ Len(list) \in Nat
      /\ \A k \in DOMAIN list : list[k] \in Photo
      /\ ix \in Nat
  BY LenProperties, ElementOfSeq DEF reader, locals, PageInv, PageTypes
<1>1. \A p \in Photo : (TwiceFlagged(p) => TwiceFlagged(p)') /\ (Seen(p) => Seen(p)')
  BY <1>0, SeenGrows DEF PageInv, FeedbackInv, Types
<1>2. \A p : p \in Old' => p \in Old
  BY DEF Old
<1>3. SeenAbove(list) => SeenAbove(list)'
  BY <1>0, <1>1, <1>2 DEF SeenAbove
<1>4. Placed => Placed'
  BY <1>0 DEF Placed
<1>5. Passed => Passed'
  <2>1. \A p : OnPage(p) => OnPage(p)'
    BY <1>0 DEF OnPage
  <2> QED
    BY <1>0, <1>1, <2>1 DEF Passed
<1>6. Reading'
  BY <1>0, <1>3, <1>4, <1>5 DEF Reading, PageInv
<1>7. EndMeansAll'
  <2>1. SUFFICES ASSUME done', ~Repeats(list)', ~Blocked(list, ix + 1)',
                        NEW p \in (Photos(list)' \cap Photos(Base)) \ again'
                 PROVE  Seen(p)'
    BY DEF EndMeansAll, Seen
  <2>2. ~Repeats(list)
    BY <1>0, <2>1 DEF Repeats, Photos
  <2>3. ~Blocked(list, ix + 1)
    <3>1. SUFFICES ASSUME Blocked(list, ix + 1) PROVE FALSE
      OBVIOUS
    <3>2. \A j \in ix + 1 + 1 .. ix + 1 + Batch - 1 : list[j] \in Photo
      BY <1>0, <3>1, PageAssumption DEF Blocked
    <3>3. \A j \in ix + 1 + 1 .. ix + 1 + Batch - 1 : TwiceFlagged(list[j])'
      BY <1>0, <1>1, <3>1, <3>2 DEF Blocked
    <3> QED
      BY <1>0, <2>1, <3>1, <3>3 DEF Blocked
  <2>4. p \in (Photos(list) \cap Photos(Base)) \ again /\ p \in Photo
    BY <1>0, <2>1 DEF Photos
  <2>5. Seen(p)
    BY <1>0, <2>1, <2>2, <2>3, <2>4 DEF PageInv, EndMeansAll, Seen
  <2> QED
    BY <1>1, <2>4, <2>5
<1> QED
  BY <1>6, <1>7 DEF PageInv

(* Requests and the clock. *)
LEMMA RequestStep ==
  ASSUME PageInv, FeedbackInv', \A p \in Photo : flag'[p] >= flag[p],
         UNCHANGED <<timeline, reader>>
  PROVE  PageInv'
<1>0. UNCHANGED <<tl, pushes, again, at, lastid, list, ix, i, page, shown, done>>
  BY DEF timeline, reader, locals
<1>1. PageTypes'
  BY <1>0 DEF PageInv, PageTypes, Within
<1>2. \A p \in Photo : Seen(p) => Seen(p)'
  BY <1>0, SeenGrows DEF PageInv, FeedbackInv, Types
<1>3. tl \in Seq(Photo) /\ \A k \in DOMAIN tl : tl[k] \in Photo
  BY LenProperties, ElementOfSeq DEF PageInv, PageTypes
<1>4. SeenAbove(tl)'
  BY <1>0, <1>2, <1>3 DEF PageInv, SeenAbove, Old
<1>5. Shifted => Shifted'
  BY <1>0 DEF Shifted, ShiftedBy
<1> QED
  BY <1>0, <1>1, <1>4, <1>5, WaitStep

LEMMA PushStep ==
  ASSUME PageInv, NEW q \in Extra, Push(q)
  PROVE  PageInv'
<1>0. /\ pushes > 0 /\ pushes' = pushes - 1
      /\ tl' = <<q>> \o tl /\ again' = again \cup {q} /\ q \in Photo
      /\ UNCHANGED <<at, lastid, list, ix, i, page, shown, done, flag>> /\ UNCHANGED vars
      /\ UNCHANGED reader
  BY PageAssumption DEF Push, reader, locals, vars, redis
<1>1. tl \in Seq(Photo) /\ Len(tl) \in Nat /\ DOMAIN tl = 1 .. Len(tl)
  BY LenProperties DEF PageInv, PageTypes
<1>2. /\ tl' \in Seq(Photo) /\ DOMAIN tl' = 1 .. Len(tl) + 1 /\ tl'[1] = q
      /\ \A j \in 1 .. Len(tl) + 1 : j > 1 => tl'[j] = tl[j - 1]
  <2>1. <<q>> \in Seq(Photo) /\ Len(<<q>>) = 1 /\ <<q>>[1] = q
    BY <1>0
  <2>2. /\ tl' \in Seq(Photo) /\ Len(tl') = Len(tl) + 1
        /\ \A j \in 1 .. Len(tl) + 1 : tl'[j] = IF j <= 1 THEN <<q>>[j] ELSE tl[j - 1]
    BY <1>0, <1>1, <2>1, ConcatProperties
  <2>3. DOMAIN tl' = 1 .. Len(tl')
    BY <2>2, LenProperties
  <2> QED
    BY <1>1, <2>1, <2>2, <2>3
<1>3. FeedbackInv'
  BY <1>0, FeedbackInductive DEF PageInv
<1>4. PageTypes'
  BY <1>0, <1>2 DEF PageInv, PageTypes, Within
<1>5. SeenAbove(tl)'
  <2>1. SUFFICES ASSUME NEW j \in DOMAIN tl', tl'[j] \in Old',
                        \A k \in DOMAIN tl' : k <= j => tl'[k] # lastid,
                        NEW m \in DOMAIN tl', tl'[m] = lastid
                 PROVE  Seen(tl[j])'
    BY <1>0 DEF SeenAbove
  <2>2. j > 1
    BY <1>0, <1>2, <2>1 DEF Old
  <2>3. m > 1
    BY <1>1, <1>2, <2>1, <2>2
  <2>4. /\ j - 1 \in DOMAIN tl /\ m - 1 \in DOMAIN tl
        /\ tl[j - 1] = tl'[j] /\ tl[m - 1] = lastid
    BY <1>1, <1>2, <2>1, <2>2, <2>3
  <2>5. \A k \in DOMAIN tl : k <= j - 1 => tl[k] # lastid
    <3>1. ASSUME NEW k \in DOMAIN tl, k <= j - 1 PROVE tl[k] # lastid
      <4>1. k + 1 \in DOMAIN tl' /\ k + 1 <= j /\ tl'[k + 1] = tl[k]
        BY <1>1, <1>2, <2>1, <3>1
      <4> QED
        BY <2>1, <4>1
    <3> QED
      BY <3>1
  <2>6. Seen(tl[j - 1])
    BY <1>0, <2>1, <2>4, <2>5 DEF PageInv, SeenAbove, Old
  <2> QED
    BY <1>0, <2>4, <2>6 DEF Seen, TwiceFlagged
<1>6. Shifted => Shifted'
  <2>1. ASSUME NEW n \in Nat, ShiftedBy(n) PROVE ShiftedBy(n + 1)'
    BY <1>0, <1>1, <1>2, <2>1 DEF ShiftedBy
  <2> QED
    BY <1>0, <2>1 DEF Shifted
<1>7. \A p \in Photo : flag'[p] >= flag[p]
  BY <1>0 DEF PageInv, FeedbackInv, Types
<1> QED
  BY <1>0, <1>3, <1>4, <1>5, <1>6, <1>7, WaitStep

LEMMA TrimStep ==
  ASSUME PageInv, Trim
  PROVE  PageInv'
<1>0. /\ tl' = SubSeq(tl, 1, Len(tl) - 1) /\ Len(tl) > Cap
      /\ UNCHANGED <<pushes, again, at, lastid, list, ix, i, page, shown, done, flag>>
      /\ UNCHANGED vars /\ UNCHANGED reader
  BY DEF Trim, reader, locals, vars, redis
<1>1. tl \in Seq(Photo) /\ Len(tl) \in Nat /\ DOMAIN tl = 1 .. Len(tl) /\ Len(tl) >= 1
  BY <1>0, LenProperties, PageAssumption DEF PageInv, PageTypes
<1>2. /\ tl' \in Seq(Photo) /\ DOMAIN tl' = 1 .. Len(tl) - 1
      /\ \A j \in 1 .. Len(tl) - 1 : tl'[j] = tl[j]
  <2>1. /\ tl' \in Seq(Photo) /\ Len(tl') = Len(tl) - 1
        /\ \A j \in 1 .. Len(tl) - 1 : tl'[j] = tl[j]
    <3>1. \A j \in 1 .. Len(tl) : tl[j] \in Photo
      BY <1>1, ElementOfSeq
    <3> QED
      BY <1>0, <1>1, <3>1, SubSeqProperties, 1 \in Int, Len(tl) - 1 \in Int
  <2> QED
    BY <2>1, LenProperties
<1>3. FeedbackInv'
  BY <1>0, FeedbackInductive DEF PageInv
<1>4. PageTypes'
  BY <1>0, <1>2 DEF PageInv, PageTypes, Within
<1>5. SeenAbove(tl)'
  <2>1. SUFFICES ASSUME NEW j \in DOMAIN tl', tl'[j] \in Old',
                        \A k \in DOMAIN tl' : k <= j => tl'[k] # lastid,
                        NEW m \in DOMAIN tl', tl'[m] = lastid
                 PROVE  Seen(tl[j])'
    BY <1>0 DEF SeenAbove
  <2>2. /\ j \in DOMAIN tl /\ tl'[j] = tl[j] /\ m \in DOMAIN tl /\ tl[m] = lastid
        /\ \A k \in DOMAIN tl : k <= j => tl[k] # lastid
    BY <1>1, <1>2, <2>1
  <2>3. Seen(tl[j])
    BY <1>0, <2>1, <2>2 DEF PageInv, SeenAbove, Old
  <2> QED
    BY <1>0, <2>2, <2>3 DEF Seen, TwiceFlagged
<1>6. Shifted => Shifted'
  <2>1. ASSUME NEW n \in Nat, ShiftedBy(n) PROVE ShiftedBy(n)'
    BY <1>0, <1>1, <1>2, <2>1 DEF ShiftedBy
  <2> QED
    BY <1>0, <2>1 DEF Shifted
<1>7. \A p \in Photo : flag'[p] >= flag[p]
  BY <1>0 DEF PageInv, FeedbackInv, Types
<1> QED
  BY <1>0, <1>3, <1>4, <1>5, <1>6, <1>7, WaitStep

------------------------------------------------------------------------------
(* The reader's own steps.                                                 *)
LEMMA ReaderFrame ==
  ASSUME PageInv, PageFault \/ NoFault,
         UNCHANGED <<asked, pc, req, tod, redis, datastore, clock, history>>
  PROVE  FeedbackInv' /\ flag' = flag /\ likes' = likes
<1>1. faults' \in 0 .. MaxFaults
  BY FeedbackAssumption DEF PageFault, NoFault, PageInv, FeedbackInv, Types
<1> QED
  BY <1>1, FeedbackStutter DEF PageInv, redis

LEMMA LRangeStep ==
  ASSUME PageInv, LRange
  PROVE  PageInv'
<1>0. /\ ~done /\ at' = "loop" /\ list' \in {tl, <<>>}
      /\ ix' = Start(list') /\ i' = 0 /\ page' = <<>>
      /\ UNCHANGED <<tl, pushes, again, lastid, shown, done>>
  BY DEF LRange, timeline
<1>1. FeedbackInv' /\ flag' = flag
  <2>1. PageFault \/ NoFault
    BY DEF LRange
  <2> QED
    BY <2>1, ReaderFrame DEF LRange
<1>2. list' \in Seq(Photo) /\ Len(list') \in Nat
  BY <1>0, EmptySeq, LenProperties DEF PageInv, PageTypes
<1>3. /\ ix' \in Nat /\ ix' <= Len(list')
      /\ (\E k \in DOMAIN list' : list'[k] = lastid') =>
              ix' + 1 \in DOMAIN list' /\ list'[ix' + 1] = lastid'
      /\ (\A k \in DOMAIN list' : list'[k] # lastid') => ix' = 0
      /\ \A k \in DOMAIN list' : k <= ix' => list'[k] # lastid'
  BY <1>0, <1>2, StartFinds
<1>4. PageTypes'
  <2>1. page' \in Seq(Entries) /\ Len(page') = 0
    BY <1>0, EmptySeq
  <2>2. i' \in 0 .. Batch /\ ix' + i' <= Len(list') /\ Len(page') <= i'
    BY <1>0, <1>2, <1>3, <2>1, PageAssumption
  <2> QED
    BY <1>0, <1>2, <1>3, <2>1, <2>2 DEF PageInv, PageTypes
<1>5. SeenAbove(tl)'
  BY <1>0, <1>1 DEF PageInv, SeenAbove, Old, Seen, TwiceFlagged
<1>6. SeenAbove(list)'
  <2>1. CASE list' = tl
    BY <1>5, <1>0, <2>1 DEF SeenAbove
  <2>2. CASE list' = <<>>
    BY <2>2, EmptySeq, LenProperties DEF SeenAbove
  <2> QED
    BY <1>0, <2>1, <2>2
<1>7. Placed'
  BY <1>3 DEF Placed
<1>8. Passed'
  BY <1>0, <1>2, <1>3, LenProperties DEF Passed
<1>9. Shifted'
  <2>1. CASE list' = tl
    <3>1. DOMAIN tl = 1 .. Len(tl)
      BY LenProperties DEF PageInv, PageTypes
    <3>2. ShiftedBy(0)'
      BY <1>0, <2>1, <3>1 DEF ShiftedBy
    <3> QED
      BY <3>2 DEF Shifted
  <2> QED
    BY <1>0, <2>1 DEF Shifted
<1>10. EndMeansAll'
  BY <1>0 DEF EndMeansAll
<1> QED
  BY <1>1, <1>4, <1>5, <1>6, <1>7, <1>8, <1>9, <1>10 DEF PageInv, Reading

(* HMGET and HLEN: the loop goes on by one photo, or gives up.             *)
LEMMA LoopStep ==
  ASSUME PageInv, FeedbackInv', flag' = flag, PageTypes',
         UNCHANGED <<tl, pushes, again, lastid, list, ix, shown, done>>,
         at' \in {"loop", "likes"} => at \in {"loop", "likes"} /\ Passed'
  PROVE  PageInv'
<1>1. SeenAbove(tl)' /\ (SeenAbove(list) => SeenAbove(list)')
  BY DEF PageInv, SeenAbove, Old, Seen, TwiceFlagged
<1>2. (Placed => Placed') /\ (Shifted => Shifted')
  BY DEF Placed, Shifted, ShiftedBy
<1>3. Reading'
  BY <1>1, <1>2 DEF Reading, PageInv
<1>4. EndMeansAll'
  BY DEF PageInv, EndMeansAll, Repeats, Photos, Blocked, TwiceFlagged
<1> QED
  BY <1>1, <1>3, <1>4 DEF PageInv

LEMMA HMGetStep ==
  ASSUME PageInv, HMGet
  PROVE  PageInv'
<1>0. /\ at = "loop" /\ Within
      /\ UNCHANGED <<tl, pushes, again, lastid, list, ix, page, shown, done>>
      /\ \/ Hidden(Current) /\ i' = i + 1 /\ at' = at
         \/ ~Hidden(Current) /\ at' = "likes" /\ i' = i
         \/ at' = "phone" /\ i' = i
  BY DEF HMGet, timeline
<1>1. FeedbackInv' /\ flag' = flag
  <2>1. PageFault \/ NoFault
    BY DEF HMGet
  <2> QED
    BY <2>1, ReaderFrame DEF HMGet
<1>2. /\ ix \in Nat /\ i \in Nat /\ Batch \in Nat /\ Len(list) \in Nat
      /\ i < Batch /\ ix + i < Len(list) /\ DOMAIN list = 1 .. Len(list)
      /\ Len(page) \in Nat
      /\ ix + i + 1 \in DOMAIN list /\ list[ix + i + 1] \in Photo
  BY <1>0, LenProperties, PageAssumption DEF Within, PageInv, PageTypes
<1>3. PageTypes'
  <2>1. i' \in 0 .. Batch /\ ix' + i' <= Len(list') /\ Len(page') <= i'
    BY <1>0, <1>2 DEF PageInv, PageTypes
  <2>2. at' = "likes" => Within'
    BY <1>0 DEF Within
  <2> QED
    BY <1>0, <2>1, <2>2 DEF PageInv, PageTypes
<1>4. Passed'
  <2>1. Passed
    BY <1>0 DEF PageInv, Reading
  <2>2. CASE Hidden(Current) /\ i' = i + 1
    <3>1. TwiceFlagged(list[ix + i + 1])
      BY <1>1, <1>2, <2>2 DEF Hidden, Current, TwiceFlagged, PageInv, FeedbackInv, Types
    <3>2. \A j \in DOMAIN list : j <= ix + i' => j <= ix + i \/ j = ix + i + 1
      BY <1>2, <2>2
    <3> QED
      BY <1>0, <1>1, <1>2, <2>1, <2>2, <3>1, <3>2 DEF Passed, OnPage, TwiceFlagged
  <2>3. CASE i' = i
    BY <1>0, <1>1, <2>1, <2>3 DEF Passed, OnPage, TwiceFlagged
  <2> QED
    BY <1>0, <2>2, <2>3
<1> QED
  BY <1>0, <1>1, <1>3, <1>4, LoopStep

LEMMA CountIsInt ==
  ASSUME FeedbackInv, NEW p \in Photo
  PROVE  IsFiniteSet(likes[p]) /\ Cardinality(likes[p]) \in Nat /\ Count(p) \in Int
<1>1. IsFiniteSet(likes[p]) /\ Cardinality(likes[p]) \in Nat
  BY FeedbackAssumption, FS_Subset, FS_CardinalityType DEF FeedbackInv, Types
<1> QED
  BY <1>1 DEF Count, HLen

LEMMA EntryStep ==
  ASSUME PageInv, Entry
  PROVE  PageInv'
<1>0. /\ at = "likes" /\ at' = "loop" /\ i' = i + 1
      /\ UNCHANGED <<tl, pushes, again, lastid, list, ix, shown, done>>
      /\ PageFault \/ NoFault
  BY DEF Entry, timeline
<1>1. FeedbackInv' /\ flag' = flag
  BY <1>0, ReaderFrame DEF Entry
<1>2. /\ ix \in Nat /\ i \in Nat /\ Batch \in Nat /\ Len(list) \in Nat
      /\ i < Batch /\ ix + i < Len(list) /\ DOMAIN list = 1 .. Len(list)
      /\ page \in Seq(Entries) /\ Len(page) \in Nat /\ Len(page) <= i
      /\ DOMAIN page = 1 .. Len(page)
      /\ ix + i + 1 \in DOMAIN list /\ Current \in Photo /\ Current = list[ix + i + 1]
  BY <1>0, LenProperties, PageAssumption DEF Within, PageInv, PageTypes, Current
<1>3. PICK e \in Entries : page' = Append(page, e) /\ e.photo = Current
  BY <1>2, CountIsInt DEF Entry, Entries, PageInv
<1>4. /\ page' \in Seq(Entries) /\ Len(page') = Len(page) + 1
      /\ page'[Len(page')].photo = Current
      /\ DOMAIN page' = 1 .. Len(page) + 1
      /\ \A k \in DOMAIN page : page'[k] = page[k]
  BY <1>2, <1>3, AppendProperties, LenProperties
<1>5. PageTypes'
  <2>1. i' \in 0 .. Batch /\ ix' + i' <= Len(list') /\ Len(page') <= i'
    BY <1>0, <1>2, <1>4
  <2> QED
    BY <1>0, <1>4, <2>1 DEF PageInv, PageTypes
<1>6. Passed'
  <2>1. Passed
    BY <1>0 DEF PageInv, Reading
  <2>2. \A j \in DOMAIN list : j <= ix + i' => j <= ix + i \/ j = ix + i + 1
    BY <1>0, <1>2
  <2>3. \A p : OnPage(p) => \E k \in DOMAIN page' : page'[k].photo = p
    BY <1>2, <1>4 DEF OnPage
  <2>4. \E k \in DOMAIN page' : page'[k].photo = list[ix + i + 1]
    BY <1>2, <1>4
  <2>5. \A j \in DOMAIN list : ix < j /\ j <= ix + i' =>
          (\E k \in DOMAIN page' : page'[k].photo = list[j]) \/ TwiceFlagged(list[j])
    BY <2>1, <2>2, <2>3, <2>4 DEF Passed
  <2>6. /\ ix < ix + i + 1 /\ ix + i + 1 <= ix + i'
        /\ list[ix + i + 1] = page'[Len(page')].photo
        /\ \A k \in DOMAIN list : ~(ix + i + 1 < k /\ k <= ix + i')
    BY <1>0, <1>2, <1>4
  <2> QED
    BY <1>0, <1>1, <1>2, <2>5, <2>6 DEF Passed, TwiceFlagged, OnPage
<1> QED
  BY <1>0, <1>1, <1>5, <1>6, LoopStep

(* The phone takes the page.  If there was nothing on it but the photo it  *)
(* asked from, and the loop was not kept from getting further by flagged   *)
(* photos, then all of the list has been passed.                           *)
LEMMA ShowStep ==
  ASSUME PageInv, Show
  PROVE  PageInv'
<1>0. /\ at = "loop" /\ ~Within /\ at' = "phone" /\ ~done
      /\ UNCHANGED <<tl, pushes, again, list, ix, i, page, flag>> /\ UNCHANGED vars
      /\ done' = (lastid # Top /\ lastid' = lastid)
      /\ lastid' = IF page = <<>> THEN lastid ELSE page[Len(page)].photo
      /\ shown' = shown \cup {page[k].photo : k \in DOMAIN page}
  BY DEF Show, timeline, locals, vars, redis, PageInv, PageTypes
<1>1. FeedbackInv'
  BY <1>0, FeedbackInductive DEF PageInv
<1>2. /\ ix \in Nat /\ i \in Nat /\ Batch \in Nat /\ Len(list) \in Nat /\ Batch > 1
      /\ list \in Seq(Photo)
      /\ i = Batch \/ ix + i = Len(list)
      /\ i <= Batch /\ ix + i <= Len(list) /\ DOMAIN list = 1 .. Len(list)
      /\ \A j \in DOMAIN list : list[j] \in Photo
      /\ page \in Seq(Entries) /\ Len(page) \in Nat /\ DOMAIN page = 1 .. Len(page)
      /\ \A k \in DOMAIN page : page[k].photo \in Photo
      /\ page # <<>> => Len(page) \in DOMAIN page
  <2>1. \A k \in DOMAIN page : page[k] \in Entries
    BY ElementOfSeq, LenProperties DEF PageInv, PageTypes
  <2> QED
    BY <1>0, <2>1, LenProperties, ElementOfSeq, EmptySeq, PageAssumption
       DEF Within, PageInv, PageTypes, Entries
<1>c. /\ \A j \in DOMAIN list : j \in Int /\ 1 <= j /\ j <= Len(list)
      /\ \A j \in Int : 1 <= j /\ j <= Len(list) => j \in DOMAIN list
      /\ \A j \in DOMAIN tl : j \in Int /\ 1 <= j /\ j <= Len(tl)
      /\ \A j \in Int : 1 <= j /\ j <= Len(tl) => j \in DOMAIN tl
      /\ Len(tl) \in Nat
  <2>1. DOMAIN tl = 1 .. Len(tl) /\ Len(tl) \in Nat
    BY LenProperties DEF PageInv, PageTypes
  <2>2. DOMAIN list = 1 .. Len(list) /\ Len(list) \in Nat
    BY <1>2
  <2> QED
    BY <2>1, <2>2
<1>d. ix \in Int /\ i \in Int /\ Len(list) \in Int /\ 0 <= ix
  BY LenProperties DEF PageInv, PageTypes
<1>e. /\ \A j \in DOMAIN list : j \in Int /\ 1 <= j /\ j <= Len(list)
      /\ \A j \in DOMAIN tl : j \in Int
  BY <1>c
<1>3. SeenAbove(list) /\ Placed /\ Passed /\ Shifted /\ SeenAbove(tl)
  BY <1>0 DEF PageInv, Reading
<1>4. PageTypes'
  BY <1>0, <1>2 DEF PageInv, PageTypes
<1>5. \A p : OnPage(p) => p \in shown'
  BY <1>0 DEF OnPage
<1>a. \A j \in DOMAIN list : ix < j /\ j <= ix + i => list[j] \in shown' \/ TwiceFlagged(list[j])
  BY <1>3, <1>5 DEF Passed
<1>b. \A j \in DOMAIN list : j <= ix /\ list[j] \in Old => Seen(list[j])
  <2>1. SUFFICES ASSUME NEW j \in DOMAIN list, j <= ix, list[j] \in Old
                 PROVE  Seen(list[j])
    OBVIOUS
  <2>2. \E k \in DOMAIN list : list[k] = lastid
    BY <1>d, <1>e, <1>3, <2>1 DEF Placed
  <2>3. \A k \in DOMAIN list : k <= j => list[k] # lastid
    BY <1>d, <1>e, <1>3, <2>1 DEF Placed
  <2> QED
    BY <1>3, <2>1, <2>2, <2>3 DEF SeenAbove
<1>6. SeenAbove(tl)'
  <2>1. CASE page = <<>>
    BY <1>0, <1>3, <2>1 DEF SeenAbove, Old, Seen, TwiceFlagged
  <2>2. CASE page # <<>>
    <3>1. SUFFICES ASSUME NEW j \in DOMAIN tl, tl[j] \in Old,
                          \A k \in DOMAIN tl : k <= j => tl[k] # lastid'
                   PROVE  tl[j] \in shown' \/ TwiceFlagged(tl[j])
      BY <1>0 DEF SeenAbove, Old, Seen, TwiceFlagged
    <3>2. PICK m \in DOMAIN list : ix < m /\ m <= ix + i /\ list[m] = lastid'
      BY <1>0, <1>3, <2>2 DEF Passed
    <3>3. list # <<>>
      BY <1>c, <3>2, Len(<<>>) = 0
    <3>4. PICK n \in Nat : ShiftedBy(n)
      BY <1>3, <3>3 DEF Shifted
    <3>6. j > n /\ j - n \in DOMAIN list /\ tl[j] = list[j - n]
      BY <1>c, <3>1, <3>4 DEF ShiftedBy, Old
    <3>7. j - n < m
      <4>1. SUFFICES ASSUME m <= j - n PROVE FALSE
        BY <1>c, <3>2, <3>6
      <4>2. m + n \in DOMAIN tl /\ m + n <= j /\ m + n > n /\ m + n - n = m
        BY <1>c, <3>2, <3>6, <4>1
      <4>3. tl[m + n] = list[m]
        BY <1>c, <3>4, <4>2 DEF ShiftedBy
      <4> QED
        BY <3>1, <3>2, <4>2, <4>3
    <3>8. CASE j - n <= ix
      <4>1. Seen(list[j - n])
        BY <1>b, <3>1, <3>6, <3>8
      <4> QED
        BY <1>0, <3>6, <4>1 DEF Seen
    <3>9. CASE j - n > ix
      <4>1. ix < j - n /\ j - n <= ix + i
        BY <1>d, <1>e, <3>2, <3>6, <3>7, <3>9
      <4> QED
        BY <1>a, <3>6, <4>1
    <3> QED
      BY <1>d, <1>e, <3>6, <3>8, <3>9
  <2> QED
    BY <2>1, <2>2
<1>7. EndMeansAll'
  <2>1. SUFFICES ASSUME done', ~Repeats(list), ~Blocked(list, ix + 1),
                        NEW p \in (Photos(list) \cap Photos(Base)) \ again
                 PROVE  p \in shown' \/ TwiceFlagged(p)
    BY <1>0 DEF EndMeansAll, Repeats, Photos, Blocked, TwiceFlagged
  <2>2. lastid' = lastid /\ \A j, k \in DOMAIN list : list[j] = list[k] => j = k
    BY <1>0, <1>2, <2>1, NoRepeats
  <2>3. \A k \in DOMAIN list : ix + 1 < k /\ k <= ix + i => TwiceFlagged(list[k])
    <3>1. CASE page = <<>>
      <4>1. DOMAIN page = {}
        BY <3>1
      <4>2. \A j \in DOMAIN list : ix < j /\ j <= ix + i => TwiceFlagged(list[j])
        BY <1>3, <4>1 DEF Passed, OnPage
      <4> QED
        BY <1>d, <1>e, <4>2
    <3>2. CASE page # <<>>
      <4>1. PICK m \in DOMAIN list :
              /\ ix < m /\ m <= ix + i /\ list[m] = lastid
              /\ \A k \in DOMAIN list : m < k /\ k <= ix + i => TwiceFlagged(list[k])
        BY <1>0, <1>3, <2>2, <3>2 DEF Passed
      <4>2. ix + 1 \in DOMAIN list /\ list[ix + 1] = lastid
        BY <1>3, <4>1 DEF Placed
      <4>3. m = ix + 1
        BY <2>2, <4>1, <4>2
      <4> QED
        BY <4>1, <4>3
    <3> QED
      BY <3>1, <3>2
  <2>4. ix + i = Len(list)
    <3>1. SUFFICES ASSUME i = Batch PROVE FALSE
      BY <1>2
    <3>2. ix + 1 + Batch - 1 <= Len(list)
      BY <1>2, <3>1
    <3>3. \A j \in ix + 1 + 1 .. ix + 1 + Batch - 1 : TwiceFlagged(list[j])
      BY <1>2, <2>3, <3>1
    <3> QED
      BY <2>1, <3>2, <3>3 DEF Blocked
  <2>5. PICK j \in DOMAIN list : p = list[j]
    BY <2>1 DEF Photos
  <2>6. CASE j <= ix
    BY <1>0, <1>b, <2>1, <2>5, <2>6 DEF Seen, Old
  <2>7. CASE j > ix
    BY <1>2, <1>c, <1>a, <2>4, <2>5, <2>7
  <2> QED
    BY <1>d, <1>e, <2>6, <2>7
<1> QED
  BY <1>0, <1>1, <1>4, <1>6, <1>7 DEF PageInv, Reading

(* Every step, the reader's and the others', preserves the invariant.      *)
LEMMA PageInductive == PageInv /\ [PageNext]_allvars => PageInv'
<1> SUFFICES ASSUME PageInv, [PageNext]_allvars PROVE PageInv'
  OBVIOUS
<1>1. CASE Next /\ UNCHANGED <<timeline, reader>>
  BY <1>1, FeedbackNext, FlagsGrow, RequestStep DEF PageInv
<1>2. CASE \E p \in Extra : Push(p)
  BY <1>2, PushStep
<1>3. CASE Trim
  BY <1>3, TrimStep
<1>4. CASE Reads
  BY <1>4, LRangeStep, HMGetStep, EntryStep, ShowStep DEF Reads
<1>5. CASE UNCHANGED allvars
  <2>1. UNCHANGED vars /\ UNCHANGED <<timeline, reader>> /\ flag' = flag
    BY <1>5 DEF allvars, vars, redis
  <2>2. FeedbackInv' /\ \A p \in Photo : flag'[p] >= flag[p]
    BY <2>1, FeedbackInductive DEF PageInv, FeedbackInv, Types
  <2> QED
    BY <2>1, <2>2, RequestStep
<1> QED
  BY <1>1, <1>2, <1>3, <1>4, <1>5 DEF PageNext

(* PageInv holds however requests, reads, pushes and trims interleave: in   *)
(* particular, what is above the reader's place in his copy of the timeline *)
(* has been shown to him, or is hidden, or was pushed since he began.      *)
THEOREM PageInvariant == PageSpec => []PageInv
  BY PageInitial, PageInductive, PTL DEF PageSpec

(* The variables keep their types; the loop stays within its batch.        *)
THEOREM PageTyped == PageSpec => []TypeOK
<1>1. PageInv => TypeOK
  <2> SUFFICES ASSUME PageInv PROVE TypeOK
    OBVIOUS
  <2>1. Len(page) <= Batch
    BY LenProperties, PageAssumption DEF PageInv, PageTypes
  <2>2. /\ tl \in Seq(Photo) /\ list \in Seq(Photo) /\ pushes \in Nat /\ again \subseteq Photo
        /\ at \in {"nobody", "phone", "loop", "likes"} /\ lastid \in Photo \cup {Top}
        /\ ix \in Nat /\ i \in 0 .. Batch /\ shown \subseteq Photo /\ done \in BOOLEAN
    BY DEF PageInv, PageTypes
  <2> QED
    BY <2>1, <2>2 DEF PageInv, FeedbackInv, Types, Places, TypeOK
<1> QED
  BY <1>1, PageInvariant, PTL

(* Reading does not come in the way of the last word, nor of comments.     *)
THEOREM PageLastWord == PageSpec => []LastWordHolds
<1>1. PageInv => LastWordHolds
  BY FeedbackLastWord DEF PageInv
<1> QED
  BY <1>1, PageInvariant, PTL

(* With a reader beside them, too, comments replace only those that other   *)
(* people made on the photo in the same second.                            *)
THEOREM PageComments == PageSpec => []CommentsLostOnlyBySameSecond
<1>1. PageInv => CommentsLostOnlyBySameSecond
  BY DEF PageInv, FeedbackInv
<1> QED
  BY <1>1, PageInvariant, PTL

(* A reader who is told that there is no more has been shown all there was, *)
(* whatever was pushed and trimmed, between his pages and during them.      *)
THEOREM PageEnd == PageSpec => []EndMeansAll
<1>1. PageInv => EndMeansAll
  BY DEF PageInv
<1> QED
  BY <1>1, PageInvariant, PTL

(* Of a settled photo Redis and the datastore know the same likers.        *)
LEMMA SettledLikes ==
  ASSUME FeedbackInv, NEW p \in Photo, Settled(p)
  PROVE  likes[p] = liked[p]
<1>1. ASSUME NEW u \in User PROVE u \in likes[p] <=> u \in liked[p]
  <2>1. /\ <<u, p>> \in Pair \ clouded /\ Quiet(<<u, p>>)
        /\ <<u, p>>[1] = u /\ <<u, p>>[2] = p
    BY DEF Settled, Pair
  <2> QED
    BY <2>1, FeedbackLastWord DEF LastWordHolds
<1> QED
  BY <1>1 DEF FeedbackInv, Types

LEMMA LikesCounted == PageInv /\ [PageNext]_allvars => [CountedLikes]_allvars
<1> SUFFICES ASSUME PageInv, PageNext, at = "likes", at' = "loop", faults' = faults,
                    Settled(Current)
             PROVE  LET wrong == page'[Len(page')].likes - Cardinality(liked[Current]) IN
                    IF Current \in Dated /\ flag[Current] = 0 THEN wrong = 0
                    ELSE wrong \in -1 .. 1
  BY DEF CountedLikes
<1>1. Entry
  BY DEF PageNext, Reads, LRange, HMGet, Show, Push, Trim, reader, locals, timeline
<1>2. Current \in Photo
  <2>1. ix + i + 1 \in 1 .. Len(list) /\ DOMAIN list = 1 .. Len(list)
    BY LenProperties DEF PageInv, PageTypes, Within
  <2> QED
    BY <2>1, ElementOfSeq DEF PageInv, PageTypes, Current
<1>3. faults' # faults + 1
  BY DEF PageInv, FeedbackInv, Types
<1>4. page' = Append(page, [photo |-> Current, likes |-> Count(Current)])
  BY <1>1, <1>3 DEF Entry, PageFault
<1>5. page'[Len(page')].likes = Count(Current)
  <2> DEFINE e == [photo |-> Current, likes |-> Count(Current)]
  <2>1. e \in Entries /\ e.likes = Count(Current) /\ page \in Seq(Entries)
    BY <1>2, CountIsInt DEF PageInv, PageTypes, Entries
  <2> HIDE DEF e
  <2>2. Append(page, e)[Len(Append(page, e))] = e
    BY <2>1, AppendProperties
  <2> QED
    BY <1>4, <2>1, <2>2 DEF e
<1>6. likes[Current] = liked[Current] /\ Cardinality(likes[Current]) \in Nat
  BY <1>2, SettledLikes, CountIsInt DEF PageInv
<1>7. flag[Current] \in Nat
  BY <1>2 DEF PageInv, FeedbackInv, Types
<1> QED
  BY <1>5, <1>6, <1>7 DEF Count, HLen

(* The number of likes on a page is the number of Like entities of a photo *)
(* that is dated, unflagged and settled, and at most one off otherwise.    *)
THEOREM PageLikes == PageSpec => LikesShown
  BY PageInvariant, LikesCounted, PTL DEF PageSpec, LikesShown
===============================================================================
