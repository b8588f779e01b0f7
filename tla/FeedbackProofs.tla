---------------------------- MODULE FeedbackProofs ----------------------------
(***************************************************************************)
(* What likes and comments come to, for any number of users, photos,       *)
(* handlers and failures.                                                  *)
(***************************************************************************)
EXTENDS Feedback, FiniteSetTheorems, TLAPS

Places == {"idle", "like", "put", "delete", "unlike", "flag", "time", "comment"}

CommentSet == [tod : Nat, by : Request]

Types ==
  /\ asked \subseteq Request
  /\ pc \in [Worker -> Places]
  /\ req \in [Worker -> Request \cup {NoRequest}]
  /\ \A w \in Worker : pc[w] = "idle" <=> req[w] = NoRequest
  /\ tod \in [Worker -> Nat]
  /\ likes \in [Photo -> SUBSET User]
  /\ flag \in [Photo -> Nat]
  /\ liked \in [Photo -> SUBSET User]
  /\ comments \in [Photo -> SUBSET CommentSet]
  /\ clock \in 0 .. MaxClock
  /\ faults \in 0 .. MaxFaults
  /\ word \in [Pair -> {"like", "unlike"}]
  /\ clouded \in SUBSET Pair
  /\ said \in SUBSET CommentSet

(* A worker is in the middle of a like or an unlike of the user's. *)
Speaks(w, u, p) ==
  /\ pc[w] \in {"like", "put", "delete", "unlike"}
  /\ req[w].user = u /\ req[w].photo = p

(* What makes LastWordHolds inductive: of a user and a photo that are not  *)
(* clouded at most one worker speaks, the last one that began, and what it *)
(* has already done is still there.                                        *)
HalfSaid(w, u, p) ==
  /\ pc[w] \in {"like", "put"} <=> word[<<u, p>>] = "like"
  /\ pc[w] = "put" => u \in likes[p]
  /\ pc[w] = "unlike" => u \notin liked[p]

Said(u, p) ==
  /\ u \in likes[p] <=> word[<<u, p>>] = "like"
  /\ u \in liked[p] <=> word[<<u, p>>] = "like"

Kept(u, p) ==
  /\ \A v, w \in Worker : Speaks(v, u, p) /\ Speaks(w, u, p) => v = w
  /\ \A w \in Worker : Speaks(w, u, p) => HalfSaid(w, u, p)
  /\ (\A w \in Worker : ~Speaks(w, u, p)) => Said(u, p)

WordKept == \A u \in User, p \in Photo : <<u, p>> \notin clouded => Kept(u, p)

FeedbackInv == Types /\ WordKept /\ CommentsLostOnlyBySameSecond

LEMMA FeedbackInit == \A l \in Workloads : InitWith(l) => FeedbackInv
<1> SUFFICES ASSUME NEW l \in Workloads, InitWith(l) PROVE FeedbackInv
  OBVIOUS
<1>1. Types
  BY FeedbackAssumption, RequestAssumption DEF InitWith, Types, Places, Pair
<1>2. WordKept
  BY DEF InitWith, WordKept, Kept, Said, Speaks, Pair
<1>3. CommentsLostOnlyBySameSecond
  BY DEF InitWith, CommentsLostOnlyBySameSecond
<1> QED
  BY <1>1, <1>2, <1>3 DEF FeedbackInv

------------------------------------------------------------------------------
(* A handler's next call, in terms of what the invariant reads.            *)
LEMMA RunningFacts ==
  ASSUME Types, NEW w \in Worker, pc[w] # "idle"
  PROVE  /\ req[w] \in Request
         /\ req[w].user \in User /\ req[w].photo \in Photo
         /\ About(req[w]) = <<req[w].user, req[w].photo>> /\ About(req[w]) \in Pair
BY DEF Types, Request, About, Pair

LEMMA TypesStep ==
  ASSUME Types, NEW w \in Worker, Step(w)
  PROVE  Types'
<1>1. /\ pc[w] # "idle" /\ req[w] \in Request
      /\ req[w].user \in User /\ req[w].photo \in Photo /\ About(req[w]) \in Pair
  <2>1. pc[w] # "idle"
    BY DEF Step, HSet, PutLike, DeleteLike, HDel, HIncrBy, LookAtClock, PutComment, Kill
  <2> QED
    BY <2>1, RunningFacts
<1>a. Answer(w) => /\ pc' \in [Worker -> Places] /\ req' \in [Worker -> Request \cup {NoRequest}]
                   /\ \A v \in Worker : pc'[v] = "idle" <=> req'[v] = NoRequest
  BY DEF Types, Answer, Goto, Places
<1>b. \A l \in Places \ {"idle"} : Goto(w, l) /\ req' = req =>
        /\ pc' \in [Worker -> Places] /\ req' \in [Worker -> Request \cup {NoRequest}]
        /\ \A v \in Worker : pc'[v] = "idle" <=> req'[v] = NoRequest
  BY <1>1 DEF Types, Goto
<1>c. /\ Fault(w) => faults' \in 0 .. MaxFaults /\ clouded' \in SUBSET Pair
      /\ UNCHANGED <<faults, clouded>> => faults' \in 0 .. MaxFaults /\ clouded' \in SUBSET Pair
  BY <1>1, FeedbackAssumption DEF Types, Fault
<1>d. /\ Add(w, likes) \in [Photo -> SUBSET User] /\ Remove(w, likes) \in [Photo -> SUBSET User]
      /\ Add(w, liked) \in [Photo -> SUBSET User] /\ Remove(w, liked) \in [Photo -> SUBSET User]
  BY <1>1 DEF Types, Add, Remove
<1>2. CASE HSet(w)
  <2>1. likes' \in [Photo -> SUBSET User] /\ faults' \in 0 .. MaxFaults /\ clouded' \in SUBSET Pair
    BY <1>2, <1>c, <1>d DEF HSet, Types
  <2>2. /\ pc' \in [Worker -> Places] /\ req' \in [Worker -> Request \cup {NoRequest}]
        /\ \A v \in Worker : pc'[v] = "idle" <=> req'[v] = NoRequest
    BY <1>2, <1>b DEF HSet, Places
  <2> QED
    BY <1>2, <2>1, <2>2 DEF HSet, Types, datastore
<1>3. CASE PutLike(w)
  <2>1. liked' \in [Photo -> SUBSET User] /\ faults' \in 0 .. MaxFaults /\ clouded' \in SUBSET Pair
    BY <1>3, <1>c, <1>d DEF PutLike, Types
  <2> QED
    BY <1>3, <1>a, <2>1 DEF PutLike, Types, redis
<1>4. CASE DeleteLike(w)
  <2>1. liked' \in [Photo -> SUBSET User] /\ faults' \in 0 .. MaxFaults /\ clouded' \in SUBSET Pair
    BY <1>4, <1>c, <1>d DEF DeleteLike, Types
  <2>2. /\ pc' \in [Worker -> Places] /\ req' \in [Worker -> Request \cup {NoRequest}]
        /\ \A v \in Worker : pc'[v] = "idle" <=> req'[v] = NoRequest
    BY <1>4, <1>a, <1>b DEF DeleteLike, Places
  <2> QED
    BY <1>4, <2>1, <2>2 DEF DeleteLike, Types, redis
<1>5. CASE HDel(w)
  <2>1. likes' \in [Photo -> SUBSET User] /\ faults' \in 0 .. MaxFaults /\ clouded' \in SUBSET Pair
    BY <1>5, <1>c, <1>d DEF HDel, Unliked, Types
  <2> QED
    BY <1>5, <1>a, <2>1 DEF HDel, Types, datastore
<1>6. CASE HIncrBy(w)
  <2>1. flag' \in [Photo -> Nat] /\ faults' \in 0 .. MaxFaults /\ clouded' \in SUBSET Pair
    BY <1>6, <1>c DEF HIncrBy, Types
  <2> QED
    BY <1>6, <1>a, <2>1 DEF HIncrBy, Types, datastore
<1>7. CASE LookAtClock(w)
  <2>1. tod' \in [Worker -> Nat]
    BY <1>7, FeedbackAssumption DEF LookAtClock, Types
  <2>2. /\ pc' \in [Worker -> Places] /\ req' \in [Worker -> Request \cup {NoRequest}]
        /\ \A v \in Worker : pc'[v] = "idle" <=> req'[v] = NoRequest
    BY <1>7, <1>b DEF LookAtClock, Places
  <2> QED
    BY <1>7, <2>1, <2>2 DEF LookAtClock, Types, redis, datastore, history
<1>8. CASE PutComment(w)
  <2>1. Comment(w) \in CommentSet
    BY <1>1 DEF Types, Comment, CommentSet
  <2>2. comments' \in [Photo -> SUBSET CommentSet]
    BY <1>8, <2>1 DEF PutComment, Stored, Types
  <2>3. said' \in SUBSET CommentSet /\ faults' \in 0 .. MaxFaults /\ clouded' \in SUBSET Pair
    BY <1>8, <1>c, <2>1 DEF PutComment, Types
  <2> QED
    BY <1>8, <1>a, <2>2, <2>3 DEF PutComment, Types, redis
<1>9. CASE Kill(w)
  BY <1>9, <1>a, <1>c DEF Kill, Types, redis, datastore
<1> QED
  BY <1>2, <1>3, <1>4, <1>5, <1>6, <1>7, <1>8, <1>9 DEF Step

(* Of the other users and photos nothing changes; of its own, a step that  *)
(* meets no fault leaves what Kept says.                                   *)
LEMMA KeptStep ==
  ASSUME Types, WordKept, NEW w \in Worker, Step(w)
  PROVE  WordKept'
<1> DEFINE u0 == req[w].user
           p0 == req[w].photo
<1>1. /\ pc[w] # "idle" /\ req[w] \in Request /\ u0 \in User /\ p0 \in Photo
      /\ About(req[w]) = <<u0, p0>>
  <2>1. pc[w] # "idle"
    BY DEF Step, HSet, PutLike, DeleteLike, HDel, HIncrBy, LookAtClock, PutComment, Kill
  <2> QED
    BY <2>1, RunningFacts
<1>2. /\ word' = word
      /\ \A v \in Worker \ {w} : pc'[v] = pc[v] /\ req'[v] = req[v]
      /\ clouded' = clouded \/ clouded' = clouded \cup {<<u0, p0>>}
  BY <1>1 DEF Step, HSet, PutLike, DeleteLike, HDel, HIncrBy, LookAtClock, PutComment, Kill,
            history, Goto, Answer, Fault, Types
<1>3. \A u \in User, p \in Photo : <<u, p>> # <<u0, p0>> =>
        (u \in likes'[p] <=> u \in likes[p]) /\ (u \in liked'[p] <=> u \in liked[p])
  BY <1>1 DEF Step, HSet, PutLike, DeleteLike, HDel, HIncrBy, LookAtClock, PutComment, Kill,
            redis, datastore, Add, Remove, Unliked, Types
<1>4. pc'[w] = "idle" \/ req'[w] = req[w]
  BY DEF Step, HSet, PutLike, DeleteLike, HDel, HIncrBy, LookAtClock, PutComment, Kill,
         Goto, Answer, Types
<1>5. SUFFICES ASSUME NEW u \in User, NEW p \in Photo, <<u, p>> \notin clouded'
               PROVE  Kept(u, p)'
  BY DEF WordKept
<1>6. <<u, p>> \notin clouded /\ Kept(u, p)
  BY <1>2, <1>5 DEF WordKept
<1>7. CASE <<u, p>> # <<u0, p0>>
  <2>1. \A v \in Worker : Speaks(v, u, p)' <=> Speaks(v, u, p)
    BY <1>2, <1>4, <1>7 DEF Speaks
  <2>2. \A v \in Worker : Speaks(v, u, p) => pc'[v] = pc[v]
    BY <1>2, <1>7 DEF Speaks
  <2> QED
    BY <1>2, <1>3, <1>6, <1>7, <2>1, <2>2 DEF Kept, HalfSaid, Said
<1>8. CASE <<u, p>> = <<u0, p0>>
  <2>0. u = u0 /\ p = p0 /\ clouded' = clouded
    BY <1>2, <1>5, <1>8
  <2>1. ~Fault(w)
    BY <1>1, <1>5, <1>8 DEF Fault
  <2>2. CASE pc[w] \in {"like", "put", "delete", "unlike"}
    <3>1. /\ Speaks(w, u, p) /\ HalfSaid(w, u, p)
          /\ \A v \in Worker \ {w} : ~Speaks(v, u, p)
      BY <1>6, <2>0, <2>2 DEF Kept, Speaks
    <3>2. \A v \in Worker \ {w} : ~Speaks(v, u, p)'
      BY <1>2, <3>1 DEF Speaks
    <3>3. CASE HSet(w)
      <4>1. /\ pc[w] = "like" /\ pc'[w] = "put" /\ req' = req /\ u \in likes'[p]
        BY <1>1, <2>0, <2>1, <3>3 DEF HSet, Goto, Add, Types
      <4> QED
        BY <1>2, <3>1, <3>2, <4>1 DEF Kept, Speaks, HalfSaid
    <3>4. CASE PutLike(w)
      <4>1. /\ pc[w] = "put" /\ pc'[w] = "idle" /\ likes' = likes /\ u \in liked'[p]
        BY <1>1, <2>0, <2>1, <3>4 DEF PutLike, Answer, Goto, Add, Types, redis
      <4> QED
        BY <1>2, <3>1, <3>2, <4>1 DEF Kept, Speaks, HalfSaid, Said
    <3>5. CASE DeleteLike(w)
      <4>1. /\ pc[w] = "delete" /\ pc'[w] = "unlike" /\ req' = req /\ u \notin liked'[p]
        BY <1>1, <2>0, <2>1, <3>5 DEF DeleteLike, Goto, Remove, Types
      <4> QED
        BY <1>2, <3>1, <3>2, <4>1 DEF Kept, Speaks, HalfSaid
    <3>6. CASE HDel(w)
      <4>1. /\ pc[w] = "unlike" /\ pc'[w] = "idle" /\ liked' = liked /\ u \notin likes'[p]
        BY <1>1, <2>0, <2>1, <3>6 DEF HDel, Answer, Goto, Unliked, Remove, Types, datastore
      <4> QED
        BY <1>2, <3>1, <3>2, <4>1 DEF Kept, Speaks, HalfSaid, Said
    <3> QED
      BY <2>1, <2>2, <3>3, <3>4, <3>5, <3>6
         DEF Step, HIncrBy, LookAtClock, PutComment, Kill
  <2>3. CASE pc[w] \notin {"like", "put", "delete", "unlike"}
    <3>1. /\ likes' = likes /\ liked' = liked
          /\ pc'[w] \notin {"like", "put", "delete", "unlike"}
      BY <2>1, <2>3 DEF Step, HSet, PutLike, DeleteLike, HDel, HIncrBy, LookAtClock,
            PutComment, Kill, redis, datastore, Goto, Answer, Types
    <3>2. \A v \in Worker : Speaks(v, u, p)' <=> Speaks(v, u, p)
      BY <1>2, <2>3, <3>1 DEF Speaks
    <3>3. \A v \in Worker : Speaks(v, u, p) => pc'[v] = pc[v]
      BY <1>2, <2>3 DEF Speaks
    <3> QED
      BY <1>2, <1>6, <3>1, <3>2, <3>3 DEF Kept, HalfSaid, Said
  <2> QED
    BY <2>2, <2>3
<1> QED
  BY <1>7, <1>8

(* A like or unlike that begins alone wipes out what was clouded; one that  *)
(* does not is clouded itself.                                             *)
LEMMA BeginStep ==
  ASSUME Types, WordKept, NEW w \in Worker, NEW r \in asked, Begin(w, r)
  PROVE  Types' /\ WordKept'
<1>1. /\ r \in Request /\ r.user \in User /\ r.photo \in Photo
      /\ r.op \in {"like", "unlike", "flag", "comment"}
      /\ About(r) = <<r.user, r.photo>> /\ About(r) \in Pair /\ r # NoRequest
  BY RequestAssumption DEF Types, Request, About, Pair
<1>2. /\ pc[w] = "idle" /\ req[w] = NoRequest
      /\ pc'[w] = Begins(r) /\ req'[w] = r
      /\ \A v \in Worker \ {w} : pc'[v] = pc[v] /\ req'[v] = req[v]
      /\ likes' = likes /\ liked' = liked
  BY DEF Begin, Goto, Types, redis, datastore
<1>3. /\ r.op = "like" => Begins(r) = "like"
      /\ r.op = "unlike" => Begins(r) = "delete"
      /\ r.op = "flag" => Begins(r) = "flag"
      /\ r.op = "comment" => Begins(r) = "time"
  BY DEF Begins
<1>4. Types'
  <2>1. /\ pc' \in [Worker -> Places] /\ req' \in [Worker -> Request \cup {NoRequest}]
        /\ \A v \in Worker : pc'[v] = "idle" <=> req'[v] = NoRequest
    BY <1>1, <1>2, <1>3 DEF Begin, Goto, Types, Places
  <2>2. word' \in [Pair -> {"like", "unlike"}] /\ clouded' \in SUBSET Pair
    BY <1>1 DEF Begin, Types
  <2>3. asked' \subseteq Request
    BY DEF Begin, Types
  <2> QED
    BY <2>1, <2>2, <2>3 DEF Begin, Types, redis, datastore
<1>5. WordKept'
  <2>1. SUFFICES ASSUME NEW u \in User, NEW p \in Photo, <<u, p>> \notin clouded'
                 PROVE  Kept(u, p)'
    BY DEF WordKept
  <2>2. CASE r.op \in {"like", "unlike"} /\ About(r) = <<u, p>>
    <3>1. \A v \in Running : About(req[v]) # <<u, p>>
      BY <2>1, <2>2 DEF Begin
    <3>2. \A v \in Worker : ~Speaks(v, u, p)
      BY <3>1 DEF Speaks, Running, About, Types
    <3>3. \A v \in Worker \ {w} : ~Speaks(v, u, p)'
      BY <1>2, <3>2 DEF Speaks
    <3>4. Speaks(w, u, p)' /\ word'[<<u, p>>] = r.op
      BY <1>1, <1>2, <1>3, <2>2 DEF Speaks, Begin, Types
    <3> QED
      BY <1>2, <1>3, <2>2, <3>3, <3>4 DEF Kept, HalfSaid
  <2>3. CASE ~(r.op \in {"like", "unlike"} /\ About(r) = <<u, p>>)
    <3>1. /\ <<u, p>> \notin clouded /\ word'[<<u, p>>] = word[<<u, p>>]
      <4>1. <<u, p>> \in Pair /\ word \in [Pair -> {"like", "unlike"}]
        BY DEF Pair, Types
      <4>2. CASE r.op \in {"like", "unlike"}
        <5>1. /\ word' = [word EXCEPT ![About(r)] = r.op] /\ About(r) # <<u, p>>
              /\ clouded' \in {clouded \cup {About(r)}, clouded \ {About(r)}}
          BY <2>3, <4>2 DEF Begin
        <5> QED
          BY <2>1, <4>1, <5>1
      <4>3. CASE r.op \notin {"like", "unlike"}
        BY <2>1, <4>3 DEF Begin
      <4> QED
        BY <4>2, <4>3
    <3>2. Kept(u, p)
      BY <3>1 DEF WordKept
    <3>3. \A v \in Worker : Speaks(v, u, p)' <=> Speaks(v, u, p)
      BY <1>1, <1>2, <1>3, <2>3 DEF Speaks
    <3>4. \A v \in Worker : Speaks(v, u, p) => pc'[v] = pc[v]
      BY <1>2 DEF Speaks
    <3> QED
      BY <1>2, <3>1, <3>2, <3>3, <3>4 DEF Kept, HalfSaid, Said
  <2> QED
    BY <2>2, <2>3
<1> QED
  BY <1>4, <1>5

LEMMA CommentStep ==
  ASSUME Types, CommentsLostOnlyBySameSecond, NEW w \in Worker, PutComment(w)
  PROVE  CommentsLostOnlyBySameSecond'
<1>1. /\ pc[w] # "idle" /\ req[w].photo \in Photo /\ Comment(w).by = req[w]
      /\ Comment(w).tod = tod[w]
  BY RunningFacts DEF PutComment, Comment
<1>2. said' \subseteq said \cup {Comment(w)} /\ (said' # said => comments' = Stored(w))
      /\ comments' \in {comments, Stored(w)}
  BY DEF PutComment
<1>3. SUFFICES ASSUME NEW c \in said'
               PROVE  \E d \in comments'[c.by.photo] : d.tod = c.tod
  BY DEF CommentsLostOnlyBySameSecond
<1>4. c \in said => c.by.photo \in Photo
  BY DEF Types, CommentSet, Request
<1>5. /\ Stored(w)[req[w].photo] =
            {d \in comments[req[w].photo] : ~SameKey(d, Comment(w))} \cup {Comment(w)}
      /\ \A p \in Photo \ {req[w].photo} : Stored(w)[p] = comments[p]
  BY <1>1 DEF Stored, Types
<1>6. CASE c \in said
  BY <1>2, <1>4, <1>5, <1>6 DEF CommentsLostOnlyBySameSecond, SameKey
<1>7. CASE c \notin said
  BY <1>1, <1>2, <1>3, <1>5, <1>7
<1> QED
  BY <1>6, <1>7

(* A step of a request, or of the clock, preserves the invariant.          *)
LEMMA FeedbackNext ==
  ASSUME FeedbackInv, Next
  PROVE  FeedbackInv'
<1>1. Types /\ WordKept /\ CommentsLostOnlyBySameSecond
  BY DEF FeedbackInv
<1>2. CASE Tick
  <2>1. clock' \in 0 .. MaxClock /\ UNCHANGED <<asked, pc, req, tod, likes, flag, liked, comments,
                                              faults, word, clouded, said>>
    BY <1>1, <1>2, FeedbackAssumption DEF Tick, Types, redis, datastore, history
  <2>2. Types' /\ CommentsLostOnlyBySameSecond'
    BY <1>1, <2>1 DEF Types, CommentsLostOnlyBySameSecond
  <2>3. \A u \in User, p \in Photo : Kept(u, p) => Kept(u, p)'
    BY <2>1 DEF Kept, HalfSaid, Said, Speaks
  <2>4. WordKept'
    BY <1>1, <2>1, <2>3 DEF WordKept
  <2> QED
    BY <2>2, <2>4 DEF FeedbackInv
<1>3. ASSUME NEW w \in Worker, Step(w) PROVE FeedbackInv'
  <2>1. CommentsLostOnlyBySameSecond'
    <3>1. CASE PutComment(w)
      BY <1>1, <3>1, CommentStep
    <3>2. CASE ~PutComment(w)
      <4>1. said' = said /\ comments' = comments
        BY <1>3, <3>2 DEF Step, HSet, PutLike, DeleteLike, HDel, HIncrBy, LookAtClock, Kill,
                          datastore, history
      <4> QED
        BY <1>1, <4>1 DEF CommentsLostOnlyBySameSecond
    <3> QED
      BY <3>1, <3>2
  <2> QED
    BY <1>1, <1>3, <2>1, TypesStep, KeptStep DEF FeedbackInv
<1>4. ASSUME NEW w \in Worker, NEW r \in asked, Begin(w, r) PROVE FeedbackInv'
  <2>1. CommentsLostOnlyBySameSecond'
    <3>1. said' = said /\ comments' = comments
      BY <1>4 DEF Begin, datastore
    <3> QED
      BY <1>1, <3>1 DEF CommentsLostOnlyBySameSecond
  <2> QED
    BY <1>1, <1>4, <2>1, BeginStep DEF FeedbackInv
<1> QED
  BY <1>2, <1>3, <1>4 DEF Next

(* Nor does it mind a fault counted for somebody else.                     *)
LEMMA FeedbackStutter ==
  ASSUME FeedbackInv, faults' \in 0 .. MaxFaults,
         UNCHANGED <<asked, pc, req, tod, redis, datastore, clock, history>>
  PROVE  FeedbackInv'
<1>1. Types'
  BY DEF FeedbackInv, Types, redis, datastore, history
<1>a. \A u \in User, p \in Photo : Kept(u, p) => Kept(u, p)'
  BY DEF Kept, HalfSaid, Said, Speaks, redis, datastore, history
<1>2. WordKept'
  BY <1>a DEF FeedbackInv, WordKept, history
<1>3. CommentsLostOnlyBySameSecond'
  BY DEF FeedbackInv, CommentsLostOnlyBySameSecond, datastore, history
<1> QED
  BY <1>1, <1>2, <1>3 DEF FeedbackInv

LEMMA FeedbackLastWord == FeedbackInv => LastWordHolds
<1> SUFFICES ASSUME FeedbackInv, NEW a \in Pair, a \notin clouded, Quiet(a)
             PROVE  /\ a[1] \in likes[a[2]] <=> word[a] = "like"
                    /\ a[1] \in liked[a[2]] <=> word[a] = "like"
  BY DEF LastWordHolds
<1>1. PICK u \in User, p \in Photo : a = <<u, p>>
  BY DEF Pair
<1>2. \A w \in Worker : ~Speaks(w, u, p)
  BY <1>1 DEF Speaks, Quiet, Running, About, FeedbackInv, Types
<1>3. Kept(u, p)
  BY <1>1 DEF FeedbackInv, WordKept
<1> QED
  BY <1>1, <1>2, <1>3 DEF Kept, Said

LEMMA FeedbackInductive == FeedbackInv /\ [Next]_vars => FeedbackInv'
<1> SUFFICES ASSUME FeedbackInv, UNCHANGED vars PROVE FeedbackInv'
  BY FeedbackNext
<1> QED
  BY FeedbackStutter DEF vars, FeedbackInv, Types

(* However requests overlap, fail and are cut off: once a user has said     *)
(* like or unlike alone and without a fault, both stores say the same.     *)
THEOREM LastWord == Spec => []LastWordHolds
<1>1. Init => FeedbackInv
  BY FeedbackInit DEF Init
<1> QED
  BY <1>1, FeedbackInductive, FeedbackLastWord, PTL DEF Spec

(* A comment that was put is there, or another one of the same second.     *)
THEOREM CommentsKept == Spec => []CommentsLostOnlyBySameSecond
<1>1. Init => FeedbackInv
  BY FeedbackInit DEF Init
<1>2. FeedbackInv => CommentsLostOnlyBySameSecond
  BY DEF FeedbackInv
<1> QED
  BY <1>1, <1>2, FeedbackInductive, PTL DEF Spec
===============================================================================
