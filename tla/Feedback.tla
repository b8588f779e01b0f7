------------------------------- MODULE Feedback ------------------------------
(***************************************************************************)
(* Likes, flags and comments: Like, Unlike, Flag and SetPhotoComments of    *)
(* endpoints/server.go, with like, unlike and flag of myredis.go.           *)
(*                                                                          *)
(* Redis keeps a hash per photo: who likes it, how often it was flagged and *)
(* its date.  The datastore keeps an entity per like and per comment.  A    *)
(* request is an HTTP handler's goroutine; each of its calls to one of the  *)
(* two is a step.                                                           *)
(***************************************************************************)
EXTENDS Integers, Sequences, FiniteSets

CONSTANTS
  User, Photo,
  Owner,      (* whose photo it is: the part of its id before the dot        *)
  Dated,      (* photos addPhoto has claimed, whose hash has a date          *)
  Worker,     (* goroutines that serve requests                              *)
  Workloads,  (* what the users ask for, flags set before, and how much else *)
              (* happens: one record of these is the initial state's         *)
  NoRequest,
  MaxClock,   (* bound: seconds that pass                                    *)
  MaxFaults   (* bound: failures of Redis, the datastore and the instances   *)

Request ==
  [op : {"like", "unlike", "flag", "comment"}, user : User, photo : Photo, id : Nat]

ASSUME FeedbackAssumption ==
  /\ IsFiniteSet(User)
  /\ Owner \in [Photo -> User] /\ Dated \subseteq Photo
  /\ MaxClock \in Nat /\ MaxFaults \in Nat

ASSUME RequestAssumption ==
  /\ NoRequest \notin Request
  /\ \A l \in Workloads : l.asked \subseteq Request /\ l.flag \in [Photo -> Nat]

VARIABLES
  asked,     (* requests not yet begun                                       *)
  pc, req,   (* of each worker                                               *)
  tod,       (* of each worker: when SetPhotoComments looked at the clock    *)
  likes,     (* Redis, IM:photo: the users with a field of their own         *)
  flag,      (* Redis, IM:photo: the field flag, 0 when it is not there      *)
  liked,     (* datastore: the Like entities, by photo                       *)
  comments,  (* datastore: the Comment entities, by photo                    *)
  clock,     (* seconds                                                      *)
  faults,
  word,      (* the request begun last, by user and photo                    *)
  clouded,   (* users and photos where it had a fault or was not alone       *)
  said       (* comments SetPhotoComments has put                            *)

redis == <<likes, flag>>
datastore == <<liked, comments>>
history == <<word, clouded, said>>
vars == <<asked, pc, req, tod, redis, datastore, clock, faults, history>>

Pair == User \X Photo
About(r) == <<r.user, r.photo>>
Running == {w \in Worker : req[w] # NoRequest}

InitWith(l) ==
  /\ asked = l.asked /\ flag = l.flag
  /\ pc = [w \in Worker |-> "idle"]
  /\ req = [w \in Worker |-> NoRequest]
  /\ tod = [w \in Worker |-> 0]
  /\ likes = [p \in Photo |-> {}]
  /\ liked = [p \in Photo |-> {}]
  /\ comments = [p \in Photo |-> {}]
  /\ clock = 0 /\ faults = 0
  /\ word = [a \in Pair |-> "unlike"] /\ clouded = {} /\ said = {}

Init == \E l \in Workloads : InitWith(l)

Goto(w, label) == pc' = [pc EXCEPT ![w] = label]

Begins(r) ==
  CASE r.op = "like" -> "like"
    [] r.op = "unlike" -> "delete"
    [] r.op = "flag" -> "flag"
    [] r.op = "comment" -> "time"

(* A worker that begins alone at a user's like or unlike clears what has    *)
(* come before; one that does not is clouded by the other.                  *)
Begin(w, r) ==
  /\ pc[w] = "idle" /\ r \in asked
  /\ asked' = asked \ {r}
  /\ req' = [req EXCEPT ![w] = r]
  /\ Goto(w, Begins(r))
  /\ IF r.op \in {"like", "unlike"}
     THEN /\ word' = [word EXCEPT ![About(r)] = r.op]
          /\ clouded' = IF \E v \in Running : About(req[v]) = About(r)
                        THEN clouded \cup {About(r)} ELSE clouded \ {About(r)}
     ELSE UNCHANGED <<word, clouded>>
  /\ UNCHANGED <<tod, redis, datastore, clock, faults, said>>

(* The answer is replyOk, or an error nobody but the log hears of. *)
Answer(w) ==
  /\ Goto(w, "idle")
  /\ req' = [req EXCEPT ![w] = NoRequest]

Fault(w) ==
  /\ faults < MaxFaults
  /\ faults' = faults + 1
  /\ clouded' = clouded \cup {About(req[w])}

------------------------------------------------------------------------------
Add(w, S) == [S EXCEPT ![req[w].photo] = @ \cup {req[w].user}]
Remove(w, S) == [S EXCEPT ![req[w].photo] = @ \ {req[w].user}]

(* like: HSET.  Its error is dropped; it may have been executed or not.     *)
HSet(w) ==
  /\ pc[w] = "like"
  /\ Goto(w, "put")
  /\ \/ likes' = Add(w, likes) /\ UNCHANGED <<faults, clouded>>
     \/ Fault(w) /\ likes' \in {likes, Add(w, likes)}
  /\ UNCHANGED <<asked, req, tod, flag, datastore, clock, word, said>>

(* Like: datastore.Put. *)
PutLike(w) ==
  /\ pc[w] = "put"
  /\ Answer(w)
  /\ \/ liked' = Add(w, liked) /\ UNCHANGED <<faults, clouded>>
     \/ Fault(w) /\ liked' \in {liked, Add(w, liked)}
  /\ UNCHANGED <<asked, tod, redis, comments, clock, word, said>>

(* Unlike: datastore.Delete; an error ends the request. *)
DeleteLike(w) ==
  /\ pc[w] = "delete"
  /\ \/ /\ liked' = Remove(w, liked)
        /\ Goto(w, "unlike")
        /\ UNCHANGED <<req, faults, clouded>>
     \/ Fault(w) /\ liked' \in {liked, Remove(w, liked)} /\ Answer(w)
  /\ UNCHANGED <<asked, tod, redis, comments, clock, word, said>>

(* unlike: HDEL of the user's field. *)
UnlikedSlip(w) == [likes EXCEPT ![req[w].photo] = @ \ {Owner[req[w].photo]}]  (* slip: userID for at.ID() *)
Unliked(w) == Remove(w, likes)

HDel(w) ==
  /\ pc[w] = "unlike"
  /\ Answer(w)
  /\ \/ likes' = Unliked(w) /\ UNCHANGED <<faults, clouded>>
     \/ Fault(w) /\ likes' \in {likes, Unliked(w)}
  /\ UNCHANGED <<asked, tod, flag, datastore, clock, word, said>>

(* flag: HINCRBY. *)
HIncrBy(w) ==
  LET up == [flag EXCEPT ![req[w].photo] = @ + 1] IN
  /\ pc[w] = "flag"
  /\ Answer(w)
  /\ \/ flag' = up /\ UNCHANGED <<faults, clouded>>
     \/ Fault(w) /\ flag' \in {flag, up}
  /\ UNCHANGED <<asked, tod, likes, datastore, clock, word, said>>

------------------------------------------------------------------------------
(* SetPhotoComments: time.Now(), in seconds, is the comment's key, too.     *)
LookAtClock(w) ==
  /\ pc[w] = "time"
  /\ tod' = [tod EXCEPT ![w] = clock]
  /\ Goto(w, "comment")
  /\ UNCHANGED <<asked, req, redis, datastore, clock, faults, history>>

Comment(w) == [tod |-> tod[w], by |-> req[w]]

SameKeySlip(c, d) == c.by.user = d.by.user  (* slip: keyed by the user, as a like *)
SameKey(c, d) == c.tod = d.tod

Stored(w) ==
  [comments EXCEPT ![req[w].photo] = {c \in @ : ~SameKey(c, Comment(w))} \cup {Comment(w)}]

PutComment(w) ==
  /\ pc[w] = "comment"
  /\ Answer(w)
  /\ \/ comments' = Stored(w) /\ said' = said \cup {Comment(w)} /\ UNCHANGED <<faults, clouded>>
     \/ Fault(w) /\ comments' \in {comments, Stored(w)} /\ UNCHANGED said
  /\ UNCHANGED <<asked, tod, redis, liked, clock, word>>

Tick ==
  /\ clock < MaxClock
  /\ \E w \in Worker : pc[w] \in {"time", "comment"}
  /\ clock' = clock + 1
  /\ UNCHANGED <<asked, pc, req, tod, redis, datastore, faults, history>>

(* The instance goes away, and with it what the request had still to do.    *)
Kill(w) ==
  /\ pc[w] # "idle"
  /\ Fault(w)
  /\ Answer(w)
  /\ UNCHANGED <<asked, tod, redis, datastore, clock, word, said>>

Step(w) ==
  \/ HSet(w) \/ PutLike(w) \/ DeleteLike(w) \/ HDel(w) \/ HIncrBy(w)
  \/ LookAtClock(w) \/ PutComment(w) \/ Kill(w)

Next == Tick \/ \E w \in Worker : Step(w) \/ \E r \in asked : Begin(w, r)

Spec == Init /\ [][Next]_vars

------------------------------------------------------------------------------
Quiet(a) == \A w \in Running : About(req[w]) # a

(* After the last like or unlike of a user for a photo, if it was alone and *)
(* met no fault, both stores say what he said last, whatever overlapping or *)
(* failed requests have made of them before.                                *)
LastWordHolds ==
  \A a \in Pair \ clouded :
    Quiet(a) =>
      /\ (a[1] \in likes[a[2]]) <=> (word[a] = "like")
      /\ (a[1] \in liked[a[2]]) <=> (word[a] = "like")

(* A comment that was put stays, unless another one on the photo carries    *)
(* the same second: no other way to lose one.                               *)
CommentsLostOnlyBySameSecond ==
  \A c \in said : \E d \in comments[c.by.photo] : d.tod = c.tod
==============================================================================
