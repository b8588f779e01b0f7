------------------------------- MODULE Timeline -------------------------------
(***************************************************************************)
(* How photos reach the timelines of endpoints/myredis.go: the delayed     *)
(* tasks addPhoto, iNowFollow and initialPhotos, run at least once each by *)
(* concurrent requests, over the datastore (followers and photos) and the  *)
(* Redis lists TL:user.                                                    *)
(*                                                                         *)
(* A request has its connection to itself (RedisPool!Exclusive).  Each     *)
(* datastore call, each conn.Do, each command the server executes for a    *)
(* pipeline and each conn.Receive is a step.                               *)
(***************************************************************************)
EXTENDS Integers, Sequences, FiniteSets, Functions

CONSTANTS
  User, Photo,
  Worker,     (* requests the task queue runs at a time                       *)
  Owner,      (* the user id in a photo's name                                *)
  Followers,  (* User.FollowsMe of every user at the start, in slice order    *)
  Backlog,    (* entries on each timeline at the start                        *)
  Newcomers,  (* users whose initialPhotos task is queued at the start        *)
  Follows,    (* <<a, u>>: a may come to follow u while the model runs        *)
  Cap,        (* the 2000 of addPhoto and iNowFollow                          *)
  Recent,     (* the Limit(10) of iNowFollow                                  *)
  MaxFaults,  (* bound: datastore errors, broken connections, killed requests *)
  Old, Welcome  (* earlier entries, and "0001.0001"                           *)

ASSUME SetsAssumption ==
  /\ Old \notin Photo /\ Welcome \notin Photo /\ Newcomers \subseteq User
ASSUME OwnerAssumption == Owner \in [Photo -> User]
ASSUME StartAssumption ==
  /\ Followers \in [User -> Seq(User)]
  /\ \A u \in User : IsInjective(Followers[u])
  /\ Backlog \in [User -> Nat]
ASSUME WorkerAssumption == Worker # {} /\ IsFiniteSet(Worker)
ASSUME FollowsAssumption == Follows \subseteq User \X User
ASSUME BoundsAssumption ==
  Cap \in Nat \ {0} /\ Recent \in Nat \ {0} /\ MaxFaults \in Nat

VARIABLES
  followsMe,  (* datastore: FollowsMe of each user                            *)
  following,  (* <<a, u>>: where followById(a, u) is                          *)
  photos,     (* datastore: the Photo entities of each user, newest Date first *)
  tl,         (* Redis: TL:user                                               *)
  image,      (* Redis: photos whose IM: hash has a date                      *)
  queue,      (* delayed calls not yet known to have succeeded                *)
  pc, task,   (* each request: where it is, which call it serves              *)
  todo,       (* the rest of the slice its loop runs over                     *)
  count,      (* iNowFollow: count, then the trims left                       *)
  wire,       (* commands flushed to Redis and not executed yet               *)
  replies,    (* replies not received yet                                     *)
  down,       (* has the connection failed?                                   *)
  faults,
  (* History, read by the properties only. *)
  pushed,     (* <<p, u>>: how often a fan-out pushed p to TL:u               *)
  reached,    (* <<p, u>>: p was pushed to TL:u by a fan-out or an iNowFollow *)
  lost,       (* <<p, u>>: a fault kept such a push, or the iNowFollow that   *)
              (* was to make it, from happening                               *)
  longest,    (* the most entries TL:user has had                             *)
  passed      (* <<p, u>>: an iNowFollow of u passed p by: it read the photos *)
              (* after addPhoto had read the followers and before it stored p, *)
              (* or Recent newer ones came first                              *)

data == <<followsMe, following, photos, image>>
net == <<wire, replies, down>>
history == <<pushed, reached, lost, longest, passed>>
vars == <<data, tl, queue, pc, task, todo, count, net, faults, history>>

Tasks ==
  [op : {"addPhoto"}, photo : Photo]
    \cup {[op |-> "iNowFollow", user |-> f[1], who |-> f[2]] : f \in Follows}
    \cup [op : {"initialPhotos"}, user : Newcomers]
NoTask == [op |-> "none"]

Push(u, p) == [op |-> "LPUSH", user |-> u, photo |-> p]
Pop(u) == [op |-> "RPOP", user |-> u]

(* The definitions marked "slip" stand for a mistake in the code; a         *)
(* mutation run puts each in the place of the definition after it.         *)

Recipients(p) == Append(followsMe[Owner[p]], Owner[p])

DuplicateSlip(p) == FALSE  (* slip: the reply of HSETNX is not looked at *)
Duplicate(p) == p \in image

TooLongSlip(v) == v >= Cap  (* slip: >= for > *)
TooLong(v) == v > Cap

ExcessSlip(n) == n - Cap  (* slip: without count > 2000 *)
Excess(n) == IF TooLong(n) THEN n - Cap ELSE 0

Least(a, b) == IF a < b THEN a ELSE b
NewestSlip(s) == SubSeq(s, 2, Least(Recent, Len(s)))  (* slip: off by one *)
Newest(s) == SubSeq(s, 1, Least(Recent, Len(s)))

(* Photos of u that are about to be stored, by requests that read his       *)
(* followers before a was one of them.                                     *)
Storing(u, a) ==
  {task[w].photo : w \in {v \in Worker : /\ pc[v] = "put" /\ Owner[task[v].photo] = u
                                        /\ a \notin Range(todo[v])}}

ButLast(s) == SubSeq(s, 1, Len(s) - 1)
Lengthen(u, list) == longest' = [longest EXCEPT ![u] = IF Len(list) > @ THEN Len(list) ELSE @]
Goto(w, l) == pc' = [pc EXCEPT ![w] = l]

Init ==
  /\ followsMe = Followers
  /\ following = [f \in Follows |-> "idle"]
  /\ photos = [u \in User |-> <<>>]
  /\ tl = [u \in User |-> [i \in 1 .. Backlog[u] |-> Old]]
  /\ image = {}
  /\ queue = [op : {"initialPhotos"}, user : Newcomers]
  /\ pc = [w \in Worker |-> "idle"]
  /\ task = [w \in Worker |-> NoTask]
  /\ todo = [w \in Worker |-> <<>>]
  /\ count = [w \in Worker |-> 0]
  /\ wire = [w \in Worker |-> <<>>]
  /\ replies = [w \in Worker |-> <<>>]
  /\ down = [w \in Worker |-> FALSE]
  /\ faults = 0
  /\ pushed = [pu \in Photo \X User |-> 0]
  /\ reached = {}
  /\ lost = {}
  /\ longest = Backlog
  /\ passed = {}

------------------------------------------------------------------------------
(* What the HTTP handlers queue.                                            *)

(* PostPhoto: the image service reports a photo, perhaps more than once.    *)
PostPhoto(p) ==
  /\ queue' = queue \cup {[op |-> "addPhoto", photo |-> p]}
  /\ UNCHANGED <<data, tl, pc, task, todo, count, net, faults, history>>

(* followById: the transaction (uniqueP keeps a follower from being listed  *)
(* twice), then the delayed iNowFollow.  Once that is queued the same pair  *)
(* does not come again; SocialGraph has what repeated follows do.           *)
FollowTx(a, u) ==
  /\ <<a, u>> \in Follows /\ following[<<a, u>>] = "idle"
  /\ following' = [following EXCEPT ![<<a, u>>] = "call"]
  /\ followsMe' = IF a \in Range(followsMe[u]) THEN followsMe
                  ELSE [followsMe EXCEPT ![u] = Append(@, a)]
  /\ UNCHANGED <<photos, image, tl, queue, pc, task, todo, count, net, faults, history>>

CallINowFollow(a, u) ==
  /\ <<a, u>> \in Follows /\ following[<<a, u>>] = "call"
  /\ following' = [following EXCEPT ![<<a, u>>] = "called"]
  /\ queue' = queue \cup {[op |-> "iNowFollow", user |-> a, who |-> u]}
  /\ UNCHANGED <<followsMe, photos, image, tl, pc, task, todo, count, net, faults, history>>

------------------------------------------------------------------------------
(* The task queue.  A call stays queued until a request has served it, so   *)
(* it is retried after an error and may run in two requests at once.        *)

Start(w, t) ==
  /\ pc[w] = "idle" /\ wire[w] = <<>>
  /\ t \in queue
  /\ task' = [task EXCEPT ![w] = t]
  /\ Goto(w, CASE t.op = "addPhoto" -> "find"
               [] t.op = "iNowFollow" -> "query"
               [] t.op = "initialPhotos" -> "greet")
  /\ UNCHANGED <<data, tl, queue, todo, count, net, faults, history>>

(* The request ends; conn.Close drains or discards the connection.  What is *)
(* still on the way to the server is executed, with nobody to answer.       *)
Leave(w) ==
  /\ Goto(w, "idle")
  /\ task' = [task EXCEPT ![w] = NoTask]
  /\ todo' = [todo EXCEPT ![w] = <<>>]
  /\ count' = [count EXCEPT ![w] = 0]
  /\ replies' = [replies EXCEPT ![w] = <<>>]
  /\ down' = [down EXCEPT ![w] = FALSE]

(* return nil *)
Finish(w) ==
  /\ pc[w] = "done"
  /\ queue' = queue \ {task[w]}
  /\ Leave(w)
  /\ UNCHANGED <<data, tl, wire, faults, history>>

(* The server gets no more than the first k commands under way; dropped are *)
(* the pushes that cannot happen any more then.                             *)
Cut(w, k) ==
  LET t == task[w]
      gone == SubSeq(wire[w], k + 1, Len(wire[w]))
      dropped ==
        CASE pc[w] = "send" -> {<<t.photo, u>> : u \in Range(todo[w])}
          [] pc[w] = "push" -> {<<p, t.user>> : p \in Range(todo[w])}
          [] OTHER -> {<<c.photo, c.user>> : c \in {d \in Range(gone) : d.op = "LPUSH"}}
  IN /\ wire' = [wire EXCEPT ![w] = SubSeq(@, 1, k)]
     /\ lost' = lost \cup dropped

Fault == faults < MaxFaults /\ faults' = faults + 1

(* A datastore error is returned, and the task queue tries again.           *)
AfterErrorSlip(t) ==  (* slip: addPhoto returns nil *)
  IF t.op = "addPhoto" THEN queue \ {t} ELSE queue
AfterError(t) == queue

(* followById dies before its call, or the task queue refuses the call,     *)
(* which it does not look at.  If it was a delayed call itself, or the      *)
(* client asks again, it starts over.                                      *)
LoseCall(a, u) ==
  /\ <<a, u>> \in Follows /\ following[<<a, u>>] = "call"
  /\ Fault
  /\ following' = [following EXCEPT ![<<a, u>>] = "idle"]
  /\ lost' = lost \cup {<<p, a>> : p \in Range(photos[u]) \cup Storing(u, a)}
  /\ UNCHANGED <<followsMe, photos, image, tl, queue, pc, task, todo, count, net,
                 pushed, reached, longest, passed>>

DatastoreError(w) ==
  /\ pc[w] \in {"find", "put", "query"}
  /\ Fault
  /\ queue' = AfterError(task[w])
  /\ Leave(w)
  /\ UNCHANGED <<data, tl, wire, history>>

(* The instance goes away, or the request is out of time: same retry.       *)
Kill(w) ==
  /\ pc[w] # "idle"
  /\ Fault
  /\ \E k \in 0 .. Len(wire[w]) : Cut(w, k)
  /\ Leave(w)
  /\ UNCHANGED <<data, tl, queue, pushed, reached, longest, passed>>

(* The connection breaks: any suffix of the commands is lost, and any       *)
(* suffix of the replies; the rest of the commands is executed unseen.      *)
Break(w) ==
  /\ pc[w] \in {"recv", "pop", "push", "trim", "greet"}
  /\ ~down[w]
  /\ Fault
  /\ down' = [down EXCEPT ![w] = TRUE]
  /\ \E k \in 0 .. Len(wire[w]) : Cut(w, k)
  /\ \E k \in 0 .. Len(replies[w]) :
       replies' = [replies EXCEPT ![w] = SubSeq(@, 1, k)]
  /\ UNCHANGED <<data, tl, queue, pc, task, todo, count, pushed, reached, longest, passed>>

------------------------------------------------------------------------------
(* addPhoto                                                                 *)

FindUser(w) ==
  /\ pc[w] = "find"
  /\ todo' = [todo EXCEPT ![w] = Recipients(task[w].photo)]
  /\ Goto(w, "put")
  /\ UNCHANGED <<data, tl, queue, task, count, net, faults, history>>

(* Put dates the photo now, also when a retry stores it again.              *)
Others(s, p) ==
  IF p \in Range(s)
  THEN LET k == CHOOSE i \in DOMAIN s : s[i] = p IN SubSeq(s, 1, k - 1) \o SubSeq(s, k + 1, Len(s))
  ELSE s

PutPhoto(w) ==
  LET p == task[w].photo IN
  /\ pc[w] = "put"
  /\ photos' = [photos EXCEPT ![Owner[p]] = <<p>> \o Others(@, p)]
  /\ Goto(w, "claim")
  /\ UNCHANGED <<followsMe, following, image, tl, queue, task, todo, count, net, faults, history>>

(* HSETNX IM:photo date: the first request to get here fans the photo out.  *)
Claim(w) ==
  LET p == task[w].photo IN
  /\ pc[w] = "claim"
  /\ image' = image \cup {p}
  /\ Goto(w, IF Duplicate(p) THEN "done" ELSE "send")
  /\ UNCHANGED <<followsMe, following, photos, tl, queue, task, todo, count, net, faults, history>>

(* No connection, or it failed before or after the server executed HSETNX:  *)
(* addPhoto reports a duplicate and returns nil.                            *)
ClaimError(w) ==
  LET p == task[w].photo IN
  /\ pc[w] = "claim"
  /\ Fault
  /\ image' \in {image, image \cup {p}}
  /\ lost' = IF Duplicate(p) THEN lost ELSE lost \cup {<<p, u>> : u \in Range(todo[w])}
  /\ Goto(w, "done")
  /\ UNCHANGED <<followsMe, following, photos, tl, queue, task, todo, count, net,
                 pushed, reached, longest, passed>>

(* The Send loop and Flush.                                                 *)
SendAll(w) ==
  /\ pc[w] = "send"
  /\ wire' = [wire EXCEPT ![w] =
                [i \in DOMAIN todo[w] |-> Push(todo[w][i], task[w].photo)]]
  /\ Goto(w, "recv")
  /\ UNCHANGED <<data, tl, queue, task, todo, count, replies, down, faults, history>>

(* Redis executes the next command of a connection, and answers if somebody *)
(* is still there.                                                          *)
Serve(w) ==
  /\ wire[w] # <<>>
  /\ LET c == Head(wire[w])
         u == c.user
         list == IF c.op = "LPUSH" THEN <<c.photo>> \o tl[u] ELSE ButLast(tl[u])
         answer == IF c.op = "LPUSH" THEN Len(list) ELSE 0
     IN /\ tl' = [tl EXCEPT ![u] = list]
        /\ replies' = IF pc[w] = "idle" \/ down[w] THEN replies
                      ELSE [replies EXCEPT ![w] = Append(@, answer)]
        /\ IF c.op = "LPUSH"
           THEN /\ pushed' = [pushed EXCEPT ![<<c.photo, u>>] = @ + 1]
                /\ reached' = reached \cup {<<c.photo, u>>}
                /\ Lengthen(u, list)
           ELSE UNCHANGED <<pushed, reached, longest>>
  /\ wire' = [wire EXCEPT ![w] = Tail(@)]
  /\ UNCHANGED <<data, queue, pc, task, todo, count, down, faults, lost, passed>>

(* Receive for the next follower; Do("RPOP") puts its command behind the    *)
(* pushes still on the connection.                                          *)
Receive(w) ==
  LET v == Head(replies[w])
      f == Head(todo[w])
      trim == TooLong(v) /\ ~down[w]
  IN
  /\ pc[w] = "recv" /\ todo[w] # <<>> /\ replies[w] # <<>>
  /\ todo' = [todo EXCEPT ![w] = Tail(@)]
  /\ replies' = [replies EXCEPT ![w] = Tail(@)]
  /\ wire' = IF trim THEN [wire EXCEPT ![w] = Append(@, Pop(f))] ELSE wire
  /\ Goto(w, IF trim THEN "pop" ELSE "recv")
  /\ UNCHANGED <<data, tl, queue, task, count, down, faults, history>>

ReceiveError(w) ==
  /\ pc[w] = "recv" /\ todo[w] # <<>> /\ replies[w] = <<>> /\ down[w]
  /\ todo' = [todo EXCEPT ![w] = Tail(@)]
  /\ UNCHANGED <<data, tl, queue, pc, task, count, net, faults, history>>

(* Do reads pending + 1 replies and returns the last: every reply that      *)
(* Receive has not taken yet is gone with it.                               *)
DoPop(w) ==
  /\ pc[w] = "pop"
  /\ wire[w] = <<>> \/ down[w]
  /\ replies' = [replies EXCEPT ![w] = <<>>]
  /\ Goto(w, "recv")
  /\ UNCHANGED <<data, tl, queue, task, todo, count, wire, down, faults, history>>

(* A Receive with nothing left to come waits until App Engine fails the     *)
(* socket call at the deadline of the request.                              *)
Starved(w) ==
  /\ pc[w] = "recv" /\ todo[w] # <<>>
  /\ replies[w] = <<>> /\ wire[w] = <<>> /\ ~down[w]

Deadline(w) ==
  /\ Starved(w)
  /\ down' = [down EXCEPT ![w] = TRUE]
  /\ UNCHANGED <<data, tl, queue, pc, task, todo, count, wire, replies, faults, history>>

AddDone(w) ==
  /\ pc[w] = "recv" /\ todo[w] = <<>>
  /\ Goto(w, "done")
  /\ UNCHANGED <<data, tl, queue, task, todo, count, net, faults, history>>

------------------------------------------------------------------------------
(* iNowFollow and initialPhotos                                             *)

(* The ten newest photos of the user followed.                              *)
Query(w) ==
  LET t == task[w]
      older == {photos[t.who][i] : i \in (Recent + 1) .. Len(photos[t.who])}
  IN
  /\ pc[w] = "query"
  /\ todo' = [todo EXCEPT ![w] = Newest(photos[t.who])]
  /\ passed' = passed \cup {<<p, t.user>> : p \in Storing(t.who, t.user) \cup older}
  /\ Goto(w, "push")
  /\ UNCHANGED <<data, tl, queue, task, count, net, faults, pushed, reached, lost, longest>>

PushOne(w) ==
  LET u == task[w].user
      list == <<Head(todo[w])>> \o tl[u]
  IN
  /\ pc[w] = "push" /\ todo[w] # <<>> /\ ~down[w]
  /\ tl' = [tl EXCEPT ![u] = list] /\ Lengthen(u, list)
  /\ count' = [count EXCEPT ![w] = Len(list)]
  /\ reached' = reached \cup {<<Head(todo[w]), u>>}
  /\ todo' = [todo EXCEPT ![w] = Tail(@)]
  /\ UNCHANGED <<data, queue, pc, task, net, faults, pushed, lost, passed>>

PushesDone(w) ==
  /\ pc[w] = "push" /\ todo[w] = <<>> /\ ~down[w]
  /\ count' = [count EXCEPT ![w] = Excess(@)]
  /\ Goto(w, "trim")
  /\ UNCHANGED <<data, tl, queue, task, todo, net, faults, history>>

TrimOne(w) ==
  LET u == task[w].user IN
  /\ pc[w] = "trim" /\ count[w] > 0 /\ ~down[w]
  /\ tl' = [tl EXCEPT ![u] = ButLast(@)]
  /\ count' = [count EXCEPT ![w] = @ - 1]
  /\ UNCHANGED <<data, queue, pc, task, todo, net, faults, history>>

(* Errors are logged only: with the connection down the rest does nothing.  *)
FollowDone(w) ==
  /\ \/ pc[w] = "trim" /\ count[w] = 0
     \/ pc[w] \in {"push", "trim", "greet"} /\ down[w]
  /\ Goto(w, "done")
  /\ UNCHANGED <<data, tl, queue, task, todo, count, net, faults, history>>

Greet(w) ==
  LET u == task[w].user
      list == <<Welcome>> \o tl[u]
  IN
  /\ pc[w] = "greet" /\ ~down[w]
  /\ tl' = [tl EXCEPT ![u] = list] /\ Lengthen(u, list)
  /\ Goto(w, "done")
  /\ UNCHANGED <<data, queue, task, todo, count, net, faults, pushed, reached, lost, passed>>

------------------------------------------------------------------------------
Run(w) ==
  \/ Finish(w)
  \/ FindUser(w) \/ PutPhoto(w) \/ Claim(w) \/ SendAll(w) \/ Serve(w)
  \/ Receive(w) \/ ReceiveError(w) \/ DoPop(w) \/ Deadline(w) \/ AddDone(w)
  \/ Query(w) \/ PushOne(w) \/ PushesDone(w) \/ TrimOne(w) \/ FollowDone(w)
  \/ Greet(w)

Next ==
  \/ \E p \in Photo : PostPhoto(p)
  \/ \E a, u \in User : FollowTx(a, u) \/ CallINowFollow(a, u) \/ LoseCall(a, u)
  \/ \E w \in Worker :
       \/ Run(w)
       \/ \E t \in queue : Start(w, t)
       \/ DatastoreError(w) \/ Kill(w) \/ Break(w) \/ ClaimError(w)

(* Requests run on, the server answers, and the queue hands out every call  *)
(* it holds to some idle request.  Nobody need post, follow or fail.        *)
Fairness ==
  /\ \A w \in Worker : WF_vars(Run(w))
  /\ \A f \in Follows : WF_vars(CallINowFollow(f[1], f[2]))
  /\ \A t \in Tasks : SF_vars(\E w \in Worker : Start(w, t))

Spec == Init /\ [][Next]_vars /\ Fairness

------------------------------------------------------------------------------
PCs == {"idle", "find", "put", "claim", "send", "recv", "pop", "query", "push",
        "trim", "greet", "done"}
Commands == [op : {"LPUSH"}, user : User, photo : Photo] \cup [op : {"RPOP"}, user : User]

(* Types of the variables. *)
TypeOK ==
  /\ followsMe \in [User -> Seq(User)]
  /\ following \in [Follows -> {"idle", "call", "called"}]
  /\ photos \in [User -> Seq(Photo)]
  /\ tl \in [User -> Seq(Photo \cup {Old, Welcome})]
  /\ image \in SUBSET Photo
  /\ queue \in SUBSET Tasks
  /\ pc \in [Worker -> PCs]
  /\ task \in [Worker -> Tasks \cup {NoTask}]
  /\ todo \in [Worker -> Seq(User \cup Photo)]
  /\ count \in [Worker -> Nat]
  /\ wire \in [Worker -> Seq(Commands)]
  /\ replies \in [Worker -> Seq(Nat)]
  /\ down \in [Worker -> BOOLEAN]
  /\ faults \in 0 .. MaxFaults
  /\ pushed \in [Photo \X User -> Nat]
  /\ reached \in SUBSET (Photo \X User)
  /\ lost \in SUBSET (Photo \X User)
  /\ longest \in [User -> Nat]
  /\ passed \in SUBSET (Photo \X User)

Quiet ==
  /\ queue = {} /\ \A w \in Worker : pc[w] = "idle" /\ wire[w] = <<>>
  /\ \A f \in Follows : following[f] # "call"

(* However often a photo is reported, retried or served by two requests at *)
(* once, its fan-out pushes it to a timeline at most once (HSETNX); twice   *)
(* to that of an owner who follows himself, as he is twice on the list that *)
(* addPhoto makes.                                                          *)
ListedTwice(p, u) == u = Owner[p] /\ u \in Range(followsMe[u])
Times(p, u) == IF ListedTwice(p, u) THEN 2 ELSE 1
FanOutOnce == \A p \in Photo, u \in User : pushed[<<p, u>>] <= Times(p, u)

(* A user misses a photo of someone he follows only if a fault hit that    *)
(* very push, or if the iNowFollow that was to make it was never queued,   *)
(* because a fault came between followById's transaction and its call when *)
(* the photo was stored, or about to be by an addPhoto that did not know   *)
(* him as a follower; or if his iNowFollow read the photos between that    *)
(* addPhoto's two steps, or while ten newer photos were there.             *)
MissedOnlyByRace ==
  Quiet => \A u \in User : \A a \in Range(followsMe[u]), p \in Range(photos[u]) :
             <<p, a>> \in reached \cup lost \cup passed

(* The length a push returns is acted on later, while others trim the list. *)
(* Fan-outs alone never add up to too many: a timeline has the entries it   *)
(* began with and those pushed, or is full.  An iNowFollow trims by a count *)
(* read before its loop: beside it, each of the other requests may take as  *)
(* many entries away as the timeline was ever over Cap, and no more.        *)
CaughtUp(a) == \E u \in User : <<a, u>> \in Follows /\ a \in Range(followsMe[u])
Fanned(u) == Cardinality({p \in Photo : pushed[<<p, u>>] > 0})
Beside(u) == (Cardinality(Worker) - 1) * (longest[u] - Least(Cap, longest[u]))
TrimmedAtMost ==
  \A u \in User :
    Len(tl[u]) >= Least(Cap, Backlog[u] + Fanned(u)) - (IF CaughtUp(u) THEN Beside(u) ELSE 0)

(* A photo once queued reaches its owner and the followers he had at the    *)
(* start, through any finite number of datastore errors and restarts; only *)
(* faults from the claim on can prevent it.                                *)
Delivered ==
  \A p \in Photo : \A u \in {Owner[p]} \cup Range(Followers[Owner[p]]) :
    [op |-> "addPhoto", photo |-> p] \in queue
      ~> <<p, u>> \in reached \cup lost

(* server.go:43: a timeline has at most 2000 entries, at the latest when   *)
(* nothing is left to do and nothing has failed.                           *)
TimelineWithinCap ==
  Quiet /\ faults = 0 => \A u \in User : Len(tl[u]) <= Cap
==============================================================================
