-------------------------- MODULE SocialGraphProofs ---------------------------
(***************************************************************************)
(* Proofs about SocialGraph, for any users, requests, number of workers    *)
(* and faults: its six invariants.                                         *)
(***************************************************************************)
EXTENDS SocialGraph, SequenceTheorems, TLAPS

(* What may be asked for, and the delayed calls it leads to.               *)
SignUps == {r.user : r \in Asked("login")}
Wishes == {<<r.user, r.who>> : r \in Asked("follow")}

CallOf(op) == {t \in Delayed : t.op = op}

(* The task of each request, by the place the request has come to.         *)
Served(w) ==
  /\ pc[w] \in PCs
  /\ pc[w] = "idle" => task[w] = NoTask
  /\ pc[w] \in {"lookup", "create", "addUser", "setup"} => task[w] \in Asked("login")
  /\ pc[w] \in {"byEmail", "want"} => task[w] \in Asked("follow")
  /\ pc[w] \in {"tx", "call"} =>
       task[w] \in Asked("follow") \cup Asked("followByID")
                     \cup CallOf("initialSetup") \cup CallOf("delayFollow")
  /\ pc[w] = "next" => task[w] \in CallOf("initialSetup")
  /\ pc[w] \in {"wanted", "spread"} => task[w] \in CallOf("findFollows")

(* The users it is about to treat.                                         *)
Treated(w) ==
  /\ whom[w] \subseteq User
  /\ rest[w] \subseteq User
  /\ task[w].op = "initialSetup" => whom[w] \cup rest[w] \subseteq Range(AutoFollowers)
  /\ task[w].op = "delayFollow" => whom[w] = {task[w].who}
  /\ pc[w] \in {"tx", "call"} => \E u \in User : whom[w] = {u}
  /\ pc[w] = "spread" => \A a \in rest[w] : <<a, task[w].user>> \in Wishes

Local ==
  /\ pc \in [Worker -> PCs]
  /\ task \in [Worker -> Logins \cup Follows \cup Delayed \cup {NoTask}]
  /\ whom \in [Worker -> SUBSET User]
  /\ rest \in [Worker -> SUBSET User]
  /\ \A w \in Worker : Served(w) /\ Treated(w)

(* Lists name users who exist, and wishes were asked for.                  *)
Stored ==
  /\ iFollow \in [User -> Seq(User)]
  /\ followsMe \in [User -> Seq(User)]
  /\ want \in [User -> Seq(User)]
  /\ exists \subseteq User
  /\ Range(AutoFollowers) \cup Range(Existing) \subseteq exists
  /\ \A u \in User : Range(iFollow[u]) \cup Range(followsMe[u]) \subseteq exists
  /\ \A u \in User : u \notin exists => iFollow[u] = <<>> /\ followsMe[u] = <<>> /\ want[u] = <<>>
  /\ Wants \subseteq Wishes

Rest ==
  /\ emailIndex \subseteq exists
  /\ wantIndex \subseteq Wishes
  /\ named \subseteq User
  /\ queue \subseteq Delayed
  /\ catchUp \subseteq User \X User
  /\ faults \in 0 .. MaxFaults
  /\ replaced \subseteq User
  /\ hurt \subseteq User
  /\ missed \subseteq User \X User
  /\ unnamed \subseteq User
  /\ slipped \subseteq User \X User

(* Whoever exists has a name, is being given one, or a fault took it.      *)
BeingNamed ==
  \A u \in exists : \/ u \in named \cup unnamed
                    \/ \E w \in Worker : pc[w] = "addUser" /\ task[w].user = u

(* The two ends of an edge, but for what createUser enters; and the        *)
(* accounts it enters get their follower.                                  *)
ListsPaired ==
  \A a, u \in User \ replaced :
    /\ a \in Range(followsMe[u]) => u \in Range(iFollow[a]) \/ a = u
    /\ u \in Range(iFollow[a]) \ Range(AutoFollowers) => a \in Range(followsMe[u])
AutoPaired ==
  \A a \in exists \ (hurt \cup replaced), k \in Range(AutoFollowers) \ replaced :
    a \in Range(followsMe[k]) \/ SetupAhead(a)

(* The catch-ups a delayed call makes up for when it runs again.           *)
Owed(t) ==
  CASE t.op = "initialSetup" -> {<<t.user, k>> : k \in Range(AutoFollowers)}
    [] t.op = "delayFollow" -> {<<t.user, t.who>>}
    [] OTHER -> {}

Caught == catchUp \cup missed

(* An edge that has not been caught up is at a worker's call, or a call in *)
(* the queue will make it again.                                           *)
EdgeOwed(a, u) ==
  \/ <<a, u>> \in Caught
  \/ a \in Range(Existing) /\ u \in Range(AutoFollowers)
  \/ \E w \in Worker : pc[w] = "call" /\ task[w].user = a /\ u \in whom[w]
  \/ \E t \in queue : <<a, u>> \in Owed(t)
EdgesOwed == \A a, u \in User : a \in Range(followsMe[u]) => EdgeOwed(a, u)

(* A delayed call a worker serves is in the queue still, or has been       *)
(* served; an initialSetup has caught up all but the rest.                 *)
CallKept(w) ==
  task[w] \in Delayed => task[w] \in queue \/ Owed(task[w]) \subseteq Caught
SetupDone(w) ==
  task[w].op = "initialSetup" =>
    \A k \in Range(AutoFollowers) :
      \/ k \in rest[w]
      \/ pc[w] \in {"tx", "call"} /\ k \in whom[w]
      \/ <<task[w].user, k>> \in Caught
CallsKept == \A w \in Worker : CallKept(w) /\ SetupDone(w)

(* What has been caught up is an edge.                                     *)
CaughtMade ==
  \A x \in Caught : x[2] \in exists /\ (x[2] \in replaced \/ x[1] \in Range(followsMe[x[2]]))

Resolved(a, e) ==
  \/ a \in Range(followsMe[e])
  \/ <<a, e>> \in slipped
  \/ \E t \in queue : t.op = "delayFollow" /\ t.user = a /\ t.who = e

AskersSlipped(e) ==
  \A v \in Worker : pc[v] = "want" /\ task[v].who = e => <<task[v].user, e>> \in slipped

Searched(e, left) ==
  /\ \A a \in User \ left : e \in Range(want[a]) => Resolved(a, e)
  /\ AskersSlipped(e)

(* Whoever signs up is searched for, and the search finds everybody who    *)
(* waits.                                                                  *)
Unharmed == exists \ (hurt \cup replaced)
Searches ==
  /\ \A e \in Unharmed : SearchAhead(e) \/ Searched(e, {})
  /\ \A w \in Worker : pc[w] = "spread" /\ task[w].user \in Unharmed =>
                         Searched(task[w].user, rest[w])

(* Where a worker serves a user, that user exists.                         *)
SignedUp ==
  /\ \A w \in Worker :
       /\ pc[w] \in {"addUser", "setup"} \/ task[w].op \in {"initialSetup", "findFollows"}
            => task[w].user \in exists
       /\ pc[w] = "call" => \A u \in whom[w] : /\ u \in exists
                                               /\ u \in replaced \/ task[w].user \in Range(followsMe[u])
  /\ \A t \in queue : t.op \in {"initialSetup", "findFollows"} => t.user \in exists

GraphInv ==
  /\ Local /\ Stored /\ Rest /\ SignedUp
  /\ ListsUnique /\ ListsPaired /\ AutoPaired /\ BeingNamed
  /\ EdgesOwed /\ CallsKept /\ CaughtMade /\ Searches
------------------------------------------------------------------------------
(* Lists, requests and delayed calls                                        *)

LEMMA EmptyList == Range(<<>>) = {} /\ IsInjective(<<>>)
  BY DEF Range, IsInjective

(* Include adds what it is given, once.                                     *)
LEMMA IncludeFacts ==
  ASSUME NEW S, NEW l \in Seq(S), NEW x \in S
  PROVE  /\ Include(l, x) \in Seq(S)
         /\ Range(Include(l, x)) = Range(l) \cup {x}
         /\ IsInjective(l) => IsInjective(Include(l, x))
<1>1. CASE x \in Range(l)
  BY <1>1 DEF Include
<1>2. CASE x \notin Range(l)
  <2> DEFINE m == Append(l, x)
  <2>1. /\ m \in Seq(S) /\ Len(m) = Len(l) + 1 /\ Len(l) \in Nat
        /\ m[Len(l) + 1] = x
        /\ \A j \in 1 .. Len(l) : m[j] = l[j]
    BY AppendProperties
  <2>2. DOMAIN m = 1 .. Len(l) + 1 /\ DOMAIN l = 1 .. Len(l)
    BY <2>1, LenProperties
  <2>3. Range(m) = Range(l) \cup {x}
    BY <2>1, <2>2 DEF Range
  <2>4. \A j \in 1 .. Len(l) : l[j] # x
    BY <1>2, <2>2 DEF Range
  <2>5. ASSUME IsInjective(l) PROVE IsInjective(m)
    <3>1. SUFFICES ASSUME NEW j \in 1 .. Len(l) + 1, NEW k \in 1 .. Len(l) + 1, m[j] = m[k]
                   PROVE  j = k
      BY <2>2 DEF IsInjective
    <3>2. CASE j \in 1 .. Len(l) /\ k \in 1 .. Len(l)
      BY <2>1, <2>2, <2>5, <3>1, <3>2 DEF IsInjective
    <3>3. CASE ~(j \in 1 .. Len(l) /\ k \in 1 .. Len(l))
      <4>1. j = Len(l) + 1 \/ k = Len(l) + 1
        BY <2>1, <3>3
      <4> HIDE DEF m
      <4> QED
        BY <2>1, <2>4, <3>1, <4>1
    <3> QED
      BY <3>2, <3>3
  <2> QED
    BY <1>2, <2>1, <2>3, <2>5 DEF Include
<1> QED
  BY <1>1, <1>2

LEMMA AskedFacts ==
  /\ \A r \in Asked("login") : r \in Logins /\ r.op = "login" /\ r.user \in User /\ r.user \in SignUps
  /\ \A r \in Asked("follow") : /\ r \in Follows /\ r.op = "follow" /\ r.user \in User /\ r.who \in User
                                /\ <<r.user, r.who>> \in Wishes
  /\ \A r \in Asked("followByID") : r \in Follows /\ r.op = "followByID" /\ r.user \in User /\ r.who \in User
  /\ Requests = Asked("login") \cup Asked("follow") \cup Asked("followByID")
  BY RequestsAssumption DEF Asked, Logins, Follows, SignUps, Wishes

LEMMA DelayedFacts ==
  /\ Delayed = CallOf("initialSetup") \cup CallOf("findFollows") \cup CallOf("delayFollow")
  /\ \A t \in CallOf("initialSetup") \cup CallOf("findFollows") :
       t.user \in User /\ t.user \in SignUps /\ t = [op |-> t.op, user |-> t.user]
  /\ \A t \in CallOf("delayFollow") : /\ t.user \in User /\ t.who \in User
                                      /\ t = [op |-> "delayFollow", user |-> t.user, who |-> t.who]
                                      /\ <<t.user, t.who>> \in Wishes
<1>1. \A t \in Delayed :
        \/ /\ t \in [op : {"initialSetup", "findFollows"}, user : SignUps]
        \/ \E r \in Asked("follow") : t = [op |-> "delayFollow", user |-> r.user, who |-> r.who]
  BY DEF Delayed, SignUps
<1>2. \A t \in [op : {"initialSetup", "findFollows"}, user : SignUps] :
        t.op \in {"initialSetup", "findFollows"} /\ t.user \in SignUps /\ t = [op |-> t.op, user |-> t.user]
  OBVIOUS
<1>3. SignUps \subseteq User
  BY AskedFacts DEF SignUps
<1> QED
  BY <1>1, <1>2, <1>3, AskedFacts DEF CallOf, Wishes

LEMMA DelayedMade ==
  /\ \A u \in SignUps : /\ [op |-> "initialSetup", user |-> u] \in CallOf("initialSetup")
                        /\ [op |-> "findFollows", user |-> u] \in CallOf("findFollows")
  /\ \A a, e : <<a, e>> \in Wishes =>
                 [op |-> "delayFollow", user |-> a, who |-> e] \in CallOf("delayFollow")
  BY DEF CallOf, Delayed, SignUps, Wishes

LEMMA TaskFacts ==
  ASSUME Local, NEW w \in Worker
  PROVE  /\ pc[w] # "idle" => task[w].user \in User
         /\ pc[w] \in {"lookup", "create", "addUser", "setup", "next", "wanted", "spread"}
              => task[w].user \in SignUps
         /\ pc[w] \in {"byEmail", "want"} =>
              /\ task[w].op = "follow" /\ task[w].who \in User
              /\ <<task[w].user, task[w].who>> \in Wishes
         /\ task[w].op = "initialSetup" <=> task[w] \in CallOf("initialSetup")
         /\ task[w].op = "findFollows" <=> task[w] \in CallOf("findFollows")
         /\ task[w].op = "delayFollow" <=> task[w] \in CallOf("delayFollow")
         /\ pc[w] = "idle" => task[w].op = "none"
         /\ pc[w] \in {"addUser", "setup"} => task[w].op = "login"
         /\ whom[w] \subseteq User /\ rest[w] \subseteq User
<1>1. Served(w) /\ whom[w] \subseteq User /\ rest[w] \subseteq User
      /\ task[w] \in Logins \cup Follows \cup Delayed \cup {NoTask}
  BY DEF Local
<1>2. pc[w] \in PCs
  BY <1>1 DEF Served
<1> QED
  BY <1>1, <1>2, AskedFacts, DelayedFacts DEF Served, PCs, NoTask, CallOf, Logins, Follows
------------------------------------------------------------------------------
(* The steps of a request, and what they do to the requests                 *)

Step(w) ==
  \/ \E r \in Requests : Request(w, r)
  \/ \E t \in queue : Start(w, t)
  \/ Run(w)
  \/ LookupError(w) \/ Fail(w) \/ Kill(w)

(* Request w comes to l with task t, and x and y to treat.                 *)
Moves(w, l, t, x, y) ==
  /\ pc' = [pc EXCEPT ![w] = l]
  /\ task' = [task EXCEPT ![w] = t]
  /\ whom' = [whom EXCEPT ![w] = x]
  /\ rest' = [rest EXCEPT ![w] = y]

LEMMA MovesFacts ==
  ASSUME Local, NEW w \in Worker, NEW l, NEW t, NEW x, NEW y, Moves(w, l, t, x, y)
  PROVE  /\ pc'[w] = l /\ task'[w] = t /\ whom'[w] = x /\ rest'[w] = y
         /\ \A v \in Worker \ {w} : /\ pc'[v] = pc[v] /\ task'[v] = task[v]
                                    /\ whom'[v] = whom[v] /\ rest'[v] = rest[v]
  BY DEF Local, Moves

LEMMA MovesLocal ==
  ASSUME Local, NEW w \in Worker, NEW l \in PCs,
         NEW t \in Logins \cup Follows \cup Delayed \cup {NoTask},
         NEW x \in SUBSET User, NEW y \in SUBSET User,
         Moves(w, l, t, x, y), Served(w)', Treated(w)'
  PROVE  Local'
<1>1. \A v \in Worker \ {w} : Served(v)' /\ Treated(v)'
  BY MovesFacts DEF Local, Served, Treated
<1>2. /\ pc' \in [Worker -> PCs] /\ whom' \in [Worker -> SUBSET User]
      /\ rest' \in [Worker -> SUBSET User]
      /\ task' \in [Worker -> Logins \cup Follows \cup Delayed \cup {NoTask}]
  BY DEF Local, Moves
<1> QED
  BY <1>1, <1>2 DEF Local

LEMMA LeaveMoves ==
  ASSUME Local, NEW w \in Worker, Leave(w)
  PROVE  Moves(w, "idle", NoTask, {}, {}) /\ Local'
<1>1. Moves(w, "idle", NoTask, {}, {})
  BY DEF Leave, Goto, Moves
<1>2. Served(w)' /\ Treated(w)'
  BY <1>1, MovesFacts DEF Served, Treated, NoTask, PCs
<1> QED
  BY <1>1, <1>2, MovesLocal DEF PCs

LEMMA GotoMoves ==
  ASSUME Local, NEW w \in Worker, NEW l \in PCs, Goto(w, l), UNCHANGED local
  PROVE  Moves(w, l, task[w], whom[w], rest[w])
  BY DEF Local, Goto, Moves, local

LEMMA GotoLocal ==
  ASSUME Local, NEW w \in Worker, NEW l \in PCs, Goto(w, l), UNCHANGED local,
         \/ pc[w] = "lookup" /\ l = "create"
         \/ pc[w] = "create" /\ l = "addUser"
         \/ pc[w] = "addUser" /\ l = "setup"
         \/ pc[w] = "tx" /\ l = "call"
         \/ pc[w] = "call" /\ l = "next" /\ task[w].op = "initialSetup"
  PROVE  Local'
<1>1. Moves(w, l, task[w], whom[w], rest[w])
  BY GotoMoves
<1>2. Served(w) /\ Treated(w)
  BY DEF Local
<1>3. task[w].op = "initialSetup" <=> task[w] \in CallOf("initialSetup")
  BY TaskFacts
<1>4. Served(w)' /\ Treated(w)'
  BY <1>1, <1>2, <1>3, MovesFacts DEF Served, Treated
<1>5. task[w] \in Logins \cup Follows \cup Delayed \cup {NoTask} /\ whom[w] \in SUBSET User
      /\ rest[w] \in SUBSET User
  BY DEF Local
<1> QED
  BY <1>1, <1>4, <1>5, MovesLocal

LEMMA BeginLocal ==
  ASSUME Local, NEW w \in Worker, NEW l \in PCs,
         NEW t \in Requests \cup Delayed, NEW y \in SUBSET User, Begin(w, t, l, y),
         \/ t \in Asked("login") /\ l = "lookup" /\ y = {}
         \/ t \in Asked("follow") /\ l = "byEmail" /\ y = {}
         \/ t \in Asked("followByID") /\ l = "tx" /\ y = {}
         \/ t \in CallOf("initialSetup") /\ l = "next" /\ y = Range(AutoFollowers)
         \/ t \in CallOf("findFollows") /\ l = "wanted" /\ y = {}
         \/ t \in CallOf("delayFollow") /\ l = "tx" /\ y = {}
  PROVE  Local'
<1> DEFINE x == IF t.op \in {"followByID", "delayFollow"} THEN {t.who} ELSE {}
<1>1. Moves(w, l, t, x, y)
  BY DEF Begin, Goto, Moves
<1>2. x \in SUBSET User
  BY AskedFacts, DelayedFacts DEF CallOf
<1>3. /\ t.op = "initialSetup" => x = {} /\ y = Range(AutoFollowers)
      /\ t.op \in {"followByID", "delayFollow"} => x = {t.who} /\ t.who \in User
  BY AskedFacts, DelayedFacts DEF CallOf
<1>4. t.op = "delayFollow" => x = {t.who}
  OBVIOUS
<1>5. t \in Logins \cup Follows \cup Delayed
  BY AskedFacts
<1>6. l = "tx" => \E u \in User : x = {u}
  BY <1>3, AskedFacts DEF CallOf
<1> HIDE DEF x
<1>7. /\ pc'[w] = l /\ task'[w] = t /\ whom'[w] = x /\ rest'[w] = y
      /\ l \notin {"call", "spread"}
  BY <1>1, MovesFacts
<1>8. Treated(w)'
  BY <1>2, <1>3, <1>4, <1>6, <1>7 DEF Treated
<1>9. Served(w)'
  BY <1>7 DEF Served
<1> QED
  BY <1>1, <1>2, <1>5, <1>8, <1>9, MovesLocal

LEMMA RequestBegins ==
  ASSUME NEW w \in Worker, NEW r \in Requests, Request(w, r)
  PROVE  \/ Begin(w, r, "lookup", {}) /\ r \in Asked("login")
         \/ Begin(w, r, "byEmail", {}) /\ r \in Asked("follow")
         \/ Begin(w, r, "tx", {}) /\ r \in Asked("followByID")
<1>1. CASE r \in Asked("login")
  BY <1>1, AskedFacts DEF Request
<1>2. CASE r \in Asked("follow")
  BY <1>2, AskedFacts DEF Request
<1>3. CASE r \in Asked("followByID")
  BY <1>3, AskedFacts DEF Request
<1> QED
  BY <1>1, <1>2, <1>3, AskedFacts

LEMMA StartBegins ==
  ASSUME Rest, NEW w \in Worker, NEW t \in queue, Start(w, t)
  PROVE  /\ t \in Delayed
         /\ \/ Begin(w, t, "next", Range(AutoFollowers)) /\ t \in CallOf("initialSetup")
            \/ Begin(w, t, "wanted", {}) /\ t \in CallOf("findFollows")
            \/ Begin(w, t, "tx", {}) /\ t \in CallOf("delayFollow")
<1>1. t \in Delayed /\ t.op \in {"initialSetup", "findFollows", "delayFollow"}
  BY DelayedFacts DEF Rest, CallOf
<1>2. CASE t.op = "initialSetup"
  BY <1>1, <1>2 DEF Start, CallOf
<1>3. CASE t.op = "findFollows"
  BY <1>1, <1>3 DEF Start, CallOf
<1>4. CASE t.op = "delayFollow"
  BY <1>1, <1>4 DEF Start, CallOf
<1> QED
  BY <1>1, <1>2, <1>3, <1>4
LEMMA AutoUsers == Range(AutoFollowers) \subseteq User /\ Range(Existing) \subseteq User
  BY UsersAssumption, RangeEquality, ElementOfSeq, LenProperties DEF Range

LEMMA LocalStep ==
  ASSUME Local, Rest, NEW w \in Worker, Step(w)
  PROVE  Local'
<1>0. {} \in SUBSET User /\ Range(AutoFollowers) \in SUBSET User
  BY AutoUsers
<1>t. /\ task[w] \in Logins \cup Follows \cup Delayed \cup {NoTask}
      /\ whom[w] \in SUBSET User /\ rest[w] \in SUBSET User /\ Served(w) /\ Treated(w)
  BY DEF Local
<1>1. ASSUME NEW r \in Requests, Request(w, r) PROVE Local'
  BY <1>0, <1>1, RequestBegins, BeginLocal DEF PCs
<1>2. ASSUME NEW t \in queue, Start(w, t) PROVE Local'
  BY <1>0, <1>2, StartBegins, BeginLocal DEF PCs
<1>3. CASE Lookup(w) \/ LookupError(w) \/ Create(w) \/ AddUser(w) \/ FollowTx(w)
  BY <1>3, LeaveMoves, GotoLocal DEF Lookup, LookupError, Create, AddUser, FollowTx, PCs
<1>4. CASE CallSetup(w) \/ NoSuchUser(w) \/ CallFindFollows(w) \/ SpreadDone(w) \/ RecordWant(w)
           \/ Fail(w) \/ Kill(w)
  BY <1>4, LeaveMoves DEF CallSetup, NoSuchUser, CallFindFollows, SpreadDone, RecordWant, Fail,
                          Kill, Done
<1>5. CASE CallCatchUp(w)
  BY <1>5, LeaveMoves, GotoLocal DEF CallCatchUp, Done, PCs
<1>6. CASE NextAuto(w)
  <2>1. PICK u \in rest[w] : whom' = [whom EXCEPT ![w] = {u}] /\ rest' = [rest EXCEPT ![w] = @ \ {u}]
    BY <1>6 DEF NextAuto
  <2>2. Moves(w, "tx", task[w], {u}, rest[w] \ {u})
    BY <1>6, <2>1 DEF NextAuto, Goto, Moves, Local
  <2>3. u \in User /\ pc[w] = "next" /\ task[w] \in CallOf("initialSetup") /\ task[w].op = "initialSetup"
    BY <1>6, <1>t, <2>1 DEF NextAuto, Served, CallOf
  <2>4. Served(w)' /\ Treated(w)'
    BY <1>t, <2>1, <2>2, <2>3, MovesFacts DEF Served, Treated, PCs
  <2>5. {u} \in SUBSET User /\ rest[w] \ {u} \in SUBSET User
    BY <1>t, <2>3
  <2> QED
    BY <1>t, <2>2, <2>4, <2>5, MovesLocal DEF PCs
<1>7. CASE FindWanting(w)
  <2>1. Moves(w, "spread", task[w], whom[w], Waiting(task[w].user))
    BY <1>7 DEF FindWanting, Goto, Moves, Local
  <2>2. pc[w] = "wanted" /\ task[w] \in CallOf("findFollows") /\ task[w].op = "findFollows"
    BY <1>7, <1>t DEF FindWanting, Served, CallOf
  <2>3. Waiting(task[w].user) \in SUBSET User
        /\ \A a \in Waiting(task[w].user) : <<a, task[w].user>> \in Wishes
    BY DEF Waiting, Rest
  <2>4. Served(w)' /\ Treated(w)'
    BY <1>t, <2>1, <2>2, <2>3, MovesFacts DEF Served, Treated, PCs
  <2> QED
    BY <1>t, <2>1, <2>3, <2>4, MovesLocal DEF PCs
<1>8. CASE Spread(w)
  <2>1. PICK a \in rest[w] : rest' = [rest EXCEPT ![w] = @ \ {a}]
    BY <1>8 DEF Spread
  <2>2. Moves(w, "spread", task[w], whom[w], rest[w] \ {a})
    BY <1>8, <2>1 DEF Spread, Moves, Local
  <2>3. pc[w] = "spread" /\ task[w] \in CallOf("findFollows") /\ task[w].op = "findFollows"
    BY <1>8, <1>t DEF Spread, Served, CallOf
  <2>4. Served(w)' /\ Treated(w)'
    BY <1>t, <2>1, <2>2, <2>3, MovesFacts DEF Served, Treated, PCs
  <2>5. rest[w] \ {a} \in SUBSET User
    BY <1>t
  <2> QED
    BY <1>t, <2>2, <2>4, <2>5, MovesLocal DEF PCs
<1>9. CASE ByEmail(w)
  <2>1. pc[w] = "byEmail" /\ task[w] \in Asked("follow") /\ task[w].op = "follow"
        /\ task[w].who \in User
    BY <1>9, <1>t, AskedFacts DEF ByEmail, Served
  <2>2. CASE task[w].who \in emailIndex
    <3>1. Moves(w, "tx", task[w], {task[w].who}, rest[w])
      BY <1>9, <2>2 DEF ByEmail, Goto, Moves, Local
    <3>2. Served(w)' /\ Treated(w)'
      BY <1>t, <2>1, <3>1, MovesFacts DEF Served, Treated, PCs
    <3> QED
      BY <1>t, <2>1, <3>1, <3>2, MovesLocal DEF PCs
  <2>3. CASE task[w].who \notin emailIndex
    <3>1. Moves(w, "want", task[w], whom[w], rest[w])
      BY <1>9, <2>3 DEF ByEmail, Goto, Moves, Local
    <3>2. Served(w)' /\ Treated(w)'
      BY <1>t, <2>1, <3>1, MovesFacts DEF Served, Treated, PCs
    <3> QED
      BY <1>t, <3>1, <3>2, MovesLocal DEF PCs
  <2> QED
    BY <2>2, <2>3
<1> QED
  BY <1>1, <1>2, <1>3, <1>4, <1>5, <1>6, <1>7, <1>8, <1>9 DEF Step, Run
------------------------------------------------------------------------------
(* The graph: createUser, followById's transaction and the wish             *)

LEMMA GraphKept ==
  ASSUME NEW w \in Worker, Step(w), ~Create(w)
  PROVE  /\ replaced' = replaced
         /\ ~FollowTx(w) /\ ~RecordWant(w) => UNCHANGED graph
  BY DEF Step, Run, Request, Start, Begin, Lookup, LookupError, AddUser, CallSetup, FollowTx,
         NoSuchUser, CallCatchUp, NextAuto, CallFindFollows, FindWanting, Spread, SpreadDone,
         ByEmail, RecordWant, Fail, Kill, history, graph

Graph == Stored /\ ListsUnique /\ ListsPaired

LEMMA CreateGraph ==
  ASSUME Local, Graph, replaced \subseteq User, NEW w \in Worker, Create(w)
  PROVE  Graph'
<1> DEFINE u == task[w].user
<1>1. /\ u \in User
      /\ exists' = exists \cup {u}
      /\ iFollow' = [iFollow EXCEPT ![u] = AutoFollowers]
      /\ followsMe' = [followsMe EXCEPT ![u] = <<>>]
      /\ want' = [want EXCEPT ![u] = <<>>]
      /\ replaced \subseteq replaced'
      /\ u \in exists => u \in replaced'
  BY TaskFacts DEF Create
<1>2. AutoFollowers \in Seq(User) /\ IsInjective(AutoFollowers)
  BY UsersAssumption
<1>3. Stored /\ ListsUnique /\ ListsPaired
  BY DEF Graph
<1> HIDE DEF u
<1>a. /\ iFollow'[u] = AutoFollowers /\ followsMe'[u] = <<>> /\ want'[u] = <<>>
      /\ \A v \in User \ {u} : /\ iFollow'[v] = iFollow[v] /\ followsMe'[v] = followsMe[v]
                               /\ want'[v] = want[v]
  BY <1>1, <1>3 DEF Stored
<1>4. iFollow' \in [User -> Seq(User)] /\ followsMe' \in [User -> Seq(User)] /\ want' \in [User -> Seq(User)]
  BY <1>1, <1>2, <1>3 DEF Stored
<1>5. Stored'
  <2>1. exists' \subseteq User /\ Range(AutoFollowers) \cup Range(Existing) \subseteq exists'
    BY <1>1, <1>3 DEF Stored
  <2>2. \A v \in User : Range(iFollow[v]) \cup Range(followsMe[v]) \subseteq exists
    BY <1>3 DEF Stored
  <2>3. \A v \in User : Range(iFollow'[v]) \cup Range(followsMe'[v]) \subseteq exists'
    BY <1>1, <1>a, <2>1, <2>2, EmptyList
  <2>4. \A v \in User : v \notin exists' => iFollow'[v] = <<>> /\ followsMe'[v] = <<>> /\ want'[v] = <<>>
    BY <1>1, <1>3, <1>a DEF Stored
  <2>5. Wants' \subseteq Wants
    BY <1>a, EmptyList DEF Wants
  <2> QED
    BY <1>3, <1>4, <2>1, <2>3, <2>4, <2>5 DEF Stored
<1>6. ListsUnique'
  BY <1>2, <1>3, <1>a, EmptyList DEF ListsUnique
<1>7. ListsPaired'
  <2> SUFFICES ASSUME NEW a \in User \ replaced', NEW v \in User \ replaced'
               PROVE  /\ a \in Range(followsMe'[v]) => v \in Range(iFollow'[a]) \/ a = v
                      /\ v \in Range(iFollow'[a]) \ Range(AutoFollowers) => a \in Range(followsMe'[v])
    BY DEF ListsPaired
  <2>1. /\ a \in Range(followsMe[v]) => v \in Range(iFollow[a]) \/ a = v
        /\ v \in Range(iFollow[a]) \ Range(AutoFollowers) => a \in Range(followsMe[v])
    BY <1>1, <1>3 DEF ListsPaired
  <2>2. Range(iFollow[a]) \cup Range(followsMe[v]) \subseteq exists
    BY <1>3 DEF Stored
  <2>3. CASE v = u
    BY <1>1, <1>a, <2>2, <2>3, EmptyList
  <2>4. CASE a = u
    BY <1>1, <1>a, <2>2, <2>4, EmptyList
  <2>5. CASE v # u /\ a # u
    BY <1>a, <2>1, <2>5
  <2> QED
    BY <2>3, <2>4, <2>5
<1> QED
  BY <1>5, <1>6, <1>7 DEF Graph

LEMMA FollowGraph ==
  ASSUME Local, Graph, NEW w \in Worker, FollowTx(w)
  PROVE  Graph'
<1> DEFINE a == task[w].user
<1>1. PICK u \in whom[w] :
        /\ {a, u} \subseteq exists
        /\ followsMe' = [followsMe EXCEPT ![u] = Include(@, a)]
        /\ iFollow' = IF a = u /\ a \notin Range(followsMe[u])
                      THEN iFollow
                      ELSE [iFollow EXCEPT ![a] = Include(@, u)]
  BY DEF FollowTx, NewFollowsMe
<1>2. a \in User /\ u \in User /\ UNCHANGED <<exists, want, replaced>>
  BY TaskFacts DEF FollowTx, history
<1>3. Stored /\ ListsUnique /\ ListsPaired
  BY DEF Graph
<1> HIDE DEF a
<1>4. iFollow[a] \in Seq(User) /\ followsMe[u] \in Seq(User)
  BY <1>2, <1>3 DEF Stored
<1>5. /\ followsMe'[u] = Include(followsMe[u], a)
      /\ \A v \in User \ {u} : followsMe'[v] = followsMe[v]
      /\ iFollow'[a] \in {iFollow[a], Include(iFollow[a], u)}
      /\ a # u => iFollow'[a] = Include(iFollow[a], u)
      /\ \A v \in User \ {a} : iFollow'[v] = iFollow[v]
  BY <1>1, <1>2, <1>3 DEF Stored
<1>b. /\ Include(followsMe[u], a) \in Seq(User)
      /\ Range(Include(followsMe[u], a)) = Range(followsMe[u]) \cup {a}
      /\ IsInjective(followsMe[u]) => IsInjective(Include(followsMe[u], a))
  BY <1>2, <1>4, IncludeFacts
<1>c. /\ Include(iFollow[a], u) \in Seq(User)
      /\ Range(Include(iFollow[a], u)) = Range(iFollow[a]) \cup {u}
      /\ IsInjective(iFollow[a]) => IsInjective(Include(iFollow[a], u))
  BY <1>2, <1>4, IncludeFacts
<1>6. /\ followsMe'[u] \in Seq(User) /\ Range(followsMe'[u]) = Range(followsMe[u]) \cup {a}
      /\ IsInjective(followsMe[u]) => IsInjective(followsMe'[u])
  BY <1>4, <1>5, <1>b, <1>c
<1>7. /\ iFollow'[a] \in Seq(User)
      /\ Range(iFollow'[a]) \in {Range(iFollow[a]), Range(iFollow[a]) \cup {u}}
      /\ a # u => Range(iFollow'[a]) = Range(iFollow[a]) \cup {u}
      /\ IsInjective(iFollow[a]) => IsInjective(iFollow'[a])
  BY <1>4, <1>5, <1>b, <1>c
<1>8. Stored'
  <2>1. iFollow' \in [User -> Seq(User)] /\ followsMe' \in [User -> Seq(User)]
    BY <1>1, <1>2, <1>3, <1>b, <1>c DEF Stored
  <2>2. \A v \in User : Range(iFollow'[v]) \cup Range(followsMe'[v]) \subseteq exists'
    BY <1>1, <1>2, <1>3, <1>5, <1>6, <1>7 DEF Stored
  <2>3. \A v \in User : v \notin exists' => iFollow'[v] = <<>> /\ followsMe'[v] = <<>> /\ want'[v] = <<>>
    BY <1>1, <1>2, <1>3, <1>5 DEF Stored
  <2>4. Wants' = Wants
    BY <1>2 DEF Wants
  <2> QED
    BY <1>2, <1>3, <2>1, <2>2, <2>3, <2>4 DEF Stored
<1>9. ListsUnique'
  BY <1>2, <1>3, <1>5, <1>6, <1>7 DEF ListsUnique
<1>10. ListsPaired'
  <2> SUFFICES ASSUME NEW b \in User \ replaced, NEW v \in User \ replaced
               PROVE  /\ b \in Range(followsMe'[v]) => v \in Range(iFollow'[b]) \/ b = v
                      /\ v \in Range(iFollow'[b]) \ Range(AutoFollowers) => b \in Range(followsMe'[v])
    BY <1>2 DEF ListsPaired
  <2>1. /\ b \in Range(followsMe[v]) => v \in Range(iFollow[b]) \/ b = v
        /\ v \in Range(iFollow[b]) \ Range(AutoFollowers) => b \in Range(followsMe[v])
    BY <1>3 DEF ListsPaired
  <2>2. Range(followsMe'[v]) = IF v = u THEN Range(followsMe[v]) \cup {a} ELSE Range(followsMe[v])
    BY <1>5, <1>6
  <2>3. /\ b # a => Range(iFollow'[b]) = Range(iFollow[b])
        /\ Range(iFollow[b]) \subseteq Range(iFollow'[b])
        /\ Range(iFollow'[b]) \subseteq Range(iFollow[b]) \cup {u}
    BY <1>5, <1>7
  <2> QED
    BY <1>7, <2>1, <2>2, <2>3
<1> QED
  BY <1>8, <1>9, <1>10 DEF Graph

LEMMA WantGraph ==
  ASSUME Local, Graph, NEW w \in Worker, RecordWant(w)
  PROVE  Graph'
<1> DEFINE a == task[w].user
           e == task[w].who
<1>1. /\ UNCHANGED <<exists, iFollow, followsMe, replaced>> /\ a \in User /\ e \in User
      /\ want' = IF a \in exists THEN [want EXCEPT ![a] = Include(@, e)] ELSE want
      /\ <<a, e>> \in Wishes
  BY TaskFacts DEF RecordWant, history
<1>2. Stored /\ ListsUnique /\ ListsPaired
  BY DEF Graph
<1> HIDE DEF a, e
<1>3. want[a] \in Seq(User)
  BY <1>1, <1>2 DEF Stored
<1>b. /\ Include(want[a], e) \in Seq(User)
      /\ Range(Include(want[a], e)) = Range(want[a]) \cup {e}
      /\ IsInjective(want[a]) => IsInjective(Include(want[a], e))
  BY <1>1, <1>3, IncludeFacts
<1>4. /\ want' \in [User -> Seq(User)]
      /\ \A v \in User \ {a} : want'[v] = want[v]
      /\ a \notin exists => want'[a] = want[a]
      /\ Range(want'[a]) \subseteq Range(want[a]) \cup {e}
      /\ IsInjective(want[a]) => IsInjective(want'[a])
  BY <1>1, <1>2, <1>3, <1>b DEF Stored
<1>5. Stored'
  <2>1. Wants' \subseteq Wants \cup {<<a, e>>}
    BY <1>4 DEF Wants
  <2> QED
    BY <1>1, <1>2, <1>4, <2>1 DEF Stored
<1>6. ListsUnique' /\ ListsPaired'
  BY <1>1, <1>2, <1>4 DEF ListsUnique, ListsPaired
<1> QED
  BY <1>5, <1>6 DEF Graph

LEMMA GraphStep ==
  ASSUME Local, Graph, replaced \subseteq User, NEW w \in Worker, Step(w)
  PROVE  Graph'
<1>1. CASE ~Create(w) /\ ~FollowTx(w) /\ ~RecordWant(w)
  BY <1>1, GraphKept DEF graph, Graph, Stored, ListsUnique, ListsPaired, Wants
<1> QED
  BY <1>1, CreateGraph, FollowGraph, WantGraph
------------------------------------------------------------------------------
(* What the other variables may become                                      *)

(* Which steps change what besides the graph.                              *)
LEMMA QueueKept ==
  ASSUME NEW w \in Worker, Step(w)
  PROVE  /\ ~CallSetup(w) /\ ~CallFindFollows(w) /\ ~Spread(w) =>
              UNCHANGED hurt \/ Kill(w)
         /\ ~CallSetup(w) /\ ~CallFindFollows(w) /\ ~Spread(w) /\ ~CallCatchUp(w) /\ ~SpreadDone(w) =>
              UNCHANGED queue
         /\ ~CallCatchUp(w) => UNCHANGED catchUp
         /\ ~CallCatchUp(w) /\ ~Kill(w) => UNCHANGED missed
         /\ ~AddUser(w) /\ ~Kill(w) => UNCHANGED unnamed
         /\ ~FindWanting(w) /\ ~ByEmail(w) => UNCHANGED slipped
         /\ ~AddUser(w) => UNCHANGED named
         /\ ~Create(w) => UNCHANGED exists
         /\ UNCHANGED <<emailIndex, wantIndex>>
         /\ faults' = faults \/ Fault
  BY DEF Step, Run, Request, Start, Begin, Lookup, LookupError, Create, AddUser, CallSetup, FollowTx,
         NoSuchUser, CallCatchUp, NextAuto, CallFindFollows, FindWanting, Spread, SpreadDone,
         ByEmail, RecordWant, Fail, Kill, Call, history, graph, indexes, AfterError

LEMMA SetupCall ==
  ASSUME Local, NEW w \in Worker, CallSetup(w)
  PROVE  LET u == task[w].user
             t == [op |-> "initialSetup", user |-> u] IN
         /\ u \in User /\ t \in CallOf("initialSetup")
         /\ \/ queue' = queue \cup {t} /\ hurt' = hurt
            \/ queue' = queue /\ hurt' = hurt \cup {u} /\ Fault
  BY TaskFacts, DelayedMade DEF CallSetup, Call

LEMMA FindCall ==
  ASSUME Local, NEW w \in Worker, CallFindFollows(w)
  PROVE  LET u == task[w].user
             t == [op |-> "findFollows", user |-> u] IN
         /\ u \in User /\ t \in CallOf("findFollows") /\ task[w] \in CallOf("initialSetup")
         /\ \/ queue' = (queue \cup {t}) \ {task[w]} /\ hurt' = hurt
            \/ queue' = queue \ {task[w]} /\ hurt' = hurt \cup {u} /\ Fault
  BY TaskFacts, DelayedMade DEF CallFindFollows, Local, Served

LEMMA SpreadCall ==
  ASSUME Local, NEW w \in Worker, Spread(w)
  PROVE  LET e == task[w].user IN
         /\ e \in User /\ task[w] \in CallOf("findFollows")
         /\ \E a \in rest[w] : LET t == [op |-> "delayFollow", user |-> a, who |-> e] IN
              /\ a \in User /\ t \in CallOf("delayFollow")
              /\ \/ queue' = queue \cup {t} /\ hurt' = hurt
                 \/ queue' = queue /\ hurt' = hurt \cup {e} /\ Fault
              /\ rest' = [rest EXCEPT ![w] = @ \ {a}]
<1>1. Served(w) /\ Treated(w) /\ pc[w] = "spread"
  BY DEF Local, Spread
<1>2. PICK a \in rest[w] : /\ Call([op |-> "delayFollow", user |-> a, who |-> task[w].user], task[w].user)
                           /\ rest' = [rest EXCEPT ![w] = @ \ {a}]
  BY DEF Spread
<1>3. task[w].user \in User /\ task[w] \in CallOf("findFollows")
      /\ a \in User /\ <<a, task[w].user>> \in Wishes
  BY <1>1, <1>2, TaskFacts DEF Served, Treated
<1> QED
  BY <1>2, <1>3, DelayedMade DEF Call

LEMMA RestStep ==
  ASSUME Local, Stored, Rest, NEW w \in Worker, Step(w)
  PROVE  Rest'
<1>1. /\ pc[w] # "idle" => task[w].user \in User
      /\ whom[w] \subseteq User
  BY TaskFacts
<1>2. CatchUp(w) \subseteq User \X User \/ pc[w] = "idle"
  BY <1>1 DEF CatchUp
<1>3. queue' \subseteq Delayed
  <2>1. CASE CallSetup(w)
    BY <2>1, SetupCall DEF Rest, CallOf
  <2>2. CASE CallFindFollows(w)
    BY <2>2, FindCall DEF Rest, CallOf
  <2>3. CASE Spread(w)
    BY <2>3, SpreadCall DEF Rest, CallOf
  <2>4. CASE ~CallSetup(w) /\ ~CallFindFollows(w) /\ ~Spread(w)
    BY <2>4, QueueKept DEF Rest, CallCatchUp, SpreadDone, Done
  <2> QED
    BY <2>1, <2>2, <2>3, <2>4
<1>4. hurt' \subseteq User
  <2>1. CASE CallSetup(w)
    BY <2>1, SetupCall DEF Rest
  <2>2. CASE CallFindFollows(w)
    BY <2>2, FindCall DEF Rest
  <2>3. CASE Spread(w)
    BY <2>3, SpreadCall DEF Rest
  <2>4. CASE ~CallSetup(w) /\ ~CallFindFollows(w) /\ ~Spread(w)
    BY <1>1, <2>4, QueueKept DEF Rest, Kill
  <2> QED
    BY <2>1, <2>2, <2>3, <2>4
<1>5. catchUp' \subseteq User \X User /\ missed' \subseteq User \X User
  <2>1. CASE CallCatchUp(w)
    BY <1>2, <2>1 DEF CallCatchUp, Rest
  <2>2. CASE Kill(w)
    BY <1>1, <2>2 DEF Kill, Rest
  <2>3. CASE ~CallCatchUp(w) /\ ~Kill(w)
    BY <2>3, QueueKept DEF Rest
  <2> QED
    BY <2>1, <2>2, <2>3
<1>6. slipped' \subseteq User \X User
  <2>1. CASE FindWanting(w)
    <3>1. \A v \in Worker : pc[v] = "want" => task[v].user \in User
      BY TaskFacts
    <3>2. task[w].user \in User
      BY <1>1, <2>1 DEF FindWanting
    <3> QED
      BY <2>1, <3>1, <3>2 DEF FindWanting, Rest, Wants
  <2>2. CASE ByEmail(w)
    BY <2>2, TaskFacts DEF ByEmail, Rest
  <2>3. CASE ~FindWanting(w) /\ ~ByEmail(w)
    BY <2>3, QueueKept DEF Rest
  <2> QED
    BY <2>1, <2>2, <2>3
<1>7. named' \subseteq User /\ unnamed' \subseteq User
  BY <1>1, QueueKept DEF AddUser, Named, Kill, Rest
<1>8. replaced' \subseteq User
  BY <1>1, GraphKept DEF Create, Rest
<1>9. faults' \in 0 .. MaxFaults
  BY QueueKept, FaultsAssumption DEF Fault, Rest
<1>10. emailIndex' \subseteq exists' /\ wantIndex' \subseteq Wishes
  BY QueueKept DEF Create, Rest
<1> QED
  BY <1>3, <1>4, <1>5, <1>6, <1>7, <1>8, <1>9, <1>10 DEF Rest

LEMMA NamedStep ==
  ASSUME Local, Rest, BeingNamed, NEW w \in Worker, Step(w)
  PROVE  BeingNamed'
<1>0. SUFFICES ASSUME NEW u \in exists'
               PROVE  \/ u \in named' \cup unnamed'
                      \/ \E v \in Worker : pc'[v] = "addUser" /\ task'[v].user = u
  BY DEF BeingNamed
<1>2. named \subseteq named' /\ unnamed \subseteq unnamed'
  BY QueueKept DEF AddUser, Named, Kill
<1>3. CASE Create(w)
  <2>1. Moves(w, "addUser", task[w], whom[w], rest[w])
    BY <1>3, GotoMoves DEF Create, PCs
  <2>2. u = task[w].user \/ u \in exists
    BY <1>3 DEF Create
  <2>3. ASSUME NEW v \in Worker, pc[v] = "addUser"
        PROVE  pc'[v] = "addUser" /\ task'[v] = task[v]
    BY <1>3, <2>1, <2>3, MovesFacts
  <2>4. pc'[w] = "addUser" /\ task'[w] = task[w]
    BY <2>1, MovesFacts
  <2> QED
    BY <1>2, <2>2, <2>3, <2>4 DEF BeingNamed
<1>4. CASE AddUser(w)
  <2>1. Moves(w, "setup", task[w], whom[w], rest[w])
    BY <1>4, GotoMoves DEF AddUser, PCs
  <2>2. task[w].user \in named' \cup unnamed' /\ exists' = exists
    BY <1>4 DEF AddUser, Named, graph
  <2>3. \A v \in Worker \ {w} : pc'[v] = pc[v] /\ task'[v] = task[v]
    BY <2>1, MovesFacts
  <2> QED
    BY <1>2, <2>2, <2>3 DEF BeingNamed
<1>5. CASE Kill(w)
  <2>1. Moves(w, "idle", NoTask, {}, {})
    BY <1>5, LeaveMoves DEF Kill
  <2>2. exists' = exists /\ (pc[w] = "addUser" => task[w].user \in unnamed')
    BY <1>5 DEF Kill, graph
  <2>3. \A v \in Worker \ {w} : pc'[v] = pc[v] /\ task'[v] = task[v]
    BY <2>1, MovesFacts
  <2> QED
    BY <1>2, <2>2, <2>3 DEF BeingNamed
<1>6. CASE ~Create(w) /\ ~AddUser(w) /\ ~Kill(w)
  <2>1. exists' = exists
    BY <1>6, QueueKept
  <2>2. \A v \in Worker : pc[v] = "addUser" => pc'[v] = pc[v] /\ task'[v] = task[v]
    BY <1>6 DEF Local, Step, Run, Request, Start, Begin, Lookup, LookupError, CallSetup,
         FollowTx, NoSuchUser, CallCatchUp, NextAuto, CallFindFollows, FindWanting, Spread,
         SpreadDone, ByEmail, RecordWant, Fail, Leave, Goto, Done, local
  <2> QED
    BY <1>2, <2>1, <2>2 DEF BeingNamed
<1> QED
  BY <1>3, <1>4, <1>5, <1>6
------------------------------------------------------------------------------
(* What a step leaves in place                                              *)

LEMMA OthersKept ==
  ASSUME Local, NEW w \in Worker, Step(w)
  PROVE  \A v \in Worker \ {w} : /\ pc'[v] = pc[v] /\ task'[v] = task[v]
                                 /\ whom'[v] = whom[v] /\ rest'[v] = rest[v]
  BY DEF Local, Step, Run, Request, Start, Begin, Lookup, LookupError, Create, AddUser, CallSetup,
         FollowTx, NoSuchUser, CallCatchUp, NextAuto, CallFindFollows, FindWanting, Spread,
         SpreadDone, ByEmail, RecordWant, Fail, Kill, Leave, Goto, Done, local

(* A request begins, or ends, or goes on with its task.                    *)
LEMMA TaskStep ==
  ASSUME Local, NEW w \in Worker, Step(w)
  PROVE  \/ /\ pc[w] = "idle"
            /\ \/ \E r \in Requests : Request(w, r) /\ task'[w] = r
               \/ \E t \in queue : Start(w, t) /\ task'[w] = t
         \/ /\ pc[w] # "idle"
            /\ Leave(w) /\ pc'[w] = "idle" /\ task'[w] = NoTask
         \/ /\ pc[w] # "idle" /\ task'[w] = task[w]
            /\ \/ Lookup(w) /\ pc'[w] = "create"
               \/ LookupError(w) /\ pc'[w] = "create"
               \/ Create(w) /\ pc'[w] = "addUser"
               \/ AddUser(w) /\ pc'[w] = "setup"
               \/ FollowTx(w) /\ pc'[w] = "call" /\ whom'[w] = whom[w] /\ rest'[w] = rest[w]
               \/ CallCatchUp(w) /\ task[w].op = "initialSetup" /\ pc'[w] = "next" /\ rest'[w] = rest[w]
               \/ NextAuto(w) /\ pc'[w] = "tx"
               \/ FindWanting(w) /\ pc'[w] = "spread"
               \/ Spread(w) /\ pc'[w] = "spread"
               \/ ByEmail(w) /\ pc'[w] \in {"tx", "want"}
<1>0. Leave(w) => pc'[w] = "idle" /\ task'[w] = NoTask
  BY LeaveMoves, MovesFacts
<1>1. CASE \E r \in Requests : Request(w, r)
  BY <1>1 DEF Request, Begin, Local
<1>2. CASE \E t \in queue : Start(w, t)
  BY <1>2 DEF Start, Begin, Local
<1>3. CASE Lookup(w) \/ LookupError(w) \/ Create(w) \/ AddUser(w) \/ FollowTx(w)
  BY <1>0, <1>3 DEF Local, Lookup, LookupError, Create, AddUser, FollowTx, Goto, local
<1>4. CASE CallSetup(w) \/ NoSuchUser(w) \/ CallFindFollows(w) \/ SpreadDone(w) \/ RecordWant(w)
           \/ Fail(w) \/ Kill(w)
  BY <1>0, <1>4 DEF CallSetup, NoSuchUser, CallFindFollows, SpreadDone, RecordWant, Fail, Kill, Done
<1>5. CASE CallCatchUp(w)
  BY <1>0, <1>5 DEF Local, CallCatchUp, Goto, Done, local
<1>6. CASE NextAuto(w) \/ FindWanting(w) \/ Spread(w) \/ ByEmail(w)
  BY <1>6 DEF Local, NextAuto, FindWanting, Spread, ByEmail, Goto
<1> QED
  BY <1>1, <1>2, <1>3, <1>4, <1>5, <1>6 DEF Step, Run

LEMMA IncludeFollower ==
  ASSUME Stored, NEW v \in User, NEW x \in User
  PROVE  Range(Include(followsMe[v], x)) = Range(followsMe[v]) \cup {x}
<1>1. followsMe[v] \in Seq(User)
  BY DEF Stored
<1> QED
  BY <1>1, IncludeFacts

LEMMA IncludeWish ==
  ASSUME Stored, NEW v \in User, NEW x \in User
  PROVE  Range(Include(want[v], x)) = Range(want[v]) \cup {x}
<1>1. want[v] \in Seq(User)
  BY DEF Stored
<1> QED
  BY <1>1, IncludeFacts

(* Who exists stays, and keeps the followers he has or is written over.     *)
LEMMA FollowersKept ==
  ASSUME Local, Stored, Rest, NEW w \in Worker, Step(w)
  PROVE  /\ exists \subseteq exists' /\ replaced \subseteq replaced' /\ hurt \subseteq hurt'
         /\ catchUp \subseteq catchUp' /\ missed \subseteq missed' /\ slipped \subseteq slipped'
         /\ \A u \in exists : u \in replaced' \/ Range(followsMe[u]) \subseteq Range(followsMe'[u])
<1>1. exists \subseteq exists' /\ replaced \subseteq replaced'
  BY GraphKept, QueueKept DEF Create
<1>2. hurt \subseteq hurt'
  BY QueueKept, SetupCall, FindCall, SpreadCall DEF Kill
<1>3. catchUp \subseteq catchUp' /\ missed \subseteq missed' /\ slipped \subseteq slipped'
  BY QueueKept DEF CallCatchUp, Kill, FindWanting, ByEmail
<1>4. ASSUME NEW u \in exists
      PROVE  u \in replaced' \/ Range(followsMe[u]) \subseteq Range(followsMe'[u])
  <2>1. u \in User
    BY DEF Stored
  <2>2. CASE Create(w)
    BY <2>1, <2>2 DEF Create, Stored
  <2>3. CASE FollowTx(w)
    <3>1. PICK v \in whom[w] : followsMe' = [followsMe EXCEPT ![v] = Include(@, task[w].user)]
      BY <2>3 DEF FollowTx, NewFollowsMe
    <3>2. v \in User /\ task[w].user \in User
      BY <2>3, TaskFacts DEF FollowTx
    <3>4. Range(Include(followsMe[v], task[w].user)) = Range(followsMe[v]) \cup {task[w].user}
      BY <3>2, IncludeFollower
    <3> QED
      BY <2>1, <3>1, <3>2, <3>4 DEF Stored
  <2>4. CASE ~Create(w) /\ ~FollowTx(w)
    BY <2>4, GraphKept DEF RecordWant, graph
  <2> QED
    BY <2>2, <2>3, <2>4
<1> QED
  BY <1>1, <1>2, <1>3, <1>4

(* The calls the queue hands out next exist as the step leaves them.       *)
LEMMA QueueStep ==
  ASSUME Local, Rest, NEW w \in Worker, Step(w), NEW t \in queue', t \notin queue
  PROVE  \/ CallSetup(w) /\ t = [op |-> "initialSetup", user |-> task[w].user]
         \/ CallFindFollows(w) /\ t = [op |-> "findFollows", user |-> task[w].user]
         \/ Spread(w) /\ \E a \in rest[w] : t = [op |-> "delayFollow", user |-> a, who |-> task[w].user]
<1>1. CASE CallSetup(w)
  BY <1>1, SetupCall
<1>2. CASE CallFindFollows(w)
  BY <1>2, FindCall
<1>3. CASE Spread(w)
  BY <1>3, SpreadCall
<1>4. CASE CallCatchUp(w) \/ SpreadDone(w)
  BY <1>4 DEF CallCatchUp, SpreadDone, Done
<1> QED
  BY <1>1, <1>2, <1>3, <1>4, QueueKept

LEMMA SignedUpStep ==
  ASSUME Local, Stored, Rest, SignedUp, NEW w \in Worker, Step(w)
  PROVE  SignedUp'
<1>1. /\ exists \subseteq exists' /\ replaced \subseteq replaced'
      /\ \A u \in exists : u \in replaced' \/ Range(followsMe[u]) \subseteq Range(followsMe'[u])
  BY FollowersKept
<1>2. ASSUME NEW t \in queue', t.op \in {"initialSetup", "findFollows"} PROVE t.user \in exists'
  <2>1. CASE t \in queue
    BY <1>1, <1>2, <2>1 DEF SignedUp
  <2>2. CASE t \notin queue /\ CallSetup(w)
    BY <1>1, <1>2, <2>2, QueueStep DEF SignedUp, CallSetup, CallFindFollows, Spread
  <2>3. CASE t \notin queue /\ CallFindFollows(w)
    <3>1. pc[w] = "next" /\ task[w].op = "initialSetup" /\ task[w].user \in exists
      BY <2>3, TaskFacts, FindCall DEF SignedUp, CallFindFollows
    <3>2. ~CallSetup(w) /\ ~Spread(w)
      BY <3>1 DEF CallSetup, Spread
    <3>3. t = [op |-> "findFollows", user |-> task[w].user]
      BY <2>3, <3>2, QueueStep
    <3> QED
      BY <1>1, <3>1, <3>3
  <2> QED
    BY <1>2, <2>1, <2>2, <2>3, QueueStep
<1>3. ASSUME NEW v \in Worker,
             pc'[v] \in {"addUser", "setup"} \/ task'[v].op \in {"initialSetup", "findFollows"}
      PROVE  task'[v].user \in exists'
  <2>1. CASE v # w
    BY <1>1, <1>3, <2>1, OthersKept DEF SignedUp
  <2>2. CASE v = w /\ \E r \in Requests : Request(w, r)
    <3>1. PICK r \in Requests : Request(w, r)
      BY <2>2
    <3>2. task'[w] = r /\ pc'[w] \in {"lookup", "byEmail", "tx"}
      BY <3>1, RequestBegins DEF Begin, Local, Goto
    <3>3. r.op \in {"login", "follow", "followByID"}
      BY AskedFacts
    <3> QED
      BY <1>3, <2>2, <3>2, <3>3
  <2>3. CASE v = w /\ \E t \in queue : Start(w, t)
    <3>1. PICK t \in queue : Start(w, t)
      BY <2>3
    <3>2. task'[w] = t /\ pc'[w] \in {"next", "wanted", "tx"}
      BY <3>1, StartBegins DEF Begin, Local, Goto
    <3> QED
      BY <1>1, <1>3, <2>3, <3>2 DEF SignedUp
  <2>4. CASE v = w /\ task'[w] = NoTask
    BY <1>3, <2>4, LocalStep, TaskFacts DEF Local, Served, NoTask, Asked
  <2>5. CASE v = w /\ task'[w] = task[w]
    <3>1. CASE Create(w)
      BY <2>5, <3>1 DEF Create
    <3>2. CASE ~Create(w)
      <4>1. pc[w] = "idle" => task[w] = NoTask
        BY DEF Local, Served
      <4>2. pc'[w] \in {"addUser", "setup"} => pc[w] \in {"idle", "addUser"} \/ task'[w] = NoTask
        BY <3>2, TaskStep DEF AddUser
      <4>3. task'[w] # NoTask
        BY <1>3, <2>5, LocalStep DEF Local, Served, NoTask, Asked
      <4> QED
        BY <1>1, <1>3, <2>5, <4>1, <4>2, <4>3 DEF SignedUp
    <3> QED
      BY <3>1, <3>2
  <2> QED
    BY <2>1, <2>2, <2>3, <2>4, <2>5, TaskStep
<1>4. ASSUME NEW v \in Worker, pc'[v] = "call", NEW u \in whom'[v]
      PROVE  u \in exists' /\ (u \in replaced' \/ task'[v].user \in Range(followsMe'[u]))
  <2>1. CASE v # w
    BY <1>1, <1>4, <2>1, OthersKept DEF SignedUp
  <2>2. CASE v = w
    <3>1. FollowTx(w) /\ whom'[w] = whom[w] /\ task'[w] = task[w]
      <4>1. \A r \in Requests : Request(w, r) => pc'[w] # "call"
        BY RequestBegins DEF Begin, Local, Goto
      <4>2. \A t \in queue : Start(w, t) => pc'[w] # "call"
        BY StartBegins DEF Begin, Local, Goto
      <4> QED
        BY <1>4, <2>2, <4>1, <4>2, TaskStep
    <3>2. PICK x \in whom[w] : /\ {task[w].user, x} \subseteq exists
                               /\ followsMe' = [followsMe EXCEPT ![x] = Include(@, task[w].user)]
      BY <3>1 DEF FollowTx, NewFollowsMe
    <3>3. u = x
      BY <1>4, <2>2, <3>1, <3>2 DEF Local, Treated, FollowTx
    <3>4. x \in User /\ task[w].user \in User /\ followsMe[x] \in Seq(User)
      BY <3>2 DEF Stored
    <3>5. task[w].user \in Range(Include(followsMe[x], task[w].user))
      BY <3>4, IncludeFacts
    <3> QED
      BY <1>1, <2>2, <3>1, <3>2, <3>3, <3>4, <3>5 DEF Stored
  <2> QED
    BY <2>1, <2>2
<1> QED
  BY <1>2, <1>3, <1>4 DEF SignedUp
------------------------------------------------------------------------------
(* Catching up                                                              *)

LEMMA OwedFacts ==
  /\ \A t \in CallOf("initialSetup") : Owed(t) = {<<t.user, k>> : k \in Range(AutoFollowers)}
  /\ \A t \in CallOf("delayFollow") : Owed(t) = {<<t.user, t.who>>}
  /\ \A t \in CallOf("findFollows") : Owed(t) = {}
  BY DEF Owed, CallOf

LEMMA CaughtCall ==
  ASSUME Local, NEW w \in Worker, CallCatchUp(w)
  PROVE  CatchUp(w) \subseteq Caught'
  BY DEF CallCatchUp, Caught

(* A call leaves the queue once what it owes has been caught up.           *)
LEMMA QueueServed ==
  ASSUME Local, Stored, Rest, CallsKept, NEW w \in Worker, Step(w), NEW t \in queue, t \notin queue'
  PROVE  /\ t = task[w] /\ Leave(w)
         /\ Owed(t) \subseteq Caught'
         /\ \/ CallCatchUp(w) /\ t \in CallOf("delayFollow")
            \/ CallFindFollows(w) /\ t \in CallOf("initialSetup")
            \/ SpreadDone(w) /\ t \in CallOf("findFollows")
<1>1. Served(w) /\ Treated(w)
  BY DEF Local
<1>2. CASE CallCatchUp(w)
  <2>1. t = task[w] /\ t.op # "initialSetup" /\ Leave(w)
    BY <1>2 DEF CallCatchUp, Done
  <2>2. t \in Delayed
    BY DEF Rest
  <2>3. t \in CallOf("delayFollow")
    BY <1>1, <1>2, <2>1, <2>2, AskedFacts, DelayedFacts DEF CallCatchUp, Served, CallOf
  <2>4. whom[w] = {t.who}
    BY <1>1, <2>1, <2>3 DEF Treated, CallOf
  <2>5. CatchUp(w) = Owed(t)
    BY <2>1, <2>3, <2>4, OwedFacts DEF CatchUp
  <2> QED
    BY <1>2, <2>1, <2>3, <2>5, CaughtCall
<1>3. CASE CallFindFollows(w)
  <2>1. t = task[w] /\ t \in CallOf("initialSetup") /\ pc[w] = "next" /\ rest[w] = {} /\ Leave(w)
    BY <1>3, FindCall DEF CallFindFollows
  <2>2. \A k \in Range(AutoFollowers) : <<task[w].user, k>> \in Caught
    BY <2>1 DEF CallsKept, SetupDone, CallOf
  <2>3. Caught \subseteq Caught'
    BY FollowersKept DEF Caught
  <2> QED
    BY <1>3, <2>1, <2>2, <2>3, OwedFacts
<1>4. CASE SpreadDone(w)
  BY <1>1, <1>4, OwedFacts DEF SpreadDone, Done, Served
<1>5. CASE ~CallCatchUp(w) /\ ~CallFindFollows(w) /\ ~SpreadDone(w)
  BY <1>5, QueueKept, SetupCall, SpreadCall
<1> QED
  BY <1>2, <1>3, <1>4, <1>5

LEMMA CallsKeptStep ==
  ASSUME Local, Stored, Rest, CallsKept, NEW w \in Worker, Step(w)
  PROVE  CallsKept'
<1>1. Caught \subseteq Caught'
  BY FollowersKept DEF Caught
<1>2. \A t : (t \in queue \/ Owed(t) \subseteq Caught) => (t \in queue' \/ Owed(t) \subseteq Caught')
  BY <1>1, QueueServed
<1>3. ASSUME NEW v \in Worker, v # w PROVE CallKept(v)' /\ SetupDone(v)'
  <2>1. CallKept(v) /\ SetupDone(v)
    BY DEF CallsKept
  <2>2. pc'[v] = pc[v] /\ task'[v] = task[v] /\ whom'[v] = whom[v] /\ rest'[v] = rest[v]
    BY <1>3, OthersKept
  <2>3. CallKept(v)'
    BY <1>2, <2>1, <2>2 DEF CallKept
  <2> QED
    BY <1>1, <2>1, <2>2, <2>3 DEF SetupDone
<1>4. CallKept(w)'
  <2>1. CASE \E r \in Requests : task'[w] = r
    BY <2>1, AskedFacts, DelayedFacts DEF CallKept, CallOf
  <2>2. CASE \E t \in queue : Start(w, t) /\ task'[w] = t
    BY <2>2 DEF CallKept, Start, Begin
  <2>3. CASE task'[w] = NoTask
    BY <2>3, DelayedFacts DEF CallKept, CallOf, NoTask
  <2>4. CASE task'[w] = task[w]
    BY <1>2, <2>4 DEF CallsKept, CallKept
  <2> QED
    BY <2>1, <2>2, <2>3, <2>4, TaskStep
<1>5. SetupDone(w)'
  <2>0. SUFFICES ASSUME task'[w].op = "initialSetup", NEW k \in Range(AutoFollowers)
                 PROVE  \/ k \in rest'[w]
                        \/ pc'[w] \in {"tx", "call"} /\ k \in whom'[w]
                        \/ <<task'[w].user, k>> \in Caught'
    BY DEF SetupDone
  <2>1. ASSUME NEW r \in Requests, task'[w] = r PROVE FALSE
    BY <2>0, <2>1, AskedFacts
  <2>2. CASE \E t \in queue : Start(w, t) /\ task'[w] = t
    BY <2>0, <2>2 DEF Start, Begin, Local
  <2>3. CASE task'[w] = NoTask
    BY <2>0, <2>3 DEF NoTask
  <2>4. CASE task'[w] = task[w]
    <3>1. \/ k \in rest[w]
          \/ pc[w] \in {"tx", "call"} /\ k \in whom[w]
          \/ <<task[w].user, k>> \in Caught
      BY <2>0, <2>4 DEF CallsKept, SetupDone
    <3>2. pc[w] \in {"tx", "call", "next"} \/ pc[w] = "idle"
      BY <2>0, <2>4, AskedFacts, DelayedFacts DEF Local, Served, PCs, CallOf
    <3>3. pc[w] # "idle"
      BY <2>0, <2>4 DEF Local, Served, NoTask
    <3>4. CASE FollowTx(w) /\ pc'[w] = "call" /\ whom'[w] = whom[w] /\ rest'[w] = rest[w]
      BY <1>1, <2>4, <3>1, <3>4
    <3>5. CASE CallCatchUp(w) /\ pc'[w] = "next" /\ rest'[w] = rest[w]
      <4>1. CatchUp(w) \subseteq Caught' /\ CatchUp(w) = {<<task[w].user, u>> : u \in whom[w]}
        BY <3>5, CaughtCall DEF CatchUp
      <4> QED
        BY <1>1, <2>4, <3>1, <3>5, <4>1
    <3>6. CASE NextAuto(w)
      <4>1. PICK u \in rest[w] : whom' = [whom EXCEPT ![w] = {u}] /\ rest' = [rest EXCEPT ![w] = @ \ {u}]
        BY <3>6 DEF NextAuto
      <4>2. whom'[w] = {u} /\ rest'[w] = rest[w] \ {u} /\ pc[w] = "next" /\ pc'[w] = "tx"
        BY <3>6, <4>1 DEF NextAuto, Goto, Local
      <4> QED
        BY <1>1, <2>4, <3>1, <4>2
    <3>7. ~Lookup(w) /\ ~LookupError(w) /\ ~Create(w) /\ ~AddUser(w) /\ ~FindWanting(w) /\ ~Spread(w)
          /\ ~ByEmail(w)
      BY <3>2, <3>3 DEF Lookup, LookupError, Create, AddUser, FindWanting, Spread, ByEmail
    <3>8. task'[w] # NoTask
      BY <2>0 DEF NoTask
    <3> QED
      BY <3>3, <3>4, <3>5, <3>6, <3>7, <3>8, TaskStep
  <2> QED
    BY <2>1, <2>2, <2>3, <2>4, TaskStep
<1> QED
  BY <1>3, <1>4, <1>5 DEF CallsKept

LEMMA OwedStep ==
  ASSUME Local, Stored, Rest, CallsKept, EdgesOwed, NEW w \in Worker, Step(w)
  PROVE  EdgesOwed'
<1>0. SUFFICES ASSUME NEW a \in User, NEW u \in User, a \in Range(followsMe'[u])
               PROVE  EdgeOwed(a, u)'
  BY DEF EdgesOwed
<1>1. Caught \subseteq Caught'
  BY FollowersKept DEF Caught
<1>2. CASE FollowTx(w) /\ a = task[w].user /\ u \in whom[w]
  <2>1. pc'[w] = "call" /\ task'[w] = task[w] /\ whom'[w] = whom[w]
    BY <1>2 DEF FollowTx, Goto, Local, local
  <2> QED
    BY <1>2, <2>1 DEF EdgeOwed
<1>3. CASE EdgeOwed(a, u)
  <2>1. CASE <<a, u>> \in Caught \/ (a \in Range(Existing) /\ u \in Range(AutoFollowers))
    BY <1>1, <2>1 DEF EdgeOwed
  <2>2. ASSUME NEW t \in queue, <<a, u>> \in Owed(t) PROVE EdgeOwed(a, u)'
    <3>1. t \in queue' \/ <<a, u>> \in Caught'
      BY <2>2, QueueServed
    <3> QED
      BY <2>2, <3>1 DEF EdgeOwed
  <2>3. ASSUME NEW v \in Worker, pc[v] = "call", task[v].user = a, u \in whom[v], v # w
        PROVE  EdgeOwed(a, u)'
    BY <2>3, OthersKept DEF EdgeOwed
  <2>4. ASSUME pc[w] = "call", task[w].user = a, u \in whom[w] PROVE EdgeOwed(a, u)'
    <3>1. CASE CallCatchUp(w)
      BY <2>4, <3>1, CaughtCall DEF CatchUp, EdgeOwed
    <3>2. CASE Kill(w) /\ task[w] \notin Delayed
      BY <2>4, <3>2 DEF Kill, EdgeOwed, Caught
    <3>3. CASE Kill(w) /\ task[w] \in Delayed
      <4>1. task[w] \in CallOf("initialSetup") \cup CallOf("delayFollow")
        BY <2>4, <3>3, AskedFacts, DelayedFacts DEF Local, Served, CallOf
      <4>2. <<a, u>> \in Owed(task[w])
        BY <2>4, <4>1, OwedFacts DEF Local, Treated, CallOf
      <4>3. task[w] \in queue \/ Owed(task[w]) \subseteq Caught
        BY <3>3 DEF CallsKept, CallKept
      <4> QED
        BY <1>1, <2>2, <4>2, <4>3 DEF EdgeOwed
    <3>4. CallCatchUp(w) \/ Kill(w)
      BY <2>4 DEF Step, Run, Request, Start, Begin, Lookup, LookupError, Create, AddUser, CallSetup,
         FollowTx, NoSuchUser, NextAuto, CallFindFollows, FindWanting, Spread,
         SpreadDone, ByEmail, RecordWant, Fail
    <3> QED
      BY <3>1, <3>2, <3>3, <3>4
  <2> QED
    BY <1>3, <2>1, <2>2, <2>3, <2>4 DEF EdgeOwed
<1>4. \/ a \in Range(followsMe[u])
      \/ FollowTx(w) /\ a = task[w].user /\ u \in whom[w]
  <2>1. CASE Create(w)
    BY <1>0, <2>1, EmptyList DEF Create, Stored
  <2>2. CASE FollowTx(w)
    <3>1. PICK v \in whom[w] : followsMe' = [followsMe EXCEPT ![v] = Include(@, task[w].user)]
      BY <2>2 DEF FollowTx, NewFollowsMe
    <3>2. v \in User /\ task[w].user \in User
      BY <2>2, TaskFacts DEF FollowTx
    <3>4. Range(Include(followsMe[v], task[w].user)) = Range(followsMe[v]) \cup {task[w].user}
      BY <3>2, IncludeFollower
    <3> QED
      BY <1>0, <2>2, <3>1, <3>2, <3>4 DEF Stored
  <2>3. CASE ~Create(w) /\ ~FollowTx(w)
    BY <1>0, <2>3, GraphKept DEF RecordWant, graph
  <2> QED
    BY <2>1, <2>2, <2>3
<1> QED
  BY <1>2, <1>3, <1>4 DEF EdgesOwed
(* The catch-up comes after the transaction, and the edge stays.           *)
LEMMA CaughtMadeStep ==
  ASSUME Local, Stored, Rest, SignedUp, CaughtMade, NEW w \in Worker, Step(w)
  PROVE  CaughtMade'
<1>1. SUFFICES ASSUME NEW x \in Caught'
               PROVE  /\ x[2] \in exists'
                      /\ x[2] \in replaced' \/ x[1] \in Range(followsMe'[x[2]])
  BY DEF CaughtMade
<1>2. /\ exists \subseteq exists' /\ replaced \subseteq replaced'
      /\ \A u \in exists : u \in replaced' \/ Range(followsMe[u]) \subseteq Range(followsMe'[u])
  BY FollowersKept
<1>3. CASE x \in Caught
  BY <1>2, <1>3 DEF CaughtMade
<1>4. CASE x \notin Caught
  <2>1. pc[w] = "call" /\ x \in CatchUp(w)
    BY <1>1, <1>4, QueueKept DEF CallCatchUp, Kill, Caught, CatchUp
  <2>2. PICK u \in whom[w] : x = <<task[w].user, u>>
    BY <2>1 DEF CatchUp
  <2>3. u \in exists /\ (u \in replaced \/ task[w].user \in Range(followsMe[u]))
    BY <2>1 DEF SignedUp
  <2> QED
    BY <1>2, <2>2, <2>3
<1> QED
  BY <1>3, <1>4

(* An initialSetup on its way stays so, or has caught up every account, or *)
(* a fault has cut it off.                                                 *)
LEMMA SetupKept ==
  ASSUME Local, Stored, Rest, CallsKept, NEW w \in Worker, Step(w),
         NEW a, a \notin hurt', SetupAhead(a)
  PROVE  SetupAhead(a)' \/ \A k \in Range(AutoFollowers) : <<a, k>> \in Caught'
<1>1. ASSUME NEW v \in Worker, pc[v] \in {"addUser", "setup"}, task[v].user = a, v # w
      PROVE  SetupAhead(a)'
  BY <1>1, OthersKept DEF SetupAhead
<1>2. ASSUME pc[w] \in {"addUser", "setup"}, task[w].user = a
      PROVE  SetupAhead(a)'
  <2>1. CASE AddUser(w)
    BY <1>2, <2>1 DEF AddUser, Goto, Local, local, SetupAhead
  <2>2. CASE CallSetup(w)
    <3> DEFINE t == [op |-> "initialSetup", user |-> a]
    <3>1. t.op = "initialSetup" /\ t.user = a
      OBVIOUS
    <3>2. queue' = queue \cup {t} \/ a \in hurt'
      BY <1>2, <2>2, SetupCall
    <3> HIDE DEF t
    <3> QED
      BY <3>1, <3>2 DEF SetupAhead
  <2>3. CASE Kill(w)
    BY <1>2, <2>3 DEF Kill
  <2>4. AddUser(w) \/ CallSetup(w) \/ Kill(w)
    BY <1>2 DEF Step, Run, Request, Start, Begin, Lookup, LookupError, Create, FollowTx,
         NoSuchUser, CallCatchUp, NextAuto, CallFindFollows, FindWanting, Spread,
         SpreadDone, ByEmail, RecordWant, Fail
  <2> QED
    BY <2>1, <2>2, <2>3, <2>4
<1>3. ASSUME NEW t \in queue, t.op = "initialSetup", t.user = a
      PROVE  SetupAhead(a)' \/ \A k \in Range(AutoFollowers) : <<a, k>> \in Caught'
  <2>1. CASE t \in queue'
    BY <1>3, <2>1 DEF SetupAhead
  <2>2. CASE t \notin queue'
    BY <1>3, <2>2, QueueServed, OwedFacts DEF CallOf
  <2> QED
    BY <2>1, <2>2
<1> QED
  BY <1>1, <1>2, <1>3 DEF SetupAhead

LEMMA AutoPairedStep ==
  ASSUME Local, Stored, Rest, SignedUp, CallsKept, CaughtMade, AutoPaired, NEW w \in Worker, Step(w)
  PROVE  AutoPaired'
<1>1. SUFFICES ASSUME NEW a \in exists' \ (hurt' \cup replaced'),
                      NEW k \in Range(AutoFollowers) \ replaced'
               PROVE  a \in Range(followsMe'[k]) \/ SetupAhead(a)'
  BY DEF AutoPaired
<1>2. /\ replaced \subseteq replaced' /\ hurt \subseteq hurt'
      /\ k \in exists /\ Range(followsMe[k]) \subseteq Range(followsMe'[k])
  BY FollowersKept DEF Stored
<1>3. CASE a \notin exists
  <2>1. Create(w) /\ a = task[w].user
    BY <1>1, <1>3, QueueKept DEF Create
  <2>2. pc'[w] = "addUser" /\ task'[w] = task[w]
    BY <2>1 DEF Create, Goto, Local, local
  <2> QED
    BY <2>1, <2>2 DEF SetupAhead
<1>4. CASE a \in exists /\ a \in Range(followsMe[k])
  BY <1>2, <1>4
<1>5. CASE a \in exists /\ SetupAhead(a)
  <2>1. ASSUME <<a, k>> \in Caught' PROVE a \in Range(followsMe'[k])
    BY <1>1, <2>1, CaughtMadeStep DEF CaughtMade
  <2> QED
    BY <1>1, <1>5, <2>1, SetupKept
<1> QED
  BY <1>1, <1>2, <1>3, <1>4, <1>5 DEF AutoPaired
------------------------------------------------------------------------------
(* Wishes and searches                                                      *)

LEMMA ResolvedKept ==
  ASSUME Local, Stored, Rest, SignedUp, CallsKept, NEW w \in Worker, Step(w),
         NEW a \in User, NEW e \in exists, e \notin replaced', Resolved(a, e)
  PROVE  Resolved(a, e)'
<1>1. slipped \subseteq slipped' /\ Range(followsMe[e]) \subseteq Range(followsMe'[e])
      /\ e \notin replaced
  BY FollowersKept
<1>2. CASE a \in Range(followsMe[e]) \/ <<a, e>> \in slipped
  BY <1>1, <1>2 DEF Resolved
<1>3. ASSUME NEW t \in queue, t.op = "delayFollow", t.user = a, t.who = e
      PROVE  Resolved(a, e)'
  <2>1. CASE t \in queue'
    BY <1>3, <2>1 DEF Resolved
  <2>2. CASE t \notin queue'
    <3>1. CallCatchUp(w) /\ t = task[w]
      BY <1>3, <2>2, QueueServed DEF CallOf
    <3>2. pc[w] = "call" /\ whom[w] = {e}
      BY <1>3, <3>1 DEF CallCatchUp, Local, Treated
    <3>3. a \in Range(followsMe[e])
      BY <1>1, <1>3, <3>1, <3>2 DEF SignedUp
    <3> QED
      BY <1>1, <3>3 DEF Resolved
  <2> QED
    BY <2>1, <2>2
<1> QED
  BY <1>2, <1>3 DEF Resolved

(* Who newly waits for somebody whose search has come has slipped by.      *)
LEMMA AskersKept ==
  ASSUME Local, Stored, Rest, NEW w \in Worker, Step(w), NEW e \in exists, ~QueryAhead(e),
         AskersSlipped(e)
  PROVE  AskersSlipped(e)'
<1> SUFFICES ASSUME NEW v \in Worker, pc'[v] = "want", task'[v].who = e
             PROVE  <<task'[v].user, e>> \in slipped'
  BY DEF AskersSlipped
<1>1. slipped \subseteq slipped'
  BY FollowersKept
<1>2. CASE v # w
  BY <1>1, <1>2, OthersKept DEF AskersSlipped
<1>3. CASE v = w
  <2>1. ByEmail(w) /\ task'[w] = task[w]
    <3>1. \A r \in Requests : Request(w, r) => pc'[w] # "want"
      BY RequestBegins DEF Begin, Local, Goto
    <3>2. \A t \in queue : Start(w, t) => pc'[w] # "want"
      BY StartBegins DEF Begin, Local, Goto
    <3> QED
      BY <1>3, <3>1, <3>2, TaskStep
  <2>2. pc'[w] = "want" /\ task[w].who = e
    BY <1>3, <2>1
  <2>3. e \notin emailIndex
    BY <2>1, <2>2 DEF ByEmail, Goto, Local
  <2> QED
    BY <1>3, <2>1, <2>2, <2>3 DEF ByEmail
<1> QED
  BY <1>2, <1>3

LEMMA SearchedKept ==
  ASSUME Local, Stored, Rest, SignedUp, CallsKept, NEW w \in Worker, Step(w),
         NEW e \in exists, e \notin replaced', ~QueryAhead(e), NEW left, Searched(e, left)
  PROVE  Searched(e, left)'
<1>1. AskersSlipped(e)'
  BY AskersKept DEF Searched
<1>2. ASSUME NEW a \in User \ left, e \in Range(want'[a]) PROVE Resolved(a, e)'
  <2>1. CASE e \in Range(want[a])
    BY <2>1, ResolvedKept DEF Searched
  <2>2. CASE e \notin Range(want[a])
    <3>1. ~Create(w)
      BY <1>2, <2>2, EmptyList DEF Create, Stored
    <3>2. RecordWant(w)
      BY <1>2, <2>2, <3>1, GraphKept DEF FollowTx, graph
    <3>3. pc[w] = "want" /\ task[w].user \in User /\ task[w].who \in User
      BY <3>2, TaskFacts DEF RecordWant
    <3>5. Range(Include(want[task[w].user], task[w].who)) = Range(want[task[w].user]) \cup {task[w].who}
      BY <3>3, IncludeWish
    <3>6. a = task[w].user /\ e = task[w].who
      BY <1>2, <2>2, <3>2, <3>3, <3>5 DEF RecordWant, Stored
    <3>7. <<a, e>> \in slipped
      BY <3>3, <3>6 DEF Searched, AskersSlipped
    <3> QED
      BY <3>7, FollowersKept DEF Resolved
  <2> QED
    BY <2>1, <2>2
<1> QED
  BY <1>1, <1>2 DEF Searched

(* A search that is ahead is ahead still, is done, or a fault has undone it. *)
LEMMA AheadKept ==
  ASSUME Local, Stored, Rest, SignedUp, CallsKept, Searches, NEW w \in Worker, Step(w),
         NEW e \in exists, e \notin replaced', e \notin hurt', SearchAhead(e)
  PROVE  SearchAhead(e)' \/ Searched(e, {})'
<1>1. e \notin hurt /\ e \notin replaced
  BY FollowersKept
<1>2. ASSUME NEW v \in Worker, pc[v] \in {"addUser", "setup"}, task[v].user = e, v # w
      PROVE  SearchAhead(e)'
  BY <1>2, OthersKept DEF SearchAhead, SetupAhead
<1>3. ASSUME pc[w] \in {"addUser", "setup"}, task[w].user = e
      PROVE  SearchAhead(e)'
  <2>1. CASE AddUser(w)
    BY <1>3, <2>1 DEF AddUser, Goto, Local, local, SearchAhead, SetupAhead
  <2>2. CASE CallSetup(w)
    <3>1. queue' = queue \cup {[op |-> "initialSetup", user |-> e]}
      BY <1>3, <2>2, SetupCall
    <3> DEFINE t == [op |-> "initialSetup", user |-> e]
    <3>2. t.op = "initialSetup" /\ t.user = e
      OBVIOUS
    <3> HIDE DEF t
    <3>3. t \in queue'
      BY <3>1 DEF t
    <3> QED
      BY <3>2, <3>3 DEF SearchAhead, SetupAhead
  <2>3. CASE Kill(w)
    BY <1>3, <2>3 DEF Kill
  <2>4. AddUser(w) \/ CallSetup(w) \/ Kill(w)
    BY <1>3 DEF Step, Run, Request, Start, Begin, Lookup, LookupError, Create, FollowTx,
         NoSuchUser, CallCatchUp, NextAuto, CallFindFollows, FindWanting, Spread,
         SpreadDone, ByEmail, RecordWant, Fail
  <2> QED
    BY <2>1, <2>2, <2>3, <2>4
<1>4. ASSUME NEW t \in queue, t.op \in {"initialSetup", "findFollows"}, t.user = e
      PROVE  SearchAhead(e)' \/ Searched(e, {})'
  <2>1. CASE t \in queue'
    BY <1>4, <2>1 DEF SearchAhead, SetupAhead
  <2>2. CASE t \notin queue' /\ CallFindFollows(w)
    <3> DEFINE f == [op |-> "findFollows", user |-> e]
    <3>1. t = task[w] /\ t \in CallOf("initialSetup")
      BY <2>2, QueueServed, FindCall
    <3>2. queue' = (queue \cup {f}) \ {t}
      BY <1>4, <2>2, <3>1, FindCall
    <3>3. f.op = "findFollows" /\ f.user = e /\ t.op = "initialSetup"
      BY <3>1 DEF CallOf
    <3> HIDE DEF f
    <3>4. f \in queue'
      BY <3>2, <3>3
    <3> QED
      BY <3>3, <3>4 DEF SearchAhead
  <2>3. CASE t \notin queue' /\ SpreadDone(w)
    <3>1. t = task[w] /\ pc[w] = "spread" /\ rest[w] = {}
      BY <2>3, QueueServed DEF SpreadDone
    <3>2. Searched(e, {})
      BY <1>1, <1>4, <3>1 DEF Searches, Unharmed
    <3>3. ~QueryAhead(e)
      BY <1>4, <3>1 DEF QueryAhead
    <3> QED
      BY <3>2, <3>3, SearchedKept
  <2> QED
    BY <1>4, <2>1, <2>2, <2>3, QueueServed DEF CallOf
<1> QED
  BY <1>2, <1>3, <1>4 DEF SearchAhead, SetupAhead

LEMMA SearchesStep ==
  ASSUME Local, Stored, Rest, SignedUp, CallsKept, Searches, NEW w \in Worker, Step(w)
  PROVE  Searches'
<1>1. ASSUME NEW e \in Unharmed' PROVE SearchAhead(e)' \/ Searched(e, {})'
  <2>1. e \in exists' /\ e \notin hurt' /\ e \notin replaced'
    BY <1>1 DEF Unharmed
  <2>2. CASE e \in exists
    <3>1. e \in Unharmed
      BY <2>1, <2>2, FollowersKept DEF Unharmed
    <3>2. ~SearchAhead(e) => ~QueryAhead(e) /\ Searched(e, {})
      BY <3>1 DEF Searches, QueryAhead
    <3> QED
      BY <2>1, <2>2, <3>2, AheadKept, SearchedKept
  <2>3. CASE e \notin exists
    <3>1. Create(w) /\ e = task[w].user
      BY <2>1, <2>3, QueueKept DEF Create
    <3>2. pc'[w] = "addUser" /\ task'[w] = task[w]
      BY <3>1 DEF Create, Goto, Local, local
    <3> QED
      BY <3>1, <3>2 DEF SearchAhead, SetupAhead
  <2> QED
    BY <2>2, <2>3
<1>2. ASSUME NEW v \in Worker, NEW e \in Unharmed', NEW left,
             pc'[v] = "spread", task'[v].user = e, rest'[v] = left
      PROVE  Searched(e, left)'
  <2>1. e \in exists' /\ e \notin hurt' /\ e \notin replaced'
    BY <1>2 DEF Unharmed
  <2>2. CASE v # w
    <3>1. pc[v] = "spread" /\ task[v].user = e /\ rest[v] = left
      BY <1>2, <2>2, OthersKept
    <3>2. e \in exists
      BY <3>1 DEF SignedUp, Local, Served, CallOf
    <3>3. Searched(e, left)
      BY <2>1, <3>1, <3>2, FollowersKept DEF Searches, Unharmed
    <3>4. ~QueryAhead(e)
      BY <3>1 DEF QueryAhead
    <3> QED
      BY <2>1, <3>2, <3>3, <3>4, SearchedKept
  <2>3. CASE v = w
    <3>1. (FindWanting(w) \/ Spread(w)) /\ task'[w] = task[w]
      <4>1. \A r \in Requests : Request(w, r) => pc'[w] # "spread"
        BY RequestBegins DEF Begin, Local, Goto
      <4>2. \A t \in queue : Start(w, t) => pc'[w] # "spread"
        BY StartBegins DEF Begin, Local, Goto
      <4> QED
        BY <1>2, <2>3, <4>1, <4>2, TaskStep
    <3>2. e = task[w].user /\ e \in User /\ e \in exists
      BY <1>2, <2>1, <2>3, <3>1, QueueKept DEF Stored, FindWanting, Spread, Create
    <3>3. CASE FindWanting(w)
      <4>1. left = Waiting(e)
        BY <1>2, <2>3, <3>2, <3>3 DEF FindWanting, Local
      <4>2. /\ \A x \in Wants \ wantIndex : x[2] = e => x \in slipped'
            /\ \A y \in Worker : pc[y] = "want" /\ task[y].who = e => <<task[y].user, e>> \in slipped'
            /\ UNCHANGED want
        BY <3>2, <3>3 DEF FindWanting, graph
      <4>3. AskersSlipped(e)'
        <5>1. \A y \in Worker : pc'[y] = "want" => pc[y] = "want" /\ task'[y] = task[y]
          BY <1>2, <2>3, OthersKept
        <5> QED
          BY <4>2, <5>1 DEF AskersSlipped
      <4>4. ASSUME NEW a \in User \ Waiting(e), e \in Range(want'[a]) PROVE Resolved(a, e)'
        <5>1. <<a, e>> \in Wants
          BY <3>2, <4>2, <4>4 DEF Wants
        <5>2. <<a, e>> \notin wantIndex
          BY <4>4 DEF Waiting
        <5> QED
          BY <4>2, <5>1, <5>2 DEF Resolved
      <4> QED
        BY <4>1, <4>3, <4>4 DEF Searched
    <3>4. CASE Spread(w)
      <4>1. pc[w] = "spread" /\ e \in Unharmed
        BY <2>1, <3>2, <3>4, FollowersKept DEF Spread, Unharmed
      <4>2. PICK before : before = rest[w]
        OBVIOUS
      <4>3. Searched(e, before)'
        <5>1. Searched(e, before)
          BY <3>2, <4>1, <4>2 DEF Searches
        <5>2. ~QueryAhead(e)
          BY <3>2, <4>1 DEF QueryAhead
        <5> QED
          BY <2>1, <3>2, <5>1, <5>2, SearchedKept
      <4>4. PICK a \in rest[w] :
              /\ \/ queue' = queue \cup {[op |-> "delayFollow", user |-> a, who |-> e]}
                 \/ hurt' = hurt \cup {e}
              /\ rest' = [rest EXCEPT ![w] = @ \ {a}]
        BY <3>2, <3>4, SpreadCall
      <4> DEFINE t == [op |-> "delayFollow", user |-> a, who |-> e]
      <4>5. t \in queue' /\ rest'[w] = rest[w] \ {a}
        BY <2>1, <4>4 DEF Local
      <4>6. t.op = "delayFollow" /\ t.user = a /\ t.who = e
        OBVIOUS
      <4> HIDE DEF t
      <4>7. Resolved(a, e)'
        BY <4>5, <4>6 DEF Resolved
      <4> QED
        BY <1>2, <2>3, <4>2, <4>3, <4>5, <4>7 DEF Searched
    <3> QED
      BY <3>1, <3>3, <3>4
  <2> QED
    BY <2>2, <2>3
<1>3. ASSUME NEW v \in Worker, pc'[v] = "spread", task'[v].user \in Unharmed'
      PROVE  Searched(task[v].user, rest[v])'
  <2>1. PICK e \in Unharmed' : e = task'[v].user
    BY <1>3
  <2>2. PICK left : left = rest'[v]
    OBVIOUS
  <2>3. Searched(e, left)'
    BY <1>2, <1>3, <2>1, <2>2
  <2> QED
    BY <2>1, <2>2, <2>3 DEF Searched, AskersSlipped, Resolved
<1> QED
  BY <1>1, <1>3 DEF Searches
------------------------------------------------------------------------------
(* The invariant                                                            *)

LEMMA GraphInit == Init => GraphInv
<1> SUFFICES ASSUME Init PROVE GraphInv
  OBVIOUS
<1>1. /\ AutoFollowers \in Seq(User) /\ IsInjective(AutoFollowers)
      /\ Existing \in Seq(User) /\ IsInjective(Existing)
      /\ Range(AutoFollowers) \subseteq Range(Existing) /\ Range(Existing) \subseteq User
  BY UsersAssumption, AutoUsers
<1>2. <<>> \in Seq(User)
  OBVIOUS
<1>3. Local
  BY DEF Init, Local, Served, Treated, PCs, NoTask
<1>4. /\ iFollow \in [User -> Seq(User)] /\ followsMe \in [User -> Seq(User)]
      /\ want \in [User -> Seq(User)]
  BY <1>1, <1>2 DEF Init
<1>5. Wants = {}
  BY EmptyList DEF Init, Wants
<1>6. Stored
  <2>1. \A u \in User : Range(iFollow[u]) \cup Range(followsMe[u]) \subseteq exists
    BY <1>1, EmptyList DEF Init
  <2>2. \A u \in User : u \notin exists => iFollow[u] = <<>> /\ followsMe[u] = <<>> /\ want[u] = <<>>
    BY <1>1 DEF Init
  <2> QED
    BY <1>1, <1>4, <1>5, <2>1, <2>2 DEF Init, Stored
<1>7. Rest
  BY <1>1, FaultsAssumption DEF Init, Rest
<1>8. SignedUp
  BY DEF Init, SignedUp, NoTask
<1>9. ListsUnique
  BY <1>1, EmptyList DEF Init, ListsUnique
<1>10. ListsPaired /\ AutoPaired
  BY <1>1, EmptyList DEF Init, ListsPaired, AutoPaired
<1>11. BeingNamed
  BY DEF Init, BeingNamed
<1>12. EdgesOwed
  BY EmptyList DEF Init, EdgesOwed, EdgeOwed
<1>13. CallsKept
  BY <1>3, TaskFacts, DelayedFacts DEF Init, CallsKept, CallKept, SetupDone, NoTask, CallOf
<1>14. CaughtMade
  BY DEF Init, CaughtMade, Caught
<1>15. Searches
  BY EmptyList DEF Init, Searches, Searched, AskersSlipped
<1> QED
  BY <1>3, <1>6, <1>7, <1>8, <1>9, <1>10, <1>11, <1>12, <1>13, <1>14, <1>15
     DEF GraphInv

(* The indexes are read by the typing part alone.                          *)
LEMMA IndexStep ==
  ASSUME GraphInv, emailIndex' \subseteq exists, wantIndex' \subseteq Wishes,
         UNCHANGED <<graph, named, queue, catchUp, pc, local, faults, history>>
  PROVE  GraphInv'
<1>1. Local' /\ Stored' /\ Rest'
  BY DEF GraphInv, Local, Served, Treated, Stored, Rest, Wants, graph, local, history
<1>2. SignedUp' /\ ListsUnique' /\ ListsPaired' /\ AutoPaired' /\ BeingNamed'
  BY DEF GraphInv, SignedUp, ListsUnique, ListsPaired, AutoPaired, SetupAhead, BeingNamed, graph,
         local, history
<1>3. EdgesOwed' /\ CallsKept' /\ CaughtMade'
  BY DEF GraphInv, EdgesOwed, EdgeOwed, CallsKept, CallKept, SetupDone, CaughtMade, Caught, Owed,
         graph, local, history
<1>4. Searches'
  BY DEF GraphInv, Searches, Searched, SearchAhead, SetupAhead, Resolved, AskersSlipped, Unharmed,
         graph, local, history
<1> QED
  BY <1>1, <1>2, <1>3, <1>4 DEF GraphInv

LEMMA GraphInductive == GraphInv /\ [Next]_vars => GraphInv'
<1> SUFFICES ASSUME GraphInv, [Next]_vars PROVE GraphInv'
  OBVIOUS
<1>1. /\ Local /\ Stored /\ Rest /\ SignedUp /\ ListsUnique /\ ListsPaired /\ AutoPaired
      /\ BeingNamed /\ EdgesOwed /\ CallsKept /\ CaughtMade /\ Searches
  BY DEF GraphInv
<1>2. emailIndex \subseteq exists /\ wantIndex \subseteq Wishes /\ Wants \subseteq Wishes
  BY <1>1 DEF Stored, Rest
<1>3. ASSUME NEW w \in Worker, Step(w) PROVE GraphInv'
  <2>1. Local' /\ Rest' /\ SignedUp' /\ BeingNamed'
    BY <1>1, <1>3, LocalStep, RestStep, SignedUpStep, NamedStep
  <2>2. Graph'
    BY <1>1, <1>3, GraphStep DEF Graph, Rest
  <2>3. EdgesOwed' /\ CallsKept' /\ Searches'
    BY <1>1, <1>3, OwedStep, CallsKeptStep, SearchesStep
  <2>4. CaughtMade' /\ AutoPaired'
    BY <1>1, <1>3, CaughtMadeStep, AutoPairedStep
  <2> QED
    BY <2>1, <2>2, <2>3, <2>4 DEF Graph, GraphInv
<1>4. CASE IndexEmail \/ IndexWant
  BY <1>2, <1>4, IndexStep DEF IndexEmail, IndexWant
<1>5. CASE UNCHANGED vars
  BY <1>2, <1>5, IndexStep DEF vars, indexes
<1> QED
  BY <1>3, <1>4, <1>5 DEF Next, Step

(* The conjunction the theorems below follow from holds in every state.    *)
THEOREM GraphInvariant == Spec => []GraphInv
  BY GraphInit, GraphInductive, PTL DEF Spec

(* Every variable keeps its type: whatever the queue hands out, a request   *)
(* asked for.                                                              *)
THEOREM GraphTyped == Spec => []TypeOK
<1>1. GraphInv => TypeOK
  <2> SUFFICES ASSUME GraphInv PROVE TypeOK
    OBVIOUS
  <2>1. Local /\ Stored /\ Rest
    BY DEF GraphInv
  <2>2. Wishes \subseteq User \X User
    BY AskedFacts DEF Wishes
  <2> QED
    BY <2>1, <2>2 DEF TypeOK, Local, Stored, Rest
<1> QED
  BY <1>1, GraphInvariant, PTL

(* No list ever gets a user twice, though follows are asked for again, run *)
(* again and run at the same time.                                         *)
THEOREM GraphUnique == Spec => []ListsUnique
<1>1. GraphInv => ListsUnique
  BY DEF GraphInv
<1> QED
  BY <1>1, GraphInvariant, PTL

(* The two lists of an edge agree in every state, but for users who were   *)
(* written over: FollowsMe lags behind IFollow only for an account of      *)
(* AutoFollowers, while initialSetup is on its way or after a fault cut it *)
(* off, and IFollow behind FollowsMe only for oneself.                     *)
THEOREM GraphPaired == Spec => []EdgesPaired
<1>1. GraphInv => EdgesPaired
  <2> SUFFICES ASSUME GraphInv, NEW a \in User \ replaced, NEW u \in User \ replaced
               PROVE  /\ a \in Range(followsMe[u]) => u \in Range(iFollow[a]) \/ a = u
                      /\ u \in Range(iFollow[a]) =>
                           \/ a \in Range(followsMe[u])
                           \/ u \in Range(AutoFollowers) /\ (a \in hurt \/ SetupAhead(a))
    BY DEF EdgesPaired
  <2>1. /\ a \in Range(followsMe[u]) => u \in Range(iFollow[a]) \/ a = u
        /\ u \in Range(iFollow[a]) \ Range(AutoFollowers) => a \in Range(followsMe[u])
    BY DEF GraphInv, ListsPaired
  <2>2. ASSUME u \in Range(iFollow[a]), u \in Range(AutoFollowers), a \notin hurt
        PROVE  a \in Range(followsMe[u]) \/ SetupAhead(a)
    <3>1. a \in exists
      BY <2>2, EmptyList DEF GraphInv, Stored
    <3> QED
      BY <2>2, <3>1 DEF GraphInv, AutoPaired
  <2> QED
    BY <2>1, <2>2
<1> QED
  BY <1>1, GraphInvariant, PTL

(* Everybody in a list has a name, or is being given one, or a fault fell  *)
(* between his entity and his name: a fault on anything else costs nobody  *)
(* his name.                                                               *)
THEOREM GraphNamed == Spec => []ListedNamed
<1>1. GraphInv => ListedNamed
  BY DEF GraphInv, BeingNamed, Stored, ListedNamed
<1> QED
  BY <1>1, GraphInvariant, PTL

(* Every edge has its catch-up once nothing is left to do, but where a     *)
(* fault fell on that call.                                                *)
THEOREM GraphCaughtUp == Spec => []EdgesCaughtUp
<1>1. GraphInv => EdgesCaughtUp
  BY DEF GraphInv, EdgesOwed, EdgeOwed, Caught, EdgesCaughtUp, Settled
<1> QED
  BY <1>1, GraphInvariant, PTL

(* A wish stands next to the user it names only after a fault, or where    *)
(* both queries missed the other side.                                     *)
THEOREM GraphWants == Spec => []WantsResolved
<1>1. GraphInv => WantsResolved
  <2> SUFFICES ASSUME GraphInv, Settled, NEW a \in User, NEW e \in exists \ (hurt \cup replaced),
                      e \in Range(want[a])
               PROVE  a \in Range(followsMe[e]) \/ <<a, e>> \in slipped
    BY DEF WantsResolved
  <2>1. queue = {} /\ \A w \in Worker : pc[w] = "idle"
    BY DEF Settled
  <2>2. Searched(e, {})
    BY <2>1 DEF GraphInv, Searches, Unharmed, SearchAhead, SetupAhead
  <2>3. Resolved(a, e)
    BY <2>2 DEF Searched
  <2> QED
    BY <2>1, <2>3 DEF Resolved
<1> QED
  BY <1>1, GraphInvariant, PTL
===============================================================================
