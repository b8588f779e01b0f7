----------------------------- MODULE SocialGraph ------------------------------
(***************************************************************************)
(* Users and who follows whom: Login and createUser, the delayed           *)
(* initialSetup, findFollows and followById, and the Follow and FollowByID *)
(* handlers of endpoints/, over the datastore's User entities.             *)
(*                                                                         *)
(* A datastore call, a transaction and a delayed call are one step each.   *)
(* Queries by Email and IWantToFollow have no ancestor and read indexes    *)
(* that follow the entities with a delay.                                  *)
(***************************************************************************)
EXTENDS Integers, Sequences, FiniteSets, Functions

CONSTANTS
  User,       (* user ids; a user's email address is modelled by his id       *)
  Existing,   (* users that have signed up already, oldest first              *)
  AutoFollowers,  (* whom a new user follows, as the config says              *)
  Requests,   (* what clients may ask for, any number of times                *)
  Worker,     (* requests served at a time                                    *)
  MaxFaults   (* bound: errors, lost delayed calls and killed requests        *)

Logins == [op : {"login"}, user : User]
Follows == [op : {"follow", "followByID"}, user : User, who : User]
Asked(op) == {r \in Requests : r.op = op}

(* The delayed calls these requests can lead to. *)
Delayed ==
  [op : {"initialSetup", "findFollows"}, user : {r.user : r \in Asked("login")}]
    \cup {[op |-> "delayFollow", user |-> r.user, who |-> r.who] : r \in Asked("follow")}
NoTask == [op |-> "none"]

ASSUME UsersAssumption ==
  /\ Existing \in Seq(User) /\ IsInjective(Existing)
  /\ AutoFollowers \in Seq(User) /\ IsInjective(AutoFollowers)
  /\ Range(AutoFollowers) \subseteq Range(Existing)
ASSUME RequestsAssumption == Requests \subseteq Logins \cup Follows
ASSUME FaultsAssumption == MaxFaults \in Nat

VARIABLES
  exists,                    (* users with a User entity                      *)
  iFollow, followsMe, want,  (* its IFollow, FollowsMe and IWantToFollow      *)
  emailIndex,                (* users the index on Email shows                *)
  wantIndex,                 (* <<a, e>> the index on IWantToFollow shows     *)
  named,                     (* Redis: users with a HT: hash                  *)
  queue,                     (* delayed calls not known to have succeeded     *)
  catchUp,                   (* <<a, u>>: iNowFollow(a, u) has been queued    *)
  pc, task,                  (* each request: where it is, what it serves     *)
  whom,                      (* the followingID of its followById             *)
  rest,                      (* the rest of the range it loops over           *)
  faults,
  (* History, read by the properties only. *)
  replaced,  (* users whose entity createUser wrote over an existing one      *)
  hurt,      (* users for whom a fault cut the chain of delayed calls         *)
  missed,    (* <<a, u>>: a fault came between followById's transaction and   *)
             (* its delayed call                                              *)
  unnamed,   (* users whose addUser a fault kept from storing the name        *)
  slipped    (* <<a, e>>: both queries missed the other side: a's for e's     *)
             (* address, and findFollows' for those who want to follow e      *)

graph == <<exists, iFollow, followsMe, want>>
indexes == <<emailIndex, wantIndex>>
local == <<task, whom, rest>>
history == <<replaced, hurt, missed, unnamed, slipped>>
vars == <<graph, indexes, named, queue, catchUp, pc, local, faults, history>>

Init ==
  /\ exists = Range(Existing)
  /\ iFollow = [u \in User |-> IF u \in Range(Existing) THEN AutoFollowers ELSE <<>>]
  /\ followsMe = [u \in User |-> IF u \in Range(AutoFollowers) THEN Existing ELSE <<>>]
  /\ want = [u \in User |-> <<>>]
  /\ emailIndex = Range(Existing)
  /\ wantIndex = {}
  /\ named = Range(Existing)
  /\ queue = {}
  /\ catchUp = {}
  /\ pc = [w \in Worker |-> "idle"]
  /\ task = [w \in Worker |-> NoTask]
  /\ whom = [w \in Worker |-> {}]
  /\ rest = [w \in Worker |-> {}]
  /\ faults = 0
  /\ replaced = {} /\ hurt = {} /\ missed = {} /\ unnamed = {} /\ slipped = {}

Goto(w, l) == pc' = [pc EXCEPT ![w] = l]
Fault == faults < MaxFaults /\ faults' = faults + 1

(* The definitions marked "slip" stand for a mistake in the code; a         *)
(* mutation run puts each in the place of the definition after it.         *)

(* uniqueP, then append *)
IncludeSlip(list, x) == Append(list, x)  (* slip: without uniqueP *)
Include(list, x) == IF x \in Range(list) THEN list ELSE Append(list, x)

(* The queue once a request has returned an error. *)
AfterErrorSlip(w) == queue \ {task[w]}  (* slip: return nil *)
AfterError(w) == queue

(* The second Put of followById. *)
NewFollowsMeSlip(a, u) == followsMe  (* slip: it is forgotten *)
NewFollowsMe(a, u) == [followsMe EXCEPT ![u] = Include(@, a)]

(* The keys findFollows' query returns. *)
WaitingSlip(e) == {u \in User : <<e, u>> \in wantIndex}  (* slip: the wrong way round *)
WaitingPairsSlip(e) == {x \in wantIndex : x[2] = e}  (* slip: key for key.StringID() *)
Waiting(e) == {u \in User : <<u, e>> \in wantIndex}

(* delayINowFollow.Call(cx, userID, followingID) *)
CatchUpSlip(w) == {<<u, task[w].user>> : u \in whom[w]}  (* slip: arguments swapped *)
CatchUp(w) == {<<task[w].user, u>> : u \in whom[w]}

Wants == {x \in User \X User : x[2] \in Range(want[x[1]])}

------------------------------------------------------------------------------
(* Requests come from clients, or from the task queue, which keeps a call   *)
(* until it has been served: at least once, perhaps twice at the same time. *)

Begin(w, t, l, r) ==
  /\ pc[w] = "idle"
  /\ task' = [task EXCEPT ![w] = t]
  /\ whom' = [whom EXCEPT ![w] =
                IF t.op \in {"followByID", "delayFollow"} THEN {t.who} ELSE {}]
  /\ rest' = [rest EXCEPT ![w] = r]
  /\ Goto(w, l)
  /\ UNCHANGED <<graph, indexes, named, queue, catchUp, faults, history>>

Request(w, r) ==
  Begin(w, r, CASE r.op = "login" -> "lookup"
                [] r.op = "follow" -> "byEmail"
                [] r.op = "followByID" -> "tx", {})

Start(w, t) ==
  /\ t \in queue
  /\ Begin(w, t, CASE t.op = "initialSetup" -> "next"
                   [] t.op = "findFollows" -> "wanted"
                   [] t.op = "delayFollow" -> "tx",
              IF t.op = "initialSetup" THEN Range(AutoFollowers) ELSE {})

Leave(w) ==
  /\ Goto(w, "idle")
  /\ task' = [task EXCEPT ![w] = NoTask]
  /\ whom' = [whom EXCEPT ![w] = {}]
  /\ rest' = [rest EXCEPT ![w] = {}]

Done(w) == Leave(w) /\ queue' = queue \ {task[w]}

(* delay.Func.Call only logs it when the task queue refuses the call; harm  *)
(* and miss are what such a failure costs.                                  *)
Call(t, harm) ==
  \/ queue' = queue \cup {t} /\ UNCHANGED <<faults, hurt>>
  \/ Fault /\ hurt' = hurt \cup {harm} /\ UNCHANGED queue

(* A request that returns an error has no further effect: the task queue    *)
(* runs a delayed call again, a client sees a reply as usual.               *)
Fail(w) ==
  /\ pc[w] \in {"create", "byEmail", "want", "wanted", "tx"}
  /\ Fault
  /\ queue' = AfterError(w)
  /\ Leave(w)
  /\ UNCHANGED <<graph, indexes, named, catchUp, history>>

(* The instance goes away.                                                  *)
Kill(w) ==
  /\ pc[w] # "idle"
  /\ Fault
  /\ hurt' = IF pc[w] \in {"addUser", "setup"} THEN hurt \cup {task[w].user} ELSE hurt
  /\ missed' = IF pc[w] = "call" /\ task[w] \notin Delayed
               THEN missed \cup {<<task[w].user, u>> : u \in whom[w]} ELSE missed
  /\ unnamed' = IF pc[w] = "addUser" THEN unnamed \cup {task[w].user} ELSE unnamed
  /\ Leave(w)
  /\ UNCHANGED <<graph, indexes, named, queue, catchUp, replaced, slipped>>

------------------------------------------------------------------------------
(* Login, once the token is valid, and createUser                           *)

Lookup(w) ==
  /\ pc[w] = "lookup"
  /\ IF task[w].user \in exists
     THEN Leave(w)
     ELSE Goto(w, "create") /\ UNCHANGED local
  /\ UNCHANGED <<graph, indexes, named, queue, catchUp, faults, history>>

(* Any error of findUser is taken for a missing user.                       *)
LookupError(w) ==
  /\ pc[w] = "lookup"
  /\ Fault
  /\ Goto(w, "create")
  /\ UNCHANGED <<graph, indexes, named, queue, catchUp, local, history>>

Create(w) ==
  LET u == task[w].user IN
  /\ pc[w] = "create"
  /\ exists' = exists \cup {u}
  /\ iFollow' = [iFollow EXCEPT ![u] = AutoFollowers]
  /\ followsMe' = [followsMe EXCEPT ![u] = <<>>]
  /\ want' = [want EXCEPT ![u] = <<>>]
  /\ replaced' = IF u \in exists THEN replaced \cup {u} ELSE replaced
  /\ Goto(w, "addUser")
  /\ UNCHANGED <<indexes, named, queue, catchUp, local, faults, hurt, missed, unnamed, slipped>>

(* addUser: HSET, whatever was there; createUser drops its error.           *)
NamedSlip(w) == named  (* slip: addUser left out *)
Named(w) == named \cup {task[w].user}

AddUser(w) ==
  /\ pc[w] = "addUser"
  /\ \/ named' = Named(w) /\ UNCHANGED <<faults, unnamed>>
     \/ Fault /\ unnamed' = unnamed \cup {task[w].user} /\ UNCHANGED named
  /\ Goto(w, "setup")
  /\ UNCHANGED <<graph, indexes, queue, catchUp, local, replaced, hurt, missed, slipped>>

CallSetup(w) ==
  LET u == task[w].user IN
  /\ pc[w] = "setup"
  /\ Call([op |-> "initialSetup", user |-> u], u)
  /\ Leave(w)
  /\ UNCHANGED <<graph, indexes, named, catchUp, replaced, missed, unnamed, slipped>>

------------------------------------------------------------------------------
(* followById, on behalf of four callers                                    *)

(* The cross-group transaction.  Both Gets come before both Puts, so when a *)
(* user follows himself the Put of FollowsMe undoes that of IFollow.        *)
FollowTx(w) ==
  LET a == task[w].user IN
  /\ pc[w] = "tx"
  /\ \E u \in whom[w] :
       /\ {a, u} \subseteq exists
       /\ followsMe' = NewFollowsMe(a, u)
       /\ iFollow' = IF a = u /\ a \notin Range(followsMe[u])
                     THEN iFollow
                     ELSE [iFollow EXCEPT ![a] = Include(@, u)]
  /\ Goto(w, "call")
  /\ UNCHANGED <<exists, want, indexes, named, queue, catchUp, local, faults, history>>

NoSuchUser(w) ==
  /\ pc[w] = "tx"
  /\ ~({task[w].user} \cup whom[w] \subseteq exists)
  /\ Leave(w)
  /\ UNCHANGED <<graph, indexes, named, queue, catchUp, faults, history>>

CallCatchUp(w) ==
  /\ pc[w] = "call"
  /\ \/ catchUp' = catchUp \cup CatchUp(w) /\ UNCHANGED <<faults, missed>>
     \/ Fault /\ missed' = missed \cup CatchUp(w) /\ UNCHANGED catchUp
  /\ IF task[w].op = "initialSetup"
     THEN Goto(w, "next") /\ UNCHANGED <<local, queue>>
     ELSE Done(w)
  /\ UNCHANGED <<graph, indexes, named, replaced, hurt, unnamed, slipped>>

------------------------------------------------------------------------------
(* initialSetup: follow everybody in AutoFollowers, then look for those who *)
(* wait for the new user.                                                   *)

NextAuto(w) ==
  /\ pc[w] = "next"
  /\ \E u \in rest[w] :
       /\ whom' = [whom EXCEPT ![w] = {u}]
       /\ rest' = [rest EXCEPT ![w] = @ \ {u}]
  /\ Goto(w, "tx")
  /\ UNCHANGED <<graph, indexes, named, queue, catchUp, task, faults, history>>

(* The last call is queued, then the task is done.                          *)
CallFindFollows(w) ==
  LET u == task[w].user
      t == [op |-> "findFollows", user |-> u]
  IN
  /\ pc[w] = "next" /\ rest[w] = {}
  /\ \/ queue' = (queue \cup {t}) \ {task[w]} /\ UNCHANGED <<faults, hurt>>
     \/ Fault /\ hurt' = hurt \cup {u} /\ queue' = queue \ {task[w]}
  /\ Leave(w)
  /\ UNCHANGED <<graph, indexes, named, catchUp, replaced, missed, unnamed, slipped>>

(* findFollows: the query, then a delayed followById for each user found.   *)
FindWanting(w) ==
  LET e == task[w].user
      asking == {v \in Worker : pc[v] = "want" /\ task[v].who = e}
  IN
  /\ pc[w] = "wanted"
  /\ rest' = [rest EXCEPT ![w] = Waiting(e)]
  /\ slipped' = slipped \cup {<<task[v].user, e>> : v \in asking}
                        \cup {x \in Wants \ wantIndex : x[2] = e}
  /\ Goto(w, "spread")
  /\ UNCHANGED <<graph, indexes, named, queue, catchUp, task, whom, faults, replaced, hurt, missed, unnamed>>

Spread(w) ==
  LET e == task[w].user IN
  /\ pc[w] = "spread"
  /\ \E a \in rest[w] :
       /\ Call([op |-> "delayFollow", user |-> a, who |-> e], e)
       /\ rest' = [rest EXCEPT ![w] = @ \ {a}]
  /\ UNCHANGED <<graph, indexes, named, catchUp, pc, task, whom, replaced, missed, unnamed, slipped>>

SpreadDone(w) ==
  /\ pc[w] = "spread" /\ rest[w] = {}
  /\ Done(w)
  /\ UNCHANGED <<graph, indexes, named, catchUp, faults, history>>

------------------------------------------------------------------------------
(* What the history variables and the properties say of sign-up.            *)

(* initialSetup for a has still to be called, or to run to its end.         *)
SetupAhead(a) ==
  \/ \E w \in Worker : pc[w] \in {"addUser", "setup"} /\ task[w].user = a
  \/ \E t \in queue : t.op = "initialSetup" /\ t.user = a

(* So has findFollows for e ...                                             *)
SearchAhead(e) ==
  SetupAhead(e) \/ \E t \in queue : t.op = "findFollows" /\ t.user = e

(* ... and its query comes only now.                                        *)
QueryAhead(e) ==
  SearchAhead(e) /\ ~\E w \in Worker : pc[w] = "spread" /\ task[w].user = e

------------------------------------------------------------------------------
(* Follow, by email address                                                 *)

ByEmail(w) ==
  LET a == task[w].user
      e == task[w].who
  IN
  /\ pc[w] = "byEmail"
  /\ IF e \in emailIndex
     THEN /\ whom' = [whom EXCEPT ![w] = {e}]
          /\ Goto(w, "tx")
          /\ UNCHANGED slipped
     ELSE /\ Goto(w, "want")
          /\ slipped' = IF e \in exists /\ ~QueryAhead(e) THEN slipped \cup {<<a, e>>} ELSE slipped
          /\ UNCHANGED whom
  /\ UNCHANGED <<graph, indexes, named, queue, catchUp, task, rest, faults, replaced, hurt, missed, unnamed>>

(* The transaction that records the address; without the user it fails.     *)
RecordWant(w) ==
  LET a == task[w].user IN
  /\ pc[w] = "want"
  /\ want' = IF a \in exists THEN [want EXCEPT ![a] = Include(@, task[w].who)] ELSE want
  /\ Leave(w)
  /\ UNCHANGED <<exists, iFollow, followsMe, indexes, named, queue, catchUp, faults, history>>

------------------------------------------------------------------------------
(* The indexes catch up with the entities, one entry at a time.             *)
IndexEmail ==
  /\ \E u \in exists \ emailIndex : emailIndex' = emailIndex \cup {u}
  /\ UNCHANGED <<graph, wantIndex, named, queue, catchUp, pc, local, faults, history>>

IndexWant ==
  /\ \/ \E x \in Wants \ wantIndex : wantIndex' = wantIndex \cup {x}
     \/ \E x \in wantIndex \ Wants : wantIndex' = wantIndex \ {x}
  /\ UNCHANGED <<graph, emailIndex, named, queue, catchUp, pc, local, faults, history>>

Run(w) ==
  \/ Lookup(w) \/ Create(w) \/ AddUser(w) \/ CallSetup(w)
  \/ FollowTx(w) \/ NoSuchUser(w) \/ CallCatchUp(w)
  \/ NextAuto(w) \/ CallFindFollows(w)
  \/ FindWanting(w) \/ Spread(w) \/ SpreadDone(w)
  \/ ByEmail(w) \/ RecordWant(w)

Next ==
  \/ \E w \in Worker :
       \/ \E r \in Requests : Request(w, r)
       \/ \E t \in queue : Start(w, t)
       \/ Run(w)
       \/ LookupError(w) \/ Fail(w) \/ Kill(w)
  \/ IndexEmail \/ IndexWant

(* Requests run on, the queue hands out every call it holds, and indexes    *)
(* are updated; clients may stop at any time.                               *)
Fairness ==
  /\ \A w \in Worker : WF_vars(Run(w))
  /\ \A t \in Delayed : SF_vars(\E w \in Worker : Start(w, t))
  /\ WF_vars(IndexEmail) /\ WF_vars(IndexWant)

Spec == Init /\ [][Next]_vars /\ Fairness

------------------------------------------------------------------------------
PCs == {"idle", "lookup", "create", "addUser", "setup", "tx", "call", "next",
        "wanted", "spread", "byEmail", "want"}

(* Types of the variables. *)
TypeOK ==
  /\ exists \in SUBSET User
  /\ iFollow \in [User -> Seq(User)]
  /\ followsMe \in [User -> Seq(User)]
  /\ want \in [User -> Seq(User)]
  /\ emailIndex \in SUBSET User
  /\ wantIndex \in SUBSET (User \X User)
  /\ named \in SUBSET User
  /\ queue \in SUBSET Delayed
  /\ catchUp \in SUBSET (User \X User)
  /\ pc \in [Worker -> PCs]
  /\ task \in [Worker -> Logins \cup Follows \cup Delayed \cup {NoTask}]
  /\ whom \in [Worker -> SUBSET User]
  /\ rest \in [Worker -> SUBSET User]
  /\ faults \in 0 .. MaxFaults
  /\ replaced \in SUBSET User
  /\ hurt \in SUBSET User
  /\ missed \in SUBSET (User \X User)
  /\ unnamed \in SUBSET User
  /\ slipped \in SUBSET (User \X User)

(* However often a follow is asked for, retried or run twice, no list gets *)
(* the same user twice: a fan-out pushes to each follower once.            *)
ListsUnique ==
  \A u \in User : /\ IsInjective(iFollow[u])
                  /\ IsInjective(followsMe[u])
                  /\ IsInjective(want[u])

(* The two ends of an edge agree, in every state, but for users whose      *)
(* entity a second createUser has overwritten: each FollowsMe entry has    *)
(* its IFollow entry, except for oneself, and each IFollow entry has its   *)
(* FollowsMe entry.  Of the accounts createUser enters in IFollow the      *)
(* FollowsMe entry may lag only while initialSetup is on its way, or when  *)
(* a fault has cut it off.                                                 *)
EdgesPaired ==
  \A a, u \in User \ replaced :
    /\ a \in Range(followsMe[u]) => u \in Range(iFollow[a]) \/ a = u
    /\ u \in Range(iFollow[a]) =>
         \/ a \in Range(followsMe[u])
         \/ u \in Range(AutoFollowers) /\ (a \in hurt \/ SetupAhead(a))

Settled ==
  /\ queue = {} /\ \A w \in Worker : pc[w] = "idle"
  /\ emailIndex = exists /\ wantIndex = Wants

(* A wish to follow an address is left standing next to a user who has     *)
(* that address only if a fault cut the chain of delayed calls, or if each *)
(* of the two queries missed the other side: one that lags is made up for  *)
(* by the other.                                                           *)
WantsResolved ==
  Settled =>
    \A a \in User, e \in exists \ (hurt \cup replaced) :
      e \in Range(want[a]) => a \in Range(followsMe[e]) \/ <<a, e>> \in slipped

(* Every edge made while the model runs has had an iNowFollow queued for   *)
(* it once nothing is left to do, unless a fault fell on that very call.   *)
EdgesCaughtUp ==
  Settled =>
    \A a, u \in User :
      a \in Range(followsMe[u]) =>
        \/ <<a, u>> \in catchUp \cup missed
        \/ a \in Range(Existing) /\ u \in Range(AutoFollowers)

(* Everybody in a list of anybody's has a display name in Redis, or the     *)
(* createUser that enters him is just about to store it, or a fault fell on *)
(* just that step of his own; faults elsewhere do not matter.  getPersons   *)
(* fails for the whole list if one name is missing.                         *)
ListedNamed ==
  \A a \in User : \A u \in Range(iFollow[a]) \cup Range(followsMe[a]) :
    \/ u \in named \cup unnamed
    \/ \E w \in Worker : pc[w] = "addUser" /\ task[w].user = u

(* A new user comes to be a follower of every account in AutoFollowers,    *)
(* through any finite number of failed or killed runs of initialSetup.     *)
SetupReaches ==
  \A u \in User, k \in Range(AutoFollowers) :
    u \in exists ~> u \in Range(followsMe[k]) \/ u \in hurt \/ k \in replaced

(* tokens.go:142 lets Login create a user when he is not found: the        *)
(* followers and wishes of a user who is there stay.                       *)
CreatedOnlyIfMissing ==
  [][\A u \in exists : /\ Range(followsMe[u]) \subseteq Range(followsMe'[u])
                       /\ Range(want[u]) \subseteq Range(want'[u])]_vars
==============================================================================
