------------------------------ MODULE RedisPool ------------------------------
(***************************************************************************)
(* The connection pool of third_party/redisx/pool.go.                      *)
(*                                                                         *)
(* Each goroutine runs at most one pool call at a time.  An action is the  *)
(* code between two points where p.mu is released (or the code outside the *)
(* mutex, which only touches a connection its goroutine owns), so every    *)
(* interleaving of the critical sections of get, put and Close is explored.*)
(***************************************************************************)
EXTENDS Integers, Sequences, FiniteSets, Functions

CONSTANTS
  Proc,       (* the goroutines that use the pool                            *)
  Conn,       (* identities of connections; one that nothing refers to any   *)
              (* more stands for a connection not dialled yet                *)
  NoConn,     (* "no connection"                                             *)
  MaxIdle,    (* Pool.MaxIdle                                                *)
  MaxActive,  (* Pool.MaxActive, 0 for no limit                              *)
  Expires,    (* is Pool.IdleTimeout positive?                               *)
  Tests       (* is Pool.TestOnBorrow set?                                   *)

ASSUME ProcAssumption == IsFiniteSet(Proc)
ASSUME ConnAssumption == NoConn \notin Conn
ASSUME LimitsAssumption == MaxIdle \in Nat /\ MaxActive \in Nat
ASSUME OptionsAssumption == Expires \in BOOLEAN /\ Tests \in BOOLEAN

VARIABLES
  closed,  (* Pool.closed                                                    *)
  active,  (* Pool.active                                                    *)
  idle,    (* Pool.idle, the most recently used connection first             *)
  stale,   (* the idle connections whose IdleTimeout has passed              *)
  open,    (* connections whose Err() is nil: dialled, neither closed nor    *)
           (* failed by the client                                           *)
  dead,    (* connections the server has dropped                             *)
  pc,      (* where each goroutine is                                        *)
  conn,    (* the connection each goroutine holds                            *)
  budget,  (* iterations left in the for loop of get a goroutine is in       *)
  victims  (* connections Close took from the idle list and has still to     *)
           (* close                                                          *)

vars == <<closed, active, idle, stale, open, dead, pc, conn, budget, victims>>

Idle == Range(idle)

(* Every connection some part of the program still refers to. *)
Known == Idle \cup {conn[p] : p \in Proc} \cup UNION {victims[p] : p \in Proc}

(* The program points at which the connection of a goroutine is one of the *)
(* active ones the pool counts.                                            *)
Counted == {"test", "retry", "dial", "dialFail", "use", "put", "putDec"}

PCs == Counted \cup {"out", "errored", "prune", "pruneClose", "putClose", "shut"}

Init ==
  /\ closed = FALSE
  /\ active = 0
  /\ idle = <<>>
  /\ stale = {}
  /\ open = {}
  /\ dead = {}
  /\ pc = [p \in Proc |-> "out"]
  /\ conn = [p \in Proc |-> NoConn]
  /\ budget = [p \in Proc |-> 0]
  /\ victims = [p \in Proc |-> {}]

Goto(p, l) == pc' = [pc EXCEPT ![p] = l]
Hold(p, c) == conn' = [conn EXCEPT ![p] = c]
Left(p, n) == budget' = [budget EXCEPT ![p] = n]

(* The definitions marked "slip" stand for a mistake in the code; a         *)
(* mutation run puts each in the place of the definition after it.         *)

Back == idle[Len(idle)]
WithoutBackSlip(s) == s  (* slip: the entry at the back stays *)
WithoutBack(s) == SubSeq(s, 1, Len(s) - 1)

(* c.Close() *)
CloseConnSlip(c) == open' = open  (* slip: the socket stays open *)
CloseConn(c) == open' = open \ {c}

(* i++ of the two loops of get, which run at most p.idle.Len() times.       *)
SpentSlip(n) == n  (* slip: for p.idle.Len() > 0 *)
Spent(n) == n - 1

(* put keeps connections of an open pool only. *)
AcceptsSlip == TRUE  (* slip: closed is not looked at *)
Accepts == ~closed

------------------------------------------------------------------------------
(* get: what happens in one critical section, from the prune loop on.       *)

(* The prune loop removes the entry at the back when it is stale, and stops *)
(* at the first one that is not.                                            *)
CanPruneSlip(n) == idle # <<>> /\ Back \in stale  (* slip: no bound *)
CanPrune(n) == n > 0 /\ idle # <<>> /\ Back \in stale

Prune(p, n) ==
  /\ CanPrune(n)
  /\ idle' = WithoutBack(idle)
  /\ stale' = stale \ {Back}
  /\ active' = active - 1
  /\ Hold(p, Back)
  /\ Left(p, Spent(n))
  /\ Goto(p, "pruneClose")

(* The second loop pops the front entry to test it outside the mutex; a is  *)
(* the value of p.active at this point of the critical section.             *)
PopIdle(p, n, a) ==
  /\ n > 0 /\ idle # <<>>
  /\ idle' = Tail(idle)
  /\ stale' = stale \ {Head(idle)}
  /\ active' = a
  /\ Hold(p, Head(idle))
  /\ Left(p, Spent(n))
  /\ Goto(p, "test")

AtLimitSlip(a) == MaxActive > 0 /\ a > MaxActive  (* slip: > for >= *)
AtLimit(a) == MaxActive > 0 /\ a >= MaxActive

(* ErrPoolExhausted: Get hands out an errorConnection. *)
Exhausted(p, n, a) ==
  /\ n = 0 \/ idle = <<>>
  /\ AtLimit(a)
  /\ active' = a
  /\ Hold(p, NoConn)
  /\ Left(p, 0)
  /\ Goto(p, "errored")
  /\ UNCHANGED <<idle, stale>>

StartDial(p, n, a) ==
  /\ n = 0 \/ idle = <<>>
  /\ ~AtLimit(a)
  /\ active' = a + 1
  /\ Hold(p, NoConn)
  /\ Left(p, 0)
  /\ Goto(p, "dial")
  /\ UNCHANGED <<idle, stale>>

Borrow(p, n, a) == PopIdle(p, n, a) \/ Exhausted(p, n, a) \/ StartDial(p, n, a)

Scan(p, n) == Prune(p, n) \/ (~CanPrune(n) /\ Borrow(p, Len(idle), active))

(* Get on an open pool: without an IdleTimeout there is no prune loop.      *)
Get(p) ==
  /\ pc[p] = "out"
  /\ ~closed
  /\ Scan(p, IF Expires THEN Len(idle) ELSE 0)
  /\ UNCHANGED <<closed, open, dead, victims>>

(* Get on a closed pool returns an errorConnection. *)
GetClosed(p) ==
  /\ pc[p] = "out"
  /\ closed
  /\ Goto(p, "errored")
  /\ UNCHANGED <<closed, active, idle, stale, open, dead, conn, budget, victims>>

(* ic.c.Close() between Unlock and Lock of the prune loop. *)
PruneClose(p) ==
  /\ pc[p] = "pruneClose"
  /\ CloseConn(conn[p])
  /\ Hold(p, NoConn)
  /\ Goto(p, "prune")
  /\ UNCHANGED <<closed, active, idle, stale, dead, budget, victims>>

(* Back under the mutex; p.closed is not looked at again.                   *)
PruneMore(p) ==
  /\ pc[p] = "prune"
  /\ Scan(p, budget[p])
  /\ UNCHANGED <<closed, open, dead, victims>>

(* TestOnBorrow sends PING: it cannot succeed on a dropped connection.      *)
TestOk(p) ==
  /\ pc[p] = "test"
  /\ Tests => conn[p] \notin dead
  /\ Left(p, 0)
  /\ Goto(p, "use")
  /\ UNCHANGED <<closed, active, idle, stale, open, dead, conn, victims>>

(* The test fails (the peer is gone, or it answered with an error) and the  *)
(* connection is closed, still outside the mutex.                           *)
TestFail(p) ==
  /\ pc[p] = "test"
  /\ Tests
  /\ CloseConn(conn[p])
  /\ Goto(p, "retry")
  /\ UNCHANGED <<closed, active, idle, stale, dead, conn, budget, victims>>

(* Lock, p.active -= 1, next iteration of the second loop.                  *)
Retry(p) ==
  /\ pc[p] = "retry"
  /\ Borrow(p, budget[p], active - 1)
  /\ UNCHANGED <<closed, open, dead, victims>>

(* Pool.Dial makes a connection nothing refers to yet. *)
DialOk(p) ==
  /\ pc[p] = "dial"
  /\ \E c \in Conn \ Known :
       /\ Hold(p, c)
       /\ open' = open \cup {c}
       /\ dead' = dead \ {c}
  /\ Goto(p, "use")
  /\ UNCHANGED <<closed, active, idle, stale, budget, victims>>

DialFail(p) ==
  /\ pc[p] = "dial"
  /\ Goto(p, "dialFail")
  /\ UNCHANGED <<closed, active, idle, stale, open, dead, conn, budget, victims>>

DialFailedSlip(p) ==  (* slip: p.active -= 1 forgotten *)
  /\ pc[p] = "dialFail"
  /\ Goto(p, "errored")
  /\ UNCHANGED <<closed, active, idle, stale, open, dead, conn, budget, victims>>

DialFailed(p) ==
  /\ pc[p] = "dialFail"
  /\ active' = active - 1
  /\ Goto(p, "errored")
  /\ UNCHANGED <<closed, idle, stale, open, dead, conn, budget, victims>>

------------------------------------------------------------------------------
(* The borrower, and the way back into the pool.                            *)

(* A command fails: conn.fatal records the error and closes the socket.     *)
Fatal(p) ==
  /\ pc[p] = "use"
  /\ conn[p] \in open
  /\ open' = open \ {conn[p]}
  /\ UNCHANGED <<closed, active, idle, stale, dead, pc, conn, budget, victims>>

(* pooledConnection.Close of a connection in order: Do("") drains what is   *)
(* pending and put finds Err() nil.                                         *)
ReleaseClean(p) ==
  /\ pc[p] = "use"
  /\ conn[p] \in open
  /\ Goto(p, "put")
  /\ UNCHANGED <<closed, active, idle, stale, open, dead, conn, budget, victims>>

(* The same when the drain fails, an earlier command has failed, or the     *)
(* connection is left in a state (MONITOR, an unfinished UNSUBSCRIBE) that  *)
(* makes put force the close.                                               *)
ReleaseBrokenSlip(p) ==  (* slip: put without c.Err() == nil *)
  /\ pc[p] = "use"
  /\ open' \in {open, open \ {conn[p]}}
  /\ Goto(p, "put")
  /\ UNCHANGED <<closed, active, idle, stale, dead, conn, budget, victims>>

ReleaseBroken(p) ==
  /\ pc[p] = "use"
  /\ open' \in {open, open \ {conn[p]}}
  /\ Goto(p, "putDec")
  /\ UNCHANGED <<closed, active, idle, stale, dead, conn, budget, victims>>

(* Close of an errorConnection leaves the pool alone.                       *)
ReleaseErrored(p) ==
  /\ pc[p] = "errored"
  /\ Goto(p, "out")
  /\ UNCHANGED <<closed, active, idle, stale, open, dead, conn, budget, victims>>

(* The first critical section of put: push to the front, and take the entry *)
(* at the back out again when there are too many.                           *)
PutClosed(p) ==
  /\ pc[p] = "put"
  /\ ~Accepts
  /\ Goto(p, "putDec")
  /\ UNCHANGED <<closed, active, idle, stale, open, dead, conn, budget, victims>>

Pushed(p) == <<conn[p]>> \o idle

PutKept(p) ==
  /\ pc[p] = "put"
  /\ Accepts
  /\ Len(Pushed(p)) <= MaxIdle
  /\ idle' = Pushed(p)
  /\ Hold(p, NoConn)
  /\ Goto(p, "out")
  /\ UNCHANGED <<closed, active, stale, open, dead, budget, victims>>

PutEvict(p) ==
  LET back == Pushed(p)[Len(Pushed(p))] IN
  /\ pc[p] = "put"
  /\ Accepts
  /\ Len(Pushed(p)) > MaxIdle
  /\ idle' = WithoutBack(Pushed(p))
  /\ stale' = stale \ {back}
  /\ Hold(p, back)
  /\ Goto(p, "putDec")
  /\ UNCHANGED <<closed, active, open, dead, budget, victims>>

(* The second critical section of put, for the connection it will close.    *)
PutDec(p) ==
  /\ pc[p] = "putDec"
  /\ active' = active - 1
  /\ Goto(p, "putClose")
  /\ UNCHANGED <<closed, idle, stale, open, dead, conn, budget, victims>>

PutClose(p) ==
  /\ pc[p] = "putClose"
  /\ CloseConn(conn[p])
  /\ Hold(p, NoConn)
  /\ Goto(p, "out")
  /\ UNCHANGED <<closed, active, idle, stale, dead, budget, victims>>

------------------------------------------------------------------------------
(* Pool.Close takes the whole idle list under the mutex, then closes it.    *)

Shut(p) ==
  /\ pc[p] = "out"
  /\ closed' = TRUE
  /\ victims' = [victims EXCEPT ![p] = Idle]
  /\ active' = active - Len(idle)
  /\ idle' = <<>>
  /\ stale' = {}
  /\ Goto(p, "shut")
  /\ UNCHANGED <<open, dead, conn, budget>>

ShutOne(p) ==
  /\ pc[p] = "shut"
  /\ \E c \in victims[p] :
       /\ victims' = [victims EXCEPT ![p] = @ \ {c}]
       /\ CloseConn(c)
  /\ UNCHANGED <<closed, active, idle, stale, dead, pc, conn, budget>>

ShutDone(p) ==
  /\ pc[p] = "shut"
  /\ victims[p] = {}
  /\ Goto(p, "out")
  /\ UNCHANGED <<closed, active, idle, stale, open, dead, conn, budget, victims>>

------------------------------------------------------------------------------
(* The surroundings: time passes and the server drops connections.  Entries *)
(* are pushed to the front under the mutex, so they expire from the back.   *)

Age ==
  /\ Expires
  /\ \E i \in DOMAIN idle :
       /\ idle[i] \notin stale
       /\ \A j \in DOMAIN idle : j > i => idle[j] \in stale
       /\ stale' = stale \cup {idle[i]}
  /\ UNCHANGED <<closed, active, idle, open, dead, pc, conn, budget, victims>>

Drop(c) ==
  /\ c \in open \ dead
  /\ dead' = dead \cup {c}
  /\ UNCHANGED <<closed, active, idle, stale, open, pc, conn, budget, victims>>

------------------------------------------------------------------------------
(* What a goroutine does once it has entered the pool, up to its return;    *)
(* borrowers return because every caller defers conn.Close().               *)
GetStep(p) ==
  \/ PruneClose(p) \/ PruneMore(p) \/ TestOk(p) \/ TestFail(p) \/ Retry(p)
  \/ DialOk(p) \/ DialFail(p) \/ DialFailed(p)

CloseStep(p) ==
  \/ ReleaseClean(p) \/ ReleaseBroken(p) \/ ReleaseErrored(p)
  \/ PutClosed(p) \/ PutKept(p) \/ PutEvict(p) \/ PutDec(p) \/ PutClose(p)
  \/ ShutOne(p) \/ ShutDone(p)

Next ==
  \/ \E p \in Proc :
       Get(p) \/ GetClosed(p) \/ Shut(p) \/ Fatal(p) \/ GetStep(p) \/ CloseStep(p)
  \/ Age
  \/ \E c \in Conn : Drop(c)

Fairness ==
  /\ \A p \in Proc : WF_vars(GetStep(p))
  /\ \A p \in Proc : WF_vars(CloseStep(p))

Spec == Init /\ [][Next]_vars /\ Fairness

------------------------------------------------------------------------------
(* Types of the variables, read by every other property. *)
TypeOK ==
  /\ closed \in BOOLEAN
  /\ active \in Int
  /\ idle \in Seq(Conn)
  /\ stale \in SUBSET Conn
  /\ open \in SUBSET Conn
  /\ dead \in SUBSET Conn
  /\ pc \in [Proc -> PCs]
  /\ conn \in [Proc -> Conn \cup {NoConn}]
  /\ budget \in [Proc -> Nat]
  /\ victims \in [Proc -> SUBSET Conn]

(* No connection is in two places: two borrowers, two entries of the idle  *)
(* list, or a borrower (or a goroutine about to close it) and the idle     *)
(* list never share one, however get, put and Close interleave.            *)
Exclusive ==
  /\ IsInjective(idle)
  /\ \A p, q \in Proc : conn[p] = conn[q] /\ conn[p] # NoConn => p = q
  /\ \A p \in Proc : conn[p] \notin Idle
  /\ \A p, q \in Proc : conn[q] \notin victims[p]
  /\ \A p \in Proc : victims[p] \cap Idle = {}
  /\ \A p, q \in Proc : p # q => victims[p] \cap victims[q] = {}

Holders == {p \in Proc : pc[p] \in Counted}

(* Where a goroutine stands says what it holds: strengthens Exclusive and  *)
(* NoLeak to an inductive invariant.                                       *)
Placed ==
  \A p \in Proc :
    /\ conn[p] = NoConn <=>
         pc[p] \in {"out", "errored", "prune", "dial", "dialFail", "shut"}
    /\ pc[p] = "retry" => conn[p] \notin open
    /\ pc[p] = "put" => conn[p] \in open
    /\ victims[p] # {} => pc[p] = "shut"

(* Pool.active counts exactly the idle connections and those a goroutine   *)
(* is testing, dialling, using or returning: each of the six places that   *)
(* change the counter runs once per connection, on every error path.       *)
ActiveExact == active = Len(idle) + Cardinality(Holders)

(* The limits the pool is configured with, whenever the mutex is free.     *)
WithinLimits ==
  /\ Len(idle) <= MaxIdle
  /\ MaxActive > 0 => active <= MaxActive

(* Nothing is forgotten: a connection that is open is idle, held by a      *)
(* goroutine, or on the list Pool.Close is working through.                *)
NoLeak == open \subseteq Known

(* A connection in the idle list has not been closed or failed by anyone   *)
(* (put refuses those), and a closed pool keeps none.                      *)
IdleUsable ==
  /\ Idle \subseteq open
  /\ closed => idle = <<>>

(* pool.go:116 calls MaxActive the maximum number of connections allocated *)
(* at a time.  It bounds the counter: put, get and Close lower that before *)
(* they close, so each connection on its way out may come on top of it.    *)
Leaving ==
  {conn[p] : p \in {q \in Proc : pc[q] \in {"pruneClose", "putClose"}}}
    \cup UNION {victims[p] : p \in Proc}
AllocatedBound ==
  MaxActive > 0 => Cardinality(open \ Leaving) <= MaxActive

(* Each connection, seen on its own, is leased: it is handed out as it was *)
(* put, and only a connection that nobody has closed is ever put.          *)
Place(c) ==
  CASE c \in Idle -> "pooled"
    [] c \in Known \ Idle -> "held"
    [] OTHER -> "none"
Leases ==
  INSTANCE Lease WITH place <- [c \in Conn |-> Place(c)],
                      unfit <- [c \in Conn |-> c \notin open]
Leased == Leases!Spec

(* get always comes back, whatever other goroutines put into the idle list *)
(* meanwhile: both loops are bounded by the length first seen.             *)
InGet(p) == pc[p] \in {"prune", "pruneClose", "test", "retry", "dial", "dialFail"}
GetReturns == \A p \in Proc : InGet(p) ~> pc[p] \in {"use", "errored"}

(* Once the pool is closed every connection is closed in the end, also the *)
(* ones that were borrowed, or being dialled, at that moment.              *)
ClosedPoolDrains == closed ~> [](open = {} /\ active = 0)
==============================================================================
