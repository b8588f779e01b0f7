# Abelana back end: specifications and proofs

This directory holds TLA+ models of the server side of Abelana (`endpoints/`,
`third_party/redisx/`, `notice/`, `imagemagick/`), TLC configurations that check
them on small instances, and TLAPS proofs of what matters most for every
instance. `PROJECT.json` lists every run, which source lines each definition
stands for, the hazards the properties are aimed at, and the findings.

To repeat everything: `tlc -config X.cfg M` for each run of `PROJECT.json`,
and `tlapm` on each of the eight modules named `...Proofs`.

## The system

A phone talks to the HTTP handlers of `endpoints/` (App Engine). They keep users,
photos and likes in the datastore, and timelines, display names and photo hashes
in Redis, which they reach through a pool of connections. Most of the work is done
by delayed calls (`delay.Func`), which the App Engine task queue runs at least
once each, several at a time, again after an error.

A photo is uploaded to a bucket, whose notification reaches `notice/`; that queues
a task, which posts the photo's name to the image server `imagemagick/`; that
writes the scaled copies and reports the photo to `endpoints/` (`PostPhoto`), which
queues `addPhoto`.

| Component (source) | State | Operations | What makes it correct |
|---|---|---|---|
| Connection pool (`third_party/redisx/pool.go`) | `closed`, `active`, the idle list; the connections borrowed | `Get`/`get`, `pooledConnection.Close`/`put`, `Pool.Close` | one holder per connection; `active` exact on every error path; the limits; nothing leaked; `get` returns; a closed pool drains |
| Connection (`third_party/redisx/conn.go`) | buffered commands, `pending`, replies under way, the fatal error | `Send`, `Flush`, `Receive`, `Do`, `Close` | each reply goes to the command it answers; after an error nothing is read |
| Timelines (`endpoints/myredis.go`) | Redis lists `TL:user`, hashes `IM:photo`; Photo entities | `addPhoto`, `iNowFollow`, `initialPhotos`, `getTimeline` | a photo is fanned out once and reaches every follower; lists are trimmed, and not too far; pages fit together |
| Social graph (`endpoints/server.go`, `user.go`) | `IFollow`, `FollowsMe`, `IWantToFollow` of User entities; their indexes | `FollowByID`, `Follow`, `followById`, `findFollows`, `createUser`, `initialSetup` | no duplicates; the two ends of an edge agree; wishes are resolved when the user appears; each edge gets its `iNowFollow` |
| Sign-in (`endpoints/tokens.go`) | tokens (held by the client) | `Login`, `Refresh`, `Aauth` | a user is created once |
| Likes, flags, comments (`server.go`, `myredis.go`) | Like and Comment entities, fields of `IM:photo` | `Like`, `Unlike`, `Flag`, `SetPhotoComments`, ... | the two stores agree; the count shown is the number of likes |
| Notification service (`notice/notice.go`) | memcache keys of notifications seen; the queue `new-images` | notification handler, `incomingImageHandler` | each image is processed although notifications are duplicated |
| Image server (`imagemagick/imagemagick.go`) | objects written; one goroutine per size | `processImage`, `notifyDone` | every size is written at its own size before the photo is reported |
| Conversions (`redisx/reply.go`, `scan.go`) | none | `Int`, `String`, `Strings`, `Values`, ... | what they return for each kind of reply |
| Not used by the program (`pubsub.go`, `script.go`, `log.go`), sign-in widget (`default/`), configuration, stubs, deployment files | | | |

The parts interact through shared state more than through calls: a request holds a
pooled connection for its whole life; the timeline tasks read the follower lists
the social graph writes; `followById` queues `iNowFollow`; `createUser` leads to
`initialSetup`, `initialPhotos`, `findFollows` and from there to more
`followById`. What is hard is concurrency (goroutines in the pool, requests over
the same entities and lists), at-least-once delayed calls, failures between two
stores or between a store and a queue, pipelined replies, and indexes that lag.
`hazards` in `PROJECT.json` lists 40 such places by line.

## Modules

| Module | Models | Lines |
|---|---|---|
| `Lease` | what a borrower of a pooled connection may rely on (abstract) | |
| `RedisPool` | the pool; implements `Lease` | `pool.go` 100-391, `conn.go` 100-128 |
| `RedisConn` | one pooled connection and the server's side of its session; implements `Lease` | `conn.go` 35-438, `pool.go` 204-391, `pubsub.go` |
| `Replies` | the bytes of the protocol: reader, writer, conversions | `conn.go` 130-338, `reply.go` 27-274 |
| `Timeline` | fan-out and catch-up over Redis pipelines | `myredis.go` 73-174, `conn.go` 340-438, `server.go` 412-455, 584-600 |
| `SocialGraph` | users and who follows whom | `server.go` 335-465, `user.go` 33-67, `tokens.go` 137-148, `myredis.go` 243-251 |
| `Feedback` | likes, flags, comments | `server.go` 482-582, `myredis.go` 274-307 |
| `TimelinePage` | a reader's pages, on top of `Feedback` | `myredis.go` 155-232, `server.go` 211-218 |
| `ImagePipeline` | from an upload to `PostPhoto` | `notice.go` 26-108, `imagemagick.go` 74-191, `server.go` 584-600, `user.go` 70-113 |
| `RedisPoolProofs`, `RedisConnProofs`, `TimelineProofs`, `TimelineTrimProofs`, `SocialGraphProofs`, `FeedbackProofs`, `TimelinePageProofs`, `ImagePipelineProofs` | theorems about the module each is named after; `TimelineTrimProofs` has those on the lengths of timelines | |
| `MCRedisPool`, `MCRedisConn`, `MCTimeline`, `MCSocialGraph`, `MCFeed`, `MCImagePipeline` | the small instances | |

Definitions named `...Slip` are mistakes a programmer might make in the definition
that follows each of them. No run uses them as they stand; they are there to show
that each property notices its mistake (`mutants` in `PROJECT.json`).

### RedisPool

The variables `closed`, `active` and `idle` are the fields of `Pool`. `pc`, `conn`
and `budget` are the locals of the goroutines: where each stands, the connection
its variable `c` or `ic.c` refers to, and how many rounds its loop has left.
`victims` is the copy of the idle list that `Close` works through. `open` and `dead`
describe the connections themselves: not closed by the client, dropped by the
server. `stale` are the idle connections whose timeout has passed.

An action is one critical section of `p.mu`, or the code between two of them, which
only touches a connection its goroutine owns. So `get` is `Get` or `GetClosed`, then
`PruneClose`/`PruneMore` per stale connection, `TestOk`/`TestFail`/`Retry` per
borrowed one, and `DialOk`/`DialFail`/`DialFailed`. `PooledConnection.Close` and `put`
are `ReleaseClean` or `ReleaseBroken`, `PutKept`/`PutEvict`/`PutClosed`, `PutDec`,
`PutClose`. Which commands a borrower sends, and the sentinel protocol that ends a
subscription, matter to the pool only through "in order" or "broken"; `RedisConn` says
which it is.

A connection identity that nothing refers to stands for a connection not dialled
yet; in the run there are enough of them for a dial always to find one.

### Lease, and the two that implement it

`Lease` has a place per connection (not there, held, pooled) and whether the next
borrower would notice that it has been used; a connection is given back only when he
would not. `RedisPool` implements it (`Leased`) for all connections at once, unfit
meaning closed: what it needs of a single one is that `put` is told the truth.
`RedisConn` implements it (`CleanLease`) for one connection with everything the protocol
can leave behind: an error, a transaction, watched keys, subscriptions, unread replies,
unwritten commands. Both refinements are proved as well as checked.

### RedisConn

`pending`, `err`, `buf` (`bw`) are fields of `conn`, `state` is that of
`pooledConnection`; `wire`, `inbox`, `session` and `up` are the socket and the server.
A borrower sends what `Allowed` lets him (no `EXEC` without a `MULTI`, nothing but
subscriptions while subscribed) and stops wherever he likes: `Close` may come with
replies pending, in a transaction, or subscribed and flooded with messages. A second
goroutine may be in `Receive` meanwhile, which `conn.mu` is for (`conn.go` 37-40); it shares
`pending`, so taking the reply (`ReceiveRead`) and counting it (`ReceiveCount`) are two
steps. `SendCount` and `SendWrite`, `DoBegin` and `DoRead` are cut at the same lock.
`Close` is followed by the sentinel loop (`SentinelRead`), `Do("")` (`DrainBegin`,
`DrainRead`) and `put`. A write to a lost peer may succeed the first time, and an error
leaves what is already in the read buffer readable (`Fatal`). The argument of the sentinel
is random (`pool.go` 272-287), so an `ECHO` with it stands for that one command only, and
`SentinelAssumption` keeps it out of what a borrower sends. Pings, time limits and a
dial that fails are the pool's.

### Replies

The reader and writer of `conn.go` and the conversions of `reply.go`, as operators over
sequences of bytes: a digit, a sign, CR, LF or a type character each. What it keeps exact
is the arithmetic: base, the width of `int64` and of `int`, and where digits wrap. The
round trips (`RepliesFramed`, `IntegersArrive`, `TextsArrive`, `CommandsRead`) are against
the protocol's own encoding; they have no state, so the run asks for them where the
connection is new.

### Timeline

Each datastore call, each `conn.Do`, each command the server executes from a
pipeline and each `conn.Receive` is a step of its own, and the steps of concurrent
requests interleave. The pool's promise that a request has its connection to itself
(`Exclusive` in `RedisPool`, which is proved) is what lets `wire` and `replies` be
local to a request. `DoPop` is `conn.Do` with `pending` replies ahead of its own:
it reads and drops them, as `conn.go` 426-437 does.

`followById` is `FollowTx`, its transaction, then `CallINowFollow`; between the two others
run, and the request may die or the task queue refuse the call, which the code does not
look at (`server.go:453`). `LoseCall` is both: the edge is there and its `iNowFollow` is
not. A `followById` that was a delayed call itself is then run again, a client may ask
again: `following` goes back to where it was.

`Kill`, `Break`, `DatastoreError` and `ClaimError` are the other failures the code handles
or suffers, `Start` the task queue: a call stays in `queue` until a request has
returned nil, so it may be running twice. The history variables `pushed`, `reached`,
`lost`, `longest` and `passed` are read by properties only; `longest` is the most entries a timeline
has had. `lost` has the pushes a fault prevented, those of an `iNowFollow` that was never
queued included: the photos that were stored then, or were about to be by an `addPhoto`
that had read the followers before (`Storing`). `passed` has the photos an `iNowFollow`
did not find, because such an `addPhoto` had not stored them yet or ten newer ones were
there.

Somebody may follow himself. `addPhoto` adds the owner to his followers
(`myredis.go:152`), who then has him twice: `ListedTwice` names that case, and `FanOutOnce` allows
him, and nobody else, two pushes of a photo.

Left out: photos of the system account `0001` (no fan-out); the display name; dates
of two photos in the same second (the newest `Put` comes first); a second follow of the
same pair once its `iNowFollow` has been queued (in `SocialGraph`, where a follow has its
callers, too). Of the commands a killed request or a broken connection
leaves behind the server may still execute any prefix (`Cut`). A `Receive` for which no
reply can come ends when App Engine fails the socket call at the request's deadline
(`Deadline`).

### SocialGraph

One action per datastore call, transaction and delayed call, for `Login` (from the
lookup on), `createUser`, `addUser`, `initialSetup`, `findFollows`, `Follow`,
`FollowByID` and `followById`. A user's email address is his identity. `IndexEmail` and
`IndexWant` bring the two indexes up to date one entry at a time, because the two
queries have no ancestor and read them with a delay. An ambiguous result (a
transaction commits, its caller sees an error) is a `Kill` right after the step. The
order in which `initialSetup` follows the automatic accounts is immaterial, so it is
left open. `initialPhotos` and `copyUserPhoto`, queued on the way, touch nothing here.

History variables say which failure hit whom: `replaced` (an entity overwritten by a
second `createUser`), `hurt` (the chain of delayed calls of a new user was cut),
`missed` (no `iNowFollow` for an edge), `unnamed` (his `addUser` failed or was never
reached), `slipped` (the query of `Follow` and that of `findFollows` both missed the other
side's entry). One query that misses is not enough for `slipped`: while the other is
still to come (`QueryAhead`) it has to make up for it, and `WantsResolved` says it does.

`named` has the users whose display name is in Redis. `ListedNamed` says that nobody
without one is in a list unless a failure between entity and name hit his own sign-up
(`unnamed`); failures anywhere else do not excuse a missing name.

`EdgesPaired` takes in a user who follows himself, whose `FollowsMe` entry may stand
without the `IFollow` entry but not the other way round, and the automatic accounts
`createUser` enters in `IFollow` ahead of time: their `FollowsMe` entries may be missing
only while his `initialSetup` is on its way (`SetupAhead`) or after a fault cut it off.

### Feedback and TimelinePage

`likes` and `flag` are fields of the hash `IM:photo`, `liked` and `comments` the
entities. Every Redis or datastore call of a handler is a step; it may fail with or
without having been executed, and the request may die before each (`Kill`). `Like`
ignores what Redis answers and goes on, `Unlike` ends at an error of the datastore. The
history variables `word` and `clouded` say which request of a user for a photo began
last, and whether another one ran beside it or something failed.

`TimelinePage` adds a list and one reader. `LRange` takes the copy the rest of
`getTimeline` works on and finds the place; `HMGet` and `Entry` are the calls per photo,
and between any two of them photos are liked, flagged, pushed and trimmed. The phone asks
for the page that begins at the last photo it has, and takes a page with nothing beyond
it for the end (`Show`). The history variable `again` has the photos pushed since the
reader began: he reads downwards and need not meet them. The phone is not in the repository: that use of `lastid` is
read off `getTimeline`, which starts a page *at* the photo it is given.

### ImagePipeline

A notification is `due` until a handler of `notice` answers it with 200. The handler is
two steps, because others run between them: `Notice` (the atomic `memcache.Add`, with
its three results) and `AddTask`. `tasks` counts the waiting tasks by name and by how
often they have failed. `Start` is the task's request to the image server; `tries` of a
run becomes `None` when nobody waits for its answer any more (`Deadline`), and the run
goes on. In the image server the loop (`Launch`), each goroutine (`Worker`), the
receives (`Collect`) and `notifyDone` (`Notify`) interleave; `errc` is the buffered
channel. After an early return the goroutines left behind keep their run (`over`) until
the last has ended.

Closures and loop share the variable `size` and read and write it without
synchronisation, so `Resize` takes each of the two fields from any value the variable
has had since the goroutine was launched (`Seen`). An object is only known by whether
it has the dimensions listed for its suffix. A name is the sequence of its parts between
dots, as `PostPhoto` and the name of the target look at it. `copyUserPhoto` is `Upload`
of the profile picture; photos are uploaded by the phone, which is not in the
repository. `dropped` has the names of which the code gives something up: a task not added
after its key was (the repeated notification is then taken for a duplicate), or a
task that failed more often than `task_retry_limit`. That the queue itself might run one
task twice is left out: an abandoned run together with its retry is the same to the
image server.

## Runs

| Run | Instance | Checks |
|---|---|---|
| `RedisPoolSafety` | 3 goroutines, 3 connections, `MaxIdle` 1, `MaxActive` 2, expiry and tests on | `TypeOK`, `Exclusive`, `ActiveExact`, `WithinLimits`, `NoLeak`, `IdleUsable`, `AllocatedBound`, `Leased`, `GetReturns`, `ClosedPoolDrains` |
| `RedisConn` | 1 connection, 3 commands per borrower out of 8, 1 message pushed; numbers of 6 and 4 bits in base 3, texts of 2 bytes, arrays of 2 | `TypeOK`, `NeverStarved`, `DoGetsOwnReply`, `CleanLease`, `CloseReturns`; `FramedFromTheStart`, `ValuesExact` |
| `TimelineTrims` | 2 photos of one owner, 2 requests at a time, two timelines full and one with room for one entry, a user who may start to follow, no faults | `TrimmedAtMost` |
| `TimelineFaults` | 1 photo, 2 requests, 1 fault, an owner who follows herself, a new follower whose `iNowFollow` may be lost, a new user | `TypeOK`, `FanOutOnce`, `MissedOnlyByRace`, `Delivered` |
| `TimelineCap` | 1 photo, 1 request, all timelines full, no faults | violates `TimelineWithinCap` (finding) |
| `SocialGraphSafety` | 3 users (one automatic, one signing up), follows by id and by address, one of oneself, 2 requests, 2 faults | `TypeOK`, `ListsUnique`, `EdgesPaired`, `WantsResolved`, `EdgesCaughtUp`, `ListedNamed` |
| `SocialGraphLiveness` | sign-up only, 2 faults | `SetupReaches` |
| `SocialGraphCreate` | no faults | violates `CreatedOnlyIfMissing` (finding) |
| `Feed` | 2 requests at a time, 5 photos, pages of 3, at most 4 entries; six workloads (see below); 2 faults | `TypeOK`, `LastWordHolds`, `CommentsLostOnlyBySameSecond`, `EndMeansAll`, `LikesShown`, `ReadsOn` |
| `ImagePipelineRetries` | 1 name, 2 sizes, 2 calls of the image server, 1 retry, 1 repeated notification, 1 lost key | `TypeOK`, `ReportedComplete`, `KeyedOnce`, `EachUploadReported`, `WorkersEnd` |
| `ImagePipelineSizes` | 1 name, 2 sizes, 1 call, no retry | violates `SizesAsListed` (finding) |
| `ImagePipelineProfile` | the profile picture's name | violates `OnlyPhotosQueued` (finding) |

Why the bounds are enough to be worth the run: three goroutines at a limit of two
connections are two that hold one and one that meets the limit, dials in place of one
that is being closed, or closes the pool; two that return overfill an idle list of one.
With more connections than the limit a new one can be dialled while an old one is being
closed: `AllocatedBound` says that this is the only way to have more than `MaxActive` open.
Three commands of one borrower are a transaction with a command in it, two subscriptions
and a message, or two pending replies before a `Do`; those `Close` adds come on top. Base 3 at 6 bits has numbers of four digits whose last step overflows, and 4
bits for an `int` a number that fits one width only.
`Cap` 2 and `Recent` 2 stand for 2000 and 10: a list can be under, at and over the cap,
and two photos fill a query. `TimelineTrims` has `Cap` 7, above the most that can be
trimmed too far: beside an `iNowFollow` each other request may take as many entries as
the timeline was ever over `Cap` (`Beside`). The bound is exact in this instance: with one
entry less TLC finds it violated. Two requests are enough for the same delayed call to run
twice, and for a follow to run within `addPhoto`. One fault in `Timeline` and two in
`SocialGraph`, whose chains of delayed calls are longer, let a retry meet what the
failed attempt left behind. In `ImagePipeline` the retry limit bounds the failures, so
every step of every attempt may fail; a second task for the same name (a repeated
notification after a lost key) or a retry runs beside the first, and two sizes are a
goroutine that errs and one left behind. One name is enough: names that differ before
their extension share nothing but the places for runs. In `Feed` two faults let a request and the one that repairs it fail, or two pages. Its
workloads are small on purpose, since they only add up: one user's like, unlike and like
again without a reader; likes under a reader, of a photo flagged once and of one without
a date; comments in one second and in two; flags that take a photo away under a reader
while the list grows; three photos flagged twice, a whole page; and a list that grows by
three, in part with photos it has, and is trimmed.
A mutation of the code breaks each property within these bounds.

Deadlock is checked in every run but those of `ImagePipeline` and `Feed`, which stop when
all uploads, or requests and pages, are done. An `iNowFollow` trims by a length
read before its loop, and together with a fan-out it does take a list under the cap;
`TrimmedAtMost` says how far, and that nobody else's is: fan-outs alone never do.
`MissedOnlyByRace` names the only
ways to miss a photo without a failure: `addPhoto` reads the followers (`myredis.go:130`)
before it stores the photo (136), and an `iNowFollow` may read the photos in between, or
it reads them when ten newer ones are there, which is all it asks for.

### Fairness

- Pool: a goroutine inside `get`, `put` or `Close` goes on (weak fairness per
  goroutine), and a borrower returns its connection: every caller has
  `defer conn.Close()`. Nobody has to call `Get` or `Close`, connections need not
  expire or be dropped.
- Timeline, SocialGraph: a request that has started goes on, `followById` from its
  transaction to its call included, the Redis server answers, indexes catch up (weak
  fairness). The queue hands each call it holds to some request
  (strong fairness per call, because requests are only now and then free). Faults,
  posts, follows and sign-ins need never happen.
- RedisConn: the goroutines and the server go on; no deadline has to pass, no peer to go,
  no message to be published. `CloseReturns` holds without any of them.
- TimelinePage: `getTimeline` goes on and the phone asks for the next page (one weak
  fairness condition: `ReadsOn` needs no request of `Feedback` to go on, and no push or
  trim to happen).
- ImagePipeline: the bucket repeats a notification until it is answered with 200, the
  queue runs its tasks, handlers and goroutines go on (weak fairness). Expiry, deadlines,
  crashes and repetitions need not happen, and any step may end in its error.

`ClosedPoolDrains` and `GetReturns` do not assume that dialling succeeds.

## Findings

1. `server.go:43` gives a timeline at most 2000 entries, and `myredis.go:159` says the result
   of each push is checked to that end; the `RPOP` at line 167 drains the replies of the
   later pushes, the next `Receive` waits for the deadline, and the lists of the followers
   after the first full one are not trimmed.
2. `tokens.go:142` creates a user who is not found; lookup and `Put` are not one
   transaction, so a second sign-in can overwrite the user's new followers and wishes.
3. `imagemagick.go:34` lists the size of each suffix; the goroutines read the shared loop
   variable (line 145) in place of their parameters, so objects get the dimensions of
   other suffixes.
4. `server.go:596` means to queue names of the form `userid.photoID.webp` and tests for two
   parts; the profile picture `userID.jpg` (`user.go:100`) has two and is fanned out as a
   photo, while a name of that form has three and is not.

Observed while modelling, and stated in the properties rather than shown by runs of their
own: `server.go:41` counts likes as the fields of the hash minus two, `getTimeline`
(`myredis.go:216`) as minus one, which is right for a photo with a date and no flag and
off by one for others (`LikesShown`); a photo that is in a timeline twice sends its reader
round in circles (`ReadsOn`), a run of flagged ones (`myredis.go:207`) or a failed `LRANGE`
(182) looks like the end (`EndMeansAll`); comments of one second on one photo replace each
other (`server.go:494`); an owner who follows himself (`server.go:442` lets him) gets each of
his photos twice (`Times` in `FanOutOnce`); and a photo that was trimmed below a reader's place and is
pushed again, on top, is never shown to him (`EndMeansAll`, where a first version of the
property was false; the attempt to prove it showed this). Outside the models: `profileForUser` asks for later pages with
`Filter("", lastDate)` (`server.go:255`), which the datastore refuses;
`loggingConn.SocketConn` (`log.go:124`) calls itself; `pool.go:116` bounds the connections
allocated by `MaxActive`, which the code exceeds by those being closed (`AllocatedBound`).

## Proofs

A theorem is listed for each safety property that TLC checks but two (see the end of
this section). Each module's inductive invariant was checked by TLC on the module's
instances before it was proved, and holds for every value of the constants that the
named assumptions of the module allow. The parts of an invariant that are about one
process are proved action by action; what relates several of them has a lemma per way of
disturbing it, which the actions cite. TLAPS checks every proof to its leaves.

### RedisPoolProofs

For every set of goroutines and connections, every `MaxIdle` and `MaxActive`, with and
without expiry and borrow tests, from `ProcAssumption` (finitely many goroutines, so that
they can be counted), `ConnAssumption`, `LimitsAssumption` and `OptionsAssumption`:
`PoolTypes`, `PoolExclusive`, `PoolCount` (`ActiveExact`), `PoolLimits`, `PoolNoLeak`,
`PoolUsable`, `PoolAllocated` (`AllocatedBound`) and the refinement `PoolLeased`.

The inductive invariant `IInv` (`PoolInvariant`) is the conjunction of the first six with
`Placed`, which says what a goroutine holds by where it stands. It is needed because
`ActiveExact` counts goroutines by where they stand and `NoLeak` asks what they refer to:
without it a goroutine at `dial` might overwrite a connection it still holds, one at
`retry` might forget one that is open, and one at `put` might push a closed one.
`Exclusive`, `Placed` and `NoLeak` are about which of the three places (idle list,
goroutine, `Close`'s copy) has a connection, and the lemmas `PopFront`, `PopBack` and
`PushFront` say what each critical section does to the list as a sequence without
repetitions. `ActiveExact` follows from how an action changes the length of the list, the
set `Holders` and the counter: the lemma `Recount` on `Cardinality(Holders)` has one
goroutine join, leave, or neither. `WithinLimits` is then local: only `StartDial` raises
`active`, and only below the limit. `AllocatedBound` needs no induction of its own: an open
connection is idle, held by a counted goroutine, or at one about to close it. For `Leased`
every action is shown to be a step of `Lease` for the one connection it touches, or none.

### RedisConnProofs

For any commands, any number of them and of messages (`BoundsAssumption`,
`SentinelAssumption`), in two stages.

- `ConnInvariant` is about numbers. `Owed` says that what the client will still wait for
  is at most what is buffered, on the wire, in the inbox, and in the hands of the two
  goroutines between reading or counting and the lock (`Unwritten`, `Uncounted`). Without
  these two it is not inductive: a reply that the second goroutine has taken and not yet
  counted is missing from the inbox and still in `pending`. `ConnTyped` (`TypeOK`) and
  `NobodyStarves` (`NeverStarved`) follow.
- `LeaseInvariant` is about meaning. `Ahead` says that the commands under way lead from the
  session the server has now to one that the flags of `pooledConnection` agree with
  (`Leads`, `Agree`); once `Close` has sent its undoing, to the empty one. It is claimed only
  while nothing sent was lost (`Intact`) and the connection is not going to be closed in any
  case (`Doomed`). `Counts` is the other half of `Owed`: where nothing is pushed, no more
  replies are under way than are counted. `LastFound` is the sentinel's: its answer is the
  last one on the connection and comes from a session without anything, unless an error
  comes first (`UNWATCH` is refused inside a subscription), which makes `Close` give up.
  `Own` has the command of `Do` last on the wire and its reply last in the inbox.
  `OwnReply` (`DoGetsOwnReply`) follows from `Own`, `Counts` and `Owed`: when one reply is
  left to read, nothing else is under way. `LeaseKept` (`CleanLease`) follows from
  `Ahead` with nothing left on the way: at `put` an unflagged connection without error has
  an empty session.

### TimelineProofs

For any users, photos, followers, requests and faults, from `SetsAssumption`,
`OwnerAssumption`, `StartAssumption` (followers are listed once, which `GraphUnique` proves of
the code that writes the lists), `FollowsAssumption` and `BoundsAssumption`.
`TimelineInvariant` is the invariant, with `TimelineTyped`, and:

- `FannedOutOnce` (`FanOutOnce`). `OneFanOut` has three stages per photo: unclaimed, with no
  push anywhere; claimed by one request at `send`; sent, each push once on one wire or
  executed. `HSETNX` is the only way from the first to the second, and a request that dies
  in between cannot come back to it. `Once` says that the list `addPhoto` works on has
  everybody once but an owner who follows himself, and him twice; `Rest` that the pushes of
  a photo to one user, those on the wire and those done, are together no more than that.
- `MissedRarely` (`MissedOnlyByRace`). `Cared` says for each follower and photo that the push
  has happened, is known to be lost or passed by, or that some request will still make it:
  an `iNowFollow` that has read the photo (`Covered`) or has not read any yet (`Unread`), or
  an `addPhoto` before its claim with the follower on its list (`Listed`); or his
  `followById` has still to queue the `iNowFollow` (`Calling`). `StoredFirst` is
  needed for the hand-over between the two: who follows after `addPhoto` has read the
  followers finds the photo stored, or is counted as passed by. A call that is lost hands
  over what it would have covered to `lost` (`LoseStep`): the photos stored by then and
  those of an `addPhoto` that does not list him; any later one does (`YetToClaim`). When
  nothing is left to do, only the first case remains.

### TimelineTrimProofs

From the same assumptions, `WorkerAssumption` (finitely many requests, so that what they trim
can be added up) and `TimelineInvariant`: `TrimInvariant` and `TrimmedNoFurther`
(`TrimmedAtMost`). A trim is decided on in one step and done in later ones, so the length of
a list says little by itself. `Account` keeps books: `Due` is what a request is committed to
remove from a list, one entry for an `RPOP` under way or a reply above `Cap` not yet
received (`WillPop`), `count` for an `iNowFollow`; `Owed` adds them up. `Solvent` says that
the length less what is owed stays above the bound. While only fan-outs trim, it says more:
whatever is owed is beyond a full list, since a push onto a full list adds the entry that
its reply commits the request to remove, and one request pops at most once. Otherwise each
request owes at most the excess of `longest`, and one request's own count leaves a full
list, so the others make up the margin (`OwedFacts`). `Orderly` is about the pipeline: the
pushes on a wire are for the followers whose replies have not come, and an `RPOP` is the
last command, which is why the same request does not pop twice. The lemmas `Settled`,
`Pushed` and `Planned` say what a pop, a push and an `iNowFollow`'s count do to an account.

### SocialGraphProofs

For any users, requests and faults, from `UsersAssumption` (users and automatic accounts are
listed once, and the automatic accounts exist, as `initialSetup` takes for granted),
`RequestsAssumption` and `FaultsAssumption`. `GraphInvariant` gives `GraphTyped`,
`GraphUnique`, `GraphPaired`, `GraphNamed`, `GraphCaughtUp` and `GraphWants`.

`Local` says which call a request serves by where it stands and whom it is about to treat;
without it a transaction might be about somebody who does not exist. What must be true
when all is quiet is carried through the run as an obligation that somebody holds:
`EdgesOwed` (an edge is caught up, at a request about to do it, or in a delayed call that
will do it again), `CallsKept` (a call leaves the queue only when what it owes is done),
and `Searches`: as long as a new user's `findFollows` has not run to its end, it is in
the queue or will be put there (`SearchAhead`); afterwards each wish for him has become
an edge or a `delayFollow`, or the two queries missed each other (`Searched`).
`AutoPaired` is the same for the automatic accounts: until `initialSetup` has left the
queue it is on its way, and it leaves only when every account has been caught up, which
comes after the edge (`CaughtMade`). `BeingNamed` has everybody who exists named, at
`addUser`, or in `unnamed`. A follow that
overlaps with the search is the difficult case: a request at `want` has read the users
before the new one was in the index, and stores its wish after the search.

### FeedbackProofs and TimelinePageProofs

For any users, photos, handlers, workloads and faults (`FeedbackAssumption`,
`RequestAssumption`):

- `LastWord` (`LastWordHolds`). Of a user and a photo that are not clouded, at most one request
  speaks, it is the one `word` remembers, and what it has already done in the first store
  is still there when it comes to the second (`Kept`, `HalfSaid`); with no one speaking both
  stores say what `word` says (`Said`).
- `CommentsKept` (`CommentsLostOnlyBySameSecond`), which is inductive.

A reader beside them, for any timeline, cap and page of at least two entries
(`PageAssumption`): `PageInvariant`, `PageTyped`, `PageEnd`, `PageLikes`, and the two above for
the composed system (`PageLastWord`, `PageComments`). `SeenAbove` is the heart: if the
reader's place is still in the timeline, everything old above it has been shown or is
hidden. It is stated of the timeline and of the copy `LRANGE` returned; `Placed` and `Passed`
say how far the loop has come in the copy, and `Shifted` that the timeline differs from the
copy by pushes on top and trims below only, so that what is true of one can be said of the
other when the page is shown. `PageLikes` follows from `LastWordHolds` by counting.

### ImagePipelineProofs

For any names, sizes, number of concurrent runs, retry limit and bounds, from
`NamesAssumption`, `NoneAssumption` and `LimitsAssumption`:

- `KeyedOncePerGap` (`KeyedOnce`). `KeyBooks` adds the key itself to the count: tasks and claims
  are at most the gaps, plus one while the key is there. Only the key being taken lets a
  claim be made, and only a gap gives it back.
- `ReportedOnlyComplete` (`ReportedComplete`). `RunBooks` says of each run that the results in
  the channel and those counted are as many as the goroutines that have ended, and that as
  long as no error is in the channel each of these has its object in the bucket. The lemma
  `AllWritten` concludes that a run about to call `notifyDone` has received a nil from each;
  that objects are never removed (`ObjectsStay`) keeps this true whatever other runs and
  goroutines left behind do.
- `PipelineTyped` (`TypeOK`). What is waiting or running for a name has been uploaded
  (`Uploads`), and a goroutine sends once, so that the channel's capacity is enough
  (`Limited`). `PipelineInvariant` is all four together.

### Model-checked only

- Liveness, which needs fairness and is out of the prover's reach: `GetReturns`,
  `ClosedPoolDrains`, `CloseReturns`, `Delivered`, `SetupReaches`, `ReadsOn`,
  `EachUploadReported`, `WorkersEnd`.
- `FramedFromTheStart` and `ValuesExact` of `Replies`: the operators are recursive, as the
  protocol is, and what they compute for every input takes an induction over the data.

## Plan

The models planned are there, and every safety property that a run checks is proved for all
values of the constants, but the two above. What is left is out of the prover's reach: the
liveness properties, and what the recursive operators of `Replies` compute.

## Not modelled, and why

- Most of the repository's lines are vendored (`imagemagick/Godeps/`: generated API
  clients, bindings of ImageMagick, protocol buffers, App Engine's library). None of it is Abelana's; what the program relies on
  (memcache's `Add`, the task queue, transactions, lagging indexes, `HSETNX`) is in the
  models as external definitions. This is why the map covers a small share of all lines.
- Tokens (`tokens.go` except `Login`'s lookup): sequential code over libraries of
  cryptography; they are kept by the client, and nothing is stored.
- Handlers that only read (`GetMyProfile`, `FProfile`, `GetFollowing`, `GetPerson`,
  `Statistics`, `GetPhotoComments`) and stubs that reply ok (`Import`, `Wipeout`, `Register`,
  `Unregister`): no state, no step between two reads that anything depends on.
- `scan.go`, `script.go`, `log.go`: not used by the program; reflection, a hash of a text,
  and forwarding. `pubsub.go` only as far as the connection sees it.
- `default/` (a sample's sign-in pages), `config.go`, scripts, containers: no state shared
  with the rest.
