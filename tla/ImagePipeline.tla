---------------------------- MODULE ImagePipeline ----------------------------
(***************************************************************************)
(* From an object in the upload bucket to the call that announces it:      *)
(* Google Cloud Storage notifies notice (bucketNotificationHandler), which *)
(* queues one task per new name; the task (incomingImageHandler) posts the *)
(* name to imagemagick (notificationHandler), which writes one resized     *)
(* object per suffix, each from a goroutine of its own, and then calls     *)
(* PostPhoto at endpoints.                                                 *)
(*                                                                         *)
(* A name is the sequence of its dot-separated parts: the profile picture  *)
(* copyUserPhoto writes is <<user, "jpg">>.  The entry of sizes for a       *)
(* suffix is known by that suffix.                                         *)
(***************************************************************************)
EXTENDS Integers, FiniteSets, SequencesExt, FiniteSetsExt

CONSTANTS
    Names,      \* the names written to the upload bucket
    Sizes,   \* keys of sizes
    Runs,       \* calls of notificationHandler that may be under way at once
    None,
    RetryLimit, \* task_retry_limit of the queue new-images
    MaxGaps,    \* bound: moments memcache forgets a name or cannot be asked
    MaxAgain    \* bound: notifications the bucket repeats unasked

ASSUME NamesAssumption == Names \subseteq Seq(STRING) /\ <<>> \notin Names
ASSUME NoneAssumption == None \notin {"listed", "other"}
ASSUME LimitsAssumption ==
    /\ Sizes # {} /\ IsFiniteSet(Sizes) /\ IsFiniteSet(Runs)
    /\ {RetryLimit, MaxGaps, MaxAgain} \subseteq Nat

VARIABLES
    uploaded, \* names in the upload bucket
    due,      \* due[n]: notifications of n not answered with 200 yet
    seen,     \* names with a key in memcache
    claimed,  \* claimed[n]: handlers past memcache.Add, before taskqueue.Add
    tasks,    \* tasks[n][k]: waiting tasks for n that have failed k times
    runs,     \* the calls of notificationHandler
    objects,  \* objects[<<stem, suffix>>]: has it the dimensions listed for suffix?
    reported, \* names PostPhoto has been called with
    queued,   \* names PostPhoto has passed to delayAddPhoto
    again,    \* history: repetitions made by the bucket, against MaxAgain
    gaps,     \* history: gaps[n], against MaxGaps
    made,     \* history: made[n], tasks ever added for n
    dropped   \* history: names with a lost notification or an abandoned task

vars == <<uploaded, due, seen, claimed, tasks, runs, objects, reported, queued,
          again, gaps, made, dropped>>
noticeVars == <<uploaded, due, seen, claimed, again, gaps, made>>
outVars == <<reported, queued>>

Stem(n) == IF Len(n) > 1 THEN Front(n) ELSE n
Targets == {Stem(n) : n \in Names} \X Sizes

Workers == [Sizes -> {"none", "run", "done"}]
Resting == [pc |-> "idle", name |-> None, tries |-> None, launched |-> <<>>,
            work |-> [s \in Sizes |-> "none"], errc |-> <<>>, got |-> 0]

Fresh(run) == {s \in Sizes : run.work[s] = "none"}
Running(run) == {s \in Sizes : run.work[s] = "run"}
Settle(run) == IF run.pc = "over" /\ Running(run) = {} THEN Resting ELSE run

Init ==
    /\ uploaded = {} /\ seen = {} /\ reported = {} /\ queued = {} /\ dropped = {}
    /\ due = [n \in Names |-> 0] /\ claimed = due /\ made = due /\ gaps = due
    /\ again = 0
    /\ tasks = [n \in Names |-> [k \in 0..RetryLimit |-> 0]]
    /\ runs = [r \in Runs |-> Resting]
    /\ objects = [t \in Targets |-> None]

-----------------------------------------------------------------------------
(* The bucket and its notifications.                                       *)

Upload(n) ==
    /\ n \notin uploaded
    /\ uploaded' = uploaded \union {n}
    /\ due' = [due EXCEPT ![n] = @ + 1]
    /\ UNCHANGED <<seen, claimed, tasks, runs, objects, outVars, again, gaps,
                   made, dropped>>

Repeat(n) ==
    /\ n \in uploaded /\ again < MaxAgain
    /\ again' = again + 1
    /\ due' = [due EXCEPT ![n] = @ + 1]
    /\ UNCHANGED <<uploaded, seen, claimed, tasks, runs, objects, outVars, gaps,
                   made, dropped>>

Expire(n) ==
    /\ n \in seen /\ gaps[n] < MaxGaps
    /\ seen' = seen \ {n}
    /\ gaps' = [gaps EXCEPT ![n] = @ + 1]
    /\ UNCHANGED <<uploaded, due, claimed, tasks, runs, objects, outVars, again,
                   made, dropped>>

-----------------------------------------------------------------------------
(* notice.                                                                 *)

AddKey(n) ==
    /\ n \notin seen
    /\ seen' = seen \union {n}
    /\ claimed' = [claimed EXCEPT ![n] = @ + 1]
    /\ gaps' = gaps

KeyExistsSlip(n) ==
    /\ n \in seen
    /\ claimed' = [claimed EXCEPT ![n] = @ + 1]
    /\ UNCHANGED <<seen, gaps>>
KeyExists(n) == n \in seen /\ UNCHANGED <<seen, claimed, gaps>>

MemcacheDown(n) ==
    /\ gaps[n] < MaxGaps
    /\ gaps' = [gaps EXCEPT ![n] = @ + 1]
    /\ claimed' = [claimed EXCEPT ![n] = @ + 1]
    /\ seen' = seen

Notice(n) ==
    /\ due[n] > 0
    /\ due' = [due EXCEPT ![n] = @ - 1]
    /\ AddKey(n) \/ KeyExists(n) \/ MemcacheDown(n)
    /\ UNCHANGED <<uploaded, tasks, runs, objects, outVars, again, made, dropped>>

TaskAdded(n) ==
    /\ tasks' = [tasks EXCEPT ![n][0] = @ + 1]
    /\ made' = [made EXCEPT ![n] = @ + 1]
    /\ UNCHANGED <<due, dropped>>

\* The error is answered with 500, so the bucket notifies again; the key stays.
TaskRefused(n) ==
    /\ due' = [due EXCEPT ![n] = @ + 1]
    /\ dropped' = dropped \union {n}
    /\ UNCHANGED <<tasks, made>>

AddTask(n) ==
    /\ claimed[n] > 0
    /\ claimed' = [claimed EXCEPT ![n] = @ - 1]
    /\ TaskAdded(n) \/ TaskRefused(n)
    /\ UNCHANGED <<uploaded, seen, runs, objects, outVars, again, gaps>>

TaskFailedSlip(r) == UNCHANGED <<tasks, dropped>>
\* What the queue does with the answer to run r's request, if it still waits.
TaskFailed(r) ==
    LET n == runs[r].name
        k == runs[r].tries
    IN  /\ tasks' = IF k # None /\ k < RetryLimit
                    THEN [tasks EXCEPT ![n][k + 1] = @ + 1] ELSE tasks
        /\ dropped' = IF k = RetryLimit THEN dropped \union {n} ELSE dropped

Start(n, r) ==
    /\ runs[r] = Resting
    /\ \E k \in 0..RetryLimit :
        /\ tasks[n][k] > 0
        /\ tasks' = [tasks EXCEPT ![n][k] = @ - 1]
        /\ runs' = [runs EXCEPT ![r].pc = "read", ![r].name = n, ![r].tries = k]
    /\ UNCHANGED <<noticeVars, objects, outVars, dropped>>

\* urlfetch gives up after a minute; imagemagick works on.
Deadline(r) ==
    /\ runs[r].tries # None
    /\ TaskFailed(r)
    /\ runs' = [runs EXCEPT ![r].tries = None]
    /\ UNCHANGED <<noticeVars, objects, outVars>>

-----------------------------------------------------------------------------
(* imagemagick.                                                            *)

Answer500(r) ==
    /\ TaskFailed(r)
    /\ runs' = [runs EXCEPT ![r] = Settle([@ EXCEPT !.pc = "over", !.tries = None])]

Unreadable(r) ==
    /\ runs[r].pc = "read"
    /\ Answer500(r)
    /\ UNCHANGED <<noticeVars, objects, outVars>>

ReadImage(r) ==
    /\ runs[r].pc = "read"
    /\ runs' = [runs EXCEPT ![r].pc = "loop"]
    /\ UNCHANGED <<noticeVars, tasks, objects, outVars, dropped>>

Iterated(run, s) ==
    [run EXCEPT !.launched = Append(@, s), !.work = [@ EXCEPT ![s] = "run"],
                !.pc = IF Fresh(run) = {s} THEN "collect" ELSE "loop"]

\* One iteration: the range variable size moves on to s, and s is launched.
Launch(r) ==
    /\ runs[r].pc = "loop"
    /\ \E s \in Fresh(runs[r]) :
          runs' = [runs EXCEPT ![r] = Iterated(runs[r], s)]
    /\ UNCHANGED <<noticeVars, tasks, objects, outVars, dropped>>

\* The values the variable size, shared by the closures and the loop, has had
\* since s was launched: the closure reads its two fields without ordering.
Seen(run, s) ==
    {run.launched[i] : i \in
        SelectInSeq(run.launched, LAMBDA x : x = s)..Len(run.launched)}

ErrcCap == Cardinality(Sizes)

Ended(run, s, e) ==
    [run EXCEPT !.work = [@ EXCEPT ![s] = "done"], !.errc = Append(@, e)]

SendSlip(r, s, e) ==
    /\ runs[r].errc = <<>> /\ runs[r].pc \in {"loop", "collect"}
    /\ runs' = [runs EXCEPT ![r] = Settle(Ended(runs[r], s, e))]
Send(r, s, e) ==
    /\ Len(runs[r].errc) < ErrcCap
    /\ runs' = [runs EXCEPT ![r] = Settle(Ended(runs[r], s, e))]

Resize(r, s) ==
    /\ s \in Running(runs[r])
    /\ Send(r, s, "nil")
    /\ \E x, y \in Seen(runs[r], s) :
          objects' = [objects EXCEPT ![<<Stem(runs[r].name), s>>] =
                         IF <<x, y>> = <<s, s>> THEN "listed" ELSE "other"]

ResizeFails(r, s) ==
    /\ s \in Running(runs[r])
    /\ Send(r, s, "err")
    /\ UNCHANGED objects

Worker(r, s) ==
    /\ Resize(r, s) \/ ResizeFails(r, s)
    /\ UNCHANGED <<noticeVars, tasks, outVars, dropped>>

CollectNilSlip(r) ==
    /\ Head(runs[r].errc) = "nil"
    /\ runs' = [runs EXCEPT ![r].errc = Tail(@),
                            ![r].pc = IF runs[r].got + 1 = Cardinality(Sizes)
                                      THEN "notify" ELSE "collect"]
    /\ UNCHANGED <<tasks, dropped>>
CollectNil(r) ==
    /\ Head(runs[r].errc) = "nil"
    /\ runs' = [runs EXCEPT ![r].errc = Tail(@), ![r].got = @ + 1,
                            ![r].pc = IF runs[r].got + 1 = Cardinality(Sizes)
                                      THEN "notify" ELSE "collect"]
    /\ UNCHANGED <<tasks, dropped>>

CollectErrSlip(r) ==
    /\ Head(runs[r].errc) = "err"
    /\ runs' = [runs EXCEPT ![r].errc = Tail(@), ![r].got = @ + 1,
                            ![r].pc = IF runs[r].got + 1 = Cardinality(Sizes)
                                      THEN "notify" ELSE "collect"]
    /\ UNCHANGED <<tasks, dropped>>
\* The first error returns; the goroutines still running are left behind.
CollectErr(r) ==
    /\ Head(runs[r].errc) = "err"
    /\ Answer500(r)

Collect(r) ==
    /\ runs[r].pc = "collect" /\ runs[r].errc # <<>>
    /\ CollectNil(r) \/ CollectErr(r)
    /\ UNCHANGED <<noticeVars, objects, outVars>>

\* A name of two parts is handed to addPhoto; the error of Call is ignored.
PostPhoto(n) ==
    /\ reported' = reported \union {n}
    /\ queued' \in IF Len(n) = 2 THEN {queued, queued \union {n}} ELSE {queued}

Notify(r) ==
    /\ runs[r].pc = "notify"
    /\ \/ /\ PostPhoto(runs[r].name)       \* answered with 200
          /\ runs' = [runs EXCEPT ![r] = Resting]
          /\ UNCHANGED <<tasks, dropped>>
       \/ /\ PostPhoto(runs[r].name)       \* the answer is lost
          /\ Answer500(r)
       \/ UNCHANGED outVars /\ Answer500(r) \* not reached, or refused
    /\ UNCHANGED <<noticeVars, objects>>

\* imagemagick stops and is started again: every request under way fails.
Crash ==
    LET waiting == {r \in Runs : runs[r].tries # None}
        Retried(n, k) == Cardinality({r \in waiting : /\ runs[r].name = n
                                                      /\ runs[r].tries = k - 1})
    IN  /\ \E r \in Runs : runs[r] # Resting
        /\ runs' = [r \in Runs |-> Resting]
        /\ tasks' = [n \in Names |-> [k \in 0..RetryLimit |->
                        tasks[n][k] + Retried(n, k)]]
        /\ dropped' = dropped \union
              {runs[r].name : r \in {w \in waiting : runs[w].tries = RetryLimit}}
        /\ UNCHANGED <<noticeVars, objects, outVars>>

Serve(r) == \/ Unreadable(r) \/ ReadImage(r) \/ Launch(r) \/ Collect(r) \/ Notify(r)

Next ==
    \/ \E n \in Names : Upload(n) \/ Repeat(n) \/ Expire(n)
    \/ \E n \in Names : Notice(n) \/ AddTask(n) \/ \E r \in Runs : Start(n, r)
    \/ \E r \in Runs : Serve(r) \/ Deadline(r) \/ \E s \in Sizes : Worker(r, s)
    \/ Crash

\* The bucket keeps notifying and the queue keeps retrying; handlers and
\* goroutines run.  Uploads, expiries, deadlines and crashes need not happen.
Fairness ==
    /\ \A n \in Names : WF_vars(Notice(n)) /\ WF_vars(AddTask(n))
    /\ \A n \in Names : WF_vars(\E r \in Runs : Start(n, r))
    /\ \A r \in Runs : WF_vars(Serve(r)) /\ \A s \in Sizes : WF_vars(Worker(r, s))

Spec == Init /\ [][Next]_vars /\ Fairness

-----------------------------------------------------------------------------
(* Properties.                                                             *)

RunType == [pc : {"idle", "read", "loop", "collect", "notify", "over"},
            name : Names \union {None}, tries : 0..RetryLimit \union {None},
            launched : SeqOf(Sizes, ErrcCap), work : Workers,
            errc : SeqOf({"nil", "err"}, ErrcCap), got : 0..ErrcCap]

\* Every variable keeps its type; a result is in errc or collected only for a
\* goroutine that ended (imagemagick.go:139-174).
TypeOK ==
    /\ uploaded \subseteq Names /\ seen \subseteq uploaded
    /\ reported \subseteq uploaded /\ queued \subseteq reported
    /\ dropped \subseteq uploaded
    /\ \A f \in {due, claimed, made, gaps} : f \in [Names -> Nat]
    /\ tasks \in [Names -> [0..RetryLimit -> Nat]]
    /\ runs \in [Runs -> RunType]
    /\ objects \in [Targets -> {None, "listed", "other"}]
    /\ \A r \in Runs : runs[r].pc # "over" =>
          Len(runs[r].errc) + runs[r].got
             = Cardinality({s \in Sizes : runs[r].work[s] = "done"})

\* PostPhoto announces a name only when the output bucket holds an object for
\* every suffix, although the goroutines of failed, abandoned and repeated runs
\* write too, and a run ends at its first error (imagemagick.go:92-99, 170-175).
ReportedComplete ==
    \A n \in reported, s \in Sizes : objects[<<Stem(n), s>>] # None

\* However often the bucket repeats a notification and whatever handlers run at
\* once, a name gets one task, and one more for each time memcache had lost its
\* key or could not be asked (notice.go:39-55).
KeyedOnce == \A n \in Names : made[n] + claimed[n] <= 1 + gaps[n]

\* Every object has the dimensions listed for its suffix: "map with the suffixes
\* and sizes to generate" (imagemagick.go:34).
SizesAsListed == \A t \in Targets : objects[t] # "other"

\* Only photos are handed to addPhoto: "We only need to call for
\* userid.photoID.webp" (server.go:596), never for a profile picture.
OnlyPhotosQueued == \A n \in queued : Len(n) = 3

\* Every upload is announced, unless a task could not be added or failed more
\* often than the queue retries (notice.go:57-65, default/queue.yaml:40).
EachUploadReported ==
    \A n \in Names : n \in uploaded ~> n \in reported \union dropped

\* Goroutines are never left blocked: again and again none is running, since
\* each can send its result also when processImage has returned at an earlier
\* error and nobody receives (imagemagick.go:139-174).
WorkersEnd == []<>(\A r \in Runs : Running(runs[r]) = {})
=============================================================================
