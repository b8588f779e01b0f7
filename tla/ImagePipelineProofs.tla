------------------------- MODULE ImagePipelineProofs -------------------------
(* The promise of the memcache key and that of the error channel, for any  *)
(* names, sizes and calls, and any number of repetitions, gaps and retries. *)
EXTENDS ImagePipeline, FiniteSetTheorems, TLAPS

\* The key of a name allows for one task: it is spent when the key is taken and
\* given back only by a gap.
Keys(n) == IF n \in seen THEN 1 ELSE 0

KeyBooks ==
    /\ claimed \in [Names -> Nat] /\ made \in [Names -> Nat] /\ gaps \in [Names -> Nat]
    /\ \A n \in Names : made[n] + claimed[n] <= Keys(n) + gaps[n]

keyVars == <<seen, claimed, made, gaps>>

LEMMA InitBooks == Init => KeyBooks
BY DEF Init, KeyBooks, Keys

\* Only three kinds of step touch what KeyBooks is about.
LEMMA Others ==
    ASSUME Next,
           \A n \in Names : ~Expire(n) /\ ~Notice(n) /\ ~AddTask(n)
    PROVE  UNCHANGED keyVars
<1>1. CASE \E n \in Names : Upload(n) \/ Repeat(n)
  BY <1>1 DEF Upload, Repeat, keyVars
<1>2. CASE \E n \in Names, r \in Runs : Start(n, r)
  BY <1>2 DEF Start, noticeVars, keyVars
<1>3. CASE \E r \in Runs : Serve(r)
  BY <1>3 DEF Serve, Unreadable, ReadImage, Launch, Collect, Notify, noticeVars, keyVars
<1>4. CASE \E r \in Runs : Deadline(r) \/ \E s \in Sizes : Worker(r, s)
  BY <1>4 DEF Deadline, Worker, noticeVars, keyVars
<1>5. CASE Crash
  BY <1>5 DEF Crash, noticeVars, keyVars
<1> QED BY <1>1, <1>2, <1>3, <1>4, <1>5 DEF Next

LEMMA NextBooks ==
    ASSUME KeyBooks, [Next]_vars
    PROVE  KeyBooks'
<1>1. ASSUME NEW n \in Names, Expire(n) PROVE KeyBooks'
  BY <1>1 DEF Expire, KeyBooks, Keys
<1>2. ASSUME NEW n \in Names, Notice(n) PROVE KeyBooks'
  <2>1. UNCHANGED made
    BY <1>2 DEF Notice
  <2>2. CASE AddKey(n)
    BY <2>1, <2>2 DEF AddKey, KeyBooks, Keys
  <2>3. CASE KeyExists(n)
    BY <2>1, <2>3 DEF KeyExists, KeyBooks, Keys
  <2>4. CASE MemcacheDown(n)
    BY <2>1, <2>4 DEF MemcacheDown, KeyBooks, Keys
  <2> QED BY <1>2, <2>2, <2>3, <2>4 DEF Notice
<1>3. ASSUME NEW n \in Names, AddTask(n) PROVE KeyBooks'
  <2>1. /\ claimed[n] > 0 /\ claimed' = [claimed EXCEPT ![n] = @ - 1]
        /\ UNCHANGED <<seen, gaps>>
    BY <1>3 DEF AddTask
  <2>2. CASE TaskAdded(n)
    BY <2>1, <2>2 DEF TaskAdded, KeyBooks, Keys
  <2>3. CASE TaskRefused(n)
    BY <2>1, <2>3 DEF TaskRefused, KeyBooks, Keys
  <2> QED BY <1>3, <2>2, <2>3 DEF AddTask
<1>4. CASE UNCHANGED keyVars
  BY <1>4 DEF keyVars, KeyBooks, Keys
<1>5. CASE UNCHANGED vars
  BY <1>4, <1>5 DEF vars, keyVars
<1> QED BY <1>1, <1>2, <1>3, <1>4, <1>5, Others

\* Whatever notifications are repeated and however handlers interleave, a name
\* gets no more tasks than memcache had gaps, plus one (notice.go:39-62).
THEOREM KeyedOncePerGap == Spec => []KeyedOnce
<1>1. KeyBooks => KeyedOnce
  BY DEF KeyBooks, Keys, KeyedOnce
<1> QED BY <1>1, InitBooks, NextBooks, PTL DEF Spec

-----------------------------------------------------------------------------
(* What is reported is complete.                                           *)

Done(run) == {s \in Sizes : run.work[s] = "done"}

RunSet == [pc : {"idle", "read", "loop", "collect", "notify", "over"},
           name : Names \union {None}, tries : 0..RetryLimit \union {None},
           launched : Seq(Sizes), work : Workers, errc : Seq({"nil", "err"}),
           got : Nat]

\* The channel and the count account for every goroutine that ended; as long as
\* no error is in the channel, each of them has written its object.
Steady(run, objs) ==
    /\ IF run.pc = "idle" THEN run = Resting ELSE run.name \in Names
    /\ run.pc # "over" => Len(run.errc) + run.got = Cardinality(Done(run))
    /\ run.pc = "notify" => run.got = Cardinality(Sizes)
    /\ run.pc # "over" /\ (\A i \in 1..Len(run.errc) : run.errc[i] = "nil") =>
          \A s \in Done(run) : objs[<<Stem(run.name), s>>] # None

ObjectSet == [Targets -> {None, "listed", "other"}]

RunBooks ==
    /\ objects \in ObjectSet
    /\ runs \in [Runs -> RunSet]
    /\ \A r \in Runs : Steady(runs[r], objects)
    /\ reported \subseteq Names
    /\ ReportedComplete

LEMMA RestingSteady ==
    /\ Resting \in RunSet
    /\ \A objs : Steady(Resting, objs)
<1>1. Done(Resting) = {}
  BY DEF Done, Resting
<1>2. Resting \in RunSet
  BY DEF Resting, RunSet, Workers
<1>3. Resting.pc = "idle" /\ Resting.errc = <<>> /\ Resting.got = 0
  BY DEF Resting
<1>4. Len(Resting.errc) + Resting.got = Cardinality(Done(Resting))
  BY <1>1, <1>3, FS_EmptySet
<1> QED BY <1>1, <1>2, <1>3, <1>4 DEF Steady

LEMMA InitRunBooks == Init => RunBooks
BY RestingSteady DEF Init, RunBooks, ObjectSet, ReportedComplete

\* An object, once written, stays.
LEMMA ObjectsStay ==
    ASSUME RunBooks, NEW objs \in ObjectSet, NEW run \in RunSet,
           \A t \in Targets : objects[t] # None => objs[t] # None,
           Steady(run, objects)
    PROVE  Steady(run, objs)
<1>1. CASE run.pc = "idle"
  BY <1>1, RestingSteady DEF Steady
<1>2. CASE run.pc # "idle"
  <2>1. \A s \in Done(run) : <<Stem(run.name), s>> \in Targets
    BY <1>2 DEF Steady, Done, Targets
  <2> QED BY <1>2, <2>1 DEF Steady
<1> QED BY <1>1, <1>2

LEMMA OneRun ==
    ASSUME RunBooks, NEW r \in Runs, NEW run \in RunSet, Steady(run, objects),
           runs' = [runs EXCEPT ![r] = run], UNCHANGED <<objects, reported>>
    PROVE  RunBooks'
BY DEF RunBooks, ReportedComplete

LEMMA Settled ==
    ASSUME NEW run \in RunSet, run.pc = "over", run.name \in Names
    PROVE  Settle(run) \in RunSet /\ \A objs : Steady(Settle(run), objs)
<1>1. \A objs : Steady(run, objs)
  BY DEF Steady
<1> QED BY <1>1, RestingSteady DEF Settle

LEMMA Answered ==
    ASSUME RunBooks, NEW r \in Runs, runs[r].pc # "idle", Answer500(r),
           UNCHANGED <<objects, reported>>
    PROVE  RunBooks'
<1> DEFINE over == [runs[r] EXCEPT !.pc = "over", !.tries = None]
<1>1. over \in RunSet /\ over.pc = "over" /\ over.name = runs[r].name
  BY DEF RunBooks, RunSet
<1>2. over.name \in Names
  BY <1>1 DEF RunBooks, Steady
<1>3. runs' = [runs EXCEPT ![r] = Settle(over)]
  BY DEF Answer500
<1> HIDE DEF over
<1> QED BY <1>1, <1>2, <1>3, Settled, OneRun

LEMMA Started ==
    ASSUME RunBooks, NEW n \in Names, NEW r \in Runs, Start(n, r)
    PROVE  RunBooks'
<1>1. PICK k \in 0..RetryLimit :
        runs' = [runs EXCEPT ![r].pc = "read", ![r].name = n, ![r].tries = k]
  BY DEF Start
<1> DEFINE run == [runs[r] EXCEPT !.pc = "read", !.name = n, !.tries = k]
<1>2. runs[r] = Resting /\ runs[r] \in RunSet
  BY DEF Start, RunBooks
<1>3. run \in RunSet /\ run.work = Resting.work /\ run.errc = Resting.errc
      /\ run.got = Resting.got /\ run.pc = "read" /\ run.name = n
  BY <1>2 DEF RunSet
<1>4. Done(run) = {}
  BY <1>3 DEF Done, Resting
<1>5. runs' = [runs EXCEPT ![r] = run] /\ UNCHANGED <<objects, reported>>
  BY <1>1 DEF Start, outVars
<1> HIDE DEF run
<1>6. Resting.errc = <<>> /\ Resting.got = 0
  BY DEF Resting
<1>7. Len(run.errc) + run.got = Cardinality(Done(run))
  BY <1>3, <1>4, <1>6, FS_EmptySet
<1>8. Steady(run, objects)
  BY <1>3, <1>4, <1>7 DEF Steady
<1> QED BY <1>3, <1>5, <1>8, OneRun

LEMMA Abandoned ==
    ASSUME RunBooks, NEW r \in Runs, Deadline(r)
    PROVE  RunBooks'
<1> DEFINE run == [runs[r] EXCEPT !.tries = None]
<1>1. runs[r] \in RunSet /\ runs[r].tries # None /\ Steady(runs[r], objects)
  BY DEF Deadline, RunBooks
<1>2. runs[r].pc # "idle"
  BY <1>1 DEF Steady, Resting
<1>3. run \in RunSet /\ run.pc = runs[r].pc /\ run.name = runs[r].name
      /\ run.work = runs[r].work /\ run.errc = runs[r].errc /\ run.got = runs[r].got
  BY <1>1 DEF RunSet
<1>4. Done(run) = Done(runs[r])
  BY <1>3 DEF Done
<1>5. Steady(run, objects)
  BY <1>1, <1>2, <1>3, <1>4 DEF Steady
<1>6. runs' = [runs EXCEPT ![r] = run] /\ UNCHANGED <<objects, reported>>
  BY DEF Deadline, outVars
<1> QED BY <1>3, <1>5, <1>6, OneRun

LEMMA Read ==
    ASSUME RunBooks, NEW r \in Runs, ReadImage(r)
    PROVE  RunBooks'
<1> DEFINE run == [runs[r] EXCEPT !.pc = "loop"]
<1>1. runs[r] \in RunSet /\ runs[r].pc = "read" /\ Steady(runs[r], objects)
  BY DEF ReadImage, RunBooks
<1>2. run \in RunSet /\ run.pc = "loop" /\ run.name = runs[r].name
      /\ run.work = runs[r].work /\ run.errc = runs[r].errc /\ run.got = runs[r].got
  BY <1>1 DEF RunSet
<1>3. Done(run) = Done(runs[r])
  BY <1>2 DEF Done
<1>4. Steady(run, objects)
  BY <1>1, <1>2, <1>3 DEF Steady
<1>5. runs' = [runs EXCEPT ![r] = run] /\ UNCHANGED <<objects, reported>>
  BY DEF ReadImage, outVars
<1> QED BY <1>2, <1>4, <1>5, OneRun

LEMMA Launched ==
    ASSUME RunBooks, NEW r \in Runs, Launch(r)
    PROVE  RunBooks'
<1>1. PICK z \in Fresh(runs[r]) : runs' = [runs EXCEPT ![r] = Iterated(runs[r], z)]
  BY DEF Launch
<1> DEFINE next == IF Fresh(runs[r]) = {z} THEN "collect" ELSE "loop"
           run == Iterated(runs[r], z)
<1>2. runs[r] \in RunSet /\ runs[r].pc = "loop" /\ Steady(runs[r], objects)
  BY DEF Launch, RunBooks
<1>3. z \in Sizes /\ runs[r].work[z] = "none" /\ next \in {"collect", "loop"}
  BY DEF Fresh
<1>4. run = [runs[r] EXCEPT !.launched = Append(runs[r].launched, z),
                            !.work = [runs[r].work EXCEPT ![z] = "run"],
                            !.pc = next]
  BY <1>2 DEF RunSet, Iterated
<1> HIDE DEF next
<1>5. /\ [runs[r].work EXCEPT ![z] = "run"] \in Workers
      /\ Append(runs[r].launched, z) \in Seq(Sizes)
  BY <1>2, <1>3 DEF RunSet, Workers
<1>6. /\ run \in RunSet /\ run.pc = next /\ run.name = runs[r].name
      /\ run.work = [runs[r].work EXCEPT ![z] = "run"]
      /\ run.errc = runs[r].errc /\ run.got = runs[r].got
  BY <1>2, <1>3, <1>4, <1>5 DEF RunSet
<1>7. Done(run) = Done(runs[r])
  BY <1>2, <1>3, <1>6 DEF Done, RunSet, Workers
<1>8. runs' = [runs EXCEPT ![r] = run] /\ UNCHANGED <<objects, reported>>
  BY <1>1 DEF Launch, outVars
<1> HIDE DEF run
<1>9. Steady(run, objects)
  BY <1>2, <1>3, <1>6, <1>7 DEF Steady
<1> QED BY <1>6, <1>8, <1>9, OneRun

\* A goroutine ends: its result is in the channel, and if it is nil its object
\* is in the bucket.
LEMMA Sent ==
    ASSUME RunBooks, NEW r \in Runs, NEW z \in Running(runs[r]),
           NEW e \in {"nil", "err"}, Send(r, z, e), UNCHANGED reported,
           objects' \in ObjectSet,
           \A t \in Targets : objects[t] # None => objects'[t] # None,
           e = "nil" => objects'[<<Stem(runs[r].name), z>>] # None
    PROVE  RunBooks'
<1> DEFINE run == Ended(runs[r], z, e)
<1>1. runs[r] \in RunSet /\ Steady(runs[r], objects) /\ Steady(runs[r], objects')
  BY ObjectsStay DEF RunBooks
<1>2. z \in Sizes /\ runs[r].work[z] = "run" /\ runs[r].pc # "idle"
  BY <1>1 DEF Running, Steady, Resting
<1>3. run = [runs[r] EXCEPT !.work = [runs[r].work EXCEPT ![z] = "done"],
                            !.errc = Append(runs[r].errc, e)]
  BY <1>1 DEF RunSet, Ended
<1>4. /\ [runs[r].work EXCEPT ![z] = "done"] \in Workers
      /\ Append(runs[r].errc, e) \in Seq({"nil", "err"})
  BY <1>1, <1>2 DEF RunSet, Workers
<1>5. /\ run \in RunSet /\ run.pc = runs[r].pc /\ run.name = runs[r].name
      /\ run.work = [runs[r].work EXCEPT ![z] = "done"]
      /\ run.errc = Append(runs[r].errc, e) /\ run.got = runs[r].got
  BY <1>1, <1>2, <1>3, <1>4 DEF RunSet
<1>6. Done(run) = Done(runs[r]) \union {z} /\ z \notin Done(runs[r])
  BY <1>1, <1>2, <1>5 DEF Done, RunSet, Workers
<1>7. /\ Cardinality(Done(run)) = Cardinality(Done(runs[r])) + 1
      /\ Cardinality(Done(runs[r])) \in Nat
  <2>1. IsFiniteSet(Done(runs[r]))
    BY LimitsAssumption, FS_Subset DEF Done
  <2> QED BY <1>6, <2>1, FS_AddElement, FS_CardinalityType
<1>8. /\ run.errc[Len(runs[r].errc) + 1] = e
      /\ \A i \in 1..Len(runs[r].errc) : run.errc[i] = runs[r].errc[i]
  BY <1>1, <1>5 DEF RunSet
<1>9. /\ Len(run.errc) = Len(runs[r].errc) + 1
      /\ Len(runs[r].errc) \in Nat /\ runs[r].got \in Nat
  BY <1>1, <1>5 DEF RunSet
<1>10. runs' = [runs EXCEPT ![r] = Settle(run)]
  BY DEF Send
<1> HIDE DEF run
<1>11. runs[r].pc # "notify"
  <2>1. SUFFICES ASSUME runs[r].pc = "notify" PROVE FALSE
    OBVIOUS
  <2>2. Cardinality(Done(runs[r])) >= Cardinality(Sizes)
    BY <1>1, <1>9, <2>1, FS_CardinalityType, LimitsAssumption DEF Steady
  <2>3. Done(runs[r]) \subseteq Sizes /\ Done(runs[r]) # Sizes
    BY <1>2, <1>6 DEF Done
  <2> QED BY <2>2, <2>3, FS_Subset, FS_CardinalityType, LimitsAssumption
<1>12. Steady(run, objects')
  <2>1. run.name \in Names /\ run.pc # "idle"
    BY <1>1, <1>2, <1>5 DEF Steady
  <2>2. run.pc # "over" => Len(run.errc) + run.got = Cardinality(Done(run))
    <3>1. run.pc # "over" => Len(runs[r].errc) + runs[r].got
                               = Cardinality(Done(runs[r]))
      BY <1>1, <1>5 DEF Steady
    <3>2. run.pc = runs[r].pc /\ run.got = runs[r].got
      BY <1>5
    <3> QED BY <3>1, <3>2, <1>7, <1>9
  <2>3. ASSUME run.pc # "over", \A i \in 1..Len(run.errc) : run.errc[i] = "nil"
        PROVE  \A s \in Done(run) : objects'[<<Stem(run.name), s>>] # None
    <3>1. e = "nil" /\ \A i \in 1..Len(runs[r].errc) : runs[r].errc[i] = "nil"
      BY <2>3, <1>8, <1>9
    <3>2. \A s \in Done(runs[r]) : objects'[<<Stem(runs[r].name), s>>] # None
      BY <1>1, <1>5, <2>3, <3>1 DEF Steady
    <3> QED BY <3>1, <3>2, <1>5, <1>6
  <2> QED BY <2>1, <2>2, <2>3, <1>5, <1>11 DEF Steady
<1>13. Settle(run) \in RunSet /\ Steady(Settle(run), objects')
  BY <1>5, <1>12, RestingSteady DEF Settle
<1>14. \A q \in Runs : Steady(runs[q], objects')
  BY ObjectsStay DEF RunBooks
<1> HIDE DEF run
<1>15. ReportedComplete'
  BY DEF RunBooks, ReportedComplete, Targets
<1> QED BY <1>10, <1>13, <1>14, <1>15 DEF RunBooks

LEMMA Worked ==
    ASSUME RunBooks, NEW r \in Runs, NEW z \in Sizes, Worker(r, z)
    PROVE  RunBooks'
<1>1. UNCHANGED reported
  BY DEF Worker, outVars
<1>2. CASE Resize(r, z)
  <2>1. PICK x, y \in Seen(runs[r], z) :
          objects' = [objects EXCEPT ![<<Stem(runs[r].name), z>>] =
                         IF <<x, y>> = <<z, z>> THEN "listed" ELSE "other"]
    BY <1>2 DEF Resize
  <2> DEFINE new == IF <<x, y>> = <<z, z>> THEN "listed" ELSE "other"
  <2>2. new \in {"listed", "other"}
    OBVIOUS
  <2>3. z \in Running(runs[r]) /\ Send(r, z, "nil")
    BY <1>2 DEF Resize
  <2>4. runs[r].name \in Names
    BY <2>3 DEF RunBooks, Steady, Running, Resting
  <2>5. <<Stem(runs[r].name), z>> \in Targets
    BY <2>4 DEF Targets
  <2> HIDE DEF new
  <2>6. objects' = [objects EXCEPT ![<<Stem(runs[r].name), z>>] = new]
    BY <2>1 DEF new
  <2>7. /\ objects' \in ObjectSet /\ objects'[<<Stem(runs[r].name), z>>] # None
        /\ \A t \in Targets : objects[t] # None => objects'[t] # None
    BY <2>2, <2>5, <2>6, NoneAssumption DEF RunBooks, ObjectSet
  <2> QED BY <1>1, <2>3, <2>7, Sent
<1>3. CASE ResizeFails(r, z)
  BY <1>1, <1>3, Sent DEF ResizeFails, RunBooks
<1> QED BY <1>2, <1>3 DEF Worker

\* A result received: if it is nil, one less in the channel and one more counted.
LEMMA Collected ==
    ASSUME RunBooks, NEW r \in Runs, Collect(r)
    PROVE  RunBooks'
<1>1. UNCHANGED <<objects, reported>> /\ runs[r].pc = "collect" /\ runs[r].errc # <<>>
  BY DEF Collect, outVars
<1>2. runs[r] \in RunSet /\ Steady(runs[r], objects)
  BY DEF RunBooks
<1>3. CASE CollectErr(r)
  BY <1>1, <1>3, Answered DEF CollectErr
<1>4. CASE CollectNil(r)
  <2> DEFINE next == IF runs[r].got + 1 = Cardinality(Sizes) THEN "notify" ELSE "collect"
             run == [runs[r] EXCEPT !.errc = Tail(@), !.got = @ + 1, !.pc = next]
  <2>1. Head(runs[r].errc) = "nil" /\ runs' = [runs EXCEPT ![r] = run]
    BY <1>4 DEF CollectNil
  <2>2. Tail(runs[r].errc) \in Seq({"nil", "err"}) /\ runs[r].got + 1 \in Nat
        /\ next \in {"notify", "collect"}
    BY <1>1, <1>2 DEF RunSet
  <2>3. next = "notify" => runs[r].got + 1 = Cardinality(Sizes)
    OBVIOUS
  <2> HIDE DEF next
  <2>4. /\ run \in RunSet /\ run.pc = next /\ run.name = runs[r].name
        /\ run.work = runs[r].work /\ run.errc = Tail(runs[r].errc)
        /\ run.got = runs[r].got + 1
    BY <1>2, <2>2 DEF RunSet
  <2> HIDE DEF run
  <2>5. Done(run) = Done(runs[r])
    BY <2>4 DEF Done
  <2>6. /\ Len(run.errc) = Len(runs[r].errc) - 1
        /\ Len(runs[r].errc) \in Nat /\ runs[r].got \in Nat
    BY <1>1, <1>2, <2>4 DEF RunSet
  <2>7. Len(runs[r].errc) \in Nat /\ runs[r].got \in Nat
    BY <1>2 DEF RunSet
  <2>8. /\ runs[r].errc[1] = "nil"
        /\ \A i \in 1..Len(runs[r].errc) : i > 1 =>
              i - 1 \in 1..(Len(runs[r].errc) - 1) /\ runs[r].errc[i] = run.errc[i - 1]
    BY <1>1, <1>2, <2>1, <2>4 DEF RunSet
  <2>9. run.name \in Names
    BY <1>1, <1>2, <2>4 DEF Steady
  <2>10. Len(run.errc) + run.got = Cardinality(Done(run))
    <3>1. Len(runs[r].errc) + runs[r].got = Cardinality(Done(runs[r]))
      BY <1>1, <1>2 DEF Steady
    <3>2. run.got = runs[r].got + 1
      BY <2>4
    <3>3. Cardinality(Done(runs[r])) \in Nat
      BY LimitsAssumption, FS_Subset, FS_CardinalityType DEF Done
    <3>4. \A a, b \in Nat : (a - 1) + (b + 1) = a + b
      OBVIOUS
    <3>5. (Len(runs[r].errc) - 1) + (runs[r].got + 1) = Cardinality(Done(runs[r]))
      BY <3>1, <3>4, <2>7
    <3> QED BY <3>2, <3>5, <2>5, <2>6
  <2>11. ASSUME \A i \in 1..Len(run.errc) : run.errc[i] = "nil"
         PROVE  \A s \in Done(run) : objects[<<Stem(run.name), s>>] # None
    <3>1. \A i \in 1..Len(runs[r].errc) : runs[r].errc[i] = "nil"
      <4> SUFFICES ASSUME NEW i \in 1..Len(runs[r].errc) PROVE runs[r].errc[i] = "nil"
        OBVIOUS
      <4>1. CASE i = 1
        BY <2>8, <4>1
      <4>2. CASE i # 1
        <5>1. i > 1 /\ i - 1 \in 1..Len(run.errc)
          BY <2>6, <2>7, <4>2
        <5> QED BY <2>8, <2>11, <5>1
      <4> QED BY <4>1, <4>2
    <3>2. \A s \in Done(runs[r]) : objects[<<Stem(runs[r].name), s>>] # None
      BY <1>1, <1>2, <3>1 DEF Steady
    <3> QED BY <3>2, <2>4, <2>5
  <2>12. Steady(run, objects)
    BY <2>2, <2>3, <2>4, <2>9, <2>10, <2>11 DEF Steady
  <2> QED BY <1>1, <2>1, <2>4, <2>12, OneRun
<1> QED BY <1>3, <1>4 DEF Collect

\* Where notifyDone is called every result has been received and was nil.
LEMMA AllWritten ==
    ASSUME RunBooks, NEW r \in Runs, runs[r].pc = "notify"
    PROVE  /\ runs[r].name \in Names
           /\ \A s \in Sizes : objects[<<Stem(runs[r].name), s>>] # None
<1>1. runs[r] \in RunSet /\ Steady(runs[r], objects)
  BY DEF RunBooks
<1>2. Len(runs[r].errc) \in Nat /\ runs[r].got \in Nat
  BY <1>1 DEF RunSet
<1>3. Done(runs[r]) \in SUBSET Sizes
  BY DEF Done
<1>4. /\ Cardinality(Sizes) \in Nat /\ Cardinality(Done(runs[r])) <= Cardinality(Sizes)
      /\ Cardinality(Done(runs[r])) \in Nat
      /\ Cardinality(Sizes) = Cardinality(Done(runs[r])) => Sizes = Done(runs[r])
  BY <1>3, FS_Subset, FS_CardinalityType, LimitsAssumption
<1>5. Len(runs[r].errc) + Cardinality(Sizes) = Cardinality(Done(runs[r]))
  BY <1>1 DEF Steady
<1>6. Len(runs[r].errc) = 0 /\ Sizes = Done(runs[r])
  BY <1>2, <1>4, <1>5
<1> QED BY <1>1, <1>6 DEF Steady

LEMMA Notified ==
    ASSUME RunBooks, NEW r \in Runs, Notify(r)
    PROVE  RunBooks'
<1>1. runs[r].pc = "notify" /\ UNCHANGED objects
  BY DEF Notify
<1>2. reported' \in {reported, reported \union {runs[r].name}}
  BY DEF Notify, PostPhoto, outVars
<1>3. reported' \subseteq Names /\ ReportedComplete'
  BY <1>1, <1>2, AllWritten DEF RunBooks, ReportedComplete
<1>4. PICK run \in RunSet : Steady(run, objects) /\ runs' = [runs EXCEPT ![r] = run]
  <2>1. CASE Answer500(r)
    <3> DEFINE over == [runs[r] EXCEPT !.pc = "over", !.tries = None]
    <3>1. over \in RunSet /\ over.pc = "over" /\ over.name = runs[r].name
      BY DEF RunBooks, RunSet
    <3>2. runs' = [runs EXCEPT ![r] = Settle(over)]
      BY <2>1 DEF Answer500
    <3> HIDE DEF over
    <3> QED BY <1>1, <3>1, <3>2, AllWritten, Settled
  <2>2. CASE runs' = [runs EXCEPT ![r] = Resting]
    BY <2>2, RestingSteady
  <2> QED BY <2>1, <2>2 DEF Notify
<1> QED BY <1>1, <1>3, <1>4 DEF RunBooks

LEMMA NextRunBooks ==
    ASSUME RunBooks, [Next]_vars
    PROVE  RunBooks'
<1>1. CASE UNCHANGED <<runs, objects, reported>>
  BY <1>1 DEF RunBooks, ReportedComplete
<1>2. ASSUME NEW n \in Names,
             Upload(n) \/ Repeat(n) \/ Expire(n) \/ Notice(n) \/ AddTask(n)
      PROVE  RunBooks'
  BY <1>1, <1>2 DEF Upload, Repeat, Expire, Notice, AddTask, outVars
<1>3. ASSUME NEW r \in Runs, Serve(r) PROVE RunBooks'
  <2>1. CASE Unreadable(r)
    BY <2>1, Answered DEF Unreadable, outVars
  <2> QED BY <1>3, <2>1, Read, Launched, Collected, Notified DEF Serve
<1>4. CASE Crash
  <2>1. runs' = [r \in Runs |-> Resting] /\ UNCHANGED <<objects, reported>>
    BY <1>4 DEF Crash, outVars
  <2> QED BY <2>1, RestingSteady DEF RunBooks, ReportedComplete
<1>5. CASE UNCHANGED vars
  BY <1>1, <1>5 DEF vars
<1> QED BY <1>2, <1>3, <1>4, <1>5, Started, Abandoned, Worked DEF Next

\* The image server reports a name only when every size has its object, for any
\* sizes, any number of calls at once and any failures (imagemagick.go:92-99,
\* 139-175).
THEOREM ReportedOnlyComplete == Spec => []ReportedComplete
<1>1. RunBooks => ReportedComplete
  BY DEF RunBooks
<1> QED BY <1>1, InitRunBooks, NextRunBooks, PTL DEF Spec

-----------------------------------------------------------------------------
(* The types: nothing is known of a name that was not uploaded, and neither *)
(* the channel nor the count outgrows the number of sizes.                  *)

\* A run launches each size once and counts no more results than sizes.
Within(run) ==
    /\ Len(run.launched) + Cardinality(Fresh(run)) = Cardinality(Sizes)
    /\ Len(run.errc) <= ErrcCap
    /\ run.got <= ErrcCap

Waiting(n) == due[n] > 0 \/ claimed[n] > 0 \/ \E k \in 0..RetryLimit : tasks[n][k] > 0

Uploads ==
    /\ uploaded \subseteq Names /\ seen \subseteq uploaded
    /\ reported \subseteq uploaded /\ queued \subseteq reported
    /\ dropped \subseteq uploaded
    /\ due \in [Names -> Nat]
    /\ tasks \in [Names -> [0..RetryLimit -> Nat]]
    /\ \A n \in Names : Waiting(n) => n \in uploaded
    /\ \A r \in Runs : runs[r].pc # "idle" => runs[r].name \in uploaded

Limited == \A r \in Runs : Within(runs[r])

PipelineInv == KeyBooks /\ RunBooks /\ Uploads /\ Limited

LEMMA RestingWithin == Within(Resting)
<1>1. Fresh(Resting) = Sizes
  BY DEF Fresh, Resting
<1>2. Resting.launched = <<>> /\ Resting.errc = <<>> /\ Resting.got = 0
  BY DEF Resting
<1> QED BY <1>1, <1>2, FS_CardinalityType, LimitsAssumption DEF Within, ErrcCap

\* The answer of a failed run, if the queue still waits for it, is one more task
\* of an uploaded name, or gives that name up.
LEMMA FailedTask ==
    ASSUME PipelineInv, NEW r \in Runs, runs[r].pc # "idle", TaskFailed(r)
    PROVE  /\ tasks' \in [Names -> [0..RetryLimit -> Nat]]
           /\ dropped' \subseteq uploaded
           /\ \A n \in Names, k \in 0..RetryLimit :
                 tasks'[n][k] > 0 => n \in uploaded
<1> DEFINE n == runs[r].name
           k == runs[r].tries
<1>1. n \in uploaded /\ n \in Names /\ k \in 0..RetryLimit \union {None}
  BY DEF PipelineInv, Uploads, RunBooks, RunSet
<1>2. dropped' \in {dropped, dropped \union {n}}
  BY DEF TaskFailed
<1>3. \/ tasks' = tasks
      \/ k + 1 \in 0..RetryLimit /\ tasks' = [tasks EXCEPT ![n][k + 1] = @ + 1]
  BY <1>1, LimitsAssumption DEF TaskFailed
<1> HIDE DEF n, k
<1>4. /\ tasks \in [Names -> [0..RetryLimit -> Nat]]
      /\ \A m \in Names, j \in 0..RetryLimit : tasks[m][j] > 0 => m \in uploaded
  BY DEF PipelineInv, Uploads, Waiting
<1>5. dropped' \subseteq uploaded
  BY <1>1, <1>2 DEF PipelineInv, Uploads
<1>6. CASE tasks' = tasks
  BY <1>4, <1>5, <1>6
<1>7. CASE k + 1 \in 0..RetryLimit /\ tasks' = [tasks EXCEPT ![n][k + 1] = @ + 1]
  <2>1. PICK j \in 0..RetryLimit : tasks' = [tasks EXCEPT ![n][j] = @ + 1]
    BY <1>7
  <2>2. tasks[n] \in [0..RetryLimit -> Nat] /\ tasks[n][j] + 1 \in Nat
    <3>1. tasks[n] \in [0..RetryLimit -> Nat]
      BY <1>1, <1>4
    <3>2. tasks[n][j] \in Nat
      BY <2>1, <3>1
    <3> QED BY <3>1, <3>2
  <2>3. tasks' = [tasks EXCEPT ![n] = [tasks[n] EXCEPT ![j] = tasks[n][j] + 1]]
    BY <2>1
  <2>4. [tasks[n] EXCEPT ![j] = tasks[n][j] + 1] \in [0..RetryLimit -> Nat]
    BY <2>2
  <2>5. tasks' \in [Names -> [0..RetryLimit -> Nat]]
    BY <1>1, <1>4, <2>3, <2>4
  <2>6. \A m \in Names \ {n} : tasks'[m] = tasks[m]
    BY <1>1, <1>4, <2>3
  <2>7. \A m \in Names, i \in 0..RetryLimit : tasks'[m][i] > 0 => m \in uploaded
    BY <1>1, <1>4, <2>6
  <2> QED BY <1>5, <2>5, <2>7
<1> QED BY <1>3, <1>6, <1>7


\* Nothing of what is known of uploads changes with the steps of a run alone.
LEMMA UploadsKept ==
    ASSUME PipelineInv, UNCHANGED noticeVars,
           tasks' \in [Names -> [0..RetryLimit -> Nat]],
           \A n \in Names, k \in 0..RetryLimit : tasks'[n][k] > 0 => n \in uploaded,
           dropped' \subseteq uploaded,
           reported' \subseteq uploaded, queued' \subseteq reported',
           \A r \in Runs : runs'[r].pc # "idle" => runs'[r].name \in uploaded
    PROVE  Uploads'
BY DEF PipelineInv, Uploads, Waiting, noticeVars

LEMMA SettledWithin ==
    ASSUME NEW run \in RunSet, Within(run)
    PROVE  Within(Settle(run))
BY RestingWithin DEF Settle

LEMMA AnsweredUploads ==
    ASSUME PipelineInv, NEW r \in Runs, runs[r].pc # "idle", Answer500(r),
           UNCHANGED noticeVars, reported' \subseteq uploaded, queued' \subseteq reported'
    PROVE  Uploads' /\ Limited'
<1> DEFINE over == [runs[r] EXCEPT !.pc = "over", !.tries = None]
<1>1. over \in RunSet /\ over.name = runs[r].name /\ over.launched = runs[r].launched
      /\ over.work = runs[r].work /\ over.errc = runs[r].errc /\ over.got = runs[r].got
  BY DEF PipelineInv, RunBooks, RunSet
<1>2. runs' = [runs EXCEPT ![r] = Settle(over)] /\ TaskFailed(r)
  BY DEF Answer500
<1> HIDE DEF over
<1>3. Within(over)
  BY <1>1 DEF PipelineInv, Limited, Within, Fresh
<1>4. over.name \in uploaded
  BY <1>1 DEF PipelineInv, Uploads
<1>5. Settle(over).pc # "idle" => Settle(over).name \in uploaded
  BY <1>4 DEF Settle, Resting
<1>6. \A q \in Runs : runs'[q] = IF q = r THEN Settle(over) ELSE runs[q]
  BY <1>2 DEF PipelineInv, RunBooks
<1>7. Limited'
  <2>1. \A q \in Runs : Within(runs'[q])
    BY <1>1, <1>3, <1>6, SettledWithin DEF PipelineInv, Limited
  <2> QED BY <2>1 DEF Limited, Within, Fresh
<1>8. \A q \in Runs : runs'[q].pc # "idle" => runs'[q].name \in uploaded
  BY <1>5, <1>6 DEF PipelineInv, Uploads
<1> QED BY <1>2, <1>7, <1>8, FailedTask, UploadsKept

\* A step of one run that leaves the queue alone.
LEMMA RunUploads ==
    ASSUME PipelineInv, NEW r \in Runs, NEW run,
           runs' = [runs EXCEPT ![r] = run], Within(run),
           run.pc # "idle" => run.name \in uploaded,
           UNCHANGED <<noticeVars, tasks, dropped>>,
           reported' \subseteq uploaded, queued' \subseteq reported'
    PROVE  Uploads' /\ Limited'
<1>1. \A q \in Runs : runs'[q] = IF q = r THEN run ELSE runs[q]
  BY DEF PipelineInv, RunBooks
<1>2. Limited'
  BY <1>1 DEF PipelineInv, Limited, Within, Fresh
<1>3. \A q \in Runs : runs'[q].pc # "idle" => runs'[q].name \in uploaded
  BY <1>1 DEF PipelineInv, Uploads
<1> QED BY <1>2, <1>3, UploadsKept DEF PipelineInv, Uploads, Waiting


LEMMA NoticeUploads ==
    ASSUME PipelineInv, NEW n \in Names,
           Upload(n) \/ Repeat(n) \/ Expire(n) \/ Notice(n) \/ AddTask(n)
    PROVE  Uploads' /\ Limited'
<1>1. UNCHANGED <<runs, reported, queued>> /\ Limited'
  BY DEF Upload, Repeat, Expire, Notice, AddTask, outVars, PipelineInv, Limited, Within, Fresh
<1>2. n \in Names /\ due[n] \in Nat /\ claimed[n] \in Nat
  BY DEF PipelineInv, Uploads, KeyBooks
<1>3. CASE Upload(n) \/ Repeat(n)
  BY <1>1, <1>2, <1>3 DEF Upload, Repeat, PipelineInv, Uploads, Waiting
<1>4. CASE Expire(n)
  BY <1>1, <1>4 DEF Expire, PipelineInv, Uploads, Waiting
<1>5. CASE Notice(n)
  <2>1. n \in uploaded /\ due' \in [Names -> Nat] /\ UNCHANGED <<uploaded, tasks, dropped>>
        /\ \A m \in Names \ {n} : due'[m] = due[m]
    BY <1>2, <1>5 DEF Notice, PipelineInv, Uploads, Waiting
  <2>2. seen' \subseteq uploaded /\ \A m \in Names \ {n} : claimed'[m] = claimed[m]
    BY <1>5, <2>1 DEF Notice, AddKey, KeyExists, MemcacheDown, PipelineInv, Uploads, KeyBooks
  <2> QED BY <1>1, <2>1, <2>2 DEF PipelineInv, Uploads, Waiting
<1>6. CASE AddTask(n)
  <2>1. n \in uploaded /\ UNCHANGED <<uploaded, seen>>
        /\ \A m \in Names \ {n} : claimed'[m] = claimed[m]
    BY <1>2, <1>6 DEF AddTask, PipelineInv, Uploads, KeyBooks, Waiting
  <2>2. /\ due' \in [Names -> Nat] /\ dropped' \subseteq uploaded
        /\ \A m \in Names \ {n} : due'[m] = due[m]
    BY <1>2, <1>6, <2>1 DEF AddTask, TaskAdded, TaskRefused, PipelineInv, Uploads
  <2>3. /\ tasks' \in [Names -> [0..RetryLimit -> Nat]]
        /\ \A m \in Names \ {n} : tasks'[m] = tasks[m]
    <3>1. CASE TaskRefused(n)
      BY <3>1 DEF TaskRefused, PipelineInv, Uploads
    <3>2. CASE TaskAdded(n)
      <4>1. tasks[n] \in [0..RetryLimit -> Nat] /\ 0 \in 0..RetryLimit
        BY LimitsAssumption DEF PipelineInv, Uploads
      <4>2. tasks[n][0] + 1 \in Nat
        <5>1. tasks[n][0] \in Nat
          BY <4>1
        <5> QED BY <5>1
      <4>3. tasks' = [tasks EXCEPT ![n] = [tasks[n] EXCEPT ![0] = tasks[n][0] + 1]]
        BY <3>2 DEF TaskAdded
      <4>4. [tasks[n] EXCEPT ![0] = tasks[n][0] + 1] \in [0..RetryLimit -> Nat]
        BY <4>1, <4>2
      <4> QED BY <4>3, <4>4 DEF PipelineInv, Uploads
    <3> QED BY <1>6, <3>1, <3>2 DEF AddTask
  <2> QED BY <1>1, <2>1, <2>2, <2>3 DEF PipelineInv, Uploads, Waiting
<1> QED BY <1>3, <1>4, <1>5, <1>6

LEMMA StartUploads ==
    ASSUME PipelineInv, NEW n \in Names, NEW r \in Runs, Start(n, r)
    PROVE  Uploads' /\ Limited'
<1>1. PICK k \in 0..RetryLimit :
        /\ tasks[n][k] > 0
        /\ tasks' = [tasks EXCEPT ![n][k] = @ - 1]
        /\ runs' = [runs EXCEPT ![r].pc = "read", ![r].name = n, ![r].tries = k]
  BY DEF Start
<1> DEFINE run == [runs[r] EXCEPT !.pc = "read", !.name = n, !.tries = k]
<1>2. runs[r] = Resting /\ runs[r] \in RunSet
  BY DEF Start, PipelineInv, RunBooks
<1>3. /\ run.work = Resting.work /\ run.errc = Resting.errc /\ run.got = Resting.got
      /\ run.launched = Resting.launched /\ run.name = n
  BY <1>2 DEF RunSet
<1>4. n \in uploaded
  BY <1>1 DEF PipelineInv, Uploads, Waiting
<1>5. Within(run)
  BY <1>3, RestingWithin DEF Within, Fresh
<1>6. \A q \in Runs : runs'[q] = IF q = r THEN run ELSE runs[q]
  BY <1>1 DEF PipelineInv, RunBooks
<1> HIDE DEF run
<1>7. Limited'
  BY <1>5, <1>6 DEF PipelineInv, Limited, Within, Fresh
<1>8. \A q \in Runs : runs'[q].pc # "idle" => runs'[q].name \in uploaded
  BY <1>3, <1>4, <1>6 DEF PipelineInv, Uploads
<1>9. tasks' \in [Names -> [0..RetryLimit -> Nat]]
  <2>1. tasks[n] \in [0..RetryLimit -> Nat]
    BY DEF PipelineInv, Uploads
  <2>2. tasks[n][k] - 1 \in Nat
    <3>1. tasks[n][k] \in Nat
      BY <2>1
    <3> QED BY <1>1, <3>1
  <2>3. tasks' = [tasks EXCEPT ![n] = [tasks[n] EXCEPT ![k] = tasks[n][k] - 1]]
    BY <1>1
  <2>4. [tasks[n] EXCEPT ![k] = tasks[n][k] - 1] \in [0..RetryLimit -> Nat]
    BY <2>1, <2>2
  <2> QED BY <2>3, <2>4 DEF PipelineInv, Uploads
<1>10. \A m \in Names, j \in 0..RetryLimit : tasks'[m][j] > 0 => m \in uploaded
  <2>1. \A m \in Names \ {n} : tasks'[m] = tasks[m]
    BY <1>1 DEF PipelineInv, Uploads
  <2> QED BY <1>4, <2>1 DEF PipelineInv, Uploads, Waiting
<1>11. UNCHANGED <<noticeVars, outVars, dropped>>
  BY DEF Start
<1> QED BY <1>7, <1>8, <1>9, <1>10, <1>11, UploadsKept DEF PipelineInv, Uploads, outVars


LEMMA LaunchWithin ==
    ASSUME PipelineInv, NEW r \in Runs, Launch(r)
    PROVE  Uploads' /\ Limited'
<1>1. PICK z \in Fresh(runs[r]) : runs' = [runs EXCEPT ![r] = Iterated(runs[r], z)]
  BY DEF Launch
<1> DEFINE run == Iterated(runs[r], z)
<1>2. runs[r] \in RunSet /\ runs[r].pc # "idle" /\ Within(runs[r])
  BY DEF Launch, PipelineInv, RunBooks, Limited
<1>3. /\ run.name = runs[r].name /\ run.errc = runs[r].errc /\ run.got = runs[r].got
      /\ run.launched = Append(runs[r].launched, z)
      /\ run.work = [runs[r].work EXCEPT ![z] = "run"]
  BY <1>2 DEF RunSet, Iterated
<1>4. Fresh(run) = Fresh(runs[r]) \ {z}
  BY <1>2, <1>3 DEF Fresh, RunSet, Workers
<1> HIDE DEF run
<1>5. IsFiniteSet(Fresh(runs[r])) /\ Cardinality(Fresh(runs[r])) \in Nat
  BY LimitsAssumption, FS_Subset, FS_CardinalityType DEF Fresh
<1>6. Cardinality(Fresh(run)) = Cardinality(Fresh(runs[r])) - 1
  BY <1>4, <1>5, FS_RemoveElement
<1>7. Len(run.launched) = Len(runs[r].launched) + 1 /\ Len(runs[r].launched) \in Nat
  BY <1>2, <1>3 DEF RunSet
<1>8. Len(run.launched) + Cardinality(Fresh(run)) = Cardinality(Sizes)
  BY <1>2, <1>5, <1>6, <1>7 DEF Within
<1>9. Within(run)
  BY <1>2, <1>3, <1>8 DEF Within
<1>10. run.name \in uploaded
  BY <1>2, <1>3 DEF PipelineInv, Uploads
<1>11. runs' = [runs EXCEPT ![r] = run]
  BY <1>1 DEF run
<1>12. UNCHANGED <<noticeVars, tasks, dropped, reported, queued>>
  BY DEF Launch, outVars
<1>13. reported \subseteq uploaded /\ queued \subseteq reported
  BY DEF PipelineInv, Uploads
<1> QED BY <1>9, <1>10, <1>11, <1>12, <1>13, RunUploads

\* A goroutine sends only where the channel has room.
LEMMA WorkerWithin ==
    ASSUME PipelineInv, NEW r \in Runs, NEW z \in Sizes, Worker(r, z)
    PROVE  Uploads' /\ Limited'
<1>1. PICK e \in {"nil", "err"} : Send(r, z, e)
  BY DEF Worker, Resize, ResizeFails
<1>2. z \in Running(runs[r]) /\ runs[r] \in RunSet /\ Within(runs[r])
  BY DEF Worker, Resize, ResizeFails, PipelineInv, RunBooks, Limited
<1> DEFINE run == Ended(runs[r], z, e)
<1>3. /\ run.name = runs[r].name /\ run.got = runs[r].got /\ run.pc = runs[r].pc
      /\ run.launched = runs[r].launched /\ run.errc = Append(runs[r].errc, e)
      /\ run.work = [runs[r].work EXCEPT ![z] = "done"]
  BY <1>2 DEF RunSet, Ended
<1>4. Fresh(run) = Fresh(runs[r])
  BY <1>2, <1>3 DEF Fresh, Running, RunSet, Workers
<1>5. Len(runs[r].errc) < ErrcCap /\ runs' = [runs EXCEPT ![r] = Settle(run)]
  BY <1>1 DEF Send
<1> HIDE DEF run
<1>6. Len(run.errc) = Len(runs[r].errc) + 1 /\ Len(runs[r].errc) \in Nat
  BY <1>2, <1>3 DEF RunSet
<1>7. Len(run.errc) <= ErrcCap
  BY <1>5, <1>6, LimitsAssumption, FS_CardinalityType DEF ErrcCap
<1>8. Within(run)
  BY <1>2, <1>3, <1>4, <1>7 DEF Within
<1>9. Within(Settle(run))
  BY <1>8, RestingWithin DEF Settle
<1>10. runs[r].pc # "idle"
  BY <1>2 DEF PipelineInv, RunBooks, Steady, Running, Resting
<1>11. Settle(run).pc # "idle" => Settle(run).name \in uploaded
  BY <1>3, <1>10 DEF Settle, Resting, PipelineInv, Uploads
<1>12. UNCHANGED <<noticeVars, tasks, dropped, reported, queued>>
  BY DEF Worker, outVars
<1>13. reported \subseteq uploaded /\ queued \subseteq reported
  BY DEF PipelineInv, Uploads
<1> QED BY <1>5, <1>9, <1>11, <1>12, <1>13, RunUploads

\* What is collected has been sent, by goroutines that ended.
LEMMA CollectWithin ==
    ASSUME PipelineInv, NEW r \in Runs, Collect(r)
    PROVE  Uploads' /\ Limited'
<1>1. UNCHANGED <<noticeVars, objects, reported, queued>> /\ runs[r].pc = "collect"
      /\ runs[r].errc # <<>>
  BY DEF Collect, outVars
<1>2. reported \subseteq uploaded /\ queued \subseteq reported
  BY DEF PipelineInv, Uploads
<1>3. CASE CollectErr(r)
  BY <1>1, <1>2, <1>3, AnsweredUploads DEF CollectErr
<1>4. CASE CollectNil(r)
  <2> DEFINE next == IF runs[r].got + 1 = Cardinality(Sizes) THEN "notify" ELSE "collect"
             run == [runs[r] EXCEPT !.errc = Tail(@), !.got = @ + 1, !.pc = next]
  <2>1. runs' = [runs EXCEPT ![r] = run] /\ UNCHANGED <<tasks, dropped>>
    BY <1>4 DEF CollectNil
  <2>2. runs[r] \in RunSet /\ Within(runs[r]) /\ Steady(runs[r], objects)
    BY DEF PipelineInv, RunBooks, Limited
  <2> HIDE DEF next
  <2>3. /\ run.name = runs[r].name /\ run.work = runs[r].work
        /\ run.launched = runs[r].launched
        /\ run.errc = Tail(runs[r].errc) /\ run.got = runs[r].got + 1
    BY <2>2 DEF RunSet
  <2> HIDE DEF run
  <2>4. Fresh(run) = Fresh(runs[r])
    BY <2>3 DEF Fresh
  <2>5. /\ Len(runs[r].errc) \in Nat /\ runs[r].got \in Nat /\ Len(runs[r].errc) # 0
        /\ Len(run.errc) = Len(runs[r].errc) - 1
    BY <1>1, <2>2, <2>3 DEF RunSet
  <2>6. Cardinality(Done(runs[r])) <= Cardinality(Sizes)
        /\ Cardinality(Done(runs[r])) \in Nat /\ Cardinality(Sizes) \in Nat
    BY LimitsAssumption, FS_Subset, FS_CardinalityType DEF Done
  <2>7. Len(runs[r].errc) + runs[r].got = Cardinality(Done(runs[r]))
    BY <1>1, <2>2 DEF Steady
  <2>8. run.got <= ErrcCap
    <3>1. runs[r].got + 1 <= Cardinality(Sizes)
      BY <2>5, <2>6, <2>7
    <3> QED BY <2>3, <3>1 DEF ErrcCap
  <2>9. Len(run.errc) <= ErrcCap
    BY <2>2, <2>5, <2>6 DEF Within, ErrcCap
  <2>10. Within(run)
    BY <2>2, <2>3, <2>4, <2>8, <2>9 DEF Within
  <2>11. run.name \in uploaded
    BY <1>1, <2>3 DEF PipelineInv, Uploads
  <2> QED BY <1>1, <1>2, <2>1, <2>10, <2>11, RunUploads
<1> QED BY <1>3, <1>4 DEF Collect


LEMMA NotifyWithin ==
    ASSUME PipelineInv, NEW r \in Runs, Notify(r)
    PROVE  Uploads' /\ Limited'
<1>1. runs[r].pc = "notify" /\ UNCHANGED noticeVars
  BY DEF Notify
<1>2. runs[r].name \in uploaded /\ reported \subseteq uploaded /\ queued \subseteq reported
  BY <1>1 DEF PipelineInv, Uploads
<1>3. reported' \subseteq uploaded /\ queued' \subseteq reported'
  BY <1>2 DEF Notify, PostPhoto, outVars
<1>4. CASE Answer500(r)
  BY <1>1, <1>3, <1>4, AnsweredUploads
<1>5. CASE runs' = [runs EXCEPT ![r] = Resting] /\ UNCHANGED <<tasks, dropped>>
  <2>1. Resting.pc = "idle"
    BY DEF Resting
  <2> QED BY <1>1, <1>3, <1>5, <2>1, RestingWithin, RunUploads
<1> QED BY <1>4, <1>5 DEF Notify

LEMMA ReadWithin ==
    ASSUME PipelineInv, NEW r \in Runs, ReadImage(r)
    PROVE  Uploads' /\ Limited'
<1> DEFINE run == [runs[r] EXCEPT !.pc = "loop"]
<1>1. /\ runs' = [runs EXCEPT ![r] = run]
      /\ UNCHANGED <<noticeVars, tasks, dropped, reported, queued>>
  BY DEF ReadImage, outVars
<1>2. runs[r] \in RunSet /\ runs[r].pc # "idle" /\ Within(runs[r])
  BY DEF ReadImage, PipelineInv, RunBooks, Limited
<1>3. /\ run.name = runs[r].name /\ run.launched = runs[r].launched
      /\ run.work = runs[r].work /\ run.errc = runs[r].errc /\ run.got = runs[r].got
  BY <1>2 DEF RunSet
<1> HIDE DEF run
<1>4. Within(run) /\ run.name \in uploaded
  BY <1>2, <1>3 DEF PipelineInv, Uploads, Within, Fresh
<1>5. reported \subseteq uploaded /\ queued \subseteq reported
  BY DEF PipelineInv, Uploads
<1> QED BY <1>1, <1>4, <1>5, RunUploads

LEMMA DeadlineWithin ==
    ASSUME PipelineInv, NEW r \in Runs, Deadline(r)
    PROVE  Uploads' /\ Limited'
<1> DEFINE run == [runs[r] EXCEPT !.tries = None]
<1>1. /\ runs' = [runs EXCEPT ![r] = run] /\ TaskFailed(r)
      /\ UNCHANGED <<noticeVars, reported, queued>>
  BY DEF Deadline, outVars
<1>2. runs[r] \in RunSet /\ runs[r].pc # "idle" /\ Within(runs[r])
  BY DEF Deadline, PipelineInv, RunBooks, Limited, Steady, Resting
<1>3. /\ run.name = runs[r].name /\ run.launched = runs[r].launched
      /\ run.work = runs[r].work /\ run.errc = runs[r].errc /\ run.got = runs[r].got
  BY <1>2 DEF RunSet
<1> HIDE DEF run
<1>4. Within(run) /\ run.name \in uploaded
  BY <1>2, <1>3 DEF PipelineInv, Uploads, Within, Fresh
<1>5. \A q \in Runs : runs'[q] = IF q = r THEN run ELSE runs[q]
  BY <1>1 DEF PipelineInv, RunBooks
<1>6. Limited'
  BY <1>4, <1>5 DEF PipelineInv, Limited, Within, Fresh
<1>7. \A q \in Runs : runs'[q].pc # "idle" => runs'[q].name \in uploaded
  BY <1>4, <1>5 DEF PipelineInv, Uploads
<1>8. reported \subseteq uploaded /\ queued \subseteq reported
  BY DEF PipelineInv, Uploads
<1> QED BY <1>1, <1>2, <1>6, <1>7, <1>8, FailedTask, UploadsKept

\* When the image server stops, each request under way becomes one more task.
LEMMA CrashWithin ==
    ASSUME PipelineInv, Crash
    PROVE  Uploads' /\ Limited'
<1> DEFINE waiting == {r \in Runs : runs[r].tries # None}
           lost(n, k) == {r \in waiting : /\ runs[r].name = n
                                          /\ runs[r].tries = k - 1}
<1>1. /\ runs' = [r \in Runs |-> Resting]
      /\ tasks' = [n \in Names |-> [k \in 0..RetryLimit |->
                     tasks[n][k] + Cardinality(lost(n, k))]]
      /\ dropped' = dropped \union
           {runs[r].name : r \in {w \in waiting : runs[w].tries = RetryLimit}}
      /\ UNCHANGED <<noticeVars, reported, queued>>
  BY DEF Crash, outVars
<1>2. \A r \in waiting : runs[r].name \in uploaded
  BY DEF PipelineInv, RunBooks, Steady, Resting, Uploads
<1>3. \A n \in Names, k \in 0..RetryLimit :
         IsFiniteSet(lost(n, k)) /\ Cardinality(lost(n, k)) \in Nat
  BY LimitsAssumption, FS_Subset, FS_CardinalityType
<1>4. \A n \in Names, k \in 0..RetryLimit :
         Cardinality(lost(n, k)) > 0 => n \in uploaded
  <2> SUFFICES ASSUME NEW n \in Names, NEW k \in 0..RetryLimit, n \notin uploaded
               PROVE  ~(Cardinality(lost(n, k)) > 0)
    OBVIOUS
  <2>1. lost(n, k) = {}
    BY <1>2
  <2> HIDE DEF lost
  <2> QED BY <2>1, FS_EmptySet
<1>5. dropped' \subseteq uploaded
  BY <1>1, <1>2 DEF PipelineInv, Uploads
<1> HIDE DEF waiting, lost
<1>6. \A n \in Names, k \in 0..RetryLimit :
         /\ tasks[n][k] \in Nat
         /\ tasks'[n][k] = tasks[n][k] + Cardinality(lost(n, k))
  BY <1>1 DEF PipelineInv, Uploads
<1>7. \A n \in Names, k \in 0..RetryLimit :
         /\ tasks[n][k] + Cardinality(lost(n, k)) \in Nat
         /\ tasks[n][k] + Cardinality(lost(n, k)) > 0 => n \in uploaded
  BY <1>3, <1>4, <1>6 DEF PipelineInv, Uploads, Waiting
<1>8. tasks' \in [Names -> [0..RetryLimit -> Nat]]
  BY <1>1, <1>7
<1>9. \A n \in Names, k \in 0..RetryLimit : tasks'[n][k] > 0 => n \in uploaded
  BY <1>6, <1>7
<1>10. Limited' /\ \A r \in Runs : runs'[r].pc = "idle"
  BY <1>1, RestingWithin DEF Limited, Within, Fresh, Resting
<1>11. reported \subseteq uploaded /\ queued \subseteq reported
  BY DEF PipelineInv, Uploads
<1> QED BY <1>1, <1>5, <1>8, <1>9, <1>10, <1>11, UploadsKept

LEMMA InitPipeline == Init => PipelineInv
<1> SUFFICES ASSUME Init PROVE PipelineInv
  OBVIOUS
<1>1. \A r \in Runs : runs[r] = Resting
  BY DEF Init
<1>2. Limited
  BY <1>1, RestingWithin DEF Limited
<1>3. due = [n \in Names |-> 0] /\ claimed = [n \in Names |-> 0]
      /\ tasks = [n \in Names |-> [k \in 0..RetryLimit |-> 0]]
  BY DEF Init
<1>4. \A n \in Names : ~Waiting(n)
  BY <1>3 DEF Waiting
<1>5. \A r \in Runs : runs[r].pc = "idle"
  BY <1>1 DEF Resting
<1>6. tasks \in [Names -> [0..RetryLimit -> Nat]] /\ due \in [Names -> Nat]
  BY <1>3
<1>7. Uploads
  BY <1>4, <1>5, <1>6 DEF Init, Uploads
<1> QED BY <1>2, <1>7, InitBooks, InitRunBooks DEF PipelineInv

LEMMA NextPipeline ==
    ASSUME PipelineInv, [Next]_vars
    PROVE  PipelineInv'
<1>1. KeyBooks' /\ RunBooks'
  BY NextBooks, NextRunBooks DEF PipelineInv
<1>2. Uploads' /\ Limited'
  <2>1. ASSUME NEW r \in Runs, Serve(r) PROVE Uploads' /\ Limited'
    <3>1. CASE Unreadable(r)
      <4>1. reported \subseteq uploaded /\ queued \subseteq reported
        BY DEF PipelineInv, Uploads
      <4> QED BY <3>1, <4>1, AnsweredUploads DEF Unreadable, outVars
    <3> QED BY <2>1, <3>1, ReadWithin, LaunchWithin, CollectWithin, NotifyWithin
            DEF Serve
  <2>2. CASE UNCHANGED vars
    BY <2>2 DEF vars, PipelineInv, Uploads, Waiting, Limited, Within, Fresh
  <2> QED BY <2>1, <2>2, NoticeUploads, StartUploads, DeadlineWithin, WorkerWithin,
             CrashWithin DEF Next
<1> QED BY <1>1, <1>2 DEF PipelineInv

LEMMA BoundedSequence ==
    ASSUME NEW S, NEW q \in Seq(S), NEW m \in Nat, Len(q) <= m
    PROVE  q \in SeqOf(S, m)
<1>1. Len(q) \in 0..m /\ q \in [1..Len(q) -> S]
  OBVIOUS
<1> QED BY <1>1 DEF SeqOf

LEMMA RunTyped ==
    ASSUME PipelineInv, NEW r \in Runs
    PROVE  runs[r] \in RunType
<1>1. runs[r] \in RunSet /\ Within(runs[r])
  BY DEF PipelineInv, RunBooks, Limited
<1>2. ErrcCap \in Nat /\ Cardinality(Fresh(runs[r])) \in Nat
  BY LimitsAssumption, FS_Subset, FS_CardinalityType DEF Fresh, ErrcCap
<1>3. runs[r].launched \in Seq(Sizes) /\ runs[r].errc \in Seq({"nil", "err"})
      /\ runs[r].got \in Nat
  BY <1>1 DEF RunSet
<1>4. Len(runs[r].launched) \in Nat
  BY <1>3
<1>5. Len(runs[r].launched) <= ErrcCap
  BY <1>1, <1>2, <1>4 DEF Within, ErrcCap
<1>6. /\ runs[r].launched \in SeqOf(Sizes, ErrcCap)
      /\ runs[r].errc \in SeqOf({"nil", "err"}, ErrcCap)
      /\ runs[r].got \in 0..ErrcCap
  BY <1>1, <1>2, <1>3, <1>5, BoundedSequence DEF Within
<1> QED BY <1>1, <1>6 DEF RunSet, RunType

\* The types, the key's account, what each run has received, and that nothing is
\* known of a name before its upload, hold together in every state, for any
\* names, sizes, calls, retries and crashes (notice.go:26-108, imagemagick.go:74-191).
THEOREM PipelineInvariant == Spec => []PipelineInv
BY InitPipeline, NextPipeline, PTL DEF Spec

\* Every variable keeps its type: the buffered channel never holds more results
\* than there are sizes, nor are more counted (imagemagick.go:139-174).
THEOREM PipelineTyped == Spec => []TypeOK
<1>1. PipelineInv => TypeOK
  <2> SUFFICES ASSUME PipelineInv PROVE TypeOK
    OBVIOUS
  <2>1. runs \in [Runs -> RunType]
    BY RunTyped DEF PipelineInv, RunBooks
  <2>2. \A r \in Runs : runs[r].pc # "over" =>
           Len(runs[r].errc) + runs[r].got = Cardinality(Done(runs[r]))
    BY DEF PipelineInv, RunBooks, Steady
  <2> QED BY <2>1, <2>2 DEF PipelineInv, KeyBooks, RunBooks, Uploads, ObjectSet, TypeOK, Done
<1> QED BY <1>1, PipelineInvariant, PTL
=============================================================================
