----------------------------- MODULE TimelinePage ----------------------------
(***************************************************************************)
(* Somebody reads his timeline page by page: GetTimeLine of server.go and   *)
(* getTimeline of myredis.go, while photos are pushed on it, pushed again   *)
(* and trimmed from it, and others like and flag them (Feedback).  The      *)
(* phone asks for the page that begins at the last photo it has been shown, *)
(* until a page shows nothing beyond it.                                    *)
(***************************************************************************)
EXTENDS Feedback

CONSTANTS
  Base,   (* the timeline when the reader begins                             *)
  Extra,  (* photos that may be pushed meanwhile                             *)
  Cap,    (* 2000 in the code                                                *)
  Batch,  (* TimelineBatchSize                                               *)
  Top     (* the lastid of a first page: "0" in the code                     *)

ASSUME PageAssumption ==
  /\ Batch \in Nat \ {0, 1} /\ Cap \in Nat
  /\ Base \in Seq(Photo) /\ Extra \subseteq Photo /\ Top \notin Photo
  /\ \A l \in Workloads : l.pushes \in Nat /\ l.reads \in BOOLEAN

VARIABLES
  tl,      (* Redis, TL:user: photos, the newest first                       *)
  pushes,  (* bound: pushes still to come                                    *)
  again,   (* photos pushed since the reader began                           *)
  at,      (* where getTimeline is: "phone" when the phone has the page      *)
  lastid,  (* of the request                                                 *)
  list,    (* getTimeline: what LRANGE returned                              *)
  ix, i,   (* getTimeline: where the page starts, and the loop variable      *)
  page,    (* getTimeline: timeline, as photo and number of likes            *)
  shown,   (* photos the phone has been shown                                *)
  done     (* has a page shown nothing beyond lastid?                        *)

locals == <<list, ix, i, page>>
reader == <<at, lastid, locals, shown, done>>
timeline == <<tl, pushes, again>>
allvars == <<vars, timeline, reader>>

PageInit ==
  /\ \E l \in Workloads :
       /\ InitWith(l)
       /\ pushes = l.pushes
       /\ at = IF l.reads THEN "phone" ELSE "nobody"
  /\ tl = Base /\ again = {}
  /\ lastid = Top /\ list = <<>> /\ ix = 0 /\ i = 0 /\ page = <<>>
  /\ shown = {} /\ done = FALSE

------------------------------------------------------------------------------
(* addPhoto pushes a new photo; a repeated iNowFollow one that is there.    *)
Push(p) ==
  /\ pushes > 0
  /\ pushes' = pushes - 1
  /\ tl' = <<p>> \o tl
  /\ again' = again \cup {p}
  /\ UNCHANGED <<vars, reader>>

(* The RPOP of a push that made the timeline too long. *)
Trim ==
  /\ Len(tl) > Cap
  /\ tl' = SubSeq(tl, 1, Len(tl) - 1)
  /\ UNCHANGED <<vars, pushes, again, reader>>

------------------------------------------------------------------------------
PageFault == faults < MaxFaults /\ faults' = faults + 1
NoFault == UNCHANGED faults

(* The place of lastid's first occurrence, or the top. *)
StartLateSlip(l) ==  (* slip: the last one is not compared *)
  LET places == {k \in 1 .. Len(l) - 1 : l[k] = lastid} IN
  IF places = {} THEN 0 ELSE (CHOOSE k \in places : \A j \in places : k <= j) - 1
Start(l) ==
  LET places == {k \in DOMAIN l : l[k] = lastid} IN
  IF places = {} THEN 0 ELSE (CHOOSE k \in places : \A j \in places : k <= j) - 1

(* LRANGE; its error leaves an empty list, and so an empty page. *)
LRange ==
  /\ at = "phone" /\ ~done
  /\ at' = "loop"
  /\ \/ list' = tl /\ NoFault
     \/ list' = <<>> /\ PageFault
  /\ ix' = Start(list') /\ i' = 0 /\ page' = <<>>
  /\ UNCHANGED <<asked, pc, req, tod, redis, datastore, clock, history>>
  /\ UNCHANGED <<timeline, lastid, shown, done>>

WithinSlip == i <= Batch /\ ix + i < Len(list)  (* slip: <= *)
Within == i < Batch /\ ix + i < Len(list)
Current == list[ix + i + 1]

HiddenSlip(p) == flag[p] > 0  (* slip: one flag is enough *)
Hidden(p) == flag[p] > 1

(* HMGET: a photo with two flags is passed over, though it counts for the   *)
(* batch.  After an error v is empty and v[0] panics: no page.              *)
HMGet ==
  /\ at = "loop" /\ Within
  /\ \/ /\ Hidden(Current)
        /\ i' = i + 1 /\ UNCHANGED at /\ NoFault
     \/ /\ ~Hidden(Current)
        /\ at' = "likes" /\ UNCHANGED i /\ NoFault
     \/ PageFault /\ at' = "phone" /\ UNCHANGED i
  /\ UNCHANGED <<asked, pc, req, tod, redis, datastore, clock, history>>
  /\ UNCHANGED <<timeline, lastid, list, ix, page, shown, done>>

HLen(p) == Cardinality(likes[p]) + (IF flag[p] > 0 THEN 1 ELSE 0) + (IF p \in Dated THEN 1 ELSE 0)

(* The date is a field, too. *)
CountSlip(p) == HLen(p) - 2  (* slip: as server.go:41 has it *)
Count(p) == HLen(p) - 1

(* HLEN, with 0 for an error, and HGET of the owner's name. *)
Entry ==
  /\ at = "likes"
  /\ \E n \in {Count(Current), 0} :
       /\ page' = Append(page, [photo |-> Current, likes |-> n])
       /\ (n = Count(Current) /\ NoFault) \/ (n = 0 /\ PageFault)
  /\ i' = i + 1
  /\ at' = "loop"
  /\ UNCHANGED <<asked, pc, req, tod, redis, datastore, clock, history>>
  /\ UNCHANGED <<timeline, lastid, list, ix, shown, done>>

(* The phone gets the page. *)
Show ==
  LET photos == {page[k].photo : k \in DOMAIN page} IN
  /\ at = "loop" /\ ~Within
  /\ at' = "phone"
  /\ shown' = shown \cup photos
  /\ lastid' = IF page = <<>> THEN lastid ELSE page[Len(page)].photo
  /\ done' = (lastid # Top /\ lastid' = lastid)
  /\ UNCHANGED <<vars, timeline, locals>>

Reads == LRange \/ HMGet \/ Entry \/ Show

PageNext ==
  \/ Next /\ UNCHANGED <<timeline, reader>>
  \/ (\E p \in Extra : Push(p)) \/ Trim \/ Reads

(* The phone goes on asking, and a request goes on. *)
PageSpec == PageInit /\ [][PageNext]_allvars /\ WF_allvars(Reads)

------------------------------------------------------------------------------
Photos(s) == {s[k] : k \in DOMAIN s}

(* Types of the variables, those of Feedback included. *)
TypeOK ==
  /\ pc \in [Worker -> {"idle", "like", "put", "delete", "unlike", "flag", "time", "comment"}]
  /\ \A w \in Worker : pc[w] = "idle" <=> req[w] = NoRequest
  /\ likes \in [Photo -> SUBSET User] /\ liked \in [Photo -> SUBSET User]
  /\ flag \in [Photo -> Nat]
  /\ clock \in 0 .. MaxClock /\ faults \in 0 .. MaxFaults
  /\ tl \in Seq(Photo) /\ list \in Seq(Photo) /\ pushes \in Nat
  /\ again \subseteq Photo
  /\ at \in {"nobody", "phone", "loop", "likes"}
  /\ lastid \in Photo \cup {Top}
  /\ ix \in Nat /\ i \in 0 .. Batch /\ Len(page) <= Batch
  /\ shown \subseteq Photo /\ done \in BOOLEAN

Repeats(s) == Cardinality(Photos(s)) < Len(s)

TwiceFlagged(p) == flag[p] >= 2

(* Batch - 1 flagged photos in a row fill a page up with what is not shown. *)
Blocked(s, k) == k + Batch - 1 <= Len(s) /\ \A j \in k + 1 .. k + Batch - 1 : TwiceFlagged(s[j])

(* A page that shows nothing new is the end: each photo that was on the     *)
(* timeline when the reader began, still is (and not again, pushed after a  *)
(* trim took it away below his place) and is not flagged has been shown to  *)
(* him, in spite of pushes and trims between and during pages.              *)
(* The code breaks this in three ways, which are left out here: a photo     *)
(* that is there twice, a run of flagged ones, and an LRANGE that fails and *)
(* leaves list empty.                                                       *)
EndMeansAll ==
  done /\ ~Repeats(list) /\ ~Blocked(list, ix + 1) =>
    \A p \in (Photos(list) \cap Photos(Base)) \ again : p \in shown \/ TwiceFlagged(p)

(* A reader who goes on asking gets to an end and is not sent round in      *)
(* circles by what is pushed and trimmed, unless a photo is there twice for *)
(* ever, or a first page has nothing but flagged photos and so is empty.    *)
Passable == ~Repeats(tl) /\ \E k \in DOMAIN tl : k <= Batch /\ ~TwiceFlagged(tl[k])
ReadsOn == <>[]Passable => (at = "nobody" \/ <>done)

(* The number of likes shown is that of the Like entities, for a photo that *)
(* nobody is liking or unliking and where no request has failed: exactly,   *)
(* if the photo is dated and not flagged, else with one too few or too many.*)
Settled(p) == \A u \in User : <<u, p>> \notin clouded /\ Quiet(<<u, p>>)
CountedLikes ==
  at = "likes" /\ at' = "loop" /\ faults' = faults /\ Settled(Current) =>
    LET wrong == page'[Len(page')].likes - Cardinality(liked[Current]) IN
    IF Current \in Dated /\ flag[Current] = 0 THEN wrong = 0 ELSE wrong \in -1 .. 1
LikesShown == [][CountedLikes]_allvars
==============================================================================
