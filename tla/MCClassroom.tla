---------------------------- MODULE MCClassroom -----------------------------
(* Three scenarios of one class.  "members": an owner and three others,    *)
(* room for two, from nothing.  "study": the class as its owner has made   *)
(* it, with a learner and a set, while both record progress.  "videos":    *)
(* the same class, while its owner uploads and deletes videos.             *)
EXTENDS ClassVideos

CONSTANTS owner, ann, bob, cat, cls, code1, code2, req1, req2, set1, key1, key2, v1, w1, w2

VARIABLE scenario
mcVars == <<allVars, scenario>>

MCUsers == {owner, ann, bob, cat}
MCPlatform == [u \in MCUsers |-> IF u = owner THEN {"Teacher"} ELSE {"Student"}]
MCClasses == {cls}
MCCodes == {code1, code2}
MCRequests == {req1, req2}
MCSets == {set1}
MCLearners == {owner, ann} \X {set1}
MCKeys == {key1, key2}
MCKeyUser == [k \in MCKeys |-> IF k = key1 THEN ann ELSE owner]
MCVideos == {v1}
MCWorkers == {w1, w2}

Enrolled ==
    /\ class = [c \in Classes |-> [owner |-> owner, code |-> code1, board |-> FALSE]]
    /\ member = [c \in Classes |->
           [u \in Users |-> IF u = owner THEN "owner" ELSE IF u = ann THEN "student" ELSE None]]
    /\ assigned = [c \in Classes |-> {set1}] /\ unowned = {}
    /\ call = [r \in Requests |-> None]
    /\ studySets = Sets
    /\ session = [k \in Keys |-> None]
    /\ outbox = <<>> /\ batch = <<>> /\ sent = {}
    /\ stream = [k \in Keys |-> 0]
    /\ noted = [k \in Keys |-> [c \in Classes |-> 0]]

MCInit ==
    /\ VideosInit
    /\ \/ scenario = "members" /\ ClassroomInit
       \/ scenario \in {"study", "videos"} /\ Enrolled

MembersStep ==
    /\ scenario = "members"
    /\ \/ \E r \in Requests, u \in Users, c \in Classes : MemberAdmissions(r, u, c)
       \/ \E r \in Requests : Statement(r) \/ Abandon(r)
    /\ UNCHANGED videoVars

StudyStep ==
    /\ scenario = "study"
    /\ \/ StudyNext
       \/ /\ call[req1] = None
          /\ AskLeave(req1, ann, cls) \/ \E u \in Users : ContentAdmissions(req1, u, cls)
       \/ Statement(req1)
    /\ UNCHANGED videoVars

(* The owner's writes are for all, or for ann.                             *)
VideoStep ==
    /\ scenario = "videos"
    /\ \/ \E v \in Videos, audience \in {"all", "selected"} :
             LET viewers == IF audience = "all" THEN {} ELSE {ann} IN
             \/ StartUpload(v, cls, owner, audience, viewers)
             \/ AddLink(v, cls, owner, audience, viewers)
             \/ UpdateVideo(v, cls, owner, audience, viewers)
       \/ VideoBackground
       \/ \E v \in Videos : AskDeleteVideo(req1, owner, cls, v)
       \/ Unstore(req1) \/ Unlist(req1)
       \/ call[req2] = None /\ AskDeleteClass(req2, owner, cls) /\ UNCHANGED videoVars

MCNext ==
    /\ scenario' = scenario
    /\ \/ MembersStep \/ StudyStep \/ VideoStep
       \/ \E r \in Requests : DeleteClassWithVideos(r)

MCSpec == MCInit /\ [][MCNext]_mcVars /\ DeliveryFairness /\ CleanupFairness
=============================================================================
