----------------------------- MODULE Classroom ------------------------------
(***************************************************************************)
(* Classes of the class service: who belongs to them and in which role,    *)
(* what is assigned to them, and how a learner's progress in the study     *)
(* service reaches their activity feed and dashboard (learning session,    *)
(* outbox, JetStream, consumer).                                           *)
(*                                                                         *)
(* A handler reads before it writes and nothing holds the rows in between: *)
(* the step that admits a request is separate from its statement.  Names,  *)
(* texts and the best-effort activity rows of the handlers are left out,   *)
(* and so are the organizations: no code ever gives a class one.           *)
(***************************************************************************)
EXTENDS Authz, Naturals, Sequences, FiniteSetsExt, SequencesExt

CONSTANTS
    Users, Platform,    \* users and their platform roles
    Classes, Codes,     \* ids of classes, invite codes
    MaxMembers,         \* classes.max_members
    Requests,           \* requests under way at once
    Sets, Learners,     \* study sets, and who may record progress on them
    Keys, KeyUser,      \* idempotency keys of progress, with their user
    MaxCopies           \* bound on copies of an event in the stream

ASSUME ClassConstants ==
    /\ Platform \in [Users -> SUBSET PlatformRoles]
    /\ MaxMembers \in Nat \ {0} /\ MaxCopies \in Nat \ {0}
    /\ Learners \subseteq Users \X Sets
    /\ KeyUser \in [Keys -> Users]
    /\ IsFiniteSet(Requests)

\* None is no role, no row and no request.
ASSUME ClassNulls ==
    /\ None \notin {"owner", "teacher", "student"}
    /\ None \notin [owner : Users, code : Codes, board : BOOLEAN]
    /\ None \notin [set : Sets, completed : BOOLEAN, passed : BOOLEAN]
    /\ None \notin [op : {"own"}, class : Classes, target : Users, role : {"owner"}]

VARIABLES
    class,      \* classes: owner, invite code, leaderboard
    member,     \* class_members: role of a user in a class
    assigned,   \* class_study_sets
    unowned,    \* classes whose creation lost the member row of the owner
    call,       \* requests that have been admitted
    studySets,  \* study sets that exist
    session,    \* learning_sessions, by idempotency key
    outbox,     \* study_event_outbox: keys not yet published, oldest first
    batch,      \* what the publisher has read of it
    sent,       \* events the stream has received
    stream,     \* copies of each event a consumer has still to acknowledge
    noted       \* activity_events of a completion, by class

classVars == <<class, member, assigned, unowned, call>>
studyVars == <<studySets, session, outbox, batch, sent, stream, noted>>
classroomVars == <<class, member, assigned, unowned, call, studySets, session, outbox,
                   batch, sent, stream, noted>>

ClassroomInit ==
    /\ class = [c \in Classes |-> None]
    /\ member = [c \in Classes |-> [u \in Users |-> None]]
    /\ assigned = [c \in Classes |-> {}] /\ unowned = {}
    /\ call = [r \in Requests |-> None]
    /\ studySets = Sets
    /\ session = [k \in Keys |-> None]
    /\ outbox = <<>> /\ batch = <<>> /\ sent = {}
    /\ stream = [k \in Keys |-> 0]
    /\ noted = [k \in Keys |-> [c \in Classes |-> 0]]

-----------------------------------------------------------------------------
(* Tables and permission.                                                  *)

Exists(c) == class[c] # None
MembersOf(c) == {u \in Users : member[c][u] # None}
CodeTaken(code) == \E c \in Classes : Exists(c) /\ class[c].code = code

(* memberRole, resolveClassRole: the row, or owner for the owner of the    *)
(* class who has none.                                                     *)
Role(c, u) ==
    IF member[c][u] # None THEN member[c][u]
    ELSE IF class[c].owner = u THEN "owner" ELSE None

ClassPrincipal(u, c, role) == Principal(u, "user", Platform[u], role, c, <<>>)

(* authorizeClass of the class service.                                    *)
AuthorizeClass(u, c, action) ==
    /\ Exists(c)
    /\ Can(ClassPrincipal(u, c, Role(c, u)), action,
           Resource("class", class[c].owner, c, None))

(* authorize of the member service: only somebody of the class.            *)
AuthorizeMember(u, c, action) ==
    Exists(c) /\ Role(c, u) # None /\ AuthorizeClass(u, c, action)

(* A request is admitted and waits to run its statement.                   *)
Admit(r, op, c, target, role) ==
    /\ call' = [call EXCEPT ![r] =
           [op |-> op, class |-> c, target |-> target, role |-> role]]
    /\ UNCHANGED <<class, member, assigned, unowned, studyVars>>

Next_op(r, op) == call' = [call EXCEPT ![r].op = op]
Done(r) == call' = [call EXCEPT ![r] = None]
Running(r, op) == call[r] # None /\ call[r].op = op

-----------------------------------------------------------------------------
(* Classes.                                                                *)

(* createClass: the class, and then the row of its owner.                  *)
CreateClass(r, u, c, code) ==
    /\ ~Exists(c) /\ ~CodeTaken(code)
    /\ \A x \in Requests : call[x] # None => call[x].class # c     \* a fresh id
    /\ Can(PlatformPrincipal(u, "user", Platform[u]), "class:Create",
           Resource("class", None, None, None))
    /\ class' = [class EXCEPT ![c] = [owner |-> u, code |-> code, board |-> FALSE]]
    /\ call' = [call EXCEPT ![r] =
           [op |-> "own", class |-> c, target |-> u, role |-> "owner"]]
    /\ unowned' = unowned \ {c}
    /\ UNCHANGED <<member, assigned, studyVars>>

(* The error of the second insert is dropped.                              *)
AddOwner(r) ==
    LET c == call[r].class IN
    /\ Running(r, "own")
    /\ \/ /\ Exists(c) /\ member[c][call[r].target] = None
          /\ member' = [member EXCEPT ![c] = [@ EXCEPT ![call[r].target] = "owner"]]
          /\ UNCHANGED unowned
       \/ unowned' = unowned \cup {c} /\ UNCHANGED member
    /\ Done(r)
    /\ UNCHANGED <<class, assigned, studyVars>>

AskDeleteClass(r, u, c) ==
    AuthorizeClass(u, c, "class:Delete") /\ Admit(r, "delete", c, None, None)

(* DELETE FROM classes cascades; activity rows lose their class.           *)
DeleteClass(r) ==
    LET c == call[r].class IN
    /\ Running(r, "delete") /\ Exists(c)
    /\ class' = [class EXCEPT ![c] = None]
    /\ member' = [member EXCEPT ![c] = [u \in Users |-> None]]
    /\ assigned' = [assigned EXCEPT ![c] = {}]
    /\ unowned' = unowned \ {c}
    /\ noted' = [k \in Keys |-> [noted[k] EXCEPT ![c] = 0]]
    /\ Done(r)
    /\ UNCHANGED <<studySets, session, outbox, batch, sent, stream>>

AskResetInvite(r, u, c) ==
    AuthorizeClass(u, c, "class:ResetInvite") /\ Admit(r, "reset", c, None, None)

(* GenerateUniqueInviteCode, and the update, which UNIQUE guards as well.  *)
ResetInvite(r, code) ==
    /\ Running(r, "reset") /\ Exists(call[r].class) /\ ~CodeTaken(code)
    /\ class' = [class EXCEPT ![call[r].class].code = code]
    /\ Done(r)
    /\ UNCHANGED <<member, assigned, unowned, studyVars>>

AskLeaderboard(r, u, c) ==
    /\ AuthorizeClass(u, c, "class-content:AssignStudySet")
    /\ Admit(r, "board", c, None, None)

SetLeaderboard(r, enabled) ==
    /\ Running(r, "board") /\ Exists(call[r].class)
    /\ class' = [class EXCEPT ![call[r].class].board = enabled]
    /\ Done(r)
    /\ UNCHANGED <<member, assigned, unowned, studyVars>>

-----------------------------------------------------------------------------
(* Members.                                                                *)

(* addMember by hand: no role but teacher and student.                     *)
AskAdd(r, u, c, target, role) ==
    /\ role \in {"teacher", "student"}
    /\ AuthorizeMember(u, c, "class-member:Add")
    /\ Admit(r, "count", c, target, role)

(* joinClass looks the class up by its code.                               *)
AskJoin(r, u, c, code) ==
    /\ Exists(c) /\ class[c].code = code /\ class[c].owner # u
    /\ Admit(r, "count", c, u, "student")

(* Mutant of CountMembers: off by one. *)
CountMembersLoosely(r) ==
    /\ Running(r, "count")
    /\ IF Exists(call[r].class) /\ Cardinality(MembersOf(call[r].class)) <= MaxMembers
       THEN Next_op(r, "insert") ELSE Done(r)
    /\ UNCHANGED <<class, member, assigned, unowned, studyVars>>

(* CountByClass: a full class takes nobody.                                *)
CountMembers(r) ==
    /\ Running(r, "count")
    /\ IF Exists(call[r].class) /\ Cardinality(MembersOf(call[r].class)) + 1 <= MaxMembers
       THEN Next_op(r, "insert") ELSE Done(r)
    /\ UNCHANGED <<class, member, assigned, unowned, studyVars>>

(* INSERT INTO class_members, with UNIQUE (class_id, user_id).             *)
InsertMember(r) ==
    LET c == call[r].class  u == call[r].target IN
    /\ Running(r, "insert")
    /\ IF Exists(c) /\ member[c][u] = None
       THEN member' = [member EXCEPT ![c] = [@ EXCEPT ![u] = call[r].role]]
       ELSE UNCHANGED member
    /\ Done(r)
    /\ UNCHANGED <<class, assigned, unowned, studyVars>>

(* Mutant of AskUpdateRole: the owner's own row is fair game. *)
AskUpdateAnyRole(r, u, c, target, role) ==
    /\ role \in {"teacher", "student"}
    /\ AuthorizeMember(u, c, "class-member:UpdateRole")
    /\ target # u
    /\ Admit(r, "role", c, target, role)

AskUpdateRole(r, u, c, target, role) ==
    /\ role \in {"teacher", "student"}
    /\ AuthorizeMember(u, c, "class-member:UpdateRole")
    /\ target # class[c].owner /\ target # u
    /\ Admit(r, "role", c, target, role)

UpdateRole(r) ==
    LET c == call[r].class  u == call[r].target IN
    /\ Running(r, "role")
    /\ IF member[c][u] # None
       THEN member' = [member EXCEPT ![c] = [@ EXCEPT ![u] = call[r].role]]
       ELSE UNCHANGED member
    /\ Done(r)
    /\ UNCHANGED <<class, assigned, unowned, studyVars>>

AskRemove(r, u, c, target) ==
    /\ AuthorizeMember(u, c, "class-member:Remove")
    /\ target # class[c].owner /\ target # u
    /\ Admit(r, "remove", c, target, None)

AskLeave(r, u, c) ==
    Exists(c) /\ class[c].owner # u /\ Admit(r, "remove", c, u, None)

RemoveMember(r) ==
    LET c == call[r].class IN
    /\ Running(r, "remove")
    /\ member' = [member EXCEPT ![c] = [@ EXCEPT ![call[r].target] = None]]
    /\ Done(r)
    /\ UNCHANGED <<class, assigned, unowned, studyVars>>

-----------------------------------------------------------------------------
(* Assigned study sets.                                                    *)

AskAssign(r, u, c, s) ==
    /\ AuthorizeClass(u, c, "class-content:AssignStudySet")
    /\ Admit(r, "verify", c, s, None)

(* The study service is asked whether the set exists; any error refuses.   *)
VerifySet(r) ==
    /\ Running(r, "verify")
    /\ \/ call[r].target \in studySets /\ Next_op(r, "assign")
       \/ Done(r)
    /\ UNCHANGED <<class, member, assigned, unowned, studyVars>>

AssignSet(r) ==
    LET c == call[r].class IN
    /\ Running(r, "assign")
    /\ assigned' = IF Exists(c) THEN [assigned EXCEPT ![c] = @ \cup {call[r].target}]
                   ELSE assigned
    /\ Done(r)
    /\ UNCHANGED <<class, member, unowned, studyVars>>

AskUnassign(r, u, c, s) ==
    /\ AuthorizeClass(u, c, "class-content:UnassignStudySet")
    /\ Admit(r, "unassign", c, s, None)

UnassignSet(r) ==
    /\ Running(r, "unassign")
    /\ assigned' = [assigned EXCEPT ![call[r].class] = @ \ {call[r].target}]
    /\ Done(r)
    /\ UNCHANGED <<class, member, unowned, studyVars>>

-----------------------------------------------------------------------------
(* Progress in the study service.                                          *)

(* Save of a learning session: the row and, by the trigger, the event of a *)
(* completed one in the same transaction; a key is used once.  Progress on *)
(* a set is its owner's, or a learner's with access.                       *)
SaveProgress(k, s, completed, passed) ==
    /\ session[k] = None /\ s \in studySets /\ <<KeyUser[k], s>> \in Learners
    /\ session' = [session EXCEPT ![k] = [set |-> s, completed |-> completed, passed |-> passed]]
    /\ outbox' = IF completed THEN Append(outbox, k) ELSE outbox
    /\ UNCHANGED <<classVars, studySets, batch, sent, stream, noted>>

(* The sessions go with the set, all but what their events carry; what is  *)
(* assigned to a class stays assigned.                                     *)
DeleteStudySet(s) ==
    /\ s \in studySets
    /\ studySets' = studySets \ {s}
    /\ session' = [k \in Keys |-> IF session[k] # None /\ session[k].set = s
                                  THEN [session[k] EXCEPT !.passed = FALSE] ELSE session[k]]
    /\ UNCHANGED <<classVars, outbox, batch, sent, stream, noted>>

(* RunCompletionOutbox reads the unpublished events, oldest first ...      *)
PollOutbox ==
    /\ batch = <<>> /\ outbox # <<>>
    /\ batch' = outbox
    /\ UNCHANGED <<classVars, studySets, session, outbox, sent, stream, noted>>

(* JetStream drops an event it has had within its deduplication window.    *)
Received(k) ==
    /\ sent' = sent \cup {k}
    /\ \/ k \in sent /\ UNCHANGED stream
       \/ stream[k] < MaxCopies /\ stream' = [stream EXCEPT ![k] = @ + 1]

(* Mutant of PublishEvent: marked before the broker has it. *)
PublishEventMarkedFirst ==
    LET k == Head(batch) IN
    /\ batch # <<>>
    /\ \/ Received(k) /\ batch' = Tail(batch)
       \/ UNCHANGED <<sent, stream>> /\ batch' = <<>>
    /\ outbox' = RemoveFirst(outbox, k)
    /\ UNCHANGED <<classVars, studySets, session, noted>>

(* ... and publishes them one by one, marking each.  A failure to publish, *)
(* which may hide a success, ends the round; a failure to mark does not.   *)
PublishEvent ==
    LET k == Head(batch) IN
    /\ batch # <<>>
    /\ \/ /\ Received(k) /\ batch' = Tail(batch)
          /\ outbox' \in {outbox, RemoveFirst(outbox, k)}
       \/ /\ Received(k) \/ UNCHANGED <<sent, stream>>
          /\ batch' = <<>> /\ UNCHANGED outbox
    /\ UNCHANGED <<classVars, studySets, session, noted>>

(* The publisher loses its connection or its process.                      *)
PublisherStops ==
    /\ batch # <<>> /\ batch' = <<>>
    /\ UNCHANGED <<classVars, studySets, session, outbox, sent, stream, noted>>

(* Classes the insert of the consumer selects for an event.                *)
ClassesOf(k) ==
    {c \in Classes : /\ session[k] # None /\ session[k].set \in assigned[c]
                     /\ member[c][KeyUser[k]] # None}

(* Mutant of NoteCompletion: no ON CONFLICT. *)
NoteCompletionAgain(k, acked) ==
    /\ stream[k] > 0
    /\ noted' = [noted EXCEPT ![k] =
           [c \in Classes |-> IF c \in ClassesOf(k) THEN Min({@[c] + 1, 2}) ELSE @[c]]]
    /\ stream' = IF acked THEN [stream EXCEPT ![k] = @ - 1] ELSE stream
    /\ UNCHANGED <<classVars, studySets, session, outbox, batch, sent>>

(* RunCompletionConsumer: INSERT ... ON CONFLICT DO NOTHING, then Ack; a   *)
(* lost Ack, like a Nak, has the event delivered again.                    *)
NoteCompletion(k, acked) ==
    /\ stream[k] > 0
    /\ noted' = [noted EXCEPT ![k] =
           [c \in Classes |-> IF c \in ClassesOf(k) THEN 1 ELSE @[c]]]
    /\ stream' = IF acked THEN [stream EXCEPT ![k] = @ - 1] ELSE stream
    /\ UNCHANGED <<classVars, studySets, session, outbox, batch, sent>>

-----------------------------------------------------------------------------
(* The dashboard of a class, as its reads would find it now.               *)

Students(c) == {u \in Users : member[c][u] = "student"}

(* canViewOthersProgress: the owner of the probed progress is nobody.      *)
CanViewOthersProgress(c, u) ==
    Can(ClassPrincipal(u, c, Role(c, u)), "class-member:ViewProgress",
        Resource("class", None, c, None))

(* Whose progress the view is about, and against whom it is measured.      *)
ScopeIDs(c, u) == IF CanViewOthersProgress(c, u) THEN MembersOf(c) ELSE {u}
Denominator(c, u) ==
    IF ~CanViewOthersProgress(c, u) THEN 1
    ELSE IF Students(c) = {} THEN Cardinality(MembersOf(c)) ELSE Cardinality(Students(c))

(* ProgressByUsersAndSets: who has a session at 80 percent or more.        *)
CompletedBy(s, scope) ==
    {KeyUser[k] : k \in {k \in Keys : session[k] # None /\ session[k].set = s
                                        /\ session[k].passed /\ KeyUser[k] \in scope}}

(* buildSetStats, without the scaling to a percentage.                     *)
Completed(c, s, u) == Cardinality(CompletedBy(s, ScopeIDs(c, u)))

(* The rows of other members that a view shows.                            *)
VisibleRows(c, u) ==
    IF CanViewOthersProgress(c, u) \/ class[c].board THEN Students(c) ELSE {}

-----------------------------------------------------------------------------
MemberAdmissions(r, u, c) ==
    /\ call[r] = None
    /\ \/ AskDeleteClass(r, u, c) \/ AskResetInvite(r, u, c) \/ AskLeave(r, u, c)
       \/ \E code \in Codes : CreateClass(r, u, c, code) \/ AskJoin(r, u, c, code)
       \/ \E target \in Users : AskRemove(r, u, c, target)
       \/ \E target \in Users, role \in {"teacher", "student"} :
             AskAdd(r, u, c, target, role) \/ AskUpdateRole(r, u, c, target, role)

ContentAdmissions(r, u, c) ==
    /\ call[r] = None
    /\ \/ AskLeaderboard(r, u, c)
       \/ \E s \in Sets : AskAssign(r, u, c, s) \/ AskUnassign(r, u, c, s)

(* The statement of a request, but for the deletion of its class.          *)
Statement(r) ==
    \/ AddOwner(r) \/ CountMembers(r) \/ InsertMember(r) \/ UpdateRole(r) \/ RemoveMember(r)
    \/ VerifySet(r) \/ AssignSet(r) \/ UnassignSet(r)
    \/ \E code \in Codes : ResetInvite(r, code)
    \/ \E enabled \in BOOLEAN : SetLeaderboard(r, enabled)

(* A statement that fails, or a process that stops.                        *)
Abandon(r) ==
    /\ call[r] # None
    /\ unowned' = IF call[r].op = "own" THEN unowned \cup {call[r].class} ELSE unowned
    /\ Done(r)
    /\ UNCHANGED <<class, member, assigned, studyVars>>

StudyNext ==
    \/ \E k \in Keys, s \in Sets, completed, passed \in BOOLEAN :
          SaveProgress(k, s, completed, passed)
    \/ \E s \in Sets : DeleteStudySet(s)
    \/ PollOutbox \/ PublishEvent \/ PublisherStops
    \/ \E k \in Keys, acked \in BOOLEAN : NoteCompletion(k, acked)

ClassNext ==
    \/ \E r \in Requests, u \in Users, c \in Classes :
          MemberAdmissions(r, u, c) \/ ContentAdmissions(r, u, c)
    \/ \E r \in Requests : Statement(r) \/ Abandon(r)

ClassroomNext == ClassNext \/ StudyNext \/ \E r \in Requests : DeleteClass(r)

(* The worker and the consumer retry for ever, and a broker and a database *)
(* that keep answering eventually accept.                                  *)
PublishedAndMarked == PublishEvent /\ Len(outbox') < Len(outbox)
DeliveryFairness ==
    /\ WF_classroomVars(PollOutbox)
    /\ SF_classroomVars(PublishedAndMarked)
    /\ \A k \in Keys : SF_classroomVars(NoteCompletion(k, TRUE))

ClassroomSpec == ClassroomInit /\ [][ClassroomNext]_classroomVars /\ DeliveryFairness

-----------------------------------------------------------------------------
(* Properties.                                                             *)

(* The tables hold what their constraints let them: a class that is gone   *)
(* has no members and no assignments, codes are unique, and an event is    *)
(* recorded at most once for a class.                                      *)
ClassTypeOK ==
    /\ \A c \in Classes :
          /\ class[c] = None \/ class[c] \in [owner : Users, code : Codes, board : BOOLEAN]
          /\ ~Exists(c) => MembersOf(c) = {} /\ assigned[c] = {}
          /\ \A u \in Users : member[c][u] \in {None, "owner", "teacher", "student"}
    /\ \A c, d \in Classes : Exists(c) /\ Exists(d) /\ c # d => class[c].code # class[d].code
    /\ stream \in [Keys -> 0..MaxCopies]
    /\ sent \subseteq Keys /\ ToSet(outbox) \subseteq Keys /\ ToSet(batch) \subseteq Keys

(* The count before an insert is not serialised with it: a class overruns  *)
(* its limit by at most the other requests that had been let through.      *)
MembersBounded ==
    \A c \in Classes :
        Cardinality(MembersOf(c)) <= MaxMembers + Cardinality(Requests) - 1

(* Nobody but the owner is ever "owner", and a class whose creation went   *)
(* through has its owner in that role until it is deleted, whatever the    *)
(* order in which teachers change, remove and add members.                 *)
OwnerKept ==
    \A c \in Classes : Exists(c) =>
        /\ \A u \in Users : member[c][u] = "owner" => u = class[c].owner
        /\ \/ member[c][class[c].owner] = "owner" \/ c \in unowned
           \/ \E r \in Requests : Running(r, "own") /\ call[r].class = c

(* A student sees the rows of others only while the class shows its        *)
(* leaderboard, whatever platform role short of administrator it has.      *)
StudentSeesOwn ==
    \A c \in Classes, u \in Users :
        Exists(c) /\ Role(c, u) \in {None, "student"} /\ "PlatformAdmin" \notin Platform[u] =>
            VisibleRows(c, u) = {} \/ class[c].board

(* Who belongs to a class, in which role, and what the role lets one see.  *)
MembershipSound == ClassTypeOK /\ MembersBounded /\ OwnerKept /\ StudentSeesOwn

Completes(k) == session[k] # None /\ session[k].completed

(* An event leaves the outbox only once the stream has had it, and a       *)
(* completed session has one: none is lost between the two services.       *)
CompletionNotLost ==
    \A k \in Keys : Completes(k) =>
        k \in ToSet(outbox) \/ k \in sent

(* However often an event is published and delivered, a class records it   *)
(* once.                                                                   *)
CompletionOnce == \A k \in Keys, c \in Classes : noted[k][c] <= 1

(* What a class records was completed: nothing else gets into the stream.  *)
CompletionEarned == \A k \in Keys, c \in Classes : noted[k][c] > 0 => Completes(k)

(* Between the two services a completion is not lost, doubled or made up.  *)
CompletionCounted == CompletionNotLost /\ CompletionOnce /\ CompletionEarned

(* The event of a completion that is still on its way reaches the activity *)
(* of a class that has its user and its set, and keeps them.               *)
CompletionDelivered ==
    \A k \in Keys, c \in Classes :
        []((k \in ToSet(outbox) \ sent \/ stream[k] > 0) /\ [](c \in ClassesOf(k))
           => <>(noted[k][c] = 1))

(* dashboard.go: "Completion is measured against the learners who can      *)
(* actually do the work": of those, no more than all can have completed.   *)
CompletionWithinClass ==
    \A c \in Classes, u \in Users, s \in Sets :
        Exists(c) /\ s \in assigned[c] /\ Role(c, u) # None =>
            Completed(c, s, u) <= Denominator(c, u)
=============================================================================
