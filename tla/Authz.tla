------------------------------- MODULE Authz --------------------------------
(***************************************************************************)
(* The policy evaluator of packages/authz that every service calls: which  *)
(* roles a principal brings to a resource, what the managed policies of    *)
(* those roles say, and the decision (deny by default, a deny beats any    *)
(* allow).  Role, action and resource names are kept; ids are whatever     *)
(* values the module that uses this one has for users, classes and         *)
(* organizations, with None for an id that is absent or not positive.      *)
(***************************************************************************)
EXTENDS FiniteSets

CONSTANT None

PlatformRoles == {"PlatformAdmin", "PlatformSupport", "Teacher", "Student"}
OrgRoles == {"OrgAdmin", "OrgTeacher", "OrgStudent"}
ClassRoles == {"ClassOwner", "ClassTeacher", "ClassStudent"}
ManagedRoles == PlatformRoles \cup OrgRoles \cup ClassRoles

-----------------------------------------------------------------------------
(* Statements of the managed policies.                                     *)

StudyOwnActions ==
    {"study-set:Create", "study-set:Read", "study-set:Update", "study-set:Delete",
     "study-set:Publish", "study-set:Import", "study-set:Export"}

\* What an owner may do in a class; a teacher has all but the destructive ones.
Destructive == {"class:Delete", "class:ResetInvite"}
ClassTeaching ==
    {"class:Read", "class:ViewDashboard", "class-member:List", "class-member:Add",
     "class-member:Remove", "class-member:UpdateRole", "class-member:ViewProgress",
     "class-content:AssignStudySet", "class-content:UnassignStudySet",
     "class-content:UploadVideo", "class-content:ViewVideo", "live:Host"}
ClassOwning == ClassTeaching \cup Destructive \cup {"class:Update"}
ClassLearning ==
    {"class:Read", "class:ViewDashboard", "class-member:List",
     "class-content:ViewVideo", "live:Join", "quiz:Attempt"}
OrgManaging == {"org:Read", "org:Update", "org:InviteMember", "org:ViewDashboard"}

\* A statement without conditions; on is the resource type it names, "any"
\* for hq:*.
Stmt(effect, actions, on) ==
    [effect |-> effect, actions |-> actions, on |-> on,
     owner |-> "any", scope |-> "any", without |-> {}]
Allow(actions, on) == Stmt("Allow", actions, on)
Deny(actions, on) == Stmt("Deny", actions, on)
Owner(stmt, who) == [stmt EXCEPT !.owner = who]
InScope(stmt, scope) == [stmt EXCEPT !.scope = scope]
Without(stmt, roles) == [stmt EXCEPT !.without = roles]

StudyOwn ==
    {Owner(Allow(StudyOwnActions, "study-set"), "self"),
     Without(Owner(Deny(StudyOwnActions, "study-set"), "notSelf"), {"PlatformAdmin"})}
EveryAction == "*"

\* The member policies of a class, granted per class or inherited from the
\* organization of the class.
TeacherPolicy(scope) ==
    {InScope(Allow(ClassTeaching, "class"), scope),
     Without(InScope(Deny(Destructive, "class"), scope), {"PlatformAdmin"})}
StudentPolicy(scope) ==
    {InScope(Allow(ClassLearning, "class"), scope),
     Owner(InScope(Allow({"class-member:ViewProgress"}, "class"), scope), "self"),
     Without(Owner(InScope(Deny({"class-member:ViewProgress"}, "class"), scope), "notSelf"),
             {"PlatformAdmin"})}

ManagedPolicies ==
    [PlatformAdmin |-> {Allow({EveryAction}, "any")},
     PlatformSupport |->
        {Allow({"user:List", "class:Read", "order:ListAll", "audit:Read"}, "any")},
     Teacher |-> StudyOwn \cup
        {Owner(Allow({"study-set:SetPrice"}, "study-set"), "self"),
         Allow({"class:Create", "class:Join", "live:Host", "dashboard:ViewSelf",
                "wallet:Read", "order:Create"}, "any")},
     Student |-> StudyOwn \cup
        {Without(Deny({"study-set:SetPrice"}, "study-set"), {"Teacher", "PlatformAdmin"}),
         Allow({"class:Join", "live:Join", "dashboard:ViewSelf", "quiz:Attempt",
                "wallet:Read", "order:Create"}, "any")},
     ClassOwner |-> {InScope(Allow(ClassOwning, "class"), "class")},
     ClassTeacher |-> TeacherPolicy("class"),
     ClassStudent |-> StudentPolicy("class"),
     OrgAdmin |->
        {InScope(Allow(OrgManaging, "org"), "org"),
         InScope(Allow(ClassOwning \cup {"class:Create"}, "class"), "org")},
     OrgTeacher |-> TeacherPolicy("org") \cup
        {InScope(Allow({"org:Read", "org:ViewDashboard"}, "org"), "org")},
     OrgStudent |-> StudentPolicy("org")]

-----------------------------------------------------------------------------
(* Principals and resources.                                               *)

\* legacy is users.role; org gives the roles held in every organization.
Principal(user, legacy, platform, classRole, class, org) ==
    [user |-> user, legacy |-> legacy, platform |-> platform,
     classRole |-> classRole, class |-> class, org |-> org]
PlatformPrincipal(user, legacy, platform) ==
    Principal(user, legacy, platform, None, None, <<>>)

Resource(type, owner, class, org) ==
    [type |-> type, owner |-> owner, class |-> class, org |-> org]
PlatformResource == Resource("platform", None, None, None)

ClassMemberRole(role) ==
    CASE role = "owner" -> {"ClassOwner"}
      [] role = "teacher" -> {"ClassTeacher"}
      [] role = "student" -> {"ClassStudent"}
      [] OTHER -> {}

OrgRoleKeys(p, org) ==
    IF org # None /\ org \in DOMAIN p.org THEN p.org[org] ELSE {}

\* A legacy administrator is one whatever the header lists; a user without
\* any platform role counts as a student.
ResolvedPlatformRoles(p) ==
    LET admin == IF p.legacy = "admin" THEN {"PlatformAdmin"} ELSE {}
        roles == p.platform \cup admin
    IN  IF roles = {} /\ p.legacy = "user" THEN {"Student"} ELSE roles

EffectiveRoleKeys(p, res) ==
    ResolvedPlatformRoles(p)
        \cup (IF res.class \in {None, p.class} THEN ClassMemberRole(p.classRole) ELSE {})
        \cup OrgRoleKeys(p, res.org)

-----------------------------------------------------------------------------
(* The decision.                                                           *)

MatchAction(stmt, action) == EveryAction \in stmt.actions \/ action \in stmt.actions
MatchResource(stmt, res) == stmt.on \in {"any", res.type}

EvalConditions(stmt, p, res) ==
    LET self == res.owner # None /\ res.owner = p.user
    IN  /\ stmt.without \cap ResolvedPlatformRoles(p) = {}
        /\ stmt.owner = "self" => self
        /\ stmt.owner = "notSelf" => ~self
        /\ stmt.scope = "class" => res.class # None /\ p.class = res.class
        /\ stmt.scope = "org" => OrgRoleKeys(p, res.org) # {}

Applying(p, action, res) ==
    {stmt \in UNION {ManagedPolicies[role] : role \in EffectiveRoleKeys(p, res)} :
        MatchAction(stmt, action) /\ MatchResource(stmt, res) /\ EvalConditions(stmt, p, res)}

Can(p, action, res) ==
    LET effects == {stmt.effect : stmt \in Applying(p, action, res)}
    IN  "Allow" \in effects /\ "Deny" \notin effects
=============================================================================
