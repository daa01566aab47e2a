------------------------- MODULE ClassVideosProofs --------------------------
(***************************************************************************)
(* Classes, the way of a learner's completions to them, and their private  *)
(* videos, for every number of users, classes, requests, videos, workers   *)
(* and events.                                                             *)
(***************************************************************************)
EXTENDS ClassVideos, FiniteSetTheorems, SequenceTheorems, NaturalsInduction, TLAPS

-----------------------------------------------------------------------------
(* Sequences and the sets of their elements.                               *)

\* A set of natural numbers that is not empty has a least element.
LEMMA LeastElement ==
    ASSUME NEW N \in SUBSET Nat, N # {}
    PROVE  \E m \in N : \A k \in N : m <= k
  <1>1. IsWellFoundedOn(OpToRel(<, Nat), Nat)
    BY NatLessThanWellFounded
  <1>2. PICK m \in N : \A k \in N : ~(<<k, m>> \in OpToRel(<, Nat))
    BY <1>1, WFMin
  <1>3. \A k \in N : ~(k < m)
    BY <1>2 DEF OpToRel
  <1>4. \A k \in N : k \in Nat /\ m \in Nat
    BY <1>2
  <1>5. \A k \in N : m <= k
    BY <1>3, <1>4
  <1> QED
    BY <1>2, <1>5

\* The elements of a sequence are what its positions hold.
LEMMA ToSetOfSeq ==
    ASSUME NEW S, NEW q \in Seq(S)
    PROVE  /\ Len(q) \in Nat
           /\ \A i \in 1..Len(q) : q[i] \in ToSet(q) /\ q[i] \in S
           /\ \A x \in ToSet(q) : \E i \in 1..Len(q) : x = q[i]
           /\ ToSet(q) \subseteq S
  BY DEF ToSet

\* SetToSeq lists the set, and nothing else.
LEMMA SetToSeqElements ==
    ASSUME NEW S, IsFiniteSet(S)
    PROVE  SetToSeq(S) \in Seq(S) /\ ToSet(SetToSeq(S)) = S
  <1> DEFINE n == Cardinality(S)
             f == SetToSeq(S)
  <1>1. n \in Nat /\ ExistsBijection(1..n, S)
    BY FS_CardinalityType
  <1>2. \E g \in [1..n -> S] : IsInjective(g)
    BY <1>1 DEF ExistsBijection, Bijection, Injection, IsInjective
  <1>3. f \in [1..n -> S] /\ IsInjective(f)
    BY <1>2 DEF SetToSeq
  <1>4. f \in Injection(1..n, S)
    BY <1>3 DEF Injection, IsInjective
  <1>5. Cardinality(1..n) = n
    BY <1>1, FS_Interval
  <1> HIDE DEF n, f
  <1>6. f \in Surjection(1..n, S)
    BY <1>4, <1>5, FS_Injection DEF n
  <1>7. f \in Seq(S)
    BY <1>1, <1>3
  <1>8. \A x \in S : \E i \in 1..n : f[i] = x
    BY <1>6 DEF Surjection
  <1>9. DOMAIN f = 1..n
    BY <1>3
  <1>10. ToSet(f) = S
    BY <1>3, <1>8, <1>9 DEF ToSet
  <1> QED
    BY <1>7, <1>10 DEF f

\* Concatenation puts the elements of both together, and an append adds one.
LEMMA ConcatElements ==
    ASSUME NEW S, NEW p \in Seq(S), NEW q \in Seq(S)
    PROVE  p \o q \in Seq(S) /\ ToSet(p \o q) = ToSet(p) \cup ToSet(q)
  <1> DEFINE r == p \o q
  <1>1. /\ Len(p) \in Nat /\ Len(q) \in Nat
        /\ \A i \in 1..Len(p) : p[i] \in ToSet(p)
        /\ \A i \in 1..Len(q) : q[i] \in ToSet(q)
        /\ \A x \in ToSet(p) : \E i \in 1..Len(p) : x = p[i]
        /\ \A x \in ToSet(q) : \E i \in 1..Len(q) : x = q[i]
    BY ToSetOfSeq
  <1>2. /\ r \in Seq(S) /\ Len(r) = Len(p) + Len(q)
        /\ \A i \in 1..Len(p) + Len(q) : r[i] = IF i <= Len(p) THEN p[i] ELSE q[i - Len(p)]
    BY ConcatProperties
  <1> HIDE DEF r
  <1>3. /\ \A i \in 1..Len(r) : r[i] \in ToSet(r)
        /\ \A x \in ToSet(r) : \E i \in 1..Len(r) : x = r[i]
    BY <1>2, ToSetOfSeq
  <1>4. ASSUME NEW x \in ToSet(r) PROVE x \in ToSet(p) \cup ToSet(q)
    <2>1. PICK i \in 1..Len(p) + Len(q) : x = r[i]
      BY <1>2, <1>3
    <2>2. CASE i <= Len(p)
      BY <1>1, <1>2, <2>1, <2>2
    <2>3. CASE ~(i <= Len(p))
      <3>1. i - Len(p) \in 1..Len(q)
        BY <1>1, <2>1, <2>3
      <3>2. x = q[i - Len(p)]
        BY <1>2, <2>1, <2>3
      <3> QED
        BY <1>1, <3>1, <3>2
    <2> QED
      BY <2>2, <2>3
  <1>5. ASSUME NEW i \in 1..Len(p) PROVE p[i] \in ToSet(r)
    <2>1. i \in 1..Len(r) /\ r[i] = p[i]
      BY <1>1, <1>2
    <2> QED
      BY <1>3, <2>1
  <1>6. ASSUME NEW i \in 1..Len(q) PROVE q[i] \in ToSet(r)
    <2>1. Len(p) + i \in 1..Len(p) + Len(q) /\ Len(p) + i \in 1..Len(r)
      BY <1>1, <1>2
    <2>2. ~(Len(p) + i <= Len(p)) /\ (Len(p) + i) - Len(p) = i
      BY <1>1
    <2>3. r[Len(p) + i] = q[i]
      BY <1>2, <2>1, <2>2
    <2> QED
      BY <1>3, <2>1, <2>3
  <1>7. ToSet(r) = ToSet(p) \cup ToSet(q)
    BY <1>1, <1>4, <1>5, <1>6
  <1> QED
    BY <1>2, <1>7 DEF r

LEMMA AppendElements ==
    ASSUME NEW S, NEW q \in Seq(S), NEW x \in S
    PROVE  Append(q, x) \in Seq(S) /\ ToSet(Append(q, x)) = ToSet(q) \cup {x}
  <1> DEFINE one == <<x>>
  <1>1. Append(q, x) = q \o one
    BY AppendIsConcat
  <1>2. one \in Seq(S) /\ DOMAIN one = {1} /\ one[1] = x
    OBVIOUS
  <1> HIDE DEF one
  <1>3. ToSet(one) = {x}
    BY <1>2 DEF ToSet
  <1>4. q \o one \in Seq(S) /\ ToSet(q \o one) = ToSet(q) \cup ToSet(one)
    BY <1>2, ConcatElements
  <1> QED
    BY <1>1, <1>3, <1>4

\* The head is an element, and what remains has no other elements.
LEMMA TailElements ==
    ASSUME NEW S, NEW q \in Seq(S), q # <<>>
    PROVE  /\ Head(q) \in ToSet(q) /\ Tail(q) \in Seq(S)
           /\ ToSet(Tail(q)) \subseteq ToSet(q)
  <1> DEFINE t == Tail(q)
  <1>1. Len(q) \in Nat \ {0} /\ Head(q) = q[1]
    BY EmptySeq
  <1>2. t \in Seq(S) /\ Len(t) = Len(q) - 1 /\ \A i \in 1..Len(t) : t[i] = q[i + 1]
    BY HeadTailProperties
  <1>3. \A i \in 1..Len(q) : q[i] \in ToSet(q)
    BY ToSetOfSeq
  <1> HIDE DEF t
  <1>4. \A x \in ToSet(t) : \E i \in 1..Len(t) : x = t[i]
    BY <1>2, ToSetOfSeq
  <1>5. \A i \in 1..Len(t) : t[i] \in ToSet(q)
    BY <1>1, <1>2, <1>3
  <1>6. ToSet(t) \subseteq ToSet(q)
    BY <1>4, <1>5
  <1> QED
    BY <1>1, <1>2, <1>3, <1>6 DEF t

\* A part of a sequence has the elements at its positions.
LEMMA PartElements ==
    ASSUME NEW S, NEW q \in Seq(S), NEW m \in Nat \ {0}, NEW n \in Nat, n <= Len(q)
    PROVE  /\ SubSeq(q, m, n) \in Seq(S)
           /\ \A i \in m..n : q[i] \in ToSet(SubSeq(q, m, n))
           /\ ToSet(SubSeq(q, m, n)) \subseteq ToSet(q)
  <1> DEFINE p == SubSeq(q, m, n)
  <1>1. Len(q) \in Nat /\ \A i \in 1..Len(q) : q[i] \in ToSet(q) /\ q[i] \in S
    BY ToSetOfSeq
  <1>2. \A i \in m..n : i \in 1..Len(q)
    BY <1>1
  <1>3. /\ p \in Seq(S)
        /\ Len(p) = IF m <= n THEN n - m + 1 ELSE 0
        /\ \A i \in 1..n - m + 1 : p[i] = q[m + i - 1]
    BY <1>1, <1>2, SubSeqProperties
  <1> HIDE DEF p
  <1>4. /\ \A i \in 1..Len(p) : p[i] \in ToSet(p)
        /\ \A x \in ToSet(p) : \E i \in 1..Len(p) : x = p[i]
    BY <1>3, ToSetOfSeq
  <1>5. ASSUME NEW i \in 1..Len(p) PROVE p[i] \in ToSet(q)
    <2>1. i \in 1..n - m + 1 /\ m + i - 1 \in m..n
      BY <1>3
    <2> QED
      BY <1>1, <1>2, <1>3, <2>1
  <1>6. ASSUME NEW j \in m..n PROVE q[j] \in ToSet(p)
    <2>1. j - m + 1 \in 1..n - m + 1 /\ j - m + 1 \in 1..Len(p)
      BY <1>3
    <2>2. q[j] = p[j - m + 1]
      BY <1>3, <2>1
    <2> QED
      BY <1>4, <2>1, <2>2
  <1>7. ToSet(p) \subseteq ToSet(q)
    BY <1>4, <1>5
  <1> QED
    BY <1>3, <1>6, <1>7 DEF p

\* RemoveFirst takes nothing but what it is told to take.
LEMMA RemoveFirstElements ==
    ASSUME NEW S, NEW q \in Seq(S), NEW k
    PROVE  /\ RemoveFirst(q, k) \in Seq(S)
           /\ ToSet(RemoveFirst(q, k)) \subseteq ToSet(q)
           /\ ToSet(q) \ {k} \subseteq ToSet(RemoveFirst(q, k))
  <1>1. CASE ~\E i \in 1..Len(q) : q[i] = k
    BY <1>1 DEF RemoveFirst
  <1>2. CASE \E i \in 1..Len(q) : q[i] = k
    <2> DEFINE I == {i \in 1..Len(q) : q[i] = k}
               m == Min(I)
    <2>1. PICK j \in I : \A i \in I : j <= i
      <3>1. I \in SUBSET Nat /\ I # {}
        BY <1>2
      <3> QED
        BY <3>1, LeastElement
    <2>2. m \in I
      BY <2>1 DEF Min
    <2>3. RemoveFirst(q, k) = SubSeq(q, 1, m - 1) \o SubSeq(q, m + 1, Len(q))
      BY <1>2 DEF RemoveFirst, RemoveAt, SelectInSeq
    <2>4. m \in 1..Len(q) /\ q[m] = k /\ Len(q) \in Nat
      BY <2>2
    <2> HIDE DEF m, I
    <2> DEFINE p == SubSeq(q, 1, m - 1)
               r == SubSeq(q, m + 1, Len(q))
    <2>5. m - 1 \in Nat /\ m - 1 <= Len(q) /\ m + 1 \in Nat \ {0} /\ 1 \in Nat \ {0}
      BY <2>4
    <2>6. /\ p \in Seq(S) /\ \A i \in 1..m - 1 : q[i] \in ToSet(p)
          /\ ToSet(p) \subseteq ToSet(q)
      BY <2>5, PartElements
    <2>7. /\ r \in Seq(S) /\ \A i \in m + 1..Len(q) : q[i] \in ToSet(r)
          /\ ToSet(r) \subseteq ToSet(q)
      BY <2>4, <2>5, PartElements
    <2> HIDE DEF p, r
    <2>8. p \o r \in Seq(S) /\ ToSet(p \o r) = ToSet(p) \cup ToSet(r)
      BY <2>6, <2>7, ConcatElements
    <2>9. ASSUME NEW x \in ToSet(q) \ {k} PROVE x \in ToSet(p \o r)
      <3>1. PICK i \in 1..Len(q) : x = q[i]
        BY ToSetOfSeq
      <3>2. i \in 1..m - 1 \/ i \in m + 1..Len(q)
        BY <2>4, <3>1
      <3> QED
        BY <2>6, <2>7, <2>8, <3>1, <3>2
    <2>10. RemoveFirst(q, k) = p \o r
      BY <2>3 DEF p, r
    <2> QED
      BY <2>6, <2>7, <2>8, <2>9, <2>10
  <1> QED
    BY <1>1, <1>2
-----------------------------------------------------------------------------
(* What a role lets one see.                                               *)

\* Of the roles somebody without the administrator's can bring to a class as
\* a student or as nobody, none has a statement that allows to view the
\* progress of others.
ViewingOthers(stmt) ==
    /\ stmt.effect = "Allow" /\ stmt.owner # "self"
    /\ MatchAction(stmt, "class-member:ViewProgress")

LEMMA SupportViewsNobody == \A stmt \in ManagedPolicies["PlatformSupport"] : ~ViewingOthers(stmt)
  BY DEF ManagedPolicies, ViewingOthers, MatchAction, Allow, Stmt, EveryAction

\* What the builders of statements leave as it was.
LEMMA OwnStatement ==
    \A actions, on : ~ViewingOthers(Owner(Allow(actions, on), "self"))
  BY DEF ViewingOthers, Allow, Stmt, Owner

LEMMA OwnStatementInScope ==
    \A actions, on, scope : ~ViewingOthers(Owner(InScope(Allow(actions, on), scope), "self"))
  BY DEF ViewingOthers, Allow, Stmt, Owner, InScope

LEMMA DenyStatement ==
    \A actions, on, who, scope, roles :
        /\ ~ViewingOthers(Without(Deny(actions, on), roles))
        /\ ~ViewingOthers(Without(Owner(Deny(actions, on), who), roles))
        /\ ~ViewingOthers(Without(Owner(InScope(Deny(actions, on), scope), who), roles))
  BY DEF ViewingOthers, Deny, Stmt, Owner, InScope, Without

LEMMA OtherStatement ==
    \A actions, on, scope :
        "class-member:ViewProgress" \notin actions /\ EveryAction \notin actions =>
            /\ ~ViewingOthers(Allow(actions, on))
            /\ ~ViewingOthers(InScope(Allow(actions, on), scope))
  BY DEF ViewingOthers, MatchAction, Allow, Stmt, InScope

LEMMA StudyOwnViewsNobody == \A stmt \in StudyOwn : ~ViewingOthers(stmt)
  BY OwnStatement, DenyStatement DEF StudyOwn

LEMMA TeacherViewsNobody == \A stmt \in ManagedPolicies["Teacher"] : ~ViewingOthers(stmt)
  <1> DEFINE usual == {"class:Create", "class:Join", "live:Host", "dashboard:ViewSelf",
                       "wallet:Read", "order:Create"}
  <1>1. ManagedPolicies["Teacher"] =
            StudyOwn \cup {Owner(Allow({"study-set:SetPrice"}, "study-set"), "self"),
                           Allow(usual, "any")}
    BY DEF ManagedPolicies
  <1>2. "class-member:ViewProgress" \notin usual /\ EveryAction \notin usual
    BY DEF EveryAction
  <1> HIDE DEF usual
  <1> QED
    BY <1>1, <1>2, StudyOwnViewsNobody, OwnStatement, OtherStatement

LEMMA StudentViewsNobody == \A stmt \in ManagedPolicies["Student"] : ~ViewingOthers(stmt)
  <1> DEFINE usual == {"class:Join", "live:Join", "dashboard:ViewSelf", "quiz:Attempt",
                       "wallet:Read", "order:Create"}
             unless == {"Teacher", "PlatformAdmin"}
  <1>1. ManagedPolicies["Student"] =
            StudyOwn \cup {Without(Deny({"study-set:SetPrice"}, "study-set"), unless),
                           Allow(usual, "any")}
    BY DEF ManagedPolicies
  <1>2. "class-member:ViewProgress" \notin usual /\ EveryAction \notin usual
    BY DEF EveryAction
  <1> HIDE DEF usual, unless
  <1> QED
    BY <1>1, <1>2, StudyOwnViewsNobody, DenyStatement, OtherStatement

LEMMA ClassStudentViewsNobody ==
    \A stmt \in ManagedPolicies["ClassStudent"] : ~ViewingOthers(stmt)
  <1> DEFINE viewing == {"class-member:ViewProgress"}
             unless == {"PlatformAdmin"}
  <1>1. ManagedPolicies["ClassStudent"] =
            {InScope(Allow(ClassLearning, "class"), "class"),
             Owner(InScope(Allow(viewing, "class"), "class"), "self"),
             Without(Owner(InScope(Deny(viewing, "class"), "class"), "notSelf"), unless)}
    BY DEF ManagedPolicies, StudentPolicy
  <1>2. "class-member:ViewProgress" \notin ClassLearning /\ EveryAction \notin ClassLearning
    BY DEF EveryAction, ClassLearning
  <1> HIDE DEF viewing, unless
  <1> QED
    BY <1>1, <1>2, OwnStatementInScope, DenyStatement, OtherStatement

\* Without the administrator's role a student of a class, like somebody who
\* is not in it, may not view the progress of others.
LEMMA StudentsViewNobody ==
    ASSUME NEW c \in Classes, NEW u \in Users,
           Role(c, u) \in {None, "student"}, "PlatformAdmin" \notin Platform[u]
    PROVE  ~CanViewOthersProgress(c, u)
  <1> DEFINE p == ClassPrincipal(u, c, Role(c, u))
             res == Resource("class", None, c, None)
             viewing == "class-member:ViewProgress"
  <1>1. p.platform = Platform[u] /\ p.legacy = "user" /\ p.classRole = Role(c, u)
    BY DEF ClassPrincipal, Principal
  <1>2. res.owner = None /\ res.org = None
    BY DEF Resource
  <1> HIDE DEF p, res
  <1>3. ResolvedPlatformRoles(p) \subseteq {"PlatformSupport", "Teacher", "Student"}
    BY <1>1, ClassConstants DEF ResolvedPlatformRoles, PlatformRoles
  <1>4. ClassMemberRole(p.classRole) \subseteq {"ClassStudent"}
    BY <1>1, ClassNulls DEF ClassMemberRole
  <1>5. OrgRoleKeys(p, res.org) = {}
    BY <1>2 DEF OrgRoleKeys
  <1>6. EffectiveRoleKeys(p, res) \subseteq {"PlatformSupport", "Teacher", "Student", "ClassStudent"}
    BY <1>3, <1>4, <1>5 DEF EffectiveRoleKeys
  <1>7. \A stmt \in Applying(p, viewing, res) : stmt.effect # "Allow"
    <2>1. SUFFICES ASSUME NEW role \in EffectiveRoleKeys(p, res),
                          NEW stmt \in ManagedPolicies[role],
                          MatchAction(stmt, viewing), EvalConditions(stmt, p, res)
                   PROVE  stmt.effect # "Allow"
      BY DEF Applying
    <2>2. stmt.owner # "self"
      BY <1>2, <2>1 DEF EvalConditions
    <2>3. ~ViewingOthers(stmt)
      BY <1>6, SupportViewsNobody, TeacherViewsNobody, StudentViewsNobody, ClassStudentViewsNobody
    <2> QED
      BY <2>1, <2>2, <2>3 DEF ViewingOthers
  <1>8. ~Can(p, viewing, res)
    BY <1>7 DEF Can
  <1> QED
    BY <1>8 DEF CanViewOthersProgress, p, res
-----------------------------------------------------------------------------
(* The invariant of classes and completions.                               *)

ClassRows == [owner : Users, code : Codes, board : BOOLEAN]
MemberRoles == {"owner", "teacher", "student"}
Ops == {"own", "count", "insert", "role", "remove", "verify", "assign", "unassign",
        "delete", "reset", "board", "unlist", "unstore"}
Requested ==
    [op : Ops, class : Classes, target : Users \cup Sets \cup Videos \cup {None},
     role : MemberRoles \cup StoreKeys \cup {None}]
Sessions == [set : Sets, completed : BOOLEAN, passed : BOOLEAN]

TablesOK ==
    /\ class \in [Classes -> ClassRows \cup {None}]
    /\ member \in [Classes -> [Users -> MemberRoles \cup {None}]]
    /\ assigned \in [Classes -> SUBSET Sets]
    /\ call \in [Requests -> Requested \cup {None}]
    /\ \A c \in Classes : ~Exists(c) => MembersOf(c) = {} /\ assigned[c] = {}
    /\ \A c, d \in Classes : Exists(c) /\ Exists(d) /\ c # d => class[c].code # class[d].code

\* What an admitted request may still rely on when its statement runs: who
\* owns a class never changes, and a new class has no old request.
Fits(q) ==
    /\ q.op \in {"own", "count", "insert", "role", "remove"} => q.target \in Users
    /\ q.op \in {"count", "insert", "role"} => q.role \in {"teacher", "student"}
    /\ q.op \in {"verify", "assign", "unassign"} => q.target \in Sets
    /\ q.op \in {"unlist", "unstore"} => q.target \in Videos
    /\ q.op = "unstore" => q.role \in StoreKeys /\ q.role.video = q.target
    /\ q.op = "own" /\ Exists(q.class) => q.target = class[q.class].owner
    /\ q.op \in {"role", "remove"} /\ Exists(q.class) => q.target # class[q.class].owner
CallsFit == \A r \in Requests : call[r] # None => Fits(call[r])

\* The requests that have been let through to a class, and the room they need.
Entering(c) ==
    {r \in Requests : (Running(r, "insert") \/ Running(r, "own")) /\ call[r].class = c}
RoomKept ==
    \A c \in Classes : Exists(c) =>
        /\ IsFiniteSet(MembersOf(c))
        /\ Cardinality(MembersOf(c)) + Cardinality(Entering(c))
               <= MaxMembers + Cardinality(Requests) - 1

MInv == TablesOK /\ CallsFit /\ RoomKept /\ OwnerKept

EventsOK ==
    /\ session \in [Keys -> Sessions \cup {None}]
    /\ outbox \in Seq(Keys) /\ batch \in Seq(Keys) /\ sent \in SUBSET Keys
    /\ stream \in [Keys -> 0..MaxCopies]
    /\ noted \in [Keys -> [Classes -> 0..1]]
EventsKept == EventsOK /\ CompletionNotLost

\* What is on its way, and what a class has recorded, was completed.
EventsEarned ==
    /\ \A k \in ToSet(outbox) \cup ToSet(batch) \cup sent : Completes(k)
    /\ \A k \in Keys : stream[k] > 0 => Completes(k)
    /\ CompletionEarned

EInv == EventsKept /\ EventsEarned

\* Requests are finitely many, and so are those of them that enter a class.
LEMMA EnteringFinite ==
    ASSUME NEW S \in SUBSET Requests
    PROVE  IsFiniteSet(S) /\ Cardinality(S) \in Nat /\ Cardinality(S) <= Cardinality(Requests)
           /\ Cardinality(Requests) \in Nat
  BY ClassConstants, FS_Subset, FS_CardinalityType

LEMMA MembersInit == ClassroomInit => MInv /\ EInv
  <1> SUFFICES ASSUME ClassroomInit PROVE MInv /\ EInv
    OBVIOUS
  <1>1. TablesOK
    BY DEF ClassroomInit, TablesOK, Exists, MembersOf
  <1>2. CallsFit
    BY DEF ClassroomInit, CallsFit
  <1>3. RoomKept /\ OwnerKept
    BY DEF ClassroomInit, RoomKept, OwnerKept, Exists
  <1>4. EventsOK
    BY ClassConstants DEF ClassroomInit, EventsOK
  <1>5. CompletionNotLost
    BY DEF ClassroomInit, CompletionNotLost, Completes
  <1>6. EventsEarned
    <2>1. ToSet(<<>>) = {}
      BY DEF ToSet
    <2> QED
      BY <2>1 DEF ClassroomInit, EventsEarned, CompletionEarned
  <1> QED
    BY <1>1, <1>2, <1>3, <1>4, <1>5, <1>6 DEF MInv, EInv, EventsKept

\* A request moves on, or ends, and no row of a class or member changes.  It
\* is let through to a class only while the class has room for it.
LEMMA CallStep ==
    ASSUME MInv, NEW r \in Requests, NEW q, class' = class, member' = member,
           assigned' \in [Classes -> SUBSET Sets],
           \A c \in Classes : ~Exists(c) => assigned'[c] = {},
           call' = [call EXCEPT ![r] = q],
           q = None \/ (q \in Requested /\ Fits(q)),
           Running(r, "own") => call[r].class \in unowned',
           unowned \subseteq unowned',
           q # None /\ q.op \in {"own", "insert"} =>
               Cardinality(MembersOf(q.class)) + 1 <= MaxMembers
    PROVE  MInv'
  <1> USE DEF MInv
  <1>1. TablesOK'
    BY DEF TablesOK, Exists, MembersOf
  <1>2. CallsFit'
    BY DEF TablesOK, CallsFit, Fits, Exists
  <1>3. OwnerKept'
    BY DEF TablesOK, OwnerKept, Exists, Running
  <1>4. RoomKept'
    <2> SUFFICES ASSUME NEW c \in Classes, Exists(c)
                 PROVE  /\ IsFiniteSet(MembersOf(c))
                        /\ Cardinality(MembersOf(c)) + Cardinality(Entering(c)')
                               <= MaxMembers + Cardinality(Requests) - 1
      BY DEF RoomKept, Exists, MembersOf
    <2>1. IsFiniteSet(MembersOf(c)) /\ Cardinality(MembersOf(c)) \in Nat
      BY FS_CardinalityType DEF RoomKept
    <2>2. Entering(c) \in SUBSET Requests /\ Entering(c)' \in SUBSET Requests
      BY DEF Entering
    <2>3. CASE r \in Entering(c)'
      <3>1. Cardinality(MembersOf(c)) + 1 <= MaxMembers
        BY <2>3 DEF Entering, Running, TablesOK
      <3> QED
        BY <2>1, <2>2, <3>1, EnteringFinite, ClassConstants
    <2>4. CASE r \notin Entering(c)'
      <3>1. Entering(c)' \subseteq Entering(c)
        BY <2>4 DEF Entering, Running, TablesOK
      <3>2. /\ Cardinality(Entering(c)') <= Cardinality(Entering(c))
            /\ Cardinality(Entering(c)') \in Nat /\ Cardinality(Entering(c)) \in Nat
            /\ Cardinality(Requests) \in Nat
        BY <2>2, <3>1, EnteringFinite, FS_Subset
      <3> QED
        BY <2>1, <3>2, ClassConstants DEF RoomKept
    <2> QED
      BY <2>3, <2>4
  <1> QED
    BY <1>1, <1>2, <1>3, <1>4
\* A request ends with a change of one member row.  A row is new only for a
\* request that had been let through, the owner's row goes only to the
\* owner, and no other request touches it.
LEMMA MemberStep ==
    ASSUME MInv, NEW r \in Requests, call[r] # None, NEW u \in Users,
           NEW role \in MemberRoles \cup {None},
           class' = class, assigned' = assigned, unowned' = unowned,
           call' = [call EXCEPT ![r] = None],
           member' = [member EXCEPT ![call[r].class] = [@ EXCEPT ![u] = role]],
           role # None => Exists(call[r].class),
           call[r].op \in {"own", "insert"}
               \/ role = None \/ member[call[r].class][u] # None,
           Exists(call[r].class) =>
               IF role = "owner" THEN u = class[call[r].class].owner
               ELSE /\ call[r].op # "own"
                    /\ \/ u # class[call[r].class].owner
                       \/ member[call[r].class][u] # "owner"
    PROVE  MInv'
  <1> USE DEF MInv
  <1> DEFINE d == call[r].class
  <1>1. call[r] \in Requested /\ d \in Classes
    BY DEF TablesOK, Requested
  <1> HIDE DEF d
  <1>a. \A c \in Classes \ {d} : member'[c] = member[c]
    BY DEF TablesOK, d
  <1>b. member'[d] = [member[d] EXCEPT ![u] = role]
    BY <1>1 DEF TablesOK, d
  <1>2. TablesOK'
    <2>1. member' \in [Classes -> [Users -> MemberRoles \cup {None}]]
      BY <1>1 DEF TablesOK, d
    <2>2. call' \in [Requests -> Requested \cup {None}]
      BY DEF TablesOK
    <2>3. ASSUME NEW c \in Classes, ~Exists(c) PROVE MembersOf(c)' = {}
      <3>1. MembersOf(c) = {}
        BY <2>3 DEF TablesOK
      <3>2. CASE c = d
        BY <1>1, <1>b, <2>3, <3>1, <3>2 DEF d, MembersOf, TablesOK
      <3> QED
        BY <1>a, <3>1, <3>2 DEF MembersOf
    <2> QED
      BY <2>1, <2>2, <2>3 DEF TablesOK, Exists
  <1>3. CallsFit'
    BY DEF TablesOK, CallsFit, Fits, Exists
  <1>4. OwnerKept'
    <2> SUFFICES ASSUME NEW c \in Classes, Exists(c)
                 PROVE  /\ \A x \in Users : member'[c][x] = "owner" => x = class[c].owner
                        /\ \/ member'[c][class[c].owner] = "owner" \/ c \in unowned
                           \/ \E x \in Requests : Running(x, "own")' /\ call'[x].class = c
      BY DEF OwnerKept, Exists
    <2>1. class[c].owner \in Users
      BY DEF TablesOK, Exists, ClassRows
    <2>2. \A x \in Users : member'[c][x] = "owner" => x = class[c].owner
      BY <1>a, <1>b, <1>1 DEF OwnerKept, d, TablesOK
    <2>3. CASE member[c][class[c].owner] = "owner"
      <3>1. CASE c # d
        BY <1>a, <2>2, <2>3, <3>1
      <3>2. CASE c = d /\ role = "owner"
        <4>1. u = class[c].owner
          BY <3>2 DEF d
        <4> QED
          BY <1>b, <2>1, <2>2, <3>2, <4>1 DEF TablesOK
      <3>3. CASE c = d /\ role # "owner"
        <4>1. u # class[c].owner
          BY <2>3, <3>3 DEF d
        <4> QED
          BY <1>b, <2>1, <2>2, <2>3, <3>3, <4>1 DEF TablesOK
      <3> QED
        BY <3>1, <3>2, <3>3
    <2>4. CASE c \in unowned
      BY <2>2, <2>4
    <2>5. CASE \E x \in Requests : Running(x, "own") /\ call[x].class = c
      <3>1. PICK x \in Requests : Running(x, "own") /\ call[x].class = c
        BY <2>5
      <3>2. CASE x # r
        BY <2>2, <3>1, <3>2 DEF Running, TablesOK
      <3>3. CASE x = r
        <4>1. c = d /\ role = "owner" /\ u = class[c].owner
          BY <3>1, <3>3 DEF Running, d
        <4> QED
          BY <1>b, <2>1, <2>2, <4>1 DEF TablesOK
      <3> QED
        BY <3>2, <3>3
    <2> QED
      BY <2>2, <2>3, <2>4, <2>5 DEF OwnerKept
  <1>5. RoomKept'
    <2> SUFFICES ASSUME NEW c \in Classes, Exists(c)
                 PROVE  /\ IsFiniteSet(MembersOf(c)')
                        /\ Cardinality(MembersOf(c)') + Cardinality(Entering(c)')
                               <= MaxMembers + Cardinality(Requests) - 1
      BY DEF RoomKept, Exists
    <2>1. /\ IsFiniteSet(MembersOf(c)) /\ Cardinality(MembersOf(c)) \in Nat
          /\ Cardinality(MembersOf(c)) + Cardinality(Entering(c))
                 <= MaxMembers + Cardinality(Requests) - 1
      BY FS_CardinalityType DEF RoomKept
    <2>2. Entering(c) \in SUBSET Requests /\ Entering(c)' = Entering(c) \ {r}
      BY DEF Entering, Running, TablesOK
    <2>3. /\ IsFiniteSet(Entering(c)) /\ Cardinality(Entering(c)) \in Nat
          /\ Cardinality(Entering(c)') =
                IF r \in Entering(c) THEN Cardinality(Entering(c)) - 1 ELSE Cardinality(Entering(c))
          /\ Cardinality(Requests) \in Nat
      BY <2>2, EnteringFinite, FS_RemoveElement
    <2>4. CASE MembersOf(c)' \subseteq MembersOf(c)
      <3>1. /\ IsFiniteSet(MembersOf(c)') /\ Cardinality(MembersOf(c)') \in Nat
            /\ Cardinality(MembersOf(c)') <= Cardinality(MembersOf(c))
        BY <2>1, <2>4, FS_Subset, FS_CardinalityType
      <3> QED
        BY <2>1, <2>3, <3>1, ClassConstants
    <2>5. CASE ~(MembersOf(c)' \subseteq MembersOf(c))
      <3>1. c = d /\ role # None /\ member[c][u] = None
        BY <1>a, <1>b, <2>5 DEF MembersOf, TablesOK
      <3>2. MembersOf(c)' \subseteq MembersOf(c) \cup {u}
        BY <1>b, <3>1 DEF MembersOf, TablesOK
      <3>3. r \in Entering(c)
        BY <3>1 DEF Entering, Running, d
      <3>4. /\ IsFiniteSet(MembersOf(c) \cup {u})
            /\ Cardinality(MembersOf(c) \cup {u}) <= Cardinality(MembersOf(c)) + 1
        <4>1. /\ IsFiniteSet(MembersOf(c) \cup {u})
              /\ Cardinality(MembersOf(c) \cup {u}) =
                    IF u \in MembersOf(c) THEN Cardinality(MembersOf(c))
                    ELSE Cardinality(MembersOf(c)) + 1
          BY <2>1, FS_AddElement
        <4> QED
          BY <2>1, <4>1
      <3>5. /\ IsFiniteSet(MembersOf(c)') /\ Cardinality(MembersOf(c)') \in Nat
            /\ Cardinality(MembersOf(c)') <= Cardinality(MembersOf(c) \cup {u})
            /\ Cardinality(MembersOf(c) \cup {u}) \in Nat
        BY <3>2, <3>4, FS_Subset, FS_CardinalityType
      <3> QED
        BY <2>1, <2>3, <3>3, <3>4, <3>5, ClassConstants
    <2> QED
      BY <2>4, <2>5
  <1> QED
    BY <1>2, <1>3, <1>4, <1>5
\* An admission records what the request asked for.
LEMMA AdmitStep ==
    ASSUME MInv, NEW r \in Requests, call[r] = None,
           NEW op \in Ops \ {"own", "insert"}, NEW c \in Classes,
           NEW target \in Users \cup Sets \cup Videos \cup {None},
           NEW role \in MemberRoles \cup StoreKeys \cup {None},
           Admit(r, op, c, target, role),
           Fits([op |-> op, class |-> c, target |-> target, role |-> role])
    PROVE  MInv'
  <1> DEFINE q == [op |-> op, class |-> c, target |-> target, role |-> role]
  <1>1. q \in Requested /\ Fits(q) /\ q.op \notin {"own", "insert"}
    BY DEF Requested
  <1>2. /\ class' = class /\ member' = member /\ assigned' = assigned /\ unowned' = unowned
        /\ call' = [call EXCEPT ![r] = q]
    BY DEF Admit
  <1>3. /\ assigned' \in [Classes -> SUBSET Sets]
        /\ \A d \in Classes : ~Exists(d) => assigned'[d] = {}
    BY <1>2 DEF MInv, TablesOK
  <1>4. ~Running(r, "own")
    BY DEF Running
  <1> HIDE DEF q
  <1> QED
    BY <1>1, <1>2, <1>3, <1>4, CallStep

LEMMA AdmissionStep ==
    ASSUME MInv, NEW r \in Requests, NEW u \in Users, NEW c \in Classes,
           call[r] = None,
           \/ AskDeleteClass(r, u, c) \/ AskResetInvite(r, u, c) \/ AskLeave(r, u, c)
           \/ \E code \in Codes : AskJoin(r, u, c, code)
           \/ \E target \in Users : AskRemove(r, u, c, target)
           \/ \E target \in Users, role \in {"teacher", "student"} :
                 AskAdd(r, u, c, target, role) \/ AskUpdateRole(r, u, c, target, role)
           \/ ContentAdmissions(r, u, c)
    PROVE  MInv'
  <1> USE DEF Ops, MemberRoles
  <1>1. CASE AskDeleteClass(r, u, c)
    BY <1>1, AdmitStep DEF AskDeleteClass, Fits
  <1>2. CASE AskResetInvite(r, u, c)
    BY <1>2, AdmitStep DEF AskResetInvite, Fits
  <1>3. CASE AskLeave(r, u, c)
    BY <1>3, AdmitStep DEF AskLeave, Fits
  <1>4. ASSUME NEW code \in Codes, AskJoin(r, u, c, code) PROVE MInv'
    BY <1>4, AdmitStep DEF AskJoin, Fits
  <1>5. ASSUME NEW target \in Users, AskRemove(r, u, c, target) PROVE MInv'
    BY <1>5, AdmitStep DEF AskRemove, Fits
  <1>6. ASSUME NEW target \in Users, NEW role \in {"teacher", "student"},
               AskAdd(r, u, c, target, role)
        PROVE  MInv'
    BY <1>6, AdmitStep DEF AskAdd, Fits
  <1>7. ASSUME NEW target \in Users, NEW role \in {"teacher", "student"},
               AskUpdateRole(r, u, c, target, role)
        PROVE  MInv'
    BY <1>7, AdmitStep DEF AskUpdateRole, Fits
  <1>8. CASE ContentAdmissions(r, u, c)
    <2>1. CASE AskLeaderboard(r, u, c)
      BY <2>1, AdmitStep DEF AskLeaderboard, Fits
    <2>2. ASSUME NEW s \in Sets, AskAssign(r, u, c, s) PROVE MInv'
      BY <2>2, AdmitStep DEF AskAssign, Fits
    <2>3. ASSUME NEW s \in Sets, AskUnassign(r, u, c, s) PROVE MInv'
      BY <2>3, AdmitStep DEF AskUnassign, Fits
    <2> QED
      BY <1>8, <2>1, <2>2, <2>3 DEF ContentAdmissions
  <1> QED
    BY <1>1, <1>2, <1>3, <1>4, <1>5, <1>6, <1>7, <1>8

\* A new class has room for its owner, and no request of an earlier one.
LEMMA CreateClassStep ==
    ASSUME MInv, NEW r \in Requests, NEW u \in Users, NEW c \in Classes, NEW code \in Codes,
           call[r] = None, CreateClass(r, u, c, code)
    PROVE  MInv'
  <1> USE DEF MInv
  <1> DEFINE q == [op |-> "own", class |-> c, target |-> u, role |-> "owner"]
             row == [owner |-> u, code |-> code, board |-> FALSE]
  <1>1. /\ ~Exists(c) /\ ~CodeTaken(code) /\ unowned' = unowned \ {c}
        /\ \A x \in Requests : call[x] # None => call[x].class # c
        /\ class' = [class EXCEPT ![c] = row] /\ call' = [call EXCEPT ![r] = q]
        /\ member' = member /\ assigned' = assigned
    BY DEF CreateClass
  <1>2. q \in Requested /\ q # None
    BY ClassNulls DEF Requested, Ops, MemberRoles
  <1>3. row \in ClassRows /\ row # None /\ row.owner = u /\ row.code = code
    <2>1. row \in ClassRows
      BY DEF ClassRows
    <2>2. ClassRows = [owner : Users, code : Codes, board : BOOLEAN]
      BY DEF ClassRows
    <2> HIDE DEF row
    <2>3. row # None
      BY <2>1, <2>2, ClassNulls
    <2> QED
      BY <2>1, <2>3 DEF row
  <1>4. q.op = "own" /\ q.class = c /\ q.target = u
    OBVIOUS
  <1> HIDE DEF q, row
  <1>5. class'[c] = row /\ \A d \in Classes \ {c} : class'[d] = class[d]
    BY <1>1 DEF TablesOK
  <1>6. call'[r] = q /\ \A x \in Requests \ {r} : call'[x] = call[x]
    BY <1>1 DEF TablesOK
  <1>7. MembersOf(c) = {} /\ MembersOf(c)' = {}
    BY <1>1 DEF TablesOK, MembersOf
  <1>8. TablesOK'
    <2>1. class' \in [Classes -> ClassRows \cup {None}]
          /\ call' \in [Requests -> Requested \cup {None}]
      BY <1>1, <1>2, <1>3 DEF TablesOK
    <2>2. \A d \in Classes : ~Exists(d)' => MembersOf(d)' = {} /\ assigned'[d] = {}
      BY <1>1, <1>5 DEF TablesOK, Exists, MembersOf
    <2>3. ASSUME NEW d \in Classes, NEW e \in Classes, Exists(d)', Exists(e)', d # e
          PROVE  class'[d].code # class'[e].code
      BY <1>1, <1>3, <1>5, <2>3 DEF TablesOK, Exists, CodeTaken
    <2> QED
      BY <1>1, <2>1, <2>2, <2>3 DEF TablesOK
  <1>9. CallsFit'
    <2> SUFFICES ASSUME NEW x \in Requests, call'[x] # None PROVE Fits(call[x])'
      BY DEF CallsFit
    <2>1. CASE x = r
      BY <1>3, <1>4, <1>5, <1>6, <2>1 DEF Fits
    <2>2. CASE x # r
      <3>1. Fits(call[x]) /\ call[x].class \in Classes \ {c} /\ call'[x] = call[x]
        BY <1>1, <1>6, <2>2 DEF CallsFit, TablesOK, Requested
      <3> QED
        BY <1>5, <3>1 DEF Fits, Exists
    <2> QED
      BY <2>1, <2>2
  <1>10. OwnerKept'
    <2> SUFFICES ASSUME NEW d \in Classes, Exists(d)'
                 PROVE  /\ \A x \in Users : member'[d][x] = "owner" => x = class'[d].owner
                        /\ \/ member'[d][class'[d].owner] = "owner" \/ d \in unowned'
                           \/ \E x \in Requests : Running(x, "own")' /\ call'[x].class = d
      BY DEF OwnerKept
    <2>1. CASE d = c
      <3>1. Running(r, "own")' /\ call'[r].class = d
        BY <1>2, <1>4, <1>6, <2>1 DEF Running
      <3>2. \A x \in Users : member'[d][x] # "owner"
        BY <1>7, <2>1, ClassNulls DEF MembersOf
      <3> QED
        BY <3>1, <3>2
    <2>2. CASE d # c
      <3>1. class'[d] = class[d] /\ Exists(d)
        BY <1>5, <2>2 DEF Exists
      <3>2. \A x \in Requests : Running(x, "own") => x # r
        BY DEF Running
      <3>3. \A x \in Requests \ {r} : Running(x, "own")' = Running(x, "own")
        BY <1>6 DEF Running
      <3>4. CASE \E x \in Requests : Running(x, "own") /\ call[x].class = d
        BY <1>1, <1>6, <3>1, <3>2, <3>3, <3>4 DEF OwnerKept
      <3>5. CASE ~\E x \in Requests : Running(x, "own") /\ call[x].class = d
        BY <1>1, <2>2, <3>1, <3>5 DEF OwnerKept
      <3> QED
        BY <3>4, <3>5
    <2> QED
      BY <2>1, <2>2
  <1>11. RoomKept'
    <2> SUFFICES ASSUME NEW d \in Classes, Exists(d)'
                 PROVE  /\ IsFiniteSet(MembersOf(d)')
                        /\ Cardinality(MembersOf(d)') + Cardinality(Entering(d)')
                               <= MaxMembers + Cardinality(Requests) - 1
      BY DEF RoomKept
    <2>1. CASE d = c
      <3>1. IsFiniteSet(MembersOf(d)') /\ Cardinality(MembersOf(d)') = 0
        BY <1>7, <2>1, FS_EmptySet
      <3>2. Entering(d)' \in SUBSET Requests
        BY DEF Entering
      <3>3. /\ Cardinality(Entering(d)') \in Nat /\ Cardinality(Requests) \in Nat
            /\ Cardinality(Entering(d)') <= Cardinality(Requests)
        BY <3>2, EnteringFinite
      <3> QED
        BY <3>1, <3>3, ClassConstants
    <2>2. CASE d # c
      <3>1. Exists(d) /\ MembersOf(d)' = MembersOf(d)
        BY <1>1, <1>5, <2>2 DEF Exists, MembersOf
      <3>2. Entering(d)' = Entering(d)
        BY <1>4, <1>6, <2>2 DEF Entering, Running
      <3> QED
        BY <3>1, <3>2 DEF RoomKept
    <2> QED
      BY <2>1, <2>2
  <1> QED
    BY <1>8, <1>9, <1>10, <1>11
\* A change of a class keeps its owner and takes no code of another.
LEMMA ClassRowStep ==
    ASSUME MInv, NEW r \in Requests, call[r] # None, call[r].op # "own",
           NEW c \in Classes, Exists(c), NEW row \in ClassRows, row.owner = class[c].owner,
           row.code = class[c].code \/ ~CodeTaken(row.code),
           class' = [class EXCEPT ![c] = row], call' = [call EXCEPT ![r] = None],
           member' = member, assigned' = assigned, unowned' = unowned
    PROVE  MInv'
  <1> USE DEF MInv
  <1>1. class'[c] = row /\ \A d \in Classes \ {c} : class'[d] = class[d]
    BY DEF TablesOK
  <1>2. call'[r] = None /\ \A x \in Requests \ {r} : call'[x] = call[x]
    BY DEF TablesOK
  <1>3. \A d \in Classes : Exists(d)' => Exists(d) /\ class'[d].owner = class[d].owner
    BY <1>1 DEF Exists
  <1>4. TablesOK'
    <2>1. class' \in [Classes -> ClassRows \cup {None}]
          /\ call' \in [Requests -> Requested \cup {None}]
      BY DEF TablesOK
    <2>2. row # None
      BY ClassNulls DEF ClassRows
    <2>3. \A d \in Classes : ~Exists(d)' => MembersOf(d)' = {} /\ assigned'[d] = {}
      BY <1>1, <2>2 DEF TablesOK, Exists, MembersOf
    <2>4. ASSUME NEW d \in Classes, NEW e \in Classes, Exists(d)', Exists(e)', d # e
          PROVE  class'[d].code # class'[e].code
      BY <1>1, <1>3, <2>4 DEF TablesOK, Exists, CodeTaken
    <2> QED
      BY <2>1, <2>3, <2>4 DEF TablesOK
  <1>5. CallsFit'
    <2> SUFFICES ASSUME NEW x \in Requests, call'[x] # None PROVE Fits(call[x])'
      BY <1>2 DEF CallsFit, Fits, Exists
    <2>1. call'[x] = call[x] /\ Fits(call[x]) /\ call[x].class \in Classes
      BY <1>2 DEF CallsFit, TablesOK, Requested
    <2> QED
      BY <1>3, <2>1 DEF Fits
  <1>6. OwnerKept'
    <2> SUFFICES ASSUME NEW d \in Classes, Exists(d)'
                 PROVE  /\ \A x \in Users : member'[d][x] = "owner" => x = class'[d].owner
                        /\ \/ member'[d][class'[d].owner] = "owner" \/ d \in unowned'
                           \/ \E x \in Requests : Running(x, "own")' /\ call'[x].class = d
      BY DEF OwnerKept
    <2>1. \A x \in Requests : Running(x, "own") => Running(x, "own")' /\ call'[x] = call[x]
      BY <1>2 DEF Running
    <2> QED
      BY <1>3, <2>1 DEF OwnerKept
  <1>7. RoomKept'
    <2> SUFFICES ASSUME NEW d \in Classes, Exists(d)
                 PROVE  /\ IsFiniteSet(MembersOf(d))
                        /\ Cardinality(MembersOf(d)) + Cardinality(Entering(d)')
                               <= MaxMembers + Cardinality(Requests) - 1
      BY <1>3 DEF RoomKept, MembersOf
    <2>1. Entering(d) \in SUBSET Requests /\ Entering(d)' \subseteq Entering(d)
      BY <1>2 DEF Entering, Running
    <2>2. /\ Cardinality(Entering(d)') <= Cardinality(Entering(d))
          /\ Cardinality(Entering(d)') \in Nat /\ Cardinality(Entering(d)) \in Nat
          /\ Cardinality(Requests) \in Nat
      BY <2>1, EnteringFinite, FS_Subset
    <2>3. Cardinality(MembersOf(d)) \in Nat
      BY FS_CardinalityType DEF RoomKept
    <2> QED
      BY <2>2, <2>3, ClassConstants DEF RoomKept
  <1> QED
    BY <1>4, <1>5, <1>6, <1>7

\* A class goes with its members and assignments.
LEMMA DeleteClassStep ==
    ASSUME MInv, NEW r \in Requests, DeleteClass(r)
    PROVE  MInv'
  <1> USE DEF MInv
  <1>1. Running(r, "delete") /\ call[r].class \in Classes
    BY DEF DeleteClass, Running, TablesOK, Requested
  <1>0. PICK c \in Classes : c = call[r].class
    BY <1>1
  <1>2. /\ class' = [class EXCEPT ![c] = None]
        /\ member' = [member EXCEPT ![c] = [u \in Users |-> None]]
        /\ assigned' = [assigned EXCEPT ![c] = {}]
        /\ unowned' = unowned \ {c} /\ call' = [call EXCEPT ![r] = None]
    BY <1>0 DEF DeleteClass, Done
  <1>3. /\ class'[c] = None /\ member'[c] = [u \in Users |-> None] /\ assigned'[c] = {}
        /\ \A d \in Classes \ {c} : class'[d] = class[d] /\ member'[d] = member[d]
                                    /\ assigned'[d] = assigned[d]
    BY <1>1, <1>2 DEF TablesOK
  <1>4. call'[r] = None /\ \A x \in Requests \ {r} : call'[x] = call[x]
    BY <1>2 DEF TablesOK
  <1>5. /\ ~Exists(c)' /\ MembersOf(c)' = {}
        /\ \A d \in Classes : Exists(d)' => Exists(d) /\ d # c
        /\ \A d \in Classes : ~Exists(d)' /\ d # c => ~Exists(d)
        /\ \A d \in Classes \ {c} : MembersOf(d)' = MembersOf(d)
    <2>1. ~Exists(c)' /\ MembersOf(c)' = {}
      <3>1. \A u \in Users : member'[c][u] = None
        BY <1>3
      <3>2. MembersOf(c)' = {}
        BY <3>1 DEF MembersOf
      <3> QED
        BY <1>3, <3>2 DEF Exists
    <2>2. \A d \in Classes : Exists(d)' => Exists(d) /\ d # c
      BY <1>3 DEF Exists
    <2>3. \A d \in Classes : ~Exists(d)' /\ d # c => ~Exists(d)
      BY <1>3 DEF Exists
    <2>4. \A d \in Classes \ {c} : MembersOf(d)' = MembersOf(d)
      BY <1>3 DEF MembersOf
    <2> QED
      BY <2>1, <2>2, <2>3, <2>4
  <1>6. TablesOK'
    <2>1. class' \in [Classes -> ClassRows \cup {None}]
          /\ call' \in [Requests -> Requested \cup {None}]
          /\ assigned' \in [Classes -> SUBSET Sets]
      BY <1>2 DEF TablesOK
    <2>2. member' \in [Classes -> [Users -> MemberRoles \cup {None}]]
      BY <1>2 DEF TablesOK
    <2>3. ASSUME NEW d \in Classes, ~Exists(d)' PROVE MembersOf(d)' = {} /\ assigned'[d] = {}
      <3>1. CASE d = c
        BY <1>3, <1>5, <3>1
      <3>2. CASE d # c
        <4>1. ~Exists(d) /\ MembersOf(d)' = MembersOf(d) /\ assigned'[d] = assigned[d]
          BY <1>3, <1>5, <2>3, <3>2
        <4> QED
          BY <4>1 DEF TablesOK
      <3> QED
        BY <3>1, <3>2
    <2>4. ASSUME NEW d \in Classes, NEW e \in Classes, Exists(d)', Exists(e)', d # e
          PROVE  class'[d].code # class'[e].code
      BY <1>3, <1>5, <2>4 DEF TablesOK
    <2> QED
      BY <2>1, <2>2, <2>3, <2>4 DEF TablesOK
  <1>7. CallsFit'
    <2> SUFFICES ASSUME NEW x \in Requests, call'[x] # None PROVE Fits(call[x])'
      BY <1>4 DEF CallsFit, Fits, Exists
    <2>1. call'[x] = call[x] /\ Fits(call[x]) /\ call[x].class \in Classes
      BY <1>4 DEF CallsFit, TablesOK, Requested
    <2> QED
      BY <1>3, <1>5, <2>1 DEF Fits
  <1>8. OwnerKept'
    <2> SUFFICES ASSUME NEW d \in Classes, Exists(d)'
                 PROVE  /\ \A x \in Users : member'[d][x] = "owner" => x = class'[d].owner
                        /\ \/ member'[d][class'[d].owner] = "owner" \/ d \in unowned'
                           \/ \E x \in Requests : Running(x, "own")' /\ call'[x].class = d
      BY DEF OwnerKept
    <2>1. \A x \in Requests : Running(x, "own") => Running(x, "own")' /\ call'[x] = call[x]
      BY <1>1, <1>4 DEF Running
    <2>2. d # c /\ class'[d] = class[d] /\ member'[d] = member[d] /\ Exists(d)
      BY <1>3, <1>5
    <2> QED
      BY <1>2, <2>1, <2>2 DEF OwnerKept
  <1>9. RoomKept'
    <2> SUFFICES ASSUME NEW d \in Classes, Exists(d)'
                 PROVE  /\ IsFiniteSet(MembersOf(d)')
                        /\ Cardinality(MembersOf(d)') + Cardinality(Entering(d)')
                               <= MaxMembers + Cardinality(Requests) - 1
      BY DEF RoomKept
    <2>1. Exists(d) /\ MembersOf(d)' = MembersOf(d)
      BY <1>5
    <2>2. Entering(d)' = Entering(d)
      BY <1>1, <1>4 DEF Entering, Running
    <2> QED
      BY <2>1, <2>2 DEF RoomKept
  <1> QED
    BY <1>6, <1>7, <1>8, <1>9

\* The statement of a request, whichever it is.
LEMMA StatementStep ==
    ASSUME MInv, NEW r \in Requests, Statement(r)
    PROVE  MInv'
  <1> DEFINE q == call[r]
             c == call[r].class
  <1>1. q \in Requested /\ Fits(q) /\ q # None /\ c \in Classes
    <2>1. q # None
      BY DEF Statement, AddOwner, CountMembers, InsertMember, UpdateRole, RemoveMember,
             VerifySet, AssignSet, UnassignSet, ResetInvite, SetLeaderboard, Running
    <2> QED
      BY <2>1 DEF MInv, CallsFit, TablesOK, Requested
  <1>2. assigned \in [Classes -> SUBSET Sets] /\ \A d \in Classes : ~Exists(d) => assigned[d] = {}
    BY DEF MInv, TablesOK
  <1>3. CASE AddOwner(r)
    <2>1. q.op = "own" /\ call' = [call EXCEPT ![r] = None]
          /\ class' = class /\ assigned' = assigned /\ q.target \in Users
      BY <1>1, <1>3 DEF AddOwner, Running, Done, Fits
    <2>2. CASE /\ Exists(c) /\ member[c][q.target] = None
               /\ member' = [member EXCEPT ![c] = [@ EXCEPT ![q.target] = "owner"]]
               /\ UNCHANGED unowned
      <3>1. q.target = class[c].owner
        BY <1>1, <2>1, <2>2 DEF Fits
      <3> QED
        BY <1>1, <2>1, <2>2, <3>1, MemberStep DEF MemberRoles
    <2>3. CASE unowned' = unowned \cup {c} /\ UNCHANGED member
      BY <1>1, <1>2, <2>1, <2>3, CallStep
    <2> QED
      BY <1>3, <2>2, <2>3 DEF AddOwner
  <1>4. CASE CountMembers(r)
    <2>1. q.op = "count" /\ class' = class /\ member' = member /\ assigned' = assigned
          /\ unowned' = unowned
      BY <1>4 DEF CountMembers, Running
    <2>2. CASE Exists(c) /\ Cardinality(MembersOf(c)) + 1 <= MaxMembers /\ Next_op(r, "insert")
      <3> DEFINE n == [call[r] EXCEPT !.op = "insert"]
      <3>1. n \in Requested /\ n.op = "insert" /\ n.class = c /\ n.target = q.target
            /\ n.role = q.role
        BY <1>1 DEF Requested, Ops
      <3>2. call' = [call EXCEPT ![r] = n]
        BY <2>2 DEF Next_op
      <3> HIDE DEF n
      <3>3. Fits(n)
        BY <1>1, <2>1, <3>1 DEF Fits
      <3> QED
        BY <1>2, <2>1, <2>2, <3>1, <3>2, <3>3, CallStep DEF Running
    <2>3. CASE Done(r)
      BY <1>2, <2>1, <2>3, CallStep DEF Done, Running
    <2> QED
      BY <1>4, <2>2, <2>3 DEF CountMembers
  <1>5. CASE InsertMember(r)
    <2>1. q.op = "insert" /\ call' = [call EXCEPT ![r] = None] /\ class' = class
          /\ assigned' = assigned /\ unowned' = unowned
          /\ q.target \in Users /\ q.role \in {"teacher", "student"}
      BY <1>1, <1>5 DEF InsertMember, Running, Done, Fits
    <2>2. CASE /\ Exists(c) /\ member[c][q.target] = None
               /\ member' = [member EXCEPT ![c] = [@ EXCEPT ![q.target] = q.role]]
      BY <1>1, <2>1, <2>2, MemberStep, ClassNulls DEF MemberRoles
    <2>3. CASE member' = member
      BY <1>2, <2>1, <2>3, CallStep DEF Running
    <2> QED
      BY <1>5, <2>2, <2>3 DEF InsertMember
  <1>6. CASE UpdateRole(r)
    <2>1. q.op = "role" /\ call' = [call EXCEPT ![r] = None] /\ class' = class
          /\ assigned' = assigned /\ unowned' = unowned
          /\ q.target \in Users /\ q.role \in {"teacher", "student"}
          /\ (Exists(c) => q.target # class[c].owner)
      BY <1>1, <1>6 DEF UpdateRole, Running, Done, Fits
    <2>2. CASE /\ member[c][q.target] # None
               /\ member' = [member EXCEPT ![c] = [@ EXCEPT ![q.target] = q.role]]
      <3>1. Exists(c)
        BY <1>1, <2>1, <2>2 DEF MInv, TablesOK, MembersOf
      <3> QED
        BY <1>1, <2>1, <2>2, <3>1, MemberStep DEF MemberRoles
    <2>3. CASE member' = member
      BY <1>2, <2>1, <2>3, CallStep DEF Running
    <2> QED
      BY <1>6, <2>2, <2>3 DEF UpdateRole
  <1>7. CASE RemoveMember(r)
    <2>1. q.op = "remove" /\ call' = [call EXCEPT ![r] = None] /\ class' = class
          /\ assigned' = assigned /\ unowned' = unowned /\ q.target \in Users
          /\ (Exists(c) => q.target # class[c].owner)
          /\ member' = [member EXCEPT ![c] = [@ EXCEPT ![q.target] = None]]
      BY <1>1, <1>7 DEF RemoveMember, Running, Done, Fits
    <2> QED
      BY <1>1, <2>1, MemberStep, ClassNulls
  <1>8. CASE VerifySet(r)
    <2>1. q.op = "verify" /\ class' = class /\ member' = member /\ assigned' = assigned
          /\ unowned' = unowned
      BY <1>8 DEF VerifySet, Running
    <2>2. CASE Next_op(r, "assign")
      <3> DEFINE n == [call[r] EXCEPT !.op = "assign"]
      <3>1. n \in Requested /\ n.op = "assign" /\ n.class = c /\ n.target = q.target
            /\ n.role = q.role
        BY <1>1 DEF Requested, Ops
      <3>2. call' = [call EXCEPT ![r] = n]
        BY <2>2 DEF Next_op
      <3> HIDE DEF n
      <3>3. Fits(n)
        BY <1>1, <2>1, <3>1 DEF Fits
      <3> QED
        BY <1>2, <2>1, <3>1, <3>2, <3>3, CallStep DEF Running
    <2>3. CASE Done(r)
      BY <1>2, <2>1, <2>3, CallStep DEF Done, Running
    <2> QED
      BY <1>8, <2>2, <2>3 DEF VerifySet
  <1>9. CASE AssignSet(r)
    <2>1. q.op = "assign" /\ call' = [call EXCEPT ![r] = None] /\ class' = class
          /\ member' = member /\ unowned' = unowned /\ q.target \in Sets
      BY <1>1, <1>9 DEF AssignSet, Running, Done, Fits
    <2>2. /\ assigned' \in [Classes -> SUBSET Sets]
          /\ \A d \in Classes : ~Exists(d) => assigned'[d] = {}
      BY <1>1, <1>2, <1>9, <2>1 DEF AssignSet
    <2> QED
      BY <2>1, <2>2, CallStep DEF Running
  <1>10. CASE UnassignSet(r)
    <2>1. q.op = "unassign" /\ call' = [call EXCEPT ![r] = None] /\ class' = class
          /\ member' = member /\ unowned' = unowned
      BY <1>10 DEF UnassignSet, Running, Done
    <2>2. /\ assigned' \in [Classes -> SUBSET Sets]
          /\ \A d \in Classes : ~Exists(d) => assigned'[d] = {}
      BY <1>1, <1>2, <1>10, <2>1 DEF UnassignSet
    <2> QED
      BY <2>1, <2>2, CallStep DEF Running
  <1>11. ASSUME NEW code \in Codes, ResetInvite(r, code) PROVE MInv'
    <2> DEFINE row == [class[c] EXCEPT !.code = code]
    <2>1. q.op = "reset" /\ Exists(c) /\ ~CodeTaken(code) /\ call' = [call EXCEPT ![r] = None]
          /\ class' = [class EXCEPT ![c] = row]
          /\ member' = member /\ assigned' = assigned /\ unowned' = unowned
      BY <1>11 DEF ResetInvite, Running, Done
    <2>2. row \in ClassRows /\ row.owner = class[c].owner /\ row.code = code
      BY <1>1, <2>1 DEF MInv, TablesOK, ClassRows, Exists
    <2> HIDE DEF row
    <2> QED
      BY <1>1, <2>1, <2>2, ClassRowStep
  <1>12. ASSUME NEW enabled \in BOOLEAN, SetLeaderboard(r, enabled) PROVE MInv'
    <2> DEFINE row == [class[c] EXCEPT !.board = enabled]
    <2>1. q.op = "board" /\ Exists(c) /\ call' = [call EXCEPT ![r] = None]
          /\ class' = [class EXCEPT ![c] = row]
          /\ member' = member /\ assigned' = assigned /\ unowned' = unowned
      BY <1>12 DEF SetLeaderboard, Running, Done
    <2>2. row \in ClassRows /\ row.owner = class[c].owner /\ row.code = class[c].code
      BY <1>1, <2>1 DEF MInv, TablesOK, ClassRows, Exists
    <2> HIDE DEF row
    <2> QED
      BY <1>1, <2>1, <2>2, ClassRowStep
  <1> QED
    BY <1>3, <1>4, <1>5, <1>6, <1>7, <1>8, <1>9, <1>10, <1>11, <1>12 DEF Statement
LEMMA AbandonStep ==
    ASSUME MInv, NEW r \in Requests, Abandon(r)
    PROVE  MInv'
  <1>1. /\ call[r] # None /\ call' = [call EXCEPT ![r] = None]
        /\ class' = class /\ member' = member /\ assigned' = assigned
        /\ unowned' = IF call[r].op = "own" THEN unowned \cup {call[r].class} ELSE unowned
    BY DEF Abandon, Done
  <1>2. assigned \in [Classes -> SUBSET Sets] /\ \A d \in Classes : ~Exists(d) => assigned[d] = {}
    BY DEF MInv, TablesOK
  <1>3. Running(r, "own") => call[r].class \in unowned'
    BY <1>1 DEF Running
  <1> QED
    BY <1>1, <1>2, <1>3, CallStep

LEMMA ClassStep ==
    ASSUME MInv, ClassNext
    PROVE  MInv'
  <1>1. ASSUME NEW r \in Requests, NEW u \in Users, NEW c \in Classes,
               MemberAdmissions(r, u, c)
        PROVE  MInv'
    <2>1. ASSUME NEW code \in Codes, CreateClass(r, u, c, code) PROVE MInv'
      BY <1>1, <2>1, CreateClassStep DEF MemberAdmissions
    <2> QED
      BY <1>1, <2>1, AdmissionStep DEF MemberAdmissions
  <1>2. ASSUME NEW r \in Requests, NEW u \in Users, NEW c \in Classes,
               ContentAdmissions(r, u, c)
        PROVE  MInv'
    BY <1>2, AdmissionStep DEF ContentAdmissions
  <1> QED
    BY <1>1, <1>2, StatementStep, AbandonStep DEF ClassNext

\* Nothing a class does to its own tables touches the study service.
LEMMA ClassLeavesStudy == ClassNext => UNCHANGED studyVars
  <1> SUFFICES ASSUME ClassNext PROVE UNCHANGED studyVars
    OBVIOUS
  <1>1. ASSUME NEW r \in Requests, NEW u \in Users, NEW c \in Classes,
               MemberAdmissions(r, u, c) \/ ContentAdmissions(r, u, c)
        PROVE  UNCHANGED studyVars
    BY <1>1 DEF MemberAdmissions, ContentAdmissions, AskDeleteClass, AskResetInvite, AskLeave,
            CreateClass, AskJoin, AskRemove, AskAdd, AskUpdateRole, AskLeaderboard, AskAssign,
            AskUnassign, Admit
  <1>2. ASSUME NEW r \in Requests, Statement(r) PROVE UNCHANGED studyVars
    BY <1>2 DEF Statement, AddOwner, CountMembers, InsertMember, UpdateRole, RemoveMember,
            VerifySet, AssignSet, UnassignSet, ResetInvite, SetLeaderboard
  <1>3. ASSUME NEW r \in Requests, Abandon(r) PROVE UNCHANGED studyVars
    BY <1>3 DEF Abandon
  <1> QED
    BY <1>1, <1>2, <1>3 DEF ClassNext

\* While the sessions' completions, the outbox and what was sent stay ...
LEMMA StudyUnchanged == EInv /\ UNCHANGED studyVars => EInv'
  BY DEF EInv, EventsKept, EventsOK, CompletionNotLost, EventsEarned, CompletionEarned, Completes, studyVars

\* ... as they do when a class forgets its activity.
LEMMA DeleteClassEvents ==
    ASSUME EInv, NEW r \in Requests, DeleteClass(r)
    PROVE  EInv'
  <1>1. UNCHANGED <<studySets, session, outbox, batch, sent, stream>>
        /\ noted' = [k \in Keys |-> [noted[k] EXCEPT ![call[r].class] = 0]]
    BY DEF DeleteClass
  <1>2. noted' \in [Keys -> [Classes -> 0..1]]
    <2>1. ASSUME NEW f \in [Classes -> 0..1], NEW c
          PROVE  [f EXCEPT ![c] = 0] \in [Classes -> 0..1]
      <3>1. 0 \in 0..1
        OBVIOUS
      <3> QED
        BY <3>1
    <2>2. \A k \in Keys : [noted[k] EXCEPT ![call[r].class] = 0] \in [Classes -> 0..1]
      BY <2>1 DEF EInv, EventsKept, EventsOK
    <2> QED
      BY <1>1, <2>2
  <1>3. EventsOK'
    BY <1>1, <1>2 DEF EInv, EventsKept, EventsOK
  <1>4. CompletionNotLost'
    BY <1>1 DEF EInv, EventsKept, CompletionNotLost, Completes
  <1>5. EventsEarned'
    <2>1. \A k \in Keys, c \in Classes : noted'[k][c] > 0 => noted[k][c] > 0
      <3>1. \A k \in Keys : noted[k] \in [Classes -> 0..1]
        BY DEF EInv, EventsKept, EventsOK
      <3> QED
        BY <1>1, <3>1
    <2> QED
      BY <1>1, <2>1 DEF EInv, EventsEarned, CompletionEarned, Completes
  <1> QED
    BY <1>3, <1>4, <1>5 DEF EInv, EventsKept

\* The broker drops a duplicate, or keeps one copy more.
LEMMA ReceivedStep ==
    ASSUME EventsOK, NEW k \in Keys, Received(k)
    PROVE  sent' = sent \cup {k} /\ sent' \in SUBSET Keys /\ stream' \in [Keys -> 0..MaxCopies]
  <1>1. sent' = sent \cup {k} /\ sent' \in SUBSET Keys
    BY DEF Received, EventsOK
  <1>2. CASE stream' = stream
    BY <1>1, <1>2 DEF EventsOK
  <1>3. CASE stream[k] < MaxCopies /\ stream' = [stream EXCEPT ![k] = @ + 1]
    <2>1. stream[k] + 1 \in 0..MaxCopies
      BY <1>3, ClassConstants DEF EventsOK
    <2> QED
      BY <1>1, <1>3, <2>1 DEF EventsOK
  <1> QED
    BY <1>1, <1>2, <1>3 DEF Received

\* Nothing but a publication that the broker has had takes an event out.
LEMMA EventStep ==
    ASSUME EventsKept, StudyNext
    PROVE  EventsKept'
  <1> USE DEF EventsKept
  <1>1. ASSUME NEW k \in Keys, NEW s \in Sets, NEW completed \in BOOLEAN, NEW passed \in BOOLEAN,
               SaveProgress(k, s, completed, passed)
        PROVE  EventsKept'
    <2> DEFINE row == [set |-> s, completed |-> completed, passed |-> passed]
    <2>1. /\ session' = [session EXCEPT ![k] = row]
          /\ outbox' = IF completed THEN Append(outbox, k) ELSE outbox
          /\ UNCHANGED <<studySets, batch, sent, stream, noted>>
      BY <1>1 DEF SaveProgress
    <2>2. row \in Sessions /\ row.completed = completed
      BY DEF Sessions
    <2> HIDE DEF row
    <2>3. /\ outbox' \in Seq(Keys) /\ ToSet(outbox) \subseteq ToSet(outbox')
          /\ (completed => k \in ToSet(outbox'))
      <3>1. Append(outbox, k) \in Seq(Keys) /\ ToSet(Append(outbox, k)) = ToSet(outbox) \cup {k}
        BY AppendElements DEF EventsOK
      <3>2. CASE completed
        BY <2>1, <3>1, <3>2
      <3>3. CASE ~completed
        BY <2>1, <3>3 DEF EventsOK
      <3> QED
        BY <3>2, <3>3
    <2>4. EventsOK'
      BY <2>1, <2>2, <2>3 DEF EventsOK
    <2>5. CompletionNotLost'
      <3> SUFFICES ASSUME NEW x \in Keys, Completes(x)'
                   PROVE  x \in ToSet(outbox') \/ x \in sent
        BY <2>1 DEF CompletionNotLost
      <3>1. CASE x = k
        BY <2>1, <2>2, <2>3, <3>1 DEF Completes, EventsOK
      <3>2. CASE x # k
        BY <2>1, <2>3, <3>2 DEF Completes, EventsOK, CompletionNotLost
      <3> QED
        BY <3>1, <3>2
    <2> QED
      BY <2>4, <2>5
  <1>2. ASSUME NEW s \in Sets, DeleteStudySet(s) PROVE EventsKept'
    <2>1. /\ session' = [k \in Keys |-> IF session[k] # None /\ session[k].set = s
                                        THEN [session[k] EXCEPT !.passed = FALSE] ELSE session[k]]
          /\ UNCHANGED <<outbox, batch, sent, stream, noted>>
      BY <1>2 DEF DeleteStudySet
    <2>2. \A k \in Keys : session[k] # None =>
              /\ [session[k] EXCEPT !.passed = FALSE] \in Sessions
              /\ [session[k] EXCEPT !.passed = FALSE].completed = session[k].completed
      BY DEF EventsOK, Sessions
    <2>3. EventsOK'
      BY <2>1, <2>2 DEF EventsOK
    <2>4. \A k \in Keys : Completes(k)' => Completes(k)
      BY <2>1, <2>2 DEF Completes
    <2> QED
      BY <2>1, <2>3, <2>4 DEF CompletionNotLost
  <1>3. CASE PollOutbox
    BY <1>3 DEF PollOutbox, EventsOK, CompletionNotLost, Completes
  <1>4. CASE PublisherStops
    BY <1>4 DEF PublisherStops, EventsOK, CompletionNotLost, Completes
  <1>5. CASE PublishEvent
    <2>1. batch # <<>> /\ batch \in Seq(Keys) /\ UNCHANGED <<session, noted>>
      BY <1>5 DEF PublishEvent, EventsOK
    <2>2. PICK k : k = Head(batch)
      OBVIOUS
    <2>3. k \in Keys /\ Tail(batch) \in Seq(Keys)
      BY <2>1, <2>2, HeadTailProperties
    <2>4. CASE Received(k) /\ batch' = Tail(batch) /\ outbox' \in {outbox, RemoveFirst(outbox, k)}
      <3>1. outbox' \in Seq(Keys) /\ ToSet(outbox) \ {k} \subseteq ToSet(outbox')
        BY <2>4, RemoveFirstElements DEF EventsOK
      <3>2. sent' = sent \cup {k} /\ sent' \in SUBSET Keys /\ stream' \in [Keys -> 0..MaxCopies]
        BY <2>3, <2>4, ReceivedStep
      <3> QED
        BY <2>1, <2>3, <2>4, <3>1, <3>2 DEF EventsOK, CompletionNotLost, Completes
    <2>5. CASE (Received(k) \/ UNCHANGED <<sent, stream>>) /\ batch' = <<>> /\ UNCHANGED outbox
      <3>1. sent \subseteq sent' /\ sent' \in SUBSET Keys /\ stream' \in [Keys -> 0..MaxCopies]
        BY <2>3, <2>5, ReceivedStep DEF EventsOK
      <3> QED
        BY <2>1, <2>5, <3>1 DEF EventsOK, CompletionNotLost, Completes
    <2> QED
      BY <1>5, <2>2, <2>4, <2>5 DEF PublishEvent
  <1>6. ASSUME NEW k \in Keys, NEW acked \in BOOLEAN, NoteCompletion(k, acked) PROVE EventsKept'
    <2>1. /\ stream[k] > 0 /\ UNCHANGED <<session, outbox, batch, sent>>
          /\ noted' = [noted EXCEPT ![k] =
                 [c \in Classes |-> IF c \in ClassesOf(k) THEN 1 ELSE @[c]]]
          /\ stream' = IF acked THEN [stream EXCEPT ![k] = @ - 1] ELSE stream
      BY <1>6 DEF NoteCompletion
    <2>2. noted' \in [Keys -> [Classes -> 0..1]]
      BY <2>1 DEF EventsOK
    <2>3. stream' \in [Keys -> 0..MaxCopies]
      <3>1. stream[k] - 1 \in 0..MaxCopies
        BY <2>1, ClassConstants DEF EventsOK
      <3> QED
        BY <2>1, <3>1 DEF EventsOK
    <2> QED
      BY <2>1, <2>2, <2>3 DEF EventsOK, CompletionNotLost, Completes
  <1> QED
    BY <1>1, <1>2, <1>3, <1>4, <1>5, <1>6 DEF StudyNext

\* Every step of the study service leaves completed what was completed.
LEMMA CompletedStays ==
    ASSUME EventsKept, StudyNext, NEW k \in Keys, Completes(k)
    PROVE  Completes(k)'
  <1>1. session[k] # None /\ session[k] \in Sessions /\ session \in [Keys -> Sessions \cup {None}]
    BY DEF EventsKept, EventsOK, Completes
  <1>2. ASSUME NEW x \in Keys, NEW s \in Sets, NEW completed \in BOOLEAN, NEW passed \in BOOLEAN,
               SaveProgress(x, s, completed, passed)
        PROVE  session'[k] = session[k]
    BY <1>1, <1>2 DEF SaveProgress
  <1>3. ASSUME NEW s \in Sets, DeleteStudySet(s)
        PROVE  session'[k] # None /\ session'[k].completed = session[k].completed
    <2>1. session'[k] = IF session[k].set = s THEN [session[k] EXCEPT !.passed = FALSE] ELSE session[k]
      BY <1>1, <1>3 DEF DeleteStudySet
    <2>2. [session[k] EXCEPT !.passed = FALSE] \in Sessions
          /\ [session[k] EXCEPT !.passed = FALSE].completed = session[k].completed
      BY <1>1 DEF Sessions
    <2>3. None \notin Sessions
      BY ClassNulls DEF Sessions
    <2> QED
      BY <1>1, <2>1, <2>2, <2>3
  <1>4. ASSUME \/ PollOutbox \/ PublishEvent \/ PublisherStops
               \/ \E x \in Keys, acked \in BOOLEAN : NoteCompletion(x, acked)
        PROVE  session' = session
    BY <1>4 DEF PollOutbox, PublishEvent, PublisherStops, NoteCompletion
  <1> QED
    BY <1>1, <1>2, <1>3, <1>4 DEF StudyNext, Completes

\* The stream gets its events from the outbox, and a class from the stream.
LEMMA EarnedStep ==
    ASSUME EInv, StudyNext
    PROVE  EventsEarned'
  <1>0. EventsKept /\ EventsOK /\ EventsKept' /\ EventsOK'
    BY EventStep DEF EInv, EventsKept
  <1>a. /\ ToSet(outbox) \subseteq Keys /\ ToSet(batch) \subseteq Keys /\ sent \subseteq Keys
        /\ \A k \in Keys : Completes(k) => Completes(k)'
    BY <1>0, ToSetOfSeq, CompletedStays DEF EventsOK
  <1> DEFINE Earned(k) == Completes(k)'
             New == (ToSet(outbox') \cup ToSet(batch') \cup sent')
                        \ (ToSet(outbox) \cup ToSet(batch) \cup sent)
  <1>b. ASSUME \A k \in New : Earned(k),
               \A k \in Keys : stream'[k] > 0 => stream[k] > 0 \/ Earned(k),
               \A k \in Keys, c \in Classes : noted'[k][c] > 0 => noted[k][c] > 0 \/ Earned(k)
        PROVE  EventsEarned'
    <2>1. \A k \in ToSet(outbox) \cup ToSet(batch) \cup sent : Earned(k)
      BY <1>a DEF EInv, EventsEarned
    <2>2. \A k \in ToSet(outbox') \cup ToSet(batch') \cup sent' : Earned(k)
      BY <1>b, <2>1
    <2>3. \A k \in Keys : stream'[k] > 0 => Earned(k)
      BY <1>a, <1>b DEF EInv, EventsEarned
    <2>4. \A k \in Keys, c \in Classes : noted'[k][c] > 0 => Earned(k)
      BY <1>a, <1>b DEF EInv, EventsEarned, CompletionEarned
    <2> QED
      BY <2>2, <2>3, <2>4 DEF EventsEarned, CompletionEarned
  <1>1. ASSUME NEW k \in Keys, NEW s \in Sets, NEW completed \in BOOLEAN, NEW passed \in BOOLEAN,
               SaveProgress(k, s, completed, passed)
        PROVE  EventsEarned'
    <2>1. completed => Earned(k)
      <3>1. session'[k] = [set |-> s, completed |-> completed, passed |-> passed]
        BY <1>0, <1>1 DEF SaveProgress, EventsOK
      <3>2. [set |-> s, completed |-> completed, passed |-> passed] \in Sessions
        BY DEF Sessions
      <3>3. session'[k] # None
        BY <3>1, <3>2, ClassNulls DEF Sessions
      <3> QED
        BY <3>1, <3>3 DEF Completes
    <2>2. ToSet(outbox') = IF completed THEN ToSet(outbox) \cup {k} ELSE ToSet(outbox)
      <3>1. outbox \in Seq(Keys) /\ outbox' = IF completed THEN Append(outbox, k) ELSE outbox
        BY <1>0, <1>1 DEF SaveProgress, EventsOK
      <3>2. ToSet(Append(outbox, k)) = ToSet(outbox) \cup {k}
        BY <3>1, AppendElements
      <3> QED
        BY <3>1, <3>2
    <2>3. UNCHANGED <<batch, sent, stream, noted>>
      BY <1>1 DEF SaveProgress
    <2>4. \A x \in New : x = k /\ completed
      BY <2>2, <2>3
    <2> HIDE DEF New
    <2> QED
      BY <1>b, <2>1, <2>3, <2>4
  <1>2. ASSUME NEW s \in Sets, DeleteStudySet(s) PROVE EventsEarned'
    BY <1>b, <1>2 DEF DeleteStudySet
  <1>3. CASE PollOutbox
    BY <1>b, <1>3 DEF PollOutbox
  <1>4. CASE PublisherStops
    <2>1. ToSet(<<>>) = {}
      BY DEF ToSet
    <2> QED
      BY <1>b, <1>4, <2>1 DEF PublisherStops
  <1>5. CASE PublishEvent
    <2>1. batch # <<>> /\ batch \in Seq(Keys) /\ outbox \in Seq(Keys) /\ UNCHANGED noted
      BY <1>0, <1>5 DEF PublishEvent, EventsOK
    <2>2. PICK k : k = Head(batch)
      OBVIOUS
    <2>3. k \in ToSet(batch) /\ k \in Keys /\ ToSet(Tail(batch)) \subseteq ToSet(batch)
      BY <1>a, <2>1, <2>2, TailElements
    <2>4. Earned(k)
      BY <1>a, <2>3 DEF EInv, EventsEarned
    <2>5. ToSet(<<>>) = {}
      BY DEF ToSet
    <2>6. ToSet(batch') \subseteq ToSet(batch)
      BY <1>5, <2>2, <2>3, <2>5 DEF PublishEvent
    <2>7. ToSet(outbox') \subseteq ToSet(outbox)
      BY <1>5, <2>1, <2>2, RemoveFirstElements DEF PublishEvent
    <2>8. Received(k) \/ UNCHANGED <<sent, stream>>
      BY <1>5, <2>2 DEF PublishEvent
    <2>9. /\ sent' \subseteq sent \cup {k}
          /\ \A x \in Keys : x # k => stream'[x] = stream[x]
      BY <1>0, <2>3, <2>8 DEF Received, EventsOK
    <2>10. \A x \in New : x = k
      BY <2>6, <2>7, <2>9
    <2> HIDE DEF New
    <2> QED
      BY <1>b, <2>1, <2>4, <2>9, <2>10
  <1>6. ASSUME NEW k \in Keys, NEW acked \in BOOLEAN, NoteCompletion(k, acked) PROVE EventsEarned'
    <2>1. /\ stream[k] > 0 /\ UNCHANGED <<outbox, batch, sent>>
          /\ noted' = [noted EXCEPT ![k] =
                 [c \in Classes |-> IF c \in ClassesOf(k) THEN 1 ELSE @[c]]]
          /\ stream' = IF acked THEN [stream EXCEPT ![k] = @ - 1] ELSE stream
      BY <1>6 DEF NoteCompletion
    <2>2. Earned(k)
      BY <1>a, <2>1 DEF EInv, EventsEarned
    <2>3. \A x \in Keys : x # k => stream'[x] = stream[x] /\ noted'[x] = noted[x]
      BY <1>0, <2>1 DEF EventsOK
    <2> QED
      BY <1>b, <2>1, <2>2, <2>3
  <1> QED
    BY <1>1, <1>2, <1>3, <1>4, <1>5, <1>6 DEF StudyNext

-----------------------------------------------------------------------------
(* The invariant of the videos.                                            *)

Audiences == {"all", "selected"}
VideoRows ==
    [class : Classes, audience : Audiences, viewers : SUBSET Users,
     state : {"processing", "ready", "failed"},
     key : StoreKeys \cup {None}, output : StoreKeys \cup {None}]
Uploads ==
    [class : Classes, user : Users, audience : Audiences, viewers : SUBSET Users,
     step : {"put", "check", "insert", "undo"}]
Jobs == [video : Videos, locked : BOOLEAN, step : {"open", "put", "done", "failed"}]

\* What a row names follows from its state.
RowOK(v) ==
    \/ /\ video[v].state \in {"processing", "failed"}
       /\ video[v].key = Source(v) /\ video[v].output = Output(v)
    \/ video[v].state = "ready" /\ video[v].key \in {Output(v), None} /\ video[v].output = None

VideosTyped ==
    /\ video \in [Videos -> VideoRows \cup {None}]
    /\ upload \in [Videos -> Uploads \cup {None}]
    /\ job \in [Workers -> Jobs \cup {None}]
    /\ deletions \in Seq(StoreKeys) /\ cleaning \in Seq(StoreKeys)
    /\ objects \in SUBSET StoreKeys
    /\ drawn \in SUBSET Videos /\ IsFiniteSet(drawn)
    /\ \A v \in Videos : Row(v) => RowOK(v)

\* There is nothing of a video whose id has not been drawn.
Known ==
    /\ \A v \in Videos : Row(v) \/ upload[v] # None => v \in drawn
    /\ \A w \in Workers : job[w] # None => job[w].video \in drawn
    /\ \A k \in objects \cup ToSet(deletions) \cup ToSet(cleaning) : k.video \in drawn

\* An upload that may still commit has no row yet, and no object before Put.
Coming(v) == upload[v] # None /\ upload[v].step \in {"put", "check", "insert"}
UploadsFresh ==
    \A v \in Videos :
        /\ Coming(v) => ~Row(v)
        /\ Uploading(v, "put") => Source(v) \notin objects

\* The lock of a row is one worker's, and the row waits for it.
LockedBy(w, v) == job[w] # None /\ job[w].video = v /\ job[w].locked
LocksHeld ==
    /\ \A w \in Workers, v \in Videos : LockedBy(w, v) => Row(v) /\ video[v].state = "processing"
    /\ \A w, x \in Workers, v \in Videos : LockedBy(w, v) /\ LockedBy(x, v) => w = x

\* The bundle of a video that has a row, or may get one, is not to be deleted.
OutputsKept ==
    \A v \in Videos : Row(v) \/ Coming(v) =>
        Output(v) \notin ToSet(deletions) /\ Output(v) \notin ToSet(cleaning)

\* An upload answers for the source only.
Accounted ==
    \A k \in objects :
        \/ Referenced(k) \/ k \in ToSet(deletions) \/ k \in strayed
        \/ k.part = "source" /\ upload[k.video] # None

VInv == VideosTyped /\ Known /\ UploadsFresh /\ LocksHeld /\ OutputsKept /\ Accounted

LEMMA StoreKeysOfVideos ==
    /\ \A v \in Videos :
          /\ Source(v) \in StoreKeys /\ Source(v).video = v /\ Source(v).part = "source"
          /\ Output(v) \in StoreKeys /\ Output(v).video = v /\ Output(v).part = "hls"
    /\ \A k \in StoreKeys :
          k.video \in Videos /\ (k = Source(k.video) \/ k = Output(k.video))
    /\ \A v, x \in Videos :
          Source(v) # Output(x) /\ (v # x => Source(v) # Source(x) /\ Output(v) # Output(x))
  <1>1. \A v : Source(v).video = v /\ Source(v).part = "source"
    BY DEF Source
  <1>2. \A v : Output(v).video = v /\ Output(v).part = "hls"
    BY DEF Output
  <1>3. \A v, x \in Videos : Source(v) # Output(x)
    BY <1>1, <1>2
  <1>4. \A k \in StoreKeys : \E v \in Videos : k = Source(v) \/ k = Output(v)
    BY DEF StoreKeys
  <1>5. \A v \in Videos : Source(v) \in StoreKeys /\ Output(v) \in StoreKeys
    BY DEF StoreKeys
  <1> QED
    BY <1>1, <1>2, <1>3, <1>4, <1>5

\* What a row names is one of its two keys.
LEMMA KeysOfRow ==
    ASSUME VideosTyped, NEW v \in Videos
    PROVE  /\ KeysOf(v) \subseteq {Source(v), Output(v)} /\ IsFiniteSet(KeysOf(v))
           /\ KeysOf(v) \in SUBSET StoreKeys
           /\ \A k \in StoreKeys : k \in KeysOf(v) <=> Row(v) /\ (video[v].key = k \/ video[v].output = k)
  <1>1. \A k \in StoreKeys : k \in KeysOf(v) <=> Row(v) /\ (video[v].key = k \/ video[v].output = k)
    BY DEF KeysOf
  <1>2. KeysOf(v) \in SUBSET StoreKeys
    BY DEF KeysOf
  <1>3. ASSUME NEW k \in KeysOf(v) PROVE k \in {Source(v), Output(v)}
    <2>1. /\ k \in StoreKeys /\ Row(v) /\ (video[v].key = k \/ video[v].output = k)
          /\ RowOK(v)
      BY <1>1, <1>2 DEF VideosTyped
    <2>2. ASSUME k = None PROVE FALSE
      BY <2>1, <2>2, VideoNulls
    <2> QED
      BY <2>1, <2>2 DEF RowOK
  <1>4. IsFiniteSet({Source(v), Output(v)})
    <2>1. {Source(v), Output(v)} = {Source(v)} \cup {Output(v)}
      OBVIOUS
    <2>2. IsFiniteSet({Source(v)})
      BY FS_Singleton
    <2>3. IsFiniteSet({Source(v)} \cup {Output(v)})
      BY <2>2, FS_AddElement
    <2> QED
      BY <2>1, <2>3
  <1>5. IsFiniteSet(KeysOf(v))
    BY <1>3, <1>4, FS_Subset
  <1> QED
    BY <1>1, <1>2, <1>3, <1>5

\* The queue gains what it is given, and keeps what it has.
LEMMA QueuedElements ==
    ASSUME NEW q \in Seq(StoreKeys), NEW ks \in SUBSET StoreKeys, IsFiniteSet(ks)
    PROVE  Queued(q, ks) \in Seq(StoreKeys) /\ ToSet(Queued(q, ks)) = ToSet(q) \cup ks
  <1> DEFINE new == ks \ ToSet(q)
  <1>1. IsFiniteSet(new) /\ new \in SUBSET StoreKeys
    BY FS_Subset
  <1>2. SetToSeq(new) \in Seq(new) /\ ToSet(SetToSeq(new)) = new
    BY <1>1, SetToSeqElements
  <1>3. SetToSeq(new) \in Seq(StoreKeys)
    BY <1>1, <1>2, SeqMonotonic
  <1>4. /\ q \o SetToSeq(new) \in Seq(StoreKeys)
        /\ ToSet(q \o SetToSeq(new)) = ToSet(q) \cup ToSet(SetToSeq(new))
    <2> HIDE DEF new
    <2> QED
      BY <1>3, ConcatElements
  <1> QED
    BY <1>2, <1>4 DEF Queued
\* Of two rows one names what the other does not: who names a key is told by
\* the rows of its video alone.
LEMMA ReferencedBy ==
    ASSUME VideosTyped, NEW k \in StoreKeys
    PROVE  Referenced(k) <=> Row(k.video) /\ (video[k.video].key = k \/ video[k.video].output = k)
  BY StoreKeysOfVideos, KeysOfRow DEF Referenced

LEMMA VideosStart == VideosInit => VInv
  <1> SUFFICES ASSUME VideosInit PROVE VInv
    OBVIOUS
  <1>1. VideosTyped
    BY FS_EmptySet DEF VideosInit, VideosTyped, Row
  <1>2. ToSet(deletions) = {} /\ ToSet(cleaning) = {}
    BY DEF VideosInit, ToSet
  <1>3. Known
    BY <1>2 DEF VideosInit, Known, Row
  <1>4. UploadsFresh /\ LocksHeld /\ OutputsKept
    BY <1>2 DEF VideosInit, UploadsFresh, LocksHeld, LockedBy, OutputsKept, Coming, Uploading, Row
  <1>5. Accounted
    BY DEF VideosInit, Accounted
  <1> QED
    BY <1>1, <1>3, <1>4, <1>5 DEF VInv

\* Nothing of the videos changes with what the invariant is about.
LEMMA VideosUnchanged == VInv /\ UNCHANGED videoVars => VInv'
  BY DEF VInv, videoVars, VideosTyped, Row, RowOK, Known, UploadsFresh, Coming, Uploading,
         LocksHeld, LockedBy, OutputsKept, Accounted, Referenced, KeysOf

-----------------------------------------------------------------------------
(* Steps of an upload.                                                     *)

LEMMA StartUploadStep ==
    ASSUME VInv, NEW v \in Videos, NEW c \in Classes, NEW u \in Users,
           NEW audience \in Audiences, NEW viewers \in SUBSET Users,
           StartUpload(v, c, u, audience, viewers)
    PROVE  VInv'
  <1> USE DEF VInv
  <1> DEFINE up == [class |-> c, user |-> u, audience |-> audience, viewers |-> viewers,
                    step |-> "put"]
  <1>1. /\ v \notin drawn /\ drawn' = drawn \cup {v} /\ upload' = [upload EXCEPT ![v] = up]
        /\ UNCHANGED <<video, objects, job, deletions, cleaning, strayed>>
    BY DEF StartUpload, Draw
  <1>2. up \in Uploads /\ up # None /\ up.step = "put"
    BY VideoNulls DEF Uploads, Audiences
  <1> HIDE DEF up
  <1>3. upload'[v] = up /\ \A x \in Videos \ {v} : upload'[x] = upload[x]
    BY <1>1 DEF VideosTyped
  <1>4. ~Row(v) /\ upload[v] = None
    BY <1>1 DEF Known
  <1>5. VideosTyped'
    <2>1. drawn' \in SUBSET Videos /\ IsFiniteSet(drawn')
      BY <1>1, FS_AddElement DEF VideosTyped
    <2> QED
      BY <1>1, <1>2, <2>1 DEF VideosTyped, Row, RowOK
  <1>6. Known'
    BY <1>1, <1>3 DEF Known, Row
  <1>7. Source(v) \notin objects /\ Output(v) \notin ToSet(deletions) /\ Output(v) \notin ToSet(cleaning)
    BY <1>1, StoreKeysOfVideos DEF Known
  <1>8. UploadsFresh'
    BY <1>1, <1>3, <1>4, <1>7 DEF UploadsFresh, Coming, Uploading, Row
  <1>9. LocksHeld'
    BY <1>1 DEF LocksHeld, LockedBy, Row
  <1>10. OutputsKept'
    BY <1>1, <1>3, <1>7 DEF OutputsKept, Coming, Row
  <1>11. Accounted'
    <2>1. \A x \in Videos : upload[x] # None => upload'[x] # None
      BY <1>2, <1>3
    <2> QED
      BY <1>1, <2>1, StoreKeysOfVideos DEF Accounted, Referenced, KeysOf, Row, VideosTyped
  <1> QED
    BY <1>5, <1>6, <1>8, <1>9, <1>10, <1>11

\* An upload moves on, or ends; it may store its source and stray it.
LEMMA UploadStep ==
    ASSUME VInv, NEW v \in Videos, upload[v] # None,
           UNCHANGED <<video, drawn, job, deletions, cleaning>>,
           NEW up \in Uploads \cup {None}, upload' = [upload EXCEPT ![v] = up],
           strayed \subseteq strayed',
           objects' \in SUBSET StoreKeys,
           objects' \subseteq objects \cup {Source(v)},
           up # None /\ up.step # "undo" => Coming(v) /\ up.step # "put",
           up = None => Source(v) \notin objects' \/ Source(v) \in strayed'
    PROVE  VInv'
  <1> USE DEF VInv
  <1>1. upload'[v] = up /\ \A x \in Videos \ {v} : upload'[x] = upload[x]
    BY DEF VideosTyped
  <1>2. VideosTyped'
    BY DEF VideosTyped, Row, RowOK
  <1>3. Known'
    <2>1. v \in drawn
      BY DEF Known
    <2>2. Source(v).video = v
      BY StoreKeysOfVideos
    <2> QED
      BY <1>1, <2>1, <2>2 DEF Known, Row
  <1>4. UploadsFresh'
    <2> SUFFICES ASSUME NEW x \in Videos
                 PROVE  /\ Coming(x)' => ~Row(x)'
                        /\ Uploading(x, "put")' => Source(x) \notin objects'
      BY DEF UploadsFresh, Source
    <2>1. CASE x = v
      BY <1>1, <2>1 DEF UploadsFresh, Coming, Uploading, Row
    <2>2. CASE x # v
      BY <1>1, <2>2, StoreKeysOfVideos DEF UploadsFresh, Coming, Uploading, Row
    <2> QED
      BY <2>1, <2>2
  <1>5. LocksHeld'
    BY DEF LocksHeld, LockedBy, Row
  <1>6. OutputsKept'
    BY <1>1 DEF OutputsKept, Coming, Row
  <1>7. Accounted'
    <2> SUFFICES ASSUME NEW k \in objects'
                 PROVE  \/ Referenced(k) \/ k \in ToSet(deletions) \/ k \in strayed'
                        \/ k.part = "source" /\ upload'[k.video] # None
      BY DEF Accounted, Referenced, KeysOf, Row
    <2>1. CASE k = Source(v)
      BY <1>1, <2>1, StoreKeysOfVideos
    <2>2. CASE k # Source(v)
      <3>1. k \in objects /\ k \in StoreKeys
        BY <2>2
      <3>2. k.part = "source" => k.video # v
        BY <2>2, <3>1, StoreKeysOfVideos
      <3>3. k.video \in Videos
        BY <3>1, StoreKeysOfVideos
      <3> QED
        BY <1>1, <3>1, <3>2, <3>3 DEF Accounted
    <2> QED
      BY <2>1, <2>2
  <1> QED
    BY <1>2, <1>3, <1>4, <1>5, <1>6, <1>7

\* The row of an upload, in place of the upload.
LEMMA InsertVideoStep ==
    ASSUME VInv, NEW v \in Videos, InsertVideo(v)
    PROVE  VInv'
  <1> USE DEF VInv
  <1> DEFINE undo == [upload[v] EXCEPT !.step = "undo"]
             row == [class |-> upload[v].class, audience |-> upload[v].audience,
                     viewers |-> upload[v].viewers, state |-> "processing",
                     key |-> Source(v), output |-> Output(v)]
  <1>1. /\ upload[v] # None /\ upload[v].step = "insert" /\ upload[v] \in Uploads
        /\ UNCHANGED <<drawn, objects, job, deletions, cleaning, strayed>>
    BY DEF InsertVideo, Uploading, VideosTyped
  <1>2. undo \in Uploads /\ undo # None /\ undo.step = "undo"
    <2>1. undo \in Uploads /\ undo.step = "undo"
      BY <1>1 DEF Uploads
    <2> HIDE DEF undo
    <2> QED
      BY <2>1, VideoNulls DEF Uploads, Audiences
  <1>3. CASE upload' = [upload EXCEPT ![v].step = "undo"] /\ UNCHANGED video
    <2>1. upload' = [upload EXCEPT ![v] = undo]
      BY <1>3
    <2> HIDE DEF undo
    <2>2. objects' = objects /\ strayed' = strayed
      BY <1>1
    <2> QED
      BY <1>1, <1>2, <1>3, <2>1, <2>2, UploadStep DEF VideosTyped
  <1>4. ASSUME video' = [video EXCEPT ![v] = row],
               NEW up \in {undo, None}, upload' = [upload EXCEPT ![v] = up]
        PROVE  VInv'
    <2>1. row \in VideoRows /\ row # None /\ row.key = Source(v) /\ row.output = Output(v)
          /\ row.state = "processing"
      <3>1. row \in VideoRows
        BY <1>1, StoreKeysOfVideos DEF VideoRows, Uploads
      <3>2. row # None
        <4> HIDE DEF row
        <4> QED
          BY <3>1, VideoNulls DEF VideoRows, Audiences
      <3> QED
        BY <3>1, <3>2
    <2> HIDE DEF undo, row
    <2>2. /\ video'[v] = row /\ \A x \in Videos \ {v} : video'[x] = video[x]
          /\ upload'[v] = up /\ \A x \in Videos \ {v} : upload'[x] = upload[x]
      BY <1>4 DEF VideosTyped
    <2>3. VideosTyped'
      <3>1. video' \in [Videos -> VideoRows \cup {None}]
            /\ upload' \in [Videos -> Uploads \cup {None}]
        BY <1>2, <1>4, <2>1 DEF VideosTyped
      <3>2. \A x \in Videos : Row(x)' => RowOK(x)'
        BY <2>1, <2>2 DEF VideosTyped, Row, RowOK, Source, Output
      <3> QED
        BY <1>1, <3>1, <3>2 DEF VideosTyped
    <2>4. Known'
      BY <1>1, <2>2 DEF Known, Row
    <2>5. UploadsFresh'
      BY <1>1, <1>2, <1>4, <2>2 DEF UploadsFresh, Coming, Uploading, Row
    <2>6. LocksHeld'
      BY <1>1, <2>1, <2>2 DEF LocksHeld, LockedBy, Row
    <2>7. OutputsKept'
      BY <1>1, <1>2, <1>4, <2>2 DEF OutputsKept, Coming, Row
    <2>8. Accounted'
      <3> SUFFICES ASSUME NEW k \in objects
                   PROVE  \/ Referenced(k)' \/ k \in ToSet(deletions) \/ k \in strayed
                          \/ k.part = "source" /\ upload'[k.video] # None
        BY <1>1 DEF Accounted
      <3>1. k \in StoreKeys /\ k.video \in Videos
        BY StoreKeysOfVideos DEF VideosTyped
      <3>2. CASE k.video = v
        <4>1. k = Source(v) \/ k = Output(v)
          BY <3>1, <3>2, StoreKeysOfVideos
        <4> QED
          BY <2>1, <2>2, <3>1, <3>2, <4>1 DEF Referenced, KeysOf, Row
      <3>3. CASE k.video # v
        BY <2>2, <3>1, <3>3 DEF Accounted, Referenced, KeysOf, Row
      <3> QED
        BY <3>2, <3>3
    <2> QED
      BY <2>3, <2>4, <2>5, <2>6, <2>7, <2>8
  <1>5. [upload EXCEPT ![v].step = "undo"] = [upload EXCEPT ![v] = undo]
    OBVIOUS
  <1> HIDE DEF undo, row
  <1> QED
    BY <1>3, <1>4, <1>5 DEF InsertVideo, row
LEMMA UploadSteps ==
    ASSUME VInv, NEW v \in Videos,
           \/ StoreUpload(v) \/ StoreUploadFails(v) \/ RecheckUpload(v)
           \/ UndoUpload(v) \/ CrashUpload(v)
    PROVE  VInv'
  <1>1. upload[v] # None /\ upload[v] \in Uploads
    BY DEF StoreUpload, StoreUploadFails, RecheckUpload, UndoUpload, CrashUpload, Uploading,
           VInv, VideosTyped
  <1>2. /\ objects \in SUBSET StoreKeys /\ Source(v) \in StoreKeys
        /\ upload[v].step = "put" => Source(v) \notin objects
    BY <1>1, StoreKeysOfVideos DEF VInv, VideosTyped, UploadsFresh, Uploading
  <1>3. \A step \in {"check", "insert", "undo"} :
            /\ [upload[v] EXCEPT !.step = step] \in Uploads
            /\ [upload[v] EXCEPT !.step = step].step = step
    BY <1>1 DEF Uploads
  <1>4. CASE StoreUpload(v)
    <2> DEFINE up == [upload[v] EXCEPT !.step = "check"]
    <2>1. up \in Uploads /\ up.step = "check"
      BY <1>3
    <2>2. /\ Coming(v) /\ upload' = [upload EXCEPT ![v] = up]
          /\ objects' = objects \cup {Source(v)}
          /\ UNCHANGED <<video, drawn, job, deletions, cleaning, strayed>>
      BY <1>1, <1>4 DEF StoreUpload, Uploading, Coming
    <2>3. up # None
      BY <2>1, VideoNulls DEF Uploads, Audiences
    <2> HIDE DEF up
    <2> QED
      BY <1>1, <1>2, <2>1, <2>2, <2>3, UploadStep
  <1>5. CASE StoreUploadFails(v)
    <2>1. /\ upload' = [upload EXCEPT ![v] = None] /\ upload[v].step = "put"
          /\ UNCHANGED <<video, drawn, job, deletions, cleaning>>
          /\ \/ UNCHANGED <<objects, strayed>>
             \/ objects' = objects \cup {Source(v)} /\ strayed' = strayed \cup {Source(v)}
      BY <1>5 DEF StoreUploadFails, EndUpload, Uploading
    <2> QED
      BY <1>1, <1>2, <2>1, UploadStep
  <1>6. CASE RecheckUpload(v)
    <2>1. /\ Coming(v) /\ UNCHANGED <<video, drawn, objects, job, deletions, cleaning, strayed>>
          /\ \E step \in {"insert", "undo"} :
                upload' = [upload EXCEPT ![v] = [upload[v] EXCEPT !.step = step]]
      BY <1>1, <1>6 DEF RecheckUpload, Uploading, Coming
    <2>2. PICK step \in {"insert", "undo"} :
              upload' = [upload EXCEPT ![v] = [upload[v] EXCEPT !.step = step]]
      BY <2>1
    <2> DEFINE up == [upload[v] EXCEPT !.step = step]
    <2>3. up \in Uploads /\ up.step = step
      BY <1>3
    <2>4. up # None
      BY <2>3, VideoNulls DEF Uploads, Audiences
    <2>5. upload' = [upload EXCEPT ![v] = up]
      BY <2>2
    <2> HIDE DEF up
    <2> QED
      BY <1>1, <1>2, <2>1, <2>3, <2>4, <2>5, UploadStep
  <1>7. CASE UndoUpload(v)
    <2>1. /\ upload' = [upload EXCEPT ![v] = None]
          /\ UNCHANGED <<video, drawn, job, deletions, cleaning>>
          /\ \/ objects' = objects \ {Source(v)} /\ UNCHANGED strayed
             \/ strayed' = strayed \cup {Source(v)} /\ UNCHANGED objects
      BY <1>7 DEF UndoUpload, EndUpload
    <2> QED
      BY <1>1, <1>2, <2>1, UploadStep
  <1>8. CASE CrashUpload(v)
    <2>1. /\ upload' = [upload EXCEPT ![v] = None]
          /\ UNCHANGED <<video, drawn, objects, job, deletions, cleaning>>
          /\ strayed' = strayed \cup {Source(v)}
      BY <1>8 DEF CrashUpload, EndUpload
    <2> QED
      BY <1>1, <1>2, <2>1, UploadStep
  <1> QED
    BY <1>4, <1>5, <1>6, <1>7, <1>8

-----------------------------------------------------------------------------
(* Steps on a row.                                                         *)

\* A link is a row without objects.
LEMMA AddLinkStep ==
    ASSUME VInv, NEW v \in Videos, NEW c \in Classes, NEW u \in Users,
           NEW audience \in Audiences, NEW viewers \in SUBSET Users,
           AddLink(v, c, u, audience, viewers)
    PROVE  VInv'
  <1> USE DEF VInv
  <1> DEFINE row == [class |-> c, audience |-> audience, viewers |-> viewers,
                     state |-> "ready", key |-> None, output |-> None]
  <1>1. /\ v \notin drawn /\ drawn' = drawn \cup {v} /\ video' = [video EXCEPT ![v] = row]
        /\ UNCHANGED <<objects, upload, job, deletions, cleaning, strayed>>
    BY DEF AddLink, Draw
  <1>2. row \in VideoRows /\ row.state = "ready" /\ row.key = None /\ row.output = None
    BY DEF VideoRows
  <1> HIDE DEF row
  <1>3. video'[v] = row /\ \A x \in Videos \ {v} : video'[x] = video[x]
    BY <1>1 DEF VideosTyped
  <1>4. /\ ~Row(v) /\ upload[v] = None /\ \A w \in Workers : ~LockedBy(w, v)
        /\ \A k \in objects \cup ToSet(deletions) \cup ToSet(cleaning) : k.video # v
    BY <1>1 DEF Known, LockedBy
  <1>5. VideosTyped'
    <2>1. drawn' \in SUBSET Videos /\ IsFiniteSet(drawn')
      BY <1>1, FS_AddElement DEF VideosTyped
    <2>2. \A x \in Videos : Row(x)' => RowOK(x)'
      BY <1>2, <1>3 DEF VideosTyped, Row, RowOK, Source, Output
    <2> QED
      BY <1>1, <1>2, <2>1, <2>2 DEF VideosTyped
  <1>6. Known'
    BY <1>1, <1>3 DEF Known, Row
  <1>7. UploadsFresh'
    BY <1>1, <1>3, <1>4 DEF UploadsFresh, Coming, Uploading, Row
  <1>8. LocksHeld'
    BY <1>1, <1>3, <1>4 DEF LocksHeld, LockedBy, Row
  <1>9. OutputsKept'
    <2>1. Output(v) \notin ToSet(deletions) /\ Output(v) \notin ToSet(cleaning)
      BY <1>4, StoreKeysOfVideos
    <2> QED
      BY <1>1, <1>3, <2>1 DEF OutputsKept, Coming, Row
  <1>10. Accounted'
    BY <1>1, <1>3, <1>4, StoreKeysOfVideos DEF Accounted, Referenced, KeysOf, Row, VideosTyped
  <1> QED
    BY <1>5, <1>6, <1>7, <1>8, <1>9, <1>10

\* A row changes what its state lets it, and names what it named; or what it
\* no longer names is queued.
LEMMA RowStep ==
    ASSUME VInv, NEW v \in Videos, Row(v), NEW row \in VideoRows,
           video' = [video EXCEPT ![v] = row],
           UNCHANGED <<drawn, objects, upload, cleaning, strayed>>,
           \/ row.state = video[v].state /\ row.key = video[v].key /\ row.output = video[v].output
           \/ /\ row.state = "failed" /\ video[v].state = "processing"
              /\ row.key = video[v].key /\ row.output = video[v].output
           \/ row.state = "ready" /\ row.key = Output(v) /\ row.output = None,
           deletions' \in Seq(StoreKeys),
           ToSet(deletions) \subseteq ToSet(deletions'),
           ToSet(deletions') \subseteq ToSet(deletions) \cup {Source(v)},
           row.key # video[v].key => Source(v) \in ToSet(deletions'),
           NEW w, job' = job \/ (w \in Workers /\ job' = [job EXCEPT ![w] = None]),
           \A x \in Workers : LockedBy(x, v)' => row.state = video[v].state
    PROVE  VInv'
  <1> USE DEF VInv
  <1>1. video'[v] = row /\ \A x \in Videos \ {v} : video'[x] = video[x]
    BY DEF VideosTyped
  <1>2. row # None
    BY VideoNulls DEF VideoRows, Audiences
  <1>3. job' \in [Workers -> Jobs \cup {None}]
        /\ \A x \in Workers : job'[x] # None => job[x] # None /\ job'[x] = job[x]
    BY DEF VideosTyped
  <1>4. VideosTyped'
    <2>1. \A x \in Videos : Row(x)' => RowOK(x)'
      <3>1. RowOK(v)
        BY DEF VideosTyped
      <3>2. RowOK(v)'
        BY <1>1, <3>1 DEF RowOK, Source, Output
      <3> QED
        BY <1>1, <3>2 DEF VideosTyped, Row, RowOK, Source, Output
    <2> QED
      BY <1>3, <2>1 DEF VideosTyped
  <1>5. v \in drawn /\ Source(v).video = v
    BY StoreKeysOfVideos DEF Known
  <1>6. Known'
    BY <1>1, <1>3, <1>5 DEF Known, Row
  <1>7. UploadsFresh'
    BY <1>1, <1>2 DEF UploadsFresh, Coming, Uploading, Row
  <1>8. LocksHeld'
    <2>1. \A x \in Workers, y \in Videos : LockedBy(x, y)' => LockedBy(x, y)
      BY <1>3 DEF LockedBy
    <2>2. ASSUME NEW x \in Workers, NEW y \in Videos, LockedBy(x, y)'
          PROVE  Row(y)' /\ video'[y].state = "processing"
      BY <1>1, <1>2, <2>1, <2>2 DEF LocksHeld, Row
    <2> QED
      BY <2>1, <2>2 DEF LocksHeld
  <1>9. OutputsKept'
    <2>1. \A x \in Videos : Output(x) # Source(v)
      BY StoreKeysOfVideos
    <2>2. \A x \in Videos : (Row(x) \/ Coming(x))' => Row(x) \/ Coming(x)
      BY <1>1, <1>2 DEF Row, Coming
    <2> QED
      BY <2>1, <2>2 DEF OutputsKept, Output
  <1>10. Accounted'
    <2> SUFFICES ASSUME NEW k \in objects
                 PROVE  \/ Referenced(k)' \/ k \in ToSet(deletions') \/ k \in strayed
                        \/ k.part = "source" /\ upload[k.video] # None
      BY DEF Accounted
    <2>1. k \in StoreKeys /\ k.video \in Videos
      BY StoreKeysOfVideos DEF VideosTyped
    <2>2. CASE k.video = v
      <3>1. k = Source(v) \/ k = Output(v)
        BY <2>1, <2>2, StoreKeysOfVideos
      <3>2. RowOK(v) /\ Source(v) # Output(v) /\ Source(v) # None /\ Output(v) # None
        BY StoreKeysOfVideos, VideoNulls DEF VideosTyped
      <3>3. Referenced(k)' <=> row.key = k \/ row.output = k
        BY <1>1, <1>2, <2>1, <2>2 DEF Referenced, KeysOf, Row
      <3>4. Referenced(k) <=> video[v].key = k \/ video[v].output = k
        BY <2>1, <2>2 DEF Referenced, KeysOf, Row
      <3> QED
        BY <3>1, <3>2, <3>3, <3>4 DEF RowOK, Accounted
    <2>3. CASE k.video # v
      <3>1. Referenced(k) => Referenced(k)'
        BY <1>1, <2>1, <2>3 DEF Referenced, KeysOf, Row
      <3> QED
        BY <3>1 DEF Accounted
    <2> QED
      BY <2>2, <2>3
  <1> QED
    BY <1>4, <1>6, <1>7, <1>8, <1>9, <1>10
LEMMA UpdateVideoStep ==
    ASSUME VInv, NEW v \in Videos, NEW c \in Classes, NEW u \in Users,
           NEW audience \in Audiences, NEW viewers \in SUBSET Users,
           UpdateVideo(v, c, u, audience, viewers)
    PROVE  VInv'
  <1> DEFINE row == [video[v] EXCEPT !.audience = audience, !.viewers = viewers]
  <1>1. /\ Row(v) /\ video' = [video EXCEPT ![v] = row]
        /\ UNCHANGED <<drawn, objects, upload, job, deletions, cleaning, strayed>>
    BY DEF UpdateVideo, RowOf
  <1>2. /\ row \in VideoRows /\ row.state = video[v].state
        /\ row.key = video[v].key /\ row.output = video[v].output
    BY <1>1 DEF VInv, VideosTyped, VideoRows, Row
  <1>3. deletions \in Seq(StoreKeys)
    BY DEF VInv, VideosTyped
  <1> HIDE DEF row
  <1> QED
    BY <1>1, <1>2, <1>3, RowStep

\* A worker moves on, or ends, without a lock it did not have.
LEMMA JobStep ==
    ASSUME VInv, NEW w \in Workers, NEW q \in Jobs \cup {None},
           job' = [job EXCEPT ![w] = q],
           q # None => q.video \in drawn,
           q # None /\ q.locked =>
               \/ LockedBy(w, q.video)
               \/ /\ Row(q.video) /\ video[q.video].state = "processing"
                  /\ \A x \in Workers : ~LockedBy(x, q.video),
           UNCHANGED <<video, drawn, upload, deletions, cleaning>>,
           strayed \subseteq strayed',
           objects' = objects
               \/ \E v \in drawn : /\ objects' = objects \cup {Output(v)}
                                   /\ LockedBy(w, v) \/ Output(v) \in strayed'
    PROVE  VInv'
  <1> USE DEF VInv
  <1>1. job'[w] = q /\ \A x \in Workers \ {w} : job'[x] = job[x]
    BY DEF VideosTyped
  <1>2. drawn \in SUBSET Videos
    BY DEF VideosTyped
  <1>3. VideosTyped'
    BY <1>2, StoreKeysOfVideos DEF VideosTyped, Row, RowOK
  <1>4. Known'
    BY <1>1, <1>2, StoreKeysOfVideos DEF Known, Row
  <1>5. UploadsFresh'
    <2>1. \A v \in Videos : Source(v) \in objects' => Source(v) \in objects
      BY <1>2, StoreKeysOfVideos
    <2> QED
      BY <2>1 DEF UploadsFresh, Coming, Uploading, Row, Source
  <1>6. LocksHeld'
    <2>1. ASSUME NEW x \in Workers, NEW v \in Videos, LockedBy(x, v)'
          PROVE  /\ Row(v) /\ video[v].state = "processing"
                 /\ LockedBy(x, v) \/ (x = w /\ \A y \in Workers : ~LockedBy(y, v))
      <3>1. CASE x = w
        BY <1>1, <2>1, <3>1 DEF LockedBy, LocksHeld
      <3>2. CASE x # w
        BY <1>1, <2>1, <3>2 DEF LockedBy, LocksHeld
      <3> QED
        BY <3>1, <3>2
    <2>2. ASSUME NEW x \in Workers, NEW y \in Workers, NEW v \in Videos,
                 LockedBy(x, v)', LockedBy(y, v)'
          PROVE  x = y
      BY <2>1, <2>2 DEF LocksHeld
    <2> QED
      BY <2>1, <2>2 DEF LocksHeld, Row
  <1>7. OutputsKept'
    BY DEF OutputsKept, Coming, Row
  <1>8. Accounted'
    <2> SUFFICES ASSUME NEW k \in objects'
                 PROVE  \/ Referenced(k) \/ k \in ToSet(deletions) \/ k \in strayed'
                        \/ k.part = "source" /\ upload[k.video] # None
      BY DEF Accounted, Referenced, KeysOf, Row
    <2>1. CASE k \in objects
      BY <2>1 DEF Accounted
    <2>2. ASSUME NEW v \in drawn, k = Output(v), LockedBy(w, v) PROVE Referenced(k)
      <3>1. Row(v) /\ video[v].state = "processing" /\ RowOK(v) /\ v \in Videos
        BY <1>2, <2>2 DEF LocksHeld, VideosTyped
      <3>2. video[v].output = Output(v)
        BY <3>1 DEF RowOK
      <3> QED
        BY <2>2, <3>1, <3>2, StoreKeysOfVideos DEF Referenced, KeysOf
    <2> QED
      BY <2>1, <2>2
  <1> QED
    BY <1>3, <1>4, <1>5, <1>6, <1>7, <1>8

LEMMA WorkerSteps ==
    ASSUME VInv, NEW w \in Workers,
           \/ TakeVideo(w) \/ Convert(w) \/ PutOutput(w) \/ CrashWorker(w)
           \/ LoseTransaction(w)
    PROVE  VInv'
  <1>1. job[w] # None => /\ job[w] \in Jobs /\ job[w].video \in drawn
                         /\ job[w].video \in Videos /\ drawn \in SUBSET Videos
    BY DEF VInv, VideosTyped, Known, Jobs
  <1>2. \A step \in {"put", "done", "failed"} : job[w] # None =>
            LET q == [job[w] EXCEPT !.step = step] IN
            q \in Jobs /\ q.video = job[w].video /\ q.locked = job[w].locked
    BY <1>1 DEF Jobs
  <1>3. CASE TakeVideo(w)
    <2>1. PICK v \in Videos :
              /\ Row(v) /\ video[v].state = "processing" /\ ~Locked(v)
              /\ job' = [job EXCEPT ![w] = [video |-> v, locked |-> TRUE, step |-> "open"]]
      BY <1>3 DEF TakeVideo
    <2> DEFINE q == [video |-> v, locked |-> TRUE, step |-> "open"]
    <2>2. q \in Jobs /\ q.video = v /\ job' = [job EXCEPT ![w] = q]
      BY <2>1 DEF Jobs
    <2>3. v \in drawn /\ \A x \in Workers : ~LockedBy(x, v)
      BY <2>1 DEF Locked, LockedBy, VInv, Known
    <2>4. UNCHANGED <<video, drawn, upload, deletions, cleaning, objects, strayed>>
      BY <1>3 DEF TakeVideo
    <2> HIDE DEF q
    <2> QED
      BY <2>1, <2>2, <2>3, <2>4, JobStep
  <1>4. CASE Convert(w)
    <2>1. /\ job[w] # None
          /\ \E step \in {"put", "failed"} : job' = [job EXCEPT ![w].step = step]
          /\ UNCHANGED <<video, drawn, upload, deletions, cleaning, objects, strayed>>
      BY <1>4 DEF Convert, Working
    <2>2. PICK step \in {"put", "failed"} : job' = [job EXCEPT ![w].step = step]
      BY <2>1
    <2> DEFINE q == [job[w] EXCEPT !.step = step]
    <2>3. q \in Jobs /\ q.video = job[w].video /\ q.locked = job[w].locked
      BY <1>2, <2>1
    <2>4. job' = [job EXCEPT ![w] = q]
      BY <2>2
    <2> HIDE DEF q
    <2> QED
      BY <1>1, <2>1, <2>3, <2>4, JobStep DEF LockedBy
  <1>5. CASE PutOutput(w)
    <2> DEFINE k == Output(job[w].video)
    <2>1. /\ job[w] # None
          /\ UNCHANGED <<video, drawn, upload, deletions, cleaning>>
          /\ strayed' = IF job[w].locked THEN strayed ELSE strayed \cup {k}
          /\ objects' = objects \/ objects' = objects \cup {k}
          /\ \E step \in {"done", "failed"} : job' = [job EXCEPT ![w].step = step]
      BY <1>5 DEF PutOutput, Working
    <2>2. PICK step \in {"done", "failed"} : job' = [job EXCEPT ![w].step = step]
      BY <2>1
    <2> DEFINE q == [job[w] EXCEPT !.step = step]
    <2>3. q \in Jobs /\ q.video = job[w].video /\ q.locked = job[w].locked
      BY <1>2, <2>1
    <2>4. job' = [job EXCEPT ![w] = q]
      BY <2>2
    <2>5. LockedBy(w, job[w].video) \/ k \in strayed'
      BY <2>1 DEF LockedBy
    <2> HIDE DEF q
    <2> QED
      BY <1>1, <2>1, <2>3, <2>4, <2>5, JobStep DEF LockedBy
  <1>6. CASE CrashWorker(w)
    BY <1>6, JobStep DEF CrashWorker, EndJob
  <1>7. CASE LoseTransaction(w)
    <2> DEFINE q == [job[w] EXCEPT !.locked = FALSE]
    <2>1. /\ job[w] # None /\ job' = [job EXCEPT ![w] = q]
          /\ UNCHANGED <<video, drawn, upload, deletions, cleaning, objects, strayed>>
      BY <1>7 DEF LoseTransaction
    <2>2. q \in Jobs /\ q.video = job[w].video /\ ~q.locked
      BY <1>1, <2>1 DEF Jobs
    <2> HIDE DEF q
    <2> QED
      BY <1>1, <2>1, <2>2, JobStep
  <1> QED
    BY <1>3, <1>4, <1>5, <1>6, <1>7

\* The commit of a conversion, for better or worse.
LEMMA CommitSteps ==
    ASSUME VInv, NEW w \in Workers, PublishVideo(w) \/ FailVideo(w)
    PROVE  VInv'
  <1>1. job[w] # None /\ job[w].locked /\ job[w] \in Jobs
    BY DEF PublishVideo, FailVideo, Working, VInv, VideosTyped
  <1>2. PICK v \in Videos : v = job[w].video
    BY <1>1 DEF Jobs
  <1>3. LockedBy(w, v) /\ Row(v) /\ video[v].state = "processing" /\ video[v] \in VideoRows
    BY <1>1, <1>2 DEF LockedBy, VInv, LocksHeld, VideosTyped, Row
  <1>4. \A x \in Workers \ {w} : ~LockedBy(x, v)
    BY <1>3 DEF VInv, LocksHeld
  <1>5. job' = [job EXCEPT ![w] = None] => \A x \in Workers : ~LockedBy(x, v)'
    BY <1>4 DEF LockedBy, VInv, VideosTyped
  <1>6. /\ Source(v) \in StoreKeys /\ Output(v) \in StoreKeys /\ deletions \in Seq(StoreKeys)
        /\ IsFiniteSet({Source(v)})
    BY StoreKeysOfVideos, FS_Singleton DEF VInv, VideosTyped
  <1>7. CASE PublishVideo(w)
    <2> DEFINE row == [video[v] EXCEPT !.key = Output(v), !.output = None, !.state = "ready"]
    <2>1. /\ video' = [video EXCEPT ![v] = row] /\ job' = [job EXCEPT ![w] = None]
          /\ deletions' = Queued(deletions, {Source(v)})
          /\ UNCHANGED <<drawn, objects, upload, cleaning, strayed>>
      BY <1>2, <1>7 DEF PublishVideo, EndJob
    <2>2. row \in VideoRows /\ row.state = "ready" /\ row.key = Output(v) /\ row.output = None
      BY <1>3, <1>6 DEF VideoRows
    <2>3. deletions' \in Seq(StoreKeys) /\ ToSet(deletions') = ToSet(deletions) \cup {Source(v)}
      BY <1>6, <2>1, QueuedElements
    <2> HIDE DEF row
    <2> QED
      BY <1>3, <1>5, <2>1, <2>2, <2>3, RowStep
  <1>8. CASE FailVideo(w)
    <2> DEFINE row == [video[v] EXCEPT !.state = "failed"]
    <2>1. /\ video' = [video EXCEPT ![v] = row] /\ job' = [job EXCEPT ![w] = None]
          /\ UNCHANGED <<drawn, objects, upload, deletions, cleaning, strayed>>
      BY <1>2, <1>8 DEF FailVideo, EndJob
    <2>2. row \in VideoRows /\ row.state = "failed" /\ row.key = video[v].key
          /\ row.output = video[v].output
      BY <1>3 DEF VideoRows
    <2> HIDE DEF row
    <2> QED
      BY <1>3, <1>5, <1>6, <2>1, <2>2, RowStep
  <1> QED
    BY <1>7, <1>8
\* Rows go together, and what they name is queued.
LEMMA RowsGo ==
    ASSUME VInv, NEW vs \in SUBSET Videos, \A v \in vs : Row(v) /\ ~Locked(v),
           video' = [v \in Videos |-> IF v \in vs THEN None ELSE video[v]],
           deletions' = Queued(deletions, UNION {KeysOf(v) : v \in vs}),
           UNCHANGED <<drawn, objects, upload, job, cleaning, strayed>>
    PROVE  VInv'
  <1> USE DEF VInv
  <1> DEFINE ks == UNION {KeysOf(v) : v \in vs}
  <1>1. ks \in SUBSET StoreKeys /\ \A k \in ks : k.video \in vs
    <2>1. ASSUME NEW v \in vs, NEW k \in KeysOf(v) PROVE k \in StoreKeys /\ k.video = v
      BY <2>1, KeysOfRow, StoreKeysOfVideos
    <2> QED
      BY <2>1
  <1>2. IsFiniteSet(ks)
    <2> DEFINE sources == {Source(v) : v \in vs}
               outputs == {Output(v) : v \in vs}
    <2>1. IsFiniteSet(vs)
      <3>1. vs \in SUBSET drawn
        BY DEF Known
      <3> QED
        BY <3>1, FS_Subset DEF VideosTyped
    <2>2. IsFiniteSet(sources)
      <3> DEFINE f == [v \in vs |-> Source(v)]
      <3>1. f \in Surjection(vs, sources)
        BY DEF Surjection
      <3> QED
        BY <2>1, <3>1, FS_Surjection
    <2>3. IsFiniteSet(outputs)
      <3> DEFINE f == [v \in vs |-> Output(v)]
      <3>1. f \in Surjection(vs, outputs)
        BY DEF Surjection
      <3> QED
        BY <2>1, <3>1, FS_Surjection
    <2>4. ks \in SUBSET (sources \cup outputs)
      BY KeysOfRow
    <2> HIDE DEF sources, outputs, ks
    <2>5. IsFiniteSet(sources \cup outputs)
      BY <2>2, <2>3, FS_Union
    <2> QED
      BY <2>4, <2>5, FS_Subset
  <1>3. \A k \in StoreKeys : k.video \in vs /\ Referenced(k) => k \in ks
    BY DEF Referenced
  <1>4. deletions' = Queued(deletions, ks)
    OBVIOUS
  <1> HIDE DEF ks
  <1>5. deletions' \in Seq(StoreKeys) /\ ToSet(deletions') = ToSet(deletions) \cup ks
    BY <1>1, <1>2, <1>4, QueuedElements DEF VideosTyped
  <1>6. /\ \A v \in vs : video'[v] = None
        /\ \A v \in Videos \ vs : video'[v] = video[v]
    OBVIOUS
  <1>7. VideosTyped'
    BY <1>5, <1>6 DEF VideosTyped, Row, RowOK
  <1>8. Known'
    BY <1>1, <1>5, <1>6 DEF Known, Row
  <1>9. UploadsFresh'
    BY <1>6 DEF UploadsFresh, Coming, Uploading, Row
  <1>10. LocksHeld'
    BY <1>6 DEF LocksHeld, LockedBy, Locked, Row
  <1>11. OutputsKept'
    <2> SUFFICES ASSUME NEW v \in Videos, (Row(v) \/ Coming(v))'
                 PROVE  Output(v) \notin ToSet(deletions') /\ Output(v) \notin ToSet(cleaning)
      BY DEF OutputsKept, Output
    <2>1. Row(v) \/ Coming(v)
      BY <1>6 DEF Row, Coming
    <2>2. v \notin vs
      BY <1>6 DEF UploadsFresh, Row, Coming
    <2>3. Output(v) \notin ks
      BY <1>1, <2>2, StoreKeysOfVideos
    <2> QED
      BY <1>5, <2>1, <2>3 DEF OutputsKept
  <1>12. Accounted'
    <2> SUFFICES ASSUME NEW k \in objects
                 PROVE  \/ Referenced(k)' \/ k \in ToSet(deletions') \/ k \in strayed
                        \/ k.part = "source" /\ upload[k.video] # None
      BY DEF Accounted
    <2>1. k \in StoreKeys /\ k.video \in Videos
      BY StoreKeysOfVideos DEF VideosTyped
    <2>2. CASE k.video \in vs
      BY <1>3, <1>5, <2>1, <2>2 DEF Accounted
    <2>3. CASE k.video \notin vs
      <3>1. Referenced(k) => Referenced(k)'
        BY <1>6, <2>1, <2>3 DEF Referenced, KeysOf, Row
      <3> QED
        BY <1>5, <3>1 DEF Accounted
    <2> QED
      BY <2>2, <2>3
  <1> QED
    BY <1>7, <1>8, <1>9, <1>10, <1>11, <1>12

\* Objects go; rows and queue stay.
LEMMA ObjectsGo ==
    ASSUME VInv, objects' \subseteq objects, UNCHANGED <<video, drawn, upload, job, strayed>>,
           deletions' \in Seq(StoreKeys), cleaning' \in Seq(StoreKeys),
           ToSet(deletions') \subseteq ToSet(deletions),
           ToSet(cleaning') \subseteq ToSet(cleaning) \cup ToSet(deletions),
           \A k \in objects' : k \in ToSet(deletions) => k \in ToSet(deletions')
    PROVE  VInv'
  <1> USE DEF VInv
  <1>1. VideosTyped'
    BY DEF VideosTyped, Row, RowOK
  <1>2. Known'
    BY DEF Known, Row
  <1>3. UploadsFresh'
    BY DEF UploadsFresh, Coming, Uploading, Row
  <1>4. LocksHeld'
    BY DEF LocksHeld, LockedBy, Row
  <1>5. OutputsKept'
    BY DEF OutputsKept, Coming, Row
  <1>6. Accounted'
    BY DEF Accounted, Referenced, KeysOf, Row
  <1> QED
    BY <1>1, <1>2, <1>3, <1>4, <1>5, <1>6

LEMMA CleanerSteps ==
    ASSUME VInv, StartCleanup \/ \E done \in BOOLEAN : CleanOne(done)
    PROVE  VInv'
  <1>1. deletions \in Seq(StoreKeys) /\ cleaning \in Seq(StoreKeys) /\ <<>> \in Seq(StoreKeys)
        /\ ToSet(<<>>) = {}
    BY EmptySeq DEF VInv, VideosTyped, ToSet
  <1>2. CASE StartCleanup
    <2> DEFINE n == Min({Batch, Len(deletions)})
    <2>1. /\ deletions # <<>> /\ cleaning' = SubSeq(deletions, 1, n)
          /\ UNCHANGED <<video, drawn, objects, upload, job, deletions, strayed>>
      BY <1>2 DEF StartCleanup
    <2>2. n \in Nat /\ n <= Len(deletions)
      <3>1. Batch \in Nat /\ Len(deletions) \in Nat
        BY <1>1, VideoConstants
      <3>2. \E m \in {Batch, Len(deletions)} : \A i \in {Batch, Len(deletions)} : m <= i
        BY <3>1
      <3>3. n \in {Batch, Len(deletions)} /\ \A i \in {Batch, Len(deletions)} : n <= i
        BY <3>2 DEF Min
      <3> QED
        BY <3>1, <3>3
    <2> HIDE DEF n
    <2>3. 1 \in Nat \ {0}
      OBVIOUS
    <2>4. cleaning' \in Seq(StoreKeys) /\ ToSet(cleaning') \subseteq ToSet(deletions)
      BY <1>1, <2>1, <2>2, <2>3, PartElements
    <2> QED
      BY <1>1, <2>1, <2>4, ObjectsGo
  <1>3. ASSUME NEW done \in BOOLEAN, CleanOne(done) PROVE VInv'
    <2>1. PICK k : k = Head(cleaning)
      OBVIOUS
    <2>2. cleaning # <<>> /\ UNCHANGED <<video, drawn, upload, job, strayed>>
      BY <1>3 DEF CleanOne
    <2>3. Tail(cleaning) \in Seq(StoreKeys) /\ ToSet(Tail(cleaning)) \subseteq ToSet(cleaning)
      BY <1>1, <2>2, TailElements
    <2>4. CASE /\ objects' = objects \ {k} /\ cleaning' = Tail(cleaning)
               /\ deletions' = RemoveFirst(deletions, k)
      <3>1. /\ deletions' \in Seq(StoreKeys) /\ ToSet(deletions') \subseteq ToSet(deletions)
            /\ ToSet(deletions) \ {k} \subseteq ToSet(deletions')
        BY <1>1, <2>4, RemoveFirstElements
      <3> QED
        BY <2>2, <2>3, <2>4, <3>1, ObjectsGo
    <2>5. CASE /\ objects' \in {objects, objects \ {k}} /\ cleaning' = <<>>
               /\ UNCHANGED deletions
      BY <1>1, <2>2, <2>5, ObjectsGo
    <2> QED
      BY <1>3, <2>1, <2>4, <2>5 DEF CleanOne
  <1> QED
    BY <1>2, <1>3

LEMMA RequestSteps ==
    ASSUME MInv, VInv, NEW r \in Requests, VideoRequests(r)
    PROVE  VInv'
  <1>1. ASSUME NEW u \in Users, NEW c \in Classes, NEW v \in Videos, AskDeleteVideo(r, u, c, v)
        PROVE  VInv'
    BY <1>1, VideosUnchanged DEF AskDeleteVideo
  <1>2. CASE Unstore(r)
    <2>1. /\ objects' \subseteq objects
          /\ UNCHANGED <<video, drawn, upload, job, deletions, cleaning, strayed>>
      BY <1>2 DEF Unstore
    <2>2. deletions \in Seq(StoreKeys) /\ cleaning \in Seq(StoreKeys)
      BY DEF VInv, VideosTyped
    <2> QED
      BY <2>1, <2>2, ObjectsGo
  <1>3. CASE Unlist(r)
    <2>1. PICK v : v = call[r].target
      OBVIOUS
    <2>2. CASE UNCHANGED <<video, deletions>>
      BY <1>3, <2>2, VideosUnchanged DEF Unlist, videoVars
    <2>3. CASE Row(v) /\ v \in Videos /\ video' = [video EXCEPT ![v] = None]
               /\ deletions' = Queued(deletions, KeysOf(v))
      <3>1. UNION {KeysOf(x) : x \in {v}} = KeysOf(v)
        OBVIOUS
      <3>2. video' = [x \in Videos |-> IF x \in {v} THEN None ELSE video[x]]
        BY <2>3 DEF VInv, VideosTyped
      <3>3. ~Locked(v) /\ UNCHANGED <<drawn, objects, upload, job, cleaning, strayed>>
        BY <1>3, <2>1 DEF Unlist
      <3> QED
        BY <2>3, <3>1, <3>2, <3>3, RowsGo
    <2>4. v \in Videos
      BY <1>3, <2>1 DEF Unlist, Running, MInv, CallsFit, Fits
    <2> QED
      BY <1>3, <2>1, <2>2, <2>3, <2>4 DEF Unlist
  <1>4. CASE DeleteClassWithVideos(r)
    <2> DEFINE vs == {v \in Videos : RowOf(call[r].class, v)}
    <2>1. /\ \A v \in vs : ~Locked(v)
          /\ video' = [v \in Videos |-> IF v \in vs THEN None ELSE video[v]]
          /\ deletions' = Queued(deletions, UNION {KeysOf(v) : v \in vs})
          /\ UNCHANGED <<drawn, objects, upload, job, cleaning, strayed>>
      BY <1>4 DEF DeleteClassWithVideos
    <2>2. vs \in SUBSET Videos /\ \A v \in vs : Row(v)
      BY DEF RowOf
    <2> HIDE DEF vs
    <2> QED
      BY <2>1, <2>2, RowsGo
  <1> QED
    BY <1>1, <1>2, <1>3, <1>4 DEF VideoRequests
\* What requests about videos do to the tables of the classes.
LEMMA RequestsOfClass ==
    ASSUME MInv, VInv, NEW r \in Requests, VideoRequests(r)
    PROVE  MInv'
  <1>1. assigned \in [Classes -> SUBSET Sets] /\ \A d \in Classes : ~Exists(d) => assigned[d] = {}
    BY DEF MInv, TablesOK
  <1>2. ASSUME NEW u \in Users, NEW c \in Classes, NEW v \in Videos, AskDeleteVideo(r, u, c, v)
        PROVE  MInv'
    <2> DEFINE op == IF video[v].key = None THEN "unlist" ELSE "unstore"
               key == video[v].key
    <2>1. /\ call[r] = None /\ Admit(r, op, c, v, key) /\ RowOK(v)
      BY <1>2 DEF AskDeleteVideo, RowOf, VInv, VideosTyped
    <2>2. /\ key \in StoreKeys \cup {None} /\ op \in {"unlist", "unstore"}
          /\ op = "unstore" => key \in StoreKeys /\ key.video = v
      BY <2>1, StoreKeysOfVideos DEF RowOK
    <2> HIDE DEF op, key
    <2>3. Fits([op |-> op, class |-> c, target |-> v, role |-> key])
      BY <2>2 DEF Fits
    <2> QED
      BY <2>1, <2>2, <2>3, AdmitStep DEF Ops
  <1>3. ASSUME Unstore(r) \/ Unlist(r), Done(r) PROVE MInv'
    <2>1. /\ call' = [call EXCEPT ![r] = None] /\ ~Running(r, "own")
          /\ UNCHANGED <<class, member, assigned, unowned>>
      BY <1>3 DEF Unstore, Unlist, Done, Running
    <2> QED
      BY <1>1, <2>1, CallStep
  <1>4. ASSUME Unstore(r), Next_op(r, "unlist") PROVE MInv'
    <2> DEFINE n == [call[r] EXCEPT !.op = "unlist"]
    <2>1. /\ call[r] \in Requested /\ call[r].op = "unstore" /\ Fits(call[r])
          /\ call[r] # None /\ call' = [call EXCEPT ![r] = n]
          /\ UNCHANGED <<class, member, assigned, unowned>>
      BY <1>4 DEF Unstore, Next_op, Running, MInv, TablesOK, CallsFit
    <2>2. n \in Requested /\ n.op = "unlist" /\ n.target = call[r].target
      BY <2>1 DEF Requested, Ops
    <2> HIDE DEF n
    <2>3. Fits(n)
      BY <2>1, <2>2 DEF Fits
    <2> QED
      BY <1>1, <2>1, <2>2, <2>3, CallStep DEF Running
  <1>5. CASE DeleteClassWithVideos(r)
    BY <1>5, DeleteClassStep DEF DeleteClassWithVideos
  <1> QED
    BY <1>2, <1>3, <1>4, <1>5 DEF VideoRequests, Unstore, Unlist

\* Requests about videos, writes and background leave the study service.
LEMMA RequestsOfStudy ==
    ASSUME EInv, NEW r \in Requests, VideoRequests(r)
    PROVE  EInv'
  <1>1. CASE DeleteClassWithVideos(r)
    BY <1>1, DeleteClassEvents DEF DeleteClassWithVideos
  <1>2. CASE ~DeleteClassWithVideos(r)
    <2>1. UNCHANGED studyVars
      BY <1>2 DEF VideoRequests, AskDeleteVideo, Admit, Unstore, Unlist
    <2> QED
      BY <2>1, StudyUnchanged
  <1> QED
    BY <1>1, <1>2

LEMMA VideosLeaveClassroom == VideoWrites \/ VideoBackground => UNCHANGED classroomVars
  <1> SUFFICES ASSUME VideoWrites \/ VideoBackground PROVE UNCHANGED classroomVars
    OBVIOUS
  <1>1. CASE VideoWrites
    <2>1. ASSUME NEW v \in Videos, NEW c \in Classes, NEW u \in Users, NEW viewers \in SUBSET Users,
                 NEW audience \in Audiences,
                 \/ StartUpload(v, c, u, audience, viewers)
                 \/ AddLink(v, c, u, audience, viewers)
                 \/ UpdateVideo(v, c, u, audience, viewers)
          PROVE  UNCHANGED classroomVars
      BY <2>1 DEF StartUpload, AddLink, UpdateVideo
    <2> QED
      BY <1>1, <2>1 DEF VideoWrites, Audiences
  <1>2. CASE VideoBackground
    <2>1. ASSUME NEW v \in Videos,
                 \/ StoreUpload(v) \/ StoreUploadFails(v) \/ RecheckUpload(v)
                 \/ InsertVideo(v) \/ UndoUpload(v) \/ CrashUpload(v)
          PROVE  UNCHANGED classroomVars
      BY <2>1 DEF StoreUpload, StoreUploadFails, RecheckUpload, InsertVideo, UndoUpload, CrashUpload
    <2>2. ASSUME NEW w \in Workers,
                 \/ TakeVideo(w) \/ Convert(w) \/ PutOutput(w) \/ PublishVideo(w)
                 \/ FailVideo(w) \/ CrashWorker(w) \/ LoseTransaction(w)
          PROVE  UNCHANGED classroomVars
      BY <2>2 DEF TakeVideo, Convert, PutOutput, PublishVideo, FailVideo, CrashWorker,
              LoseTransaction
    <2>3. ASSUME StartCleanup \/ \E done \in BOOLEAN : CleanOne(done)
          PROVE  UNCHANGED classroomVars
      BY <2>3 DEF StartCleanup, CleanOne
    <2> QED
      BY <1>2, <2>1, <2>2, <2>3 DEF VideoBackground
  <1> QED
    BY <1>1, <1>2

LEMMA MembersUnchanged == MInv /\ UNCHANGED classVars => MInv'
  <1> SUFFICES ASSUME MInv, UNCHANGED classVars PROVE MInv'
    OBVIOUS
  <1>1. /\ class' = class /\ member' = member /\ assigned' = assigned
        /\ unowned' = unowned /\ call' = call
    BY DEF classVars
  <1>2. TablesOK'
    BY <1>1 DEF MInv, TablesOK, Exists, MembersOf
  <1>3. CallsFit'
    BY <1>1 DEF MInv, CallsFit, Fits, Exists
  <1>4. RoomKept'
    BY <1>1 DEF MInv, RoomKept, Entering, Running, Exists, MembersOf
  <1>5. OwnerKept'
    BY <1>1 DEF MInv, OwnerKept, Exists, Running
  <1> QED
    BY <1>2, <1>3, <1>4, <1>5 DEF MInv

\* The events leave the tables of the classes.
LEMMA StudyLeavesClass == StudyNext => UNCHANGED classVars
  BY DEF StudyNext, SaveProgress, DeleteStudySet, PollOutbox, PublishEvent, PublisherStops,
         NoteCompletion

LEMMA BackgroundStep ==
    ASSUME VInv, VideoWrites \/ VideoBackground
    PROVE  VInv'
  <1>1. CASE VideoWrites
    BY <1>1, StartUploadStep, AddLinkStep, UpdateVideoStep DEF VideoWrites, Audiences
  <1>2. CASE VideoBackground
    BY <1>2, UploadSteps, InsertVideoStep, WorkerSteps, CommitSteps, CleanerSteps DEF VideoBackground
  <1> QED
    BY <1>1, <1>2

CInv == MInv /\ EInv /\ VInv

LEMMA VideosStep == CInv /\ [VideosNext]_allVars => CInv'
  <1> SUFFICES ASSUME CInv, [VideosNext]_allVars PROVE CInv'
    OBVIOUS
  <1> USE DEF CInv
  <1>1. CASE UNCHANGED allVars
    BY <1>1, MembersUnchanged, StudyUnchanged, VideosUnchanged
       DEF allVars, classroomVars, classVars, studyVars
  <1>2. CASE ClassNext /\ UNCHANGED videoVars
    BY <1>2, ClassStep, ClassLeavesStudy, StudyUnchanged, VideosUnchanged
  <1>3. CASE StudyNext /\ UNCHANGED videoVars
    BY <1>3, EventStep, EarnedStep, StudyLeavesClass, MembersUnchanged, VideosUnchanged DEF EInv
  <1>4. ASSUME NEW r \in Requests, VideoRequests(r) PROVE CInv'
    BY <1>4, RequestsOfClass, RequestsOfStudy, RequestSteps
  <1>5. CASE VideoWrites \/ VideoBackground
    <2>1. UNCHANGED classVars /\ UNCHANGED studyVars
      BY <1>5, VideosLeaveClassroom DEF classroomVars, classVars, studyVars
    <2> QED
      BY <1>5, <2>1, MembersUnchanged, StudyUnchanged, BackgroundStep
  <1> QED
    BY <1>1, <1>2, <1>3, <1>4, <1>5 DEF VideosNext

LEMMA VideosInvariant == VideosSpec => []CInv
  <1>1. ClassroomInit /\ VideosInit => CInv
    BY MembersInit, VideosStart DEF CInv
  <1> QED
    BY <1>1, VideosStep, PTL DEF VideosSpec
-----------------------------------------------------------------------------
(* Theorems.                                                               *)

\* A class with room for m never has more than m members and as many as the
\* other requests that can be under way at once.
LEMMA MembersAreBounded == CInv => MembersBounded
  <1> SUFFICES ASSUME CInv, NEW c \in Classes
               PROVE  Cardinality(MembersOf(c)) <= MaxMembers + Cardinality(Requests) - 1
    BY DEF MembersBounded
  <1>1. Entering(c) \in SUBSET Requests
    BY DEF Entering
  <1>2. Cardinality(Entering(c)) \in Nat /\ Cardinality(Requests) \in Nat
    BY <1>1, EnteringFinite
  <1>3. CASE Exists(c)
    <2>1. /\ IsFiniteSet(MembersOf(c))
          /\ Cardinality(MembersOf(c)) + Cardinality(Entering(c))
                 <= MaxMembers + Cardinality(Requests) - 1
      BY <1>3 DEF CInv, MInv, RoomKept
    <2> QED
      BY <1>2, <2>1, FS_CardinalityType, ClassConstants
  <1>4. CASE ~Exists(c)
    <2>1. MembersOf(c) = {} /\ Cardinality(MembersOf(c)) = 0
      BY <1>4, FS_EmptySet DEF CInv, MInv, TablesOK
    <2> QED
      BY <1>2, <2>1, ClassConstants
  <1> QED
    BY <1>3, <1>4

LEMMA StudentsSeeTheirOwn == StudentSeesOwn
  BY StudentsViewNobody DEF StudentSeesOwn, VisibleRows

\* The tables of the class service stay as their constraints want them, and
\* so do outbox and stream (ClassTypeOK, of Classroom).
THEOREM ClassTypeCorrect == VideosSpec => []ClassTypeOK
  <1>1. CInv => ClassTypeOK
    <2> SUFFICES ASSUME CInv PROVE ClassTypeOK
      OBVIOUS
    <2>1. ToSet(outbox) \subseteq Keys /\ ToSet(batch) \subseteq Keys
      BY ToSetOfSeq DEF CInv, EInv, EventsKept, EventsOK
    <2> QED
      BY <2>1 DEF CInv, MInv, TablesOK, EInv, EventsKept, EventsOK, ClassTypeOK, ClassRows, MemberRoles
  <1> QED
    BY <1>1, VideosInvariant, PTL

\* However the requests of teachers, joining and leaving students and the
\* deletion of a class interleave: it overruns its limit by no more than the
\* other requests under way, nobody but the owner has the owner's role, the
\* owner keeps it, and a student sees no row of others (addMember, joinClass,
\* updateRole, removeMember and the dashboard of the class service).
THEOREM MembershipIsSound == VideosSpec => []MembershipSound
  <1>1. CInv => OwnerKept
    BY DEF CInv, MInv
  <1>2. CInv => MembersBounded /\ OwnerKept /\ StudentSeesOwn
    BY <1>1, MembersAreBounded, StudentsSeeTheirOwn
  <1> QED
    BY <1>2, VideosInvariant, ClassTypeCorrect, PTL DEF MembershipSound

\* Whatever is lost, retried or delivered again between the study service and
\* the class service, a completion is neither lost nor counted twice nor made
\* up (RunCompletionOutbox, RunCompletionConsumer).
THEOREM CompletionsAreCounted == VideosSpec => []CompletionCounted
  <1>1. CInv => CompletionOnce
    <2> SUFFICES ASSUME CInv, NEW k \in Keys, NEW c \in Classes PROVE noted[k][c] <= 1
      BY DEF CompletionOnce
    <2>1. noted[k][c] \in 0..1
      BY DEF CInv, EInv, EventsKept, EventsOK
    <2> QED
      BY <2>1
  <1>2. CInv => CompletionCounted
    BY <1>1 DEF CInv, EInv, EventsKept, EventsEarned, CompletionCounted
  <1> QED
    BY <1>2, VideosInvariant, PTL

\* No object stays in the store that nobody names, queues or is uploading,
\* but those whose writer died or lost its lock or its connection
\* (uploadPrivateVideo, processNextVideo, cleanupVideos and the trigger
\* queue_class_video_deletion).
THEOREM NothingIsLeaked == VideosSpec => []NothingLeaked
  <1>1. CInv => NothingLeaked
    BY DEF CInv, VInv, Accounted, NothingLeaked
  <1> QED
    BY <1>1, VideosInvariant, PTL

\* Only a request to delete a video takes the object of one that can be
\* watched: no late commit, undone upload or round of the cleaner does.
THEOREM WatchedVideosStay == VideosSpec => PlayableKept
  <1> DEFINE Kept(c, v, u) ==
        Playable(c, v, u) /\ class' = class /\ member' = member /\ video'[v] = video[v]
        => \/ Playable(c, v, u)'
           \/ \E r \in Requests : Running(r, "unstore") /\ call[r].target = v
  <1>1. ASSUME CInv, [VideosNext]_allVars, NEW c \in Classes, NEW v \in Videos, NEW u \in Users
        PROVE  Kept(c, v, u)
    <2> USE DEF CInv
    <2> SUFFICES ASSUME Playable(c, v, u), class' = class, member' = member,
                        video'[v] = video[v],
                        ~\E r \in Requests : Running(r, "unstore") /\ call[r].target = v
                 PROVE  Playable(c, v, u)'
      OBVIOUS
    <2>1. Row(v) /\ video[v].key = Output(v) /\ Output(v) \in objects
      <3>1. Row(v) /\ video[v].key # None /\ video[v].state = "ready" /\ video[v].key \in objects
        BY DEF Playable, Authorized, RowOf
      <3> QED
        BY <1>1, <3>1 DEF VInv, VideosTyped, RowOK
    <2>2. Output(v) \notin ToSet(deletions) /\ Output(v) \notin ToSet(cleaning)
      BY <1>1, <2>1 DEF VInv, OutputsKept
    <2>3. Output(v) \in objects'
      <3>2. ASSUME NEW x \in Videos,
                   \/ StoreUpload(x) \/ StoreUploadFails(x) \/ RecheckUpload(x)
                   \/ InsertVideo(x) \/ UndoUpload(x) \/ CrashUpload(x)
            PROVE  Output(v) \in objects'
        <4>1. objects \ {Source(x)} \subseteq objects'
          BY <3>2 DEF StoreUpload, StoreUploadFails, RecheckUpload, InsertVideo, UndoUpload,
                      CrashUpload
        <4> QED
          BY <2>1, <4>1, StoreKeysOfVideos
      <3>3. ASSUME NEW w \in Workers,
                   \/ TakeVideo(w) \/ Convert(w) \/ PutOutput(w) \/ PublishVideo(w)
                   \/ FailVideo(w) \/ CrashWorker(w) \/ LoseTransaction(w)
            PROVE  Output(v) \in objects'
        <4>1. objects \subseteq objects'
          BY <3>3 DEF TakeVideo, Convert, PutOutput, PublishVideo, FailVideo, CrashWorker,
                      LoseTransaction
        <4> QED
          BY <2>1, <4>1
      <3>4. ASSUME NEW done \in BOOLEAN, CleanOne(done) PROVE Output(v) \in objects'
        <4>1. cleaning # <<>> /\ objects \ {Head(cleaning)} \subseteq objects'
          BY <3>4 DEF CleanOne
        <4>2. Head(cleaning) \in ToSet(cleaning)
          BY <1>1, <4>1, TailElements DEF VInv, VideosTyped
        <4> QED
          BY <2>1, <2>2, <4>1, <4>2
      <3>5. ASSUME NEW r \in Requests, Unstore(r) PROVE Output(v) \in objects'
        <4>1. Running(r, "unstore") /\ objects \ {call[r].role} \subseteq objects'
          BY <3>5 DEF Unstore
        <4>2. call[r].role \in StoreKeys /\ call[r].role.video = call[r].target
          BY <1>1, <4>1 DEF Running, MInv, CallsFit, Fits
        <4>3. call[r].role # Output(v)
          BY <4>1, <4>2, StoreKeysOfVideos
        <4> QED
          BY <2>1, <4>1, <4>3
      <3>6. ASSUME NEW r \in Requests, VideoRequests(r) PROVE Output(v) \in objects'
        <4>1. CASE ~Unstore(r)
          <5>1. objects' = objects
            BY <3>6, <4>1 DEF VideoRequests, AskDeleteVideo, videoVars, Unlist,
                              DeleteClassWithVideos
          <5> QED
            BY <2>1, <5>1
        <4> QED
          BY <3>5, <4>1
      <3>7. ASSUME VideoWrites \/ StartCleanup PROVE Output(v) \in objects'
        <4>1. CASE StartCleanup
          BY <2>1, <4>1 DEF StartCleanup
        <4>2. ASSUME NEW x \in Videos, NEW d \in Classes, NEW y \in Users,
                     NEW viewers \in SUBSET Users, NEW audience \in Audiences,
                     \/ StartUpload(x, d, y, audience, viewers)
                     \/ AddLink(x, d, y, audience, viewers)
                     \/ UpdateVideo(x, d, y, audience, viewers)
              PROVE  objects' = objects
          BY <4>2 DEF StartUpload, AddLink, UpdateVideo
        <4> QED
          BY <2>1, <3>7, <4>1, <4>2 DEF VideoWrites, Audiences
      <3>8. CASE UNCHANGED videoVars
        BY <2>1, <3>8 DEF videoVars
      <3> QED
        BY <1>1, <3>2, <3>3, <3>4, <3>6, <3>7, <3>8 DEF VideosNext, VideoBackground, allVars
    <2>4. Authorized(c, v, u)' /\ Exists(c)' /\ Staff(c, u)' = Staff(c, u)
      BY DEF Playable, Authorized, RowOf, Row, Staff, Exists
    <2> QED
      BY <2>1, <2>3, <2>4 DEF Playable, Staff
  <1> HIDE DEF Kept
  <1>2. CInv /\ [VideosNext]_allVars
        => [\A c \in Classes, v \in Videos, u \in Users : Kept(c, v, u)]_allVars
    BY <1>1
  <1>3. VideosSpec => [][\A c \in Classes, v \in Videos, u \in Users : Kept(c, v, u)]_allVars
    BY <1>2, VideosInvariant, PTL DEF VideosSpec
  <1> QED
    BY <1>3 DEF PlayableKept, Kept
=============================================================================
