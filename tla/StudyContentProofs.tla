------------------------- MODULE StudyContentProofs -------------------------
(***************************************************************************)
(* Flashcards, questions and imports, for every number of sets, users,     *)
(* requests and jobs, and every size of a file and of a chunk.             *)
(***************************************************************************)
EXTENDS StudyContent, FiniteSetTheorems, NaturalsInduction, TLAPS

-----------------------------------------------------------------------------
(* The inductive invariant.                                                *)

Card == [id : 1..MaxCards, set : Sets, pos : Nat, by : Tasks \cup {None}]

JobRow == [set : Sets, imported : Nat, recorded : BOOLEAN,
           status : {"pending", "running", "done", "failed", "gone"}]

\* Where a task is: before it wrote anything, while it appends, and later.
Unwritten == {"put", "record", "mark", "open", "position", "count", "append",
              "replace", "insert"}
Appending == {"flush", "progress"}
Mirroring == {"list", "mirror"}

Work == [pc : Unwritten \cup Appending \cup Mirroring \cup {"done", "cleanup"},
         kind : {"save", "flashcard", "quiz"}, set : Sets,
         seen : SUBSET (Tasks \cup Card), pos : Nat, left : 0..Rows, alone : BOOLEAN]

\* What the rows are, and that a position is below the next id.
RowsTyped ==
    /\ shelf \in [Sets -> {"shown", "hidden", "deleted"}]
    /\ nextId \in 1..(MaxCards + 1)
    /\ cards \subseteq Card
    /\ questions \in [Sets -> SUBSET Tasks]
    /\ job \in [Jobs -> {None} \cup JobRow]
    /\ files \subseteq Jobs /\ lost \subseteq Jobs
    /\ made \in [Jobs -> 0..Rows]
    /\ task \in [Tasks -> {Idle} \cup Work]

CardsPlaced ==
    /\ \A c \in cards : c.id < nextId /\ c.pos < nextId /\ Live(c.set)
    /\ \A c, d \in cards : c.id = d.id => c = d
    /\ \A s \in Sets : ~Live(s) => questions[s] = {}

\* A job that has no row has done nothing; one at work has made what its
\* file has no longer left, its row says so only at the end, and its upload
\* is there from the time it is stored to the time it is opened.
JobFine(j) ==
    /\ job[j] = None => ~Active(j) /\ j \notin files /\ made[j] = 0
    /\ job[j] # None => job[j].imported <= made[j]
    /\ job[j] # None /\ job[j].status = "done" => job[j].imported = made[j]
    /\ job[j] # None /\ job[j].status \in {"pending", "failed"} => job[j].imported = 0
    /\ Active(j) =>
        /\ made[j] = Rows - task[j].left
        /\ task[j].pc \in {"put", "record"} =>
              job[j].status \in {"pending", "gone"} /\ ~job[j].recorded
        /\ task[j].pc \in {"record", "mark", "open"} => j \in files
        /\ task[j].pc # "cleanup" => job[j].status # "done"
        /\ task[j].pc = "cleanup" /\ j \notin lost =>
              job[j].status \in {"done", "failed", "gone"}
    /\ ~Active(j) /\ j \notin lost /\ job[j] # None =>
        \/ job[j].status \in {"done", "failed", "gone"}
        \/ job[j].status = "pending" /\ ~job[j].recorded

\* What a task reads is what it will find, as long as it is alone.
TaskFine(t) == Active(t) =>
    /\ task[t].pos <= nextId
    /\ task[t].pc \in Unwritten => task[t].left = Rows
    /\ task[t].pc \in Appending \cup {"position", "count", "append"} => task[t].kind = "flashcard"
    /\ task[t].alone =>
        /\ task[t].pc = "insert" => task[t].seen = questions[task[t].set]
        /\ task[t].pc \in Mirroring => questions[task[t].set] = {t}
        /\ task[t].pc = "mirror" => task[t].seen = CardsOf(task[t].set)
        /\ task[t].pc = "done" /\ task[t].kind = "quiz" =>
            \/ /\ questions[task[t].set] = {t}
               /\ \A c \in CardsOf(task[t].set) : c.by = t
            \/ task[t].left = Rows

\* The cards of a job: none before it writes, and none beyond its position.
CardsFine(j) ==
    /\ ~Active(j) /\ job[j] = None => \A c \in cards : c.by # j
    /\ Active(j) /\ task[j].pc \in Unwritten \cup Mirroring => \A c \in cards : c.by # j
    /\ Active(j) /\ task[j].pc \in Appending =>
          \A c \in cards : c.by = j => c.pos < task[j].pos

RowsOrdered ==
    \A c, d \in cards : c.by \in Jobs /\ c.by = d.by /\ c.id < d.id => c.pos < d.pos

SInv ==
    /\ RowsTyped /\ CardsPlaced
    /\ \A t \in Tasks : TaskFine(t)
    /\ \A j \in Jobs : JobFine(j) /\ CardsFine(j)
    /\ RowsOrdered
-----------------------------------------------------------------------------
(* Numbers.                                                                *)

\* A set of natural numbers that is not empty has a least element.
LEMMA LeastElement ==
    ASSUME NEW N \in SUBSET Nat, N # {}
    PROVE  \E m \in N : \A k \in N : m <= k
  <1>1. IsWellFoundedOn(OpToRel(<, Nat), Nat)
    BY NatLessThanWellFounded
  <1>2. PICK m \in N : \A k \in N : ~(<<k, m>> \in OpToRel(<, Nat))
    BY <1>1, WFMin
  <1>3. \A k \in N : ~(k < m)
    BY <1>2 DEF OpToRel
  <1>4. \A k \in N : k \in Nat /\ m \in Nat
    BY <1>2
  <1>5. \A k \in N : m <= k
    BY <1>3, <1>4
  <1> QED
    BY <1>2, <1>5

\* So one that is bounded has a greatest element, which Max finds.
LEMMA MaxOfBounded ==
    ASSUME NEW b \in Nat, NEW N \in SUBSET (0..b), N # {}
    PROVE  Max(N) \in N /\ \A k \in N : k <= Max(N)
  <1> DEFINE U == {u \in Nat : \A k \in N : k <= u}
  <1>1. b \in U /\ U \in SUBSET Nat
    OBVIOUS
  <1>2. PICK m \in U : \A u \in U : m <= u
    BY <1>1, LeastElement
  <1>3. m \in N
    <2>1. SUFFICES ASSUME m \notin N PROVE FALSE
      OBVIOUS
    <2>2. PICK k \in N : TRUE
      OBVIOUS
    <2>3. k \in Nat /\ m \in Nat /\ k <= m /\ k # m
      BY <2>1, <2>2, <1>2
    <2>4. m - 1 \in Nat /\ \A i \in N : i \in Nat /\ i <= m /\ i # m
      BY <2>1, <2>3, <1>2
    <2>5. \A i \in N : i <= m - 1
      BY <2>3, <2>4
    <2>6. m - 1 \in U
      BY <2>4, <2>5
    <2> QED
      BY <2>3, <2>6, <1>2
  <1>4. \A k \in N : k <= m
    BY <1>2
  <1> QED
    BY <1>3, <1>4 DEF Max

\* A chunk is the whole of what is left or a part of it, and never empty.
LEMMA ChunkSize ==
    ASSUME NEW left \in Nat, left > 0
    PROVE  Min({Chunk, left}) \in 1..left
  <1>1. Chunk \in Nat /\ Chunk > 0
    BY ContentConstants
  <1>2. \E m \in {Chunk, left} : \A k \in {Chunk, left} : m <= k
    BY <1>1
  <1>3. /\ Min({Chunk, left}) \in {Chunk, left}
        /\ \A k \in {Chunk, left} : Min({Chunk, left}) <= k
    BY <1>2 DEF Min
  <1> QED
    BY <1>1, <1>3

-----------------------------------------------------------------------------
(* Rows and tasks.                                                         *)

\* Nobody at work is idle.
LEMMA WorkIsActive ==
    /\ \A w \in Work : w # Idle /\ w.pc # "idle"
    /\ Idle.pc = "idle"
  BY DEF Work, Idle, Unwritten, Appending, Mirroring

\* A task is idle or at work, a job has a row or none.
LEMMA TaskIsWork ==
    ASSUME RowsTyped, NEW t \in Tasks
    PROVE  /\ Active(t) => task[t] \in Work
           /\ ~Active(t) => task[t] = Idle
           /\ task[t].pc # "idle" => Active(t)
  BY WorkIsActive DEF RowsTyped, Active

LEMMA JobIsRow ==
    ASSUME RowsTyped, NEW j \in Jobs
    PROVE  job[j] # None <=> job[j] \in JobRow
  BY ContentNulls DEF RowsTyped, JobRow

\* Jobs and requests are different tasks.
LEMMA JobsAreTasks ==
    /\ Jobs \subseteq Tasks /\ Requests \subseteq Tasks /\ None \notin Tasks
    /\ \A r \in Requests : r \notin Jobs
  BY ContentConstants, ContentNulls DEF Tasks

\* Who may write a set finds it there.
LEMMA WriterFindsSet ==
    ASSUME NEW s, NEW action, MayWrite(s, action)
    PROVE  shelf[s] = "shown" /\ Live(s)
  BY DEF MayWrite, WritePolicy, Live

\* The next position is not beyond the next id.
LEMMA NextPositionBound ==
    ASSUME RowsTyped, CardsPlaced, NEW s \in Sets
    PROVE  NextPosition(s) \in Nat /\ NextPosition(s) <= nextId
  <1> DEFINE P == {c.pos : c \in CardsOf(s)}
  <1>1. nextId \in Nat /\ nextId >= 1 /\ MaxCards \in Nat
    BY ContentConstants DEF RowsTyped
  <1>2. \A c \in CardsOf(s) : c.pos \in Nat /\ c.pos < nextId
    BY DEF CardsOf, RowsTyped, CardsPlaced, Card
  <1>3. P \in SUBSET (0..(nextId - 1)) /\ nextId - 1 \in Nat
    BY <1>1, <1>2
  <1>4. CASE CardsOf(s) = {}
    BY <1>4, <1>1 DEF NextPosition
  <1>5. CASE CardsOf(s) # {}
    <2>1. P # {}
      BY <1>5
    <2>2. Max(P) \in P
      BY <2>1, <1>3, MaxOfBounded
    <2>3. Max(P) \in 0..(nextId - 1)
      BY <2>2, <1>3
    <2>4. NextPosition(s) = Max(P) + 1
      BY <1>5 DEF NextPosition
    <2> QED
      BY <2>3, <2>4, <1>1
  <1> QED
    BY <1>4, <1>5

\* Ids are unique, so a set has fewer cards than the next id.
LEMMA CountBound ==
    ASSUME RowsTyped, CardsPlaced, NEW C \in SUBSET cards
    PROVE  /\ IsFiniteSet(C) /\ Cardinality(C) \in Nat /\ Cardinality(C) < nextId
           /\ Cardinality({c.id : c \in C}) = Cardinality(C)
  <1> DEFINE f == [c \in C |-> c.id]
             I == {c.id : c \in C}
  <1>1. nextId \in Nat /\ nextId >= 1 /\ MaxCards \in Nat
    BY ContentConstants DEF RowsTyped
  <1>2. \A c \in C : c.id \in 1..(nextId - 1)
    BY <1>1 DEF RowsTyped, CardsPlaced, Card
  <1>3. \A c, d \in C : c.id = d.id => c = d
    BY DEF CardsPlaced
  <1>4. f \in Injection(C, 1..(nextId - 1))
    BY <1>2, <1>3 DEF Injection, IsInjective
  <1>5. f \in Bijection(C, I)
    BY <1>3 DEF Bijection, Injection, IsInjective, Surjection
  <1>6. IsFiniteSet(1..(nextId - 1)) /\ Cardinality(1..(nextId - 1)) = nextId - 1
    BY <1>1, FS_Interval
  <1>7. IsFiniteSet(C) /\ Cardinality(C) <= nextId - 1
    BY <1>4, <1>6, FS_Injection
  <1>8. Cardinality(C) \in Nat
    BY <1>7, FS_CardinalityType
  <1>9. ExistsBijection(C, I)
    BY <1>5 DEF ExistsBijection
  <1>10. Cardinality(I) = Cardinality(C)
    BY <1>7, <1>9, FS_Bijection
  <1> QED
    BY <1>1, <1>7, <1>8, <1>10

\* New cards have the next ids, and positions in the order of their ids.
LEMMA NewCardsFacts ==
    ASSUME RowsTyped, NEW t \in Tasks \cup {None}, NEW s \in Sets,
           NEW n \in Nat, Room(n), NEW pos \in Nat, pos <= nextId
    PROVE  /\ NewCards(t, s, n, pos) \subseteq Card
           /\ nextId + n \in 1..(MaxCards + 1)
           /\ \A c \in NewCards(t, s, n, pos) :
                 /\ c.set = s /\ c.by = t
                 /\ c.id >= nextId /\ c.id < nextId + n
                 /\ c.pos >= pos /\ c.pos < pos + n /\ c.pos < nextId + n
           /\ \A c, d \in NewCards(t, s, n, pos) :
                 (c.id < d.id => c.pos < d.pos) /\ (c.id = d.id => c = d)
  <1>1. nextId \in Nat /\ nextId >= 1 /\ MaxCards \in Nat
    BY ContentConstants DEF RowsTyped
  <1>2. nextId + n <= MaxCards + 1
    BY DEF Room
  <1>3. \A c \in NewCards(t, s, n, pos) : \E i \in 0..(n - 1) :
            c = [id |-> nextId + i, set |-> s, pos |-> pos + i, by |-> t]
    BY DEF NewCards
  <1>4. \A c \in NewCards(t, s, n, pos) : \E i \in Nat :
            /\ i < n /\ c.id = nextId + i /\ c.pos = pos + i /\ c.set = s /\ c.by = t
            /\ c = [id |-> nextId + i, set |-> s, pos |-> pos + i, by |-> t]
    BY <1>3
  <1>5. \A c \in NewCards(t, s, n, pos) :
            /\ c.set = s /\ c.by = t
            /\ c.id >= nextId /\ c.id < nextId + n
            /\ c.pos >= pos /\ c.pos < pos + n /\ c.pos < nextId + n
    BY <1>1, <1>4
  <1>6. \A c, d \in NewCards(t, s, n, pos) :
            (c.id < d.id => c.pos < d.pos) /\ (c.id = d.id => c = d)
    <2>1. SUFFICES ASSUME NEW c \in NewCards(t, s, n, pos), NEW d \in NewCards(t, s, n, pos)
                   PROVE  (c.id < d.id => c.pos < d.pos) /\ (c.id = d.id => c = d)
      OBVIOUS
    <2>2. PICK i \in Nat :
            /\ i < n /\ c.id = nextId + i /\ c.pos = pos + i
            /\ c = [id |-> nextId + i, set |-> s, pos |-> pos + i, by |-> t]
      BY <1>4, <2>1
    <2>3. PICK k \in Nat :
            /\ k < n /\ d.id = nextId + k /\ d.pos = pos + k
            /\ d = [id |-> nextId + k, set |-> s, pos |-> pos + k, by |-> t]
      BY <1>4, <2>1
    <2>4. c.id < d.id => c.pos < d.pos
      BY <2>2, <2>3, <1>1
    <2>5. c.id = d.id => i = k
      BY <2>2, <2>3, <1>1
    <2> QED
      BY <2>2, <2>3, <2>4, <2>5
  <1>7. NewCards(t, s, n, pos) \subseteq Card
    <2>1. \A i \in Nat : i < n =>
            nextId + i \in 1..MaxCards /\ pos + i \in Nat
      BY <1>1, <1>2
    <2> QED
      BY <1>4, <2>1 DEF Card
  <1> QED
    BY <1>1, <1>2, <1>5, <1>6, <1>7

\* Others keeps who is at work, where and on what.
LEMMA OthersFacts ==
    ASSUME RowsTyped, NEW s \in Sets, NEW t \in Tasks \cup {None}
    PROVE  /\ Others(s, t) \in [Tasks -> {Idle} \cup Work]
           /\ t \in Tasks => Others(s, t)[t] = task[t]
           /\ \A x \in Tasks : x # t =>
                \/ Others(s, t)[x] = task[x] /\ (Active(x) => task[x].set # s)
                \/ Active(x) /\ Others(s, t)[x] = [task[x] EXCEPT !.alone = FALSE]
  <1>1. \A x \in Tasks : task[x] \in {Idle} \cup Work
    BY DEF RowsTyped
  <1>2. \A w \in Work : [w EXCEPT !.alone = FALSE] \in Work
    BY DEF Work
  <1>3. \A x \in Tasks : Others(s, t)[x] \in {task[x], [task[x] EXCEPT !.alone = FALSE]}
    BY DEF Others
  <1>4. \A x \in Tasks : Others(s, t)[x] \in {Idle} \cup Work
    <2>1. SUFFICES ASSUME NEW x \in Tasks PROVE Others(s, t)[x] \in {Idle} \cup Work
      OBVIOUS
    <2>2. CASE Active(x)
      BY <2>2, <1>1, <1>2, <1>3 DEF Active
    <2>3. CASE ~Active(x)
      BY <2>3, <1>1 DEF Others
    <2> QED
      BY <2>2, <2>3
  <1>5. Others(s, t) \in [Tasks -> {Idle} \cup Work]
    BY <1>4 DEF Others
  <1> QED
    BY <1>5 DEF Others
-----------------------------------------------------------------------------
(* What a step leaves to everybody but the task that takes it.             *)

\* A task is as it was, or no longer alone; when it is, its set is too.
Undisturbed(x) ==
    /\ \/ task'[x] = task[x]
       \/ Active(x) /\ task'[x] = [task[x] EXCEPT !.alone = FALSE]
    /\ Active(x) /\ task'[x].alone =>
        /\ questions'[task[x].set] = questions[task[x].set]
        /\ {c \in cards' : c.set = task[x].set} = CardsOf(task[x].set)

\* A job keeps its row, unless the set was deleted, its file and its count,
\* and has no card it did not have.
JobUndisturbed(j) ==
    /\ \/ job'[j] = job[j]
       \/ job[j] # None /\ job'[j] = [job[j] EXCEPT !.status = "gone"]
    /\ made'[j] = made[j]
    /\ j \in files' <=> j \in files
    /\ j \in lost' <=> j \in lost
    /\ \A c \in cards' : c.by = j => c \in cards

Frame(a) ==
    /\ nextId <= nextId'
    /\ \A x \in Tasks \ {a} : Undisturbed(x)
    /\ \A j \in Jobs \ {a} : JobUndisturbed(j)
LEMMA OtherTaskFine ==
    ASSUME RowsTyped, RowsTyped', nextId <= nextId',
           NEW x \in Tasks, TaskFine(x), Undisturbed(x)
    PROVE  TaskFine(x)'
  <1>1. SUFFICES ASSUME Active(x)' PROVE TaskFine(x)'
    BY DEF TaskFine
  <1>2. /\ task[x] \in Work
        /\ \/ task'[x] = task[x]
           \/ task'[x] = [task[x] EXCEPT !.alone = FALSE]
    BY <1>1, TaskIsWork DEF Undisturbed, Active
  <1>3. Active(x)
    BY <1>2, WorkIsActive DEF Active
  <1>4. /\ task'[x].pc = task[x].pc /\ task'[x].kind = task[x].kind
        /\ task'[x].set = task[x].set /\ task'[x].seen = task[x].seen
        /\ task'[x].pos = task[x].pos /\ task'[x].left = task[x].left
        /\ task'[x].alone => task[x].alone
        /\ task[x].pos \in Nat
    BY <1>2 DEF Work
  <1>5. nextId \in Nat /\ nextId' \in Nat
    BY DEF RowsTyped
  <1>6. task'[x].pos <= nextId'
    BY <1>3, <1>4, <1>5 DEF TaskFine
  <1>7. /\ task'[x].pc \in Unwritten => task'[x].left = Rows
        /\ task'[x].pc \in Appending \cup {"position", "count", "append"} => task'[x].kind = "flashcard"
    BY <1>3, <1>4 DEF TaskFine
  <1>8. ASSUME task'[x].alone
        PROVE  /\ task[x].alone
               /\ questions'[task'[x].set] = questions[task[x].set]
               /\ {c \in cards' : c.set = task'[x].set} = CardsOf(task[x].set)
    BY <1>3, <1>4, <1>8 DEF Undisturbed
  <1>9. ASSUME task'[x].alone
        PROVE  /\ task'[x].pc = "insert" => task'[x].seen = questions'[task'[x].set]
               /\ task'[x].pc \in Mirroring => questions'[task'[x].set] = {x}
               /\ task'[x].pc = "mirror" =>
                    task'[x].seen = {c \in cards' : c.set = task'[x].set}
               /\ task'[x].pc = "done" /\ task'[x].kind = "quiz" =>
                    \/ /\ questions'[task'[x].set] = {x}
                       /\ \A c \in {d \in cards' : d.set = task'[x].set} : c.by = x
                    \/ task'[x].left = Rows
    BY <1>3, <1>4, <1>8, <1>9 DEF TaskFine
  <1> QED
    BY <1>6, <1>7, <1>9 DEF TaskFine, CardsOf

LEMMA OtherJobFine ==
    ASSUME RowsTyped, NEW j \in Jobs, Undisturbed(j), JobUndisturbed(j),
           JobFine(j), CardsFine(j)
    PROVE  JobFine(j)' /\ CardsFine(j)'
  <1>1. j \in Tasks
    BY JobsAreTasks
  <1>2. Active(j)' <=> Active(j)
    <2>1. CASE task'[j] = task[j]
      BY <2>1 DEF Active
    <2>2. CASE Active(j) /\ task'[j] = [task[j] EXCEPT !.alone = FALSE]
      <3>1. task'[j] \in Work
        BY <1>1, <2>2, TaskIsWork DEF Work
      <3> QED
        BY <2>2, <3>1, WorkIsActive DEF Active
    <2> QED
      BY <2>1, <2>2 DEF Undisturbed
  <1>3. Active(j) => /\ task'[j].pc = task[j].pc /\ task'[j].left = task[j].left
                     /\ task'[j].pos = task[j].pos
    BY <1>1, TaskIsWork DEF Undisturbed, Work
  <1>4. \/ job'[j] = job[j]
        \/ /\ job[j] # None /\ job'[j] # None
           /\ job'[j].status = "gone" /\ job'[j].imported = job[j].imported
           /\ job'[j].recorded = job[j].recorded
    <2>1. CASE job[j] # None /\ job'[j] = [job[j] EXCEPT !.status = "gone"]
      <3>1. job[j] \in JobRow
        BY <2>1, JobIsRow
      <3>2. /\ job'[j] \in JobRow
            /\ job'[j].status = "gone" /\ job'[j].imported = job[j].imported
            /\ job'[j].recorded = job[j].recorded
        BY <3>1, <2>1 DEF JobRow
      <3>3. job'[j] # None
        BY <3>2, ContentNulls DEF JobRow
      <3> QED
        BY <2>1, <3>2, <3>3
    <2> QED
      BY <2>1 DEF JobUndisturbed
  <1>5. /\ made'[j] = made[j] /\ (j \in files' <=> j \in files)
        /\ (j \in lost' <=> j \in lost)
        /\ \A c \in cards' : c.by = j => c \in cards
    BY DEF JobUndisturbed
  <1>6. JobFine(j)'
    <2>1. CASE job'[j] = job[j]
      BY <2>1, <1>2, <1>3, <1>5 DEF JobFine
    <2>2. CASE /\ job[j] # None /\ job'[j] # None
               /\ job'[j].status = "gone" /\ job'[j].imported = job[j].imported
               /\ job'[j].recorded = job[j].recorded
      BY <2>2, <1>2, <1>3, <1>5 DEF JobFine
    <2> QED
      BY <1>4, <2>1, <2>2
  <1>7. CardsFine(j)'
    BY <1>2, <1>3, <1>4, <1>5 DEF CardsFine
  <1> QED
    BY <1>6, <1>7

\* So a step is to be followed only at the task that takes it.
LEMMA Closing ==
    ASSUME SInv, NEW a \in Tasks \cup {None}, RowsTyped', CardsPlaced', Frame(a),
           a \in Tasks => TaskFine(a)',
           a \in Jobs => JobFine(a)' /\ CardsFine(a)',
           RowsOrdered'
    PROVE  SInv'
  <1>1. \A x \in Tasks : TaskFine(x)'
    <2>1. SUFFICES ASSUME NEW x \in Tasks PROVE TaskFine(x)'
      OBVIOUS
    <2>2. CASE x = a
      BY <2>2
    <2>3. CASE x # a
      BY <2>3, OtherTaskFine DEF SInv, Frame
    <2> QED
      BY <2>2, <2>3
  <1>2. \A j \in Jobs : JobFine(j)' /\ CardsFine(j)'
    <2>1. SUFFICES ASSUME NEW j \in Jobs PROVE JobFine(j)' /\ CardsFine(j)'
      OBVIOUS
    <2>2. CASE j = a
      BY <2>2
    <2>3. CASE j # a
      <3>1. Undisturbed(j) /\ JobUndisturbed(j)
        BY <2>3, JobsAreTasks DEF Frame
      <3> QED
        BY <3>1, OtherJobFine DEF SInv
    <2> QED
      BY <2>2, <2>3
  <1> QED
    BY <1>1, <1>2 DEF SInv

\* A step that only moves its task on, and touches only its own job.
LEMMA QuietStep ==
    ASSUME SInv, NEW a \in Tasks, UNCHANGED tables,
           NEW v \in {Idle} \cup Work, task' = [task EXCEPT ![a] = v],
           RowsTyped',
           \A j \in Jobs \ {a} : /\ job'[j] = job[j] /\ made'[j] = made[j]
                                 /\ j \in files' <=> j \in files
                                 /\ j \in lost' <=> j \in lost,
           TaskFine(a)', a \in Jobs => JobFine(a)' /\ CardsFine(a)'
    PROVE  SInv'
  <1>1. /\ shelf' = shelf /\ cards' = cards /\ nextId' = nextId /\ questions' = questions
    BY DEF tables
  <1>2. CardsPlaced'
    BY <1>1 DEF SInv, CardsPlaced, Live
  <1>3. RowsOrdered'
    BY <1>1 DEF SInv, RowsOrdered
  <1>4. \A x \in Tasks \ {a} : task'[x] = task[x]
    BY DEF SInv, RowsTyped
  <1>5. \A x \in Tasks \ {a} : Undisturbed(x)
    BY <1>1, <1>4 DEF Undisturbed, CardsOf
  <1>6. \A j \in Jobs \ {a} : JobUndisturbed(j)
    BY <1>1 DEF JobUndisturbed
  <1>7. nextId <= nextId'
    BY <1>1 DEF SInv, RowsTyped
  <1> QED
    BY <1>2, <1>3, <1>5, <1>6, <1>7, Closing DEF Frame
\* Types are kept by a step that moves its task on and leaves the rest alone.
LEMMA QuietTyped ==
    ASSUME RowsTyped, NEW a \in Tasks, UNCHANGED <<tables, made>>,
           NEW v \in {Idle} \cup Work, task' = [task EXCEPT ![a] = v],
           job' \in [Jobs -> {None} \cup JobRow], files' \subseteq Jobs, lost' \subseteq Jobs
    PROVE  RowsTyped' /\ task'[a] = v
  <1>1. task' \in [Tasks -> {Idle} \cup Work] /\ task'[a] = v
    BY DEF RowsTyped
  <1> QED
    BY <1>1 DEF RowsTyped, tables

\* Updated changes the row of its job, unless it is gone.
LEMMA UpdatedFacts ==
    ASSUME RowsTyped, NEW j \in Jobs, job[j] # None, NEW n \in Nat,
           NEW st \in {"running", "done", "failed"}, Updated(j, st, n)
    PROVE  /\ job' \in [Jobs -> {None} \cup JobRow]
           /\ \A i \in Jobs \ {j} : job'[i] = job[i]
           /\ job'[j] # None /\ job'[j].recorded = job[j].recorded
           /\ \/ job[j].status = "gone" /\ job'[j] = job[j]
              \/ job'[j].status = st /\ job'[j].imported = n
  <1>1. job[j] \in JobRow
    BY JobIsRow
  <1>2. [job[j] EXCEPT !.status = st, !.imported = n] \in JobRow
    BY <1>1 DEF JobRow
  <1>3. /\ job' \in [Jobs -> {None} \cup JobRow]
        /\ \A i \in Jobs \ {j} : job'[i] = job[i]
        /\ job'[j] = IF job[j].status = "gone" THEN job[j]
                     ELSE [job[j] EXCEPT !.status = st, !.imported = n]
    BY <1>1, <1>2 DEF Updated, RowsTyped
  <1>4. job'[j] \in JobRow
    BY <1>1, <1>2, <1>3
  <1>5. job'[j] # None
    BY <1>4, ContentNulls DEF JobRow
  <1>6. /\ job'[j].recorded = job[j].recorded
        /\ \/ job[j].status = "gone" /\ job'[j] = job[j]
           \/ job'[j].status = st /\ job'[j].imported = n
    BY <1>1, <1>3 DEF JobRow
  <1> QED
    BY <1>3, <1>5, <1>6

\* Recorded changes nothing else in the row of its job.
LEMMA RecordedFacts ==
    ASSUME RowsTyped, NEW j \in Jobs, job[j] # None, Recorded(j)
    PROVE  /\ job' \in [Jobs -> {None} \cup JobRow]
           /\ \A i \in Jobs \ {j} : job'[i] = job[i]
           /\ job'[j] # None /\ job'[j].recorded
           /\ job'[j].status = job[j].status /\ job'[j].imported = job[j].imported
  <1>1. job[j] \in JobRow
    BY JobIsRow
  <1>2. [job[j] EXCEPT !.recorded = TRUE] \in JobRow
    BY <1>1 DEF JobRow
  <1>3. /\ job' \in [Jobs -> {None} \cup JobRow]
        /\ \A i \in Jobs \ {j} : job'[i] = job[i]
        /\ job'[j] = [job[j] EXCEPT !.recorded = TRUE]
    BY <1>1, <1>2 DEF Recorded, RowsTyped
  <1>4. job'[j] # None
    BY <1>2, <1>3, ContentNulls DEF JobRow
  <1>5. /\ job'[j].status = job[j].status /\ job'[j].imported = job[j].imported
        /\ job'[j].recorded
    BY <1>1, <1>3 DEF JobRow
  <1> QED
    BY <1>3, <1>4, <1>5

\* What is known of a job whose task is at work.
LEMMA JobAtWork ==
    ASSUME SInv, NEW j \in Jobs, task[j].pc # "idle"
    PROVE  /\ j \in Tasks /\ Active(j) /\ task[j] \in Work
           /\ job[j] # None /\ job[j] \in JobRow
           /\ job[j].imported <= made[j]
           /\ made[j] = Rows - task[j].left
           /\ task[j].pc # "cleanup" => job[j].status # "done"
           /\ job[j].status \in {"pending", "failed"} => job[j].imported = 0
           /\ TaskFine(j) /\ JobFine(j) /\ CardsFine(j)
  <1>1. j \in Tasks
    BY JobsAreTasks
  <1>2. Active(j) /\ task[j] \in Work
    BY <1>1, TaskIsWork DEF SInv
  <1>3. TaskFine(j) /\ JobFine(j) /\ CardsFine(j)
    BY <1>1 DEF SInv
  <1>4. job[j] # None
    BY <1>2, <1>3 DEF JobFine
  <1>5. job[j] \in JobRow
    BY <1>4, JobIsRow DEF SInv
  <1> QED
    BY <1>1, <1>2, <1>3, <1>4, <1>5 DEF JobFine

\* A task that goes to a place where nothing it has read counts.
LEMMA GotoFine ==
    ASSUME SInv, NEW a \in Tasks, Active(a), NEW p, UNCHANGED tables,
           task'[a] = [task[a] EXCEPT !.pc = p],
           p \notin {"insert", "list", "mirror"},
           p \in Unwritten => task[a].pc \in Unwritten,
           p \in Appending \cup {"position", "count", "append"} => task[a].kind = "flashcard",
           p = "done" /\ task[a].kind = "quiz" => task[a].left = Rows
    PROVE  TaskFine(a)'
  <1>1. task[a] \in Work
    BY TaskIsWork DEF SInv
  <1>2. /\ task'[a].pc = p /\ task'[a].kind = task[a].kind /\ task'[a].left = task[a].left
        /\ task'[a].pos = task[a].pos
    BY <1>1 DEF Work
  <1>3. TaskFine(a)
    BY DEF SInv
  <1>4. task'[a].pos <= nextId'
    BY <1>2, <1>3 DEF TaskFine, tables
  <1>5. p \in Unwritten => task'[a].left = Rows
    BY <1>2, <1>3 DEF TaskFine
  <1> QED
    BY <1>2, <1>4, <1>5 DEF TaskFine, Mirroring

\* A worker that goes on, with an update of its row or without.
LEMMA WorkerGoesOn ==
    ASSUME SInv, NEW j \in Jobs,
           task[j].pc \notin {"idle", "cleanup"},
           NEW p \in (Unwritten \cup Appending \cup {"done", "cleanup"}) \ {"put", "insert"},
           Goto(j, p), UNCHANGED <<tables, made>>,
           p \in Unwritten => task[j].pc \in Unwritten,
           p \in Appending => task[j].pc \in Appending,
           p = "done" /\ task[j].kind = "quiz" => task[j].left = Rows,
           p \notin {"count", "append"}, p = "position" => task[j].kind = "flashcard",
           files' = files \/ files' = files \cup {j},
           lost' = lost \/ lost' = lost \cup {j},
           NEW n \in Nat, n <= made[j],
           NEW st \in {"running", "done", "failed"},
           st = "done" => n = made[j] /\ p = "cleanup",
           p = "record" => task[j].pc = "put" /\ UNCHANGED job,
           p \in {"record", "mark", "open"} => j \in files',
           st = "failed" => n = 0,
           UNCHANGED job \/ Updated(j, st, n) \/ Recorded(j),
           p = "cleanup" => j \in lost' \/ (st # "running" /\ Updated(j, st, n))
    PROVE  SInv'
  <1> DEFINE v == [task[j] EXCEPT !.pc = p]
  <1>1. /\ j \in Tasks /\ Active(j) /\ task[j] \in Work
        /\ job[j] # None /\ job[j] \in JobRow
        /\ job[j].imported <= made[j]
        /\ made[j] = Rows - task[j].left
        /\ job[j].status # "done"
        /\ TaskFine(j) /\ JobFine(j) /\ CardsFine(j)
    BY JobAtWork
  <1>2. v \in Work /\ task' = [task EXCEPT ![j] = v]
    BY <1>1 DEF Work, Goto
  <1>3. /\ v.pc = p /\ v.left = task[j].left /\ v.pos = task[j].pos
    BY <1>1 DEF Work
  <1>4. /\ job' \in [Jobs -> {None} \cup JobRow]
        /\ \A i \in Jobs \ {j} : job'[i] = job[i]
        /\ job'[j] # None
        /\ \/ job'[j].status = job[j].status /\ job'[j].imported = job[j].imported
           \/ job'[j].status = st /\ job'[j].imported = n
        /\ Updated(j, st, n) =>
              \/ job[j].status = "gone" /\ job'[j] = job[j]
              \/ job'[j].status = st /\ job'[j].imported = n
    <2>1. CASE UNCHANGED job /\ ~Updated(j, st, n)
      BY <2>1, <1>1 DEF SInv, RowsTyped
    <2>2. CASE Updated(j, st, n)
      BY <2>2, <1>1, UpdatedFacts DEF SInv
    <2>3. CASE Recorded(j) /\ ~Updated(j, st, n)
      BY <2>3, <1>1, RecordedFacts DEF SInv
    <2> QED
      BY <2>1, <2>2, <2>3
  <1>5. files' \subseteq Jobs /\ lost' \subseteq Jobs
    BY DEF SInv, RowsTyped
  <1> HIDE DEF v
  <1>6. RowsTyped' /\ task'[j] = v
    BY <1>1, <1>2, <1>4, <1>5, QuietTyped DEF SInv
  <1>7. TaskFine(j)'
    <2>1. task'[j] = [task[j] EXCEPT !.pc = p]
      BY <1>6 DEF v
    <2>2. p \in Appending \cup {"position", "count", "append"} => task[j].kind = "flashcard"
      BY <1>1 DEF TaskFine
    <2>3. p \notin {"insert", "list", "mirror"}
      BY DEF Unwritten, Appending
    <2> QED
      BY <1>1, <2>1, <2>2, <2>3, GotoFine
  <1>8. made' = made /\ cards' = cards
    BY DEF tables
  <1>9. Active(j)'
    BY <1>2, <1>6, WorkIsActive DEF Active
  <1>10. JobFine(j)'
    <2>1. job'[j].imported <= made'[j]
      BY <1>1, <1>4, <1>8
    <2>2. job'[j].status = "done" => job'[j].imported = made'[j] /\ p = "cleanup"
      BY <1>1, <1>4, <1>8
    <2>3. made'[j] = Rows - task'[j].left
      BY <1>1, <1>3, <1>6, <1>8
    <2>4. p = "cleanup" /\ j \notin lost' => job'[j].status \in {"done", "failed", "gone"}
      BY <1>1, <1>4
    <2>5. job'[j].status \in {"pending", "failed"} => job'[j].imported = 0
      BY <1>1, <1>4 DEF JobFine
    <2>6. p = "record" => job'[j].status \in {"pending", "gone"} /\ ~job'[j].recorded
      BY <1>1 DEF JobFine
    <2> QED
      BY <1>3, <1>4, <1>6, <1>9, <2>1, <2>2, <2>3, <2>4, <2>5, <2>6 DEF JobFine
  <1>11. CardsFine(j)'
    <2>1. p \notin Mirroring
      BY DEF Unwritten, Appending, Mirroring
    <2> QED
      BY <1>1, <1>3, <1>6, <1>8, <1>9, <2>1 DEF CardsFine
  <1>12. \A i \in Jobs \ {j} : /\ job'[i] = job[i] /\ made'[i] = made[i]
                               /\ i \in files' <=> i \in files
                               /\ i \in lost' <=> i \in lost
    BY <1>4, <1>8
  <1>13. UNCHANGED tables
    OBVIOUS
  <1> QED
    BY <1>1, <1>2, <1>6, <1>7, <1>10, <1>11, <1>12, <1>13, QuietStep
\* A worker that is done with its job.
LEMMA WorkerStops ==
    ASSUME SInv, NEW j \in Jobs, task[j].pc # "idle",
           Becomes(j, Idle), UNCHANGED <<tables, made>>,
           files' \in {files, files \cup {j}, files \ {j}},
           \/ UNCHANGED job /\ lost' = lost /\ task[j].pc \in {"record", "cleanup"}
           \/ (UNCHANGED job \/ Recorded(j)) /\ lost' = lost \cup {j}
           \/ Updated(j, "failed", 0) /\ lost' = lost,
           task[j].pc # "cleanup" \/ UNCHANGED job
    PROVE  SInv'
  <1>1. /\ j \in Tasks /\ Active(j) /\ task[j] \in Work
        /\ job[j] # None /\ job[j] \in JobRow
        /\ job[j].imported <= made[j]
        /\ task[j].pc # "cleanup" => job[j].status # "done"
        /\ TaskFine(j) /\ JobFine(j) /\ CardsFine(j)
    BY JobAtWork
  <1>2. task' = [task EXCEPT ![j] = Idle] /\ Idle \in {Idle} \cup Work
    BY DEF Becomes
  <1>3. /\ job' \in [Jobs -> {None} \cup JobRow]
        /\ \A i \in Jobs \ {j} : job'[i] = job[i]
        /\ job'[j] # None
        /\ \/ job'[j].status = job[j].status /\ job'[j].imported = job[j].imported
           \/ job'[j].status = "failed" /\ job'[j].imported = 0
        /\ Updated(j, "failed", 0) => job'[j].status \in {"failed", "gone"}
    <2>1. CASE UNCHANGED job /\ ~Updated(j, "failed", 0)
      BY <2>1, <1>1 DEF SInv, RowsTyped
    <2>2. CASE Updated(j, "failed", 0)
      <3>1. 0 \in Nat /\ "failed" \in {"running", "done", "failed"} /\ RowsTyped
        BY DEF SInv
      <3>2. /\ job' \in [Jobs -> {None} \cup JobRow]
            /\ \A i \in Jobs \ {j} : job'[i] = job[i]
            /\ job'[j] # None
            /\ \/ job[j].status = "gone" /\ job'[j] = job[j]
               \/ job'[j].status = "failed" /\ job'[j].imported = 0
        BY <2>2, <3>1, <1>1, UpdatedFacts
      <3> QED
        BY <3>2
    <2>3. CASE Recorded(j) /\ ~Updated(j, "failed", 0)
      BY <2>3, <1>1, RecordedFacts DEF SInv
    <2> QED
      BY <2>1, <2>2, <2>3
  <1>4. files' \subseteq Jobs /\ lost' \subseteq Jobs
    BY DEF SInv, RowsTyped
  <1>5. RowsTyped' /\ task'[j] = Idle
    BY <1>1, <1>2, <1>3, <1>4, QuietTyped DEF SInv
  <1>6. made' = made /\ cards' = cards /\ made[j] \in Nat
    BY ContentConstants DEF tables, SInv, RowsTyped
  <1>7. ~Active(j)'
    BY <1>5 DEF Active
  <1>8. TaskFine(j)'
    BY <1>7 DEF TaskFine
  <1>9. JobFine(j)'
    <2>1. job'[j].imported <= made'[j]
      BY <1>1, <1>3, <1>6
    <2>2. job'[j].status = "done" => job'[j].imported = made'[j]
      BY <1>1, <1>3, <1>6 DEF JobFine
    <2>3. j \notin lost' => \/ job'[j].status \in {"done", "failed", "gone"}
                            \/ job'[j].status = "pending" /\ ~job'[j].recorded
      BY <1>1, <1>3 DEF JobFine
    <2>4. job'[j].status \in {"pending", "failed"} => job'[j].imported = 0
      BY <1>1, <1>3 DEF JobFine
    <2> QED
      BY <1>3, <1>7, <2>1, <2>2, <2>3, <2>4 DEF JobFine
  <1>10. CardsFine(j)'
    BY <1>3, <1>7 DEF CardsFine
  <1>11. \A i \in Jobs \ {j} : /\ job'[i] = job[i] /\ made'[i] = made[i]
                               /\ i \in files' <=> i \in files
                               /\ i \in lost' <=> i \in lost
    BY <1>3, <1>6
  <1>12. UNCHANGED tables
    OBVIOUS
  <1> QED
    BY <1>1, <1>2, <1>5, <1>8, <1>9, <1>10, <1>11, <1>12, QuietStep

\* A request, or a step that concerns no job's row.
LEMMA TaskMoves ==
    ASSUME SInv, NEW a \in Tasks, UNCHANGED <<tables, made, job, files, lost>>,
           NEW v \in {Idle} \cup Work, task' = [task EXCEPT ![a] = v],
           RowsTyped', TaskFine(a)', a \in Jobs => JobFine(a)' /\ CardsFine(a)'
    PROVE  SInv'
  <1>1. \A i \in Jobs \ {a} : /\ job'[i] = job[i] /\ made'[i] = made[i]
                              /\ i \in files' <=> i \in files
                              /\ i \in lost' <=> i \in lost
    OBVIOUS
  <1>2. UNCHANGED tables
    OBVIOUS
  <1> QED
    BY <1>1, <1>2, QuietStep

-----------------------------------------------------------------------------
(* Every action keeps the invariant: the steps of a worker.                *)

LEMMA EnqueueKeeps ==
    ASSUME SInv, NEW j \in Jobs, NEW s \in Sets, NEW kind \in {"flashcard", "quiz"},
           Enqueue(j, s, kind)
    PROVE  SInv'
  <1> DEFINE v == New(j, "put", kind, s)
             row == [set |-> s, status |-> "pending", imported |-> 0, recorded |-> FALSE]
  <1>1. j \in Tasks /\ JobFine(j) /\ CardsFine(j) /\ job[j] = None
    BY JobsAreTasks DEF SInv, Enqueue
  <1>2. ~Active(j) /\ j \notin files /\ made[j] = 0 /\ (\A c \in cards : c.by # j)
    BY <1>1 DEF JobFine, CardsFine
  <1>3. Rows \in Nat
    BY ContentConstants
  <1>4. v \in Work /\ v.pc = "put" /\ v.left = Rows /\ v.pos = 0
    BY <1>3 DEF New, Work, Unwritten
  <1>5. task' = [task EXCEPT ![j] = v]
    BY DEF Enqueue, Becomes
  <1>6. row \in JobRow /\ row.imported = 0 /\ row.status = "pending" /\ ~row.recorded
    BY DEF JobRow
  <1>7. job' = [job EXCEPT ![j] = row] /\ UNCHANGED <<tables, made, files, lost>>
    BY DEF Enqueue
  <1> HIDE DEF v, row
  <1>8. /\ job' \in [Jobs -> {None} \cup JobRow] /\ job'[j] = row
        /\ \A i \in Jobs \ {j} : job'[i] = job[i]
        /\ files' \subseteq Jobs /\ lost' \subseteq Jobs
    BY <1>6, <1>7 DEF SInv, RowsTyped
  <1>9. RowsTyped' /\ task'[j] = v
    BY <1>1, <1>4, <1>5, <1>7, <1>8, QuietTyped DEF SInv
  <1>10. job'[j] # None
    BY <1>6, <1>8, ContentNulls DEF JobRow
  <1>11. TaskFine(j)'
    BY <1>4, <1>7, <1>9 DEF TaskFine, RowsTyped, Appending, Mirroring, tables
  <1>12. JobFine(j)'
    BY <1>2, <1>3, <1>4, <1>6, <1>7, <1>8, <1>9, <1>10, WorkIsActive DEF JobFine, Active
  <1>13. CardsFine(j)'
    BY <1>2, <1>4, <1>7, <1>9, <1>10 DEF CardsFine, Appending, tables
  <1>14. UNCHANGED tables /\ \A i \in Jobs \ {j} :
            /\ job'[i] = job[i] /\ made'[i] = made[i]
            /\ i \in files' <=> i \in files
            /\ i \in lost' <=> i \in lost
    BY <1>7, <1>8
  <1> QED
    BY <1>1, <1>4, <1>5, <1>9, <1>11, <1>12, <1>13, <1>14, QuietStep

LEMMA PutKeeps ==
    ASSUME SInv, NEW j \in Jobs, Put(j) \/ PutFails(j)
    PROVE  SInv'
  <1>1. task[j].pc = "put" /\ made[j] \in Nat
    BY ContentConstants DEF Put, PutFails, At, SInv, RowsTyped
  <1>2. CASE Put(j)
    <2>1. /\ Goto(j, "record") /\ files' = files \cup {j} /\ lost' = lost
          /\ UNCHANGED <<tables, made>> /\ UNCHANGED job
      BY <1>2 DEF Put
    <2>2. "record" \in (Unwritten \cup Appending \cup {"done", "cleanup"}) \ {"put", "insert"}
      BY DEF Unwritten
    <2>3. "put" \in Unwritten /\ "record" \notin Appending /\ j \in files'
      BY <2>1 DEF Unwritten, Appending
    <2> QED
      BY <1>1, <2>1, <2>2, <2>3, WorkerGoesOn
  <1>3. CASE PutFails(j)
    <2>1. /\ Becomes(j, Idle) /\ files' \in {files, files \cup {j}} /\ UNCHANGED <<tables, made>>
          /\ \/ UNCHANGED job /\ lost' = lost \cup {j}
             \/ Updated(j, "failed", 0) /\ lost' = lost
      BY <1>3 DEF PutFails
    <2> QED
      BY <1>1, <2>1, WorkerStops
  <1> QED
    BY <1>2, <1>3

LEMMA SetImportFileKeeps ==
    ASSUME SInv, NEW j \in Jobs, SetImportFile(j)
    PROVE  SInv'
  <1>1. task[j].pc = "record" /\ made[j] \in Nat /\ 0 <= made[j]
    BY ContentConstants DEF SetImportFile, At, SInv, RowsTyped
  <1>2. /\ UNCHANGED <<tables, made>> /\ files' = files /\ lost' = lost
        /\ Recorded(j) /\ Goto(j, "mark")
    BY DEF SetImportFile
  <1>3. "mark" \in (Unwritten \cup Appending \cup {"done", "cleanup"}) \ {"put", "insert"}
    BY DEF Unwritten
  <1>4. "record" \in Unwritten /\ "mark" \notin Appending
    BY DEF Unwritten, Appending
  <1>5. j \in files'
    BY <1>1, <1>2, JobAtWork DEF JobFine
  <1>6. 0 \in Nat /\ "running" \in {"running", "done", "failed"} /\ "running" # "done"
    OBVIOUS
  <1> QED
    BY <1>1, <1>2, <1>3, <1>4, <1>5, <1>6, WorkerGoesOn

LEMMA SetImportFileFailsKeeps ==
    ASSUME SInv, NEW j \in Jobs, SetImportFileFails(j)
    PROVE  SInv'
  <1>1. task[j].pc = "record"
    BY DEF SetImportFileFails, At
  <1>2. /\ Becomes(j, Idle) /\ files' \in {files, files \ {j}} /\ UNCHANGED <<tables, made>>
        /\ \/ UNCHANGED job /\ lost' = lost
           \/ Recorded(j) /\ lost' = lost \cup {j}
    BY DEF SetImportFileFails
  <1> QED
    BY <1>1, <1>2, WorkerStops

LEMMA MarkRunningKeeps ==
    ASSUME SInv, NEW j \in Jobs, MarkRunning(j)
    PROVE  SInv'
  <1>1. task[j].pc = "mark" /\ made[j] \in Nat /\ 0 <= made[j]
    BY ContentConstants DEF MarkRunning, At, SInv, RowsTyped
  <1>2. UNCHANGED <<tables, made>> /\ files' = files
    BY DEF MarkRunning
  <1>3. "mark" \in Unwritten /\ "open" \in Unwritten /\ "cleanup" \notin Unwritten
        /\ "open" \notin Appending /\ "cleanup" \notin Appending /\ j \in files'
    BY <1>1, <1>2, JobAtWork DEF Unwritten, Appending, JobFine
  <1>4. CASE Updated(j, "running", 0) /\ Goto(j, "open") /\ UNCHANGED lost
    <2>1. "open" \in (Unwritten \cup Appending \cup {"done", "cleanup"}) \ {"put", "insert"}
      BY <1>3
    <2> QED
      BY <1>1, <1>2, <1>3, <1>4, <2>1, WorkerGoesOn
  <1>5. CASE /\ lost' = lost \cup {j} /\ Goto(j, "cleanup")
             /\ UNCHANGED job \/ Updated(j, "running", 0)
    <2>1. "cleanup" \in (Unwritten \cup Appending \cup {"done", "cleanup"}) \ {"put", "insert"}
      OBVIOUS
    <2> QED
      BY <1>1, <1>2, <1>3, <1>5, <2>1, WorkerGoesOn
  <1> QED
    BY <1>4, <1>5 DEF MarkRunning

LEMMA OpenFileKeeps ==
    ASSUME SInv, NEW j \in Jobs, OpenFile(j)
    PROVE  SInv'
  <1>1. task[j].pc = "open" /\ made[j] \in Nat /\ 0 <= made[j]
    BY ContentConstants DEF OpenFile, At, SInv, RowsTyped
  <1>2. UNCHANGED <<tables, made>> /\ files' = files /\ lost' = lost /\ UNCHANGED job
    BY DEF OpenFile
  <1>3. /\ "open" \in Unwritten /\ "position" \in Unwritten /\ "replace" \in Unwritten
        /\ "position" \notin Appending /\ "replace" \notin Appending /\ "done" \notin Appending
        /\ "done" \notin Unwritten
    BY DEF Unwritten, Appending
  <1>4. task[j].left = Rows
    BY <1>1, <1>3, JobAtWork DEF TaskFine
  <1>5. PICK p \in {"position", "replace", "done"} :
            Goto(j, p) /\ (p = "position" => task[j].kind = "flashcard")
    BY DEF OpenFile
  <1>6. p \in (Unwritten \cup Appending \cup {"done", "cleanup"}) \ {"put", "insert"}
    BY <1>3
  <1>7. 0 \in Nat /\ "running" \in {"running", "done", "failed"} /\ "running" # "done"
    OBVIOUS
  <1> QED
    BY <1>1, <1>2, <1>3, <1>4, <1>5, <1>6, <1>7, WorkerGoesOn
LEMMA FailJobKeeps ==
    ASSUME SInv, NEW j \in Jobs, FailJob(j)
    PROVE  SInv'
  <1>1. task[j].pc \notin {"idle", "cleanup"} /\ made[j] \in Nat /\ 0 <= made[j]
    BY ContentConstants DEF FailJob, SInv, RowsTyped
  <1>2. /\ UNCHANGED <<tables, made>> /\ files' = files /\ Goto(j, "cleanup")
        /\ \/ Updated(j, "failed", 0) /\ lost' = lost
           \/ lost' = lost \cup {j} /\ UNCHANGED job
    BY DEF FailJob
  <1>3. /\ "cleanup" \in (Unwritten \cup Appending \cup {"done", "cleanup"}) \ {"put", "insert"}
        /\ "cleanup" \notin Unwritten /\ "cleanup" \notin Appending
    BY DEF Unwritten, Appending
  <1> QED
    BY <1>1, <1>2, <1>3, WorkerGoesOn

LEMMA ReportProgressKeeps ==
    ASSUME SInv, NEW j \in Jobs, ReportProgress(j)
    PROVE  SInv'
  <1> DEFINE n == Rows - task[j].left
  <1>1. task[j].pc = "progress" /\ made[j] \in Nat
    BY ContentConstants DEF ReportProgress, At, SInv, RowsTyped
  <1>2. "progress" \in Appending /\ "flush" \in Appending /\ "done" \notin Appending
        /\ "done" \notin Unwritten /\ "flush" \notin Unwritten
    BY DEF Unwritten, Appending
  <1>3. n = made[j] /\ task[j].kind = "flashcard"
    BY <1>1, <1>2, JobAtWork DEF TaskFine
  <1>4. /\ UNCHANGED <<tables, made>> /\ files' = files /\ lost' = lost
        /\ UNCHANGED job \/ Updated(j, "running", n)
    BY DEF ReportProgress
  <1>5. PICK p \in {"done", "flush"} : Goto(j, p)
    BY DEF ReportProgress
  <1>6. p \in (Unwritten \cup Appending \cup {"done", "cleanup"}) \ {"put", "insert"}
    BY <1>2
  <1> HIDE DEF n
  <1> QED
    BY <1>1, <1>2, <1>3, <1>4, <1>5, <1>6, WorkerGoesOn

LEMMA FinishKeeps ==
    ASSUME SInv, NEW j \in Jobs, Finish(j)
    PROVE  SInv'
  <1> DEFINE n == Imported(j)
  <1>1. task[j].pc = "done" /\ made[j] \in Nat
    BY ContentConstants DEF Finish, At, SInv, RowsTyped
  <1>2. n = made[j]
    BY <1>1, JobAtWork DEF Imported
  <1>3. /\ UNCHANGED <<tables, made>> /\ files' = files /\ Goto(j, "cleanup")
        /\ \/ Updated(j, "done", n) /\ lost' = lost
           \/ lost' = lost \cup {j} /\ UNCHANGED job
    BY DEF Finish
  <1>4. /\ "cleanup" \in (Unwritten \cup Appending \cup {"done", "cleanup"}) \ {"put", "insert"}
        /\ "cleanup" \notin Unwritten /\ "cleanup" \notin Appending
    BY DEF Unwritten, Appending
  <1> HIDE DEF n
  <1> QED
    BY <1>1, <1>2, <1>3, <1>4, WorkerGoesOn

LEMMA CleanupKeeps ==
    ASSUME SInv, NEW j \in Jobs, Cleanup(j)
    PROVE  SInv'
  <1>1. task[j].pc = "cleanup"
    BY DEF Cleanup, At
  <1>2. /\ Becomes(j, Idle) /\ files' \in {files, files \ {j}} /\ UNCHANGED <<tables, made>>
        /\ UNCHANGED job /\ lost' = lost
    BY DEF Cleanup
  <1> QED
    BY <1>1, <1>2, WorkerStops

LEMMA NextFlashcardPositionKeeps ==
    ASSUME SInv, NEW j \in Jobs, NextFlashcardPosition(j)
    PROVE  SInv'
  <1> DEFINE pos == NextPosition(task[j].set)
             v == [task[j] EXCEPT !.pc = "flush", !.pos = pos]
  <1>1. task[j].pc = "position"
    BY DEF NextFlashcardPosition, At
  <1>2. /\ j \in Tasks /\ Active(j) /\ task[j] \in Work /\ job[j] # None
        /\ made[j] = Rows - task[j].left /\ job[j].status # "done"
        /\ TaskFine(j) /\ JobFine(j) /\ CardsFine(j)
    BY <1>1, JobAtWork
  <1>3. pos \in Nat /\ pos <= nextId
    BY <1>2, NextPositionBound DEF SInv, Work
  <1>4. /\ task' = [task EXCEPT ![j] = v]
        /\ UNCHANGED <<tables, made, job, files, lost>>
    BY DEF NextFlashcardPosition
  <1>5. "position" \in Unwritten /\ "flush" \in Appending
        /\ "flush" \notin Unwritten /\ "flush" \notin Mirroring
    BY DEF Unwritten, Appending, Mirroring
  <1>6. /\ v \in Work /\ v.pc = "flush" /\ v.pos = pos /\ v.left = task[j].left
        /\ v.kind = task[j].kind
    BY <1>2, <1>3, <1>5 DEF Work
  <1> HIDE DEF v, pos
  <1>7. RowsTyped' /\ task'[j] = v
    BY <1>2, <1>4, <1>6, QuietTyped DEF SInv, RowsTyped
  <1>8. task[j].kind = "flashcard" /\ nextId' = nextId /\ cards' = cards
    BY <1>1, <1>2, <1>4 DEF TaskFine, tables
  <1>9. \A c \in cards : c.by # j
    BY <1>1, <1>2, <1>5 DEF CardsFine
  <1>10. TaskFine(j)'
    <2>1. v.pos <= nextId'
      BY <1>3, <1>6, <1>8
    <2> QED
      BY <1>5, <1>6, <1>7, <1>8, <2>1 DEF TaskFine
  <1>11. Active(j)'
    BY <1>6, <1>7, WorkIsActive DEF Active
  <1>12. JobFine(j)'
    BY <1>2, <1>4, <1>6, <1>7, <1>11 DEF JobFine
  <1>13. CardsFine(j)'
    BY <1>5, <1>6, <1>7, <1>8, <1>9, <1>11 DEF CardsFine
  <1> QED
    BY <1>2, <1>4, <1>6, <1>7, <1>10, <1>12, <1>13, TaskMoves
-----------------------------------------------------------------------------
(* Steps that write.                                                       *)

\* New cards beside some of the old ones.
LEMMA AddCards ==
    ASSUME SInv, NEW a \in Tasks \cup {None}, NEW s \in Sets, Live(s),
           NEW n \in Nat, Room(n), NEW pos \in Nat, pos <= nextId,
           NEW K \in SUBSET cards, \A c \in cards : c.set # s => c \in K,
           cards' = K \cup NewCards(a, s, n, pos), nextId' = nextId + n,
           UNCHANGED <<shelf, questions>>,
           a \in Jobs => \A c \in K : c.by = a => c.pos < pos
    PROVE  /\ cards' \subseteq Card /\ nextId' \in 1..(MaxCards + 1) /\ nextId <= nextId'
           /\ CardsPlaced' /\ RowsOrdered'
           /\ \A c \in cards' : c \in cards \/ c.by = a
           /\ \A x \in Sets \ {s} : {c \in cards' : c.set = x} = CardsOf(x)
           /\ \A c \in cards' : c.by = a => c \in K \/ c.pos < pos + n
  <1> DEFINE N == NewCards(a, s, n, pos)
  <1>1. /\ N \subseteq Card /\ nextId + n \in 1..(MaxCards + 1)
        /\ \A c \in N :
              /\ c.set = s /\ c.by = a
              /\ c.id >= nextId /\ c.id < nextId + n
              /\ c.pos >= pos /\ c.pos < pos + n /\ c.pos < nextId + n
        /\ \A c, d \in N :
              (c.id < d.id => c.pos < d.pos) /\ (c.id = d.id => c = d)
    BY NewCardsFacts DEF SInv
  <1>2. /\ cards \subseteq Card /\ nextId \in Nat
        /\ \A c \in cards : c.id < nextId /\ c.pos < nextId /\ Live(c.set)
        /\ \A c, d \in cards : c.id = d.id => c = d
        /\ \A x \in Sets : ~Live(x) => questions[x] = {}
    BY DEF SInv, RowsTyped, CardsPlaced
  <1>3. cards' = K \cup N
    OBVIOUS
  <1> HIDE DEF N
  <1>4. cards' \subseteq Card
    BY <1>1, <1>2, <1>3
  <1>5. \A c \in Card : c.id \in Nat /\ c.pos \in Nat
    BY DEF Card
  <1>6. nextId' \in 1..(MaxCards + 1) /\ nextId <= nextId'
    BY <1>1, <1>2
  <1>7. CardsPlaced'
    <2>1. \A c \in cards' : c.id < nextId' /\ c.pos < nextId' /\ Live(c.set)'
      <3>1. SUFFICES ASSUME NEW c \in cards'
                     PROVE  c.id < nextId' /\ c.pos < nextId' /\ Live(c.set)'
        OBVIOUS
      <3>2. CASE c \in K
        <4>1. c.id < nextId /\ c.pos < nextId /\ Live(c.set) /\ c.id \in Nat /\ c.pos \in Nat
          BY <3>2, <1>2, <1>5
        <4> QED
          BY <4>1, <1>2 DEF Live
      <3>3. CASE c \in N
        BY <3>3, <1>1 DEF Live
      <3> QED
        BY <3>1, <3>2, <3>3, <1>3
    <2>2. \A c, d \in cards' : c.id = d.id => c = d
      <3>1. SUFFICES ASSUME NEW c \in cards', NEW d \in cards', c.id = d.id PROVE c = d
        OBVIOUS
      <3>2. \A x \in K, y \in N : x.id # y.id
        <4>1. SUFFICES ASSUME NEW x \in K, NEW y \in N PROVE x.id # y.id
          OBVIOUS
        <4>2. x.id < nextId /\ y.id >= nextId /\ x.id \in Nat /\ y.id \in Nat
          BY <1>1, <1>2, <1>5
        <4> QED
          BY <4>2, <1>2
      <3> QED
        BY <3>1, <3>2, <1>1, <1>2, <1>3
    <2>3. \A x \in Sets : ~Live(x)' => questions'[x] = {}
      BY <1>2 DEF Live
    <2> QED
      BY <2>1, <2>2, <2>3 DEF CardsPlaced
  <1>8. RowsOrdered'
    <2>1. SUFFICES ASSUME NEW c \in cards', NEW d \in cards',
                          c.by \in Jobs, c.by = d.by, c.id < d.id
                   PROVE  c.pos < d.pos
      BY DEF RowsOrdered
    <2>2. CASE c \in K /\ d \in K
      BY <2>1, <2>2 DEF SInv, RowsOrdered
    <2>3. CASE c \in N /\ d \in N
      BY <2>1, <2>3, <1>1
    <2>4. CASE c \in K /\ d \in N
      <3>1. d.by = a /\ d.pos >= pos /\ c.pos < pos
        BY <2>1, <2>4, <1>1
      <3>2. c.pos \in Nat /\ d.pos \in Nat
        BY <1>4, <1>5, <2>1
      <3> QED
        BY <3>1, <3>2
    <2>5. CASE c \in N /\ d \in K
      <3>1. c.id >= nextId /\ d.id < nextId /\ c.id \in Nat /\ d.id \in Nat
        BY <2>1, <2>5, <1>1, <1>2, <1>4, <1>5
      <3> QED
        BY <3>1, <2>1, <1>2
    <2> QED
      BY <2>1, <2>2, <2>3, <2>4, <2>5, <1>3
  <1>9. \A c \in cards' : c \in cards \/ c.by = a
    BY <1>1, <1>3
  <1>10. \A x \in Sets \ {s} : {c \in cards' : c.set = x} = CardsOf(x)
    BY <1>1, <1>3 DEF CardsOf
  <1>11. \A c \in cards' : c.by = a => c \in K \/ c.pos < pos + n
    BY <1>1, <1>3
  <1> QED
    BY <1>4, <1>6, <1>7, <1>8, <1>9, <1>10, <1>11

\* A write to one set disturbs nobody that is alone on another.
LEMMA WriteDisturbsNoOtherSet ==
    ASSUME RowsTyped, NEW a \in Tasks \cup {None}, NEW s \in Sets,
           \A x \in Tasks \ {a} : task'[x] = Others(s, a)[x],
           \A x \in Sets \ {s} : /\ questions'[x] = questions[x]
                                 /\ {c \in cards' : c.set = x} = CardsOf(x)
    PROVE  \A x \in Tasks \ {a} : Undisturbed(x)
  <1>1. SUFFICES ASSUME NEW x \in Tasks \ {a} PROVE Undisturbed(x)
    OBVIOUS
  <1>2. \/ task'[x] = task[x] /\ (Active(x) => task[x].set # s)
        \/ Active(x) /\ task'[x] = [task[x] EXCEPT !.alone = FALSE]
    <2>1. x \in Tasks /\ x # a /\ task'[x] = Others(s, a)[x]
      OBVIOUS
    <2>2. \/ Others(s, a)[x] = task[x] /\ (Active(x) => task[x].set # s)
          \/ Active(x) /\ Others(s, a)[x] = [task[x] EXCEPT !.alone = FALSE]
      BY <2>1, OthersFacts
    <2> HIDE DEF Others
    <2> QED
      BY <2>1, <2>2
  <1>3. Active(x) => task[x] \in Work
    BY TaskIsWork
  <1>4. CASE task'[x] = task[x] /\ (Active(x) => task[x].set # s)
    <2>1. Active(x) => task[x].set \in Sets \ {s}
      BY <1>3, <1>4 DEF Work
    <2> QED
      BY <1>4, <2>1 DEF Undisturbed
  <1>5. CASE Active(x) /\ task'[x] = [task[x] EXCEPT !.alone = FALSE]
    <2>1. task'[x].alone = FALSE
      BY <1>3, <1>5 DEF Work
    <2> QED
      BY <1>5, <2>1 DEF Undisturbed
  <1> QED
    BY <1>2, <1>4, <1>5

\* The tasks after a write: the writer goes on, the others are told.
LEMMA WriterGoesOn ==
    ASSUME RowsTyped, NEW a \in Tasks, NEW s \in Sets, NEW v \in Work,
           task' = [Others(s, a) EXCEPT ![a] = v]
    PROVE  /\ task' \in [Tasks -> {Idle} \cup Work] /\ task'[a] = v
           /\ \A x \in Tasks \ {a} : task'[x] = Others(s, a)[x]
           /\ Active(a)'
  <1>1. Others(s, a) \in [Tasks -> {Idle} \cup Work]
    BY OthersFacts
  <1>2. task' \in [Tasks -> {Idle} \cup Work] /\ task'[a] = v
    BY <1>1
  <1>3. \A x \in Tasks \ {a} : task'[x] = Others(s, a)[x]
    BY <1>1
  <1> QED
    BY <1>2, <1>3, WorkIsActive DEF Active

LEMMA FlushKeeps ==
    ASSUME SInv, NEW j \in Jobs, Flush(j)
    PROVE  SInv'
  <1> DEFINE s == task[j].set
             n == Min({Chunk, task[j].left})
             pos == task[j].pos
             v == [task[j] EXCEPT !.pc = "progress", !.left = @ - n, !.pos = @ + n]
  <1>1. task[j].pc = "flush" /\ task[j].left > 0 /\ Live(s) /\ Room(n)
    BY DEF Flush, At
  <1>2. /\ j \in Tasks /\ Active(j) /\ task[j] \in Work /\ job[j] # None
        /\ job[j].imported <= made[j] /\ job[j] \in JobRow
        /\ made[j] = Rows - task[j].left /\ job[j].status # "done"
        /\ TaskFine(j) /\ JobFine(j) /\ CardsFine(j)
    BY <1>1, JobAtWork
  <1>3. /\ s \in Sets /\ pos \in Nat /\ task[j].left \in 0..Rows /\ task[j].kind = "flashcard"
        /\ pos <= nextId
    BY <1>1, <1>2 DEF Work, TaskFine, Appending
  <1>4. Rows \in Nat
    BY ContentConstants
  <1>5. n \in 1..task[j].left
    BY <1>1, <1>3, ChunkSize
  <1>6. "progress" \in Appending /\ "flush" \in Appending
        /\ "progress" \notin Unwritten \cup Mirroring /\ "flush" \notin Unwritten
    BY DEF Unwritten, Appending, Mirroring
  <1>7. task[j].left - n \in 0..Rows /\ pos + n \in Nat
    BY <1>3, <1>4, <1>5
  <1>8. /\ v \in Work /\ v.pc = "progress" /\ v.left = task[j].left - n /\ v.pos = pos + n
        /\ v.kind = "flashcard"
    BY <1>2, <1>3, <1>6, <1>7 DEF Work
  <1>9. task' = [Others(s, j) EXCEPT ![j] = v]
    <2>1. Others(s, j)[j] = task[j]
      BY <1>2, <1>3, OthersFacts DEF SInv
    <2> QED
      BY <2>1, <1>2 DEF Flush, Work
  <1>10. /\ cards' = cards \cup NewCards(j, s, n, pos) /\ nextId' = nextId + n
         /\ made' = [made EXCEPT ![j] = @ + n]
         /\ UNCHANGED <<shelf, questions>> /\ UNCHANGED <<job, files, lost>>
    BY DEF Flush
  <1> HIDE DEF s, n, pos, v
  <1>11. \A c \in cards : c.by = j => c.pos < pos
    BY <1>1, <1>2, <1>6 DEF CardsFine, pos
  <1>12. /\ cards' \subseteq Card /\ nextId' \in 1..(MaxCards + 1) /\ nextId <= nextId'
         /\ CardsPlaced' /\ RowsOrdered'
         /\ \A c \in cards' : c \in cards \/ c.by = j
         /\ \A x \in Sets \ {s} : {c \in cards' : c.set = x} = CardsOf(x)
         /\ \A c \in cards' : c.by = j => c \in cards \/ c.pos < pos + n
    <2>1. n \in Nat /\ cards \in SUBSET cards /\ j \in Tasks \cup {None}
      BY <1>2, <1>3, <1>5
    <2>2. \A c \in cards : c.set # s => c \in cards
      OBVIOUS
    <2> QED
      BY <1>1, <1>3, <1>10, <1>11, <2>1, <2>2, AddCards
  <1>13. /\ task' \in [Tasks -> {Idle} \cup Work] /\ task'[j] = v
         /\ \A x \in Tasks \ {j} : task'[x] = Others(s, j)[x]
         /\ Active(j)'
    BY <1>2, <1>3, <1>8, <1>9, WriterGoesOn DEF SInv
  <1>14. /\ made' \in [Jobs -> 0..Rows] /\ made'[j] = made[j] + n
         /\ \A i \in Jobs \ {j} : made'[i] = made[i]
    <2>1. made \in [Jobs -> 0..Rows]
      BY DEF SInv, RowsTyped
    <2>2. made[j] + n \in 0..Rows
      BY <1>2, <1>3, <1>4, <1>5
    <2> QED
      BY <1>10, <2>1, <2>2
  <1>15. RowsTyped'
    BY <1>10, <1>12, <1>13, <1>14 DEF SInv, RowsTyped
  <1>16. \A x \in Tasks \ {j} : Undisturbed(x)
    BY <1>2, <1>3, <1>10, <1>12, <1>13, WriteDisturbsNoOtherSet DEF SInv
  <1>17. \A i \in Jobs \ {j} : JobUndisturbed(i)
    BY <1>10, <1>12, <1>14 DEF JobUndisturbed
  <1>18. TaskFine(j)'
    <2>1. v.pos <= nextId'
      <3>1. nextId \in Nat
        BY DEF SInv, RowsTyped
      <3> QED
        BY <1>3, <1>5, <1>8, <1>10, <3>1
    <2> QED
      BY <1>6, <1>8, <1>13, <2>1 DEF TaskFine
  <1>19. JobFine(j)'
    <2>1. job[j].imported \in Nat /\ made[j] \in Nat
      BY <1>2, <1>3, <1>4 DEF JobRow
    <2>2. job'[j].imported <= made'[j] /\ made'[j] = Rows - task'[j].left
      BY <1>2, <1>3, <1>4, <1>5, <1>8, <1>10, <1>13, <1>14, <2>1
    <2> QED
      BY <1>2, <1>8, <1>10, <1>13, <2>2 DEF JobFine
  <1>20. CardsFine(j)'
    <2>1. \A c \in cards' : c.by = j => c.pos < pos + n
      <3>1. SUFFICES ASSUME NEW c \in cards, c.by = j, c \in Card PROVE c.pos < pos + n
        BY <1>12
      <3>2. c.pos < pos /\ c.pos \in Nat
        BY <3>1, <1>11 DEF Card
      <3> QED
        BY <3>2, <1>3, <1>5
    <2> QED
      BY <1>6, <1>8, <1>13, <2>1 DEF CardsFine
  <1> QED
    BY <1>2, <1>12, <1>15, <1>16, <1>17, <1>18, <1>19, <1>20, Closing DEF Frame
\* An edit by hand is no task's own step.
LEMMA EditCloses ==
    ASSUME SInv, NEW s \in Sets, task' = Others(s, None),
           \A x \in Sets \ {s} : /\ questions'[x] = questions[x]
                                 /\ {c \in cards' : c.set = x} = CardsOf(x),
           \A j \in Jobs : JobUndisturbed(j),
           shelf' \in [Sets -> {"shown", "hidden", "deleted"}],
           nextId' \in 1..(MaxCards + 1), nextId <= nextId', cards' \subseteq Card,
           questions' \in [Sets -> SUBSET Tasks], job' \in [Jobs -> {None} \cup JobRow],
           UNCHANGED <<files, lost, made>>,
           CardsPlaced', RowsOrdered'
    PROVE  SInv'
  <1>1. None \in Tasks \cup {None} /\ None \notin Tasks /\ None \notin Jobs
    BY JobsAreTasks
  <1>2. task' \in [Tasks -> {Idle} \cup Work]
    BY <1>1, OthersFacts DEF SInv
  <1>3. RowsTyped'
    BY <1>2 DEF SInv, RowsTyped
  <1>4. \A x \in Tasks \ {None} : Undisturbed(x)
    BY <1>1, WriteDisturbsNoOtherSet DEF SInv
  <1> QED
    BY <1>1, <1>3, <1>4, Closing DEF Frame

LEMMA CreateCardKeeps ==
    ASSUME SInv, NEW s \in Sets, CreateCard(s)
    PROVE  SInv'
  <1> DEFINE pos == NextPosition(s)
  <1>1. /\ Room(1) /\ cards' = cards \cup NewCards(None, s, 1, pos) /\ nextId' = nextId + 1
        /\ UNCHANGED <<shelf, questions>> /\ UNCHANGED <<job, files, made, lost>>
        /\ task' = Others(s, None) /\ Live(s)
    BY WriterFindsSet DEF CreateCard, Edited, Editing
  <1>2. pos \in Nat /\ pos <= nextId
    BY NextPositionBound DEF SInv
  <1> HIDE DEF pos
  <1>3. None \notin Jobs
    BY JobsAreTasks
  <1>4. /\ cards' \subseteq Card /\ nextId' \in 1..(MaxCards + 1) /\ nextId <= nextId'
        /\ CardsPlaced' /\ RowsOrdered'
        /\ \A c \in cards' : c \in cards \/ c.by = None
        /\ \A x \in Sets \ {s} : {c \in cards' : c.set = x} = CardsOf(x)
    <2>1. 1 \in Nat /\ cards \in SUBSET cards /\ None \in Tasks \cup {None}
          /\ (\A c \in cards : c.set # s => c \in cards)
      OBVIOUS
    <2> QED
      BY <1>1, <1>2, <1>3, <2>1, AddCards
  <1>5. \A j \in Jobs : JobUndisturbed(j)
    BY <1>1, <1>3, <1>4 DEF JobUndisturbed
  <1> QED
    BY <1>1, <1>4, <1>5, EditCloses DEF SInv, RowsTyped

\* Cards of one set taken away.
LEMMA CardsTakenAway ==
    ASSUME SInv, NEW s \in Sets, task' = Others(s, None),
           NEW gone \in SUBSET CardsOf(s), cards' = cards \ gone,
           \A j \in Jobs :
              \/ job'[j] = job[j]
              \/ job[j] # None /\ job'[j] = [job[j] EXCEPT !.status = "gone"],
           job' \in [Jobs -> {None} \cup JobRow],
           questions' \in [Sets -> SUBSET Tasks],
           \A x \in Sets \ {s} : questions'[x] = questions[x],
           questions'[s] \in {{}, questions[s]},
           \/ shelf' = shelf
           \/ /\ shelf' = [shelf EXCEPT ![s] = "deleted"]
              /\ questions'[s] = {} /\ gone = CardsOf(s),
           UNCHANGED <<nextId, files, lost, made>>
    PROVE  SInv'
  <1>1. \A x \in Sets \ {s} : {c \in cards' : c.set = x} = CardsOf(x)
    BY DEF CardsOf
  <1>2. shelf' \in [Sets -> {"shown", "hidden", "deleted"}]
        /\ \A x \in Sets \ {s} : shelf'[x] = shelf[x]
    BY DEF SInv, RowsTyped
  <1>3. CardsPlaced'
    <2>1. \A c \in cards' : c \in cards /\ c.set \in Sets
      BY DEF SInv, RowsTyped, Card
    <2>2. \A c \in cards' : Live(c.set)'
      <3>1. SUFFICES ASSUME NEW c \in cards' PROVE Live(c.set)'
        OBVIOUS
      <3>2. Live(c.set)
        BY <2>1 DEF SInv, CardsPlaced
      <3>3. CASE shelf' = shelf
        BY <3>2, <3>3 DEF Live
      <3>4. CASE gone = CardsOf(s)
        <4>1. c.set # s
          BY <2>1, <3>4 DEF CardsOf
        <4> QED
          BY <4>1, <3>2, <2>1, <1>2 DEF Live
      <3> QED
        BY <3>3, <3>4
    <2>3. \A x \in Sets : ~Live(x)' => questions'[x] = {}
      <3>1. SUFFICES ASSUME NEW x \in Sets, ~Live(x)' PROVE questions'[x] = {}
        OBVIOUS
      <3>2. CASE x = s
        BY <3>1, <3>2 DEF SInv, CardsPlaced, Live
      <3>3. CASE x # s
        BY <3>1, <3>3, <1>2 DEF SInv, CardsPlaced, Live
      <3> QED
        BY <3>2, <3>3
    <2>4. \A c \in cards' : c.id < nextId' /\ c.pos < nextId'
      BY <2>1 DEF SInv, CardsPlaced
    <2>5. \A c, d \in cards' : c.id = d.id => c = d
      BY <2>1 DEF SInv, CardsPlaced
    <2> QED
      BY <2>2, <2>3, <2>4, <2>5 DEF CardsPlaced
  <1>4. RowsOrdered'
    BY DEF SInv, RowsOrdered
  <1>5. \A j \in Jobs : JobUndisturbed(j)
    BY DEF JobUndisturbed
  <1>6. /\ nextId' \in 1..(MaxCards + 1) /\ nextId <= nextId' /\ cards' \subseteq Card
    BY ContentConstants DEF SInv, RowsTyped
  <1> QED
    BY <1>1, <1>2, <1>3, <1>4, <1>5, <1>6, EditCloses

LEMMA DeleteCardKeeps ==
    ASSUME SInv, NEW c \in cards, DeleteCard(c)
    PROVE  SInv'
  <1>1. c.set \in Sets /\ {c} \in SUBSET CardsOf(c.set)
    BY DEF SInv, RowsTyped, Card, CardsOf
  <1>2. /\ task' = Others(c.set, None) /\ cards' = cards \ {c}
        /\ UNCHANGED <<shelf, nextId, questions, job, files, made, lost>>
    BY DEF DeleteCard, Edited
  <1> QED
    BY <1>1, <1>2, CardsTakenAway DEF SInv, RowsTyped

LEMMA DeleteQuestionsKeeps ==
    ASSUME SInv, NEW s \in Sets, DeleteQuestions(s)
    PROVE  SInv'
  <1>1. /\ task' = Others(s, None) /\ cards' = cards \ {}
        /\ questions' = [questions EXCEPT ![s] = {}]
        /\ UNCHANGED <<shelf, nextId, job, files, made, lost>>
    BY DEF DeleteQuestions, Edited
  <1>2. /\ questions' \in [Sets -> SUBSET Tasks] /\ questions'[s] = {}
        /\ \A x \in Sets \ {s} : questions'[x] = questions[x]
    BY <1>1 DEF SInv, RowsTyped
  <1>3. {} \in SUBSET CardsOf(s)
    OBVIOUS
  <1> QED
    BY <1>1, <1>2, <1>3, CardsTakenAway DEF SInv, RowsTyped

LEMMA DeleteSetKeeps ==
    ASSUME SInv, NEW s \in Sets, DeleteSet(s)
    PROVE  SInv'
  <1>1. /\ task' = Others(s, None) /\ cards' = cards \ CardsOf(s)
        /\ shelf' = [shelf EXCEPT ![s] = "deleted"]
        /\ questions' = [questions EXCEPT ![s] = {}]
        /\ job' = [j \in Jobs |-> IF job[j] # None /\ job[j].set = s
                                  THEN [job[j] EXCEPT !.status = "gone"] ELSE job[j]]
        /\ UNCHANGED <<nextId, files, made, lost>>
    BY DEF DeleteSet, Edited
  <1>2. /\ questions' \in [Sets -> SUBSET Tasks] /\ questions'[s] = {}
        /\ \A x \in Sets \ {s} : questions'[x] = questions[x]
    BY <1>1 DEF SInv, RowsTyped
  <1>3. \A j \in Jobs :
            \/ job'[j] = job[j]
            \/ job[j] # None /\ job'[j] = [job[j] EXCEPT !.status = "gone"]
    BY <1>1
  <1>4. job' \in [Jobs -> {None} \cup JobRow]
    <2>1. \A j \in Jobs : job'[j] \in {None} \cup JobRow
      <3>1. SUFFICES ASSUME NEW j \in Jobs PROVE job'[j] \in {None} \cup JobRow
        OBVIOUS
      <3>2. job[j] # None => job[j] \in JobRow
        BY JobIsRow DEF SInv
      <3>3. \A r \in JobRow : [r EXCEPT !.status = "gone"] \in JobRow
        BY DEF JobRow
      <3> QED
        BY <1>3, <3>2, <3>3
    <2> QED
      BY <1>1, <2>1
  <1>5. CardsOf(s) \in SUBSET CardsOf(s)
    OBVIOUS
  <1> QED
    BY <1>1, <1>2, <1>3, <1>4, <1>5, CardsTakenAway

LEMMA BulkSaveCardsKeeps ==
    ASSUME SInv, NEW s \in Sets, NEW c \in CardsOf(s), NEW pos \in 0..1,
           BulkSaveCards(s, {c}, {}, pos)
    PROVE  SInv'
  <1> DEFINE new == [c EXCEPT !.pos = pos, !.by = None]
  <1>1. c \in cards /\ c.set = s /\ c \in Card /\ c.id < nextId /\ Live(s)
    BY DEF CardsOf, SInv, RowsTyped, CardsPlaced
  <1>2. /\ task' = Others(s, None) /\ cards' = (cards \ {c}) \cup {new}
        /\ UNCHANGED <<shelf, nextId, questions, job, files, made, lost>>
    BY DEF BulkSaveCards, Edited
  <1>3. /\ new \in Card /\ new.id = c.id /\ new.set = s /\ new.by = None /\ new.pos = pos
    <2>1. pos \in Nat
      OBVIOUS
    <2>2. \A p \in Nat : /\ [c EXCEPT !.pos = p, !.by = None] \in Card
                         /\ [c EXCEPT !.pos = p, !.by = None].id = c.id
                         /\ [c EXCEPT !.pos = p, !.by = None].set = c.set
                         /\ [c EXCEPT !.pos = p, !.by = None].by = None
                         /\ [c EXCEPT !.pos = p, !.by = None].pos = p
      BY <1>1 DEF Card
    <2> QED
      BY <1>1, <2>1, <2>2
  <1>4. nextId \in Nat /\ c.id \in Nat /\ c.id >= 1
    BY <1>1 DEF SInv, RowsTyped, Card
  <1> HIDE DEF new
  <1>5. None \notin Jobs
    BY JobsAreTasks
  <1>6. CardsPlaced'
    <2>1. \A d \in cards' : d.id < nextId' /\ d.pos < nextId' /\ Live(d.set)'
      <3>1. new.id < nextId' /\ new.pos < nextId' /\ Live(new.set)'
        BY <1>1, <1>2, <1>3, <1>4 DEF Live
      <3>2. \A d \in cards : d.id < nextId' /\ d.pos < nextId' /\ Live(d.set)'
        BY <1>2 DEF SInv, CardsPlaced, Live
      <3> QED
        BY <3>1, <3>2, <1>2
    <2>2. \A d, e \in cards' : d.id = e.id => d = e
      BY <1>1, <1>2, <1>3 DEF SInv, CardsPlaced
    <2>3. \A x \in Sets : ~Live(x)' => questions'[x] = {}
      BY <1>2 DEF SInv, CardsPlaced, Live
    <2> QED
      BY <2>1, <2>2, <2>3 DEF CardsPlaced
  <1>7. RowsOrdered'
    BY <1>2, <1>3, <1>5 DEF SInv, RowsOrdered
  <1>8. \A j \in Jobs : JobUndisturbed(j)
    BY <1>2, <1>3, <1>5 DEF JobUndisturbed
  <1>9. \A x \in Sets \ {s} : {d \in cards' : d.set = x} = CardsOf(x)
    BY <1>1, <1>2, <1>3 DEF CardsOf
  <1>10. /\ shelf' \in [Sets -> {"shown", "hidden", "deleted"}]
         /\ nextId' \in 1..(MaxCards + 1) /\ nextId <= nextId' /\ cards' \subseteq Card
         /\ questions' \in [Sets -> SUBSET Tasks] /\ job' \in [Jobs -> {None} \cup JobRow]
         /\ \A x \in Sets \ {s} : questions'[x] = questions[x]
    BY <1>2, <1>3, <1>4 DEF SInv, RowsTyped
  <1> QED
    BY <1>2, <1>6, <1>7, <1>8, <1>9, <1>10, EditCloses

LEMMA ModerateKeeps ==
    ASSUME SInv, NEW s \in Sets, Moderate(s)
    PROVE  SInv'
  <1>1. /\ Live(s) /\ shelf' = [shelf EXCEPT ![s] = IF @ = "hidden" THEN "shown" ELSE "hidden"]
        /\ UNCHANGED <<cards, nextId, questions, job, files, task, made, lost>>
    BY DEF Moderate
  <1>2. \A x \in Sets : Live(x)' <=> Live(x)
    BY <1>1 DEF SInv, RowsTyped, Live
  <1>3. RowsTyped'
    <2>1. shelf' \in [Sets -> {"shown", "hidden", "deleted"}]
      BY <1>1 DEF SInv, RowsTyped
    <2> QED
      BY <1>1, <2>1 DEF SInv, RowsTyped
  <1>4. CardsPlaced'
    <2>1. \A c \in cards : c.set \in Sets
      BY DEF SInv, RowsTyped, Card
    <2> QED
      BY <1>1, <1>2, <2>1 DEF SInv, CardsPlaced
  <1>5. RowsOrdered'
    BY <1>1 DEF SInv, RowsOrdered
  <1>6. \A t \in Tasks : TaskFine(t)'
    BY <1>1 DEF SInv, TaskFine, Active, CardsOf
  <1>7. \A j \in Jobs : JobFine(j)' /\ CardsFine(j)'
    BY <1>1 DEF SInv, JobFine, CardsFine, Active
  <1> QED
    BY <1>3, <1>4, <1>5, <1>6, <1>7 DEF SInv
-----------------------------------------------------------------------------
(* Requests, and the steps that both kinds of tasks take.                  *)

LEMMA BeginKeeps ==
    ASSUME SInv, NEW r \in Requests, NEW s \in Sets,
           NEW kind \in {"save", "quiz", "flashcard"}, Begin(r, kind, s)
    PROVE  SInv'
  <1> DEFINE p == IF kind = "flashcard" THEN "count" ELSE "replace"
             v == New(r, p, kind, s)
  <1>1. r \in Tasks /\ r \notin Jobs /\ Rows \in Nat
    BY JobsAreTasks, ContentConstants
  <1>2. /\ task' = [task EXCEPT ![r] = v] /\ UNCHANGED <<tables, job, files, made, lost>>
    BY DEF Begin, Becomes
  <1>3. /\ v \in Work /\ v.pc = p /\ v.left = Rows /\ v.pos = 0 /\ v.kind = kind
    BY <1>1 DEF New, Work, Unwritten
  <1> HIDE DEF v
  <1>4. RowsTyped' /\ task'[r] = v
    BY <1>1, <1>2, <1>3, QuietTyped DEF SInv, RowsTyped
  <1>5. nextId' \in Nat
    BY <1>2 DEF SInv, RowsTyped, tables
  <1>6. v.pos <= nextId'
    BY <1>3, <1>5
  <1>7. TaskFine(r)'
    BY <1>3, <1>4, <1>6 DEF TaskFine, Appending, Mirroring
  <1> QED
    BY <1>1, <1>2, <1>3, <1>4, <1>7, TaskMoves

LEMMA AnsweredKeeps ==
    ASSUME SInv, NEW r \in Requests, Answered(r)
    PROVE  SInv'
  <1>1. r \in Tasks /\ r \notin Jobs
    BY JobsAreTasks
  <1>2. /\ task' = [task EXCEPT ![r] = Idle] /\ UNCHANGED <<tables, job, files, made, lost>>
    BY DEF Answered, Becomes
  <1>3. RowsTyped' /\ task'[r] = Idle
    BY <1>1, <1>2, QuietTyped DEF SInv, RowsTyped
  <1>4. TaskFine(r)'
    BY <1>3 DEF TaskFine, Active
  <1> QED
    BY <1>1, <1>2, <1>3, <1>4, TaskMoves

LEMMA CountCardsKeeps ==
    ASSUME SInv, NEW r \in Requests, CountCards(r)
    PROVE  SInv'
  <1> DEFINE n == Cardinality(CardsOf(task[r].set))
             v == [task[r] EXCEPT !.pc = "append", !.pos = n]
  <1>1. r \in Tasks /\ r \notin Jobs /\ task[r].pc = "count"
    BY JobsAreTasks DEF CountCards, At
  <1>2. Active(r) /\ task[r] \in Work /\ TaskFine(r)
    BY <1>1, TaskIsWork DEF SInv
  <1>3. n \in Nat /\ n < nextId
    <2>1. CardsOf(task[r].set) \in SUBSET cards
      BY DEF CardsOf
    <2> QED
      BY <2>1, CountBound DEF SInv
  <1>4. task' = [task EXCEPT ![r] = v] /\ UNCHANGED <<tables, job, files, made, lost>>
    BY DEF CountCards
  <1>5. /\ v \in Work /\ v.pc = "append" /\ v.pos = n /\ v.left = task[r].left
        /\ v.kind = task[r].kind
    BY <1>2, <1>3 DEF Work, Unwritten
  <1> HIDE DEF n, v
  <1>6. RowsTyped' /\ task'[r] = v
    BY <1>1, <1>4, <1>5, QuietTyped DEF SInv, RowsTyped
  <1>7. v.pos <= nextId'
    <2>1. nextId \in Nat /\ nextId' = nextId
      BY <1>4 DEF SInv, RowsTyped, tables
    <2> QED
      BY <1>3, <1>5, <2>1
  <1>8. task[r].left = Rows /\ task[r].kind = "flashcard"
    BY <1>1, <1>2 DEF TaskFine, Unwritten
  <1>9. TaskFine(r)'
    BY <1>5, <1>6, <1>7, <1>8 DEF TaskFine, Mirroring
  <1> QED
    BY <1>1, <1>4, <1>5, <1>6, <1>9, TaskMoves

LEMMA AppendAllKeeps ==
    ASSUME SInv, NEW r \in Requests, AppendAll(r)
    PROVE  SInv'
  <1> DEFINE s == task[r].set
             pos == task[r].pos
             v == [task[r] EXCEPT !.pc = "done"]
  <1>1. /\ r \in Tasks /\ r \notin Jobs /\ task[r].pc = "append"
        /\ Live(s) /\ Room(Rows) /\ Rows \in Nat
    BY JobsAreTasks, ContentConstants DEF AppendAll, At
  <1>2. Active(r) /\ task[r] \in Work /\ TaskFine(r)
    BY <1>1, TaskIsWork DEF SInv
  <1>3. s \in Sets /\ pos \in Nat /\ pos <= nextId /\ task[r].kind = "flashcard"
    BY <1>1, <1>2 DEF Work, TaskFine
  <1>4. v \in Work /\ v.pc = "done" /\ v.pos = pos /\ v.kind = "flashcard"
    BY <1>2, <1>3 DEF Work
  <1>5. task' = [Others(s, r) EXCEPT ![r] = v]
    <2>1. Others(s, r)[r] = task[r]
      BY <1>1, <1>3, OthersFacts DEF SInv
    <2> QED
      BY <2>1, <1>2 DEF AppendAll, Work
  <1>6. /\ cards' = cards \cup NewCards(r, s, Rows, pos) /\ nextId' = nextId + Rows
        /\ UNCHANGED <<shelf, questions>> /\ UNCHANGED <<job, files, made, lost>>
    BY DEF AppendAll
  <1> HIDE DEF s, pos, v
  <1>7. /\ cards' \subseteq Card /\ nextId' \in 1..(MaxCards + 1) /\ nextId <= nextId'
        /\ CardsPlaced' /\ RowsOrdered'
        /\ \A c \in cards' : c \in cards \/ c.by = r
        /\ \A x \in Sets \ {s} : {c \in cards' : c.set = x} = CardsOf(x)
    <2>1. /\ cards \in SUBSET cards /\ r \in Tasks \cup {None}
          /\ \A c \in cards : c.set # s => c \in cards
      BY <1>1
    <2> QED
      BY <1>1, <1>3, <1>6, <2>1, AddCards
  <1>8. /\ task' \in [Tasks -> {Idle} \cup Work] /\ task'[r] = v
        /\ \A x \in Tasks \ {r} : task'[x] = Others(s, r)[x]
    BY <1>1, <1>3, <1>4, <1>5, WriterGoesOn DEF SInv
  <1>9. RowsTyped'
    BY <1>6, <1>7, <1>8 DEF SInv, RowsTyped
  <1>10. \A x \in Tasks \ {r} : Undisturbed(x)
    BY <1>1, <1>3, <1>6, <1>7, <1>8, WriteDisturbsNoOtherSet DEF SInv
  <1>11. \A i \in Jobs \ {r} : JobUndisturbed(i)
    BY <1>6, <1>7 DEF JobUndisturbed
  <1>12. v.pos <= nextId'
    <2>1. nextId \in Nat
      BY DEF SInv, RowsTyped
    <2> QED
      BY <1>1, <1>3, <1>4, <1>6, <2>1
  <1>13. TaskFine(r)'
    BY <1>4, <1>8, <1>12 DEF TaskFine, Unwritten, Appending, Mirroring
  <1> QED
    BY <1>1, <1>7, <1>9, <1>10, <1>11, <1>13, Closing DEF Frame

LEMMA ReplaceDeleteKeeps ==
    ASSUME SInv, NEW t \in Tasks, ReplaceDelete(t)
    PROVE  SInv'
  <1> DEFINE q == questions[task[t].set]
             v == [task[t] EXCEPT !.pc = "insert", !.seen = q]
  <1>1. task[t].pc = "replace"
    BY DEF ReplaceDelete, At
  <1>2. Active(t) /\ task[t] \in Work /\ TaskFine(t)
    BY <1>1, TaskIsWork DEF SInv
  <1>3. q \in SUBSET (Tasks \cup Card)
    BY <1>2 DEF SInv, RowsTyped, Work
  <1>4. task' = [task EXCEPT ![t] = v] /\ UNCHANGED <<tables, job, files, made, lost>>
    BY DEF ReplaceDelete
  <1>5. "replace" \in Unwritten /\ "insert" \in Unwritten
        /\ "insert" \notin Appending /\ "insert" \notin Mirroring
    BY DEF Unwritten, Appending, Mirroring
  <1>6. /\ v \in Work /\ v.pc = "insert" /\ v.pos = task[t].pos /\ v.left = task[t].left
        /\ v.set = task[t].set /\ v.seen = questions[task[t].set]
    BY <1>2, <1>3, <1>5 DEF Work
  <1> HIDE DEF q, v
  <1>7. RowsTyped' /\ task'[t] = v
    BY <1>4, <1>6, QuietTyped DEF SInv, RowsTyped
  <1>8. cards' = cards /\ questions' = questions /\ nextId' = nextId
    BY <1>4 DEF tables
  <1>9. TaskFine(t)'
    BY <1>1, <1>2, <1>5, <1>6, <1>7, <1>8 DEF TaskFine
  <1>10. ASSUME t \in Jobs PROVE JobFine(t)' /\ CardsFine(t)'
    <2>1. /\ job[t] # None /\ job[t].imported <= made[t] /\ made[t] = Rows - task[t].left
          /\ job[t].status # "done" /\ CardsFine(t)
          /\ job[t].status \in {"pending", "failed"} => job[t].imported = 0
      BY <1>1, <1>10, JobAtWork
    <2>2. Active(t)'
      BY <1>6, <1>7, WorkIsActive DEF Active
    <2>3. JobFine(t)'
      BY <1>4, <1>6, <1>7, <2>1, <2>2 DEF JobFine
    <2>4. CardsFine(t)'
      BY <1>1, <1>2, <1>5, <1>6, <1>7, <1>8, <2>1, <2>2 DEF CardsFine
    <2> QED
      BY <2>3, <2>4
  <1> QED
    BY <1>4, <1>6, <1>7, <1>9, <1>10, TaskMoves

LEMMA ListCardsKeeps ==
    ASSUME SInv, NEW t \in Tasks, ListCards(t)
    PROVE  SInv'
  <1> DEFINE q == CardsOf(task[t].set)
             v == [task[t] EXCEPT !.pc = "mirror", !.seen = q]
  <1>1. task[t].pc = "list"
    BY DEF ListCards, At
  <1>2. Active(t) /\ task[t] \in Work /\ TaskFine(t)
    BY <1>1, TaskIsWork DEF SInv
  <1>3. q \in SUBSET (Tasks \cup Card)
    BY <1>2 DEF SInv, RowsTyped, CardsOf
  <1>4. task' = [task EXCEPT ![t] = v] /\ UNCHANGED <<tables, job, files, made, lost>>
    BY DEF ListCards
  <1>5. "list" \in Mirroring /\ "mirror" \in Mirroring
        /\ "mirror" \notin Appending /\ "mirror" \notin Unwritten
    BY DEF Unwritten, Appending, Mirroring
  <1>6. /\ v \in Work /\ v.pc = "mirror" /\ v.pos = task[t].pos /\ v.left = task[t].left
        /\ v.set = task[t].set /\ v.seen = q /\ v.alone = task[t].alone
    BY <1>2, <1>3, <1>5 DEF Work
  <1>7. RowsTyped' /\ task'[t] = v
    <2> HIDE DEF q, v
    <2> QED
      BY <1>4, <1>6, QuietTyped DEF SInv, RowsTyped
  <1>8. cards' = cards /\ questions' = questions /\ nextId' = nextId
    BY <1>4 DEF tables
  <1>9. {c \in cards' : c.set = task'[t].set} = q
    BY <1>6, <1>7, <1>8 DEF CardsOf
  <1> HIDE DEF q, v
  <1>10. TaskFine(t)'
    BY <1>1, <1>2, <1>5, <1>6, <1>7, <1>8, <1>9 DEF TaskFine, CardsOf
  <1>11. ASSUME t \in Jobs PROVE JobFine(t)' /\ CardsFine(t)'
    <2>1. /\ job[t] # None /\ job[t].imported <= made[t] /\ made[t] = Rows - task[t].left
          /\ job[t].status # "done" /\ CardsFine(t)
          /\ job[t].status \in {"pending", "failed"} => job[t].imported = 0
      BY <1>1, <1>11, JobAtWork
    <2>2. Active(t)'
      BY <1>6, <1>7, WorkIsActive DEF Active
    <2>3. JobFine(t)'
      BY <1>4, <1>6, <1>7, <2>1, <2>2 DEF JobFine
    <2>4. CardsFine(t)'
      BY <1>1, <1>2, <1>5, <1>6, <1>7, <1>8, <2>1, <2>2 DEF CardsFine
    <2> QED
      BY <2>3, <2>4
  <1> QED
    BY <1>4, <1>6, <1>7, <1>10, <1>11, TaskMoves
LEMMA ReplaceInsertKeeps ==
    ASSUME SInv, NEW t \in Tasks, ReplaceInsert(t)
    PROVE  SInv'
  <1> DEFINE s == task[t].set
             p == IF task[t].kind = "save" THEN "done" ELSE "list"
             v == [task[t] EXCEPT !.left = 0, !.pc = p]
  <1>1. task[t].pc = "insert" /\ Live(s) /\ Rows \in Nat
    BY ContentConstants DEF ReplaceInsert, At
  <1>2. Active(t) /\ task[t] \in Work /\ TaskFine(t)
    BY <1>1, TaskIsWork DEF SInv
  <1>3. s \in Sets /\ task[t].pos <= nextId
    BY <1>2 DEF Work, TaskFine
  <1>4. /\ v \in Work /\ v.pc = p /\ v.pos = task[t].pos /\ v.left = 0
        /\ v.set = s /\ v.alone = task[t].alone /\ v.kind = task[t].kind
    <2>1. p \in Mirroring \cup {"done"} /\ 0 \in 0..Rows
      BY <1>1 DEF Mirroring
    <2> HIDE DEF p
    <2> QED
      BY <1>2, <2>1 DEF Work
  <1>5. task' = [Others(s, t) EXCEPT ![t] = v]
    <2>1. Others(s, t)[t] = task[t]
      BY <1>3, OthersFacts DEF SInv
    <2> QED
      BY <2>1, <1>2 DEF ReplaceInsert, Work
  <1>6. /\ questions' = [questions EXCEPT ![s] = (@ \ task[t].seen) \cup {t}]
        /\ made' = IF t \in Jobs THEN [made EXCEPT ![t] = Rows] ELSE made
        /\ UNCHANGED <<shelf, cards, nextId>> /\ UNCHANGED <<job, files, lost>>
    BY DEF ReplaceInsert
  <1>7. p \in {"done", "list"} /\ (p = "done" => task[t].kind = "save")
    OBVIOUS
  <1> HIDE DEF s, p, v
  <1>8. /\ questions' \in [Sets -> SUBSET Tasks]
        /\ questions'[s] = (questions[s] \ task[t].seen) \cup {t}
        /\ \A x \in Sets \ {s} : questions'[x] = questions[x]
    BY <1>3, <1>6 DEF SInv, RowsTyped
  <1>9. /\ made' \in [Jobs -> 0..Rows] /\ (t \in Jobs => made'[t] = Rows)
        /\ \A i \in Jobs \ {t} : made'[i] = made[i]
    BY <1>1, <1>6 DEF SInv, RowsTyped
  <1>10. /\ task' \in [Tasks -> {Idle} \cup Work] /\ task'[t] = v
         /\ \A x \in Tasks \ {t} : task'[x] = Others(s, t)[x]
         /\ Active(t)'
    BY <1>3, <1>4, <1>5, WriterGoesOn DEF SInv
  <1>11. RowsTyped'
    BY <1>6, <1>8, <1>9, <1>10 DEF SInv, RowsTyped
  <1>12. CardsPlaced'
    <2>1. \A x \in Sets : ~Live(x)' => questions'[x] = {}
      BY <1>1, <1>6, <1>8 DEF SInv, CardsPlaced, Live
    <2> QED
      BY <1>6, <2>1 DEF SInv, CardsPlaced, Live
  <1>13. RowsOrdered'
    BY <1>6 DEF SInv, RowsOrdered
  <1>14. \A x \in Tasks \ {t} : Undisturbed(x)
    <2>1. \A x \in Sets \ {s} : {c \in cards' : c.set = x} = CardsOf(x)
      BY <1>6 DEF CardsOf
    <2> QED
      BY <1>3, <1>8, <1>10, <2>1, WriteDisturbsNoOtherSet DEF SInv
  <1>15. \A i \in Jobs \ {t} : JobUndisturbed(i)
    BY <1>6, <1>9 DEF JobUndisturbed
  <1>16. nextId <= nextId' /\ v.pos <= nextId'
    BY <1>3, <1>4, <1>6 DEF SInv, RowsTyped
  <1>17. /\ "done" \notin Unwritten \cup Appending \cup Mirroring
         /\ "list" \notin Unwritten \cup Appending /\ "list" \in Mirroring
         /\ "insert" \in Unwritten
    BY DEF Unwritten, Appending, Mirroring
  <1>18. v.alone => questions'[s] = {t}
    BY <1>1, <1>2, <1>4, <1>8 DEF TaskFine, s
  <1>19. TaskFine(t)'
    BY <1>4, <1>7, <1>10, <1>16, <1>17, <1>18 DEF TaskFine
  <1>20. ASSUME t \in Jobs PROVE JobFine(t)' /\ CardsFine(t)'
    <2>1. /\ job[t] # None /\ job[t] \in JobRow /\ job[t].imported <= made[t]
          /\ job[t].status # "done" /\ CardsFine(t)
          /\ job[t].status \in {"pending", "failed"} => job[t].imported = 0
      BY <1>1, <1>20, JobAtWork
    <2>2. job[t].imported <= made'[t] /\ made'[t] = Rows - v.left
      <3>1. made[t] \in 0..Rows /\ job[t].imported \in Nat
        BY <1>20, <2>1 DEF SInv, RowsTyped, JobRow
      <3> QED
        BY <1>1, <1>4, <1>9, <1>20, <2>1, <3>1
    <2>3. JobFine(t)'
      BY <1>4, <1>6, <1>7, <1>10, <2>1, <2>2 DEF JobFine
    <2>4. CardsFine(t)'
      BY <1>1, <1>2, <1>4, <1>6, <1>7, <1>10, <1>17, <2>1 DEF CardsFine
    <2> QED
      BY <2>3, <2>4
  <1> QED
    BY <1>11, <1>12, <1>13, <1>14, <1>15, <1>16, <1>19, <1>20, Closing DEF Frame

LEMMA MirrorCardsKeeps ==
    ASSUME SInv, NEW t \in Tasks, MirrorCards(t)
    PROVE  SInv'
  <1> DEFINE s == task[t].set
             K == {c \in cards : c.set # s \/ c.id \notin {d.id : d \in task[t].seen}}
             v == [task[t] EXCEPT !.pc = "done"]
  <1>1. task[t].pc = "mirror" /\ Live(s) /\ Room(Rows) /\ Rows \in Nat
    BY ContentConstants DEF MirrorCards, At
  <1>2. Active(t) /\ task[t] \in Work /\ TaskFine(t)
    BY <1>1, TaskIsWork DEF SInv
  <1>3. s \in Sets /\ task[t].pos <= nextId
    BY <1>2 DEF Work, TaskFine
  <1>4. /\ v \in Work /\ v.pc = "done" /\ v.pos = task[t].pos /\ v.left = task[t].left
        /\ v.set = s /\ v.alone = task[t].alone /\ v.kind = task[t].kind
    BY <1>2 DEF Work
  <1>5. task' = [Others(s, t) EXCEPT ![t] = v]
    <2>1. Others(s, t)[t] = task[t]
      BY <1>3, OthersFacts DEF SInv
    <2> QED
      BY <2>1, <1>2 DEF MirrorCards, Work
  <1>6. /\ cards' = K \cup NewCards(t, s, Rows, 0) /\ nextId' = nextId + Rows
        /\ UNCHANGED <<shelf, questions>> /\ UNCHANGED <<job, files, made, lost>>
    BY DEF MirrorCards
  <1>7. /\ "done" \notin Unwritten \cup Appending \cup Mirroring
        /\ "mirror" \in Mirroring
    BY DEF Unwritten, Appending, Mirroring
  <1>8. t \in Jobs => \A c \in cards : c.by # t
    BY <1>1, <1>7, JobAtWork DEF CardsFine
  <1>9. K \in SUBSET cards /\ (\A c \in cards : c.set # s => c \in K)
    OBVIOUS
  <1>10. task[t].alone => questions[s] = {t} /\ (\A c \in K : c.set # s)
    <2>1. SUFFICES ASSUME task[t].alone
                   PROVE  questions[s] = {t} /\ (\A c \in K : c.set # s)
      OBVIOUS
    <2>2. questions[s] = {t} /\ task[t].seen = CardsOf(s)
      BY <1>1, <1>2, <1>7, <2>1 DEF TaskFine
    <2> QED
      BY <2>2 DEF CardsOf
  <1>11. \A c \in NewCards(t, s, Rows, 0) : c.by = t
    BY DEF NewCards
  <1> HIDE DEF s, K, v
  <1>12. /\ cards' \subseteq Card /\ nextId' \in 1..(MaxCards + 1) /\ nextId <= nextId'
         /\ CardsPlaced' /\ RowsOrdered'
         /\ \A c \in cards' : c \in cards \/ c.by = t
         /\ \A x \in Sets \ {s} : {c \in cards' : c.set = x} = CardsOf(x)
    <2>1. /\ 0 \in Nat /\ 0 <= nextId /\ t \in Tasks \cup {None}
          /\ t \in Jobs => \A c \in K : c.by = t => c.pos < 0
      BY <1>8, <1>9 DEF SInv, RowsTyped
    <2> QED
      BY <1>1, <1>3, <1>6, <1>9, <2>1, AddCards
  <1>13. /\ task' \in [Tasks -> {Idle} \cup Work] /\ task'[t] = v
         /\ \A x \in Tasks \ {t} : task'[x] = Others(s, t)[x]
         /\ Active(t)'
    BY <1>3, <1>4, <1>5, WriterGoesOn DEF SInv
  <1>14. RowsTyped'
    BY <1>6, <1>12, <1>13 DEF SInv, RowsTyped
  <1>15. \A x \in Tasks \ {t} : Undisturbed(x)
    BY <1>3, <1>6, <1>12, <1>13, WriteDisturbsNoOtherSet DEF SInv
  <1>16. \A i \in Jobs \ {t} : JobUndisturbed(i)
    BY <1>6, <1>12 DEF JobUndisturbed
  <1>17. v.pos <= nextId'
    <2>1. nextId \in Nat /\ v.pos \in Nat
      BY <1>4 DEF SInv, RowsTyped, Work
    <2> QED
      BY <1>1, <1>3, <1>4, <1>6, <2>1
  <1>18. v.alone => questions'[s] = {t} /\ \A c \in cards' : c.set = s => c.by = t
    BY <1>4, <1>6, <1>10, <1>11
  <1>19. TaskFine(t)'
    BY <1>4, <1>7, <1>13, <1>17, <1>18 DEF TaskFine, CardsOf
  <1>20. ASSUME t \in Jobs PROVE JobFine(t)' /\ CardsFine(t)'
    <2>1. /\ job[t] # None /\ job[t].imported <= made[t] /\ job[t].status # "done"
          /\ made[t] = Rows - task[t].left /\ CardsFine(t)
          /\ job[t].status \in {"pending", "failed"} => job[t].imported = 0
      BY <1>1, <1>20, JobAtWork
    <2>2. JobFine(t)'
      BY <1>4, <1>6, <1>13, <2>1 DEF JobFine
    <2>3. CardsFine(t)'
      BY <1>4, <1>6, <1>7, <1>13, <2>1 DEF CardsFine
    <2> QED
      BY <2>2, <2>3
  <1> QED
    BY <1>12, <1>14, <1>15, <1>16, <1>19, <1>20, Closing DEF Frame

LEMMA RestartKeeps ==
    ASSUME SInv, Restart
    PROVE  SInv'
  <1>1. /\ task' = [t \in Tasks |-> Idle] /\ lost' = lost \cup {j \in Jobs : Active(j)}
        /\ UNCHANGED <<shelf, cards, nextId, questions, job, files, made>>
    BY DEF Restart, tables
  <1>2. RowsTyped'
    BY <1>1 DEF SInv, RowsTyped
  <1>3. CardsPlaced'
    BY <1>1 DEF SInv, CardsPlaced, Live
  <1>4. RowsOrdered'
    BY <1>1 DEF SInv, RowsOrdered
  <1>5. \A t \in Tasks : ~Active(t)'
    BY <1>1 DEF Active
  <1>6. \A t \in Tasks : TaskFine(t)'
    BY <1>5 DEF TaskFine
  <1>7. \A j \in Jobs : JobFine(j)' /\ CardsFine(j)'
    <2>1. SUFFICES ASSUME NEW j \in Jobs PROVE JobFine(j)' /\ CardsFine(j)'
      OBVIOUS
    <2>2. ~Active(j)' /\ JobFine(j) /\ CardsFine(j)
      BY <1>5, JobsAreTasks DEF SInv
    <2>3. JobFine(j)'
      BY <1>1, <2>2 DEF JobFine
    <2>4. CardsFine(j)'
      BY <1>1, <2>2 DEF CardsFine, JobFine
    <2> QED
      BY <2>3, <2>4
  <1> QED
    BY <1>2, <1>3, <1>4, <1>6, <1>7 DEF SInv
-----------------------------------------------------------------------------
(* The theorems.                                                           *)

LEMMA SInvInit == ContentInit => SInv
  <1>1. SUFFICES ASSUME ContentInit PROVE SInv
    OBVIOUS
  <1>2. 1 \in 1..(MaxCards + 1) /\ 0 \in 0..Rows
    BY ContentConstants
  <1>3. RowsTyped
    BY <1>1, <1>2 DEF ContentInit, RowsTyped
  <1>4. CardsPlaced /\ RowsOrdered
    BY <1>1 DEF ContentInit, CardsPlaced, RowsOrdered, Live
  <1>5. \A t \in Tasks : ~Active(t)
    BY <1>1 DEF ContentInit, Active
  <1>6. \A t \in Tasks : TaskFine(t)
    BY <1>5 DEF TaskFine
  <1>7. \A j \in Jobs : JobFine(j) /\ CardsFine(j)
    BY <1>1, <1>5, JobsAreTasks DEF ContentInit, JobFine, CardsFine
  <1> QED
    BY <1>3, <1>4, <1>6, <1>7 DEF SInv

LEMMA SInvStep == SInv /\ [ContentNext]_contentVars => SInv'
  <1>1. SUFFICES ASSUME SInv, [ContentNext]_contentVars PROVE SInv'
    OBVIOUS
  <1>2. CASE EditNext
    <2>1. CASE \E s \in Sets : CreateCard(s) \/ DeleteQuestions(s) \/ DeleteSet(s) \/ Moderate(s)
      BY <1>1, <2>1, CreateCardKeeps, DeleteQuestionsKeeps, DeleteSetKeeps, ModerateKeeps
    <2>2. CASE \E s \in Sets : \E c \in CardsOf(s), pos \in 0..1 : BulkSaveCards(s, {c}, {}, pos)
      BY <1>1, <2>2, BulkSaveCardsKeeps
    <2>3. CASE \E c \in cards : DeleteCard(c)
      BY <1>1, <2>3, DeleteCardKeeps
    <2> QED
      BY <1>2, <2>1, <2>2, <2>3 DEF EditNext
  <1>3. CASE JobNext
    <2>1. CASE \E j \in Jobs, s \in Sets, kind \in {"flashcard", "quiz"} : Enqueue(j, s, kind)
      BY <1>1, <2>1, EnqueueKeeps
    <2>2. ASSUME NEW j \in Jobs,
                 \/ Put(j) \/ PutFails(j) \/ SetImportFile(j) \/ SetImportFileFails(j)
                 \/ MarkRunning(j) \/ OpenFile(j)
                 \/ NextFlashcardPosition(j) \/ Flush(j) \/ ReportProgress(j)
                 \/ FailJob(j) \/ Finish(j) \/ Cleanup(j)
          PROVE  SInv'
      BY <1>1, <2>2, PutKeeps, SetImportFileKeeps, SetImportFileFailsKeeps,
         MarkRunningKeeps, OpenFileKeeps,
         NextFlashcardPositionKeeps, FlushKeeps, ReportProgressKeeps, FailJobKeeps,
         FinishKeeps, CleanupKeeps
    <2> QED
      BY <1>3, <2>1, <2>2 DEF JobNext
  <1>4. CASE SaveNext
    <2>1. CASE \E r \in Requests, s \in Sets, kind \in {"save", "quiz", "flashcard"} :
                  Begin(r, kind, s)
      BY <1>1, <2>1, BeginKeeps
    <2>2. CASE \E r \in Requests : CountCards(r) \/ AppendAll(r) \/ Answered(r)
      BY <1>1, <2>2, CountCardsKeeps, AppendAllKeeps, AnsweredKeeps
    <2>3. CASE \E t \in Tasks :
                  ReplaceDelete(t) \/ ReplaceInsert(t) \/ ListCards(t) \/ MirrorCards(t)
      BY <1>1, <2>3, ReplaceDeleteKeeps, ReplaceInsertKeeps, ListCardsKeeps, MirrorCardsKeeps
    <2> QED
      BY <1>4, <2>1, <2>2, <2>3 DEF SaveNext
  <1>5. CASE Restart
    BY <1>1, <1>5, RestartKeeps
  <1>6. CASE UNCHANGED contentVars
    BY <1>1, <1>6 DEF contentVars, SInv, RowsTyped, CardsPlaced, RowsOrdered, TaskFine,
       JobFine, CardsFine, Active, Live, CardsOf
  <1> QED
    BY <1>1, <1>2, <1>3, <1>4, <1>5, <1>6 DEF ContentNext

LEMMA SInvAlways == ContentSpec => []SInv
  BY SInvInit, SInvStep, PTL DEF ContentSpec

LEMMA SInvTyped == SInv => ContentTypeOK
  <1>1. SUFFICES ASSUME SInv PROVE ContentTypeOK
    OBVIOUS
  <1>2. RowsTyped /\ CardsPlaced /\ MaxCards \in Nat /\ Rows \in Nat
    BY <1>1, ContentConstants DEF SInv
  <1>3. cards \subseteq [id : 1..(nextId - 1), set : {s \in Sets : Live(s)},
                         pos : 0..(2 * MaxCards), by : Tasks \cup {None}]
    <2>1. SUFFICES ASSUME NEW c \in cards
                   PROVE  c \in [id : 1..(nextId - 1), set : {s \in Sets : Live(s)},
                                 pos : 0..(2 * MaxCards), by : Tasks \cup {None}]
      OBVIOUS
    <2>2. c \in Card /\ c.id < nextId /\ c.pos < nextId /\ Live(c.set)
          /\ nextId \in 1..(MaxCards + 1)
      BY <1>2 DEF RowsTyped, CardsPlaced
    <2>3. c.id \in 1..MaxCards /\ c.pos \in Nat
      BY <2>2 DEF Card
    <2>4. c.id \in 1..(nextId - 1) /\ c.pos \in 0..(2 * MaxCards)
      BY <2>2, <2>3, <1>2
    <2> QED
      BY <2>2, <2>4 DEF Card
  <1>4. Cardinality({c.id : c \in cards}) = Cardinality(cards)
    <2>1. cards \in SUBSET cards
      OBVIOUS
    <2> QED
      BY <2>1, <1>2, CountBound
  <1>5. \A s \in Sets : questions[s] \subseteq Tasks /\ (~Live(s) => questions[s] = {})
    BY <1>2 DEF RowsTyped, CardsPlaced
  <1>6. \A j \in Jobs : job[j] # None =>
            job[j].status \in {"pending", "running", "done", "failed", "gone"}
    BY <1>2, JobIsRow DEF JobRow
  <1>7. \A t \in Tasks : Active(t) => task[t].left \in 0..Rows
    BY <1>2, TaskIsWork DEF Work
  <1> QED
    BY <1>2, <1>3, <1>4, <1>5, <1>6, <1>7 DEF ContentTypeOK, RowsTyped

\* Types; a job which nobody works on has ended, unless its goroutine or its
\* last update was lost or the request could not record its upload, and a
\* worker finds its upload, over every error path of EnqueueFlashcards,
\* EnqueueQuiz and of the workers.
THEOREM JobsEnd == ContentSpec => []UnfinishedHasWorker
  <1>1. SInv => UnfinishedHasWorker
    <2>1. SUFFICES ASSUME SInv PROVE UnfinishedHasWorker
      OBVIOUS
    <2>2. \A j \in Jobs : JobFine(j)
      BY <2>1 DEF SInv
    <2> QED
      BY <2>1, <2>2, SInvTyped DEF UnfinishedHasWorker, JobFine
  <1> QED
    BY <1>1, SInvAlways, PTL

\* The count that import_jobs shows is never ahead of the committed rows,
\* exact when the job is done and 0 when it has failed.
THEOREM ReportsAreTrue == ContentSpec => []ImportReported
  <1>1. SInv => ImportReported
    BY DEF SInv, ImportReported, JobFine
  <1> QED
    BY <1>1, SInvAlways, PTL

\* Over all its chunks, a worker's cards keep the order of the file.
THEOREM ImportedInOrder == ContentSpec => []RowOrderKept
  <1>1. SInv => RowOrderKept
    <2>1. SUFFICES ASSUME SInv, NEW c \in cards, NEW d \in cards,
                          c.by # None, c.by = d.by, c.id < d.id
                   PROVE  c.pos < d.pos \/ c.by \in Requests
      BY DEF RowOrderKept
    <2>2. c.by \in Jobs \/ c.by \in Requests
      BY <2>1 DEF SInv, RowsTyped, Card, Tasks
    <2> QED
      BY <2>1, <2>2 DEF SInv, RowsOrdered
  <1> QED
    BY <1>1, SInvAlways, PTL

\* When a quiz import that still has its set to itself has made both of its
\* replacements, the set holds its questions and their mirrors and nothing
\* else.
THEOREM MirrorsMatchQuestions == ContentSpec => []QuizMirrored
  <1>1. SInv => QuizMirrored
    <2>1. SUFFICES ASSUME SInv, NEW t \in Tasks, At(t, "done"), task[t].kind = "quiz",
                          task[t].alone
                   PROVE  \/ /\ questions[task[t].set] = {t}
                             /\ \A c \in CardsOf(task[t].set) : c.by = t
                          \/ task[t].left = Rows
      BY DEF QuizMirrored
    <2>2. task[t].pc = "done" /\ TaskFine(t)
      BY <2>1 DEF At, SInv
    <2>3. Active(t)
      BY <2>1, <2>2, TaskIsWork DEF SInv
    <2> QED
      BY <2>1, <2>2, <2>3 DEF TaskFine
  <1> QED
    BY <1>1, SInvAlways, PTL
=============================================================================
