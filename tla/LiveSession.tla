---------------------------- MODULE LiveSession -----------------------------
(***************************************************************************)
(* One live quiz session of the quiz service.  The row in live_sessions is *)
(* the truth; host requests and auto-close timers read it, decide, and     *)
(* write it with a compare-and-swap on state_version.  Only after the      *)
(* write do they update the current question in Redis, add the domain      *)
(* event to the outbox and arm or cancel the timer, each in its own step,  *)
(* and a restart can fall between any two of them.                         *)
(***************************************************************************)
EXTENDS Integers, FiniteSets

CONSTANTS
    QuestionCount,  \* questions of the frozen snapshot
    Commands,       \* concurrent host requests
    MaxRestarts,    \* bound on the restarts of the service
    MaxFailures     \* bound on the database and Redis calls that fail

ASSUME LiveConstants ==
    /\ QuestionCount \in Nat \ {0}
    /\ MaxRestarts \in Nat
    /\ MaxFailures \in Nat

Questions == 0..(QuestionCount - 1)
NoQuestion == -1
QuestionOrNone == Questions \cup {NoQuestion}

Status == {"LOBBY", "QUESTION_OPEN", "QUESTION_CLOSED", "ENDED"}
SessionRow == [status : Status, idx : QuestionOrNone, version : Nat \ {0}]

Ops == {"start", "close", "next", "end"}

VARIABLES
    session,        \* the row: status, current_question_index, state_version
    question,       \* index of the current question kept in Redis
    events,         \* domain events in the outbox, <<type, question>>
    command,        \* state of every host request
    timer,          \* the timer scheduled for every question, and its callback
    registered,     \* the timer the scheduler's map holds for the session
    recovered,      \* question whose timer the last restart restored
    restarts,       \* restarts so far
    failures        \* failed calls so far

liveVars == <<session, question, events, command, timer, registered, recovered, restarts, failures>>

NoCommand == [pc |-> "idle"]
CommandState ==
    [pc : {"idle"}] \cup
    [pc : {"read", "finalized", "written", "done"}, op : Ops, seen : SessionRow]

TimerState ==
    [pc : {"off", "armed", "fired", "open", "cancel"}] \cup
    [pc : {"closing", "finalized", "written"}, seen : SessionRow]

Off == [pc |-> "off"]

Events == {"started", "opened", "closed", "ended"} \X QuestionOrNone

LiveInit ==
    /\ session = [status |-> "LOBBY", idx |-> NoQuestion, version |-> 1]
    /\ question = NoQuestion
    /\ events = {}
    /\ command = [c \in Commands |-> NoCommand]
    /\ timer = [k \in Questions |-> Off]
    /\ registered = NoQuestion
    /\ recovered = NoQuestion
    /\ restarts = 0
    /\ failures = 0

-----------------------------------------------------------------------------
(* Pieces shared by the handlers.                                          *)

\* Mutant of Allowed: next does not check that a question is left.
AllowedPastEnd(op, row) ==
    \/ op = "start" /\ row.status = "LOBBY"
    \/ op = "close" /\ row.status = "QUESTION_OPEN"
    \/ op = "next"  /\ row.status = "QUESTION_CLOSED"
    \/ op = "end"   /\ row.status # "ENDED"

\* StateTransition, restricted to states a handler passes to it, together with
\* the index check of NextQuestion.
Allowed(op, row) ==
    \/ op = "start" /\ row.status = "LOBBY"
    \/ op = "close" /\ row.status = "QUESTION_OPEN"
    \/ op = "next"  /\ row.status = "QUESTION_CLOSED" /\ row.idx + 1 \in Questions
    \/ op = "end"   /\ row.status # "ENDED"

\* A close or an end that finds its work done answers at once.
AlreadyDone(op, row) ==
    \/ op = "close" /\ row.status = "QUESTION_CLOSED"
    \/ op = "end" /\ row.status = "ENDED"

\* The row an allowed command writes over the row it has seen.
After(op, row) ==
    [status  |-> CASE op \in {"start", "next"} -> "QUESTION_OPEN"
                   [] op = "close" -> "QUESTION_CLOSED"
                   [] op = "end" -> "ENDED",
     idx     |-> IF op \in {"start", "next"} THEN row.idx + 1 ELSE row.idx,
     version |-> row.version + 1]

\* Mutant of CasMatches: the version is not compared.
CasMatchesAnyVersion(row) == session.status # "ENDED"

\* WHERE state_version = $5 AND status != 'ENDED'.
CasMatches(row) == session.version = row.version /\ session.status # "ENDED"

\* What publishEvent adds for an operation that left the row at index k.
Published(op, k) ==
    CASE op = "start" -> {<<"started", NoQuestion>>, <<"opened", k>>}
      [] op = "next"  -> {<<"opened", k>>}
      [] op = "close" -> {<<"closed", k>>}
      [] op = "end"   -> {<<"ended", NoQuestion>>}

\* A call whose failure is only logged succeeds, or uses up a failure.
Tolerated(ok) ==
    /\ ok \/ failures < MaxFailures
    /\ failures' = IF ok THEN failures ELSE failures + 1

\* Stop of the registered timer; a callback that fired already runs on.
Stopped == [k \in Questions |->
              IF k = registered /\ timer[k].pc = "armed" THEN Off ELSE timer[k]]

\* Mutant of ScheduleAutoClose: the old timer is replaced without being stopped.
ScheduleWithoutStop(k) ==
    /\ timer' = [timer EXCEPT ![k] = [pc |-> "armed"]]
    /\ registered' = k

\* ScheduleAutoClose for the question just opened.
ScheduleAutoClose(k) ==
    /\ timer' = [Stopped EXCEPT ![k] = [pc |-> "armed"]]
    /\ registered' = k

-----------------------------------------------------------------------------
(* Host requests: StartSession, CloseQuestion, NextQuestion, EndSession    *)
(* and the HTTP handlers around them.  Requests of other users are refused *)
(* before they change anything.                                            *)

\* GetSession and the checks on what it returned.
CommandRead(c, op) ==
    /\ command[c] = NoCommand
    /\ \/ /\ Allowed(op, session)
          /\ command' = [command EXCEPT ![c] = [pc |-> "read", op |-> op, seen |-> session]]
       \/ /\ AlreadyDone(op, session)
          /\ command' = [command EXCEPT ![c] = [pc |-> "done", op |-> op, seen |-> session]]
    /\ UNCHANGED <<session, question, events, timer, registered, recovered, restarts, failures>>

\* FinalizeScores, before the row is written; start and next have none.
CommandFinalize(c) ==
    /\ command[c].pc = "read"
    /\ command' = [command EXCEPT ![c].pc = "finalized"]
    /\ UNCHANGED <<session, question, events, timer, registered, recovered, restarts, failures>>

\* UpdateSessionCAS; a lost race is answered with ErrInvalidState.
CommandWrite(c) ==
    /\ command[c].pc = "finalized"
    /\ IF CasMatches(command[c].seen)
         THEN /\ session' = After(command[c].op, command[c].seen)
              /\ command' = [command EXCEPT ![c].pc = "written"]
         ELSE /\ command' = [command EXCEPT ![c] = NoCommand]
              /\ UNCHANGED session
    /\ UNCHANGED <<question, events, timer, registered, recovered, restarts, failures>>

\* UpdateSessionCAS returns an error instead, because the database is away or
\* the client has gone and the request's context with it.  The update may have
\* been applied all the same; nothing that follows it is done.
CommandFail(c, applied) ==
    /\ command[c].pc = "finalized"
    /\ failures < MaxFailures
    /\ failures' = failures + 1
    /\ session' = IF applied /\ CasMatches(command[c].seen)
                    THEN After(command[c].op, command[c].seen) ELSE session
    /\ command' = [command EXCEPT ![c] = NoCommand]
    /\ UNCHANGED <<question, events, timer, registered, recovered, restarts>>

\* The Redis question (start and next) and the outbox events.  Every one of
\* these writes may fail, and the failure is only logged.
CommandProject(c, stored, published) ==
    LET op == command[c].op
        k  == After(op, command[c].seen).idx
    IN  /\ command[c].pc = "written"
        /\ question' = IF stored /\ op \in {"start", "next"} THEN k ELSE question
        /\ events' = IF published THEN events \cup Published(op, k) ELSE events
        /\ Tolerated(stored /\ published)
        /\ command' = [command EXCEPT ![c].pc = "done"]
        /\ UNCHANGED <<session, timer, registered, recovered, restarts>>

\* Back in the HTTP handler: ScheduleAutoClose or CancelTimer, then the answer.
CommandTimer(c) ==
    /\ command[c].pc = "done"
    /\ IF command[c].op \in {"start", "next"}
         THEN ScheduleAutoClose(After(command[c].op, command[c].seen).idx)
         ELSE timer' = Stopped /\ registered' = NoQuestion
    /\ command' = [command EXCEPT ![c] = NoCommand]
    /\ UNCHANGED <<session, question, events, recovered, restarts, failures>>

-----------------------------------------------------------------------------
(* The auto-close callback.                                                *)

TimerFire(k) ==
    /\ timer[k].pc = "armed"
    /\ timer' = [timer EXCEPT ![k] = [pc |-> "fired"]]
    /\ UNCHANGED <<session, question, events, command, registered, recovered, restarts, failures>>

\* GetSession: whichever question is open now is the one that will be closed.
CallbackCheck(k) ==
    /\ timer[k].pc = "fired"
    /\ timer' = [timer EXCEPT ![k] =
          [pc |-> IF session.status = "QUESTION_OPEN" THEN "open" ELSE "cancel"]]
    /\ UNCHANGED <<session, question, events, command, registered, recovered, restarts, failures>>

\* CloseQuestion reads the row again.
CallbackRead(k) ==
    /\ timer[k].pc = "open"
    /\ timer' = [timer EXCEPT ![k] =
          IF Allowed("close", session) THEN [pc |-> "closing", seen |-> session]
                                       ELSE [pc |-> "cancel"]]
    /\ UNCHANGED <<session, question, events, command, registered, recovered, restarts, failures>>

CallbackFinalize(k) ==
    /\ timer[k].pc = "closing"
    /\ timer' = [timer EXCEPT ![k].pc = "finalized"]
    /\ UNCHANGED <<session, question, events, command, registered, recovered, restarts, failures>>

CallbackWrite(k) ==
    /\ timer[k].pc = "finalized"
    /\ IF CasMatches(timer[k].seen)
         THEN /\ session' = After("close", timer[k].seen)
              /\ timer' = [timer EXCEPT ![k].pc = "written"]
         ELSE /\ timer' = [timer EXCEPT ![k] = [pc |-> "cancel"]]
              /\ UNCHANGED session
    /\ UNCHANGED <<question, events, command, registered, recovered, restarts, failures>>

\* A read or the update of the callback fails, or its ten seconds are over:
\* the error is logged and the close is not tried again.
CallbackFail(k, applied) ==
    /\ timer[k].pc \in {"fired", "open", "finalized"}
    /\ failures < MaxFailures
    /\ failures' = failures + 1
    /\ session' = IF applied /\ timer[k].pc = "finalized" /\ CasMatches(timer[k].seen)
                    THEN After("close", timer[k].seen) ELSE session
    /\ timer' = [timer EXCEPT ![k] = [pc |-> "cancel"]]
    /\ UNCHANGED <<question, events, command, registered, recovered, restarts>>

CallbackProject(k, published) ==
    /\ timer[k].pc = "written"
    /\ events' = IF published THEN events \cup Published("close", timer[k].seen.idx) ELSE events
    /\ Tolerated(published)
    /\ timer' = [timer EXCEPT ![k] = [pc |-> "cancel"]]
    /\ UNCHANGED <<session, question, command, registered, recovered, restarts>>

\* The deferred CancelTimer stops whatever timer the map holds by now.
CallbackCancel(k) ==
    /\ timer[k].pc = "cancel"
    /\ timer' = [Stopped EXCEPT ![k] = Off]
    /\ registered' = NoQuestion
    /\ UNCHANGED <<session, question, events, command, recovered, restarts, failures>>

-----------------------------------------------------------------------------
(* Restart: requests, timers and callbacks are gone; RecoverSessions and   *)
(* main rebuild the Redis question and the timer of an open question.      *)

\* Mutant of Rearm: recovery restores Redis only.
RearmNothing(k) == Off

Rearm(k) == IF session.status = "QUESTION_OPEN" /\ session.idx = k THEN [pc |-> "armed"] ELSE Off

\* When the sessions cannot be read, the service starts without them; a Redis
\* write that fails is ignored.
Restart(loaded, stored) ==
    /\ restarts < MaxRestarts
    /\ restarts' = restarts + 1
    /\ command' = [c \in Commands |-> NoCommand]
    /\ IF loaded /\ session.status = "QUESTION_OPEN"
         THEN /\ question' = IF stored THEN session.idx ELSE question
              /\ timer' = [k \in Questions |-> Rearm(k)]
              /\ registered' = session.idx
              /\ recovered' = session.idx
         ELSE /\ timer' = [k \in Questions |-> Off]
              /\ registered' = NoQuestion
              /\ recovered' = NoQuestion
              /\ UNCHANGED question
    /\ UNCHANGED <<session, events, failures>>

-----------------------------------------------------------------------------
\* Steps in which FinalizeScores runs, and the others of requests and callbacks.
FinalizeStep ==
    \/ \E c \in Commands : CommandFinalize(c) /\ command[c].op \in {"close", "end"}
    \/ \E k \in Questions : CallbackFinalize(k)

OtherStep ==
    \/ \E c \in Commands, op \in Ops : CommandRead(c, op)
    \/ \E c \in Commands : CommandFinalize(c) /\ command[c].op \in {"start", "next"}
    \/ \E c \in Commands : CommandWrite(c)
    \/ \E c \in Commands, applied \in BOOLEAN : CommandFail(c, applied)
    \/ \E c \in Commands, stored, published \in BOOLEAN : CommandProject(c, stored, published)
    \/ \E c \in Commands : CommandTimer(c)
    \/ \E k \in Questions : TimerFire(k)
    \/ \E k \in Questions : CallbackCheck(k)
    \/ \E k \in Questions : CallbackRead(k)
    \/ \E k \in Questions : CallbackWrite(k)
    \/ \E k \in Questions, applied \in BOOLEAN : CallbackFail(k, applied)
    \/ \E k \in Questions, published \in BOOLEAN : CallbackProject(k, published)
    \/ \E k \in Questions : CallbackCancel(k)

LiveNext ==
    \/ FinalizeStep
    \/ OtherStep
    \/ \E loaded, stored \in BOOLEAN : Restart(loaded, stored)

LiveSpec == LiveInit /\ [][LiveNext]_liveVars

\* Go runs an armed timer and its callback, and a request once it has begun,
\* to their end; which requests the host sends, and when, is left open.
LiveFairness ==
    /\ \A k \in Questions :
         /\ WF_liveVars(TimerFire(k))
         /\ WF_liveVars(CallbackCheck(k))
         /\ WF_liveVars(CallbackRead(k))
         /\ WF_liveVars(CallbackFinalize(k))
         /\ WF_liveVars(CallbackWrite(k))
         /\ WF_liveVars(\E published \in BOOLEAN : CallbackProject(k, published))
         /\ WF_liveVars(CallbackCancel(k))
    /\ \A c \in Commands :
         /\ WF_liveVars(CommandFinalize(c))
         /\ WF_liveVars(CommandWrite(c))
         /\ WF_liveVars(\E stored, published \in BOOLEAN : CommandProject(c, stored, published))
         /\ WF_liveVars(CommandTimer(c))

LiveFairSpec == LiveSpec /\ LiveFairness

-----------------------------------------------------------------------------
\* Every variable holds a value of its kind.
LiveTypeOK ==
    /\ session \in SessionRow
    /\ question \in QuestionOrNone
    /\ events \subseteq Events
    /\ command \in [Commands -> CommandState]
    /\ timer \in [Questions -> TimerState]
    /\ registered \in QuestionOrNone
    /\ recovered \in QuestionOrNone
    /\ restarts \in 0..MaxRestarts
    /\ failures \in 0..MaxFailures

Quiz == INSTANCE LiveQuiz WITH status <- session.status, current <- session.idx

\* However host requests, auto-close callbacks, failed updates and restarts
\* interleave, the row goes through the quiz in order: the compare-and-swap
\* lets a decision taken on an old row change nothing.
ImplementsLiveQuiz == Quiz!QuizSpec

\* Every timer that can still fire is the one the scheduler's map holds, so
\* that closing or ending the session stops it.
NoOrphanTimer == \A k \in Questions : timer[k].pc = "armed" => registered = k

\* What is published or shown in Redis has happened to the row before: the
\* question shown was opened, and so were those announced as opened or closed;
\* an announced end is final.
ProjectionsTrailRow ==
    /\ question <= session.idx
    /\ \A e \in events :
         /\ e[1] \in {"opened", "closed"} => e[2] <= session.idx
         /\ e[1] = "closed" => (e[2] < session.idx \/ session.status # "QUESTION_OPEN")
         /\ e[1] = "ended" => session.status = "ENDED"

OpenAt(k) == session.status = "QUESTION_OPEN" /\ session.idx = k

\* A question that recovery found open is closed in the end, by the host or by
\* the restored timer, unless a later restart cannot load the session or a
\* call to the database or to Redis fails.
RecoveredQuestionCloses ==
    \A k \in Questions :
      (recovered = k /\ OpenAt(k)) ~> (~OpenAt(k) \/ recovered # k \/ failures > 0)

\* Every question is closed in the end once it is open: "ScheduleAutoClose sets
\* up a timer to auto-close a question after its duration".
QuestionEventuallyCloses == \A k \in Questions : OpenAt(k) ~> ~OpenAt(k)
=============================================================================
