------------------------- MODULE LiveAnswersProofs --------------------------
(***************************************************************************)
(* The live session implements the live quiz, and its answers are counted  *)
(* once, for every number of questions, host requests, restarts, failures, *)
(* players and submissions.                                                *)
(*                                                                         *)
(* Requests and callbacks act on a row they read earlier.  LInv says what  *)
(* an old read is worth: as long as its version is the current one it is   *)
(* the current row, so an update that passes the compare-and-swap was      *)
(* decided on the row it changes.                                          *)
(*                                                                         *)
(* Totals and leaderboard are compared with a sum over the answers, so the *)
(* module shows what such a sum does when an answer is added: the          *)
(* induction over the set is carried out with a least counterexample.      *)
(* AInv then says which answers have reached the leaderboard: all but      *)
(* those whose submission has committed and not yet projected them.        *)
(***************************************************************************)
EXTENDS LiveAnswers, FiniteSetTheorems, NaturalsInduction, WellFoundedInduction, TLAPS

-----------------------------------------------------------------------------
(* The session.                                                            *)

\* A row read earlier is older than the row or equal to it.
Faithful(row) ==
    /\ row.version <= session.version
    /\ row.version = session.version => row = session

\* The effect of an operation decided on the given row is part of the row's past.
Trails(op, row) ==
    /\ op \in {"start", "next"} => row.idx + 1 <= session.idx
    /\ op = "close" => /\ row.idx <= session.idx
                       /\ row.idx < session.idx \/ session.status # "QUESTION_OPEN"
    /\ op = "end" => session.status = "ENDED"

Undecided(c) == command[c].pc \in {"read", "finalized"}
Closing(k) == timer[k].pc \in {"closing", "finalized"}

\* What a request, and a callback, relies on.
CommandFaithful(c) ==
    /\ Undecided(c) => Faithful(command[c].seen) /\ Allowed(command[c].op, command[c].seen)
    /\ command[c].pc = "written" => Trails(command[c].op, command[c].seen)
    /\ command[c].pc # "idle" /\ command[c].op \in {"start", "next"} => command[c].seen.idx + 1 \in Questions
CallbackFaithful(k) ==
    /\ Closing(k) => Faithful(timer[k].seen) /\ Allowed("close", timer[k].seen)
    /\ timer[k].pc = "written" => Trails("close", timer[k].seen)

\* Before the first question there is no index; an open question has one.
RowConsistent ==
    /\ session.status = "LOBBY" => session.idx = NoQuestion
    /\ session.status \in {"QUESTION_OPEN", "QUESTION_CLOSED"} => session.idx \in Questions

LInv ==
    /\ LiveTypeOK
    /\ RowConsistent
    /\ \A c \in Commands : CommandFaithful(c)
    /\ \A k \in Questions : CallbackFaithful(k)
    /\ NoOrphanTimer
    /\ ProjectionsTrailRow

-----------------------------------------------------------------------------
\* The constants as integer intervals, the form the arithmetic below needs.
LEMMA IndexArithmetic ==
    /\ QuestionCount \in Nat \ {0}
    /\ QuestionOrNone = -1..(QuestionCount - 1)
    /\ Questions = 0..(QuestionCount - 1)
    /\ NoQuestion = -1
  BY LiveConstants DEF QuestionOrNone, Questions, NoQuestion

\* The idle state is a state of a host request.
LEMMA NoCommandType == NoCommand \in CommandState
  BY DEF NoCommand, CommandState

\* A host request under way remembers its operation and the row it has seen.
LEMMA CommandFields ==
    ASSUME NEW x \in CommandState, x.pc # "idle"
    PROVE  /\ x \in [pc : {"read", "finalized", "written", "done"}, op : Ops, seen : SessionRow]
           /\ x.op \in Ops /\ x.seen \in SessionRow
  BY DEF CommandState

\* A callback under way remembers the row it has seen.
LEMMA TimerFields ==
    ASSUME NEW x \in TimerState, x.pc \in {"closing", "finalized", "written"}
    PROVE  /\ x \in [pc : {"closing", "finalized", "written"}, seen : SessionRow]
           /\ x.seen \in SessionRow
  BY DEF TimerState

\* The columns of a session row have their types.
LEMMA RowFields ==
    ASSUME NEW row \in SessionRow
    PROVE  /\ row.status \in Status
           /\ row.idx \in QuestionOrNone /\ row.idx \in Int
           /\ row.version \in Nat /\ row.version > 0
  BY IndexArithmetic DEF SessionRow

\* The row an allowed operation writes is a row.
LEMMA AfterType ==
    ASSUME NEW row \in SessionRow, NEW op \in Ops, Allowed(op, row),
           row.status = "LOBBY" => row.idx = NoQuestion
    PROVE  /\ After(op, row) \in SessionRow
           /\ After(op, row).idx = IF op \in {"start", "next"} THEN row.idx + 1 ELSE row.idx
           /\ After(op, row).version = row.version + 1
           /\ op \in {"start", "next"} => /\ After(op, row).status = "QUESTION_OPEN"
                                          /\ After(op, row).idx \in Questions
           /\ op = "close" => After(op, row).status = "QUESTION_CLOSED"
           /\ op = "end" => After(op, row).status = "ENDED"
  <1>1. CASE op = "start"
    BY <1>1, RowFields, IndexArithmetic DEF After, Allowed, SessionRow, Status
  <1>2. CASE op = "close"
    BY <1>2, RowFields, IndexArithmetic DEF After, Allowed, SessionRow, Status
  <1>3. CASE op = "next"
    BY <1>3, RowFields, IndexArithmetic DEF After, Allowed, SessionRow, Status
  <1>4. CASE op = "end"
    BY <1>4, RowFields, IndexArithmetic DEF After, Allowed, SessionRow, Status
  <1> QED BY <1>1, <1>2, <1>3, <1>4 DEF Ops

\* What any step does to the row: nothing, or one allowed operation.
RowStep ==
    \/ session' = session
    \/ \E op \in Ops : Allowed(op, session) /\ session' = After(op, session)

\* An allowed operation on the row is a step of the quiz.
LEMMA RowStepRefines ==
    ASSUME session \in SessionRow, RowConsistent, RowStep
    PROVE  [Quiz!QuizNext]_(Quiz!quizVars)
  <1>1. CASE session' = session
    BY <1>1 DEF Quiz!quizVars
  <1>2. ASSUME NEW op \in Ops, Allowed(op, session), session' = After(op, session)
        PROVE  Quiz!QuizNext
    <2>5. /\ session'.idx = IF op \in {"start", "next"} THEN session.idx + 1 ELSE session.idx
          /\ op \in {"start", "next"} => session'.status = "QUESTION_OPEN" /\ session'.idx \in Questions
          /\ op = "close" => session'.status = "QUESTION_CLOSED"
          /\ op = "end" => session'.status = "ENDED"
      BY <1>2, AfterType DEF RowConsistent
    <2>1. CASE op = "start"
      BY <1>2, <2>1, <2>5, RowFields, IndexArithmetic
      DEF Quiz!QuizNext, Quiz!Start, Allowed, RowConsistent
    <2>2. CASE op = "close"
      BY <1>2, <2>2, <2>5 DEF Quiz!QuizNext, Quiz!Close, Allowed, RowConsistent
    <2>3. CASE op = "next"
      BY <1>2, <2>3, <2>5, RowFields, IndexArithmetic
      DEF Quiz!QuizNext, Quiz!Advance, Allowed, RowConsistent
    <2>4. CASE op = "end"
      BY <1>2, <2>4, <2>5 DEF Quiz!QuizNext, Quiz!End, Allowed, RowConsistent
    <2> QED BY <1>2, <2>1, <2>2, <2>3, <2>4 DEF Ops
  <1> QED BY <1>1, <1>2 DEF RowStep

\* The row keeps its kind and its consistency, and moves forward only.
LEMMA RowStepForward ==
    ASSUME session \in SessionRow, RowConsistent, RowStep
    PROVE  /\ session' \in SessionRow
           /\ RowConsistent'
           /\ session' = session \/ session'.version = session.version + 1
           /\ session.idx <= session'.idx
           /\ session.status = "ENDED" => session'.status = "ENDED"
           /\ session.status # "QUESTION_OPEN" /\ session'.status = "QUESTION_OPEN"
                => session.idx < session'.idx
  <1>1. CASE session' = session
    BY <1>1, RowFields DEF RowConsistent
  <1>2. ASSUME NEW op \in Ops, Allowed(op, session), session' = After(op, session)
        PROVE  /\ session' \in SessionRow
               /\ RowConsistent'
               /\ session'.version = session.version + 1
               /\ session.idx <= session'.idx
               /\ session.status = "ENDED" => session'.status = "ENDED"
               /\ session.status # "QUESTION_OPEN" /\ session'.status = "QUESTION_OPEN"
                    => session.idx < session'.idx
    <2>1. session.status = "LOBBY" => session.idx = NoQuestion
      BY DEF RowConsistent
    <2>2. session.idx \in Int /\ session.status \in Status
      BY RowFields
    <2>3. /\ session' \in SessionRow
          /\ session'.version = session.version + 1
          /\ session'.idx = IF op \in {"start", "next"} THEN session.idx + 1 ELSE session.idx
          /\ op \in {"start", "next"} => session'.status = "QUESTION_OPEN" /\ session'.idx \in Questions
          /\ op = "close" => session'.status = "QUESTION_CLOSED"
          /\ op = "end" => session'.status = "ENDED"
      BY <1>2, <2>1, AfterType
    <2>4. CASE op \in {"start", "next"}
      <3>1. session.status # "ENDED"
        BY <1>2, <2>4 DEF Allowed
      <3> QED BY <2>2, <2>3, <2>4, <3>1 DEF RowConsistent
    <2>5. CASE op = "close"
      <3>1. session.status = "QUESTION_OPEN"
        BY <1>2, <2>5 DEF Allowed
      <3> QED BY <2>2, <2>3, <2>5, <3>1 DEF RowConsistent
    <2>6. CASE op = "end"
      <3>1. session.status # "ENDED"
        BY <1>2, <2>6 DEF Allowed
      <3> QED BY <2>2, <2>3, <2>6, <3>1 DEF RowConsistent
    <2> QED BY <2>4, <2>5, <2>6 DEF Ops
  <1> QED BY <1>1, <1>2 DEF RowStep

\* Reads stay faithful, and effects stay in the past, whatever step is taken.
LEMMA FaithfulKept ==
    ASSUME session \in SessionRow, RowConsistent, RowStep,
           NEW row \in SessionRow, Faithful(row)
    PROVE  row.version <= session'.version /\ (row.version = session'.version => row = session')
  BY RowStepForward, RowFields DEF Faithful

\* What an operation that has written the row will publish stays behind the
\* row, whatever row step comes in between.
LEMMA TrailsKept ==
    ASSUME session \in SessionRow, RowConsistent, RowStep,
           NEW row \in SessionRow, NEW op \in Ops, Trails(op, row)
    PROVE  /\ op \in {"start", "next"} => row.idx + 1 <= session'.idx
           /\ op = "close" => /\ row.idx <= session'.idx
                              /\ row.idx < session'.idx \/ session'.status # "QUESTION_OPEN"
           /\ op = "end" => session'.status = "ENDED"
  <1>1. row.idx \in Int /\ session.idx \in Int /\ session'.idx \in Int
    BY RowFields, RowStepForward
  <1> QED BY <1>1, RowStepForward DEF Trails

\* An update that passes the compare-and-swap is an allowed operation on the
\* row as it is.
LEMMA CasIsRowStep ==
    ASSUME session \in SessionRow, RowConsistent,
           NEW row \in SessionRow, NEW op \in Ops, Faithful(row), Allowed(op, row),
           CasMatches(row), session' = After(op, row)
    PROVE  /\ RowStep
           /\ op \in {"start", "next"} => row.idx + 1 <= session'.idx
           /\ op = "close" => /\ row.idx <= session'.idx
                              /\ row.idx < session'.idx \/ session'.status # "QUESTION_OPEN"
           /\ op = "end" => session'.status = "ENDED"
  <1>1. row = session
    BY DEF Faithful, CasMatches
  <1>2. row.status = "LOBBY" => row.idx = NoQuestion
    BY <1>1 DEF RowConsistent
  <1>3. row.idx \in Int
    BY RowFields
  <1> QED BY <1>1, <1>2, <1>3, AfterType DEF RowStep

-----------------------------------------------------------------------------
\* What a step keeps that leaves the row alone or changes it by an allowed
\* operation.
LEMMA Frame ==
    ASSUME LInv, RowStep
    PROVE  /\ session' \in SessionRow
           /\ RowConsistent'
           /\ \A row \in SessionRow : Faithful(row) => Faithful(row)'
           /\ \A row \in SessionRow, op \in Ops : Trails(op, row) => Trails(op, row)'
           /\ question' = question /\ events' = events => ProjectionsTrailRow'
  <1>1. session \in SessionRow /\ RowConsistent
    BY DEF LInv, LiveTypeOK
  <1>2. session' \in SessionRow /\ RowConsistent'
    BY <1>1, RowStepForward
  <1>3. \A row \in SessionRow : Faithful(row) => Faithful(row)'
    BY <1>1, FaithfulKept DEF Faithful
  <1>4. \A row \in SessionRow, op \in Ops : Trails(op, row) => Trails(op, row)'
    BY <1>1, TrailsKept DEF Trails
  <1>5. ASSUME question' = question, events' = events PROVE ProjectionsTrailRow'
    <2>1. /\ session.idx \in Int /\ session'.idx \in Int /\ session.idx <= session'.idx
          /\ session.status = "ENDED" => session'.status = "ENDED"
          /\ session.status # "QUESTION_OPEN" /\ session'.status = "QUESTION_OPEN"
                => session.idx < session'.idx
      BY <1>1, <1>2, RowStepForward, RowFields
    <2>2. question \in Int /\ \A e \in events : e[2] \in Int
      BY IndexArithmetic DEF LInv, LiveTypeOK, Events
    <2>3. ProjectionsTrailRow
      BY DEF LInv
    <2>4. question' <= session'.idx
      BY <1>5, <2>1, <2>2, <2>3 DEF ProjectionsTrailRow
    <2>5. ASSUME NEW e \in events'
          PROVE  /\ e[1] \in {"opened", "closed"} => e[2] <= session'.idx
                 /\ e[1] = "closed" => (e[2] < session'.idx \/ session'.status # "QUESTION_OPEN")
                 /\ e[1] = "ended" => session'.status = "ENDED"
      <3>1. e \in events /\ e[2] \in Int
        BY <1>5, <2>2
      <3> QED BY <2>1, <2>3, <3>1 DEF ProjectionsTrailRow
    <2> QED BY <2>4, <2>5 DEF ProjectionsTrailRow
  <1> QED BY <1>2, <1>3, <1>4, <1>5

\* What a host request remembers of the row stays true across a row step of
\* another actor, and of a request that has ended nothing is asked.
LEMMA CommandKept ==
    ASSUME LInv, RowStep, NEW c \in Commands,
           \/ command'[c] = command[c]
           \/ command'[c].pc = "idle"
           \/ command'[c].pc = "done" /\ command'[c].op \in {"close", "end"}
    PROVE  CommandFaithful(c)'
  <1>1. CASE \/ command'[c].pc = "idle"
             \/ command'[c].pc = "done" /\ command'[c].op \in {"close", "end"}
    BY <1>1 DEF CommandFaithful, Undecided
  <1>2. CASE command'[c] = command[c] /\ command[c].pc # "idle"
    <2>1. command[c].op \in Ops /\ command[c].seen \in SessionRow
      BY <1>2, CommandFields DEF LInv, LiveTypeOK
    <2>2. CommandFaithful(c)
      BY DEF LInv
    <2>3. Faithful(command[c].seen) => Faithful(command[c].seen)'
      BY <1>2, <2>1, Frame DEF Faithful
    <2>4. Trails(command[c].op, command[c].seen) => Trails(command[c].op, command[c].seen)'
      BY <1>2, <2>1, Frame DEF Trails
    <2>5. Undecided(c)' => Faithful(command[c].seen)' /\ Allowed(command[c].op, command[c].seen)'
      BY <1>2, <2>2, <2>3 DEF CommandFaithful, Undecided, Allowed
    <2>6. (command[c].pc = "written")' => Trails(command[c].op, command[c].seen)'
      BY <1>2, <2>2, <2>4 DEF CommandFaithful
    <2>7. (command[c].pc # "idle" /\ command[c].op \in {"start", "next"} => command[c].seen.idx + 1 \in Questions)'
      BY <1>2, <2>2 DEF CommandFaithful, Questions
    <2> QED BY <2>5, <2>6, <2>7 DEF CommandFaithful
  <1>3. CASE command'[c] = command[c] /\ command[c].pc = "idle"
    <2>1. command'[c].pc = "idle"
      BY <1>3
    <2> QED BY <1>1, <2>1
  <1> QED BY <1>1, <1>2, <1>3

\* What an auto-close callback remembers of the row stays true as well.
LEMMA CallbackKept ==
    ASSUME LInv, RowStep, NEW k \in Questions,
           timer'[k] = timer[k] \/ timer'[k].pc \in {"off", "armed", "fired", "open", "cancel"}
    PROVE  CallbackFaithful(k)'
  <1>1. CASE timer'[k].pc \in {"off", "armed", "fired", "open", "cancel"}
    BY <1>1 DEF CallbackFaithful, Closing
  <1>2. CASE timer'[k] = timer[k] /\ timer[k].pc \in {"closing", "finalized", "written"}
    <2>1. timer[k].seen \in SessionRow
      BY <1>2, TimerFields DEF LInv, LiveTypeOK
    <2>2. CallbackFaithful(k)
      BY DEF LInv
    <2>3. Faithful(timer[k].seen) => Faithful(timer[k].seen)'
      BY <1>2, <2>1, Frame DEF Faithful
    <2>4. Trails("close", timer[k].seen) => Trails("close", timer[k].seen)'
      BY <1>2, <2>1, Frame DEF Trails, Ops
    <2>5. Closing(k)' => Faithful(timer[k].seen)' /\ Allowed("close", timer[k].seen)'
      BY <1>2, <2>2, <2>3 DEF CallbackFaithful, Closing, Allowed
    <2>6. (timer[k].pc = "written")' => Trails("close", timer[k].seen)'
      BY <1>2, <2>2, <2>4 DEF CallbackFaithful
    <2> QED BY <2>5, <2>6 DEF CallbackFaithful
  <1> QED BY <1>1, <1>2 DEF LInv, LiveTypeOK, TimerState

\* What stopping the registered timer, and arming at most the next one, keeps.
LEMMA TimersStopped ==
    ASSUME LInv, RowStep, DOMAIN timer' = Questions, timer' = [k \in Questions |-> timer'[k]],
           \A k \in Questions : \/ timer'[k] = Stopped[k]
                                \/ timer'[k] = Off
                                \/ timer'[k] = [pc |-> "armed"] /\ registered' = k
    PROVE  /\ timer' \in [Questions -> TimerState]
           /\ NoOrphanTimer'
           /\ \A k \in Questions : CallbackFaithful(k)'
  <1>1. \A k \in Questions : \/ timer'[k] = timer[k] /\ ~(k = registered /\ timer[k].pc = "armed")
                             \/ timer'[k] = Off
                             \/ timer'[k] = [pc |-> "armed"] /\ registered' = k
    BY DEF Stopped
  <1>2. timer \in [Questions -> TimerState] /\ NoOrphanTimer
    BY DEF LInv, LiveTypeOK
  <1>3. \A k \in Questions : timer'[k] \in TimerState
    BY <1>1, <1>2 DEF TimerState, Off
  <1>4. NoOrphanTimer'
    BY <1>1, <1>2 DEF NoOrphanTimer, Off
  <1>5. \A k \in Questions : CallbackFaithful(k)'
    BY <1>1, CallbackKept DEF Off
  <1> QED BY <1>3, <1>4, <1>5

-----------------------------------------------------------------------------
\* The invariant holds when a session has just been created.
THEOREM InitLInv == LiveInit => LInv
  <1> SUFFICES ASSUME LiveInit PROVE LInv
    OBVIOUS
  <1>1. LiveTypeOK
    BY IndexArithmetic, LiveConstants
    DEF LiveInit, LiveTypeOK, SessionRow, Status, CommandState, NoCommand, TimerState, Off
  <1>2. RowConsistent
    BY DEF LiveInit, RowConsistent
  <1>3. \A c \in Commands : CommandFaithful(c)
    BY DEF LiveInit, CommandFaithful, Undecided, NoCommand
  <1>4. \A k \in Questions : CallbackFaithful(k)
    BY DEF LiveInit, CallbackFaithful, Closing, Off
  <1>5. NoOrphanTimer
    BY DEF LiveInit, NoOrphanTimer, Off
  <1>6. ProjectionsTrailRow
    BY IndexArithmetic DEF LiveInit, ProjectionsTrailRow
  <1> QED BY <1>1, <1>2, <1>3, <1>4, <1>5, <1>6 DEF LInv

\* Steps of a host request that leave the timers alone.
LEMMA CommandSteps ==
    ASSUME LInv, NEW c \in Commands,
           \/ \E op \in Ops : CommandRead(c, op)
           \/ CommandFinalize(c)
           \/ CommandWrite(c)
           \/ \E applied \in BOOLEAN : CommandFail(c, applied)
    PROVE  LInv' /\ RowStep
  <1>0. /\ session \in SessionRow /\ RowConsistent /\ command \in [Commands -> CommandState]
        /\ CommandFaithful(c) /\ LiveTypeOK /\ NoOrphanTimer
    BY DEF LInv, LiveTypeOK
  <1>1. ASSUME NEW op \in Ops, CommandRead(c, op)
        PROVE  /\ RowStep /\ command'[c] \in CommandState /\ failures' \in 0..MaxFailures
               /\ \A d \in Commands \ {c} : command'[d] = command[d]
               /\ command' \in [Commands -> CommandState]
               /\ CommandFaithful(c)'
    <2>1. RowStep
      BY <1>1 DEF CommandRead, RowStep
    <2>2. CASE /\ Allowed(op, session)
               /\ command' = [command EXCEPT ![c] = [pc |-> "read", op |-> op, seen |-> session]]
      <3>1. command'[c] = [pc |-> "read", op |-> op, seen |-> session] /\ session' = session
        BY <1>0, <1>1, <2>2 DEF CommandRead
      <3>3. Faithful(command[c].seen)'
        BY <1>0, <3>1, RowFields DEF Faithful
      <3>4. Allowed(command[c].op, command[c].seen)'
        BY <2>2, <3>1 DEF Allowed
      <3>5. op \in {"start", "next"} => session.idx + 1 \in Questions
        BY <1>0, <2>2, IndexArithmetic DEF Allowed, RowConsistent
      <3>2. CommandFaithful(c)'
        BY <3>1, <3>3, <3>4, <3>5 DEF CommandFaithful
      <3> QED BY <1>0, <1>1, <2>1, <2>2, <3>1, <3>2 DEF CommandState, CommandRead, LiveTypeOK
    <2>3. CASE /\ AlreadyDone(op, session)
               /\ command' = [command EXCEPT ![c] = [pc |-> "done", op |-> op, seen |-> session]]
      <3>1. command'[c] = [pc |-> "done", op |-> op, seen |-> session] /\ op \in {"close", "end"}
        BY <1>0, <2>3 DEF AlreadyDone
      <3> QED BY <1>0, <1>1, <2>1, <2>3, <3>1, CommandKept DEF CommandState, CommandRead, LiveTypeOK
    <2> QED BY <1>1, <2>2, <2>3 DEF CommandRead
  <1>2. ASSUME CommandFinalize(c)
        PROVE  /\ RowStep /\ failures' \in 0..MaxFailures
               /\ \A d \in Commands \ {c} : command'[d] = command[d]
               /\ command' \in [Commands -> CommandState]
               /\ CommandFaithful(c)'
    <2>1. RowStep
      BY <1>2 DEF CommandFinalize, RowStep
    <2>2. command[c] \in [pc : {"read", "finalized", "written", "done"}, op : Ops, seen : SessionRow]
      BY <1>0, <1>2, CommandFields DEF CommandFinalize
    <2>3. command'[c] = [command[c] EXCEPT !.pc = "finalized"] /\ session' = session
      BY <1>0, <1>2 DEF CommandFinalize
    <2>4. CommandFaithful(c)'
      BY <1>0, <1>2, <2>2, <2>3 DEF CommandFaithful, Undecided, Faithful, Allowed, CommandFinalize
    <2> QED BY <1>0, <1>2, <2>1, <2>2, <2>3, <2>4 DEF CommandFinalize, CommandState, LiveTypeOK
  <1>3. ASSUME CommandWrite(c)
        PROVE  /\ RowStep /\ failures' \in 0..MaxFailures
               /\ \A d \in Commands \ {c} : command'[d] = command[d]
               /\ command' \in [Commands -> CommandState]
               /\ CommandFaithful(c)'
    <2>2. /\ command[c] \in [pc : {"read", "finalized", "written", "done"}, op : Ops, seen : SessionRow]
          /\ Faithful(command[c].seen) /\ Allowed(command[c].op, command[c].seen)
      BY <1>0, <1>3, CommandFields DEF CommandWrite, CommandFaithful, Undecided
    <2>3. CASE CasMatches(command[c].seen)
      <3>1. /\ session' = After(command[c].op, command[c].seen)
            /\ command'[c] = [command[c] EXCEPT !.pc = "written"]
            /\ failures' = failures
            /\ command' = [command EXCEPT ![c].pc = "written"]
        BY <1>0, <1>3, <2>3 DEF CommandWrite
      <3>2. /\ RowStep
            /\ Trails(command[c].op, command[c].seen)'
        BY <1>0, <2>2, <2>3, <3>1, CasIsRowStep DEF Trails
      <3>3. CommandFaithful(c)'
        BY <1>0, <1>3, <2>2, <3>1, <3>2 DEF CommandFaithful, Undecided, CommandWrite
      <3> QED BY <1>0, <2>2, <3>1, <3>2, <3>3 DEF CommandState, LiveTypeOK
    <2>4. CASE ~CasMatches(command[c].seen)
      <3>1. /\ session' = session /\ failures' = failures
            /\ command' = [command EXCEPT ![c] = NoCommand] /\ command'[c] = NoCommand
        BY <1>0, <1>3, <2>4 DEF CommandWrite
      <3>2. RowStep
        BY <3>1 DEF RowStep
      <3> QED BY <1>0, <3>1, <3>2, CommandKept DEF CommandState, LiveTypeOK, NoCommand
    <2> QED BY <2>3, <2>4
  <1>4. ASSUME NEW applied \in BOOLEAN, CommandFail(c, applied)
        PROVE  /\ RowStep /\ failures' \in 0..MaxFailures
               /\ \A d \in Commands \ {c} : command'[d] = command[d]
               /\ command' \in [Commands -> CommandState]
               /\ CommandFaithful(c)'
    <2>1. /\ command' = [command EXCEPT ![c] = NoCommand] /\ command'[c] = NoCommand
          /\ failures' = failures + 1 /\ failures < MaxFailures
      BY <1>0, <1>4 DEF CommandFail
    <2>2. RowStep
      <3>1. /\ command[c].op \in Ops /\ command[c].seen \in SessionRow
            /\ Faithful(command[c].seen) /\ Allowed(command[c].op, command[c].seen)
        BY <1>0, <1>4, CommandFields DEF CommandFail, CommandFaithful, Undecided
      <3>2. CASE session' = session
        BY <3>2 DEF RowStep
      <3>3. CASE CasMatches(command[c].seen) /\ session' = After(command[c].op, command[c].seen)
        BY <1>0, <3>1, <3>3, CasIsRowStep
      <3> QED BY <1>4, <3>2, <3>3 DEF CommandFail
    <2> QED BY <1>0, <2>1, <2>2, CommandKept, LiveConstants DEF CommandState, LiveTypeOK, NoCommand
  <1>5. /\ RowStep /\ failures' \in 0..MaxFailures
        /\ \A d \in Commands \ {c} : command'[d] = command[d]
        /\ command' \in [Commands -> CommandState]
        /\ CommandFaithful(c)'
    BY <1>1, <1>2, <1>3, <1>4
  <1>6. UNCHANGED <<question, events, timer, registered, recovered, restarts>>
    BY DEF CommandRead, CommandFinalize, CommandWrite, CommandFail
  <1>7. \A d \in Commands : CommandFaithful(d)'
    BY <1>5, CommandKept
  <1>8. \A k \in Questions : CallbackFaithful(k)'
    BY <1>5, <1>6, CallbackKept
  <1>9. LiveTypeOK' /\ NoOrphanTimer'
    BY <1>0, <1>5, <1>6, Frame DEF LiveTypeOK, NoOrphanTimer
  <1> QED BY <1>5, <1>6, <1>7, <1>8, <1>9, Frame DEF LInv

\* Steps of a host request after its update.
LEMMA CommandEnds ==
    ASSUME LInv, NEW c \in Commands,
           \/ \E stored, published \in BOOLEAN : CommandProject(c, stored, published)
           \/ CommandTimer(c)
    PROVE  LInv' /\ RowStep
  <1>0. /\ session \in SessionRow /\ RowConsistent /\ command \in [Commands -> CommandState]
        /\ CommandFaithful(c) /\ LiveTypeOK /\ NoOrphanTimer
    BY DEF LInv, LiveTypeOK
  <1>a. session' = session
    BY DEF CommandProject, CommandTimer
  <1>b. RowStep
    BY <1>a DEF RowStep
  <1>c. /\ command[c].pc \in {"written", "done"}
        /\ command[c] \in [pc : {"read", "finalized", "written", "done"}, op : Ops, seen : SessionRow]
    BY <1>0, CommandFields DEF CommandProject, CommandTimer
  <1>d. command[c].seen.idx \in Int /\ session.idx \in Int
    BY <1>0, <1>c, RowFields
  <1>1. ASSUME NEW stored \in BOOLEAN, NEW published \in BOOLEAN, CommandProject(c, stored, published)
        PROVE  LInv'
    <2> DEFINE op == command[c].op
               i == After(op, command[c].seen).idx
    <2>1. /\ command'[c] = [command[c] EXCEPT !.pc = "done"]
          /\ command' = [command EXCEPT ![c].pc = "done"]
          /\ UNCHANGED <<timer, registered, recovered, restarts>>
          /\ failures' \in 0..MaxFailures
      BY <1>0, <1>1, LiveConstants DEF CommandProject, Tolerated, LiveTypeOK
    <2>0. CommandFaithful(c)'
      BY <1>0, <1>c, <2>1 DEF CommandFaithful, Undecided
    <2>2. \A d \in Commands : CommandFaithful(d)'
      BY <1>0, <1>b, <2>0, <2>1, CommandKept
    <2>3. \A k \in Questions : CallbackFaithful(k)'
      BY <1>b, <2>1, CallbackKept
    <2>4. Trails(op, command[c].seen)
      BY <1>0, <1>1 DEF CommandFaithful, CommandProject
    <2>5. i = IF op \in {"start", "next"} THEN command[c].seen.idx + 1 ELSE command[c].seen.idx
      BY DEF After
    <2>6. /\ op \in {"start", "next", "close"} => i <= session.idx /\ i \in QuestionOrNone
          /\ op = "close" => i < session.idx \/ session.status # "QUESTION_OPEN"
          /\ op = "end" => session.status = "ENDED"
      <3>1. command[c].seen.idx \in QuestionOrNone /\ session.idx \in QuestionOrNone
        BY <1>0, <1>c, RowFields
      <3> QED BY <1>d, <2>4, <2>5, <3>1, IndexArithmetic DEF Trails
    <2>7. /\ question' = question \/ (question' = i /\ op \in {"start", "next"})
          /\ events' = events \/ events' = events \cup Published(op, i)
      BY <1>1 DEF CommandProject
    <2>8. /\ Published(op, i) \subseteq Events
          /\ \A e \in Published(op, i) :
               /\ e[1] \in {"opened", "closed"} => e[2] <= session.idx
               /\ e[1] = "closed" => (e[2] < session.idx \/ session.status # "QUESTION_OPEN")
               /\ e[1] = "ended" => session.status = "ENDED"
      <3> HIDE DEF i, op
      <3>0. op \in Ops
        BY <1>c DEF op
      <3>n. NoQuestion \in QuestionOrNone
        BY DEF QuestionOrNone
      <3>1. CASE op = "start"
        BY <2>6, <3>1, <3>n DEF Published, Events
      <3>2. CASE op = "close"
        BY <2>6, <3>2, <3>n DEF Published, Events
      <3>3. CASE op = "next"
        BY <2>6, <3>3, <3>n DEF Published, Events
      <3>4. CASE op = "end"
        BY <2>6, <3>4, <3>n DEF Published, Events
      <3> QED BY <3>0, <3>1, <3>2, <3>3, <3>4 DEF Ops
    <2> HIDE DEF i, op
    <2>9. ProjectionsTrailRow
      BY DEF LInv
    <2>10. ProjectionsTrailRow'
      <3>1. question' <= session'.idx
        BY <1>a, <2>6, <2>7, <2>9 DEF ProjectionsTrailRow
      <3>2. ASSUME NEW e \in events'
            PROVE  /\ e[1] \in {"opened", "closed"} => e[2] <= session'.idx
                   /\ e[1] = "closed" => (e[2] < session'.idx \/ session'.status # "QUESTION_OPEN")
                   /\ e[1] = "ended" => session'.status = "ENDED"
        <4>1. e \in events \/ e \in Published(op, i)
          BY <2>7
        <4> QED BY <1>a, <2>8, <2>9, <4>1 DEF ProjectionsTrailRow
      <3> QED BY <3>1, <3>2 DEF ProjectionsTrailRow
    <2>11. LiveTypeOK'
      <3>1. command' \in [Commands -> CommandState]
        BY <1>0, <1>c, <2>1 DEF CommandState
      <3>2. question' \in QuestionOrNone /\ events' \subseteq Events
        BY <1>0, <2>6, <2>7, <2>8 DEF LiveTypeOK
      <3> QED BY <1>0, <1>a, <2>1, <3>1, <3>2 DEF LiveTypeOK
    <2>12. NoOrphanTimer'
      BY <1>0, <2>1 DEF NoOrphanTimer
    <2> QED BY <1>b, <2>2, <2>3, <2>10, <2>11, <2>12, Frame DEF LInv
  <1>2. ASSUME CommandTimer(c) PROVE LInv'
    <2>1. /\ command' = [command EXCEPT ![c] = NoCommand] /\ command'[c].pc = "idle"
          /\ UNCHANGED <<session, question, events, recovered, restarts, failures>>
      BY <1>0, <1>2 DEF CommandTimer, NoCommand
    <2>2. \A d \in Commands : CommandFaithful(d)'
      BY <1>0, <1>b, <2>1, CommandKept
    <2>3. CASE command[c].op \in {"start", "next"}
      <3> DEFINE i == After(command[c].op, command[c].seen).idx
      <3>1. i \in Questions
        BY <1>0, <1>c, <2>3 DEF After, CommandFaithful
      <3>2. timer' = [Stopped EXCEPT ![i] = [pc |-> "armed"]] /\ registered' = i
        BY <1>2, <2>3 DEF CommandTimer, ScheduleAutoClose
      <3> HIDE DEF i
      <3>3. /\ DOMAIN timer' = Questions /\ timer' = [k \in Questions |-> timer'[k]]
            /\ \A k \in Questions : \/ timer'[k] = Stopped[k]
                                    \/ timer'[k] = [pc |-> "armed"] /\ registered' = k
        BY <3>1, <3>2 DEF Stopped
      <3> QED BY <1>0, <1>b, <2>1, <2>2, <3>1, <3>2, <3>3, TimersStopped, Frame, NoCommandType
              DEF LInv, LiveTypeOK, QuestionOrNone
    <2>4. CASE command[c].op \notin {"start", "next"}
      <3>1. timer' = Stopped /\ registered' = NoQuestion
        BY <1>2, <2>4 DEF CommandTimer
      <3>2. DOMAIN timer' = Questions /\ timer' = [k \in Questions |-> timer'[k]]
        BY <3>1 DEF Stopped
      <3> QED BY <1>0, <1>b, <2>1, <2>2, <3>1, <3>2, TimersStopped, Frame, NoCommandType
              DEF LInv, LiveTypeOK, QuestionOrNone
    <2> QED BY <2>3, <2>4
  <1> QED BY <1>b, <1>1, <1>2

\* Steps of an auto-close callback before it reports.
LEMMA CallbackSteps ==
    ASSUME LInv, NEW k \in Questions,
           \/ TimerFire(k)
           \/ CallbackCheck(k)
           \/ CallbackRead(k)
           \/ CallbackFinalize(k)
           \/ CallbackWrite(k)
           \/ \E applied \in BOOLEAN : CallbackFail(k, applied)
    PROVE  LInv' /\ RowStep
  <1> DEFINE Result == /\ RowStep /\ failures' \in 0..MaxFailures
                       /\ \A j \in Questions \ {k} : timer'[j] = timer[j]
                       /\ timer' \in [Questions -> TimerState]
                       /\ timer'[k].pc # "armed"
                       /\ CallbackFaithful(k)'
  <1>0. /\ session \in SessionRow /\ RowConsistent /\ timer \in [Questions -> TimerState]
        /\ CallbackFaithful(k) /\ LiveTypeOK /\ NoOrphanTimer
    BY DEF LInv, LiveTypeOK
  <1>1. ASSUME TimerFire(k) \/ CallbackCheck(k) PROVE Result
    <2>1. PICK pc \in {"fired", "open", "cancel"} :
            timer' = [timer EXCEPT ![k] = [pc |-> pc]] /\ UNCHANGED <<session, failures>>
      BY <1>1 DEF TimerFire, CallbackCheck
    <2>2. RowStep
      BY <2>1 DEF RowStep
    <2> QED BY <1>0, <2>1, <2>2, CallbackKept DEF TimerState, LiveTypeOK
  <1>2. ASSUME CallbackRead(k) PROVE Result
    <2>1. session' = session /\ failures' = failures /\ RowStep
      BY <1>2 DEF CallbackRead, RowStep
    <2>2. CASE Allowed("close", session)
      <3>1. /\ timer' = [timer EXCEPT ![k] = [pc |-> "closing", seen |-> session]]
            /\ timer'[k] = [pc |-> "closing", seen |-> session]
        BY <1>0, <1>2, <2>2 DEF CallbackRead
      <3>2. Faithful(timer[k].seen)'
        BY <1>0, <2>1, <3>1, RowFields DEF Faithful
      <3>3. Allowed("close", timer[k].seen)'
        BY <2>2, <3>1 DEF Allowed
      <3>4. CallbackFaithful(k)'
        BY <3>1, <3>2, <3>3 DEF CallbackFaithful
      <3> QED BY <1>0, <2>1, <3>1, <3>4 DEF TimerState, LiveTypeOK
    <2>3. CASE ~Allowed("close", session)
      <3>1. timer' = [timer EXCEPT ![k] = [pc |-> "cancel"]]
        BY <1>2, <2>3 DEF CallbackRead
      <3> QED BY <1>0, <2>1, <3>1, CallbackKept DEF TimerState, LiveTypeOK
    <2> QED BY <2>2, <2>3
  <1>3. ASSUME CallbackFinalize(k) PROVE Result
    <2>1. session' = session /\ failures' = failures /\ RowStep
      BY <1>3 DEF CallbackFinalize, RowStep
    <2>2. timer[k] \in [pc : {"closing", "finalized", "written"}, seen : SessionRow]
      BY <1>0, <1>3, TimerFields DEF CallbackFinalize
    <2>3. /\ timer' = [timer EXCEPT ![k].pc = "finalized"]
          /\ timer'[k] = [timer[k] EXCEPT !.pc = "finalized"]
      BY <1>0, <1>3 DEF CallbackFinalize
    <2>4. CallbackFaithful(k)'
      BY <1>0, <1>3, <2>1, <2>2, <2>3 DEF CallbackFaithful, Closing, Faithful, Allowed, CallbackFinalize
    <2> QED BY <1>0, <2>1, <2>2, <2>3, <2>4 DEF TimerState, LiveTypeOK
  <1>4. ASSUME CallbackWrite(k) PROVE Result
    <2>1. /\ timer[k] \in [pc : {"closing", "finalized", "written"}, seen : SessionRow]
          /\ Faithful(timer[k].seen) /\ Allowed("close", timer[k].seen)
      BY <1>0, <1>4, TimerFields DEF CallbackWrite, CallbackFaithful, Closing
    <2>2. CASE CasMatches(timer[k].seen)
      <3>1. /\ session' = After("close", timer[k].seen) /\ failures' = failures
            /\ timer' = [timer EXCEPT ![k].pc = "written"]
            /\ timer'[k] = [timer[k] EXCEPT !.pc = "written"]
        BY <1>0, <1>4, <2>2 DEF CallbackWrite
      <3>2. RowStep /\ Trails("close", timer[k].seen)'
        BY <1>0, <2>1, <2>2, <3>1, CasIsRowStep DEF Trails, Ops
      <3>3. CallbackFaithful(k)'
        BY <2>1, <3>1, <3>2 DEF CallbackFaithful, Closing
      <3> QED BY <1>0, <2>1, <3>1, <3>2, <3>3 DEF TimerState, LiveTypeOK
    <2>3. CASE ~CasMatches(timer[k].seen)
      <3>1. timer' = [timer EXCEPT ![k] = [pc |-> "cancel"]] /\ session' = session /\ failures' = failures
        BY <1>4, <2>3 DEF CallbackWrite
      <3>2. RowStep
        BY <3>1 DEF RowStep
      <3> QED BY <1>0, <3>1, <3>2, CallbackKept DEF TimerState, LiveTypeOK
    <2> QED BY <2>2, <2>3
  <1>5. ASSUME NEW applied \in BOOLEAN, CallbackFail(k, applied) PROVE Result
    <2>1. /\ timer' = [timer EXCEPT ![k] = [pc |-> "cancel"]]
          /\ failures' = failures + 1 /\ failures < MaxFailures
      BY <1>5 DEF CallbackFail
    <2>2. RowStep
      <3>1. CASE session' = session
        BY <3>1 DEF RowStep
      <3>2. CASE /\ timer[k].pc = "finalized" /\ CasMatches(timer[k].seen)
                 /\ session' = After("close", timer[k].seen)
        <4>1. /\ timer[k].seen \in SessionRow
              /\ Faithful(timer[k].seen) /\ Allowed("close", timer[k].seen)
          BY <1>0, <3>2, TimerFields DEF CallbackFaithful, Closing
        <4> QED BY <1>0, <3>2, <4>1, CasIsRowStep DEF Ops
      <3> QED BY <1>5, <3>1, <3>2 DEF CallbackFail
    <2> QED BY <1>0, <2>1, <2>2, CallbackKept, LiveConstants DEF TimerState, LiveTypeOK
  <1>6. Result
    BY <1>1, <1>2, <1>3, <1>4, <1>5
  <1>7. UNCHANGED <<question, events, command, registered, recovered, restarts>>
    BY DEF TimerFire, CallbackCheck, CallbackRead, CallbackFinalize, CallbackWrite, CallbackFail
  <1>8. \A c \in Commands : CommandFaithful(c)'
    BY <1>6, <1>7, CommandKept
  <1>9. \A j \in Questions : CallbackFaithful(j)'
    BY <1>6, CallbackKept
  <1>10. LiveTypeOK' /\ NoOrphanTimer'
    BY <1>0, <1>6, <1>7, Frame DEF LiveTypeOK, NoOrphanTimer
  <1> QED BY <1>6, <1>7, <1>8, <1>9, <1>10, Frame DEF LInv

\* The end of a callback.
LEMMA CallbackEnds ==
    ASSUME LInv, NEW k \in Questions,
           \/ \E published \in BOOLEAN : CallbackProject(k, published)
           \/ CallbackCancel(k)
    PROVE  LInv' /\ RowStep
  <1>0. /\ session \in SessionRow /\ RowConsistent /\ timer \in [Questions -> TimerState]
        /\ CallbackFaithful(k) /\ LiveTypeOK /\ NoOrphanTimer /\ ProjectionsTrailRow
    BY DEF LInv, LiveTypeOK
  <1>a. session' = session /\ RowStep
    BY DEF CallbackProject, CallbackCancel, RowStep
  <1>1. ASSUME NEW published \in BOOLEAN, CallbackProject(k, published)
        PROVE  LInv'
    <2>1. /\ timer' = [timer EXCEPT ![k] = [pc |-> "cancel"]]
          /\ UNCHANGED <<session, question, command, registered, recovered, restarts>>
          /\ failures' \in 0..MaxFailures
      BY <1>0, <1>1, LiveConstants DEF CallbackProject, Tolerated, LiveTypeOK
    <2>2. \A j \in Questions : CallbackFaithful(j)'
      BY <1>0, <1>a, <2>1, CallbackKept
    <2>3. \A c \in Commands : CommandFaithful(c)'
      BY <1>a, <2>1, CommandKept
    <2>4. Trails("close", timer[k].seen) /\ timer[k].seen \in SessionRow
      BY <1>0, <1>1, TimerFields DEF CallbackFaithful, CallbackProject
    <2>5. events' = events \/ events' = events \cup {<<"closed", timer[k].seen.idx>>}
      BY <1>1 DEF CallbackProject, Published
    <2>6. /\ timer[k].seen.idx \in QuestionOrNone /\ timer[k].seen.idx <= session.idx
          /\ timer[k].seen.idx < session.idx \/ session.status # "QUESTION_OPEN"
      BY <2>4, RowFields DEF Trails
    <2>7. LiveTypeOK' /\ NoOrphanTimer'
      <3>1. timer' \in [Questions -> TimerState]
        BY <1>0, <2>1 DEF TimerState
      <3>2. events' \subseteq Events
        BY <1>0, <2>5, <2>6 DEF LiveTypeOK, Events
      <3>3. NoOrphanTimer'
        BY <1>0, <2>1 DEF NoOrphanTimer
      <3> QED BY <1>0, <2>1, <3>1, <3>2, <3>3 DEF LiveTypeOK
    <2>8. ProjectionsTrailRow'
      <3>1. ASSUME NEW e \in events'
            PROVE  /\ e[1] \in {"opened", "closed"} => e[2] <= session'.idx
                   /\ e[1] = "closed" => (e[2] < session'.idx \/ session'.status # "QUESTION_OPEN")
                   /\ e[1] = "ended" => session'.status = "ENDED"
        <4>1. CASE e \in events
          BY <1>0, <1>a, <4>1 DEF ProjectionsTrailRow
        <4>2. CASE e = <<"closed", timer[k].seen.idx>>
          BY <1>a, <2>6, <4>2
        <4> QED BY <2>5, <4>1, <4>2
      <3> QED BY <1>0, <1>a, <2>1, <3>1 DEF ProjectionsTrailRow
    <2> QED BY <1>a, <2>2, <2>3, <2>7, <2>8, Frame DEF LInv
  <1>2. ASSUME CallbackCancel(k) PROVE LInv'
    <2>1. /\ timer' = [Stopped EXCEPT ![k] = Off] /\ registered' = NoQuestion
          /\ UNCHANGED <<session, question, events, command, recovered, restarts, failures>>
      BY <1>2 DEF CallbackCancel
    <2>2. /\ DOMAIN timer' = Questions /\ timer' = [j \in Questions |-> timer'[j]]
          /\ \A j \in Questions : timer'[j] = Stopped[j] \/ timer'[j] = Off
      BY <2>1 DEF Stopped
    <2>3. \A c \in Commands : CommandFaithful(c)'
      BY <1>a, <2>1, CommandKept
    <2> QED BY <1>0, <1>a, <2>1, <2>2, <2>3, TimersStopped, Frame
            DEF LInv, LiveTypeOK, QuestionOrNone
  <1> QED BY <1>a, <1>1, <1>2

\* A restart, whether or not the sessions could be loaded, keeps the invariant.
LEMMA RestartStep ==
    ASSUME LInv, NEW loaded \in BOOLEAN, NEW stored \in BOOLEAN, Restart(loaded, stored)
    PROVE  LInv' /\ RowStep
  <1>0. session \in SessionRow /\ RowConsistent /\ LiveTypeOK /\ ProjectionsTrailRow
    BY DEF LInv, LiveTypeOK
  <1>1. /\ session' = session /\ events' = events /\ failures' = failures
        /\ command' = [c \in Commands |-> NoCommand]
        /\ restarts' \in 0..MaxRestarts
    BY <1>0, LiveConstants DEF Restart, LiveTypeOK
  <1>2. RowStep
    BY <1>1 DEF RowStep
  <1>3. \A c \in Commands : CommandFaithful(c)'
    BY <1>1, <1>2, CommandKept DEF NoCommand
  <1>4. CASE loaded /\ session.status = "QUESTION_OPEN"
    <2>1. /\ question' = session.idx \/ question' = question
          /\ timer' = [k \in Questions |-> Rearm(k)]
          /\ registered' = session.idx /\ recovered' = session.idx
      BY <1>4 DEF Restart
    <2>2. \A k \in Questions : timer'[k] = Off \/ (timer'[k] = [pc |-> "armed"] /\ registered' = k)
      BY <2>1 DEF Rearm
    <2>3. timer' \in [Questions -> TimerState] /\ NoOrphanTimer' /\ \A k \in Questions : CallbackFaithful(k)'
      BY <1>2, <2>1, <2>2, TimersStopped
    <2>4. session.idx \in QuestionOrNone /\ session.idx \in Int
      BY <1>0, RowFields
    <2>5. ProjectionsTrailRow'
      BY <1>0, <1>1, <2>1, <2>4 DEF ProjectionsTrailRow
    <2>6. LiveTypeOK'
      BY <1>0, <1>1, <2>1, <2>3, <2>4, NoCommandType DEF LiveTypeOK
    <2> QED BY <1>2, <1>3, <2>3, <2>5, <2>6, Frame DEF LInv
  <1>5. CASE ~(loaded /\ session.status = "QUESTION_OPEN")
    <2>1. /\ question' = question
          /\ timer' = [k \in Questions |-> Off]
          /\ registered' = NoQuestion /\ recovered' = NoQuestion
      BY <1>5 DEF Restart
    <2>2. timer' \in [Questions -> TimerState] /\ NoOrphanTimer' /\ \A k \in Questions : CallbackFaithful(k)'
      BY <1>2, <2>1, TimersStopped
    <2>3. LiveTypeOK'
      BY <1>0, <1>1, <2>1, <2>2, NoCommandType DEF LiveTypeOK, QuestionOrNone
    <2> QED BY <1>1, <1>2, <1>3, <2>1, <2>2, <2>3, Frame DEF LInv
  <1> QED BY <1>2, <1>4, <1>5

\* The invariant is inductive, and every step changes the row by an allowed
\* operation at most.
THEOREM StepLInv == LInv /\ [LiveNext]_liveVars => LInv' /\ RowStep
  <1> SUFFICES ASSUME LInv, [LiveNext]_liveVars PROVE LInv' /\ RowStep
    OBVIOUS
  <1>1. CASE FinalizeStep
    BY <1>1, CommandSteps, CallbackSteps DEF FinalizeStep
  <1>2. CASE OtherStep
    BY <1>2, CommandSteps, CommandEnds, CallbackSteps, CallbackEnds DEF OtherStep
  <1>3. CASE UNCHANGED liveVars
    <2>1. /\ session' = session /\ question' = question /\ events' = events /\ command' = command
          /\ timer' = timer /\ registered' = registered /\ recovered' = recovered
          /\ restarts' = restarts /\ failures' = failures
      BY <1>3 DEF liveVars
    <2>2. RowStep
      BY <2>1 DEF RowStep
    <2>3. (\A c \in Commands : CommandFaithful(c)') /\ (\A k \in Questions : CallbackFaithful(k)')
      BY <2>1, <2>2, CommandKept, CallbackKept
    <2>4. LiveTypeOK' /\ NoOrphanTimer'
      BY <2>1 DEF LInv, LiveTypeOK, NoOrphanTimer
    <2> QED BY <2>1, <2>2, <2>3, <2>4, Frame DEF LInv
  <1> QED BY <1>1, <1>2, <1>3, RestartStep DEF LiveNext

\* The invariant holds in every reachable state.
THEOREM LInvHolds == LiveSpec => []LInv
  BY InitLInv, StepLInv, PTL DEF LiveSpec

\* LiveTypeOK for every value of the constants.
THEOREM LiveTypeCorrect == LiveSpec => []LiveTypeOK
  <1>1. LInv => LiveTypeOK
    BY DEF LInv
  <1> QED BY <1>1, LInvHolds, PTL

\* No timer outlives its place in the scheduler's map: replacing or cancelling
\* an entry always stops the timer it held.
THEOREM TimersRegistered == LiveSpec => []NoOrphanTimer
  <1>1. LInv => NoOrphanTimer
    BY DEF LInv
  <1> QED BY <1>1, LInvHolds, PTL

\* Redis and the outbox only show what has happened to the row.
THEOREM ProjectionsNeverAhead == LiveSpec => []ProjectionsTrailRow
  <1>1. LInv => ProjectionsTrailRow
    BY DEF LInv
  <1> QED BY <1>1, LInvHolds, PTL

\* The session implements the quiz: stale decisions of concurrent requests,
\* callbacks and interrupted updates never reach the row.
THEOREM SessionImplementsQuiz == LiveSpec => ImplementsLiveQuiz
  <1>1. LiveInit => Quiz!QuizInit
    BY DEF LiveInit, Quiz!QuizInit, NoQuestion
  <1>2. LInv /\ [LiveNext]_liveVars => [Quiz!QuizNext]_(Quiz!quizVars)
    BY StepLInv, RowStepRefines DEF LInv, LiveTypeOK
  <1> QED BY <1>1, <1>2, LInvHolds, PTL DEF LiveSpec, ImplementsLiveQuiz, Quiz!QuizSpec

-----------------------------------------------------------------------------
(* The question recovery found open.                                       *)

\* Until the row changes or a call fails, the timer recovery has armed, or the
\* callback it became, is on its way to a write the compare-and-swap lets
\* through; no request has anything left to do that would stop it.
Watched(k) ==
    /\ timer[k].pc \in {"armed", "fired", "open", "closing", "finalized"}
    /\ Closing(k) => timer[k].seen = session
    /\ \A j \in Questions \ {k} : timer[j].pc = "off"
    /\ \A c \in Commands : command[c].pc \in {"idle", "read", "finalized"}

Awaited(k) == recovered = k /\ OpenAt(k) /\ failures = 0

RecoveredIsWatched == \A k \in Questions : Awaited(k) => Watched(k)

RecoveryInv ==
    /\ recovered <= session.idx
    /\ RecoveredIsWatched

\* A row step that leaves the question open has left the row alone: nothing
\* opens a question again.
LEMMA OpenRowKept ==
    ASSUME LInv, RowStep, NEW k \in Questions, k <= session.idx, OpenAt(k)'
    PROVE  session' = session /\ OpenAt(k)
  <1>1. session \in SessionRow /\ RowConsistent /\ session.idx \in Int /\ k \in Int
    BY RowFields, IndexArithmetic DEF LInv, LiveTypeOK
  <1>2. session'.status = "QUESTION_OPEN" /\ session'.idx = k
    BY DEF OpenAt
  <1>3. session.status = "QUESTION_OPEN"
    BY <1>1, <1>2, RowStepForward
  <1>4. ASSUME NEW op \in Ops, Allowed(op, session), session' = After(op, session) PROVE FALSE
    <2>1. op \in {"close", "end"}
      BY <1>3, <1>4 DEF Allowed, Ops
    <2>2. session'.status # "QUESTION_OPEN"
      BY <1>4, <2>1 DEF After
    <2> QED
      BY <1>2, <2>2
  <1>5. session' = session
    BY <1>4 DEF RowStep
  <1> QED
    BY <1>2, <1>3, <1>5 DEF OpenAt

\* A write that passes the compare-and-swap changes the row.
LEMMA AfterDiffers ==
    ASSUME NEW row \in SessionRow, NEW op, session = row
    PROVE  session # After(op, row)
  <1>1. After(op, row).version = row.version + 1 /\ row.version \in Nat
    BY RowFields DEF After
  <1> QED
    BY <1>1

\* The step of a request, while the question stays open, ends at most the
\* request itself.
LEMMA CommandWatches ==
    ASSUME LInv, NEW k \in Questions, Awaited(k), Watched(k), session' = session, failures' = 0,
           NEW c \in Commands,
           \/ \E op \in Ops : CommandRead(c, op)
           \/ CommandFinalize(c)
           \/ CommandWrite(c)
           \/ \E applied \in BOOLEAN : CommandFail(c, applied)
           \/ \E stored, published \in BOOLEAN : CommandProject(c, stored, published)
           \/ CommandTimer(c)
    PROVE  Watched(k)' /\ recovered' = recovered
  <1>0. /\ session.status = "QUESTION_OPEN" /\ failures = 0 /\ command[c].pc \in {"idle", "read", "finalized"}
        /\ command \in [Commands -> CommandState]
    BY DEF Awaited, Watched, OpenAt, LInv, LiveTypeOK
  <1> DEFINE Result == /\ timer' = timer /\ recovered' = recovered
                       /\ \A d \in Commands : command'[d].pc \in {"idle", "read", "finalized"}
  <1>1. ASSUME NEW op \in Ops, CommandRead(c, op) PROVE Result
    <2>1. command' = [command EXCEPT ![c] = [pc |-> "read", op |-> op, seen |-> session]]
      BY <1>0, <1>1 DEF CommandRead, AlreadyDone
    <2> QED
      BY <1>0, <1>1, <2>1 DEF CommandRead, Watched
  <1>2. ASSUME CommandFinalize(c) PROVE Result
    <2>1. command[c].pc # "idle" /\ command' = [command EXCEPT ![c].pc = "finalized"]
      BY <1>2 DEF CommandFinalize
    <2>2. command'[c].pc = "finalized"
      BY <1>0, <2>1, CommandFields
    <2> QED
      BY <1>0, <1>2, <2>1, <2>2 DEF CommandFinalize, Watched
  <1>3. ASSUME CommandWrite(c) PROVE Result
    <2>1. ~CasMatches(command[c].seen)
      <3>1. SUFFICES ASSUME CasMatches(command[c].seen) PROVE FALSE
        OBVIOUS
      <3>2. /\ command[c].seen \in SessionRow /\ Faithful(command[c].seen)
            /\ session' = After(command[c].op, command[c].seen)
        BY <1>0, <1>3, <3>1, CommandFields DEF CommandWrite, LInv, CommandFaithful, Undecided
      <3>3. command[c].seen = session
        BY <3>1, <3>2 DEF CasMatches, Faithful
      <3> QED
        BY <3>2, <3>3, AfterDiffers
    <2>2. command' = [command EXCEPT ![c] = NoCommand]
      BY <1>3, <2>1 DEF CommandWrite
    <2> QED
      BY <1>0, <1>3, <2>2 DEF CommandWrite, Watched, NoCommand
  <1>4. ASSUME NEW applied \in BOOLEAN, CommandFail(c, applied) PROVE FALSE
    BY <1>0, <1>4 DEF CommandFail
  <1>5. ASSUME (\E stored, published \in BOOLEAN : CommandProject(c, stored, published)) \/ CommandTimer(c)
        PROVE  FALSE
    BY <1>0, <1>5 DEF CommandProject, CommandTimer
  <1>6. Result
    BY <1>1, <1>2, <1>3, <1>4, <1>5
  <1> QED
    BY <1>6 DEF Watched, Closing

\* The step of a callback, while the question stays open, brings the one
\* callback there is closer to its write.
LEMMA CallbackWatches ==
    ASSUME LInv, NEW k \in Questions, Awaited(k), Watched(k), session' = session, failures' = 0,
           NEW j \in Questions,
           \/ TimerFire(j)
           \/ CallbackCheck(j)
           \/ CallbackRead(j)
           \/ CallbackFinalize(j)
           \/ CallbackWrite(j)
           \/ \E applied \in BOOLEAN : CallbackFail(j, applied)
           \/ \E published \in BOOLEAN : CallbackProject(j, published)
           \/ CallbackCancel(j)
    PROVE  Watched(k)' /\ recovered' = recovered
  <1>0. /\ session.status = "QUESTION_OPEN" /\ failures = 0 /\ timer \in [Questions -> TimerState]
        /\ session \in SessionRow
    BY DEF Awaited, OpenAt, LInv, LiveTypeOK
  <1>a. j = k
    <2>1. timer[j].pc # "off"
      BY DEF TimerFire, CallbackCheck, CallbackRead, CallbackFinalize, CallbackWrite, CallbackFail,
             CallbackProject, CallbackCancel
    <2> QED
      BY <2>1 DEF Watched
  <1> DEFINE Result == /\ command' = command /\ recovered' = recovered
                       /\ \A i \in Questions \ {k} : timer'[i] = timer[i]
                       /\ \/ timer'[k].pc \in {"fired", "open"}
                          \/ timer'[k].pc \in {"closing", "finalized"} /\ timer'[k].seen = session
  <1>1. ASSUME TimerFire(j) PROVE Result
    BY <1>0, <1>a, <1>1 DEF TimerFire
  <1>2. ASSUME CallbackCheck(j) PROVE Result
    BY <1>0, <1>a, <1>2 DEF CallbackCheck
  <1>3. ASSUME CallbackRead(j) PROVE Result
    <2>1. timer' = [timer EXCEPT ![j] = [pc |-> "closing", seen |-> session]]
      BY <1>0, <1>3 DEF CallbackRead, Allowed
    <2> QED
      BY <1>0, <1>a, <1>3, <2>1 DEF CallbackRead
  <1>4. ASSUME CallbackFinalize(j) PROVE Result
    <2>1. timer[k].pc = "closing" /\ timer[k].seen = session /\ timer' = [timer EXCEPT ![k].pc = "finalized"]
      BY <1>a, <1>4 DEF CallbackFinalize, Watched, Closing
    <2>2. timer[k] \in [pc : {"closing", "finalized", "written"}, seen : SessionRow]
      BY <1>0, <2>1, TimerFields
    <2>3. timer'[k].pc = "finalized" /\ timer'[k].seen = session
      BY <1>0, <2>1, <2>2
    <2> QED
      BY <1>0, <1>4, <2>1, <2>3 DEF CallbackFinalize
  <1>5. ASSUME CallbackWrite(j) PROVE FALSE
    <2>1. timer[k].pc = "finalized" /\ timer[k].seen = session
      BY <1>a, <1>5 DEF CallbackWrite, Watched, Closing
    <2>2. CasMatches(timer[k].seen)
      BY <1>0, <2>1 DEF CasMatches
    <2>3. session' = After("close", session)
      BY <1>a, <1>5, <2>1, <2>2 DEF CallbackWrite
    <2> QED
      BY <1>0, <2>3, AfterDiffers
  <1>6. ASSUME NEW applied \in BOOLEAN, CallbackFail(j, applied) PROVE FALSE
    BY <1>0, <1>6 DEF CallbackFail
  <1>7. ASSUME (\E published \in BOOLEAN : CallbackProject(j, published)) \/ CallbackCancel(j) PROVE FALSE
    BY <1>a, <1>7 DEF CallbackProject, CallbackCancel, Watched
  <1>8. Result
    BY <1>1, <1>2, <1>3, <1>4, <1>5, <1>6, <1>7
  <1> QED
    BY <1>8 DEF Watched, Closing

\* A restart watches the question it finds open, and has ended every request.
LEMMA RestartWatches ==
    ASSUME LInv, RecoveryInv, NEW loaded \in BOOLEAN, NEW stored \in BOOLEAN, Restart(loaded, stored)
    PROVE  RecoveryInv'
  <1>1. session \in SessionRow /\ session.idx \in Int /\ session.idx >= -1 /\ session' = session
    BY RowFields, IndexArithmetic DEF LInv, LiveTypeOK, Restart
  <1>2. CASE loaded /\ session.status = "QUESTION_OPEN"
    <2>1. /\ timer' = [k \in Questions |-> Rearm(k)] /\ recovered' = session.idx
          /\ command' = [c \in Commands |-> NoCommand]
      BY <1>2 DEF Restart
    <2>2. ASSUME NEW k \in Questions, Awaited(k)' PROVE Watched(k)'
      <3>1. k = session.idx
        BY <2>1, <2>2 DEF Awaited
      <3>2. timer'[k].pc = "armed" /\ \A j \in Questions \ {k} : timer'[j].pc = "off"
        BY <1>2, <2>1, <3>1 DEF Rearm, Off
      <3>3. \A c \in Commands : command'[c].pc = "idle"
        BY <2>1 DEF NoCommand
      <3> QED
        BY <3>2, <3>3 DEF Watched, Closing
    <2> QED
      BY <1>1, <2>1, <2>2 DEF RecoveryInv, RecoveredIsWatched
  <1>3. CASE ~(loaded /\ session.status = "QUESTION_OPEN")
    <2>1. recovered' = NoQuestion
      BY <1>3 DEF Restart
    <2>2. \A k \in Questions : k # NoQuestion
      BY IndexArithmetic
    <2> QED
      BY <1>1, <2>1, <2>2, IndexArithmetic DEF RecoveryInv, RecoveredIsWatched, Awaited
  <1> QED
    BY <1>2, <1>3

\* Failures are only ever added to.
LEMMA FailuresGrow ==
    ASSUME LInv, [LiveNext]_liveVars, failures' = 0
    PROVE  failures = 0
  <1>1. failures \in Nat
    BY LiveConstants DEF LInv, LiveTypeOK
  <1>2. failures' = failures \/ failures' = failures + 1
    BY DEF LiveNext, FinalizeStep, OtherStep, CommandRead, CommandFinalize, CommandWrite, CommandFail,
           CommandProject, CommandTimer, TimerFire, CallbackCheck, CallbackRead, CallbackFinalize,
           CallbackWrite, CallbackFail, CallbackProject, CallbackCancel, Restart, Tolerated, liveVars
  <1> QED
    BY <1>1, <1>2

\* Every step of the session keeps the recovered question watched.
LEMMA RecoveryStep == LInv /\ RecoveryInv /\ [LiveNext]_liveVars => RecoveryInv'
  <1> SUFFICES ASSUME LInv, RecoveryInv, [LiveNext]_liveVars PROVE RecoveryInv'
    OBVIOUS
  <1>1. CASE \E loaded, stored \in BOOLEAN : Restart(loaded, stored)
    BY <1>1, RestartWatches
  <1>2. CASE FinalizeStep \/ OtherStep \/ UNCHANGED liveVars
    <2>1. recovered' = recovered
      BY <1>2 DEF FinalizeStep, OtherStep, CommandRead, CommandFinalize, CommandWrite, CommandFail,
           CommandProject, CommandTimer, TimerFire, CallbackCheck, CallbackRead, CallbackFinalize,
           CallbackWrite, CallbackFail, CallbackProject, CallbackCancel, liveVars
    <2>2. LInv' /\ RowStep
      BY StepLInv
    <2>3. recovered' <= session'.idx
      <3>1. recovered \in Int /\ session.idx \in Int /\ session'.idx \in Int /\ session.idx <= session'.idx
        BY <2>2, RowFields, RowStepForward, IndexArithmetic DEF LInv, LiveTypeOK
      <3> QED
        BY <2>1, <3>1 DEF RecoveryInv
    <2>4. ASSUME NEW k \in Questions, Awaited(k)' PROVE Watched(k)'
      <3>1. recovered = k /\ OpenAt(k)' /\ failures' = 0 /\ failures = 0 /\ k <= session.idx
        BY <2>1, <2>4, FailuresGrow DEF Awaited, RecoveryInv
      <3>2. session' = session /\ Awaited(k)
        BY <2>2, <3>1, OpenRowKept DEF Awaited
      <3>3. Watched(k)
        BY <3>2 DEF RecoveryInv, RecoveredIsWatched
      <3>4. CASE UNCHANGED liveVars
        BY <3>3, <3>4 DEF Watched, Closing, liveVars
      <3>5. CASE FinalizeStep \/ OtherStep
        <4>1. CASE \E c \in Commands :
                     \/ \E op \in Ops : CommandRead(c, op)
                     \/ CommandFinalize(c)
                     \/ CommandWrite(c)
                     \/ \E applied \in BOOLEAN : CommandFail(c, applied)
                     \/ \E stored, published \in BOOLEAN : CommandProject(c, stored, published)
                     \/ CommandTimer(c)
          BY <3>1, <3>2, <3>3, <4>1, CommandWatches
        <4>2. CASE \E j \in Questions :
                     \/ TimerFire(j)
                     \/ CallbackCheck(j)
                     \/ CallbackRead(j)
                     \/ CallbackFinalize(j)
                     \/ CallbackWrite(j)
                     \/ \E applied \in BOOLEAN : CallbackFail(j, applied)
                     \/ \E published \in BOOLEAN : CallbackProject(j, published)
                     \/ CallbackCancel(j)
          BY <3>1, <3>2, <3>3, <4>2, CallbackWatches
        <4> QED
          BY <3>5, <4>1, <4>2 DEF FinalizeStep, OtherStep
      <3> QED
        BY <1>2, <3>4, <3>5
    <2> QED
      BY <2>3, <2>4 DEF RecoveryInv, RecoveredIsWatched
  <1> QED
    BY <1>1, <1>2 DEF LiveNext

\* When the session is created nothing has been recovered.
LEMMA InitRecovery == LiveInit => RecoveryInv
  <1> SUFFICES ASSUME LiveInit PROVE RecoveryInv
    OBVIOUS
  <1>1. recovered = NoQuestion /\ session.idx = NoQuestion
    BY DEF LiveInit
  <1> QED
    BY <1>1, IndexArithmetic DEF RecoveryInv, RecoveredIsWatched, Awaited

\* The safety half of RecoveredQuestionCloses: a question that recovery found
\* open, and that is open still, has its timer or the callback it became on the
\* way to closing it, unless a call has failed since.  RecoverSessions and
\* ScheduleAutoClose lose no timer, and no request or callback left over from
\* before the restart can stop this one or beat its write.
THEOREM RecoveredQuestionWatched == LiveSpec => []RecoveredIsWatched
  <1>1. LInv /\ RecoveryInv /\ [LiveNext]_liveVars => LInv' /\ RecoveryInv'
    BY StepLInv, RecoveryStep
  <1>2. LiveInit => LInv /\ RecoveryInv
    BY InitLInv, InitRecovery
  <1>3. RecoveryInv => RecoveredIsWatched
    BY DEF RecoveryInv
  <1> QED
    BY <1>1, <1>2, <1>3, PTL DEF LiveSpec

-----------------------------------------------------------------------------
(* Sums of scores.  Proofs by induction take a least counterexample.       *)

\* A set of natural numbers that is not empty has a least element.
LEMMA LeastElement ==
    ASSUME NEW N \in SUBSET Nat, N # {}
    PROVE  \E m \in N : \A k \in N : m <= k
  <1>1. IsWellFoundedOn(OpToRel(<, Nat), Nat)
    BY NatLessThanWellFounded
  <1>2. PICK m \in N : \A k \in N : ~(<<k, m>> \in OpToRel(<, Nat))
    BY <1>1, WFMin
  <1>3. \A k \in N : ~(k < m)
    BY <1>2 DEF OpToRel
  <1>4. \A k \in N : k \in Nat /\ m \in Nat
    BY <1>2
  <1>5. \A k \in N : m <= k
    BY <1>3, <1>4
  <1> QED
    BY <1>2, <1>5

Picked(s) == CHOOSE x \in s : TRUE
ScoreSum(S) == MapThenSumSet(LAMBDA a : a.score, S)

\* g gives every subset of S its sum.
SumsOf(S, g) ==
    g = [s \in SUBSET S |-> IF s = {} THEN 0 ELSE Picked(s).score + g[s \ {Picked(s)}]]

\* What is picked from a set is an element of it.
LEMMA PickedElement == ASSUME NEW s, s # {} PROVE Picked(s) \in s
  BY DEF Picked

\* A smaller set remains.
LEMMA PickedRest ==
    ASSUME NEW s, IsFiniteSet(s), s # {}
    PROVE  /\ IsFiniteSet(s \ {Picked(s)}) /\ Cardinality(s) \in Nat \ {0}
           /\ Cardinality(s \ {Picked(s)}) = Cardinality(s) - 1
  BY PickedElement, FS_RemoveElement, FS_CardinalityType, FS_EmptySet

\* The subsets of a finite set have at most one family of sums ...
LEMMA SumsUnique ==
    ASSUME NEW S, IsFiniteSet(S), NEW g, NEW h, SumsOf(S, g), SumsOf(S, h)
    PROVE  g = h
  <1> DEFINE Bad == {n \in Nat : \E s \in SUBSET S : Cardinality(s) = n /\ g[s] # h[s]}
  <1>1. ASSUME Bad # {} PROVE FALSE
    <2>1. PICK m \in Bad : \A k \in Bad : m <= k
      BY <1>1, LeastElement
    <2>2. PICK s \in SUBSET S : Cardinality(s) = m /\ g[s] # h[s]
      BY <2>1
    <2>3. IsFiniteSet(s)
      BY FS_Subset
    <2>4. s # {}
      BY <2>2 DEF SumsOf
    <2> DEFINE t == s \ {Picked(s)}
    <2>5. t \in SUBSET S /\ Cardinality(t) \in Nat /\ Cardinality(t) = m - 1
      <3>1. IsFiniteSet(t) /\ Cardinality(t) = Cardinality(s) - 1
        BY <2>3, <2>4, PickedRest
      <3>2. Cardinality(t) \in Nat
        BY <3>1, FS_CardinalityType
      <3> QED
        BY <2>2, <3>1, <3>2
    <2>6. g[t] = h[t]
      BY <2>1, <2>5
    <2>7. g[s] = Picked(s).score + g[t] /\ h[s] = Picked(s).score + h[t]
      BY <2>4 DEF SumsOf
    <2> HIDE DEF t
    <2> QED
      BY <2>2, <2>6, <2>7
  <1>2. \A s \in SUBSET S : Cardinality(s) \in Nat
    BY FS_Subset, FS_CardinalityType
  <1>3. \A s \in SUBSET S : g[s] = h[s]
    BY <1>1, <1>2
  <1> QED
    BY <1>3 DEF SumsOf

\* ... and they have one.
LEMMA SumsExist ==
    ASSUME NEW S, IsFiniteSet(S)
    PROVE  \E g : SumsOf(S, g)
  <1> DEFINE Body(g, s) == IF s = {} THEN 0 ELSE Picked(s).score + g[s \ {Picked(s)}]
             Upto(n, g) == /\ g = [s \in SUBSET S |-> g[s]]
                           /\ \A s \in SUBSET S : Cardinality(s) <= n => g[s] = Body(g, s)
             Bad == {n \in Nat : ~\E g : Upto(n, g)}
  <1>1. \A s \in SUBSET S : IsFiniteSet(s) /\ Cardinality(s) \in Nat
    BY FS_Subset, FS_CardinalityType
  <1>2. ASSUME Bad # {} PROVE FALSE
    <2>1. PICK m \in Bad : \A k \in Bad : m <= k
      BY <1>2, LeastElement
    <2>2. m # 0
      <3> DEFINE z == [s \in SUBSET S |-> 0]
      <3>1. \A s \in SUBSET S : Cardinality(s) <= 0 => s = {}
        BY <1>1, FS_EmptySet
      <3>2. Upto(0, z)
        BY <3>1
      <3> HIDE DEF z, Upto
      <3> QED
        BY <2>1, <3>2
    <2>3. m - 1 \in Nat /\ m - 1 \notin Bad
      <3>1. m \in Nat
        BY <2>1
      <3> HIDE DEF Bad
      <3> QED
        BY <2>1, <2>2, <3>1
    <2>4. PICK g : Upto(m - 1, g)
      BY <2>3
    <2> DEFINE h == [s \in SUBSET S |-> Body(g, s)]
    <2>5. ASSUME NEW s \in SUBSET S, Cardinality(s) <= m - 1 PROVE h[s] = g[s]
      BY <2>4, <2>5
    <2>6. ASSUME NEW s \in SUBSET S, Cardinality(s) <= m PROVE h[s] = Body(h, s)
      <3>1. CASE s = {}
        BY <3>1
      <3>2. CASE s # {}
        <4>1. s \ {Picked(s)} \in SUBSET S /\ Cardinality(s \ {Picked(s)}) <= m - 1
          BY <1>1, <2>1, <2>6, <3>2, PickedRest
        <4>2. h[s \ {Picked(s)}] = g[s \ {Picked(s)}]
          BY <2>5, <4>1
        <4> QED
          BY <3>2, <4>2
      <3> QED
        BY <3>1, <3>2
    <2>7. Upto(m, h)
      BY <2>6
    <2> QED
      BY <2>1, <2>7
  <1>3. Cardinality(S) \in Nat /\ Cardinality(S) \notin Bad
    BY <1>1, <1>2
  <1>4. PICK g : Upto(Cardinality(S), g)
    BY <1>3
  <1>5. \A s \in SUBSET S : Cardinality(s) <= Cardinality(S)
    BY FS_Subset
  <1>6. SumsOf(S, g)
    BY <1>4, <1>5 DEF SumsOf
  <1> QED
    BY <1>6

\* The sum of a set is the score of the element picked and the sum of the rest.
LEMMA ScoreSumStep ==
    ASSUME NEW S, IsFiniteSet(S)
    PROVE  ScoreSum(S) = IF S = {} THEN 0 ELSE Picked(S).score + ScoreSum(S \ {Picked(S)})
  <1> DEFINE F(T) == CHOOSE g : SumsOf(T, g)
  <1>1. \A T : ScoreSum(T) = F(T)[T]
    BY DEF ScoreSum, MapThenSumSet, MapThenFoldSet, SumsOf, Picked
  <1>2. SumsOf(S, F(S))
    BY SumsExist
  <1>3. CASE S = {}
    BY <1>1, <1>2, <1>3 DEF SumsOf
  <1>4. CASE S # {}
    <2> DEFINE T == S \ {Picked(S)}
               r == [s \in SUBSET T |-> F(S)[s]]
    <2>1. IsFiniteSet(T) /\ T \in SUBSET S
      BY <1>4, PickedRest
    <2>2. SumsOf(T, F(T))
      BY <2>1, SumsExist
    <2>3. SumsOf(T, r)
      <3>1. \A s \in SUBSET T : s \ {Picked(s)} \in SUBSET T /\ s \in SUBSET S
        BY <2>1
      <3> QED
        BY <1>2, <3>1 DEF SumsOf
    <2>4. F(T) = r
      BY <2>1, <2>2, <2>3, SumsUnique
    <2>5. F(S)[S] = Picked(S).score + F(S)[T]
      BY <1>2, <1>4 DEF SumsOf
    <2>6. F(T)[T] = F(S)[T]
      BY <2>4
    <2>7. ScoreSum(S) = F(S)[S] /\ ScoreSum(T) = F(T)[T]
      BY <1>1
    <2> HIDE DEF F
    <2> QED
      BY <1>4, <2>5, <2>6, <2>7
  <1> QED
    BY <1>3, <1>4

\* A sum of scores is a natural number.
LEMMA ScoreSumType ==
    ASSUME NEW U, \A x \in U : x.score \in Nat, NEW S \in SUBSET U, IsFiniteSet(S)
    PROVE  ScoreSum(S) \in Nat
  <1> DEFINE Bad == {n \in Nat : \E s \in SUBSET U : /\ IsFiniteSet(s) /\ Cardinality(s) = n
                                                    /\ ScoreSum(s) \notin Nat}
  <1>1. ASSUME Bad # {} PROVE FALSE
    <2>1. PICK m \in Bad : \A k \in Bad : m <= k
      BY <1>1, LeastElement
    <2>2. PICK s \in SUBSET U : IsFiniteSet(s) /\ Cardinality(s) = m /\ ScoreSum(s) \notin Nat
      BY <2>1
    <2>3. s # {}
      <3>1. ScoreSum({}) = 0
        BY ScoreSumStep, FS_EmptySet
      <3> QED
        BY <2>2, <3>1
    <2>4. /\ IsFiniteSet(s \ {Picked(s)}) /\ Cardinality(s \ {Picked(s)}) = m - 1 /\ m \in Nat \ {0}
          /\ Picked(s) \in s
      BY <2>2, <2>3, PickedRest, PickedElement
    <2>5. ScoreSum(s \ {Picked(s)}) \in Nat
      <3>1. m - 1 \in Nat /\ m - 1 \notin Bad
        <4>1. \A k \in Bad : m <= k
          BY <2>1
        <4> HIDE DEF Bad
        <4> QED
          BY <2>4, <4>1
      <3> QED
        BY <2>4, <3>1
    <2>6. ScoreSum(s) = Picked(s).score + ScoreSum(s \ {Picked(s)})
      BY <2>2, <2>3, ScoreSumStep
    <2>7. Picked(s).score \in Nat
      BY <2>4
    <2> QED
      BY <2>2, <2>5, <2>6, <2>7
  <1>2. Cardinality(S) \in Nat
    BY FS_CardinalityType
  <1> QED
    BY <1>1, <1>2

\* Another element adds its score, in whatever order the sum is taken.
LEMMA ScoreSumAdd ==
    ASSUME NEW U, \A x \in U : x.score \in Nat,
           NEW S \in SUBSET U, IsFiniteSet(S), NEW a \in U, a \notin S
    PROVE  ScoreSum(S \cup {a}) = ScoreSum(S) + a.score
  <1> DEFINE Adds(s, b) == ScoreSum(s \cup {b}) = ScoreSum(s) + b.score
             Bad == {n \in Nat : \E s \in SUBSET U, b \in U : /\ IsFiniteSet(s) /\ Cardinality(s) = n
                                                             /\ b \notin s /\ ~Adds(s, b)}
  <1>1. ASSUME Bad # {} PROVE FALSE
    <2>1. PICK m \in Bad : \A k \in Bad : m <= k
      BY <1>1, LeastElement
    <2>2. PICK s \in SUBSET U, b \in U : /\ IsFiniteSet(s) /\ Cardinality(s) = m
                                         /\ b \notin s /\ ~Adds(s, b)
      BY <2>1
    <2> DEFINE t == s \cup {b}
               x == Picked(t)
    <2>3. IsFiniteSet(t) /\ t # {} /\ t \in SUBSET U
      BY <2>2, FS_AddElement
    <2>4. x \in t /\ x \in U
      BY <2>3, PickedElement
    <2>5. ScoreSum(t) = x.score + ScoreSum(t \ {x})
      BY <2>3, ScoreSumStep
    <2>6. ScoreSum(s) \in Nat /\ x.score \in Nat /\ b.score \in Nat
      BY <2>2, <2>4, ScoreSumType
    <2>7. x # b
      <3>1. SUFFICES ASSUME x = b PROVE FALSE
        OBVIOUS
      <3>2. t \ {x} = s
        BY <2>2, <3>1
      <3> HIDE DEF x, t
      <3>3. ScoreSum(t) = b.score + ScoreSum(s)
        BY <2>5, <3>1, <3>2
      <3>4. ScoreSum(t) = ScoreSum(s) + b.score
        BY <2>6, <3>3
      <3> QED
        BY <2>2, <3>4 DEF t
    <2> DEFINE w == s \ {x}
    <2>8. x \in s /\ t \ {x} = w \cup {b} /\ w \cup {x} = s /\ x \notin w /\ b \notin w /\ w \in SUBSET U
      <3>1. t = s \cup {b}
        OBVIOUS
      <3> HIDE DEF t, x
      <3> QED
        BY <2>2, <2>4, <2>7, <3>1
    <2>9. IsFiniteSet(w) /\ Cardinality(w) = m - 1 /\ Cardinality(w) \in Nat
      BY <2>2, <2>8, FS_RemoveElement, FS_CardinalityType
    <2>10. m - 1 \in Nat /\ m - 1 \notin Bad
      <3>1. \A k \in Bad : m <= k
        BY <2>1
      <3>2. m \in Nat
        BY <2>1
      <3> HIDE DEF Bad
      <3> QED
        BY <2>9, <3>1, <3>2
    <2>11. Adds(w, b) /\ Adds(w, x)
      <3> HIDE DEF w, x, Adds
      <3> QED
        BY <2>2, <2>4, <2>8, <2>9, <2>10
    <2>12. ScoreSum(w) \in Nat
      BY <2>8, <2>9, ScoreSumType
    <2>13. /\ ScoreSum(t \ {x}) = ScoreSum(w) + b.score
           /\ ScoreSum(s) = ScoreSum(w) + x.score
      <3> HIDE DEF w, x, t
      <3> QED
        BY <2>8, <2>11
    <2>14. ScoreSum(t) = ScoreSum(s) + b.score
      <3> HIDE DEF w, x, t
      <3> QED
        BY <2>5, <2>6, <2>12, <2>13
    <2> QED
      BY <2>2, <2>14
  <1>2. Cardinality(S) \in Nat
    BY FS_CardinalityType
  <1> QED
    BY <1>1, <1>2

\* More elements have no smaller sum.
LEMMA ScoreSumMonotone ==
    ASSUME NEW U, \A x \in U : x.score \in Nat,
           NEW S \in SUBSET U, IsFiniteSet(S), NEW T \in SUBSET S
    PROVE  ScoreSum(T) <= ScoreSum(S)
  <1> DEFINE Bad == {n \in Nat : \E s \in SUBSET S : /\ T \subseteq s /\ Cardinality(s) = n
                                                    /\ ~(ScoreSum(T) <= ScoreSum(s))}
  <1>1. ASSUME Bad # {} PROVE FALSE
    <2>1. PICK m \in Bad : \A k \in Bad : m <= k
      BY <1>1, LeastElement
    <2>2. PICK s \in SUBSET S : T \subseteq s /\ Cardinality(s) = m /\ ~(ScoreSum(T) <= ScoreSum(s))
      BY <2>1
    <2>3. IsFiniteSet(s) /\ s \in SUBSET U /\ T \in SUBSET U /\ IsFiniteSet(T)
      BY FS_Subset
    <2>4. ScoreSum(s) \in Nat /\ ScoreSum(T) \in Nat
      BY <2>3, ScoreSumType
    <2>5. s # T
      BY <2>2, <2>4
    <2>6. PICK b \in s : b \notin T
      BY <2>2, <2>5
    <2> DEFINE w == s \ {b}
    <2>7. /\ w \in SUBSET S /\ T \subseteq w /\ w \in SUBSET U /\ b \in U /\ b \notin w /\ w \cup {b} = s
      BY <2>2, <2>3, <2>6
    <2>8. IsFiniteSet(w) /\ Cardinality(w) = m - 1 /\ Cardinality(w) \in Nat
      BY <2>2, <2>3, <2>6, FS_RemoveElement, FS_CardinalityType
    <2>9. ScoreSum(T) <= ScoreSum(w)
      <3>1. \A k \in Bad : m <= k
        BY <2>1
      <3>2. m - 1 \in Nat /\ m - 1 \notin Bad
        <4>1. m \in Nat
          BY <2>1
        <4> HIDE DEF Bad
        <4> QED
          BY <2>8, <3>1, <4>1
      <3> HIDE DEF w
      <3> QED
        BY <2>7, <2>8, <3>2
    <2>10. ScoreSum(s) = ScoreSum(w) + b.score
      <3> HIDE DEF w
      <3> QED
        BY <2>7, <2>8, ScoreSumAdd
    <2>11. ScoreSum(w) \in Nat /\ b.score \in Nat
      BY <2>7, <2>8, ScoreSumType
    <2> HIDE DEF w
    <2> QED
      BY <2>2, <2>4, <2>9, <2>10, <2>11
  <1>2. Cardinality(S) \in Nat
    BY FS_CardinalityType
  <1> QED
    BY <1>1, <1>2

-----------------------------------------------------------------------------
(* The inductive invariant.                                                *)

Committed(r) == submit[r].pc = "committed"
StoredBy(r) == Scored(submit[r].req, submit[r].bonus)

\* Who submits or has answered has joined.
AnswerersJoined ==
    /\ \A r \in Submits : submit[r].pc # "idle" => submit[r].req.player \in joined
    /\ \A a \in answers : a.player \in joined

\* A submission that passed the check is for a question that was opened.
CheckedOpened ==
    \A r \in Submits : submit[r].pc \in {"open", "timely"} => submit[r].req.q <= session.idx

\* A committed submission has its answer stored, and no other has stored that one.
CommittedStored ==
    /\ \A r \in Submits : Committed(r) => StoredBy(r) \in answers
    /\ \A r, x \in Submits : Committed(r) /\ Committed(x) /\ StoredBy(r) = StoredBy(x) => r = x

\* The totals, and the sums a finalization will write over them, are backed by
\* the answers.
TotalsBacked ==
    \A p \in Players :
        /\ total[p] <= Earned(p)
        /\ \A f \in Finalizers : snapshot[f][p] <= Earned(p)

\* The leaderboard is backed by the answers whose submission is done with it.
Projected(p) == {a \in answers : a.player = p /\ \A r \in Submits : Committed(r) => StoredBy(r) # a}
BoardBacked == \A p \in Players : board[p] <= ScoreSum(Projected(p))

AInv ==
    /\ LInv /\ AnswersTypeOK /\ IsFiniteSet(answers)
    /\ AnswerersJoined /\ CheckedOpened /\ CommittedStored
    /\ OneAnswerToOpenedQuestion /\ AcceptedIsStored
    /\ TotalsBacked /\ BoardBacked

-----------------------------------------------------------------------------
(* Types, and sums over the answers.                                       *)

SubmitState ==
    [pc : {"idle"}]
        \cup [pc : {"started", "new", "open", "timely"} \cup Replied, req : Request]
        \cup [pc : {"committed"}, req : Request, bonus : Bonuses]

\* A submission under way remembers its request, a committed one its bonus.
LEMMA SubmitFields ==
    ASSUME NEW x \in SubmitState, x.pc # "idle"
    PROVE  /\ x.req \in Request
           /\ x.pc = "committed" => x.bonus \in Bonuses
           /\ x.pc # "committed" => x \in [pc : {"started", "new", "open", "timely"} \cup Replied, req : Request]
  BY DEF SubmitState, Replied

\* A submission that moves on keeps its request.
LEMMA SubmitMoves ==
    ASSUME NEW x \in SubmitState, x.pc \notin {"idle", "committed"},
           NEW pc \in {"started", "new", "open", "timely"} \cup Replied
    PROVE  /\ [x EXCEPT !.pc = pc] \in SubmitState
           /\ [x EXCEPT !.pc = pc].pc = pc /\ [x EXCEPT !.pc = pc].req = x.req
  BY SubmitFields DEF SubmitState

\* The score of an answer is a natural number.
LEMMA ScoresAreNatural == \A a \in Answer : a.score \in Nat
  BY AnswerConstants DEF Answer, Scores, BaseScore

\* The answer a submission stores is an answer.
LEMMA ScoredType ==
    ASSUME NEW req \in Request, NEW bonus \in Bonuses
    PROVE  /\ Scored(req, bonus) \in Answer
           /\ Scored(req, bonus).player = req.player /\ Scored(req, bonus).q = req.q
           /\ Scored(req, bonus).choice = req.choice
  BY AnswerConstants DEF Scored, Answer, Request, Points, Scores

EarnedFrom(A, p) == ScoreSum({a \in A : a.player = p})

\* What a player has earned is a sum of scores, before and after a step.
LEMMA EarnedIsSum ==
    ASSUME NEW p
    PROVE  Earned(p) = EarnedFrom(answers, p) /\ Earned(p)' = EarnedFrom(answers', p)
  <1>1. Earned(p) = EarnedFrom(answers, p)
    BY DEF Earned, EarnedFrom, ScoreSum, MapThenSumSet, MapThenFoldSet
  <1>2. Earned(p)' = EarnedFrom(answers', p)
    BY DEF Earned, EarnedFrom, ScoreSum, MapThenSumSet, MapThenFoldSet
  <1> QED
    BY <1>1, <1>2

\* A new answer earns its player its score, and nobody else anything.
LEMMA EarnedAdd ==
    ASSUME NEW A \in SUBSET Answer, IsFiniteSet(A), NEW b \in Answer, b \notin A, NEW p
    PROVE  /\ EarnedFrom(A, p) \in Nat
           /\ EarnedFrom(A \cup {b}, p) = EarnedFrom(A, p) + (IF b.player = p THEN b.score ELSE 0)
  <1> DEFINE S == {a \in A : a.player = p}
             T == {a \in A \cup {b} : a.player = p}
  <1>1. S \in SUBSET Answer /\ IsFiniteSet(S) /\ b \notin S
    BY FS_Subset
  <1>2. ScoreSum(S) \in Nat /\ b.score \in Nat
    BY <1>1, ScoreSumType, ScoresAreNatural
  <1>3. CASE b.player = p
    <2>1. T = S \cup {b}
      BY <1>3
    <2>2. ScoreSum(S \cup {b}) = ScoreSum(S) + b.score
      <3> HIDE DEF S
      <3> QED
        BY <1>1, ScoreSumAdd, ScoresAreNatural
    <2> QED
      BY <1>2, <1>3, <2>1, <2>2 DEF EarnedFrom
  <1>4. CASE b.player # p
    <2>1. T = S
      BY <1>4
    <2>2. EarnedFrom(A, p) = ScoreSum(S) /\ EarnedFrom(A \cup {b}, p) = ScoreSum(T)
      BY DEF EarnedFrom
    <2> HIDE DEF S, T
    <2> QED
      BY <1>2, <1>4, <2>1, <2>2
  <1> QED
    BY <1>3, <1>4

\* More answers earn no less.
LEMMA EarnedMonotone ==
    ASSUME NEW A \in SUBSET Answer, IsFiniteSet(A), NEW B \in SUBSET A, NEW p
    PROVE  /\ EarnedFrom(A, p) \in Nat /\ EarnedFrom(B, p) \in Nat
           /\ EarnedFrom(B, p) <= EarnedFrom(A, p)
  <1> DEFINE S == {a \in A : a.player = p}
             T == {a \in B : a.player = p}
  <1>1. S \in SUBSET Answer /\ IsFiniteSet(S) /\ T \in SUBSET S /\ T \in SUBSET Answer /\ IsFiniteSet(T)
    <2>1. S \in SUBSET A /\ T \in SUBSET S /\ T \in SUBSET A
      OBVIOUS
    <2> HIDE DEF S, T
    <2> QED
      BY <2>1, FS_Subset
  <1> HIDE DEF S, T
  <1>2. ScoreSum(S) \in Nat /\ ScoreSum(T) \in Nat /\ ScoreSum(T) <= ScoreSum(S)
    BY <1>1, ScoreSumType, ScoreSumMonotone, ScoresAreNatural
  <1> QED
    BY <1>2 DEF EarnedFrom, S, T

\* What the invariant says of the types, in the form the steps use.
LEMMA AnswerTypes ==
    ASSUME AInv
    PROVE  /\ answers \in SUBSET Answer /\ IsFiniteSet(answers)
           /\ submit \in [Submits -> SubmitState]
           /\ session.idx \in Int /\ Questions \subseteq Int
           /\ \A p : Earned(p) \in Nat
  <1>1. answers \in SUBSET Answer /\ IsFiniteSet(answers) /\ submit \in [Submits -> SubmitState]
    BY DEF AInv, AnswersTypeOK, SubmitState
  <1>2. session.idx \in Int /\ Questions \subseteq Int
    BY RowFields, IndexArithmetic DEF AInv, LInv, LiveTypeOK
  <1>3. \A p : Earned(p) \in Nat
    BY <1>1, EarnedIsSum, EarnedMonotone
  <1> QED
    BY <1>1, <1>2, <1>3

-----------------------------------------------------------------------------
(* What a step must keep, conjunct by conjunct.                            *)

\* The step of the live session underneath.
LiveMoves == LInv' /\ session'.idx \in Int /\ session.idx <= session'.idx

\* No submission becomes committed, except for an answer that was not stored.
NoneCommits ==
    \A r \in Submits : Committed(r)' =>
        \/ Committed(r) /\ submit'[r] = submit[r]
        \/ StoredBy(r)' \notin answers

\* Answers are only added.
AnswersAdded == answers' \in SUBSET Answer /\ IsFiniteSet(answers') /\ answers \subseteq answers'

\* The leaderboard stays backed when it is left alone.
LEMMA BoardKept ==
    ASSUME AInv, AnswersAdded, NoneCommits, board' = board
    PROVE  BoardBacked'
  <1> SUFFICES ASSUME NEW p \in Players
               PROVE  board'[p] <= ScoreSum(Projected(p)')
    BY DEF BoardBacked, ScoreSum, MapThenSumSet, MapThenFoldSet
  <1> DEFINE S == Projected(p)'
             T == Projected(p)
  <1>1. T \subseteq S
    <2> SUFFICES ASSUME NEW a \in answers, a.player = p,
                        \A r \in Submits : Committed(r) => StoredBy(r) # a,
                        NEW r \in Submits, Committed(r)'
                 PROVE  StoredBy(r)' # a
      BY DEF Projected, AnswersAdded
    <2>1. CASE Committed(r) /\ submit'[r] = submit[r]
      BY <2>1 DEF StoredBy
    <2>2. CASE StoredBy(r)' \notin answers
      BY <2>2
    <2> QED
      BY <2>1, <2>2 DEF NoneCommits
  <1>2. S \in SUBSET Answer /\ IsFiniteSet(S)
    <2>1. S \in SUBSET answers'
      BY DEF Projected
    <2> HIDE DEF S
    <2> QED
      BY <2>1, FS_Subset DEF AnswersAdded
  <1> HIDE DEF S, T
  <1>3. ScoreSum(T) <= ScoreSum(S) /\ ScoreSum(S) \in Nat
    BY <1>1, <1>2, ScoreSumMonotone, ScoreSumType, ScoresAreNatural
  <1>4. ScoreSum(T) \in Nat
    <2>1. T \in SUBSET Answer /\ IsFiniteSet(T)
      BY <1>1, <1>2, FS_Subset
    <2> QED
      BY <2>1, ScoreSumType, ScoresAreNatural
  <1>5. board[p] <= ScoreSum(T) /\ board[p] \in Nat
    BY DEF AInv, BoardBacked, AnswersTypeOK, T
  <1> QED
    BY <1>3, <1>4, <1>5 DEF S

\* So do the totals, and the sums that are to be written.
LEMMA TotalsKept ==
    ASSUME AInv, AnswersAdded,
           \A p \in Players : total'[p] = total[p] \/ total'[p] <= Earned(p)',
           \A p \in Players, f \in Finalizers : snapshot'[f][p] = snapshot[f][p] \/ snapshot'[f][p] <= Earned(p)'
    PROVE  TotalsBacked'
  <1> SUFFICES ASSUME NEW p \in Players
               PROVE  /\ total'[p] <= Earned(p)'
                      /\ \A f \in Finalizers : snapshot'[f][p] <= Earned(p)'
    BY DEF TotalsBacked, Finalizers, Questions
  <1>1. Earned(p) \in Nat /\ Earned(p)' \in Nat /\ Earned(p) <= Earned(p)'
    BY EarnedIsSum, EarnedMonotone DEF AnswersAdded
  <1>2. total[p] \in Nat /\ total[p] <= Earned(p)
    BY DEF AInv, AnswersTypeOK, TotalsBacked
  <1>3. ASSUME NEW f \in Finalizers PROVE snapshot[f][p] \in Int /\ snapshot[f][p] <= Earned(p)
    BY DEF AInv, AnswersTypeOK, TotalsBacked
  <1> QED
    BY <1>1, <1>2, <1>3

\* Submissions stay what their answers say of them.
LEMMA CommitsKept ==
    ASSUME AInv, answers' = answers,
           \A r \in Submits : Committed(r)' => Committed(r) /\ submit'[r] = submit[r]
    PROVE  CommittedStored' /\ NoneCommits
  <1>1. \A r \in Submits : Committed(r)' => StoredBy(r)' = StoredBy(r)
    BY DEF StoredBy
  <1>2. CommittedStored
    BY DEF AInv
  <1>3. NoneCommits
    BY DEF NoneCommits
  <1>4. \A r \in Submits : Committed(r)' => StoredBy(r)' \in answers'
    BY <1>1, <1>2 DEF CommittedStored
  <1>5. \A r, x \in Submits : Committed(r)' /\ Committed(x)' /\ StoredBy(r)' = StoredBy(x)' => r = x
    BY <1>1, <1>2 DEF CommittedStored
  <1> QED
    BY <1>3, <1>4, <1>5 DEF CommittedStored

\* Every question answered stays one that was opened.
LEMMA OpenedKept ==
    ASSUME AInv, LiveMoves, answers' = answers
    PROVE  OneAnswerToOpenedQuestion'
  <1>1. \A a \in answers : a.q \in Int
    BY AnswerTypes DEF Answer
  <1> QED
    BY <1>1, AnswerTypes DEF AInv, LiveMoves, OneAnswerToOpenedQuestion

\* A submission for an opened question stays one.
LEMMA CheckedKept ==
    ASSUME AInv, LiveMoves,
           \A r \in Submits : submit'[r].pc \in {"open", "timely"} =>
               \/ submit'[r] = submit[r]
               \/ submit'[r].req \in Request /\ submit'[r].req.q <= session.idx
    PROVE  CheckedOpened'
  <1> SUFFICES ASSUME NEW r \in Submits, submit'[r].pc \in {"open", "timely"}
               PROVE  submit'[r].req.q <= session'.idx
    BY DEF CheckedOpened
  <1>1. submit'[r].req \in Request /\ submit'[r].req.q <= session.idx
    BY AnswerTypes, SubmitFields DEF AInv, CheckedOpened
  <1> QED
    BY <1>1, AnswerTypes DEF LiveMoves, Request

-----------------------------------------------------------------------------
(* The steps of a submission.                                              *)

\* A submission moves to a state that stores nothing.
LEMMA SubmissionStep ==
    ASSUME AInv, LiveMoves, NEW r \in Submits, NEW y \in SubmitState,
           submit[r].pc # "committed" \/ y.pc \in {"idle", "accepted"}, y.pc # "committed",
           submit' = [submit EXCEPT ![r] = y],
           UNCHANGED <<joining, joined, answers, total, board, snapshot, expired, announced>>,
           y.pc # "idle" => y.req.player \in joined,
           y.pc \in {"open", "timely"} => y.req.q <= session.idx,
           y.pc = "accepted" => \E a \in answers : /\ a.player = y.req.player /\ a.q = y.req.q
                                                  /\ a.choice = y.req.choice
    PROVE  AInv'
  <1>1. /\ submit' \in [Submits -> SubmitState] /\ submit'[r] = y
        /\ \A x \in Submits : x # r => submit'[x] = submit[x]
    BY AnswerTypes
  <1>2. \A x \in Submits : Committed(x)' => Committed(x) /\ submit'[x] = submit[x]
    BY <1>1 DEF Committed
  <1>3. AnswersTypeOK' /\ IsFiniteSet(answers')
    BY <1>1 DEF AInv, AnswersTypeOK, LiveMoves, LInv, SubmitState
  <1>4. AnswersAdded
    BY AnswerTypes DEF AnswersAdded
  <1>5. CommittedStored' /\ NoneCommits
    BY <1>2, CommitsKept
  <1>6. TotalsBacked' /\ BoardBacked'
    BY <1>4, <1>5, TotalsKept, BoardKept
  <1>7. AnswerersJoined'
    BY <1>1 DEF AInv, AnswerersJoined
  <1>8. CheckedOpened'
    BY <1>1, SubmitFields, CheckedKept
  <1>9. AcceptedIsStored'
    <2>1. AcceptedIsStored
      BY DEF AInv
    <2>2. ASSUME NEW x \in Submits, submit'[x].pc = "accepted"
          PROVE  \E a \in answers : /\ a.player = submit'[x].req.player /\ a.q = submit'[x].req.q
                                    /\ a.choice = submit'[x].req.choice
      BY <1>1, <2>1, <2>2 DEF AcceptedIsStored
    <2> QED
      BY <2>1, <2>2 DEF AcceptedIsStored
  <1> QED
    BY <1>3, <1>5, <1>6, <1>7, <1>8, <1>9, OpenedKept DEF AInv, LiveMoves

\* What a lookup by key tells a submission is true of the answers.
LEMMA LookupSound ==
    ASSUME AInv, NEW r \in Submits, submit[r].pc # "idle", NEW ok \in BOOLEAN, NEW absent,
           absent \notin Replied
    PROVE  LET found == IF ok THEN WithKey(submit[r].req.player, submit[r].req.key) ELSE {}
               pc == LookedUp(r, found, absent)
           IN  /\ pc \in Replied \cup {absent}
               /\ found # {} => pc \in Replied
               /\ pc = "accepted" => \E a \in answers : /\ a.player = submit[r].req.player
                                                        /\ a.q = submit[r].req.q
                                                        /\ a.choice = submit[r].req.choice
  <1> DEFINE found == IF ok THEN WithKey(submit[r].req.player, submit[r].req.key) ELSE {}
  <1>1. \A a \in found : a \in answers /\ a.player = submit[r].req.player
    BY DEF WithKey
  <1>2. \A a \in found : SameAnswer(a, r) => a.q = submit[r].req.q /\ a.choice = submit[r].req.choice
    BY DEF SameAnswer, JsonbText, Marshalled
  <1> HIDE DEF found
  <1>3. /\ LookedUp(r, found, absent) \in Replied \cup {absent}
        /\ found # {} => LookedUp(r, found, absent) \in Replied
        /\ LookedUp(r, found, absent) = "accepted" => \E a \in found : SameAnswer(a, r)
    BY DEF LookedUp, Replied
  <1> QED
    BY <1>1, <1>2, <1>3 DEF found

\* The steps of a submission before it stores its answer.
LEMMA SubmissionSteps ==
    ASSUME AInv, LiveMoves, NEW r \in Submits
    PROVE  /\ \A req \in Request : SubmitStart(r, req) => AInv'
           /\ \A ok \in BOOLEAN : SubmitLookup(r, ok) => AInv'
           /\ SubmitCheck(r) => AInv'
           /\ SubmitDeadline(r) => AInv'
           /\ \A ok \in BOOLEAN : SubmitRefused(r, ok) => AInv'
  <1>0. /\ submit[r] \in SubmitState /\ AnswerersJoined /\ CheckedOpened /\ NoSubmit \in SubmitState
        /\ NoSubmit.pc = "idle"
    BY AnswerTypes DEF AInv, SubmitState, NoSubmit
  <1>1. ASSUME NEW req \in Request, SubmitStart(r, req) PROVE AInv'
    <2> DEFINE y == [pc |-> "started", req |-> req]
    <2>1. y \in SubmitState /\ y.pc = "started" /\ y.req = req
      BY DEF SubmitState
    <2>2. /\ submit[r].pc = "idle" /\ req.player \in joined /\ submit' = [submit EXCEPT ![r] = y]
          /\ UNCHANGED <<joining, joined, answers, total, board, snapshot, expired, announced>>
      BY <1>1 DEF SubmitStart
    <2> HIDE DEF y
    <2> QED
      BY <2>1, <2>2, SubmissionStep
  <1>2. ASSUME NEW ok \in BOOLEAN, SubmitLookup(r, ok) PROVE AInv'
    <2> DEFINE found == IF ok THEN WithKey(submit[r].req.player, submit[r].req.key) ELSE {}
               pc == LookedUp(r, found, "new")
               y == [submit[r] EXCEPT !.pc = pc]
    <2>1. /\ submit[r].pc = "started" /\ submit' = [submit EXCEPT ![r].pc = pc]
          /\ UNCHANGED <<joining, joined, answers, total, board, snapshot, expired, announced>>
      BY <1>2 DEF SubmitLookup
    <2>2. /\ pc \in Replied \cup {"new"}
          /\ pc = "accepted" => \E a \in answers : /\ a.player = submit[r].req.player
                                                   /\ a.q = submit[r].req.q
                                                   /\ a.choice = submit[r].req.choice
      BY <2>1, LookupSound DEF Replied
    <2> HIDE DEF pc
    <2>3. y \in SubmitState /\ y.pc = pc /\ y.req = submit[r].req
      BY <1>0, <2>1, <2>2, SubmitMoves
    <2>4. submit' = [submit EXCEPT ![r] = y]
      BY <2>1
    <2>5. y.req.player \in joined
      BY <1>0, <2>1, <2>3 DEF AnswerersJoined
    <2>6. /\ y.pc \notin {"idle", "committed", "open", "timely"}
          /\ y.pc = "accepted" => \E a \in answers : /\ a.player = y.req.player /\ a.q = y.req.q
                                                     /\ a.choice = y.req.choice
      BY <2>2, <2>3 DEF Replied
    <2> HIDE DEF y, found
    <2> QED
      BY <2>1, <2>3, <2>4, <2>5, <2>6, SubmissionStep
  <1>3. ASSUME NEW to \in {"open", "timely"}, NEW ok \in BOOLEAN, submit[r].pc \in {"new", "open"},
               Reaches(r, ok, to), ok => submit[r].req.q <= session.idx,
               UNCHANGED <<joining, joined, answers, total, board, snapshot, expired, announced>>
        PROVE  AInv'
    <2> DEFINE y == IF ok THEN [submit[r] EXCEPT !.pc = to] ELSE NoSubmit
    <2>1. submit' = [submit EXCEPT ![r] = y]
      BY <1>3 DEF Reaches
    <2>2. /\ y \in SubmitState /\ y.pc \in {"idle", to}
          /\ y.pc # "idle" => y.req = submit[r].req /\ ok
      BY <1>0, <1>3, SubmitMoves
    <2>3. submit[r].req.player \in joined
      BY <1>0, <1>3 DEF AnswerersJoined
    <2> HIDE DEF y
    <2> QED
      BY <1>3, <2>1, <2>2, <2>3, SubmissionStep
  <1>4. ASSUME SubmitCheck(r) PROVE AInv'
    <2>1. OpenAt(submit[r].req.q) => submit[r].req.q <= session.idx
      BY AnswerTypes DEF OpenAt
    <2>2. OpenAt(submit[r].req.q) \in BOOLEAN
      BY DEF OpenAt
    <2> QED
      BY <1>3, <1>4, <2>1, <2>2 DEF SubmitCheck
  <1>5. ASSUME SubmitDeadline(r) PROVE AInv'
    <2>1. submit[r].pc = "open" /\ submit[r].req.q <= session.idx
      BY <1>0, <1>5 DEF SubmitDeadline, CheckedOpened
    <2> QED
      BY <1>3, <1>5, <2>1 DEF SubmitDeadline
  <1>6. ASSUME NEW ok \in BOOLEAN, SubmitRefused(r, ok) PROVE AInv'
    <2> DEFINE found == IF ok THEN WithKey(submit[r].req.player, submit[r].req.key) ELSE {}
               pc == LookedUp(r, found, "refused")
               y == IF found # {} THEN [submit[r] EXCEPT !.pc = pc] ELSE NoSubmit
    <2>1. /\ submit[r].pc = "timely" /\ Reaches(r, found # {}, pc)
          /\ UNCHANGED <<joining, joined, answers, total, board, snapshot, expired, announced>>
      BY <1>6 DEF SubmitRefused
    <2>2. /\ found # {} => pc \in Replied
          /\ pc = "accepted" => \E a \in answers : /\ a.player = submit[r].req.player
                                                   /\ a.q = submit[r].req.q
                                                   /\ a.choice = submit[r].req.choice
      BY <2>1, LookupSound DEF Replied
    <2>3. submit' = [submit EXCEPT ![r] = y]
      BY <2>1 DEF Reaches
    <2> HIDE DEF pc, found
    <2>4. /\ y \in SubmitState /\ y.pc \in Replied \cup {"idle"}
          /\ y.pc # "idle" => y.req = submit[r].req /\ y.pc = pc
      BY <1>0, <2>1, <2>2, SubmitMoves
    <2>5. submit[r].req.player \in joined
      BY <1>0, <2>1 DEF AnswerersJoined
    <2> HIDE DEF y
    <2> QED
      BY <2>1, <2>2, <2>3, <2>4, <2>5, SubmissionStep DEF Replied
  <1> QED
    BY <1>1, <1>2, <1>4, <1>5, <1>6

\* What storing an answer means: it is new, worth its score to its player, and
\* answers a question that was opened.
LEMMA StoredAnswer ==
    ASSUME AInv, NEW r \in Submits, submit[r].pc = "timely", NEW bonus \in Bonuses, Stores(r, bonus),
           NEW answer, answer = Scored(submit[r].req, bonus)
    PROVE  /\ submit[r].req \in Request
           /\ answer \in Answer /\ answer \notin answers /\ answers' = answers \cup {answer}
           /\ answer.player = submit[r].req.player /\ answer.player \in joined
           /\ answer.q = submit[r].req.q /\ answer.q <= session.idx
           /\ answer.choice = submit[r].req.choice
           /\ \A a \in answers : ~(a.player = answer.player /\ a.q = answer.q)
           /\ total' \in [Players -> Nat]
           /\ \A p \in Players :
                  total'[p] = total[p] + (IF answer.player = p THEN answer.score ELSE 0)
           /\ AnswersAdded
           /\ snapshot' = snapshot => TotalsBacked'
  <1>1. submit[r].req \in Request
    BY AnswerTypes, SubmitFields
  <1>2. /\ answer \in Answer /\ answer.player = submit[r].req.player /\ answer.q = submit[r].req.q
        /\ answer.choice = submit[r].req.choice
    BY <1>1, ScoredType
  <1>3. /\ answers' = answers \cup {answer}
        /\ total' = [total EXCEPT ![answer.player] = @ + answer.score]
        /\ ~Duplicate(submit[r].req)
    BY DEF Stores
  <1>4. \A a \in answers : ~(a.player = answer.player /\ a.q = answer.q)
    BY <1>2, <1>3 DEF Duplicate
  <1>5. answer.player \in joined /\ answer.q <= session.idx
    BY <1>2 DEF AInv, AnswerersJoined, CheckedOpened
  <1>6. answer.score \in Nat /\ answer.player \in Players
    BY <1>2, ScoresAreNatural DEF Answer
  <1>7. /\ total' \in [Players -> Nat]
        /\ \A p \in Players : total'[p] = total[p] + (IF answer.player = p THEN answer.score ELSE 0)
    BY <1>3, <1>6 DEF AInv, AnswersTypeOK
  <1>8. AnswersAdded
    BY <1>2, <1>3, AnswerTypes, FS_AddElement DEF AnswersAdded
  <1>9. ASSUME snapshot' = snapshot PROVE TotalsBacked'
    <2>1. ASSUME NEW p \in Players PROVE total'[p] <= Earned(p)'
      <3>1. /\ Earned(p) \in Nat
            /\ Earned(p)' = Earned(p) + (IF answer.player = p THEN answer.score ELSE 0)
        BY <1>2, <1>3, <1>4, AnswerTypes, EarnedIsSum, EarnedAdd
      <3>2. total[p] \in Nat /\ total[p] <= Earned(p)
        BY DEF AInv, AnswersTypeOK, TotalsBacked
      <3> QED
        BY <1>6, <1>7, <3>1, <3>2
    <2> QED
      BY <1>8, <1>9, <2>1, TotalsKept
  <1> QED
    BY <1>1, <1>2, <1>3, <1>4, <1>5, <1>7, <1>8, <1>9

\* The commit of a submission, and a commit the service does not hear of.
LEMMA CommitStep ==
    ASSUME AInv, LiveMoves, NEW r \in Submits, submit[r].pc = "timely", NEW bonus \in Bonuses,
           Stores(r, bonus), NEW y \in SubmitState, submit' = [submit EXCEPT ![r] = y],
           y = NoSubmit \/ (y.pc = "committed" /\ y.req = submit[r].req /\ y.bonus = bonus),
           UNCHANGED <<joining, joined, board, snapshot, expired, announced>>
    PROVE  AInv'
  <1> DEFINE answer == Scored(submit[r].req, bonus)
  <1>1. /\ submit[r].req \in Request
        /\ answer \in Answer /\ answer \notin answers /\ answers' = answers \cup {answer}
        /\ answer.player = submit[r].req.player /\ answer.player \in joined
        /\ answer.q = submit[r].req.q /\ answer.q <= session.idx
        /\ \A a \in answers : ~(a.player = answer.player /\ a.q = answer.q)
        /\ total' \in [Players -> Nat] /\ AnswersAdded /\ TotalsBacked'
    BY StoredAnswer
  <1>2. /\ submit' \in [Submits -> SubmitState] /\ submit'[r] = y
        /\ \A x \in Submits : x # r => submit'[x] = submit[x]
    BY AnswerTypes
  <1>3. y.pc = "idle" \/ (y.pc = "committed" /\ y.req = submit[r].req)
    BY DEF NoSubmit
  <1>4. /\ Committed(r)' => StoredBy(r)' = answer
        /\ \A x \in Submits : x # r => /\ Committed(x)' <=> Committed(x)
                                       /\ StoredBy(x)' = StoredBy(x)
    BY <1>2 DEF Committed, StoredBy, NoSubmit
  <1> HIDE DEF answer
  <1>5. AnswersTypeOK' /\ IsFiniteSet(answers')
    BY <1>1, <1>2 DEF AInv, AnswersTypeOK, LiveMoves, LInv, SubmitState, AnswersAdded
  <1>6. NoneCommits
    <2> SUFFICES ASSUME NEW x \in Submits, Committed(x)', x # r
                 PROVE  Committed(x) /\ submit'[x] = submit[x]
      BY <1>1, <1>4 DEF NoneCommits
    <2> QED
      BY <1>2, <1>4
  <1>7. CommittedStored'
    <2>1. CommittedStored
      BY DEF AInv
    <2>2. \A x \in Submits : Committed(x)' => StoredBy(x)' \in answers'
      BY <1>1, <1>4, <2>1 DEF CommittedStored
    <2>3. ASSUME NEW x \in Submits, NEW z \in Submits, Committed(x)', Committed(z)', StoredBy(x)' = StoredBy(z)'
          PROVE  x = z
      <3>1. CASE x # r /\ z # r
        BY <1>4, <2>1, <2>3, <3>1 DEF CommittedStored
      <3>2. CASE x = r /\ z # r
        BY <1>1, <1>4, <2>1, <2>3, <3>2 DEF CommittedStored
      <3>3. CASE x # r /\ z = r
        BY <1>1, <1>4, <2>1, <2>3, <3>3 DEF CommittedStored
      <3> QED
        BY <3>1, <3>2, <3>3
    <2> QED
      BY <2>2, <2>3 DEF CommittedStored
  <1>8. BoardBacked'
    BY <1>1, <1>6, BoardKept
  <1>9. AnswerersJoined'
    BY <1>1, <1>2, <1>3 DEF AInv, AnswerersJoined
  <1>10. CheckedOpened'
    BY <1>2, <1>3, CheckedKept
  <1>11. OneAnswerToOpenedQuestion'
    <2>1. OneAnswerToOpenedQuestion /\ \A a \in answers \cup {answer} : a.q \in Int
      BY <1>1, AnswerTypes DEF AInv, Answer
    <2> QED
      BY <1>1, <2>1, AnswerTypes DEF LiveMoves, OneAnswerToOpenedQuestion
  <1>12. AcceptedIsStored'
    <2>1. AcceptedIsStored
      BY DEF AInv
    <2>2. \A x \in Submits : submit'[x].pc = "accepted" => submit'[x] = submit[x]
      BY <1>2, <1>3
    <2> QED
      BY <1>1, <2>1, <2>2 DEF AcceptedIsStored
  <1> QED
    BY <1>1, <1>5, <1>7, <1>8, <1>9, <1>10, <1>11, <1>12 DEF AInv, LiveMoves

\* The projection of a committed answer: the leaderboard takes its score once.
LEMMA ProjectStep ==
    ASSUME AInv, LiveMoves, NEW r \in Submits, NEW stored \in BOOLEAN, NEW published \in BOOLEAN,
           SubmitProject(r, stored, published)
    PROVE  AInv'
  <1> DEFINE answer == StoredBy(r)
             y == [pc |-> "accepted", req |-> submit[r].req]
  <1>1. /\ submit[r].pc = "committed" /\ submit[r].req \in Request /\ submit[r].bonus \in Bonuses
        /\ submit' = [submit EXCEPT ![r] = y] /\ y \in SubmitState /\ y.pc = "accepted" /\ y.req = submit[r].req
        /\ UNCHANGED <<joining, joined, answers, total, snapshot, expired>>
    BY AnswerTypes, SubmitFields DEF SubmitProject, SubmitState, Replied
  <1>2. /\ answer \in Answer /\ answer.player = submit[r].req.player /\ answer.q = submit[r].req.q
        /\ answer.choice = submit[r].req.choice /\ answer.score \in Nat /\ answer.player \in Players
    BY <1>1, ScoredType, ScoresAreNatural DEF StoredBy, Answer
  <1>3. /\ board' = IF stored THEN [board EXCEPT ![answer.player] = @ + answer.score] ELSE board
        /\ announced' \in {announced, announced \cup
                                {[type |-> "answered", player |-> answer.player, q |-> answer.q]}}
    BY DEF SubmitProject, StoredBy, Announce
  <1>4. answer \in answers /\ \A x \in Submits : Committed(x) /\ StoredBy(x) = answer => x = r
    BY <1>1 DEF AInv, CommittedStored, Committed
  <1> HIDE DEF y, answer
  <1>5. /\ submit' \in [Submits -> SubmitState] /\ submit'[r] = y
        /\ \A x \in Submits : x # r => submit'[x] = submit[x]
    BY <1>1, AnswerTypes
  <1>6. \A x \in Submits : Committed(x)' => Committed(x) /\ submit'[x] = submit[x] /\ x # r
    BY <1>1, <1>5 DEF Committed
  <1>7. /\ board' \in [Players -> Nat]
        /\ \A p \in Players : board'[p] = board[p] \/ (p = answer.player /\ board'[p] = board[p] + answer.score)
    BY <1>2, <1>3 DEF AInv, AnswersTypeOK
  <1>8. announced' \subseteq [type : {"joined"}, player : Players]
                           \cup [type : {"answered"}, player : Players, q : Questions]
    BY <1>2, <1>3 DEF AInv, AnswersTypeOK, Answer
  <1>9. AnswersTypeOK' /\ IsFiniteSet(answers')
    BY <1>1, <1>5, <1>7, <1>8 DEF AInv, AnswersTypeOK, LiveMoves, LInv, SubmitState
  <1>10. AnswersAdded
    BY <1>1, AnswerTypes DEF AnswersAdded
  <1>11. CommittedStored' /\ NoneCommits
    BY <1>1, <1>6, CommitsKept
  <1>12. TotalsBacked'
    BY <1>1, <1>10, TotalsKept
  <1>13. BoardBacked'
    <2> SUFFICES ASSUME NEW p \in Players
                 PROVE  board'[p] <= ScoreSum(Projected(p)')
      BY DEF BoardBacked, ScoreSum, MapThenSumSet, MapThenFoldSet
    <2> DEFINE S == Projected(p)'
               T == Projected(p)
    <2>1. T \in SUBSET Answer /\ IsFiniteSet(T) /\ S \in SUBSET Answer /\ IsFiniteSet(S)
      <3>1. T \in SUBSET answers /\ S \in SUBSET answers
        BY <1>1 DEF Projected
      <3> HIDE DEF S, T
      <3> QED
        BY <3>1, AnswerTypes, FS_Subset
    <2>2. T \subseteq S
      <3> SUFFICES ASSUME NEW a \in answers, a.player = p,
                          \A x \in Submits : Committed(x) => StoredBy(x) # a,
                          NEW x \in Submits, Committed(x)'
                   PROVE  StoredBy(x)' # a
        BY <1>1 DEF Projected
      <3> QED
        BY <1>6 DEF StoredBy
    <2>3. p = answer.player => answer \in S /\ answer \notin T
      <3> SUFFICES ASSUME p = answer.player
                   PROVE  answer \in S /\ answer \notin T
        OBVIOUS
      <3>1. answer \notin T
        BY <1>1, <1>4 DEF Projected, Committed, answer
      <3>2. \A x \in Submits : Committed(x)' => StoredBy(x)' = StoredBy(x) /\ Committed(x) /\ x # r
        BY <1>6 DEF StoredBy
      <3>3. \A x \in Submits : Committed(x)' => StoredBy(x)' # answer
        BY <1>4, <3>2
      <3>4. answer \in answers'
        BY <1>1, <1>4
      <3> QED
        BY <3>1, <3>3, <3>4 DEF Projected
    <2>4. board[p] <= ScoreSum(T) /\ board[p] \in Nat
      BY DEF AInv, BoardBacked, AnswersTypeOK
    <2> HIDE DEF S, T
    <2>5. ScoreSum(S) \in Nat /\ ScoreSum(T) \in Nat /\ ScoreSum(T) <= ScoreSum(S)
      BY <2>1, <2>2, ScoreSumType, ScoreSumMonotone, ScoresAreNatural
    <2>6. ASSUME p = answer.player PROVE ScoreSum(T) + answer.score <= ScoreSum(S)
      <3>1. ScoreSum(T \cup {answer}) = ScoreSum(T) + answer.score
        BY <1>2, <2>1, <2>3, <2>6, ScoreSumAdd, ScoresAreNatural
      <3>2. T \cup {answer} \in SUBSET S
        BY <2>2, <2>3, <2>6
      <3> QED
        BY <2>1, <3>1, <3>2, ScoreSumMonotone, ScoresAreNatural
    <2> QED
      BY <1>2, <1>7, <2>4, <2>5, <2>6 DEF S
  <1>14. AnswerersJoined'
    BY <1>1, <1>5 DEF AInv, AnswerersJoined
  <1>15. CheckedOpened'
    BY <1>1, <1>5, CheckedKept
  <1>16. AcceptedIsStored'
    <2>1. AcceptedIsStored
      BY DEF AInv
    <2>2. \A x \in Submits : submit'[x].pc = "accepted" =>
             \E a \in answers : /\ a.player = submit'[x].req.player /\ a.q = submit'[x].req.q
                               /\ a.choice = submit'[x].req.choice
      BY <1>1, <1>2, <1>4, <1>5, <2>1 DEF AcceptedIsStored
    <2>3. answer.player \in joined
      BY <1>4 DEF AInv, AnswerersJoined
    <2>4. \A e \in announced' :
             /\ e.player \in joined
             /\ e.type = "answered" => \E a \in answers : a.player = e.player /\ a.q = e.q
      BY <1>3, <1>4, <2>1, <2>3 DEF AcceptedIsStored
    <2> QED
      BY <1>1, <2>2, <2>4 DEF AcceptedIsStored
  <1> QED
    BY <1>1, <1>9, <1>11, <1>12, <1>13, <1>14, <1>15, <1>16, OpenedKept DEF AInv, LiveMoves

\* A submission whose call to the database fails.
LEMMA FailStep ==
    ASSUME AInv, LiveMoves, NEW r \in Submits, NEW bonus \in Bonuses, NEW applied \in BOOLEAN,
           SubmitFail(r, bonus, applied)
    PROVE  AInv'
  <1>1. /\ submit[r].pc \in {"new", "timely"} /\ submit' = [submit EXCEPT ![r] = NoSubmit]
        /\ NoSubmit \in SubmitState /\ NoSubmit.pc = "idle"
        /\ UNCHANGED <<joining, joined, board, snapshot, expired, announced>>
    BY DEF SubmitFail, NoSubmit, SubmitState
  <1>2. CASE applied /\ submit[r].pc = "timely"
    <2>1. Stores(r, bonus)
      BY <1>2 DEF SubmitFail
    <2> QED
      BY <1>1, <1>2, <2>1, CommitStep
  <1>3. CASE ~(applied /\ submit[r].pc = "timely")
    <2>1. UNCHANGED <<answers, total>>
      BY <1>3 DEF SubmitFail
    <2> QED
      BY <1>1, <2>1, SubmissionStep
  <1> QED
    BY <1>2, <1>3

\* The commit of a submission.
LEMMA SubmitCommitStep ==
    ASSUME AInv, LiveMoves, NEW r \in Submits, NEW bonus \in Bonuses, SubmitCommit(r, bonus)
    PROVE  AInv'
  <1> DEFINE y == [pc |-> "committed", req |-> submit[r].req, bonus |-> bonus]
  <1>1. /\ submit[r].pc = "timely" /\ Stores(r, bonus) /\ submit' = [submit EXCEPT ![r] = y]
        /\ UNCHANGED <<joining, joined, board, snapshot, expired, announced>>
    BY DEF SubmitCommit
  <1>2. y \in SubmitState /\ y.pc = "committed" /\ y.req = submit[r].req /\ y.bonus = bonus
    BY <1>1, AnswerTypes, SubmitFields DEF SubmitState
  <1> HIDE DEF y
  <1> QED
    BY <1>1, <1>2, CommitStep

-----------------------------------------------------------------------------
(* The steps of the others.                                                *)

\* Submissions, if they do not end, and answers stay as they are; more players
\* may join, and the totals may be written.
LEMMA OthersStep ==
    ASSUME AInv, LiveMoves, answers' = answers, board' = board,
           \A r \in Submits : submit'[r] = submit[r] \/ submit'[r] = NoSubmit,
           submit' \in [Submits -> SubmitState], joined \subseteq joined',
           joined' \subseteq Players, joining' \subseteq Players, expired' \subseteq Questions,
           announced' \subseteq [type : {"joined"}, player : Players]
                           \cup [type : {"answered"}, player : Players, q : Questions],
           \A e \in announced' : e \in announced \/ (e.type = "joined" /\ e.player \in joined'),
           total' \in [Players -> Nat], snapshot' \in [Finalizers -> [Players -> Nat \cup {-1}]],
           \A p \in Players : total'[p] = total[p] \/ total'[p] <= Earned(p),
           \A p \in Players, f \in Finalizers : snapshot'[f][p] = snapshot[f][p] \/ snapshot'[f][p] <= Earned(p)
    PROVE  AInv'
  <1>1. board \in [Players -> Nat]
    BY DEF AInv, AnswersTypeOK
  <1>2. AnswersTypeOK' /\ IsFiniteSet(answers')
    BY <1>1 DEF AInv, AnswersTypeOK, LiveMoves, LInv, SubmitState
  <1>3. AnswersAdded
    BY AnswerTypes DEF AnswersAdded
  <1>4. \A r \in Submits : submit'[r] = submit[r] \/ submit'[r].pc = "idle"
    BY DEF NoSubmit
  <1>5. \A r \in Submits : Committed(r)' => Committed(r) /\ submit'[r] = submit[r]
    BY <1>4 DEF Committed
  <1>6. CommittedStored' /\ NoneCommits
    BY <1>5, CommitsKept
  <1>7. BoardBacked'
    BY <1>3, <1>6, BoardKept
  <1>8. \A p : Earned(p)' = Earned(p)
    BY EarnedIsSum
  <1>9. TotalsBacked'
    BY <1>3, <1>8, TotalsKept
  <1>10. AnswerersJoined'
    BY <1>4 DEF AInv, AnswerersJoined
  <1>11. CheckedOpened'
    BY <1>4, CheckedKept
  <1>12. AcceptedIsStored'
    BY <1>4 DEF AInv, AcceptedIsStored
  <1> QED
    BY <1>2, <1>6, <1>7, <1>9, <1>10, <1>11, <1>12, OpenedKept DEF AInv, LiveMoves

\* Joining, and a deadline.
LEMMA JoinSteps ==
    ASSUME AInv, LiveMoves
    PROVE  /\ \A p \in Players : JoinRead(p) => AInv'
           /\ \A p \in Players, published \in BOOLEAN : JoinInsert(p, published) => AInv'
           /\ \A q \in Questions : DeadlinePasses(q) => AInv'
  <1>1. /\ submit \in [Submits -> SubmitState] /\ joined \subseteq Players /\ joining \subseteq Players
        /\ expired \subseteq Questions /\ total \in [Players -> Nat]
        /\ snapshot \in [Finalizers -> [Players -> Nat \cup {-1}]]
        /\ announced \subseteq [type : {"joined"}, player : Players]
                          \cup [type : {"answered"}, player : Players, q : Questions]
    BY AnswerTypes DEF AInv, AnswersTypeOK
  <1>2. ASSUME NEW p \in Players, JoinRead(p) PROVE AInv'
    BY <1>1, <1>2, OthersStep DEF JoinRead
  <1>3. ASSUME NEW p \in Players, NEW published \in BOOLEAN, JoinInsert(p, published) PROVE AInv'
    <2>1. /\ joining' \subseteq Players /\ joined' = joined \cup {p}
          /\ announced' \in {announced, announced \cup {[type |-> "joined", player |-> p]}}
          /\ UNCHANGED <<answers, total, board, submit, snapshot, expired>>
      BY <1>1, <1>3 DEF JoinInsert, Announce
    <2> QED
      BY <1>1, <2>1, OthersStep
  <1>4. ASSUME NEW q \in Questions, DeadlinePasses(q) PROVE AInv'
    BY <1>1, <1>4, OthersStep DEF DeadlinePasses
  <1> QED
    BY <1>2, <1>3, <1>4

\* The sums of a finalization are what the players have earned.
LEMMA SumsEarned ==
    ASSUME AInv
    PROVE  /\ Sums \in [Players -> Nat \cup {-1}]
           /\ \A p \in Players : Sums[p] <= Earned(p)
  BY AnswerTypes DEF Sums

\* FinalizeScores, and a restart of the service.
LEMMA FinalizeSteps ==
    ASSUME AInv, LiveMoves
    PROVE  /\ \A f \in Finalizers : FinalizeRead(f) => AInv'
           /\ \A f \in Finalizers, written \in BOOLEAN : FinalizeWrite(f, written) => AInv'
           /\ RestartAnswers => AInv'
           /\ UNCHANGED answerVars => AInv'
  <1>1. /\ submit \in [Submits -> SubmitState] /\ joined \subseteq Players /\ joining \subseteq Players
        /\ expired \subseteq Questions /\ total \in [Players -> Nat]
        /\ snapshot \in [Finalizers -> [Players -> Nat \cup {-1}]]
        /\ announced \subseteq [type : {"joined"}, player : Players]
                          \cup [type : {"answered"}, player : Players, q : Questions]
    BY AnswerTypes DEF AInv, AnswersTypeOK
  <1>2. \A p \in Players : Earned(p) \in Nat /\ NoSnapshot[p] = -1 /\ NoSnapshot[p] <= Earned(p)
    BY AnswerTypes DEF NoSnapshot
  <1>3. NoSnapshot \in [Players -> Nat \cup {-1}]
    BY DEF NoSnapshot
  <1>4. ASSUME NEW f \in Finalizers, FinalizeRead(f) PROVE AInv'
    <2>1. /\ snapshot' = [snapshot EXCEPT ![f] = Sums]
          /\ UNCHANGED <<joining, joined, answers, total, board, submit, expired, announced>>
      BY <1>4 DEF FinalizeRead
    <2>2. /\ snapshot' \in [Finalizers -> [Players -> Nat \cup {-1}]]
          /\ \A g \in Finalizers : snapshot'[g] = IF g = f THEN Sums ELSE snapshot[g]
      BY <1>1, <2>1, SumsEarned
    <2>3. \A p \in Players, g \in Finalizers : snapshot'[g][p] = snapshot[g][p] \/ snapshot'[g][p] <= Earned(p)
      BY <2>2, SumsEarned
    <2> QED
      BY <1>1, <2>1, <2>2, <2>3, OthersStep
  <1>5. ASSUME NEW f \in Finalizers, NEW written \in BOOLEAN, FinalizeWrite(f, written) PROVE AInv'
    <2>1. /\ total' = IF written
                        THEN [p \in Players |-> IF snapshot[f][p] >= 0 THEN snapshot[f][p] ELSE total[p]]
                        ELSE total
          /\ snapshot' = [snapshot EXCEPT ![f] = NoSnapshot]
          /\ UNCHANGED <<joining, joined, answers, board, submit, expired, announced>>
      BY <1>5 DEF FinalizeWrite
    <2>2. \A p \in Players : snapshot[f][p] \in Nat \cup {-1} /\ snapshot[f][p] <= Earned(p)
      BY <1>1 DEF AInv, TotalsBacked
    <2>3. total' \in [Players -> Nat] /\ \A p \in Players : total'[p] = total[p] \/ total'[p] <= Earned(p)
      BY <1>1, <2>1, <2>2
    <2>4. /\ snapshot' \in [Finalizers -> [Players -> Nat \cup {-1}]]
          /\ \A g \in Finalizers : snapshot'[g] = IF g = f THEN NoSnapshot ELSE snapshot[g]
      BY <1>1, <1>3, <2>1
    <2>5. \A p \in Players, g \in Finalizers : snapshot'[g][p] = snapshot[g][p] \/ snapshot'[g][p] <= Earned(p)
      BY <1>2, <2>4
    <2> QED
      BY <1>1, <2>1, <2>3, <2>4, <2>5, OthersStep
  <1>6. ASSUME RestartAnswers PROVE AInv'
    <2>1. /\ joining' = {} /\ snapshot' = [f \in Finalizers |-> NoSnapshot]
          /\ submit' = [r \in Submits |-> IF submit[r].pc \in Replied THEN submit[r] ELSE NoSubmit]
          /\ UNCHANGED <<joined, answers, total, board, expired, announced>>
      BY <1>6 DEF RestartAnswers
    <2>2. submit' \in [Submits -> SubmitState] /\ \A r \in Submits : submit'[r] = submit[r] \/ submit'[r] = NoSubmit
      <3>1. NoSubmit \in SubmitState
        BY DEF NoSubmit, SubmitState
      <3> QED
        BY <1>1, <2>1, <3>1
    <2>3. /\ snapshot' \in [Finalizers -> [Players -> Nat \cup {-1}]]
          /\ \A p \in Players, f \in Finalizers : snapshot'[f][p] <= Earned(p)
      BY <1>2, <1>3, <2>1
    <2> QED
      BY <1>1, <2>1, <2>2, <2>3, OthersStep
  <1>7. ASSUME UNCHANGED answerVars PROVE AInv'
    BY <1>1, <1>7, OthersStep DEF answerVars
  <1> QED
    BY <1>4, <1>5, <1>6, <1>7

-----------------------------------------------------------------------------
(* The invariant of the composition.                                       *)

\* A step of the live session keeps its invariant and moves the index forward.
LEMMA LiveStepMoves ==
    ASSUME LInv, [LiveNext]_liveVars
    PROVE  LiveMoves
  <1>1. LInv' /\ RowStep
    BY StepLInv
  <1>2. session \in SessionRow /\ RowConsistent
    BY DEF LInv, LiveTypeOK
  <1> QED
    BY <1>1, <1>2, RowStepForward, RowFields DEF LiveMoves

\* So does a step of a player in which a call may fail: it only counts the failure.
LEMMA FailureMoves ==
    ASSUME LInv, UNCHANGED <<session, question, events, command, timer, registered, recovered, restarts>>,
           failures' \in 0..MaxFailures
    PROVE  LiveMoves
  <1>1. RowStep
    BY DEF RowStep
  <1>2. (\A c \in Commands : CommandFaithful(c)') /\ (\A k \in Questions : CallbackFaithful(k)')
    BY <1>1, CommandKept, CallbackKept
  <1>3. LiveTypeOK' /\ NoOrphanTimer'
    BY DEF LInv, LiveTypeOK, NoOrphanTimer
  <1>4. LInv'
    BY <1>1, <1>2, <1>3, Frame DEF LInv
  <1>5. session.idx \in Int
    BY RowFields DEF LInv, LiveTypeOK
  <1> QED
    BY <1>4, <1>5 DEF LiveMoves

\* The initial state satisfies the invariant: there is nothing to add up.
LEMMA InitAInv == LiveInit /\ AnswersInit => AInv
  <1> SUFFICES ASSUME LiveInit, AnswersInit PROVE AInv
    OBVIOUS
  <1>1. LInv
    BY InitLInv
  <1>2. answers = {} /\ IsFiniteSet(answers)
    BY FS_EmptySet DEF AnswersInit
  <1>3. AnswersTypeOK
    BY <1>1 DEF AnswersInit, AnswersTypeOK, LInv, NoSubmit, NoSnapshot
  <1>4. AnswerersJoined /\ CheckedOpened /\ CommittedStored
    BY DEF AnswersInit, AnswerersJoined, CheckedOpened, CommittedStored, Committed, NoSubmit
  <1>5. OneAnswerToOpenedQuestion /\ AcceptedIsStored
    BY DEF AnswersInit, OneAnswerToOpenedQuestion, AcceptedIsStored, NoSubmit
  <1>6. ScoreSum({}) = 0
    BY ScoreSumStep, FS_EmptySet
  <1>7. TotalsBacked
    <2>1. \A p : Earned(p) = 0
      <3>1. \A p : {a \in answers : a.player = p} = {}
        BY <1>2
      <3> QED
        BY <1>6, <3>1, EarnedIsSum DEF EarnedFrom
    <2> QED
      BY <2>1 DEF AnswersInit, TotalsBacked, NoSnapshot
  <1>8. BoardBacked
    <2>1. \A p : Projected(p) = {}
      BY <1>2 DEF Projected
    <2> QED
      BY <1>6, <2>1 DEF AnswersInit, BoardBacked
  <1> QED
    BY <1>1, <1>2, <1>3, <1>4, <1>5, <1>7, <1>8 DEF AInv

\* Every step keeps the invariant, whether it is a player's, the host's or the
\* scheduler's.
LEMMA StepAInv == AInv /\ [AnswersNext]_<<liveVars, answerVars>> => AInv'
  <1> SUFFICES ASSUME AInv, [AnswersNext]_<<liveVars, answerVars>> PROVE AInv'
    OBVIOUS
  <1>0. LInv /\ failures \in 0..MaxFailures /\ MaxFailures \in Nat
    BY LiveConstants DEF AInv, LInv, LiveTypeOK
  <1>1. CASE PlayerStep /\ UNCHANGED liveVars
    <2>1. LiveMoves
      BY <1>0, <1>1, LiveStepMoves
    <2> QED
      BY <1>1, <2>1, JoinSteps, SubmissionSteps, SubmitCommitStep, FinalizeSteps DEF PlayerStep
  <1>2. CASE /\ FailingStep
             /\ UNCHANGED <<session, question, events, command, timer, registered, recovered, restarts>>
    <2>1. failures' \in 0..MaxFailures
      <3>1. \A ok : Tolerated(ok) => failures' \in 0..MaxFailures
        BY <1>0 DEF Tolerated
      <3>2. failures < MaxFailures /\ failures' = failures + 1 => failures' \in 0..MaxFailures
        BY <1>0
      <3> QED
        BY <1>2, <3>1, <3>2 DEF FailingStep, SubmitLookup, SubmitRefused, JoinInsert, SubmitProject, SubmitFail
    <2>2. LiveMoves
      BY <1>0, <1>2, <2>1, FailureMoves
    <2> QED
      BY <1>2, <2>2, SubmissionSteps, JoinSteps, ProjectStep, FailStep DEF FailingStep
  <1>3. ASSUME NEW c \in Commands, NEW written \in BOOLEAN,
               CommandFinalize(c), command[c].op \in {"close", "end"}, FinalizeWrite(c, written)
        PROVE  AInv'
    <2>1. LiveNext
      BY <1>3 DEF LiveNext, FinalizeStep
    <2> QED
      BY <1>0, <1>3, <2>1, LiveStepMoves, FinalizeSteps DEF Finalizers
  <1>4. ASSUME NEW k \in Questions, NEW written \in BOOLEAN, CallbackFinalize(k), FinalizeWrite(k, written)
        PROVE  AInv'
    <2>1. LiveNext
      BY <1>4 DEF LiveNext, FinalizeStep
    <2> QED
      BY <1>0, <1>4, <2>1, LiveStepMoves, FinalizeSteps DEF Finalizers
  <1>5. CASE OtherStep /\ UNCHANGED answerVars
    <2>1. LiveNext
      BY <1>5 DEF LiveNext
    <2> QED
      BY <1>0, <1>5, <2>1, LiveStepMoves, FinalizeSteps
  <1>6. ASSUME NEW loaded \in BOOLEAN, NEW stored \in BOOLEAN, Restart(loaded, stored), RestartAnswers
        PROVE  AInv'
    <2>1. LiveNext
      BY <1>6 DEF LiveNext
    <2> QED
      BY <1>0, <1>6, <2>1, LiveStepMoves, FinalizeSteps
  <1>7. CASE UNCHANGED <<liveVars, answerVars>>
    BY <1>0, <1>7, LiveStepMoves, FinalizeSteps
  <1> QED
    BY <1>1, <1>2, <1>3, <1>4, <1>5, <1>6, <1>7 DEF AnswersNext

\* The invariant holds in every reachable state.
LEMMA AInvHolds == AnswersSpec => []AInv
  BY InitAInv, StepAInv, PTL DEF AnswersSpec

\* AnswersTypeOK for every value of the constants.
THEOREM AnswersTypeCorrect == AnswersSpec => []AnswersTypeOK
  <1>1. AInv => AnswersTypeOK
    BY DEF AInv
  <1> QED
    BY <1>1, AInvHolds, PTL

\* No answer counts twice: neither the totals, which a submission adds to while a
\* finalization overwrites them, nor the leaderboard, which a submission adds to
\* after its commit, ever show more than the answers of the player are worth.
THEOREM ScoresNeverOvercounted == AnswersSpec => []NeverOvercounted
  <1>1. AInv => NeverOvercounted
    <2> SUFFICES ASSUME AInv, NEW p \in Players
                 PROVE  AnswersTypeOK /\ total[p] <= Earned(p) /\ board[p] <= Earned(p)
      BY DEF NeverOvercounted, AInv
    <2>1. AnswersTypeOK /\ total[p] <= Earned(p) /\ board[p] <= ScoreSum(Projected(p)) /\ board[p] \in Nat
      BY DEF AInv, AnswersTypeOK, TotalsBacked, BoardBacked
    <2> DEFINE S == {a \in answers : a.player = p}
               T == Projected(p)
    <2>2. S \in SUBSET answers /\ T \in SUBSET S
      BY DEF Projected
    <2>3. Earned(p) = ScoreSum(S)
      BY EarnedIsSum DEF EarnedFrom
    <2> HIDE DEF S, T
    <2>4. S \in SUBSET Answer /\ IsFiniteSet(S) /\ T \in SUBSET Answer /\ IsFiniteSet(T)
      BY <2>2, AnswerTypes, FS_Subset
    <2>5. ScoreSum(T) <= ScoreSum(S) /\ ScoreSum(S) \in Nat /\ ScoreSum(T) \in Nat
      BY <2>2, <2>4, ScoreSumType, ScoreSumMonotone, ScoresAreNatural
    <2> QED
      BY <2>1, <2>3, <2>5 DEF T
  <1> QED
    BY <1>1, AInvHolds, PTL

\* A player has at most one answer to a question, and only to one that was
\* opened, although the check and the commit of a submission are apart.
THEOREM AnswersOncePerQuestion == AnswersSpec => []OneAnswerToOpenedQuestion
  <1>1. AInv => OneAnswerToOpenedQuestion
    BY DEF AInv
  <1> QED
    BY <1>1, AInvHolds, PTL

\* What a player is told was accepted, and what the outbox announces, is stored.
THEOREM AcceptedAnswersStored == AnswersSpec => []AcceptedIsStored
  <1>1. AInv => AcceptedIsStored
    BY DEF AInv
  <1> QED
    BY <1>1, AInvHolds, PTL

-----------------------------------------------------------------------------
(* What the session promises, with the players beside it.                  *)

\* A step of the composition is a step of the session, or one of a player in
\* which a call may fail; the latter only counts the failure.
LEMMA AnswersStepLive ==
    ASSUME AInv, [AnswersNext]_<<liveVars, answerVars>>
    PROVE  \/ [LiveNext]_liveVars
           \/ /\ UNCHANGED <<session, question, events, command, timer, registered, recovered, restarts>>
              /\ failures' \in {failures, failures + 1}
  <1>1. CASE \/ PlayerStep /\ UNCHANGED liveVars
             \/ OtherStep /\ UNCHANGED answerVars
             \/ UNCHANGED <<liveVars, answerVars>>
    BY <1>1 DEF LiveNext
  <1>2. CASE /\ FailingStep
             /\ UNCHANGED <<session, question, events, command, timer, registered, recovered, restarts>>
    BY <1>2 DEF FailingStep, SubmitLookup, SubmitRefused, JoinInsert, SubmitProject, SubmitFail, Tolerated
  <1>3. ASSUME NEW c \in Commands, CommandFinalize(c), command[c].op \in {"close", "end"} PROVE LiveNext
    BY <1>3 DEF LiveNext, FinalizeStep
  <1>4. ASSUME NEW k \in Questions, CallbackFinalize(k) PROVE LiveNext
    BY <1>4 DEF LiveNext, FinalizeStep
  <1>5. ASSUME NEW loaded \in BOOLEAN, NEW stored \in BOOLEAN, Restart(loaded, stored) PROVE LiveNext
    BY <1>5 DEF LiveNext
  <1> QED
    BY <1>1, <1>2, <1>3, <1>4, <1>5 DEF AnswersNext

\* It changes the row as a step of the session does.
LEMMA AnswersStepRow == AInv /\ [AnswersNext]_<<liveVars, answerVars>> => RowStep
  BY AnswersStepLive, StepLInv DEF AInv, RowStep

\* The row goes through the quiz in order while players join and answer, and
\* while their calls use up failures the session alone does not have.
THEOREM AnswersImplementQuiz == AnswersSpec => ImplementsLiveQuiz
  <1>1. LiveInit => Quiz!QuizInit
    BY DEF LiveInit, Quiz!QuizInit, NoQuestion
  <1>2. AInv /\ [AnswersNext]_<<liveVars, answerVars>> => [Quiz!QuizNext]_(Quiz!quizVars)
    BY AnswersStepRow, RowStepRefines DEF AInv, LInv, LiveTypeOK
  <1> QED
    BY <1>1, <1>2, AInvHolds, PTL DEF AnswersSpec, ImplementsLiveQuiz, Quiz!QuizSpec

\* Redis and the outbox trail the row, with players submitting beside the host.
THEOREM ProjectionsNeverAheadInAnswers == AnswersSpec => []ProjectionsTrailRow
  <1>1. AInv => ProjectionsTrailRow
    BY DEF AInv, LInv
  <1> QED
    BY <1>1, AInvHolds, PTL

\* No timer outlives its place in the scheduler's map, with players beside it.
THEOREM TimersRegisteredInAnswers == AnswersSpec => []NoOrphanTimer
  <1>1. AInv => NoOrphanTimer
    BY DEF AInv, LInv
  <1> QED
    BY <1>1, AInvHolds, PTL

\* The recovered question stays watched, with players beside it.
LEMMA RecoveryStepInAnswers == AInv /\ RecoveryInv /\ [AnswersNext]_<<liveVars, answerVars>> => RecoveryInv'
  <1> SUFFICES ASSUME AInv, RecoveryInv, [AnswersNext]_<<liveVars, answerVars>> PROVE RecoveryInv'
    OBVIOUS
  <1>1. CASE [LiveNext]_liveVars
    BY <1>1, RecoveryStep DEF AInv
  <1>2. CASE /\ UNCHANGED <<session, question, events, command, timer, registered, recovered, restarts>>
             /\ failures' \in {failures, failures + 1}
    <2>1. failures' = 0 => failures = 0
      BY <1>2, LiveConstants DEF AInv, LInv, LiveTypeOK
    <2>2. \A k \in Questions : Watched(k) => Watched(k)'
      BY <1>2 DEF Watched, Closing
    <2> QED
      BY <1>2, <2>1, <2>2 DEF RecoveryInv, RecoveredIsWatched, Awaited, OpenAt
  <1> QED
    BY <1>1, <1>2, AnswersStepLive

\* A question that recovery found open is watched until it closes or a call
\* fails, whatever players submit meanwhile.
THEOREM RecoveredQuestionWatchedInAnswers == AnswersSpec => []RecoveredIsWatched
  <1>1. AInv /\ RecoveryInv /\ [AnswersNext]_<<liveVars, answerVars>> => AInv' /\ RecoveryInv'
    BY StepAInv, RecoveryStepInAnswers
  <1>2. LiveInit /\ AnswersInit => AInv /\ RecoveryInv
    BY InitAInv, InitRecovery
  <1>3. RecoveryInv => RecoveredIsWatched
    BY DEF RecoveryInv
  <1> QED
    BY <1>1, <1>2, <1>3, PTL DEF AnswersSpec

=============================================================================
