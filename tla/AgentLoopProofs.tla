--------------------------- MODULE AgentLoopProofs --------------------------
(***************************************************************************)
(* Proofs about AgentLoop for any number of turns, tools, iterations and   *)
(* messages: types, and that no answer is accepted whose demands were not  *)
(* retried as often as they may be.                                        *)
(***************************************************************************)
EXTENDS AgentLoop, TLAPS

\* The part of the typing that concerns turns.
TurnInv == turn \in [Turns -> Turn]

\* What is appended to the transcript is a message, and it stays within Room.
LogInv == log \in Seq(Messages) /\ Len(log) <= Room /\ lost \in SUBSET Messages

LEMMA MessageType ==
  ASSUME NEW r \in Turns, NEW kind \in {"user", "assistant"} \cup Tools,
         NEW n \in 0..(MaxIterations + 1)
  PROVE  Message(r, kind, n) \in Messages
BY DEF Messages

LEMMA WindowType ==
  ASSUME LogInv, NEW extra \in Nat
  PROVE  Window(extra) \subseteq Messages
BY AgentLoopAssumption DEF LogInv, Window

LEMMA HistoryType ==
  ASSUME LogInv, NEW read, NEW extra \in Nat
  PROVE  History(read, extra) \subseteq Messages
BY WindowType DEF History

LEMMA RecordType ==
  ASSUME LogInv, NEW m \in Messages, Record(m)
  PROVE  LogInv'
BY AgentLoopAssumption DEF LogInv, Record

LEMMA WriteType ==
  ASSUME LogInv, NEW r, NEW m \in Messages, Write(r, m)
  PROVE  LogInv'
BY RecordType DEF LogInv, Write

LEMMA IdleType == Idle \in Turn
BY AgentLoopAssumption DEF Idle, Turn, Kinds

\* A step of turn r replaces its record by another one.
LEMMA TurnUpdate ==
  ASSUME TurnInv, NEW r \in Turns, NEW t \in Turn, turn' = [turn EXCEPT ![r] = t]
  PROVE  TurnInv'
BY DEF TurnInv

\* The end of a turn: an accepted answer keeps what it was held against.
LEMMA EndsType ==
  ASSUME TurnInv, NEW r \in Turns, NEW outcome \in {"ok", "empty", "limit", "failed"}, Ends(r, outcome)
  PROVE  /\ turn' = [turn EXCEPT ![r] = turn'[r]] /\ turn'[r] \in Turn
         /\ turn'[r].pc = "done" /\ turn'[r].outcome = outcome /\ turn'[r].results = {}
         /\ outcome # "ok" => turn'[r].retries = Idle.retries
         /\ outcome = "ok" => /\ turn'[r].retries = turn[r].retries /\ turn'[r].needs = turn[r].needs
                              /\ turn'[r].called = turn[r].called
                              /\ turn'[r].succeeded = turn[r].succeeded
<1> DEFINE t == turn[r]
           over == [Idle EXCEPT !.pc = "done", !.outcome = outcome]
           ok == [over EXCEPT !.needs = t.needs, !.called = t.called, !.succeeded = t.succeeded,
                              !.retries = t.retries]
<1>1. t \in Turn /\ turn \in [Turns -> Turn]
  BY DEF TurnInv
<1>2. over \in Turn /\ over.pc = "done" /\ over.outcome = outcome /\ over.results = {}
      /\ over.retries = Idle.retries
  BY IdleType DEF Turn, Idle
<1>3. turn' = [turn EXCEPT ![r] = IF outcome # "ok" THEN over ELSE ok]
  BY DEF Ends
<1> HIDE DEF over
<1>4. /\ ok \in Turn /\ ok.pc = "done" /\ ok.outcome = outcome /\ ok.results = {}
      /\ ok.retries = t.retries /\ ok.needs = t.needs /\ ok.called = t.called /\ ok.succeeded = t.succeeded
  BY <1>1, <1>2 DEF Turn
<1> HIDE DEF ok
<1>5. turn'[r] = IF outcome # "ok" THEN over ELSE ok
  BY <1>1, <1>3
<1> QED BY <1>1, <1>2, <1>3, <1>4, <1>5

\* The effects of a retry and of the two kinds of follow-up.
AskedAgain(r, k, read, extra) ==
  turn' = [turn EXCEPT ![r].pc = "call",
                       ![r].retries = [turn[r].retries EXCEPT ![k] = @ + 1],
                       ![r].fromLog = read,
                       ![r].context = History(read, extra)]

Codex(r, read) ==
  turn' = [turn EXCEPT ![r].pc = "call",
                       ![r].items = turn[r].items \cup turn[r].round,
                       ![r].fromLog = read /\ Stored(r),
                       ![r].context = turn[r].items \cup turn[r].round \cup History(read /\ Stored(r), 0)]

Continued(r, kept) ==
  turn' = [turn EXCEPT ![r].pc = "call", ![r].fromLog = FALSE, ![r].context = kept \cup turn[r].round]

LEMMA RetryForm ==
  ASSUME NEW r \in Turns, Retry(r)
  PROVE  \E k \in Kinds, read \in BOOLEAN, extra \in 1..2 : Due(turn[r], k) /\ AskedAgain(r, k, read, extra)
<1> DEFINE t == turn[r]
           extra == IF t.pc = "text" THEN 2 ELSE 1
<1>1. PICK k \in Kinds : /\ Due(t, k)
                         /\ \E read \in (IF t.mode = "ephemeral" THEN {FALSE} ELSE BOOLEAN) :
                              AskedAgain(r, k, read, extra)
  BY DEF Retry, FirstDue, AskedAgain
<1>2. PICK read \in BOOLEAN : AskedAgain(r, k, read, extra)
  BY <1>1
<1>3. extra \in 1..2
  OBVIOUS
<1> HIDE DEF extra
<1> QED BY <1>1, <1>2, <1>3

LEMMA FollowUpForm ==
  ASSUME NEW r \in Turns, FollowUp(r)
  PROVE  /\ turn[r].provider = "codex" => \E read \in BOOLEAN : Codex(r, read)
         /\ turn[r].provider # "codex" => \E kept \in {turn[r].context, {}} : Continued(r, kept)
BY DEF FollowUp, Codex, Continued

LEMMA TurnStep ==
  ASSUME TurnInv, LogInv, NEW r \in Turns, Begin(r) \/ Step(r)
  PROVE  TurnInv'
<1> USE AgentLoopAssumption
<1> DEFINE t == turn[r]
<1>0. t \in Turn
  BY DEF TurnInv
<1>1. CASE Begin(r)
  <2>1. PICK mode \in Modes, provider \in Providers, needs \in Demands :
          turn' = [turn EXCEPT ![r] = [Idle EXCEPT !.pc = "load", !.mode = mode,
                                         !.provider = provider, !.needs = needs]]
    BY <1>1 DEF Begin
  <2>2. [Idle EXCEPT !.pc = "load", !.mode = mode,
                     !.provider = provider, !.needs = needs] \in Turn
    BY IdleType DEF Turn
  <2> QED BY <2>1, <2>2, TurnUpdate
<1>2. CASE FirstRequest(r)
  <2>0. PICK read \in BOOLEAN :
          turn' = [turn EXCEPT ![r].pc = "call",
                               ![r].fromLog = read /\ Stored(r),
                               ![r].context = IF Stored(r) THEN History(read, 0) ELSE {Question(r)}]
    BY <1>2 DEF FirstRequest
  <2> DEFINE c == IF Stored(r) THEN History(read, 0) ELSE {Question(r)}
             f == read /\ Stored(r)
  <2>1. c \in SUBSET Messages /\ f \in BOOLEAN
    BY HistoryType, MessageType DEF Question
  <2>3. turn' = [turn EXCEPT ![r] = [t EXCEPT !.pc = "call", !.fromLog = f, !.context = c]]
    BY <2>0 DEF TurnInv
  <2> HIDE DEF c, f
  <2>2. [t EXCEPT !.pc = "call", !.fromLog = f, !.context = c] \in Turn
    BY <1>0, <2>1 DEF Turn
  <2> QED BY <2>2, <2>3, TurnUpdate
<1>3. CASE Limit(r)
  <2>1. Ends(r, "limit")
    BY <1>3 DEF Limit
  <2> QED BY <2>1, EndsType, TurnUpdate
<1>4. CASE Replies(r)
  <2>1. t.iteration + 1 \in 0..MaxIterations
    BY <1>0, <1>4 DEF Replies, Turn
  <2>2. [t EXCEPT !.pc = "text", !.iteration = t.iteration + 1] \in Turn
    BY <1>0, <2>1 DEF Turn
  <2>3. turn' = [turn EXCEPT ![r] = [t EXCEPT !.pc = "text", !.iteration = t.iteration + 1]]
    BY <1>4 DEF Replies, TurnInv
  <2> QED BY <2>2, <2>3, TurnUpdate
<1>5. CASE RepliesEmpty(r)
  <2>1. Ends(r, "empty")
    BY <1>5 DEF RepliesEmpty
  <2> QED BY <2>1, EndsType, TurnUpdate
<1>6. CASE CallsTools(r)
  <2>1. PICK calls \in Rounds :
          turn' = [turn EXCEPT ![r].pc = "round",
                               ![r].iteration = turn[r].iteration + 1,
                               ![r].used = TRUE,
                               ![r].todo = calls,
                               ![r].round = {}]
    BY <1>6 DEF CallsTools
  <2> DEFINE new == [t EXCEPT !.pc = "round", !.iteration = t.iteration + 1, !.used = TRUE,
                              !.todo = calls, !.round = {}]
  <2>2. t.iteration + 1 \in 0..MaxIterations /\ calls \in SUBSET Tools
    BY <1>0, <1>6 DEF CallsTools, Turn, Rounds
  <2>3. new \in Turn
    BY <1>0, <2>2 DEF Turn
  <2>4. turn' = [turn EXCEPT ![r] = new]
    BY <2>1 DEF TurnInv
  <2> QED BY <2>3, <2>4, TurnUpdate
<1>7. CASE ToolCall(r)
  <2>1. PICK tool \in t.todo, ok \in BOOLEAN :
          turn' = [turn EXCEPT
            ![r].todo = t.todo \ {tool},
            ![r].called = t.called \cup {tool},
            ![r].succeeded = IF ok THEN t.succeeded \cup {tool} ELSE t.succeeded,
            ![r].round = t.round \cup {Message(r, tool, t.iteration)},
            ![r].results = t.results \cup {Message(r, tool, t.iteration)}]
    BY <1>7 DEF ToolCall
  <2> DEFINE todo == t.todo \ {tool}
             called == t.called \cup {tool}
             succeeded == IF ok THEN t.succeeded \cup {tool} ELSE t.succeeded
             round == t.round \cup {Message(r, tool, t.iteration)}
             results == t.results \cup {Message(r, tool, t.iteration)}
             new == [t EXCEPT !.todo = todo, !.called = called, !.succeeded = succeeded,
                              !.round = round, !.results = results]
  <2>2. todo \in SUBSET Tools /\ called \in SUBSET Tools /\ succeeded \in SUBSET Tools
    BY <1>0 DEF Turn
  <2>3. tool \in Tools /\ t.iteration \in 0..(MaxIterations + 1)
    BY <1>0 DEF Turn
  <2>4. round \in SUBSET Messages /\ results \in SUBSET Messages
    <3>1. Message(r, tool, t.iteration) \in Messages
      BY <2>3, MessageType
    <3>2. t.round \in SUBSET Messages /\ t.results \in SUBSET Messages
      BY <1>0 DEF Turn
    <3> QED BY <3>1, <3>2
  <2>5. turn' = [turn EXCEPT ![r] = new]
    BY <2>1 DEF TurnInv
  <2> HIDE DEF todo, called, succeeded, round, results
  <2>6. new \in Turn
    BY <1>0, <2>2, <2>4 DEF Turn
  <2> QED BY <2>5, <2>6, TurnUpdate
<1>8. CASE Retry(r)
  <2>1. PICK k \in Kinds, read \in BOOLEAN, extra \in 1..2 : Due(t, k) /\ AskedAgain(r, k, read, extra)
    BY <1>8, RetryForm
  <2> DEFINE retries == [t.retries EXCEPT ![k] = @ + 1]
             c == History(read, extra)
             new == [t EXCEPT !.pc = "call", !.retries = retries, !.fromLog = read, !.context = c]
  <2>2. retries \in [Kinds -> 0..2]
    BY <1>0, <2>1 DEF Due, Budget, Turn
  <2>3. c \in SUBSET Messages
    BY HistoryType
  <2>4. turn' = [turn EXCEPT ![r] = new]
    BY <2>1 DEF AskedAgain, TurnInv
  <2> HIDE DEF retries, c
  <2>5. new \in Turn
    BY <1>0, <2>2, <2>3 DEF Turn
  <2> QED BY <2>4, <2>5, TurnUpdate
<1>9. CASE FollowUp(r)
  <2>1. PICK i \in SUBSET Messages, f \in BOOLEAN, c \in SUBSET Messages :
          turn' = [turn EXCEPT ![r] = [t EXCEPT !.pc = "call", !.items = i, !.fromLog = f, !.context = c]]
    <3>1. CASE t.provider = "codex"
      <4>1. PICK read \in BOOLEAN : Codex(r, read)
        BY <1>9, <3>1, FollowUpForm
      <4> DEFINE i == t.items \cup t.round
                 f == read /\ Stored(r)
                 c == i \cup History(f, 0)
      <4>2. i \in SUBSET Messages /\ f \in BOOLEAN /\ c \in SUBSET Messages
        BY <1>0, HistoryType DEF Turn
      <4>3. turn' = [turn EXCEPT ![r] = [t EXCEPT !.pc = "call", !.items = i, !.fromLog = f, !.context = c]]
        BY <4>1 DEF Codex, TurnInv
      <4> HIDE DEF i, f, c
      <4> QED BY <4>2, <4>3
    <3>2. CASE t.provider # "codex"
      <4>1. PICK kept \in {t.context, {}} : Continued(r, kept)
        BY <1>9, <3>2, FollowUpForm
      <4> DEFINE c == kept \cup t.round
      <4>2. c \in SUBSET Messages /\ t.items \in SUBSET Messages
        BY <1>0 DEF Turn
      <4>3. turn' = [turn EXCEPT ![r] = [t EXCEPT !.pc = "call", !.fromLog = FALSE, !.context = c]]
        BY <4>1 DEF Continued, TurnInv
      <4> HIDE DEF c
      <4>4. [t EXCEPT !.pc = "call", !.fromLog = FALSE, !.context = c]
              = [t EXCEPT !.pc = "call", !.items = t.items, !.fromLog = FALSE, !.context = c]
        BY <1>0 DEF Turn
      <4> QED BY <4>2, <4>3, <4>4
    <3> QED BY <3>1, <3>2
  <2>2. [t EXCEPT !.pc = "call", !.items = i, !.fromLog = f, !.context = c] \in Turn
    BY <1>0 DEF Turn
  <2> QED BY <2>1, <2>2, TurnUpdate
<1>10. CASE Finish(r)
  <2>1. Ends(r, "ok")
    BY <1>10 DEF Finish
  <2> QED BY <2>1, EndsType, TurnUpdate
<1>11. CASE Fails(r)
  <2>1. Ends(r, "failed")
    BY <1>11 DEF Fails
  <2> QED BY <2>1, EndsType, TurnUpdate
<1> QED
  BY <1>1, <1>2, <1>3, <1>4, <1>5, <1>6, <1>7, <1>8, <1>9, <1>10, <1>11 DEF Step
-----------------------------------------------------------------------------
(* The transcript.                                                         *)

LEMMA LogStep ==
  ASSUME TurnInv, LogInv, NEW r \in Turns, Begin(r) \/ Step(r)
  PROVE  LogInv'
<1> USE AgentLoopAssumption
<1>0. turn[r] \in Turn /\ turn[r].iteration \in 0..MaxIterations /\ turn[r].todo \subseteq Tools
  BY DEF TurnInv, Turn
<1>1. CASE Begin(r)
  <2>1. Question(r) \in Messages
    BY MessageType DEF Question
  <2>2. Record(Question(r)) \/ UNCHANGED <<log, lost>>
    BY <1>1 DEF Begin
  <2> QED BY <2>1, <2>2, RecordType DEF LogInv
<1>2. CASE Limit(r) \/ RepliesEmpty(r) \/ CallsTools(r) \/ Finish(r)
  <2>1. PICK n \in 0..(MaxIterations + 1) : Write(r, Message(r, "assistant", n))
    <3>1. /\ MaxIterations + 1 \in 0..(MaxIterations + 1)
          /\ turn[r].iteration \in 0..(MaxIterations + 1)
          /\ turn[r].iteration + 1 \in 0..(MaxIterations + 1)
      BY <1>0
    <3>2. \/ Write(r, Message(r, "assistant", MaxIterations + 1))
          \/ Write(r, Message(r, "assistant", turn[r].iteration))
          \/ Write(r, Message(r, "assistant", turn[r].iteration + 1))
      BY <1>2 DEF Limit, RepliesEmpty, CallsTools, Finish
    <3> QED BY <3>1, <3>2
  <2> QED BY <2>1, MessageType, WriteType
<1>3. CASE ToolCall(r)
  <2>1. PICK tool \in turn[r].todo : Write(r, Message(r, tool, turn[r].iteration))
    BY <1>3 DEF ToolCall
  <2>2. tool \in Tools /\ turn[r].iteration \in 0..(MaxIterations + 1)
    BY <1>0
  <2> QED BY <2>1, <2>2, MessageType, WriteType
<1>4. CASE FirstRequest(r) \/ Replies(r) \/ Retry(r) \/ FollowUp(r) \/ Fails(r)
  <2>1. UNCHANGED <<log, lost>>
    BY <1>4 DEF FirstRequest, Replies, Retry, FollowUp, Fails
  <2> QED BY <2>1 DEF LogInv
<1> QED BY <1>1, <1>2, <1>3, <1>4 DEF Step

LEMMA OtherWritesType ==
  ASSUME TurnInv, LogInv, OtherWrites
  PROVE  TurnInv' /\ LogInv'
BY AgentLoopAssumption DEF OtherWrites, TurnInv, LogInv, Messages
-----------------------------------------------------------------------------
(* The budgets and the demands.                                            *)

\* No demand was retried beyond its budget.
BudgetOf(t) == \A k \in Kinds : t.retries[k] <= Budget(k)

\* A turn that was answered is over, and whatever of its demands is missing was
\* retried as often as it may be.
AnswerOf(t) ==
  t.outcome = "ok" =>
    /\ t.pc = "done"
    /\ \A k \in Kinds :
         t.needs[k] \subseteq (IF k = "named" THEN t.called ELSE t.succeeded)
           \/ t.retries[k] = Budget(k)

TurnsInv == \A r \in Turns : BudgetOf(turn[r]) /\ AnswerOf(turn[r])

\* The inductive invariant.
IInv == TurnInv /\ LogInv /\ TurnsInv

\* What is missing and not due was retried as often as its budget allows; a text
\* is held against the demands of all kinds.
LEMMA NoneDueAfterText ==
  ASSUME NEW t \in Turn, BudgetOf(t), NoneDue(t, AfterText), NEW k \in Kinds
  PROVE  \/ t.needs[k] \subseteq (IF k = "named" THEN t.called ELSE t.succeeded)
         \/ t.retries[k] = Budget(k)
<1>1. ~Due(t, k)
  BY DEF NoneDue, AfterText, Kinds
<1>2. t.retries[k] \in Nat /\ Budget(k) \in Nat
  BY DEF Turn, Budget
<1> QED BY <1>1, <1>2 DEF Due, Missing, BudgetOf

LEMMA OthersUnchanged ==
  ASSUME TurnInv, NEW r \in Turns, Begin(r) \/ Step(r), NEW q \in Turns, q # r
  PROVE  turn'[q] = turn[q]
BY DEF TurnInv, Begin, Step, FirstRequest, Limit, Replies, RepliesEmpty, CallsTools, ToolCall,
       Retry, FollowUp, Finish, Fails, Ends

LEMMA DemandsStep ==
  ASSUME IInv, NEW r \in Turns, Begin(r) \/ Step(r)
  PROVE  TurnsInv'
<1> DEFINE t == turn[r]
<1>0. t \in Turn /\ BudgetOf(t) /\ AnswerOf(t)
  BY DEF IInv, TurnInv, TurnsInv
<1>1. SUFFICES BudgetOf(turn'[r]) /\ AnswerOf(turn'[r])
  BY OthersUnchanged DEF IInv, TurnsInv
<1>2. CASE Begin(r)
  <2>1. PICK mode \in Modes, provider \in Providers, needs \in Demands :
          turn' = [turn EXCEPT ![r] = [Idle EXCEPT !.pc = "load", !.mode = mode,
                                         !.provider = provider, !.needs = needs]]
    BY <1>2 DEF Begin
  <2>2. turn'[r].retries = [k \in Kinds |-> 0] /\ turn'[r].outcome = "none"
    BY <2>1 DEF Idle, IInv, TurnInv
  <2> QED BY <2>2 DEF BudgetOf, AnswerOf, Budget
<1>3. CASE Retry(r)
  <2>0. PICK k \in Kinds, read \in BOOLEAN, extra \in 1..2 : Due(t, k) /\ AskedAgain(r, k, read, extra)
    BY <1>3, RetryForm
  <2>1. /\ turn'[r].retries = [t.retries EXCEPT ![k] = @ + 1] /\ turn'[r].outcome = t.outcome
        /\ turn'[r].pc = "call"
    BY <1>0, <2>0 DEF AskedAgain, IInv, TurnInv, Turn
  <2>2. t.pc # "done"
    BY <1>3 DEF Retry
  <2>3. BudgetOf(turn'[r])
    BY <1>0, <2>0, <2>1 DEF Due, BudgetOf, Budget, Turn
  <2> QED BY <1>0, <2>1, <2>2, <2>3 DEF AnswerOf
<1>4. CASE Finish(r)
  <2>1. NoneDue(t, AfterText) /\ Ends(r, "ok")
    BY <1>4 DEF Finish
  <2>2. /\ turn'[r].pc = "done" /\ turn'[r].retries = t.retries /\ turn'[r].needs = t.needs
        /\ turn'[r].called = t.called /\ turn'[r].succeeded = t.succeeded
    BY <2>1, EndsType DEF IInv
  <2> QED BY <1>0, <2>1, <2>2, NoneDueAfterText DEF BudgetOf, AnswerOf
<1>5. CASE Limit(r) \/ RepliesEmpty(r) \/ Fails(r)
  <2>1. \E outcome \in {"limit", "empty", "failed"} : Ends(r, outcome)
    BY <1>5 DEF Limit, RepliesEmpty, Fails
  <2>2. turn'[r].retries = Idle.retries /\ turn'[r].outcome # "ok"
    BY <2>1, EndsType DEF IInv
  <2> QED BY <2>2 DEF BudgetOf, AnswerOf, Idle, Budget
<1>6. CASE FirstRequest(r) \/ Replies(r) \/ CallsTools(r) \/ ToolCall(r) \/ FollowUp(r)
  <2>1. t.pc # "done"
    BY <1>6 DEF FirstRequest, Replies, CallsTools, ToolCall, FollowUp
  <2>2. turn'[r].retries = t.retries /\ turn'[r].outcome = t.outcome
    <3>0. turn \in [Turns -> Turn]
      BY DEF IInv, TurnInv
    <3>1. CASE FirstRequest(r) \/ Replies(r) \/ FollowUp(r)
      <4>1. CASE FirstRequest(r)
        <5>0. PICK read \in BOOLEAN :
                turn' = [turn EXCEPT ![r].pc = "call",
                                     ![r].fromLog = read /\ Stored(r),
                                     ![r].context = IF Stored(r) THEN History(read, 0) ELSE {Question(r)}]
          BY <4>1 DEF FirstRequest
        <5> DEFINE f == read /\ Stored(r)
                   c == IF Stored(r) THEN History(read, 0) ELSE {Question(r)}
        <5>1. turn' = [turn EXCEPT ![r] = [t EXCEPT !.pc = "call", !.fromLog = f, !.context = c]]
          BY <3>0, <5>0
        <5> HIDE DEF f, c
        <5> QED BY <1>0, <3>0, <5>1 DEF Turn
      <4>2. CASE Replies(r)
        <5>1. turn' = [turn EXCEPT ![r] = [t EXCEPT !.pc = "text", !.iteration = t.iteration + 1]]
          BY <3>0, <4>2 DEF Replies
        <5> QED BY <1>0, <3>0, <5>1 DEF Turn
      <4>3. CASE FollowUp(r)
        <5>1. CASE t.provider = "codex"
          <6>1. PICK read \in BOOLEAN : Codex(r, read)
            BY <4>3, <5>1, FollowUpForm
          <6> DEFINE i == t.items \cup t.round
                     f == read /\ Stored(r)
                     c == i \cup History(f, 0)
          <6>2. turn' = [turn EXCEPT ![r] = [t EXCEPT !.pc = "call", !.items = i, !.fromLog = f,
                                                      !.context = c]]
            BY <3>0, <6>1 DEF Codex
          <6> HIDE DEF i, f, c
          <6> QED BY <1>0, <3>0, <6>2 DEF Turn
        <5>2. CASE t.provider # "codex"
          <6>1. PICK kept \in {t.context, {}} : Continued(r, kept)
            BY <4>3, <5>2, FollowUpForm
          <6>2. \E c : turn' = [turn EXCEPT ![r] = [t EXCEPT !.pc = "call", !.fromLog = FALSE, !.context = c]]
            BY <3>0, <6>1 DEF Continued
          <6> QED BY <1>0, <3>0, <6>2 DEF Turn
        <5> QED BY <5>1, <5>2
      <4> QED BY <3>1, <4>1, <4>2, <4>3
    <3>2. CASE CallsTools(r)
      <4>1. PICK calls :
              turn'[r] = [t EXCEPT !.pc = "round", !.iteration = t.iteration + 1, !.used = TRUE,
                                   !.todo = calls, !.round = {}]
        BY <3>2 DEF CallsTools, IInv, TurnInv
      <4> QED BY <1>0, <4>1 DEF Turn
    <3>3. CASE ToolCall(r)
      <4>1. PICK tool \in t.todo, ok \in BOOLEAN :
              turn' = [turn EXCEPT
                ![r].todo = t.todo \ {tool},
                ![r].called = t.called \cup {tool},
                ![r].succeeded = IF ok THEN t.succeeded \cup {tool} ELSE t.succeeded,
                ![r].round = t.round \cup {Message(r, tool, t.iteration)},
                ![r].results = t.results \cup {Message(r, tool, t.iteration)}]
        BY <3>3 DEF ToolCall
      <4> QED BY <1>0, <4>1 DEF IInv, TurnInv, Turn
    <3> QED BY <1>6, <3>1, <3>2, <3>3
  <2> QED BY <1>0, <2>1, <2>2 DEF BudgetOf, AnswerOf
<1> QED BY <1>2, <1>3, <1>4, <1>5, <1>6 DEF Step
-----------------------------------------------------------------------------
(* The theorems.                                                           *)

LEMMA Inductive == Spec => []IInv
<1>1. Init => IInv
  BY AgentLoopAssumption, IdleType
     DEF Init, IInv, TurnInv, LogInv, TurnsInv, BudgetOf, AnswerOf, Budget, Idle
<1>2. IInv /\ [Next]_vars => IInv'
  <2> SUFFICES ASSUME IInv, [Next]_vars PROVE IInv'
    OBVIOUS
  <2>1. CASE UNCHANGED vars
    BY <2>1 DEF vars, IInv, TurnInv, LogInv, TurnsInv, BudgetOf, AnswerOf
  <2>2. CASE OtherWrites
    BY <2>2, OtherWritesType DEF IInv, TurnsInv, OtherWrites
  <2>3. ASSUME NEW r \in Turns, Begin(r) \/ Step(r) PROVE IInv'
    BY <2>3, TurnStep, LogStep, DemandsStep DEF IInv
  <2> QED BY <2>1, <2>2, <2>3 DEF Next
<1> QED BY <1>1, <1>2, PTL DEF Spec

\* Every variable keeps its type and no demand is retried beyond its budget, for
\* any number of turns, tools, iterations and messages (run_with_options, 6528).
THEOREM TypeCorrect == Spec => []TypeOK
<1>1. IInv => TypeOK
  BY DEF IInv, TurnInv, LogInv, TurnsInv, BudgetOf, TypeOK
<1> QED BY <1>1, Inductive, PTL

\* An answer is accepted only if its demands are met or were retried as often as
\* they may be, whatever demands a question makes (6795-6948, 7063-7214).
THEOREM DemandsAreRetried == Spec => []DemandsRetried
<1>1. IInv => DemandsRetried
  BY DEF IInv, TurnsInv, AnswerOf, DemandsRetried
<1> QED BY <1>1, Inductive, PTL
-----------------------------------------------------------------------------
(* What a request shows the model.                                         *)

Entries == {log[i] : i \in 1..Len(log)}

Busy(r) == turn[r].pc \in {"load", "call", "text", "round"}

\* The transcript holds what a stored turn wrote to it and what was not lost.
Recorded(r) ==
  Stored(r) /\ Busy(r) => ({Question(r)} \cup turn[r].results) \ lost \subseteq Entries

\* A request made of a transcript that still fits shows all that it holds.
Shown(r) ==
  turn[r].pc = "call" /\ turn[r].fromLog /\ Fits(r) =>
    ({Question(r)} \cup turn[r].results) \ lost \subseteq turn[r].context

\* The items of a Codex turn that was not asked again hold all its results; during a
\* round of tools those of the round are still missing.
ItemsKept(r) ==
  LET t == turn[r] IN t.provider = "codex" /\ ~Retried(t) =>
    /\ t.pc = "call" => t.results \subseteq t.items /\ t.results \subseteq t.context
    /\ t.pc = "round" => t.results \ t.round \subseteq t.items

\* A turn that made no request yet has no results.
Fresh(r) == turn[r].pc = "load" => turn[r].results = {}

TurnShows(r) == Recorded(r) /\ Shown(r) /\ ItemsKept(r) /\ Fresh(r)

CInv == IInv /\ \A r \in Turns : TurnShows(r)

\* The transcript only grows, at its end, and what is lost stays lost.
Grows == (log' = log \/ \E m : log' = Append(log, m)) /\ lost \subseteq lost'

\* A transcript that fits is loaded whole, also when two messages follow it.
LEMMA WindowWhole ==
  ASSUME NEW r \in Turns, LogInv, Fits(r), NEW extra \in 0..2
  PROVE  History(TRUE, extra) = Entries
BY AgentLoopAssumption DEF LogInv, Fits, Window, History, Entries

LEMMA RecordGrows ==
  ASSUME NEW m, Record(m)
  PROVE  Grows /\ (log' = Append(log, m) \/ m \in lost')
BY DEF Record, Grows

LEMMA LogGrows ==
  ASSUME LogInv, NEW r \in Turns, Begin(r) \/ Step(r) \/ OtherWrites
  PROVE  Grows
<1>1. UNCHANGED <<log, lost>> \/ (\E m : Record(m)) \/ OtherWrites
  BY DEF Begin, Step, FirstRequest, Limit, Replies, RepliesEmpty, CallsTools, ToolCall, Retry,
         FollowUp, Finish, Fails, Write
<1> QED BY <1>1, RecordGrows DEF Grows, OtherWrites

LEMMA GrownLog ==
  ASSUME LogInv, Grows
  PROVE  Entries \subseteq Entries' /\ Len(log) <= Len(log') /\ Len(log) \in Nat /\ Len(log') \in Nat
<1>1. log \in Seq(Messages)
  BY DEF LogInv
<1>2. CASE log' = log
  BY <1>1, <1>2 DEF Entries
<1>3. ASSUME NEW m, log' = Append(log, m)
      PROVE  Entries \subseteq Entries' /\ Len(log) <= Len(log') /\ Len(log) \in Nat /\ Len(log') \in Nat
  <2>1. Len(log) \in Nat /\ Len(log') = Len(log) + 1 /\ \A i \in 1..Len(log) : log'[i] = log[i]
    BY <1>1, <1>3
  <2> QED BY <2>1 DEF Entries
<1> QED BY <1>2, <1>3 DEF Grows

\* What fits has fitted before.
LEMMA FittedBefore ==
  ASSUME NEW r \in Turns, LogInv, Grows, Fits(r)', turn'[r].mode = turn[r].mode
  PROVE  Fits(r)
BY GrownLog, AgentLoopAssumption DEF Fits, Stored

\* A step that changes none of the results keeps what was recorded.
LEMMA RecordedKept ==
  ASSUME NEW r \in Turns, LogInv, Grows, Recorded(r), Busy(r),
         turn'[r].mode = turn[r].mode, turn'[r].results = turn[r].results
  PROVE  Recorded(r)'
<1>1. Entries \subseteq Entries' /\ lost \subseteq lost'
  BY GrownLog DEF Grows
<1>2. Question(r)' = Question(r)
  BY DEF Question, Message
<1> QED BY <1>1, <1>2 DEF Recorded, Stored

\* A turn that takes no step keeps what was established of it.
LEMMA KeptByOthers ==
  ASSUME NEW q \in Turns, LogInv, Grows, turn'[q] = turn[q], TurnShows(q)
  PROVE  TurnShows(q)'
<1>1. Busy(q)' <=> Busy(q)
  BY DEF Busy
<1>2. Recorded(q)'
  <2>1. CASE Busy(q)
    BY <2>1, RecordedKept DEF TurnShows
  <2>2. CASE ~Busy(q)
    BY <1>1, <2>2 DEF Recorded
  <2> QED BY <2>1, <2>2
<1>3. Shown(q)'
  <2>1. Fits(q)' => Fits(q)
    BY FittedBefore
  <2>2. lost \subseteq lost' /\ Question(q)' = Question(q)
    BY DEF Grows, Question, Message
  <2> QED BY <2>1, <2>2 DEF TurnShows, Shown
<1>4. ItemsKept(q)' /\ Fresh(q)'
  BY DEF TurnShows, ItemsKept, Fresh, Retried
<1> QED BY <1>2, <1>3, <1>4 DEF TurnShows

\* A turn that is not about to make a request is claimed to show nothing.
LEMMA NothingShown ==
  ASSUME NEW r \in Turns, turn'[r].pc \notin {"call", "round", "load"}
  PROVE  Shown(r)' /\ ItemsKept(r)' /\ Fresh(r)'
BY DEF Shown, ItemsKept, Fresh

\* A request made of the whole transcript shows what was recorded.
LEMMA RequestShows ==
  ASSUME NEW r \in Turns, LogInv, Recorded(r), Busy(r), UNCHANGED <<log, lost>>,
         turn'[r].mode = turn[r].mode, turn'[r].results = turn[r].results,
         turn'[r].fromLog => \E extra \in 0..2 : History(TRUE, extra) \subseteq turn'[r].context
  PROVE  Recorded(r)' /\ Shown(r)'
<1>1. Grows
  BY DEF Grows
<1>2. Recorded(r)'
  BY <1>1, RecordedKept
<1>3. SUFFICES ASSUME turn'[r].fromLog, Fits(r)'
               PROVE  ({Question(r)} \cup turn[r].results) \ lost \subseteq turn'[r].context
  BY <1>2 DEF Shown, Question, Message
<1>4. Fits(r) /\ Stored(r)
  BY <1>1, <1>3, FittedBefore DEF Fits
<1>5. Entries \subseteq turn'[r].context
  BY <1>3, <1>4, WindowWhole
<1> QED BY <1>4, <1>5 DEF Recorded

LEMMA ContextStep ==
  ASSUME CInv, LogInv', NEW r \in Turns, Begin(r) \/ Step(r)
  PROVE  TurnShows(r)'
<1> DEFINE t == turn[r]
           u == turn'[r]
<1>0. t \in Turn /\ TurnInv /\ LogInv /\ Recorded(r) /\ Shown(r) /\ ItemsKept(r) /\ Fresh(r)
  BY DEF CInv, IInv, TurnInv, TurnShows
<1>g. Grows
  BY <1>0, LogGrows
<1>e. Entries \subseteq Entries' /\ Len(log) \in Nat
  BY <1>0, <1>g, GrownLog
<1>q. Question(r)' = Question(r)
  BY DEF Question, Message
<1>1. CASE Begin(r)
  <2>1. PICK mode \in Modes, provider \in Providers, needs \in Demands :
          turn' = [turn EXCEPT ![r] = [Idle EXCEPT !.pc = "load", !.mode = mode,
                                         !.provider = provider, !.needs = needs]]
    BY <1>1 DEF Begin
  <2>2. u.pc = "load" /\ u.results = {} /\ u.mode = mode
    BY <1>0, <2>1 DEF TurnInv, Idle
  <2>3. Recorded(r)'
    <3>1. SUFFICES ASSUME u.mode = "stored", Question(r) \notin lost' PROVE Question(r) \in Entries'
      BY <1>q, <2>2 DEF Recorded, Stored
    <3>2. Record(Question(r))
      BY <1>1, <3>1 DEF Begin
    <3>3. log' = Append(log, Question(r))
      BY <3>1, <3>2, RecordGrows
    <3>4. Len(log') = Len(log) + 1 /\ log'[Len(log) + 1] = Question(r)
      BY <1>0, <3>3 DEF LogInv
    <3> QED BY <1>e, <3>4 DEF Entries
  <2> QED BY <2>2, <2>3 DEF TurnShows, Shown, ItemsKept, Fresh
<1>2. CASE FirstRequest(r)
  <2>1. PICK read \in BOOLEAN :
          turn' = [turn EXCEPT ![r].pc = "call",
                               ![r].fromLog = read /\ Stored(r),
                               ![r].context = IF Stored(r) THEN History(read, 0) ELSE {Question(r)}]
    BY <1>2 DEF FirstRequest
  <2> DEFINE f == read /\ Stored(r)
             c == IF Stored(r) THEN History(read, 0) ELSE {Question(r)}
  <2>a. turn' = [turn EXCEPT ![r] = [t EXCEPT !.pc = "call", !.fromLog = f, !.context = c]]
    BY <1>0, <2>1 DEF TurnInv
  <2> HIDE DEF f, c
  <2>b. u.pc = "call" /\ u.results = t.results /\ u.mode = t.mode /\ u.fromLog = f /\ u.context = c
    BY <1>0, <2>a DEF TurnInv, Turn
  <2>2. /\ u.pc = "call" /\ u.results = t.results /\ u.mode = t.mode
        /\ u.fromLog = (read /\ Stored(r))
        /\ u.context = IF Stored(r) THEN History(read, 0) ELSE {Question(r)}
    BY <2>b DEF f, c
  <2>3. t.pc = "load" /\ t.results = {} /\ UNCHANGED <<log, lost>> /\ Busy(r)
    BY <1>0, <1>2 DEF FirstRequest, Fresh, Busy
  <2>4. u.fromLog => \E extra \in 0..2 : History(TRUE, extra) \subseteq u.context
    <3>1. u.fromLog => History(TRUE, 0) \subseteq u.context
      BY <2>2 DEF History
    <3> QED BY <3>1, 0 \in 0..2
  <2>5. Recorded(r)' /\ Shown(r)'
    BY <1>0, <2>2, <2>3, <2>4, RequestShows
  <2> QED BY <2>2, <2>3, <2>5 DEF TurnShows, ItemsKept, Fresh
<1>3. CASE Limit(r) \/ RepliesEmpty(r) \/ Finish(r) \/ Fails(r)
  <2>1. \E outcome \in {"ok", "limit", "empty", "failed"} : Ends(r, outcome)
    BY <1>3 DEF Limit, RepliesEmpty, Finish, Fails
  <2>2. u.pc = "done"
    BY <1>0, <2>1, EndsType
  <2> QED BY <2>2, NothingShown DEF TurnShows, Recorded, Busy
<1>4. CASE Replies(r)
  <2>1. Busy(r) /\ u.mode = t.mode /\ u.results = t.results /\ u.pc = "text"
    BY <1>0, <1>4 DEF Replies, TurnInv, Turn, Busy
  <2> QED BY <1>0, <1>g, <2>1, RecordedKept, NothingShown DEF TurnShows
<1>5. CASE CallsTools(r)
  <2>0. PICK calls \in Rounds :
          turn' = [turn EXCEPT ![r].pc = "round", ![r].iteration = turn[r].iteration + 1,
                               ![r].used = TRUE, ![r].todo = calls, ![r].round = {}]
    BY <1>5 DEF CallsTools
  <2>1. turn' = [turn EXCEPT ![r] = [t EXCEPT !.pc = "round", !.iteration = t.iteration + 1,
                                              !.used = TRUE, !.todo = calls, !.round = {}]]
    BY <1>0, <2>0 DEF TurnInv
  <2>2. /\ u.pc = "round" /\ u.round = {} /\ u.results = t.results /\ u.items = t.items
        /\ u.mode = t.mode /\ u.provider = t.provider /\ u.retries = t.retries
    BY <1>0, <2>1 DEF TurnInv, Turn
  <2>3. t.pc = "call" /\ Busy(r)
    BY <1>5 DEF CallsTools, Busy
  <2>4. Recorded(r)'
    BY <1>0, <1>g, <2>2, <2>3, RecordedKept
  <2>5. ItemsKept(r)'
    BY <1>0, <2>2, <2>3 DEF ItemsKept, Retried
  <2> QED BY <2>2, <2>4, <2>5 DEF TurnShows, Shown, Fresh
<1>6. CASE ToolCall(r)
  <2>1. PICK tool \in t.todo, ok \in BOOLEAN :
          /\ turn' = [turn EXCEPT
               ![r].todo = t.todo \ {tool},
               ![r].called = t.called \cup {tool},
               ![r].succeeded = IF ok THEN t.succeeded \cup {tool} ELSE t.succeeded,
               ![r].round = t.round \cup {Message(r, tool, t.iteration)},
               ![r].results = t.results \cup {Message(r, tool, t.iteration)}]
          /\ Write(r, Message(r, tool, t.iteration))
    BY <1>6 DEF ToolCall
  <2> DEFINE m == Message(r, tool, t.iteration)
  <2>2. /\ u.pc = "round" /\ u.round = t.round \cup {m} /\ u.results = t.results \cup {m}
        /\ u.items = t.items
        /\ u.mode = t.mode /\ u.provider = t.provider /\ u.retries = t.retries
    BY <1>0, <1>6, <2>1 DEF ToolCall, TurnInv, Turn
  <2>3. t.pc = "round" /\ Busy(r)
    BY <1>6 DEF ToolCall, Busy
  <2> HIDE DEF m
  <2>4. Recorded(r)'
    <3>1. SUFFICES ASSUME Stored(r)
                   PROVE  ({Question(r)} \cup (t.results \cup {m})) \ lost' \subseteq Entries'
      BY <1>q, <2>2 DEF Recorded, Stored
    <3>2. m \in lost' \/ m \in Entries'
      <4>1. Record(m)
        BY <2>1, <3>1 DEF Write, m
      <4>2. CASE log' = Append(log, m)
        <5>1. Len(log') = Len(log) + 1 /\ log'[Len(log) + 1] = m
          BY <1>0, <4>2 DEF LogInv
        <5> QED BY <1>e, <5>1 DEF Entries
      <4> QED BY <4>1, <4>2, RecordGrows
    <3>3. ({Question(r)} \cup t.results) \ lost \subseteq Entries
      BY <1>0, <2>3, <3>1 DEF Recorded
    <3> QED BY <1>e, <1>g, <3>2, <3>3 DEF Grows
  <2>5. ItemsKept(r)'
    BY <1>0, <2>2, <2>3 DEF ItemsKept, Retried
  <2> QED BY <2>2, <2>4, <2>5 DEF TurnShows, Shown, Fresh
<1>7. CASE Retry(r)
  <2>1. PICK k \in Kinds, read \in BOOLEAN, extra \in 1..2 : Due(t, k) /\ AskedAgain(r, k, read, extra)
    BY <1>7, RetryForm
  <2> DEFINE retries == [t.retries EXCEPT ![k] = @ + 1]
             c == History(read, extra)
  <2>a. turn' = [turn EXCEPT ![r] = [t EXCEPT !.pc = "call", !.retries = retries,
                                              !.fromLog = read, !.context = c]]
    BY <1>0, <2>1 DEF AskedAgain, TurnInv
  <2> HIDE DEF retries, c
  <2>b. /\ u.pc = "call" /\ u.results = t.results /\ u.mode = t.mode /\ u.fromLog = read
        /\ u.context = c /\ u.retries = retries
    BY <1>0, <2>a DEF TurnInv, Turn
  <2>2. /\ u.pc = "call" /\ u.results = t.results /\ u.mode = t.mode /\ u.fromLog = read
        /\ u.context = History(read, extra) /\ u.retries = [t.retries EXCEPT ![k] = @ + 1]
    BY <2>b DEF retries, c
  <2>3. Retried(u)
    <3>1. u.retries[k] > 0
      BY <1>0, <2>2 DEF Turn
    <3> QED BY <3>1 DEF Retried
  <2>4. UNCHANGED <<log, lost>> /\ Busy(r)
    BY <1>7 DEF Retry, Busy
  <2>e. u.fromLog => \E e \in 0..2 : History(TRUE, e) \subseteq u.context
    BY <2>2 DEF History
  <2>5. Recorded(r)' /\ Shown(r)'
    BY <1>0, <2>2, <2>4, <2>e, RequestShows
  <2> QED BY <2>2, <2>3, <2>5 DEF TurnShows, ItemsKept, Fresh
<1>8. CASE FollowUp(r)
  <2>1. UNCHANGED <<log, lost>> /\ t.pc = "round" /\ Busy(r)
    BY <1>8 DEF FollowUp, Busy
  <2>2. CASE t.provider = "codex"
    <3>1. PICK read \in BOOLEAN : Codex(r, read)
      BY <1>8, <2>2, FollowUpForm
    <3> DEFINE i == t.items \cup t.round
               f == read /\ Stored(r)
               c == i \cup History(f, 0)
    <3>a. turn' = [turn EXCEPT ![r] = [t EXCEPT !.pc = "call", !.items = i, !.fromLog = f, !.context = c]]
      BY <1>0, <3>1 DEF Codex, TurnInv
    <3> HIDE DEF i, f, c
    <3>b. /\ u.pc = "call" /\ u.results = t.results /\ u.mode = t.mode /\ u.retries = t.retries
          /\ u.provider = t.provider /\ u.fromLog = f /\ u.items = i /\ u.context = c
      BY <1>0, <3>a DEF TurnInv, Turn
    <3>2. /\ u.pc = "call" /\ u.results = t.results /\ u.mode = t.mode /\ u.retries = t.retries
          /\ u.provider = t.provider
          /\ u.fromLog = (read /\ Stored(r)) /\ u.items = t.items \cup t.round
          /\ u.context = t.items \cup t.round \cup History(read /\ Stored(r), 0)
      BY <3>b DEF i, f, c
    <3>3. u.fromLog => \E extra \in 0..2 : History(TRUE, extra) \subseteq u.context
      <4>1. u.fromLog => History(TRUE, 0) \subseteq u.context
        BY <3>2 DEF History
      <4> QED BY <4>1, 0 \in 0..2
    <3>4. Recorded(r)' /\ Shown(r)'
      BY <1>0, <2>1, <3>2, <3>3, RequestShows
    <3>5. ItemsKept(r)'
      BY <1>0, <2>1, <3>2 DEF ItemsKept, Retried
    <3> QED BY <3>2, <3>4, <3>5 DEF TurnShows, Fresh
  <2>3. CASE t.provider # "codex"
    <3>1. PICK kept \in {t.context, {}} : Continued(r, kept)
      BY <1>8, <2>3, FollowUpForm
    <3> DEFINE c == kept \cup t.round
    <3>a. turn' = [turn EXCEPT ![r] = [t EXCEPT !.pc = "call", !.fromLog = FALSE, !.context = c]]
      BY <1>0, <3>1 DEF Continued, TurnInv
    <3> HIDE DEF c
    <3>2. /\ u.pc = "call" /\ u.results = t.results /\ u.mode = t.mode /\ ~u.fromLog
          /\ u.provider = t.provider
      BY <1>0, <3>a DEF TurnInv, Turn
    <3>3. Recorded(r)' /\ Shown(r)'
      BY <1>0, <2>1, <3>2, RequestShows
    <3> QED BY <2>3, <3>2, <3>3 DEF TurnShows, ItemsKept, Fresh
  <2> QED BY <2>2, <2>3
<1> QED BY <1>1, <1>2, <1>3, <1>4, <1>5, <1>6, <1>7, <1>8 DEF Step

\* For any number of turns that share a session and any limits: a request made of a
\* transcript that fits the history shows the question and every result that could be
\* written, and a Codex turn that was not asked again is shown every result whatever
\* was lost or could not be read (6668, 7216-7306 and the retry builders).
THEOREM ContextIsComplete == Spec => []ContextComplete
<1>1. Init => CInv
  <2> SUFFICES ASSUME Init PROVE CInv
    OBVIOUS
  <2>1. IInv
    BY AgentLoopAssumption, IdleType
       DEF Init, IInv, TurnInv, LogInv, TurnsInv, BudgetOf, AnswerOf, Budget, Idle
  <2>2. \A r \in Turns : turn[r].pc = "idle"
    BY DEF Init, Idle
  <2> QED BY <2>1, <2>2 DEF CInv, TurnShows, Recorded, Busy, Shown, ItemsKept, Fresh
<1>2. CInv /\ IInv' /\ [Next]_vars => CInv'
  <2> SUFFICES ASSUME CInv, IInv', [Next]_vars PROVE CInv'
    OBVIOUS
  <2>0. LogInv /\ LogInv' /\ TurnInv
    BY DEF CInv, IInv
  <2>1. CASE UNCHANGED vars \/ OtherWrites
    <3>1. Grows /\ \A q \in Turns : turn'[q] = turn[q]
      BY <2>1 DEF vars, OtherWrites, Grows
    <3> QED BY <2>0, <3>1, KeptByOthers DEF CInv
  <2>3. ASSUME NEW r \in Turns, Begin(r) \/ Step(r) PROVE CInv'
    <3>1. Grows
      BY <2>0, <2>3, LogGrows
    <3>2. ASSUME NEW q \in Turns, q # r PROVE TurnShows(q)'
      BY <2>0, <2>3, <3>1, <3>2, OthersUnchanged, KeptByOthers DEF CInv
    <3>3. TurnShows(r)'
      BY <2>0, <2>3, ContextStep
    <3> QED BY <3>2, <3>3 DEF CInv
  <2> QED BY <2>1, <2>3 DEF Next
<1>3. CInv => ContextComplete
  BY DEF CInv, TurnShows, Shown, ItemsKept, ContextComplete
<1> QED BY <1>1, <1>2, <1>3, Inductive, PTL DEF Spec
=============================================================================
