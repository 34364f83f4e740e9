------------------------------ MODULE AgentLoop -----------------------------
(***************************************************************************)
(* One turn of the agent (espclaw_agent_loop_run_with_options): the        *)
(* question is sent to the provider, the tools it calls are executed, and  *)
(* what they returned is sent back, until the provider answers with text   *)
(* or the iterations are used up.  A turn that has not done what its       *)
(* question demands is asked again, within a budget.                       *)
(*                                                                         *)
(* The turns of one session share its transcript, the append-only file of  *)
(* session_store.c, which every later request of theirs is built from;     *)
(* turns may overlap (HTTP server, operator worker), a step being a call   *)
(* of the provider or of a tool, or one access to the transcript.          *)
(*                                                                         *)
(* Texts are left out: a message is known by its turn, its kind and the    *)
(* iteration it belongs to, a request by the messages it lets the model    *)
(* see.  A line of the transcript is written whole or not at all: one that *)
(* is cut because the storage fills up in the middle of it is left out.    *)
(* What the question demands (the user_message_requests_ functions and     *)
(* collect_required_tool_names) is given with the turn.                    *)
(***************************************************************************)
EXTENDS Naturals, Sequences, FiniteSets

CONSTANTS
  Turns,         \* names of the turns followed, of one session
  Others,        \* messages that other turns of the session write meanwhile
  Tools,         \* names of the tools the provider calls
  Modes,         \* of "stored", "stateless" and "ephemeral", see below
  Providers,     \* of "codex" and "openai"
  Demands,       \* the demands of questions: functions from Kinds to sets of tools
  MaxIterations, \* 8 in the code
  CallMax,       \* tools called in one response: ESPCLAW_AGENT_TOOL_CALL_MAX
  HistoryMax,    \* agent_history_max of the board profile
  ReadMax,       \* messages that fit the buffer load_history reads into
  Room,          \* messages the storage has room for
  MaxLosses      \* bound: messages lost in a behaviour while there is room

\* The four ways in which a question demands tools: search and fetch the web,
\* tools it names, the execution it asks for, the installation of an app.
Kinds == {"web", "named", "execution", "install"}
Budget(k) == IF k = "execution" THEN 2 ELSE 1

ASSUME AgentLoopAssumption ==
  /\ Modes \subseteq {"stored", "stateless", "ephemeral"}
  /\ Providers \subseteq {"codex", "openai"}
  /\ Demands \subseteq [Kinds -> SUBSET Tools]
  /\ MaxIterations \in Nat \ {0} /\ HistoryMax \in Nat \ {0, 1} /\ ReadMax \in Nat
  /\ CallMax \in Nat /\ Room \in Nat /\ MaxLosses \in Nat

Rounds == {calls \in SUBSET Tools : Cardinality(calls) <= CallMax}

VARIABLES
  log,  \* the transcript: a sequence of messages
  lost, \* the messages that were to be written to it and are not (history)
  turn  \* turn -> the locals of its run

vars == <<log, lost, turn>>

Message(r, kind, n) == [turn |-> r, kind |-> kind, n |-> n]
Question(r) == Message(r, "user", 0)

\* A "stored" turn reads and writes the transcript; a "stateless" one is given
\* its history by the caller (Telegram); an "ephemeral" one has no workspace.
Stored(r) == turn[r].mode = "stored"

\* espclaw_session_append_message.  Its result is not looked at: when the file
\* cannot be opened or the storage is full, the message is lost.
Record(m) ==
  \/ /\ Len(log) < Room
     /\ log' = Append(log, m)
     /\ UNCHANGED lost
  \/ /\ Len(log) = Room \/ Cardinality(lost) < MaxLosses
     /\ lost' = lost \cup {m}
     /\ UNCHANGED log

\* Only a stored turn persists its messages.
Write(r, m) == IF Stored(r) THEN Record(m) ELSE UNCHANGED <<log, lost>>

\* What load_history finds, which reads the beginning of the transcript and keeps the last
\* HistoryMax messages of it; `extra` messages appended to them (by
\* history_append_message) take the place of the oldest.
Window(extra) ==
  LET read == IF Len(log) < ReadMax THEN Len(log) ELSE ReadMax
  IN  {log[i] : i \in {j \in 1..read : j + HistoryMax > read + extra}}

\* load_history fails when there is no memory or the file cannot be opened.  Its
\* result is not looked at either: the request is made of an empty history.
History(read, extra) == IF read THEN Window(extra) ELSE {}

\* What is missing from the demand of kind k: tools it names must have been
\* called, the others must have succeeded.
Missing(t, k) == t.needs[k] \ (IF k = "named" THEN t.called ELSE t.succeeded)

Due(t, k) == Missing(t, k) # {} /\ t.retries[k] < Budget(k)

\* Mutant of AfterText: tools the question names are not asked for again.
AfterText_NotNamed == <<"web", "execution", "install">>

\* The demands a text is held against, and those a round of tools is held
\* against, in this order: at most the first one that is due is retried.
AfterText == <<"web", "named", "execution", "install">>

AfterRound == <<"web", "execution", "install">>

FirstDue(t, k, order) ==
  \E i \in 1..Len(order) :
    /\ k = order[i] /\ Due(t, k)
    /\ \A j \in 1..(i - 1) : ~Due(t, order[j])

NoneDue(t, order) == \A i \in 1..Len(order) : ~Due(t, order[i])
-----------------------------------------------------------------------------
Idle ==
  [pc |-> "idle", mode |-> "stored", provider |-> "codex",
   needs |-> [k \in Kinds |-> {}], iteration |-> 0, retries |-> [k \in Kinds |-> 0],
   called |-> {}, succeeded |-> {}, todo |-> {}, round |-> {}, results |-> {},
   items |-> {}, context |-> {}, fromLog |-> FALSE, used |-> FALSE, outcome |-> "none"]

Init == log = <<>> /\ lost = {} /\ turn = [r \in Turns |-> Idle]

\* The turn starts and a stored one records the question.
Begin(r) ==
  /\ turn[r].pc = "idle"
  /\ \E mode \in Modes, provider \in Providers, needs \in Demands :
       turn' = [turn EXCEPT ![r] = [Idle EXCEPT !.pc = "load", !.mode = mode,
                                      !.provider = provider, !.needs = needs]]
  /\ IF turn'[r].mode = "stored" THEN Record(Question(r)) ELSE UNCHANGED <<log, lost>>

\* load_history or seed_history_messages, and build_initial_request_body.
FirstRequest(r) ==
  /\ turn[r].pc = "load"
  /\ \E read \in BOOLEAN :
       turn' = [turn EXCEPT ![r].pc = "call",
                            ![r].fromLog = read /\ Stored(r),
                            ![r].context = IF Stored(r) THEN History(read, 0) ELSE {Question(r)}]
  /\ UNCHANGED <<log, lost>>

\* The turn is over and its locals are freed; what an accepted answer was held
\* against is kept as history.
Ends(r, outcome) ==
  LET t == turn[r]
      over == [Idle EXCEPT !.pc = "done", !.outcome = outcome]
  IN  turn' = [turn EXCEPT ![r] =
        IF outcome # "ok" THEN over
        ELSE [over EXCEPT !.needs = t.needs, !.called = t.called, !.succeeded = t.succeeded,
                          !.retries = t.retries]]

\* The loop is left without another call of the provider.
Limit(r) ==
  /\ turn[r].pc = "call" /\ turn[r].iteration = MaxIterations
  /\ Ends(r, "limit")
  /\ Write(r, Message(r, "assistant", MaxIterations + 1))

\* The provider answers with text and calls no tool.
Replies(r) ==
  /\ turn[r].pc = "call" /\ turn[r].iteration < MaxIterations
  /\ turn' = [turn EXCEPT ![r].pc = "text",
                          ![r].iteration = turn[r].iteration + 1]
  /\ UNCHANGED <<log, lost>>

\* The provider completes without output, after tools were used: the turn ends
\* at once, whatever its question demands.
RepliesEmpty(r) ==
  /\ turn[r].pc = "call" /\ turn[r].iteration < MaxIterations /\ turn[r].used
  /\ Ends(r, "empty")
  /\ Write(r, Message(r, "assistant", turn[r].iteration + 1))

\* Mutant of CallsTools: a round of tools does not count as an iteration.
CallsTools_NotCounted(r) ==
  /\ turn[r].pc = "call" /\ turn[r].iteration < MaxIterations
  /\ \E calls \in Rounds :
       turn' = [turn EXCEPT ![r].pc = "round",
                            ![r].used = TRUE,
                            ![r].todo = calls,
                            ![r].round = {}]
  /\ Write(r, Message(r, "assistant", turn[r].iteration + 1))

\* The provider calls tools: its text, or a summary of the calls, is recorded.
CallsTools(r) ==
  /\ turn[r].pc = "call" /\ turn[r].iteration < MaxIterations
  /\ \E calls \in Rounds :
       turn' = [turn EXCEPT ![r].pc = "round",
                            ![r].iteration = turn[r].iteration + 1,
                            ![r].used = TRUE,
                            ![r].todo = calls,
                            ![r].round = {}]
  /\ Write(r, Message(r, "assistant", turn[r].iteration + 1))

\* One tool is executed (tool_execute) and its result recorded.  It may fail, a
\* mutating one also because the operator has not confirmed it.
ToolCall(r) ==
  /\ turn[r].pc = "round"
  /\ \E tool \in turn[r].todo, ok \in BOOLEAN :
       LET t == turn[r]
           result == Message(r, tool, t.iteration)
       IN  /\ turn' = [turn EXCEPT ![r].todo = t.todo \ {tool},
                                   ![r].called = t.called \cup {tool},
                                   ![r].succeeded = IF ok THEN t.succeeded \cup {tool} ELSE t.succeeded,
                                   ![r].round = t.round \cup {result},
                                   ![r].results = t.results \cup {result}]
           /\ Write(r, result)

\* The demand that is due is asked for again, in a request made of the session's
\* transcript (whoever keeps it), of the text the model answered with and of a
\* reminder: build_web_search_fetch_, _explicit_tool_, _execution_choice_ and
\* _app_install_retry_request_body.
Retry(r) ==
  LET t == turn[r] IN
  /\ \E k \in Kinds :
       /\ \/ t.pc = "text" /\ FirstDue(t, k, AfterText)
          \/ t.pc = "round" /\ t.todo = {} /\ FirstDue(t, k, AfterRound)
       /\ \E read \in (IF t.mode = "ephemeral" THEN {FALSE} ELSE BOOLEAN) :
            turn' = [turn EXCEPT ![r].pc = "call",
                                 ![r].retries = [t.retries EXCEPT ![k] = @ + 1],
                                 ![r].fromLog = read,
                                 ![r].context = History(read, IF t.pc = "text" THEN 2 ELSE 1)]
  /\ UNCHANGED <<log, lost>>

\* Mutant of FollowUp: the items of earlier rounds are not sent again.
FollowUp_LastRoundOnly(r) ==
  LET t == turn[r] IN
  /\ t.pc = "round" /\ t.todo = {} /\ NoneDue(t, AfterRound)
  /\ \/ /\ t.provider = "codex"
        /\ \E read \in BOOLEAN :
             turn' = [turn EXCEPT ![r].pc = "call",
                                  ![r].items = t.round,
                                  ![r].fromLog = read /\ Stored(r),
                                  ![r].context = t.round \cup History(read /\ Stored(r), 0)]
     \/ /\ t.provider # "codex"
        /\ \E kept \in {t.context, {}} :
             turn' = [turn EXCEPT ![r].pc = "call", ![r].fromLog = FALSE, ![r].context = kept \cup t.round]
  /\ UNCHANGED <<log, lost>>

\* The results are sent back: to Codex with the transcript and the rounds it was
\* sent before, to others as a continuation of the response that called the tools,
\* whose context such a provider may have kept or, asked not to store, not.
FollowUp(r) ==
  LET t == turn[r] IN
  /\ t.pc = "round" /\ t.todo = {} /\ NoneDue(t, AfterRound)
  /\ \/ /\ t.provider = "codex"
        /\ \E read \in BOOLEAN :
             turn' = [turn EXCEPT ![r].pc = "call",
                                  ![r].items = t.items \cup t.round,
                                  ![r].fromLog = read /\ Stored(r),
                                  ![r].context = t.items \cup t.round \cup History(read /\ Stored(r), 0)]
     \/ /\ t.provider # "codex"
        /\ \E kept \in {t.context, {}} :
             turn' = [turn EXCEPT ![r].pc = "call", ![r].fromLog = FALSE, ![r].context = kept \cup t.round]
  /\ UNCHANGED <<log, lost>>

\* The text is the answer.
Finish(r) ==
  /\ turn[r].pc = "text" /\ NoneDue(turn[r], AfterText)
  /\ Ends(r, "ok")
  /\ Write(r, Message(r, "assistant", turn[r].iteration))

\* Out of memory, no provider, a response that cannot be parsed: the turn ends
\* and records nothing.  Tools are executed to the end of their round.
Fails(r) ==
  /\ turn[r].pc \in {"load", "call", "text", "round"}
  /\ turn[r].pc = "call" => turn[r].iteration < MaxIterations
  /\ turn[r].pc = "text" => ~NoneDue(turn[r], AfterText)
  /\ turn[r].pc = "round" => turn[r].todo = {} \/ turn[r].round = {}
  /\ Ends(r, "failed")
  /\ UNCHANGED <<log, lost>>

Step(r) ==
  \/ FirstRequest(r) \/ Limit(r) \/ Replies(r) \/ RepliesEmpty(r) \/ CallsTools(r)
  \/ ToolCall(r) \/ Retry(r) \/ FollowUp(r) \/ Finish(r) \/ Fails(r)

\* A run of the session that this instance does not follow writes a message
\* between two steps of the turns it follows.
OtherWrites ==
  /\ \E m \in Others : (\A i \in DOMAIN log : log[i] # m) /\ log' = Append(log, m)
  /\ Len(log) < Room
  /\ UNCHANGED <<lost, turn>>

Next == OtherWrites \/ \E r \in Turns : Begin(r) \/ Step(r)

\* The provider and the tools return (they have timeouts), threads are scheduled;
\* a turn that is never asked for need not begin.
Spec == Init /\ [][Next]_vars /\ \A r \in Turns : WF_vars(Step(r))
-----------------------------------------------------------------------------
Messages == {Message(r, kind, n) : r \in Turns, kind \in {"user", "assistant"} \cup Tools,
                                   n \in 0..(MaxIterations + 1)} \cup Others

Turn ==
  [pc : {"idle", "load", "call", "text", "round", "done"}, mode : Modes \cup {"stored"},
   provider : Providers \cup {"codex"}, needs : Demands \cup {Idle.needs},
   iteration : 0..MaxIterations, retries : [Kinds -> 0..2],
   called : SUBSET Tools, succeeded : SUBSET Tools, todo : SUBSET Tools,
   round : SUBSET Messages, results : SUBSET Messages, items : SUBSET Messages,
   context : SUBSET Messages, fromLog : BOOLEAN, used : BOOLEAN,
   outcome : {"none", "ok", "empty", "limit", "failed"}]

\* Every variable is in its type, and no demand is retried beyond its budget,
\* whichever of the two places that retry it charged it.
TypeOK ==
  /\ log \in Seq(Messages) /\ Len(log) <= Room /\ lost \in SUBSET Messages
  /\ turn \in [Turns -> Turn]
  /\ \A r \in Turns, k \in Kinds : turn[r].retries[k] <= Budget(k)

Retried(t) == \E k \in Kinds : t.retries[k] > 0
Fits(r) == Stored(r) /\ Len(log) + 2 <= HistoryMax /\ Len(log) <= ReadMax

\* Nothing the model needs is lost between two requests of a turn.  While the
\* transcript fits the history, a request of a stored turn that is made of it shows
\* the question and what every tool called in this turn returned, except what could
\* not be written, whatever other turns of the session wrote meanwhile.  And a Codex
\* turn that was not asked again is shown every result whatever was lost or could not
\* be read (6668, 7216-7306 and the retry builders).
ContextComplete ==
  \A r \in Turns :
    LET t == turn[r] IN t.pc = "call" =>
      /\ Fits(r) /\ t.fromLog => ({Question(r)} \cup t.results) \ lost \subseteq t.context
      /\ t.provider = "codex" /\ ~Retried(t) => t.results \subseteq t.context

\* An answer that does not do what was asked for is never accepted before the
\* model was reminded as often as the budget of the demand allows, also when
\* demands of other kinds were retried in between (6795-6948, 7063-7214).
DemandsRetried ==
  \A r \in Turns : LET t == turn[r] IN
    t.outcome = "ok" => \A k \in Kinds :
      t.needs[k] \subseteq (IF k = "named" THEN t.called ELSE t.succeeded)
        \/ t.retries[k] = Budget(k)

\* Every turn ends, however its provider alternates between tools, text and
\* failures: each request costs an iteration (while, 6704).
TurnsEnd == \A r \in Turns : turn[r].pc = "load" ~> turn[r].pc = "done"
=============================================================================
