------------------------------ MODULE Telegram ------------------------------
(***************************************************************************)
(* telegram_polling_task (runtime.c) with espclaw_telegram_extract_update  *)
(* (telegram_protocol.c) over the operator worker, and restarts of the     *)
(* device.  The Telegram server keeps an update until a poll asks for a    *)
(* later one.  An update is known by its position in what users sent, and  *)
(* a text by the update it is the text of.                                 *)
(***************************************************************************)
EXTENDS Operator, Sequences, FiniteSets

CONSTANTS
  Poller,        \* the requester that is telegram_polling_task
  Held,          \* updates a response has room for, of ESPCLAW_TELEGRAM_RESPONSE_BYTES
  MaxUpdates,
  MaxReplies,    \* bound on the updates that reply to a message with a text
  MaxTyped,      \* bound on the requests of another requester, one fewer after a restart
  MaxRestarts

\* A poll takes an update, so that the bound on requests never holds the poller up.
ASSUME TelegramAssumption ==
  /\ Poller \in Requesters
  /\ MaxUpdates \in Nat
  /\ Held \in Nat \ {0}
  /\ MaxReplies \in Nat
  /\ MaxRestarts \in Nat
  /\ MaxUpdates <= MaxRequests

VARIABLES
  sent,       \* the updates users sent: their kinds and the texts they quote
  confirmed,  \* how many of them the server has forgotten
  offset,     \* s_telegram_offset
  poller,     \* where the poller is; the update it works on
  done,       \* text -> how often it was carried out or refused with a reply
  kept,       \* the updates whose first text was dealt with for their own chat
  restarts

vars == <<opVars, sent, confirmed, offset, poller, done, kept, restarts>>

\* A message with a text for the agent or with a command, one without a text or
\* with a text that does not fit update.text, a reply to a message with a text, an
\* edited message.
Kinds == {"text", "command", "photo", "long", "reply", "edited"}

\* The text of an update; an answer of the bot, and one that does not fit update.text.
Answer == MaxUpdates + 1
LongAnswer == MaxUpdates + 2
TextIds == 1 .. MaxUpdates + 2

HasMessage(u) == sent[u].kind # "edited"                       \* the key "message"
HasText(u) == sent[u].kind # "photo"                           \* the key "text"

\* A reply holds the text it replies to, before its own if it has one.
FirstText(u) == IF sent[u].quotes # 0 THEN sent[u].quotes ELSE u

OfKind(text, k) == text \in 1 .. Len(sent) /\ sent[text].kind = k
IsLong(text) == text = LongAnswer \/ OfKind(text, "long")

NoUpdate == [pc |-> "poll", chat |-> 0, text |-> 0]

\* The updates of a response that begins with `from`: what does not fit is cut off.
Response(from) == {u \in from .. Len(sent) : u < from + Held}

\* Only the first occurrence of each key in the response is looked at: the chat is
\* that of the first message, the text the first one from there on.
Least(S) == CHOOSE x \in S : \A y \in S : x <= y
Messages(from) == {u \in Response(from) : HasMessage(u)}
ChatAt(from) == Least(Messages(from))
Texts(from) == {u \in Response(from) : ChatAt(from) <= u /\ HasText(u)}
TextAt(from) == FirstText(Least(Texts(from)))

\* Mutant of Decodable: only an update with a text of its own is taken.
Decodable_First(from) == from <= Len(sent) /\ sent[from].kind \in {"text", "command"}

Decodable(from) ==
  Messages(from) # {} /\ Texts(from) # {} /\ ~IsLong(TextAt(from))

Init ==
  /\ OperatorInit
  /\ sent = <<>>
  /\ confirmed = 0
  /\ offset = 0
  /\ poller = NoUpdate
  /\ done = [text \in TextIds |-> 0]
  /\ kept = {}
  /\ restarts = 0

\* What a reply may quote; an update that quotes no text has quotes = 0.
Quotable ==
  IF Cardinality({u \in 1 .. Len(sent) : sent[u].kind = "reply"}) < MaxReplies
  THEN {u \in 1 .. Len(sent) : sent[u].kind # "photo"} \cup {Answer, LongAnswer}
  ELSE {}

UserSends ==
  /\ Len(sent) < MaxUpdates
  /\ \E k \in Kinds :
       \E q \in (IF k = "reply" THEN Quotable ELSE {0}) : sent' = Append(sent, [kind |-> k, quotes |-> q])
  /\ UNCHANGED <<opVars, confirmed, offset, poller, done, kept, restarts>>

\* getUpdates makes the server forget the updates before the offset.
Confirmed == IF offset > confirmed + 1 THEN offset - 1 ELSE confirmed

\* Mutant of PollDecodes: the offset is that of the update just taken.
PollDecodes_Same ==
  LET first == Confirmed + 1 IN
  /\ up
  /\ poller.pc = "poll"
  /\ Decodable(first)
  /\ confirmed' = Confirmed
  /\ offset' = first
  /\ poller' = [pc |-> "handle", chat |-> ChatAt(first), text |-> TextAt(first)]
  /\ UNCHANGED <<opVars, sent, done, kept, restarts>>

\* A poll whose response arrives and can be decoded. The offset moves past the
\* first update of the response, whichever update the text is from.
PollDecodes ==
  LET first == Confirmed + 1 IN
  /\ up
  /\ poller.pc = "poll"
  /\ Decodable(first)
  /\ confirmed' = Confirmed
  /\ offset' = first + 1
  /\ poller' = [pc |-> "handle", chat |-> ChatAt(first), text |-> TextAt(first)]
  /\ UNCHANGED <<opVars, sent, done, kept, restarts>>

\* A poll that reached the server, but its response was lost, empty or could not
\* be decoded.
PollFails ==
  /\ up
  /\ poller.pc = "poll"
  /\ confirmed' = Confirmed
  /\ UNCHANGED <<opVars, sent, offset, poller, done, kept, restarts>>

\* The text has been dealt with; what is left is to send the reply.
CarriedOut ==
  /\ done' = [done EXCEPT ![poller.text] = @ + 1]
  /\ kept' = IF poller.text = FirstText(poller.chat) THEN kept \cup {poller.chat} ELSE kept
  /\ poller' = [poller EXCEPT !.pc = "reply"]

\* A command is carried out by the poller.
HandleCommand ==
  /\ poller.pc = "handle"
  /\ OfKind(poller.text, "command")
  /\ CarriedOut
  /\ UNCHANGED <<opVars, sent, confirmed, offset, restarts>>

\* Any other text is a request to the operator worker.
HandleText ==
  /\ poller.pc = "handle"
  /\ ~OfKind(poller.text, "command")
  /\ Submit(Poller)
  /\ poller' = [poller EXCEPT !.pc = "submitted"]
  /\ UNCHANGED <<sent, confirmed, offset, done, kept, restarts>>

\* submit_operator_request has returned.
TakeAnswer ==
  /\ poller.pc = "submitted"
  /\ client[Poller].pc = "idle"
  /\ CarriedOut
  /\ UNCHANGED <<opVars, sent, confirmed, offset, restarts>>

\* The reply is sent, or lost: the poller goes on.
Reply ==
  /\ poller.pc = "reply"
  /\ poller' = NoUpdate
  /\ UNCHANGED <<opVars, sent, confirmed, offset, done, kept, restarts>>

\* Mutant of Restart: the offset is kept in flash.
Restart_KeepsOffset ==
  /\ restarts < MaxRestarts
  /\ restarts' = restarts + 1
  /\ up' = FALSE
  /\ mutex' = None
  /\ request' = [requester |-> None, work |-> None, ok |-> TRUE]
  /\ notified' = [t \in Requesters \cup {Worker} |-> 0]
  /\ worker' = [pc |-> "wait", requester |-> None]
  /\ client' = [r \in Requesters |-> Idle]
  /\ poller' = NoUpdate
  /\ UNCHANGED <<sent, confirmed, offset, done, kept>>

\* The device restarts: what is in its memory is gone, the server keeps its own.
Restart ==
  /\ restarts < MaxRestarts
  /\ restarts' = restarts + 1
  /\ up' = FALSE
  /\ mutex' = None
  /\ request' = [requester |-> None, work |-> None, ok |-> TRUE]
  /\ notified' = [t \in Requesters \cup {Worker} |-> 0]
  /\ worker' = [pc |-> "wait", requester |-> None]
  /\ client' = [r \in Requesters |-> Idle]
  /\ offset' = 0
  /\ poller' = NoUpdate
  /\ UNCHANGED <<sent, confirmed, done, kept>>

OperatorNext ==
  /\ \/ StartWorker
     \/ Serve
     \/ \E r \in Requesters \ {Poller} : client[r].n + restarts < MaxTyped /\ Submit(r)
     \/ \E r \in Requesters : Proceed(r)
  /\ UNCHANGED <<sent, confirmed, offset, poller, done, kept, restarts>>

PollerNext ==
  PollDecodes \/ PollFails \/ HandleCommand \/ HandleText \/ TakeAnswer \/ Reply

Next == OperatorNext \/ PollerNext \/ UserSends \/ Restart

\* The tasks run: a request ends, because provider calls and tools have timeouts,
\* and a poll succeeds in the end. Users send and the console asks when they like.
OperatorFair ==
  /\ WF_vars(StartWorker /\ UNCHANGED <<sent, confirmed, offset, poller, done, kept, restarts>>)
  /\ WF_vars(Serve /\ UNCHANGED <<sent, confirmed, offset, poller, done, kept, restarts>>)
  /\ \A r \in Requesters :
       WF_vars(Proceed(r) /\ UNCHANGED <<sent, confirmed, offset, poller, done, kept, restarts>>)

Spec ==
  /\ Init
  /\ [][Next]_vars
  /\ OperatorFair
  /\ WF_vars(PollDecodes)
  /\ WF_vars(HandleCommand \/ HandleText \/ TakeAnswer \/ Reply)
-----------------------------------------------------------------------------
Answerable(u) == HasMessage(u) /\ HasText(u) /\ ~IsLong(FirstText(u))

\* No message is lost: the server is made to forget a message only after the first
\* text in it was carried out for its own chat, wherever a restart or a lost
\* response falls, and although the offset moves on before the text is carried
\* out.  That is its own text, but in a reply the text it quotes: what the user
\* wrote in a reply to a text is never carried out (telegram_protocol.c:163).
ForgottenWasHandled == \A u \in 1 .. confirmed : Answerable(u) => u \in kept

\* The updates that may have made the poller carry out a text: those whose first
\* text it is, and those without a text or without a message that stand before one.
Carries(v, text) == HasText(v) /\ FirstText(v) = text
Bare(v) == ~HasText(v) \/ ~HasMessage(v)
Gives(v, text) == Carries(v, text) \/ (Bare(v) /\ \E w \in v + 1 .. Len(sent) : Carries(w, text))

\* A text is carried out again only because of a restart, or of an update that gives
\* it: a reply that quotes it, or one without a text of its own, whose response is
\* decoded across it, before the text is met again as its own update.
RepeatsHaveACause ==
  \A text \in TextIds :
    done[text] <= restarts + Cardinality({v \in 1 .. Len(sent) : Gives(v, text)})

\* Nothing holds the poller up before update u: no text that does not fit
\* update.text, own or quoted, and no stretch of updates that fills a response
\* without a message and a text behind it.
NothingBlocks(u) ==
  /\ \A v \in 1 .. u : HasText(v) => ~IsLong(FirstText(v))
  /\ \A v \in 1 .. u - Held :
       \E c \in v .. v + Held - 1 : \E w \in c .. v + Held - 1 : HasMessage(c) /\ HasText(w)

\* The first text of a message is carried out for it in the end, whatever the
\* console asks of the worker in between, unless one of these two stands before it:
\* the offset never passes that one.
MessagesHandled ==
  \A u \in 1 .. MaxUpdates :
    (u <= Len(sent) /\ Answerable(u) /\ NothingBlocks(u)) ~> (u \in kept)
=============================================================================
