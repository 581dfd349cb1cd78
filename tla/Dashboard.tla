----------------------------- MODULE Dashboard ------------------------------
(***************************************************************************)
(* The page of figures (src/odoo_hr_dashboard/src/pages/Dashboard.jsx) and *)
(* the middleware that reads them (btl_backend/server.js).                 *)
(*                                                                         *)
(* Each choice of a period asks for the figures again and none takes an    *)
(* earlier request back: answers are applied as they come.  The middleware *)
(* reads three tables for an answer, each in a transaction of its own. A   *)
(* function of the page works on the state of the render it was made in:   *)
(* what a request does with its answer depends on the chat as it was when  *)
(* the request was made, and so does where a reply goes.                   *)
(*                                                                         *)
(* A table is a counter of its changes, and figures are what they were     *)
(* computed from.  Left out are the second chart, which asks alike, and    *)
(* the name of the employee that is sent.                                  *)
(***************************************************************************)
EXTENDS Naturals, Sequences, Functions

CONSTANTS
  Table,        \* the tables figures come from
  Month,        \* periods of a month, of which
  Initial,      \* the page starts with none chosen,
  Year,         \* and some are years
  Unread,       \* a table that is yet to be read
  MaxActs,      \* bound: choices the user makes and messages he sends, together
  MaxChanges    \* bound: changes of the tables, all together

ASSUME PeriodAssumption == Initial \notin Month \cup Year /\ Month \cap Year = {}
ASSUME UnreadAssumption == Unread \notin Nat
ASSUME ActsAssumption   == MaxActs \in Nat /\ MaxChanges \in Nat

VARIABLES
  table,        \* changes of each table so far
  perf,         \* perfMonth and perfYear
  shown,        \* stats and kpiData; empty at first
  loading,
  chatHistory,
  flight,       \* requests for figures the page waits for, by number
  asked,        \* how many it has made
  timer,        \* calls of fetchRealData that wait for their 100 ms
  chats,        \* histories of the messages that wait for a reply
  sent,         \* how many messages were sent
  disturbed     \* the last choice was not made at rest, or got no answer

pageVars == <<table, perf, shown, loading, chatHistory, flight, asked, timer,
              chats, sent, disturbed>>

Period == Month \cup Year \cup {Initial}

Empty == [period |-> Initial, read |-> [t \in Table |-> Unread]]

User(m)  == [role |-> "user", of |-> m]
Reply(m) == [role |-> "ai", of |-> m]
Greeting == [role |-> "ai", of |-> 0]

\* The page waits for no figures.
AtRest == DOMAIN flight = {} /\ timer = <<>>

\* The user does one more thing.
Act == asked - 2 + Len(timer) + sent < MaxActs

\* What fetchRealData takes from the render it was made in.
Closure == [period |-> perf, fresh |-> chatHistory = <<>>]

\* Mutant of Sent: a year is sent like a month.
Sent_Year(period) == period

\* The period the answer is for: the page sends a month as date, and a year alone
\* as year, which the middleware does not read.
Sent(period) == IF period \in Month THEN period ELSE Initial

Question(period, fresh) ==
  [period |-> Sent(period), fresh |-> fresh, since |-> table, read |-> Empty.read]

\* The two effects of the first render have asked for the same.
PageInit ==
  /\ table       = [t \in Table |-> 0]
  /\ perf        = Initial
  /\ shown       = Empty
  /\ loading     = TRUE
  /\ chatHistory = <<>>
  /\ flight      = [n \in 0 .. 1 |-> Question(Initial, TRUE)]
  /\ asked       = 2
  /\ timer       = <<>>
  /\ chats       = {}
  /\ sent        = 0
  /\ disturbed   = FALSE

-----------------------------------------------------------------------------
(* Requests for figures *)

\* fetchRealData, made in the render c: it is sent, and the page waits.
Ask(c) ==
  /\ asked'   = asked + 1
  /\ loading' = TRUE
  /\ flight'  = [n \in DOMAIN flight \cup {asked} |->
                   IF n = asked THEN Question(c.period, c.fresh) ELSE flight[n]]

\* Mutant of ChoosePeriod: the effect does not depend on the period.
ChoosePeriod_NoEffect(period) ==
  /\ Act /\ period # perf
  /\ perf'    = period
  /\ disturbed' = ~AtRest
  /\ UNCHANGED <<table, shown, chatHistory, timer, chats, sent, loading, flight, asked>>

\* A period is chosen: the page renders, and the effect on it asks.
ChoosePeriod(period) ==
  /\ Act /\ period # perf
  /\ perf'    = period
  /\ disturbed' = ~AtRest
  /\ Ask([Closure EXCEPT !.period = period])
  /\ UNCHANGED <<table, shown, chatHistory, timer, chats, sent>>

\* A suggested employee is clicked.  What waits is the fetchRealData of the
\* render the suggestion was shown in.
Suggest ==
  /\ Act /\ timer = <<>>
  /\ timer'     = <<Closure>>
  /\ disturbed' = ~AtRest
  /\ UNCHANGED <<table, perf, shown, loading, chatHistory, flight, asked, chats, sent>>

Timeout ==
  /\ timer # <<>>
  /\ Ask(Head(timer))
  /\ timer' = <<>>
  /\ UNCHANGED <<table, perf, shown, chatHistory, chats, sent, disturbed>>

\* Mutant of ReadTable: the middleware keeps what it read first.
ReadTable_Cached(n, t) ==
  /\ flight[n].read[t] = Unread
  /\ flight' = [flight EXCEPT ![n].read[t] = 0]
  /\ UNCHANGED <<table, perf, shown, loading, chatHistory, asked, timer, chats,
                 sent, disturbed>>

\* callOdoo: one of the three reads of a request.
ReadTable(n, t) ==
  /\ flight[n].read[t] = Unread
  /\ flight' = [flight EXCEPT ![n].read[t] = table[t]]
  /\ UNCHANGED <<table, perf, shown, loading, chatHistory, asked, timer, chats,
                 sent, disturbed>>

\* The request is over: finally.
Land(n) ==
  /\ loading' = FALSE
  /\ flight'  = [k \in DOMAIN flight \ {n} |-> flight[k]]
  /\ UNCHANGED <<table, perf, asked, timer, chats, sent>>

\* The greeting replaces the chat, if there was none when the request was made.
Greet(n) == chatHistory' = IF flight[n].fresh THEN <<Greeting>> ELSE chatHistory

Answer(n) ==
  /\ \A t \in Table : flight[n].read[t] # Unread
  /\ shown' = [period |-> flight[n].period, read |-> flight[n].read]
  /\ Greet(n)
  /\ Land(n)
  /\ UNCHANGED disturbed

\* A read failed: the middleware answers {error}, and the page, which does not
\* look at the status, shows figures that are undefined.
AnswerError(n) ==
  /\ \E t \in Table : flight[n].read[t] = Unread
  /\ shown' = Empty
  /\ Greet(n)
  /\ Land(n)
  /\ UNCHANGED disturbed

\* Mutant of NoAnswer: there is no finally.
NoAnswer_NoFinally(n) ==
  /\ disturbed' = TRUE
  /\ flight'    = [k \in DOMAIN flight \ {n} |-> flight[k]]
  /\ UNCHANGED <<table, perf, asked, timer, chats, sent, shown, chatHistory, loading>>

\* The middleware is out of reach: the old figures stay.
NoAnswer(n) ==
  /\ disturbed' = TRUE
  /\ Land(n)
  /\ UNCHANGED <<shown, chatHistory>>

-----------------------------------------------------------------------------
(* The chat *)

SendChat ==
  /\ Act
  /\ sent'        = sent + 1
  /\ chatHistory' = Append(chatHistory, User(sent'))
  /\ chats'       = chats \cup {chatHistory'}
  /\ UNCHANGED <<table, perf, shown, loading, flight, asked, timer, disturbed>>

\* Mutant of ReplyChat: the reply goes to the end of the chat as it is.
ReplyChat_AtEnd(history) ==
  /\ chats'       = chats \ {history}
  /\ chatHistory' = Append(chatHistory, Reply(history[Len(history)].of))
  /\ UNCHANGED <<table, perf, shown, loading, flight, asked, timer, sent, disturbed>>

\* handleSendChat goes on where it was called: with the history of that render.
ReplyChat(history) ==
  /\ chats'       = chats \ {history}
  /\ chatHistory' = Append(history, Reply(history[Len(history)].of))
  /\ UNCHANGED <<table, perf, shown, loading, flight, asked, timer, sent, disturbed>>

NoReply(history) ==
  /\ chats' = chats \ {history}
  /\ UNCHANGED <<table, perf, shown, loading, chatHistory, flight, asked, timer,
                 sent, disturbed>>

\* Users of the ERP change a table.
Change(t) ==
  /\ SumFunction(table) < MaxChanges
  /\ table' = [table EXCEPT ![t] = @ + 1]
  /\ UNCHANGED <<perf, shown, loading, chatHistory, flight, asked, timer, chats,
                 sent, disturbed>>

-----------------------------------------------------------------------------
\* What the page waits for comes, or the browser gives up waiting.
Finish(n) == Answer(n) \/ AnswerError(n) \/ NoAnswer(n)

PageNext ==
  \/ Suggest \/ Timeout
  \/ \E period \in Month \cup Year : ChoosePeriod(period)
  \/ \E n \in DOMAIN flight : Finish(n) \/ \E t \in Table : ReadTable(n, t)
  \/ SendChat
  \/ \E history \in chats : ReplyChat(history) \/ NoReply(history)
  \/ \E t \in Table : Change(t)

PageSpec == /\ PageInit /\ [][PageNext]_pageVars
        /\ WF_pageVars(\E n \in DOMAIN flight : Finish(n))

-----------------------------------------------------------------------------
(* Properties *)

Message == {User(m) : m \in 1 .. sent} \cup {Reply(m) : m \in 1 .. sent} \cup {Greeting}
Figures == [Table -> Nat \cup {Unread}]
Asked   == [period : Month \cup {Initial}, fresh : BOOLEAN, since : [Table -> Nat], read : Figures]

PageTypeOK ==
  /\ table       \in [Table -> Nat]
  /\ perf        \in Period
  /\ shown       \in [period : Month \cup {Initial}, read : Figures]
  /\ loading     \in BOOLEAN
  /\ chatHistory \in Seq(Message)
  /\ DOMAIN flight \subseteq 0 .. asked /\ flight \in [DOMAIN flight -> Asked]
  /\ asked       \in 2 .. MaxActs + 2
  /\ timer       \in Seq([period : Period, fresh : BOOLEAN])
  /\ chats       \subseteq Seq(Message)
  /\ sent        \in 0 .. MaxActs
  /\ disturbed   \in BOOLEAN

\* Figures that come with an answer are not older, of any table, than the
\* question was: what a user changed before asking is counted, although the
\* tables are read one by one and the answers may overtake each other.
FiguresFresh ==
  [][shown' # shown /\ shown' # Empty =>
       \E n \in DOMAIN flight \ DOMAIN flight' :
         /\ shown'.read = flight[n].read
         /\ \A t \in Table : flight[n].since[t] <= shown'.read[t] /\ shown'.read[t] <= table[t]]_pageVars

\* The page is at rest, after a choice that was made at rest and answered.  Where
\* a choice is made while figures are still to come the answer that comes last
\* stays, for whichever choice it is.
Settled == ~disturbed /\ AtRest /\ shown # Empty

\* "Trigger khi bo loc thong minh thay doi" (the effect on the filter): where the
\* filter shows a month, or no choice, the figures of a settled page are those of
\* that month, or of all time, whichever render the last request came from.  Of a
\* year there is nothing to promise: the filter shows it above figures of all time.
ShownAsChosen == Settled /\ perf \notin Year => shown.period = perf

\* A reply of the chat is shown right below what it answers, whatever was sent,
\* answered or wiped away by the greeting in between.
RepliesFollowQuestions ==
  \A i \in 1 .. Len(chatHistory) :
    chatHistory[i].role = "ai" /\ chatHistory[i] # Greeting =>
      i > 1 /\ chatHistory[i - 1] = User(chatHistory[i].of)

\* The page does not load forever, whether an answer comes or not.
LoadingEnds == loading ~> ~loading
=============================================================================
