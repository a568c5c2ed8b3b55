-------------------------- MODULE HostedConversation --------------------------
(***************************************************************************)
(* The Multi Agent lane of the browser: the conversation the operator sees *)
(* (IntelligenceConversations), the transport that asks the hosted agent   *)
(* and finds an interrupted run again (HostedTransport), and the approval  *)
(* cards of its answers (HostedApprovalCard), beside the service they call.*)
(*                                                                         *)
(* An await separates two steps.  A session, and its transport client, is  *)
(* named after its first question and a run after the question it answers; *)
(* a question has at most one run and an answer at most one card.          *)
(***************************************************************************)
EXTENDS Naturals

CONSTANTS
    Questions,
    Carded,         \* questions whose answers bring a work-order draft
    None,
    PollLimit,      \* consecutive lost polls that end a recovery
    MaxVisits,      \* times the operator leaves the page and comes back
    MaxRevisions,   \* bounds of the checked instances: identity changes
    MaxFaults       \* and requests of a question that fail on the way

Verdicts == {"approve", "reject"}
Certified == {"created", "rejected", "blocked"}     \* final receipts of WorkOrderCard
Cards == Questions \X (0..MaxVisits)     \* one HostedApprovalCard per visit of the page
NoticesStop == {"open", "polling", "checking"}      \* awaits that an abort ends
Pending == {"signing"} \cup NoticesStop
Over == {"answered", "stopped", "unsent", "refused", "invalid", "lost"}

ASSUME ConstantsAssumption ==
    /\ Carded \subseteq Questions
    /\ None \notin Questions \cup Verdicts \cup Certified \cup {"busy", "failed"}
    /\ Questions \cap {"busy", "failed"} = {}
    /\ PollLimit \in Nat \ {0}
    /\ MaxVisits \in Nat /\ MaxRevisions \in Nat /\ MaxFaults \in Nat

Shown == Questions \cup {None, "busy", "failed"}    \* a question: the answer of its run
Transcripts == [Questions -> Shown]
Tasks == [pc : {"unasked"} \cup Pending \cup Over, revision : Nat,
          session : Questions \cup {None}, history : Transcripts,
          context : Questions \cup {None}, target : Questions \cup {None},
          reply : Questions \cup {None}, fails : Nat]
Clients == [running : BOOLEAN, previous : Questions \cup {None},
            interrupted : Questions \cup {None}, version : Nat]
CardStates == [shows : {"pending", "saving", "uncertain", "disabled"} \cup Certified,
               submitted : Verdicts \cup {None}]
Calls == [pc : {"none", "signing", "sent"}, reconcile : BOOLEAN]

VARIABLES
    revision, transcript, busy, session, controller,  \* IntelligenceConversations
    aborted,      \* question -> its signal
    task,         \* question -> the run() that asks it
    client,       \* session -> HostedTransport
    run,          \* question -> its run on the service
    offered,      \* question -> conversationVersion its draft was offered in
    visit,        \* which time the page is open
    card, call,   \* card -> its state, its request on the way
    decides,      \* card -> decide operations sent
    verdict, order, receipt,  \* question -> what the service has of its draft
    faults

laneVars == <<revision, transcript, busy, session, controller>>
cardVars == <<offered, visit, card, call, decides>>
serviceVars == <<run, verdict, order, receipt>>
vars == <<laneVars, aborted, task, client, cardVars, serviceVars, faults>>

NoMessages == [q \in Questions |-> None]
NewClient == [running |-> FALSE, previous |-> None, interrupted |-> None, version |-> 0]

Init ==
    /\ revision = 0 /\ transcript = NoMessages /\ busy = FALSE
    /\ session = None /\ controller = None
    /\ aborted = [q \in Questions |-> FALSE]
    /\ task = [q \in Questions |->
                  [pc |-> "unasked", revision |-> 0, session |-> None, history |-> NoMessages,
                   context |-> None, target |-> None, reply |-> None, fails |-> 0]]
    /\ client = [s \in Questions |-> NewClient]
    /\ run = [q \in Questions |-> "none"]
    /\ offered = NoMessages /\ visit = 0
    /\ card = [c \in Cards |-> [shows |-> "pending", submitted |-> None]]
    /\ call = [c \in Cards |-> [pc |-> "none", reconcile |-> FALSE]]
    /\ decides = [c \in Cards |-> 0]
    /\ verdict = NoMessages /\ order = NoMessages /\ receipt = NoMessages
    /\ faults = 0

-----------------------------------------------------------------------------
(* The lane.                                                               *)

Mine(q) == client[task[q].session]      \* the transport the question was sent with
Spend == faults < MaxFaults /\ faults' = faults + 1

PaintsAlways(q) == TRUE   \* mutant: the revision is not compared
MayPaint(q) == task[q].revision = revision
Paint(q, message) ==
    IF MayPaint(q)
    THEN transcript' = [task[q].history EXCEPT ![q] = message] /\ busy' = FALSE
    ELSE UNCHANGED <<transcript, busy>>

ForgetsAny(q) == None   \* mutant: whichever controller is there is removed
Unregister(q) == IF controller = q THEN None ELSE controller

KeepInterrupted(c) == [c EXCEPT !.running = TRUE]   \* mutant: interruptedRunId is kept
Begin(c) == [c EXCEPT !.running = TRUE, !.interrupted = None]

\* send and run, up to the first await: the sign-in of the run operation.
Ask(q) ==
    LET s == IF session = None THEN q ELSE session IN
    /\ task[q].pc = "unasked" /\ ~busy
    /\ session' = s /\ controller' = q
    /\ transcript' = [transcript EXCEPT ![q] = "busy"] /\ busy' = TRUE
    /\ task' = [task EXCEPT ![q] =
          [task[q] EXCEPT !.pc = "signing", !.revision = revision, !.session = s,
                          !.history = transcript, !.context = client[s].previous]]
    /\ client' = [client EXCEPT ![s] = Begin(@)]
    /\ UNCHANGED <<revision, aborted, cardVars, serviceVars, faults>>

\* Both finally blocks and what lies between them: no await.
End(q, pc, message) ==
    /\ task' = [task EXCEPT ![q].pc = pc, ![q].history = NoMessages]
    /\ controller' = Unregister(q)
    /\ Paint(q, message)
    /\ UNCHANGED <<revision, session, aborted, serviceVars>>

\* `dropped': the error is an HTTP 404 or 409.
Failed(c, dropped) ==
    [c EXCEPT !.running = FALSE, !.previous = IF dropped THEN None ELSE c.previous]
Throw(q, pc, dropped) ==
    /\ End(q, pc, "failed")
    /\ client' = [client EXCEPT ![task[q].session] = Failed(@, dropped)]
    /\ UNCHANGED cardVars

Released(c) == [c EXCEPT !.previous = None, !.interrupted = None, !.version = c.version + 1]

\* setIdentity: another account, workspace or source.
Clear ==
    /\ revision < MaxRevisions /\ revision' = revision + 1
    /\ aborted' = IF controller = None THEN aborted
                  ELSE [aborted EXCEPT ![controller] = TRUE]
    /\ client' = IF session = None THEN client ELSE [client EXCEPT ![session] = Released(@)]
    /\ controller' = None /\ session' = None
    /\ transcript' = NoMessages /\ busy' = FALSE
    /\ UNCHANGED <<task, cardVars, serviceVars, faults>>

\* New chat.
Reset ==
    /\ ~busy /\ session # None
    /\ client' = [client EXCEPT ![session] = Released(@)]
    /\ session' = None /\ transcript' = NoMessages
    /\ UNCHANGED <<revision, busy, controller, aborted, task, cardVars, serviceVars, faults>>

Abort(q) ==
    /\ aborted' = [aborted EXCEPT ![q] = TRUE]
    /\ UNCHANGED <<laneVars, task, client, cardVars, serviceVars, faults>>
Stop == controller # None /\ ~aborted[controller] /\ Abort(controller)
Timeout(q) == task[q].pc \in Pending /\ ~aborted[q] /\ Abort(q)

-----------------------------------------------------------------------------
(* One question.                                                           *)

Step(q, fields) ==
    /\ task' = [task EXCEPT ![q] = fields]
    /\ UNCHANGED <<laneVars, aborted, client, cardVars>>

SendsAnyway(q) == TRUE   \* mutant: the signal is not looked at after the sign-in
MaySend(q) == ~aborted[q]

\* invoke after its sign-in, which no abort interrupts: POST, or an error.
SignInEnds(q) ==
    /\ task[q].pc = "signing"
    /\ \/ /\ MaySend(q)
          /\ Step(q, [task[q] EXCEPT !.pc = "open"])
          /\ run' = [run EXCEPT ![q] = "sent"]
          /\ UNCHANGED <<verdict, order, receipt>>
       \/ ~MaySend(q) /\ Throw(q, "stopped", FALSE)
       \/ MaySend(q) /\ Throw(q, "unsent", FALSE)
    /\ UNCHANGED faults

\* The first line of the stream names the run.
StreamRun(q) ==
    /\ task[q].pc = "open" /\ ~aborted[q]
    /\ run[q] \notin {"none", "sent"} /\ Mine(q).interrupted # q
    /\ client' = [client EXCEPT ![task[q].session].interrupted = q]
    /\ UNCHANGED <<laneVars, aborted, task, cardVars, serviceVars, faults>>

Answered(q, r) == Step(q, [task[q] EXCEPT !.pc = "checking", !.reply = r, !.fails = 0])

StreamAnswer(q) ==
    /\ task[q].pc = "open" /\ ~aborted[q]
    /\ run[q] = "completed"
    /\ Answered(q, q)
    /\ UNCHANGED <<serviceVars, faults>>

\* An error response, or an error line in the stream.
RunRefused(q, dropped) ==
    /\ task[q].pc = "open" /\ ~aborted[q]
    /\ Throw(q, "refused", dropped)
    /\ UNCHANGED faults

\* No heartbeat, no answer, no connection.
StreamBreaks(q) ==
    /\ task[q].pc = "open" /\ ~aborted[q]
    /\ Spend
    /\ IF Mine(q).interrupted = None
       THEN Throw(q, "lost", FALSE)
       ELSE /\ Step(q, [task[q] EXCEPT !.pc = "polling", !.target = Mine(q).interrupted])
            /\ UNCHANGED serviceVars

Polling(q) == task[q].pc = "polling" /\ ~aborted[q]

\* The answer to a poll: a failed run ends the question as an HTTP error does.
PollAnswered(q, dropped) ==
    /\ Polling(q)
    /\ \/ run[task[q].target] = "completed" /\ Answered(q, task[q].target) /\ UNCHANGED serviceVars
       \/ run[task[q].target] = "failed" /\ Throw(q, "refused", dropped)
    /\ UNCHANGED faults

PollRunning(q) ==
    /\ Polling(q) /\ run[task[q].target] = "running" /\ task[q].fails # 0
    /\ Step(q, [task[q] EXCEPT !.fails = 0])
    /\ UNCHANGED <<serviceVars, faults>>

PollRefused(q, dropped) == Polling(q) /\ Spend /\ Throw(q, "refused", dropped)

LosesEarly(n) == n + 1 >= PollLimit   \* mutant: off by one
LastPoll(n) == n >= PollLimit
PollLost(q) ==
    /\ Polling(q) /\ Spend
    /\ LET n == task[q].fails + 1 IN
       IF LastPoll(n) THEN Throw(q, "lost", FALSE)
       ELSE Step(q, [task[q] EXCEPT !.fails = n]) /\ UNCHANGED serviceVars

MayAccept(q) == ~aborted[q]

\* From the last await to the painted answer; a draft becomes a card.
Accept(q) ==
    /\ task[q].pc = "checking" /\ MayAccept(q)
    /\ End(q, "answered", IF aborted[q] THEN "failed" ELSE task[q].reply)
    /\ client' = [client EXCEPT ![task[q].session] =
          [Mine(q) EXCEPT !.running = FALSE, !.previous = task[q].reply, !.interrupted = None]]
    /\ offered' = IF q \in Carded THEN [offered EXCEPT ![q] = Mine(q).version] ELSE offered
    /\ UNCHANGED <<visit, card, call, decides, faults>>

\* Another source, a digest that does not match, a malformed card.
Contradicted(q) ==
    /\ task[q].pc = "checking" /\ ~aborted[q]
    /\ Throw(q, "invalid", FALSE)
    /\ UNCHANGED faults

StopEnds(q) == NoticesStop
StopTakesEffect(q) ==
    /\ task[q].pc \in StopEnds(q) /\ aborted[q]
    /\ Throw(q, "stopped", FALSE)
    /\ UNCHANGED faults

-----------------------------------------------------------------------------
(* The cards.                                                              *)

CardOnly ==
    UNCHANGED <<laneVars, aborted, task, client, offered, serviceVars, faults>>

\* Another page and back: the component is mounted anew, with a state of its own,
\* while what the earlier one awaits goes on.
Revisit ==
    /\ visit < MaxVisits /\ visit' = visit + 1
    /\ UNCHANGED <<card, call, decides>> /\ CardOnly

Displayed(c) == c[2] = visit /\ transcript[c[1]] = c[1] /\ offered[c[1]] # None

DecidesAgain(c) == card[c].shows \in {"pending", "uncertain"}   \* mutant: as it says
MayDecide(c) == card[c].shows = "pending"

\* A click: the callback compares conversation versions at once, then signs in.
Submit(c, v, reconcile) ==
    LET accepted == offered[c[1]] = Mine(c[1]).version IN
    /\ Displayed(c)
    /\ card' = [card EXCEPT ![c] =
          [shows |-> IF accepted THEN "saving" ELSE "uncertain", submitted |-> v]]
    /\ call' = IF accepted
               THEN [call EXCEPT ![c] = [pc |-> "signing", reconcile |-> reconcile]] ELSE call
    /\ UNCHANGED <<visit, decides>> /\ CardOnly

Decide(c, v) == MayDecide(c) /\ Submit(c, v, FALSE)
Reconcile(c) == card[c].shows = "uncertain" /\ Submit(c, card[c].submitted, TRUE)

CallSignedIn(c) ==
    /\ call[c].pc = "signing"
    /\ call' = [call EXCEPT ![c].pc = "sent"]
    /\ decides' = IF call[c].reconcile THEN decides ELSE [decides EXCEPT ![c] = @ + 1]
    /\ UNCHANGED <<visit, card>> /\ CardOnly

Settle(c, shows) ==
    /\ card' = [card EXCEPT ![c].shows = shows]
    /\ call' = [call EXCEPT ![c].pc = "none"]
    /\ UNCHANGED <<visit, decides>> /\ CardOnly

\* Sign-in fails, or the request or its answer is lost.
CallLost(c) == call[c].pc # "none" /\ Settle(c, "uncertain")

\* What decide_work_order may answer; "conflict" stands for every error without
\* a status the card knows, "unsubmitted" has the status blocked.
Replies(c) ==
    LET q == c[1] IN
    {"conflict"} \cup
    IF call[c].reconcile /\ verdict[q] = None THEN {"unsubmitted"}
    ELSE IF verdict[q] \notin {None, card[c].submitted} THEN {}
    ELSE IF receipt[q] # None THEN {receipt[q]}
    ELSE IF card[c].submitted = "approve" THEN {"disabled"}
    ELSE {}

TrustsReply(c, reply) ==   \* mutant: any reply confirms the decision
    IF card[c].submitted = "approve" THEN "created" ELSE "rejected"
Outcome(c, reply) ==
    CASE reply = "rejected" /\ card[c].submitted = "reject" -> "rejected"
      [] reply = "created" /\ card[c].submitted = "approve" -> "created"
      [] reply \in {"blocked", "unsubmitted"}               -> "blocked"
      [] reply = "disabled"                                 -> "disabled"
      [] OTHER                                              -> "uncertain"

CallAnswered(c) ==
    /\ call[c].pc = "sent"
    /\ \E reply \in Replies(c) : Settle(c, Outcome(c, reply))

-----------------------------------------------------------------------------
(* The service: FoundrySupervisor runs and work-order decisions.           *)

BrowserOnly == UNCHANGED <<laneVars, aborted, task, client, cardVars, faults>>
Admit(q) ==
    /\ run[q] = "sent" /\ run' = [run EXCEPT ![q] = "running"]
    /\ UNCHANGED <<verdict, order, receipt>> /\ BrowserOnly
Execute(q) ==
    /\ run[q] = "running"
    /\ \E end \in {"completed", "failed"} : run' = [run EXCEPT ![q] = end]
    /\ UNCHANGED <<verdict, order, receipt>> /\ BrowserOnly

\* A decide that was sent arrives, however late.
MayJudge(q) == verdict[q] = None
Judge(c) ==
    /\ decides[c] > 0 /\ MayJudge(c[1])
    /\ verdict' = [verdict EXCEPT ![c[1]] = card[c].submitted]
    /\ UNCHANGED <<run, order, receipt>> /\ BrowserOnly
Perform(q) ==
    /\ verdict[q] = "approve" /\ order[q] = None
    /\ order' = [order EXCEPT ![q] = "approve"]
    /\ UNCHANGED <<run, verdict, receipt>> /\ BrowserOnly
Certify(q) ==
    /\ receipt[q] = None /\ verdict[q] # None
    /\ \E r \in Certified :
          /\ r = "rejected" <=> verdict[q] = "reject"
          /\ r = "created" => order[q] # None
          /\ receipt' = [receipt EXCEPT ![q] = r]
    /\ UNCHANGED <<run, verdict, order>> /\ BrowserOnly

-----------------------------------------------------------------------------
Asking(q) ==
    \/ Ask(q) \/ SignInEnds(q) \/ StreamRun(q) \/ StreamAnswer(q) \/ StreamBreaks(q)
    \/ PollRunning(q) \/ PollLost(q) \/ Accept(q) \/ Contradicted(q)
    \/ StopTakesEffect(q) \/ Timeout(q)
    \/ \E dropped \in BOOLEAN :
          RunRefused(q, dropped) \/ PollAnswered(q, dropped) \/ PollRefused(q, dropped)
Deciding(c) ==
    \/ \E v \in Verdicts : Decide(c, v)
    \/ Reconcile(c) \/ CallSignedIn(c) \/ CallLost(c) \/ CallAnswered(c) \/ Judge(c)
Service(q) == Admit(q) \/ Execute(q) \/ Perform(q) \/ Certify(q)

Next ==
    \/ Clear \/ Reset \/ Stop \/ Revisit
    \/ \E q \in Questions : Asking(q) \/ Service(q)
    \/ \E c \in Cards : Deciding(c)

Spec == Init /\ [][Next]_vars

\* The timers of fetches and polls, a service that ends what it admits and,
\* without a promise in the code, a sign-in that ends.
FairButSignIn ==
    /\ Spec
    /\ \A q \in Questions :
          /\ WF_vars(Accept(q) \/ Contradicted(q)) /\ WF_vars(StopTakesEffect(q))
          /\ WF_vars(Execute(q))
          /\ WF_vars(\E dropped \in BOOLEAN : PollAnswered(q, dropped))
FairSpec == FairButSignIn /\ \A q \in Questions : WF_vars(SignInEnds(q))

-----------------------------------------------------------------------------
(* Correctness.                                                            *)

\* Every variable keeps its type; a recovery that goes on has lost fewer than
\* PollLimit polls in a row.
TypeOK ==
    /\ revision \in Nat /\ transcript \in Transcripts /\ busy \in BOOLEAN
    /\ session \in Questions \cup {None} /\ controller \in Questions \cup {None}
    /\ aborted \in [Questions -> BOOLEAN]
    /\ task \in [Questions -> Tasks]
    /\ \A q \in Questions : task[q].fails < PollLimit
    /\ client \in [Questions -> Clients]
    /\ run \in [Questions -> {"none", "sent", "running", "completed", "failed"}]
    /\ offered \in [Questions -> Nat \cup {None}] /\ visit \in 0..MaxVisits
    /\ card \in [Cards -> CardStates] /\ call \in [Cards -> Calls]
    /\ decides \in [Cards -> Nat]
    /\ verdict \in [Questions -> Verdicts \cup {None}]
    /\ order \in [Questions -> {"approve", None}]
    /\ receipt \in [Questions -> Certified \cup {None}]
    /\ faults \in Nat

\* The transcript shows only questions of this identity and this chat: a request
\* that ends after the account changed paints nothing (paint).
ShownIsCurrent ==
    \A q \in Questions : transcript[q] # None =>
        task[q].revision = revision /\ task[q].session = session

Live(q) == task[q].pc \in Pending
Current(q) == Live(q) /\ task[q].revision = revision

\* The lane is busy exactly while one request of this identity runs; that request
\* is the one Stop reaches, and every other is stopped already.  So the transport
\* of the lane is never asked while it runs ("already running").
BusyIsOneTask ==
    /\ busy <=> controller # None
    /\ controller # None => Current(controller) /\ transcript[controller] = "busy"
    /\ \A q \in Questions : Live(q) => q = controller \/ (aborted[q] /\ ~Current(q))
    /\ \A q \in Questions : transcript[q] = "busy" => q = controller
    /\ session # None /\ ~busy => ~client[session].running

\* An answer is shown under the question it was computed for, also when the stream
\* broke and the run was found again by its identity.
AnswersAreTheirOwn ==
    \A q \in Questions : transcript[q] \in Questions =>
        transcript[q] = q /\ run[q] = "completed"

\* The run that the next question will continue is one whose answer the operator
\* sees, never that of a request that was stopped or of another chat.
FollowUpsAreVisible ==
    session # None => LET p == client[session].previous IN p # None => transcript[p] = p

\* A question is not sent once it was stopped or the account changed, and what it
\* continues is still shown when it is.
NothingIsSentAfterStop ==
    [][\A q \in Questions : run[q] = "none" /\ run'[q] = "sent" =>
          /\ ~aborted[q] /\ task[q].revision = revision /\ task[q].session = session
          /\ task[q].context # None => transcript[task[q].context] = task[q].context]_vars

\* A card sends its decide once, whatever is lost and however often the outcome is
\* reconciled, and the decision the service has of a draft is the one of a card.
DecidedOnce ==
    /\ \A c \in Cards : decides[c] <= 1
    /\ \A q \in Questions : verdict[q] # None =>
          \E c \in Cards : c[1] = q /\ decides[c] = 1 /\ card[c].submitted = verdict[q]

\* A card that says created has its order, and one that says rejected has none and
\* never will, whatever other cards of the draft have submitted.
CardsAreTrue ==
    \A c \in Cards :
        /\ card[c].shows = "created" => order[c[1]] = "approve"
        /\ card[c].shows = "rejected" => verdict[c[1]] = "reject" /\ order[c[1]] = None

\* What the service has of each draft is a WorkOrderCard, as WorkOrderDecision
\* shows of the operations behind it.
Kept(q) == INSTANCE WorkOrderCard WITH
    Edits <- {"approve"}, Reject <- "reject",
    verdict <- verdict[q], order <- order[q], receipt <- receipt[q]
KeepsCards == [][\A q \in Questions : [Kept(q)!Next]_(Kept(q)!vars)]_vars

\* A run whose stream broke after it was named is found again, and a recovery that
\* is stopped ends: only the stop, the service itself or a third lost poll in a row
\* keep its answer from the operator.
InterruptedRunsAreShown ==
    \A q \in Questions :
        task[q].pc = "polling" ~>
            \/ task[q].pc \in {"answered", "refused", "invalid", "stopped"}
            \/ task[q].pc = "lost" /\ task[q].fails = 2

\* HydroOperationsApp/README.md:15: "cancellation stops local waiting".
StopEndsWaiting ==
    \A q \in Questions : controller = q /\ aborted[q] ~> controller # q

\* HydroOperationsService/README.md:852: "Failed runs/new chats clear the client's
\* preceding run ID."
FailedRunsAreForgotten ==
    [][\A q \in Questions : Live(q) /\ task'[q].pc \in Over \ {"answered"} =>
          client'[task[q].session].previous = None]_vars

\* HydroOperationsService/README.md:852-853: "Old cards cannot submit after their
\* conversation resets."
OldCardsNeverSubmit ==
    [][\A c \in Cards : call[c].pc = "signing" /\ call'[c].pc = "sent" =>
          offered[c[1]] = Mine(c[1]).version]_vars

\* HydroOperationsService/README.md:865: "Explicit disabled/blocked no-write
\* receipts differ from uncertain outcomes", where the service has no such receipt.
BlockedCardsStayUnwritten ==
    \A c \in Cards :
        card[c].shows = "blocked" /\ receipt[c[1]] # "blocked" => order[c[1]] = None

\* HydroOperationsApp/README.md:84-86: the transcripts are in an app-lifetime provider,
\* and "navigating between pages does not reset them".
SettledCardsStaySettled ==
    \A c, d \in Cards :
        c[1] = d[1] /\ card[c].shows \in Certified /\ Displayed(d) => card[d].shows # "pending"

-----------------------------------------------------------------------------
(* The strengthening that makes the state properties inductive.            *)

\* A session belongs to one revision and has one live request at a time; what the
\* current one will paint is what is shown, and its own message.
SessionInv ==
    /\ session # None => task[session].pc # "unasked"
    /\ \A q \in Questions :
          IF task[q].pc = "unasked" THEN transcript[q] = None /\ client[q] = NewClient
          ELSE /\ task[q].session # None /\ task[task[q].session].pc # "unasked"
               /\ task[q].revision <= revision
               /\ task[q].session = session => task[q].revision = revision
    /\ \A q \in Questions : Current(q) =>
          task[q].session = session /\ transcript = [task[q].history EXCEPT ![q] = "busy"]
    /\ \A q, r \in Questions :
          Live(q) /\ Live(r) /\ task[q].session = task[r].session => q = r
    /\ \A s \in Questions : client[s].running =>
          \E q \in Questions : Live(q) /\ task[q].session = s

\* A request knows no other run than its own.
RunInv ==
    \A q \in Questions :
        /\ task[q].pc \in {"unasked", "signing"} => run[q] = "none"
        /\ Live(q) => Mine(q).interrupted \in {None, q}
        /\ task[q].pc = "signing" /\ Current(q) => task[q].context = Mine(q).previous
        /\ task[q].pc = "polling" => task[q].target = q
        /\ task[q].pc = "checking" => task[q].reply = q /\ run[q] = "completed"

ConversationInv ==
    ShownIsCurrent /\ BusyIsOneTask /\ AnswersAreTheirOwn /\ FollowUpsAreVisible
        /\ SessionInv /\ RunInv

\* A card has one decision, which it sends before it reconciles it.
CardInv ==
    /\ \A c \in Cards :
          /\ card[c].shows = "pending" <=> card[c].submitted = None
          /\ card[c].shows = "pending" => decides[c] = 0
          /\ call[c].pc # "none" => card[c].shows = "saving"
          /\ call[c].pc = "signing" /\ ~call[c].reconcile => decides[c] = 0
    /\ \A q \in Questions :
          /\ order[q] # None => verdict[q] = "approve"
          /\ receipt[q] # None => verdict[q] # None
          /\ receipt[q] = "created" => order[q] # None
          /\ receipt[q] = "rejected" => verdict[q] = "reject"
    /\ DecidedOnce /\ CardsAreTrue

IInv == TypeOK /\ ConversationInv /\ CardInv
===============================================================================
