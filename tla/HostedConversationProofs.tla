----------------------- MODULE HostedConversationProofs -----------------------
(***************************************************************************)
(* Proofs about HostedConversation, for any questions, visits, identity    *)
(* changes and lost calls.  The state falls into three parts that are      *)
(* proved one after the other: types, conversation and cards.              *)
(***************************************************************************)
EXTENDS HostedConversation, TLAPS

USE ConstantsAssumption

-----------------------------------------------------------------------------
(* Types.                                                                  *)

\* What the end of a request leaves well typed.
LEMMA EndType ==
    ASSUME TypeOK, NEW q \in Questions, NEW pc \in Over, NEW message \in Shown,
           End(q, pc, message)
    PROVE  /\ task' \in [Questions -> Tasks]
           /\ \A r \in Questions : task'[r].fails < PollLimit
           /\ controller' \in Questions \cup {None}
           /\ transcript' \in Transcripts /\ busy' \in BOOLEAN
<1>1. NoMessages \in Transcripts
    BY DEF NoMessages, Transcripts, Shown
<1>2. [task[q] EXCEPT !.pc = pc, !.history = NoMessages] \in Tasks
    <2>1. task[q] \in Tasks
        BY DEF TypeOK
    <2> QED BY <1>1, <2>1 DEF Tasks, Over
<1>3. task' = [task EXCEPT ![q] = [task[q] EXCEPT !.pc = pc, !.history = NoMessages]]
    BY DEF End, TypeOK
<1>4. task' \in [Questions -> Tasks] /\ \A r \in Questions : task'[r].fails < PollLimit
    BY <1>2, <1>3 DEF TypeOK, Tasks
<1>5. controller' \in Questions \cup {None}
    BY DEF End, Unregister, TypeOK
<1>6. transcript' \in Transcripts /\ busy' \in BOOLEAN
    <2>1. task[q].history \in Transcripts
        BY DEF TypeOK, Tasks
    <2>2. [task[q].history EXCEPT ![q] = message] \in Transcripts
        BY <2>1 DEF Transcripts
    <2>3. CASE MayPaint(q)
        BY <2>2, <2>3 DEF End, Paint
    <2>4. CASE ~MayPaint(q)
        BY <2>4 DEF End, Paint, TypeOK
    <2> QED BY <2>3, <2>4
<1> QED BY <1>4, <1>5, <1>6

\* A request that fails keeps the types of the conversation.
LEMMA ThrowType ==
    ASSUME TypeOK, NEW q \in Questions, NEW pc \in Over, NEW dropped \in BOOLEAN,
           task[q].session # None, Throw(q, pc, dropped), faults' \in Nat
    PROVE  TypeOK'
<1>1. End(q, pc, "failed") /\ "failed" \in Shown
    BY DEF Throw, Shown
<1>2. client' \in [Questions -> Clients]
    <2>1. task[q].session \in Questions
        BY DEF TypeOK, Tasks
    <2>2. client[task[q].session] \in Clients
        BY <2>1 DEF TypeOK
    <2>3. Failed(client[task[q].session], dropped) \in Clients
        BY <2>2 DEF Clients, Failed
    <2> QED BY <2>1, <2>3 DEF Throw, TypeOK
<1>3. UNCHANGED <<revision, session, aborted, serviceVars, cardVars>>
    BY DEF Throw, End
<1> QED BY <1>1, <1>2, <1>3, EndType DEF TypeOK, serviceVars, cardVars

\* A request goes on.
LEMMA StepType ==
    ASSUME TypeOK, NEW q \in Questions, NEW fields \in Tasks, fields.fails < PollLimit,
           Step(q, fields), UNCHANGED <<verdict, order, receipt>>,
           run' \in [Questions -> {"none", "sent", "running", "completed", "failed"}],
           faults' \in Nat
    PROVE  TypeOK'
<1>1. task' \in [Questions -> Tasks] /\ \A r \in Questions : task'[r].fails < PollLimit
    BY DEF Step, TypeOK
<1>2. UNCHANGED <<laneVars, aborted, client, cardVars>>
    BY DEF Step
<1> QED BY <1>1, <1>2 DEF TypeOK, laneVars, cardVars

\* Types hold at the start.
LEMMA InitType == Init => TypeOK
<1> SUFFICES ASSUME Init PROVE TypeOK
    OBVIOUS
<1>1. NoMessages \in Transcripts
    BY DEF NoMessages, Transcripts, Shown
<1>2. task \in [Questions -> Tasks] /\ \A q \in Questions : task[q].fails < PollLimit
    BY <1>1 DEF Init, Tasks
<1>3. client \in [Questions -> Clients]
    BY DEF Init, NewClient, Clients
<1>4. card \in [Cards -> CardStates] /\ call \in [Cards -> Calls] /\ decides \in [Cards -> Nat]
    BY DEF Init, CardStates, Calls
<1>5. /\ offered \in [Questions -> Nat \cup {None}]
      /\ verdict \in [Questions -> Verdicts \cup {None}]
      /\ order \in [Questions -> {"approve", None}]
      /\ receipt \in [Questions -> Certified \cup {None}]
    BY DEF Init, NoMessages
<1>6. visit \in 0..MaxVisits /\ faults \in Nat /\ revision \in Nat
    BY DEF Init
<1>7. run \in [Questions -> {"none", "sent", "running", "completed", "failed"}]
    BY DEF Init
<1> QED BY <1>1, <1>2, <1>3, <1>4, <1>5, <1>6, <1>7 DEF Init, TypeOK

\* A transport that notes the question it may have to resume is still a transport.
LEMMA InterruptedClient ==
    ASSUME NEW c \in Clients, NEW q \in Questions
    PROVE  [c EXCEPT !.interrupted = q] \in Clients
BY DEF Clients

\* The requests of a question.
LEMMA AskingType ==
    ASSUME TypeOK, NEW q \in Questions, Asking(q),
           task[q].pc # "unasked" => task[q].session # None,
           task[q].pc = "polling" => task[q].target = q
    PROVE  TypeOK'
<1> DEFINE s == IF session = None THEN q ELSE session
<1>0. /\ task[q] \in Tasks /\ s \in Questions /\ client[s] \in Clients /\ faults \in Nat
      /\ task[q].fails < PollLimit
    BY DEF TypeOK
<1>1. ASSUME Ask(q) PROVE TypeOK'
    <2>1. [task[q] EXCEPT !.pc = "signing", !.revision = revision, !.session = s,
                          !.history = transcript, !.context = client[s].previous] \in Tasks
        BY <1>0 DEF TypeOK, Tasks, Clients, Pending
    <2>2. task' \in [Questions -> Tasks] /\ \A r \in Questions : task'[r].fails < PollLimit
        BY <1>0, <1>1, <2>1 DEF Ask, TypeOK, Tasks
    <2>3. Begin(client[s]) \in Clients
        BY <1>0 DEF Begin, Clients
    <2>4. client' \in [Questions -> Clients]
        BY <1>0, <1>1, <2>3 DEF Ask, TypeOK
    <2>5. transcript' \in Transcripts
        BY <1>1 DEF Ask, TypeOK, Transcripts, Shown
    <2> QED BY <1>0, <1>1, <2>2, <2>4, <2>5 DEF Ask, TypeOK, cardVars, serviceVars
<1>2. \A pc \in Over, dropped \in BOOLEAN :
          task[q].session # None /\ Throw(q, pc, dropped) /\ faults' \in Nat => TypeOK'
    BY ThrowType
<1>3. ASSUME SignInEnds(q) PROVE TypeOK'
    <2> task[q].session # None /\ faults' = faults
        BY <1>3 DEF SignInEnds
    <2>1. CASE /\ Step(q, [task[q] EXCEPT !.pc = "open"])
               /\ run' = [run EXCEPT ![q] = "sent"]
               /\ UNCHANGED <<verdict, order, receipt>>
        <3>1. run' \in [Questions -> {"none", "sent", "running", "completed", "failed"}]
            BY <2>1 DEF TypeOK
        <3>2. [task[q] EXCEPT !.pc = "open"] \in Tasks /\ [task[q] EXCEPT !.pc = "open"].fails < PollLimit
            BY <1>0 DEF Tasks, Pending, NoticesStop
        <3> QED BY <1>0, <2>1, <3>1, <3>2, StepType
    <2>2. CASE Throw(q, "stopped", FALSE) \/ Throw(q, "unsent", FALSE)
        BY <1>0, <1>2, <2>2 DEF Over
    <2> QED BY <1>3, <2>1, <2>2 DEF SignInEnds
<1>4. ASSUME StreamRun(q) PROVE TypeOK'
    <2>1. task[q].session \in Questions
        BY <1>0, <1>4 DEF StreamRun, Tasks
    <2>2. client[task[q].session] \in Clients
        BY <2>1 DEF TypeOK
    <2>3. [client[task[q].session] EXCEPT !.interrupted = q] \in Clients
        BY <2>2, InterruptedClient
    <2>4. client' \in [Questions -> Clients]
        BY <1>4, <2>1, <2>3 DEF StreamRun, TypeOK
    <2> QED BY <1>4, <2>4 DEF StreamRun, TypeOK, laneVars, cardVars, serviceVars
<1>5. ASSUME NEW r \in Questions, Answered(q, r), UNCHANGED <<serviceVars, faults>> PROVE TypeOK'
    <2>1. [task[q] EXCEPT !.pc = "checking", !.reply = r, !.fails = 0] \in Tasks
        BY <1>0 DEF Tasks, Pending, NoticesStop
    <2>2. [task[q] EXCEPT !.pc = "checking", !.reply = r, !.fails = 0].fails < PollLimit
        BY <1>0 DEF Tasks
    <2>3. /\ run' \in [Questions -> {"none", "sent", "running", "completed", "failed"}]
          /\ faults' \in Nat /\ UNCHANGED <<verdict, order, receipt>>
        BY <1>5 DEF TypeOK, serviceVars
    <2> QED BY <1>5, <2>1, <2>2, <2>3, StepType DEF Answered
<1>6. ASSUME StreamBreaks(q) PROVE TypeOK'
    <2>1. task[q].session # None /\ faults' \in Nat
        BY <1>0, <1>6 DEF StreamBreaks, Spend
    <2>2. CASE Throw(q, "lost", FALSE)
        BY <1>2, <2>1, <2>2 DEF Over
    <2>3. CASE /\ Step(q, [task[q] EXCEPT !.pc = "polling", !.target = Mine(q).interrupted])
               /\ UNCHANGED serviceVars
        <3> DEFINE fields == [task[q] EXCEPT !.pc = "polling", !.target = Mine(q).interrupted]
        <3>1. Mine(q).interrupted \in Questions \cup {None}
            BY <1>0, <2>1 DEF Mine, TypeOK, Tasks, Clients
        <3>2. fields \in Tasks /\ fields.fails < PollLimit
            BY <1>0, <3>1 DEF Tasks, Pending, NoticesStop
        <3>3. /\ run' \in [Questions -> {"none", "sent", "running", "completed", "failed"}]
              /\ UNCHANGED <<verdict, order, receipt>>
            BY <2>3 DEF TypeOK, serviceVars
        <3> QED BY <2>1, <2>3, <3>2, <3>3, StepType
    <2> QED BY <1>6, <2>2, <2>3 DEF StreamBreaks
<1>7. ASSUME Polling(q), NEW n \in Nat, n < PollLimit, faults' \in Nat, UNCHANGED serviceVars,
             Step(q, [task[q] EXCEPT !.fails = n]) PROVE TypeOK'
    <2>1. [task[q] EXCEPT !.fails = n] \in Tasks /\ [task[q] EXCEPT !.fails = n].fails < PollLimit
        BY <1>0, <1>7 DEF Tasks
    <2>2. /\ run' \in [Questions -> {"none", "sent", "running", "completed", "failed"}]
          /\ UNCHANGED <<verdict, order, receipt>>
        BY <1>7 DEF TypeOK, serviceVars
    <2> QED BY <1>7, <2>1, <2>2, StepType
<1>8. ASSUME PollLost(q) PROVE TypeOK'
    <2> DEFINE n == task[q].fails + 1
    <2>1. task[q].session # None /\ faults' \in Nat /\ n \in Nat
        BY <1>0, <1>8 DEF PollLost, Polling, Spend, Tasks
    <2>2. CASE LastPoll(n) /\ Throw(q, "lost", FALSE)
        BY <1>2, <2>1, <2>2 DEF Over
    <2>3. CASE ~LastPoll(n) /\ Step(q, [task[q] EXCEPT !.fails = n]) /\ UNCHANGED serviceVars
        <3>1. Polling(q) /\ n < PollLimit
            BY <1>8, <2>1, <2>3 DEF PollLost, LastPoll
        <3> HIDE DEF n
        <3> QED BY <1>7, <2>1, <2>3, <3>1
    <2>4. IF LastPoll(n) THEN Throw(q, "lost", FALSE)
          ELSE Step(q, [task[q] EXCEPT !.fails = n]) /\ UNCHANGED serviceVars
        BY <1>8 DEF PollLost
    <2> QED BY <2>2, <2>3, <2>4
<1>9. ASSUME Accept(q) PROVE TypeOK'
    <2>1. task[q].session \in Questions /\ task[q].reply \in Shown
        BY <1>0, <1>9 DEF Accept, Tasks, Shown
    <2>2. [Mine(q) EXCEPT !.running = FALSE, !.previous = task[q].reply, !.interrupted = None] \in Clients
        BY <1>0, <2>1 DEF Mine, TypeOK, Tasks, Clients
    <2>3. client' \in [Questions -> Clients]
        BY <1>9, <2>1, <2>2 DEF Accept, TypeOK
    <2>4. offered' \in [Questions -> Nat \cup {None}]
        BY <1>9, <2>1 DEF Accept, Mine, TypeOK, Clients
    <2>5. PICK message \in Shown : End(q, "answered", message)
        BY <1>9, <2>1 DEF Accept, Shown
    <2>6. /\ task' \in [Questions -> Tasks] /\ \A r \in Questions : task'[r].fails < PollLimit
          /\ controller' \in Questions \cup {None}
          /\ transcript' \in Transcripts /\ busy' \in BOOLEAN
        BY <2>5, EndType DEF Over
    <2> QED BY <1>9, <2>3, <2>4, <2>5, <2>6 DEF Accept, End, TypeOK, serviceVars
<1>10. ASSUME Timeout(q) PROVE TypeOK'
    BY <1>10 DEF Timeout, Abort, TypeOK, laneVars, cardVars, serviceVars
<1>11. ASSUME NEW dropped \in BOOLEAN, RunRefused(q, dropped) \/ Contradicted(q) PROVE TypeOK'
    <2>1. task[q].session # None /\ faults' \in Nat
        BY <1>0, <1>11 DEF RunRefused, Contradicted
    <2> QED BY <1>2, <1>11, <2>1 DEF RunRefused, Contradicted, Over
<1>12. ASSUME NEW dropped \in BOOLEAN, PollRefused(q, dropped) PROVE TypeOK'
    <2>1. task[q].session # None /\ faults' \in Nat
        BY <1>0, <1>12 DEF PollRefused, Polling, Spend
    <2> QED BY <1>2, <1>12, <2>1 DEF PollRefused, Over
<1>13. ASSUME StopTakesEffect(q) PROVE TypeOK'
    <2>1. task[q].session # None /\ faults' \in Nat
        BY <1>0, <1>13 DEF StopTakesEffect, StopEnds, NoticesStop
    <2> QED BY <1>2, <1>13, <2>1 DEF StopTakesEffect, Over
<1>14. ASSUME NEW dropped \in BOOLEAN, PollAnswered(q, dropped) PROVE TypeOK'
    <2>1. task[q].session # None /\ task[q].target = q /\ faults' = faults
        BY <1>14 DEF PollAnswered, Polling
    <2>2. CASE Throw(q, "refused", dropped)
        BY <1>0, <1>2, <2>1, <2>2 DEF Over
    <2>3. CASE Answered(q, task[q].target) /\ UNCHANGED serviceVars
        BY <1>5, <2>1, <2>3
    <2> QED BY <1>14, <2>2, <2>3 DEF PollAnswered
<1>15. ASSUME StreamAnswer(q) PROVE TypeOK'
    BY <1>5, <1>15 DEF StreamAnswer
<1>16. ASSUME PollRunning(q) PROVE TypeOK'
    BY <1>0, <1>7, <1>16 DEF PollRunning
<1> QED BY <1>1, <1>3, <1>4, <1>6, <1>8, <1>9, <1>10, <1>11, <1>12, <1>13, <1>14, <1>15, <1>16
        DEF Asking

\* The rest of Next: what the lane, the cards and the service do on their own.
LEMMA OtherType ==
    ASSUME TypeOK,
           \/ Clear \/ Reset \/ Stop \/ Revisit
           \/ \E q \in Questions : Service(q)
           \/ \E c \in Cards : Deciding(c)
    PROVE  TypeOK'
<1>1. NoMessages \in Transcripts
    BY DEF NoMessages, Transcripts, Shown
<1>2. session # None => [client EXCEPT ![session] = Released(@)] \in [Questions -> Clients]
    <2> SUFFICES ASSUME session # None PROVE [client EXCEPT ![session] = Released(@)] \in [Questions -> Clients]
        OBVIOUS
    <2>1. session \in Questions /\ client[session] \in Clients
        BY DEF TypeOK
    <2>2. client[session].version + 1 \in Nat
        BY <2>1 DEF Clients
    <2>3. Released(client[session]) \in Clients
        BY <2>1, <2>2 DEF Released, Clients
    <2> QED BY <2>3 DEF TypeOK
<1>3. CASE Clear
    <2>1. client' \in [Questions -> Clients]
        BY <1>2, <1>3 DEF Clear, TypeOK
    <2>2. aborted' \in [Questions -> BOOLEAN]
        BY <1>3 DEF Clear, TypeOK
    <2>3. revision' \in Nat
        BY <1>3 DEF Clear, TypeOK
    <2> QED BY <1>1, <1>3, <2>1, <2>2, <2>3 DEF Clear, TypeOK, cardVars, serviceVars
<1>4. CASE Reset
    BY <1>1, <1>2, <1>4 DEF Reset, TypeOK, cardVars, serviceVars
<1>5. CASE Stop
    BY <1>5 DEF Stop, Abort, TypeOK, laneVars, cardVars, serviceVars
<1>6. CASE Revisit
    BY <1>6 DEF Revisit, CardOnly, TypeOK, laneVars, serviceVars
<1>7. ASSUME NEW q \in Questions, Service(q) PROVE TypeOK'
    <2>1. CASE Admit(q) \/ Execute(q)
        BY <2>1 DEF Admit, Execute, BrowserOnly, TypeOK, laneVars, cardVars
    <2>2. CASE Perform(q) \/ Certify(q)
        BY <2>2 DEF Perform, Certify, BrowserOnly, TypeOK, laneVars, cardVars
    <2> QED BY <1>7, <2>1, <2>2 DEF Service
<1>8. ASSUME NEW c \in Cards, Deciding(c) PROVE TypeOK'
    <2>0. /\ card[c] \in CardStates /\ call[c] \in Calls /\ decides[c] \in Nat
          /\ c[1] \in Questions
        BY DEF TypeOK, Cards
    <2>1. \A v \in Verdicts \cup {None}, reconcile \in BOOLEAN : Submit(c, v, reconcile) => TypeOK'
        BY <2>0 DEF Submit, CardOnly, TypeOK, CardStates, Calls, laneVars, serviceVars
    <2>2. \A v \in Verdicts : Decide(c, v) => TypeOK'
        BY <2>1 DEF Decide
    <2>3. Reconcile(c) => TypeOK'
        BY <2>0, <2>1 DEF Reconcile, CardStates
    <2>4. CASE CallSignedIn(c)
        BY <2>0, <2>4 DEF CallSignedIn, CardOnly, TypeOK, Calls, laneVars, serviceVars
    <2>5. ASSUME NEW shows \in {"uncertain", "disabled"} \cup Certified, Settle(c, shows)
          PROVE  TypeOK'
        BY <2>0, <2>5 DEF Settle, CardOnly, TypeOK, CardStates, Calls, laneVars, serviceVars
    <2>6. CallLost(c) => TypeOK'
        BY <2>5 DEF CallLost
    <2>7. \A reply : Outcome(c, reply) \in {"uncertain", "disabled"} \cup Certified
        BY DEF Outcome, Certified
    <2>8. CallAnswered(c) => TypeOK'
        BY <2>5, <2>7 DEF CallAnswered
    <2>9. CASE Judge(c)
        BY <2>0, <2>9 DEF Judge, BrowserOnly, TypeOK, CardStates, laneVars, cardVars
    <2> QED BY <1>8, <2>2, <2>3, <2>4, <2>6, <2>8, <2>9 DEF Deciding
<1> QED BY <1>3, <1>4, <1>5, <1>6, <1>7, <1>8

-----------------------------------------------------------------------------
(* The conversation.                                                       *)

\* The fields the conversation speaks of, out of the type invariant.
LEMMA Fields ==
    ASSUME TypeOK
    PROVE  /\ revision \in Nat /\ session \in Questions \cup {None}
           /\ controller \in Questions \cup {None}
           /\ transcript \in [Questions -> Shown] /\ busy \in BOOLEAN
           /\ aborted \in [Questions -> BOOLEAN]
           /\ DOMAIN task = Questions /\ DOMAIN client = Questions
           /\ \A q \in Questions :
                 /\ task[q].revision \in Nat /\ task[q].session \in Questions \cup {None}
                 /\ task[q].history \in [Questions -> Shown]
                 /\ client[q].previous \in Questions \cup {None}
                 /\ client[q].running \in BOOLEAN
BY DEF TypeOK, Tasks, Clients, Transcripts

\* A request that ends: it paints what it may, and its transport is free again.
LEMMA EndKeeps ==
    ASSUME TypeOK, ConversationInv,
           NEW q \in Questions, Live(q), NEW pc \in Over, NEW message \in {"failed", q},
           message = q => run[q] = "completed",
           End(q, pc, message), NEW c, client' = [client EXCEPT ![task[q].session] = c],
           ~c.running, c.previous \in {None, Mine(q).previous} \/ (c.previous = q /\ message = q)
    PROVE  ConversationInv'
<1> DEFINE s == task[q].session
<1>0. /\ s \in Questions /\ task[s].pc # "unasked" /\ task[q].pc # "unasked"
      /\ q \notin {None, "busy", "failed"}
    BY Fields DEF ConversationInv, SessionInv, Live, Pending, NoticesStop
<1>1. /\ \A r \in Questions : r # q => task'[r] = task[r]
      /\ task'[q].pc = pc /\ task'[q].revision = task[q].revision
      /\ task'[q].session = task[q].session
    BY Fields DEF End
<1>2. /\ \A t \in Questions : t # s => client'[t] = client[t]
      /\ client'[s] = c
    BY <1>0, Fields
<1>3. UNCHANGED <<revision, session, aborted, run>>
    BY DEF End, serviceVars
<1>4. \A r \in Questions : Live(r)' <=> r # q /\ Live(r)
    BY <1>1 DEF Live, Pending, Over, NoticesStop
<1>5. \A r \in Questions : Live(r) /\ r # q => task[r].session # s
    BY DEF ConversationInv, SessionInv
<1>6. \A r \in Questions : Current(r)' <=> r # q /\ Current(r)
    BY <1>1, <1>3, <1>4 DEF Current
<1>7. \A r \in Questions : Live(r)' => Mine(r)' = Mine(r)
    BY <1>1, <1>2, <1>4, <1>5, Fields DEF Mine, ConversationInv, SessionInv, Live, Pending,
       NoticesStop
<1>8. CASE Current(q)
    <2>1. q = controller /\ session = s
        BY <1>8 DEF ConversationInv, BusyIsOneTask, SessionInv
    <2>2. controller' = None /\ ~busy' /\ transcript' = [task[q].history EXCEPT ![q] = message]
        BY <1>8, <2>1 DEF End, Unregister, Paint, MayPaint, Current
    <2>3. transcript = [task[q].history EXCEPT ![q] = "busy"]
        BY <1>8 DEF ConversationInv, SessionInv
    <2>4. /\ \A r \in Questions : r # q => transcript'[r] = transcript[r]
          /\ transcript'[q] = message /\ transcript[q] = "busy"
        BY <2>2, <2>3, Fields
    <2>5. \A r \in Questions : ~Current(r)'
        BY <1>6, <1>8, <2>1 DEF ConversationInv, SessionInv, Current
    <2>6. ShownIsCurrent'
        BY <1>1, <1>3, <1>8, <2>1, <2>4 DEF ConversationInv, ShownIsCurrent, Current
    <2>7. BusyIsOneTask'
        <3>1. \A r \in Questions : Live(r)' => aborted'[r]
            BY <1>3, <1>4, <2>1 DEF ConversationInv, BusyIsOneTask
        <3>2. \A r \in Questions : transcript'[r] # "busy"
            BY <1>0, <2>1, <2>4 DEF ConversationInv, BusyIsOneTask
        <3>3. ~client'[session'].running
            BY <1>2, <1>3, <2>1
        <3> QED BY <2>2, <2>5, <3>1, <3>2, <3>3 DEF BusyIsOneTask
    <2>8. AnswersAreTheirOwn'
        BY <1>0, <1>3, <2>4 DEF ConversationInv, AnswersAreTheirOwn
    <2>9. FollowUpsAreVisible'
        <3>1. c.previous \in {None, Mine(q).previous} => c.previous = None \/ transcript[c.previous] = c.previous
            BY <1>0, <2>1 DEF ConversationInv, FollowUpsAreVisible, Mine
        <3>2. c.previous # None => transcript'[c.previous] = c.previous
            BY <1>0, <2>1, <2>4, <3>1, Fields DEF Mine
        <3> QED BY <1>2, <1>3, <2>1, <3>2 DEF FollowUpsAreVisible
    <2>10. SessionInv'
        <3>1. \A r, t \in Questions :
                  Live(r)' /\ Live(t)' /\ task'[r].session = task'[t].session => r = t
            BY <1>1, <1>4 DEF ConversationInv, SessionInv
        <3>2. \A r \in Questions :
                  IF task'[r].pc = "unasked" THEN transcript'[r] = None /\ client'[r] = NewClient
                  ELSE /\ task'[r].session # None /\ task'[task'[r].session].pc # "unasked"
                       /\ task'[r].revision <= revision'
                       /\ task'[r].session = session' => task'[r].revision = revision'
            BY <1>0, <1>1, <1>2, <1>3, <2>4, Fields DEF ConversationInv, SessionInv, Over
        <3>3. \A t \in Questions : client'[t].running =>
                  \E r \in Questions : Live(r)' /\ task'[r].session = t
            BY <1>1, <1>2, <1>4 DEF ConversationInv, SessionInv
        <3>4. session' # None => task'[session'].pc # "unasked"
            BY <1>0, <1>1, <1>3, <2>1, Fields DEF Over
        <3> QED BY <2>5, <3>1, <3>2, <3>3, <3>4 DEF SessionInv
    <2>11. RunInv'
        BY <1>1, <1>3, <1>4, <1>6, <1>7 DEF ConversationInv, RunInv, Over, Live, Pending,
           NoticesStop
    <2> QED BY <2>6, <2>7, <2>8, <2>9, <2>10, <2>11 DEF ConversationInv
<1>9. CASE ~Current(q)
    <2>1. /\ controller # q /\ task[q].revision # revision /\ session # s
          /\ UNCHANGED <<controller, transcript, busy>>
        BY <1>9 DEF ConversationInv, BusyIsOneTask, SessionInv, Current, Live, End,
                    Unregister, Paint, MayPaint, Pending, NoticesStop
    <2>2. ShownIsCurrent'
        BY <1>1, <1>3, <2>1 DEF ConversationInv, ShownIsCurrent
    <2>3. BusyIsOneTask'
        BY <1>2, <1>3, <1>4, <1>6, <2>1, Fields DEF ConversationInv, BusyIsOneTask
    <2>4. AnswersAreTheirOwn' /\ FollowUpsAreVisible'
        BY <1>2, <1>3, <2>1, Fields DEF ConversationInv, AnswersAreTheirOwn, FollowUpsAreVisible
    <2>5. SessionInv'
        <3>1. \A r, t \in Questions :
                  Live(r)' /\ Live(t)' /\ task'[r].session = task'[t].session => r = t
            BY <1>1, <1>4 DEF ConversationInv, SessionInv
        <3>2. \A r \in Questions :
                  IF task'[r].pc = "unasked" THEN transcript'[r] = None /\ client'[r] = NewClient
                  ELSE /\ task'[r].session # None /\ task'[task'[r].session].pc # "unasked"
                       /\ task'[r].revision <= revision'
                       /\ task'[r].session = session' => task'[r].revision = revision'
            BY <1>0, <1>1, <1>2, <1>3, <2>1, Fields DEF ConversationInv, SessionInv, Over
        <3>3. \A t \in Questions : client'[t].running =>
                  \E r \in Questions : Live(r)' /\ task'[r].session = t
            BY <1>1, <1>2, <1>4 DEF ConversationInv, SessionInv
        <3>4. session' # None => task'[session'].pc # "unasked"
            BY <1>0, <1>1, <1>3, Fields DEF ConversationInv, SessionInv, Over
        <3>5. \A r \in Questions : Current(r)' =>
                  task'[r].session = session' /\ transcript' = [task'[r].history EXCEPT ![r] = "busy"]
            BY <1>1, <1>3, <1>6, <2>1 DEF ConversationInv, SessionInv
        <3> QED BY <3>1, <3>2, <3>3, <3>4, <3>5 DEF SessionInv
    <2>6. RunInv'
        BY <1>1, <1>3, <1>4, <1>6, <1>7 DEF ConversationInv, RunInv, Over, Live, Pending,
           NoticesStop
    <2> QED BY <2>2, <2>3, <2>4, <2>5, <2>6 DEF ConversationInv
<1> QED BY <1>8, <1>9

\* A request that goes on changes nothing the others see.
LEMMA StepKeeps ==
    ASSUME TypeOK, ConversationInv, NEW q \in Questions, Live(q),
           NEW fields, Step(q, fields), fields.pc \in NoticesStop,
           fields.revision = task[q].revision, fields.session = task[q].session,
           fields.history = task[q].history,
           fields.pc = "polling" => fields.target = q,
           fields.pc = "checking" => fields.reply = q /\ run[q] = "completed",
           \/ run' = run
           \/ run[q] = "none" /\ run' = [run EXCEPT ![q] = "sent"]
    PROVE  ConversationInv'
<1>1. /\ \A r \in Questions : r # q => task'[r] = task[r]
      /\ task'[q] = fields
    BY Fields DEF Step
<1>2. UNCHANGED <<revision, transcript, busy, session, controller, aborted, client>>
    BY DEF Step, laneVars
<1>3. /\ \A r \in Questions : Live(r)' <=> Live(r)
      /\ \A r \in Questions : Current(r)' <=> Current(r)
      /\ \A r \in Questions : /\ task'[r].session = task[r].session
                              /\ task'[r].revision = task[r].revision
                              /\ task'[r].history = task[r].history
                              /\ task'[r].pc = "unasked" <=> task[r].pc = "unasked"
                              /\ Mine(r)' = Mine(r)
    BY <1>1, <1>2 DEF Live, Current, Pending, NoticesStop, Mine
<1>4. \A r \in Questions : /\ run[r] = "completed" => run'[r] = "completed"
                           /\ r # q => run'[r] = run[r]
    BY DEF TypeOK
<1>5. ShownIsCurrent' /\ AnswersAreTheirOwn' /\ FollowUpsAreVisible'
    <2>1. ShownIsCurrent'
        BY <1>2, <1>3 DEF ConversationInv, ShownIsCurrent
    <2>2. AnswersAreTheirOwn'
        <3> SUFFICES ASSUME NEW r \in Questions, transcript'[r] \in Questions
                     PROVE  transcript'[r] = r /\ run'[r] = "completed"
            BY DEF AnswersAreTheirOwn
        <3>1. transcript[r] = r /\ run[r] = "completed"
            BY <1>2 DEF ConversationInv, AnswersAreTheirOwn
        <3> QED BY <1>2, <1>4, <3>1
    <2>3. FollowUpsAreVisible'
        BY <1>2 DEF ConversationInv, FollowUpsAreVisible
    <2> QED BY <2>1, <2>2, <2>3
<1>6. BusyIsOneTask'
    BY <1>2, <1>3, Fields DEF ConversationInv, BusyIsOneTask
<1>7. SessionInv'
    <2>1. \A r \in Questions :
              IF task'[r].pc = "unasked" THEN transcript'[r] = None /\ client'[r] = NewClient
              ELSE /\ task'[r].session # None /\ task'[task'[r].session].pc # "unasked"
                   /\ task'[r].revision <= revision'
                   /\ task'[r].session = session' => task'[r].revision = revision'
        BY <1>2, <1>3, Fields DEF ConversationInv, SessionInv
    <2>2. \A r \in Questions : Current(r)' =>
              task'[r].session = session' /\ transcript' = [task'[r].history EXCEPT ![r] = "busy"]
        BY <1>2, <1>3 DEF ConversationInv, SessionInv
    <2>3. \A t \in Questions : client'[t].running =>
              \E r \in Questions : Live(r)' /\ task'[r].session = t
        BY <1>2, <1>3 DEF ConversationInv, SessionInv
    <2>4. \A r, t \in Questions :
              Live(r)' /\ Live(t)' /\ task'[r].session = task'[t].session => r = t
        BY <1>3 DEF ConversationInv, SessionInv
    <2>5. session' # None => task'[session'].pc # "unasked"
        BY <1>2, <1>3, Fields DEF ConversationInv, SessionInv
    <2> QED BY <2>1, <2>2, <2>3, <2>4, <2>5 DEF SessionInv
<1>8. RunInv'
    <2>1. \A r \in Questions : Live(r)' => Mine(r)'.interrupted \in {None, r}
        BY <1>3 DEF ConversationInv, RunInv
    <2>2. \A r \in Questions : r # q =>
              /\ task'[r].pc \in {"unasked", "signing"} => run'[r] = "none"
              /\ task'[r].pc = "signing" /\ Current(r)' => task'[r].context = Mine(r)'.previous
              /\ task'[r].pc = "polling" => task'[r].target = r
              /\ task'[r].pc = "checking" => task'[r].reply = r /\ run'[r] = "completed"
        <3>1. ASSUME NEW r \in Questions, r # q PROVE task'[r] = task[r] /\ run'[r] = run[r]
            BY <1>1, <1>4, <3>1
        <3>2. \A r \in Questions : Current(r)' = Current(r) /\ Mine(r)' = Mine(r)
            BY <1>3 DEF Current, Live
        <3> QED BY <3>1, <3>2 DEF ConversationInv, RunInv
    <2>3. /\ task'[q].pc \in NoticesStop
          /\ task'[q].pc = "polling" => task'[q].target = q
          /\ task'[q].pc = "checking" => task'[q].reply = q /\ run'[q] = "completed"
        BY <1>1, <1>4
    <2> QED BY <2>1, <2>2, <2>3 DEF RunInv, NoticesStop
<1> QED BY <1>5, <1>6, <1>7, <1>8 DEF ConversationInv

\* A new question is the only one that paints, in a chat nobody else asks in.
LEMMA AskKeeps ==
    ASSUME TypeOK, ConversationInv, NEW q \in Questions, Ask(q)
    PROVE  ConversationInv'
<1> DEFINE s == IF session = None THEN q ELSE session
<1>0. /\ task[q].pc = "unasked" /\ ~Live(q) /\ transcript[q] = None /\ client[q] = NewClient
      /\ ~busy /\ controller = None /\ s \in Questions /\ run[q] = "none"
      /\ q \notin {None, "busy", "failed"}
    BY Fields DEF Ask, ConversationInv, SessionInv, BusyIsOneTask, Live, Pending, NoticesStop,
       RunInv
<1>1. /\ \A r \in Questions : r # q => task'[r] = task[r]
      /\ task'[q].pc = "signing" /\ task'[q].revision = revision /\ task'[q].session = s
      /\ task'[q].history = transcript /\ task'[q].context = client[s].previous
    BY Fields DEF Ask
<1>2. /\ \A t \in Questions : t # s => client'[t] = client[t]
      /\ client'[s] = [client[s] EXCEPT !.running = TRUE, !.interrupted = None]
    BY <1>0, Fields DEF Ask, Begin
<1>3. client'[s].previous = client[s].previous /\ client'[s].interrupted = None
    <2>1. client[s] \in Clients
        BY <1>0 DEF TypeOK
    <2> QED BY <1>2, <2>1 DEF Clients
<1>4. /\ UNCHANGED <<revision, aborted, run>>
      /\ session' = s /\ controller' = q /\ busy'
      /\ transcript' = [transcript EXCEPT ![q] = "busy"]
    BY DEF Ask, serviceVars
<1>5. /\ transcript'[q] = "busy"
      /\ \A r \in Questions : r # q => transcript'[r] = transcript[r]
    BY <1>4, Fields
<1>6. \A r \in Questions : Live(r)' <=> r = q \/ Live(r)
    BY <1>1 DEF Live, Pending
<1>7. \A r \in Questions : Live(r) => ~Current(r) /\ aborted[r] /\ r # q
    BY <1>0, Fields DEF ConversationInv, BusyIsOneTask
<1>8. \A r \in Questions : Current(r)' <=> r = q
    BY <1>1, <1>4, <1>6, <1>7 DEF Current
<1>9. \A r \in Questions : task[r].pc # "unasked" /\ task[r].session = s => task[r].revision = revision
    BY <1>0 DEF ConversationInv, SessionInv
<1>10. \A r \in Questions : Live(r) => task[r].session # s /\ task[r].session \in Questions
    BY <1>7, <1>9, Fields DEF Current, Live, Pending, NoticesStop, ConversationInv, SessionInv
<1>11. session = None => \A r \in Questions : transcript[r] = None
    BY DEF ConversationInv, ShownIsCurrent, SessionInv
<1>12. ShownIsCurrent'
    BY <1>1, <1>4, <1>5, <1>11 DEF ConversationInv, ShownIsCurrent
<1>13. BusyIsOneTask'
    <2>1. \A r \in Questions : transcript'[r] = "busy" => r = q
        BY <1>0, <1>5, Fields DEF ConversationInv, BusyIsOneTask
    <2> QED BY <1>0, <1>4, <1>5, <1>6, <1>7, <1>8, <2>1 DEF BusyIsOneTask
<1>14. AnswersAreTheirOwn'
    BY <1>4, <1>5 DEF ConversationInv, AnswersAreTheirOwn
<1>15. FollowUpsAreVisible'
    <2>1. CASE session = None
        BY <1>0, <1>3, <1>4, <2>1 DEF FollowUpsAreVisible, NewClient
    <2>2. CASE session # None
        BY <1>0, <1>3, <1>4, <1>5, <2>2, Fields DEF ConversationInv, FollowUpsAreVisible
    <2> QED BY <2>1, <2>2
<1>16. SessionInv'
    <2>1. \A r \in Questions :
              IF task'[r].pc = "unasked" THEN transcript'[r] = None /\ client'[r] = NewClient
              ELSE /\ task'[r].session # None /\ task'[task'[r].session].pc # "unasked"
                   /\ task'[r].revision <= revision'
                   /\ task'[r].session = session' => task'[r].revision = revision'
        <3>1. task'[s].pc # "unasked"
            BY <1>0, <1>1 DEF ConversationInv, SessionInv
        <3>2. task'[q].revision <= revision' /\ task'[q].session # None
            BY <1>0, <1>1, <1>4, Fields
        <3>3. ASSUME NEW r \in Questions, r # q, task[r].pc = "unasked"
              PROVE  transcript'[r] = None /\ client'[r] = NewClient
            BY <1>2, <1>5, <3>3 DEF ConversationInv, SessionInv
        <3>4. ASSUME NEW r \in Questions, r # q, task[r].pc # "unasked"
              PROVE  /\ task[r].session # None /\ task'[task[r].session].pc # "unasked"
                     /\ task[r].revision <= revision
                     /\ task[r].session = s => task[r].revision = revision
            BY <1>1, <1>9, <3>4, Fields DEF ConversationInv, SessionInv
        <3> QED BY <1>1, <1>4, <3>1, <3>2, <3>3, <3>4
    <2>2. \A r \in Questions : Current(r)' =>
              task'[r].session = session' /\ transcript' = [task'[r].history EXCEPT ![r] = "busy"]
        BY <1>1, <1>4, <1>8
    <2>3. \A t \in Questions : client'[t].running =>
              \E r \in Questions : Live(r)' /\ task'[r].session = t
        <3>1. ASSUME NEW t \in Questions, t # s, client'[t].running
              PROVE  \E r \in Questions : Live(r)' /\ task'[r].session = t
            BY <1>1, <1>2, <1>6, <1>7, <3>1 DEF ConversationInv, SessionInv
        <3>2. Live(q)' /\ task'[q].session = s
            BY <1>1, <1>6
        <3> QED BY <3>1, <3>2
    <2>4. \A r, t \in Questions :
              Live(r)' /\ Live(t)' /\ task'[r].session = task'[t].session => r = t
        BY <1>1, <1>6, <1>7, <1>10 DEF ConversationInv, SessionInv
    <2>5. session' # None => task'[session'].pc # "unasked"
        BY <1>0, <1>1, <1>4 DEF ConversationInv, SessionInv
    <2> QED BY <2>1, <2>2, <2>3, <2>4, <2>5 DEF SessionInv
<1>17. RunInv'
    <2>1. Mine(q)'.interrupted = None /\ task'[q].context = Mine(q)'.previous
        BY <1>0, <1>1, <1>3 DEF Mine
    <2>2. ASSUME NEW r \in Questions, r # q, Live(r) PROVE Mine(r)' = Mine(r) /\ ~Current(r)'
        BY <1>1, <1>2, <1>8, <1>10, <2>2 DEF Mine
    <2>3. ASSUME NEW r \in Questions, r # q
          PROVE  /\ task'[r].pc \in {"unasked", "signing"} => run'[r] = "none"
                 /\ Live(r)' => Mine(r)'.interrupted \in {None, r}
                 /\ task'[r].pc = "signing" /\ Current(r)' => task'[r].context = Mine(r)'.previous
                 /\ task'[r].pc = "polling" => task'[r].target = r
                 /\ task'[r].pc = "checking" => task'[r].reply = r /\ run'[r] = "completed"
        BY <1>1, <1>4, <1>6, <1>8, <2>2, <2>3 DEF ConversationInv, RunInv
    <2> QED BY <1>0, <1>1, <1>4, <2>1, <2>3 DEF RunInv
<1> QED BY <1>12, <1>13, <1>14, <1>15, <1>16, <1>17 DEF ConversationInv

\* Forgetting a chat leaves every request without a chat that shows it.
LEMMA ForgetKeeps ==
    ASSUME TypeOK, ConversationInv,
           session' = None, controller' = None, ~busy', transcript' = NoMessages,
           client' = IF session = None THEN client ELSE [client EXCEPT ![session] = Released(@)],
           revision' \in Nat, revision' >= revision, UNCHANGED <<task, run>>,
           \A q \in Questions : Live(q) => aborted'[q] /\ task[q].revision # revision'
    PROVE  ConversationInv'
<1>1. \A q \in Questions :
          /\ Live(q)' <=> Live(q)
          /\ ~Current(q)'
          /\ transcript'[q] = None
    BY DEF Live, Current, NoMessages
<1>2. \A s \in Questions :
          /\ client'[s].running = client[s].running
          /\ client'[s].interrupted \in {None, client[s].interrupted}
          /\ s # session => client'[s] = client[s]
    BY DEF TypeOK, Clients, Released
<1>3. ShownIsCurrent' /\ AnswersAreTheirOwn' /\ FollowUpsAreVisible'
    BY <1>1 DEF ShownIsCurrent, AnswersAreTheirOwn, FollowUpsAreVisible
<1>4. BusyIsOneTask'
    BY <1>1 DEF BusyIsOneTask
<1>5. SessionInv'
    <2>1. ASSUME NEW q \in Questions
          PROVE  IF task[q].pc = "unasked" THEN transcript'[q] = None /\ client'[q] = NewClient
                 ELSE /\ task[q].session # None /\ task[task[q].session].pc # "unasked"
                      /\ task[q].revision <= revision'
                      /\ task[q].session = session' => task[q].revision = revision'
        <3>1. task[q].pc = "unasked" => q # session
            BY Fields DEF ConversationInv, SessionInv
        <3>2. task[q].revision <= revision => task[q].revision <= revision'
            BY Fields
        <3> QED BY <1>1, <1>2, <3>1, <3>2, Fields DEF ConversationInv, SessionInv
    <2>2. \A t \in Questions : client'[t].running =>
              \E r \in Questions : Live(r)' /\ task'[r].session = t
        BY <1>1, <1>2 DEF ConversationInv, SessionInv
    <2>3. \A r, t \in Questions :
              Live(r)' /\ Live(t)' /\ task'[r].session = task'[t].session => r = t
        BY <1>1 DEF ConversationInv, SessionInv
    <2> QED BY <1>1, <2>1, <2>2, <2>3 DEF SessionInv
<1>6. RunInv'
    <2>1. \A q \in Questions : Live(q) => task[q].session \in Questions
        BY Fields DEF ConversationInv, SessionInv, Live, Pending, NoticesStop
    <2>2. \A q \in Questions : Live(q)' => Mine(q)'.interrupted \in {None, q}
        BY <1>1, <1>2, <2>1 DEF ConversationInv, RunInv, Mine
    <2> QED BY <1>1, <2>2 DEF ConversationInv, RunInv
<1> QED BY <1>3, <1>4, <1>5, <1>6 DEF ConversationInv

\* What neither asks, paints nor ends anything.
LEMMA QuietKeeps ==
    ASSUME TypeOK, ConversationInv, UNCHANGED <<laneVars, task, client>>,
           \A q \in Questions :
              /\ aborted[q] => aborted'[q]
              /\ run'[q] = run[q] \/ run[q] \in {"sent", "running"}
    PROVE  ConversationInv'
<1>1. UNCHANGED <<revision, transcript, busy, session, controller, task, client>>
    BY DEF laneVars
<1>2. \A q \in Questions : (Live(q)' <=> Live(q)) /\ (Current(q)' <=> Current(q)) /\ Mine(q)' = Mine(q)
    BY <1>1 DEF Live, Current, Mine
<1>3. \A q \in Questions : run[q] \in {"none", "completed"} => run'[q] = run[q]
    OBVIOUS
<1>4. ShownIsCurrent' /\ FollowUpsAreVisible'
    BY <1>1 DEF ConversationInv, ShownIsCurrent, FollowUpsAreVisible
<1>5. AnswersAreTheirOwn'
    BY <1>1, <1>3 DEF ConversationInv, AnswersAreTheirOwn
<1>6. BusyIsOneTask'
    BY <1>1, <1>2, Fields DEF ConversationInv, BusyIsOneTask
<1>7. SessionInv'
    BY <1>1, <1>2 DEF ConversationInv, SessionInv
<1>8. RunInv'
    BY <1>1, <1>2, <1>3 DEF ConversationInv, RunInv
<1> QED BY <1>4, <1>5, <1>6, <1>7, <1>8 DEF ConversationInv

\* The transport learns the run of the one request it is asked for.
LEMMA StreamRunKeeps ==
    ASSUME TypeOK, ConversationInv, NEW q \in Questions, StreamRun(q)
    PROVE  ConversationInv'
<1> DEFINE s == task[q].session
<1>0. Live(q) /\ s \in Questions /\ task[q].pc = "open"
    BY Fields DEF StreamRun, Live, Pending, NoticesStop, ConversationInv, SessionInv
<1>1. /\ UNCHANGED <<revision, transcript, busy, session, controller, aborted, task, run>>
      /\ client' = [client EXCEPT ![s].interrupted = q]
    BY DEF StreamRun, laneVars, serviceVars
<1>2. /\ \A t \in Questions : /\ t # s => client'[t] = client[t]
                             /\ client'[t].running = client[t].running
                             /\ client'[t].previous = client[t].previous
      /\ client'[s].interrupted = q
    BY <1>0, <1>1 DEF TypeOK, Clients
<1>3. \A r \in Questions : (Live(r)' <=> Live(r)) /\ (Current(r)' <=> Current(r))
    BY <1>1 DEF Live, Current
<1>4. \A r \in Questions : Live(r) =>
          task[r].session \in Questions /\ (task[r].session = s => r = q)
    BY <1>0, Fields DEF Live, Pending, NoticesStop, ConversationInv, SessionInv
<1>5. ShownIsCurrent' /\ AnswersAreTheirOwn'
    BY <1>1 DEF ConversationInv, ShownIsCurrent, AnswersAreTheirOwn
<1>6. FollowUpsAreVisible'
    BY <1>1, <1>2, Fields DEF ConversationInv, FollowUpsAreVisible
<1>7. BusyIsOneTask'
    BY <1>1, <1>2, <1>3, Fields DEF ConversationInv, BusyIsOneTask
<1>8. SessionInv'
    <2>1. \A r \in Questions : task[r].pc = "unasked" => client'[r] = NewClient
        BY <1>0, <1>2 DEF ConversationInv, SessionInv
    <2>2. \A t \in Questions : client'[t].running =>
              \E r \in Questions : Live(r)' /\ task'[r].session = t
        BY <1>1, <1>2, <1>3 DEF ConversationInv, SessionInv
    <2> QED BY <1>1, <1>3, <2>1, <2>2 DEF ConversationInv, SessionInv
<1>9. RunInv'
    <2>1. \A r \in Questions : Live(r) => Mine(r)'.interrupted \in {None, r}
        BY <1>1, <1>2, <1>4 DEF ConversationInv, RunInv, Mine
    <2>2. \A r \in Questions : task[r].pc = "signing" => Mine(r)' = Mine(r)
        BY <1>0, <1>1, <1>2, <1>4 DEF Mine, Live, Pending
    <2> QED BY <1>1, <1>3, <2>1, <2>2 DEF ConversationInv, RunInv
<1> QED BY <1>5, <1>6, <1>7, <1>8, <1>9 DEF ConversationInv

\* Every step of a request keeps the conversation.
LEMMA AskingKeeps ==
    ASSUME TypeOK, ConversationInv, NEW q \in Questions, Asking(q)
    PROVE  ConversationInv'
<1>1. ASSUME NEW pc \in Over, NEW dropped \in BOOLEAN, Live(q), Throw(q, pc, dropped)
      PROVE  ConversationInv'
    <2> DEFINE c == Failed(Mine(q), dropped)
    <2>1. task[q].session \in Questions
        BY <1>1, Fields DEF ConversationInv, SessionInv, Live, Pending, NoticesStop
    <2>2. client' = [client EXCEPT ![task[q].session] = c]
        BY <1>1, <2>1, Fields DEF Throw, Mine
    <2>3. ~c.running /\ c.previous \in {None, Mine(q).previous}
        <3>1. Mine(q) \in Clients
            BY <2>1 DEF Mine, TypeOK
        <3> QED BY <3>1 DEF Failed, Clients
    <2>4. q # "failed" /\ End(q, pc, "failed")
        BY <1>1 DEF Throw
    <2> HIDE DEF c
    <2>5. "failed" = q => run[q] = "completed"
        BY <2>4
    <2> QED BY <1>1, <2>2, <2>3, <2>4, <2>5, EndKeeps
<1>2. ASSUME NEW fields, Live(q), Step(q, fields), fields.pc \in NoticesStop,
             fields.revision = task[q].revision, fields.session = task[q].session,
             fields.history = task[q].history,
             fields.pc = "polling" => fields.target = q,
             fields.pc = "checking" => fields.reply = q /\ run[q] = "completed",
             run' = run \/ (run[q] = "none" /\ run' = [run EXCEPT ![q] = "sent"])
      PROVE  ConversationInv'
    BY <1>2, StepKeeps
<1>3. CASE Ask(q)
    BY <1>3, AskKeeps
<1>4. task[q] \in Tasks
    BY DEF TypeOK
<1>5. task[q].pc \in Pending => Live(q)
    BY DEF Live
<1>6. CASE SignInEnds(q)
    <2>1. Live(q) /\ task[q].pc = "signing"
        BY <1>5, <1>6 DEF SignInEnds, Pending
    <2>2. CASE Step(q, [task[q] EXCEPT !.pc = "open"]) /\ run' = [run EXCEPT ![q] = "sent"]
        <3> DEFINE fields == [task[q] EXCEPT !.pc = "open"]
        <3>1. /\ fields.pc = "open" /\ fields.revision = task[q].revision
              /\ fields.session = task[q].session /\ fields.history = task[q].history
            BY <1>4 DEF Tasks
        <3>2. run[q] = "none"
            BY <2>1 DEF ConversationInv, RunInv
        <3> HIDE DEF fields
        <3> QED BY <1>2, <2>1, <2>2, <3>1, <3>2 DEF NoticesStop, fields
    <2>3. CASE Throw(q, "stopped", FALSE) \/ Throw(q, "unsent", FALSE)
        BY <1>1, <2>1, <2>3 DEF Over
    <2> QED BY <1>6, <2>2, <2>3 DEF SignInEnds
<1>7. CASE StreamRun(q)
    BY <1>7, StreamRunKeeps
<1>8. ASSUME task[q].pc \in {"open", "polling"}, run[q] = "completed",
             Answered(q, q), UNCHANGED serviceVars
      PROVE  ConversationInv'
    <2> DEFINE fields == [task[q] EXCEPT !.pc = "checking", !.reply = q, !.fails = 0]
    <2>1. /\ fields.pc = "checking" /\ fields.revision = task[q].revision /\ fields.reply = q
          /\ fields.session = task[q].session /\ fields.history = task[q].history
        BY <1>4 DEF Tasks
    <2>2. Live(q) /\ Step(q, fields) /\ run' = run
        BY <1>5, <1>8 DEF Answered, Pending, NoticesStop, serviceVars
    <2> HIDE DEF fields
    <2> QED BY <1>2, <1>8, <2>1, <2>2 DEF NoticesStop, fields
<1>9. CASE StreamAnswer(q)
    BY <1>8, <1>9 DEF StreamAnswer
<1>10. CASE StreamBreaks(q)
    <2>1. Live(q)
        BY <1>5, <1>10 DEF StreamBreaks, Pending, NoticesStop
    <2>2. CASE Throw(q, "lost", FALSE)
        BY <1>1, <2>1, <2>2 DEF Over
    <2>3. CASE /\ Mine(q).interrupted # None
               /\ Step(q, [task[q] EXCEPT !.pc = "polling", !.target = Mine(q).interrupted])
               /\ UNCHANGED serviceVars
        <3> DEFINE fields == [task[q] EXCEPT !.pc = "polling", !.target = Mine(q).interrupted]
        <3>1. Mine(q).interrupted = q
            BY <2>1, <2>3 DEF ConversationInv, RunInv
        <3>2. /\ fields.pc = "polling" /\ fields.revision = task[q].revision /\ fields.target = q
              /\ fields.session = task[q].session /\ fields.history = task[q].history
            BY <1>4, <3>1 DEF Tasks
        <3>3. run' = run /\ Step(q, fields)
            BY <2>3 DEF serviceVars
        <3> HIDE DEF fields
        <3> QED BY <1>2, <2>1, <3>2, <3>3 DEF NoticesStop, fields
    <2> QED BY <1>10, <2>2, <2>3 DEF StreamBreaks
<1>11. ASSUME NEW n, Polling(q), UNCHANGED serviceVars, Step(q, [task[q] EXCEPT !.fails = n])
       PROVE  ConversationInv'
    <2> DEFINE fields == [task[q] EXCEPT !.fails = n]
    <2>1. Live(q) /\ task[q].pc = "polling" /\ task[q].target = q
        BY <1>5, <1>11 DEF Polling, Pending, NoticesStop, ConversationInv, RunInv
    <2>2. /\ fields.pc = "polling" /\ fields.revision = task[q].revision /\ fields.target = q
          /\ fields.session = task[q].session /\ fields.history = task[q].history
        BY <1>4, <2>1 DEF Tasks
    <2>3. run' = run /\ Step(q, fields)
        BY <1>11 DEF serviceVars
    <2> HIDE DEF fields
    <2> QED BY <1>2, <2>1, <2>2, <2>3 DEF NoticesStop, fields
<1>12. CASE PollRunning(q)
    BY <1>11, <1>12 DEF PollRunning
<1>13. Polling(q) => Live(q)
    BY <1>5 DEF Polling, Pending, NoticesStop
<1>14. CASE PollLost(q)
    <2> DEFINE n == task[q].fails + 1
    <2>1. \/ Throw(q, "lost", FALSE)
          \/ Step(q, [task[q] EXCEPT !.fails = n]) /\ UNCHANGED serviceVars
        BY <1>14 DEF PollLost
    <2>2. Polling(q)
        BY <1>14 DEF PollLost
    <2> HIDE DEF n
    <2> QED BY <1>1, <1>11, <1>13, <2>1, <2>2 DEF Over
<1>15. CASE Accept(q)
    <2> DEFINE c == [Mine(q) EXCEPT !.running = FALSE, !.previous = q, !.interrupted = None]
    <2>1. Live(q) /\ task[q].reply = q /\ run[q] = "completed" /\ ~aborted[q]
        BY <1>5, <1>15 DEF Accept, MayAccept, Pending, NoticesStop, ConversationInv, RunInv
    <2>2. task[q].session \in Questions /\ Mine(q) \in Clients
        BY <2>1, Fields DEF ConversationInv, SessionInv, Live, Pending, NoticesStop, Mine, TypeOK
    <2>3. End(q, "answered", q) /\ client' = [client EXCEPT ![task[q].session] = c]
        BY <1>15, <2>1 DEF Accept
    <2>4. ~c.running /\ c.previous = q
        BY <2>2 DEF Clients
    <2> HIDE DEF c
    <2> QED BY <2>1, <2>3, <2>4, EndKeeps DEF Over
<1>16. CASE Contradicted(q)
    BY <1>1, <1>5, <1>16 DEF Contradicted, Pending, NoticesStop, Over
<1>17. CASE StopTakesEffect(q)
    BY <1>1, <1>5, <1>17 DEF StopTakesEffect, StopEnds, Pending, NoticesStop, Over
<1>18. CASE Timeout(q)
    <2>1. /\ UNCHANGED <<laneVars, task, client, run>>
          /\ \A r \in Questions : aborted[r] => aborted'[r]
        BY <1>18 DEF Timeout, Abort, serviceVars, TypeOK
    <2> QED BY <2>1, QuietKeeps
<1>19. ASSUME NEW dropped \in BOOLEAN, RunRefused(q, dropped) PROVE ConversationInv'
    BY <1>1, <1>5, <1>19 DEF RunRefused, Pending, NoticesStop, Over
<1>20. ASSUME NEW dropped \in BOOLEAN, PollRefused(q, dropped) PROVE ConversationInv'
    BY <1>1, <1>13, <1>20 DEF PollRefused, Over
<1>21. ASSUME NEW dropped \in BOOLEAN, PollAnswered(q, dropped) PROVE ConversationInv'
    <2>1. Live(q) /\ task[q].pc = "polling" /\ task[q].target = q
        BY <1>13, <1>21 DEF PollAnswered, Polling, ConversationInv, RunInv
    <2>2. CASE Throw(q, "refused", dropped)
        BY <1>1, <2>1, <2>2 DEF Over
    <2>3. CASE run[q] = "completed" /\ Answered(q, q) /\ UNCHANGED serviceVars
        BY <1>8, <2>1, <2>3
    <2> QED BY <1>21, <2>1, <2>2, <2>3 DEF PollAnswered
<1> QED BY <1>3, <1>6, <1>7, <1>9, <1>10, <1>12, <1>14, <1>15, <1>16, <1>17, <1>18,
           <1>19, <1>20, <1>21 DEF Asking

\* So does every other step: most of them do not speak of it.
LEMMA ConversationStep ==
    ASSUME TypeOK, TypeOK', ConversationInv, [Next]_vars
    PROVE  ConversationInv'
<1>1. ASSUME UNCHANGED <<laneVars, task, client, aborted, run>> PROVE ConversationInv'
    BY <1>1, QuietKeeps
<1>2. CASE Clear
    <2>1. \A q \in Questions : Live(q) => aborted'[q] /\ task[q].revision # revision'
        <3> SUFFICES ASSUME NEW q \in Questions, Live(q)
                     PROVE  aborted'[q] /\ task[q].revision # revision'
            OBVIOUS
        <3>1. aborted'[q]
            BY <1>2 DEF Clear, TypeOK, ConversationInv, BusyIsOneTask
        <3>2. task[q].revision <= revision /\ revision' = revision + 1
            BY <1>2 DEF Clear, ConversationInv, SessionInv, Live, Pending, NoticesStop
        <3> QED BY <3>1, <3>2, Fields
    <2>2. revision' >= revision /\ revision' \in Nat
        BY <1>2, Fields DEF Clear
    <2>3. /\ session' = None /\ controller' = None /\ ~busy' /\ transcript' = NoMessages
          /\ client' = IF session = None THEN client
                       ELSE [client EXCEPT ![session] = Released(@)]
          /\ UNCHANGED <<task, run>>
        BY <1>2 DEF Clear, serviceVars
    <2> QED BY <2>1, <2>2, <2>3, ForgetKeeps
<1>3. CASE Reset
    <2>1. controller = None
        BY <1>3 DEF Reset, ConversationInv, BusyIsOneTask
    <2>2. \A q \in Questions : Live(q) => aborted'[q] /\ task[q].revision # revision'
        BY <1>3, <2>1, Fields DEF Reset, ConversationInv, BusyIsOneTask, Current
    <2>3. revision' >= revision /\ revision' \in Nat
        BY <1>3, Fields DEF Reset
    <2>4. /\ session' = None /\ controller' = None /\ ~busy' /\ transcript' = NoMessages
          /\ client' = IF session = None THEN client
                       ELSE [client EXCEPT ![session] = Released(@)]
          /\ UNCHANGED <<task, run>>
        BY <1>3, <2>1 DEF Reset, serviceVars
    <2> QED BY <2>2, <2>3, <2>4, ForgetKeeps
<1>4. CASE Stop
    <2>1. /\ UNCHANGED <<laneVars, task, client, run>>
          /\ \A r \in Questions : aborted[r] => aborted'[r]
        BY <1>4 DEF Stop, Abort, serviceVars, TypeOK
    <2> QED BY <2>1, QuietKeeps
<1>5. CASE Revisit
    BY <1>1, <1>5 DEF Revisit, CardOnly, serviceVars
<1>6. ASSUME NEW q \in Questions, Service(q) PROVE ConversationInv'
    <2>1. CASE Admit(q) \/ Execute(q)
        <3>1. /\ UNCHANGED <<laneVars, task, client, aborted>>
              /\ \A r \in Questions : run'[r] = run[r] \/ run[r] \in {"sent", "running"}
            BY <2>1 DEF Admit, Execute, BrowserOnly, TypeOK
        <3> QED BY <3>1, QuietKeeps
    <2>2. CASE Perform(q) \/ Certify(q)
        BY <1>1, <2>2 DEF Perform, Certify, BrowserOnly
    <2> QED BY <1>6, <2>1, <2>2 DEF Service
<1>7. ASSUME NEW c \in Cards, Deciding(c) PROVE ConversationInv'
    <2>1. UNCHANGED <<laneVars, task, client, aborted, run>>
        BY <1>7 DEF Deciding, Decide, Reconcile, Submit, CallSignedIn, CallLost, CallAnswered,
                    Settle, Judge, CardOnly, BrowserOnly, serviceVars
    <2> QED BY <1>1, <2>1
<1>8. CASE UNCHANGED vars
    BY <1>1, <1>8 DEF vars, serviceVars
<1> QED BY <1>2, <1>3, <1>4, <1>5, <1>6, <1>7, <1>8, AskingKeeps DEF Next

-----------------------------------------------------------------------------
(* The cards.                                                              *)

\* The calls of a card: it sends one decision and shows what was confirmed of it.
LEMMA CardStep ==
    ASSUME TypeOK, TypeOK', CardInv, [Next]_vars
    PROVE  CardInv'
<1>1. ASSUME UNCHANGED <<card, call, decides, verdict, order, receipt>> PROVE CardInv'
    BY <1>1 DEF CardInv, DecidedOnce, CardsAreTrue
<1>2. ASSUME NEW q \in Questions, Asking(q) PROVE CardInv'
    <2>1. UNCHANGED <<card, call, decides, verdict, order, receipt>>
        BY <1>2 DEF Asking, Ask, SignInEnds, StreamRun, StreamAnswer, StreamBreaks, PollRunning,
             PollLost, Accept, Contradicted, StopTakesEffect, Timeout, RunRefused, PollAnswered,
             PollRefused, Answered, Step, Throw, End, Abort, cardVars, serviceVars
    <2> QED BY <1>1, <2>1
<1>3. CASE Clear \/ Reset \/ Stop \/ Revisit \/ UNCHANGED vars
    BY <1>1, <1>3 DEF Clear, Reset, Stop, Abort, Revisit, CardOnly, cardVars, serviceVars, vars
<1>4. ASSUME NEW q \in Questions, Service(q) PROVE CardInv'
    <2>1. CASE Admit(q) \/ Execute(q)
        BY <1>1, <2>1 DEF Admit, Execute, BrowserOnly, cardVars
    <2>2. CASE Perform(q)
        BY <2>2 DEF Perform, BrowserOnly, cardVars, CardInv, DecidedOnce, CardsAreTrue, TypeOK
    <2>3. CASE Certify(q)
        BY <2>3 DEF Certify, BrowserOnly, cardVars, CardInv, DecidedOnce, CardsAreTrue, TypeOK
    <2> QED BY <1>4, <2>1, <2>2, <2>3 DEF Service
<1>5. ASSUME NEW c \in Cards, Deciding(c) PROVE CardInv'
    <2>0. /\ c[1] \in Questions /\ card[c] \in CardStates /\ call[c] \in Calls /\ decides[c] \in Nat
          /\ DOMAIN card = Cards /\ DOMAIN call = Cards /\ DOMAIN decides = Cards
        BY DEF TypeOK, Cards
    \* What the service has needs only the decisions that were sent.
    <2>1. ASSUME UNCHANGED <<verdict, order, receipt>>,
                 \A d \in Cards : d # c => card'[d] = card[d] /\ call'[d] = call[d]
                                              /\ decides'[d] = decides[d],
                 /\ card'[c].shows = "pending" <=> card'[c].submitted = None
                 /\ card'[c].shows = "pending" => decides'[c] = 0
                 /\ call'[c].pc # "none" => card'[c].shows = "saving"
                 /\ call'[c].pc = "signing" /\ ~call'[c].reconcile => decides'[c] = 0,
                 decides[c] > 0 => card'[c].submitted = card[c].submitted,
                 decides'[c] \in {decides[c], 1}, decides[c] <= 1,
                 decides[c] = 1 => decides'[c] = 1,
                 card'[c].shows = "created" => order[c[1]] = "approve",
                 card'[c].shows = "rejected" => verdict[c[1]] = "reject" /\ order[c[1]] = None
          PROVE  CardInv'
        <3>1. \A d \in Cards :
                  /\ card'[d].shows = "pending" <=> card'[d].submitted = None
                  /\ card'[d].shows = "pending" => decides'[d] = 0
                  /\ call'[d].pc # "none" => card'[d].shows = "saving"
                  /\ call'[d].pc = "signing" /\ ~call'[d].reconcile => decides'[d] = 0
            BY <2>1 DEF CardInv
        <3>2. \A q \in Questions :
                  /\ order'[q] # None => verdict'[q] = "approve"
                  /\ receipt'[q] # None => verdict'[q] # None
                  /\ receipt'[q] = "created" => order'[q] # None
                  /\ receipt'[q] = "rejected" => verdict'[q] = "reject"
            BY <2>1 DEF CardInv
        <3>3. DecidedOnce'
            BY <2>0, <2>1 DEF CardInv, DecidedOnce
        <3>4. CardsAreTrue'
            BY <2>1 DEF CardInv, CardsAreTrue
        <3> QED BY <3>1, <3>2, <3>3, <3>4 DEF CardInv
    <2>2. decides[c] <= 1
        BY DEF CardInv, DecidedOnce
    <2>3. ASSUME NEW v \in Verdicts, NEW reconcile \in BOOLEAN, Submit(c, v, reconcile),
                 \/ card[c].shows = "pending" /\ ~reconcile
                 \/ card[c].shows = "uncertain" /\ card[c].submitted = v /\ reconcile
          PROVE  CardInv'
        <3>1. PICK accepted \in BOOLEAN :
                 /\ card' = [card EXCEPT ![c] =
                        [shows |-> IF accepted THEN "saving" ELSE "uncertain", submitted |-> v]]
                 /\ call' = IF accepted
                            THEN [call EXCEPT ![c] = [pc |-> "signing", reconcile |-> reconcile]]
                            ELSE call
                 /\ UNCHANGED <<decides, verdict, order, receipt>>
            BY <2>3 DEF Submit, CardOnly, serviceVars
        <3>2. /\ card'[c].submitted = v /\ card'[c].shows \in {"saving", "uncertain"} /\ v # None
              /\ accepted => card'[c].shows = "saving"
              /\ ~accepted => call'[c] = call[c]
              /\ accepted => call'[c].reconcile = reconcile
            BY <2>0, <3>1
        <3>3. call[c].pc = "none"
            BY <2>3 DEF CardInv
        <3>4. /\ card[c].shows = "pending" => decides[c] = 0
              /\ card[c].shows = "uncertain" => card[c].submitted = v
            BY <2>3 DEF CardInv
        <3>5. decides'[c] = decides[c] /\ UNCHANGED <<verdict, order, receipt>>
            BY <3>1
        <3>6. \A d \in Cards : d # c => card'[d] = card[d] /\ call'[d] = call[d]
                                            /\ decides'[d] = decides[d]
            BY <2>0, <3>1
        <3>7. /\ card'[c].shows = "pending" <=> card'[c].submitted = None
              /\ card'[c].shows = "pending" => decides'[c] = 0
              /\ call'[c].pc # "none" => card'[c].shows = "saving"
              /\ call'[c].pc = "signing" /\ ~call'[c].reconcile => decides'[c] = 0
            BY <2>3, <3>2, <3>3, <3>4, <3>5
        <3> QED BY <2>0, <2>1, <2>2, <2>3, <3>2, <3>4, <3>5, <3>6, <3>7
    <2>4. ASSUME NEW v \in Verdicts, Decide(c, v) PROVE CardInv'
        BY <2>3, <2>4 DEF Decide, MayDecide
    <2>5. CASE Reconcile(c)
        <3>1. card[c].submitted \in Verdicts
            BY <2>0, <2>5 DEF Reconcile, CardInv, CardStates
        <3> QED BY <2>3, <2>5, <3>1 DEF Reconcile
    <2>6. CASE CallSignedIn(c)
        <3>1. /\ UNCHANGED <<card, verdict, order, receipt>> /\ call[c].pc = "signing"
              /\ call' = [call EXCEPT ![c].pc = "sent"]
              /\ decides' = IF call[c].reconcile THEN decides
                            ELSE [decides EXCEPT ![c] = @ + 1]
            BY <2>6 DEF CallSignedIn, CardOnly, serviceVars
        <3>2. card[c].shows = "saving" /\ card[c].submitted # None
            BY <3>1 DEF CardInv
        <3>3. call'[c].pc = "sent"
            BY <2>0, <3>1
        <3>4. /\ call[c].reconcile => decides'[c] = decides[c]
              /\ ~call[c].reconcile => decides[c] = 0 /\ decides'[c] = 1
            BY <2>0, <3>1 DEF CardInv
        <3>5. \A d \in Cards : d # c => card'[d] = card[d] /\ call'[d] = call[d]
                                            /\ decides'[d] = decides[d]
            BY <2>0, <3>1
        <3> QED BY <2>0, <2>1, <2>2, <3>1, <3>2, <3>3, <3>4, <3>5
    <2>7. ASSUME NEW shows \in {"uncertain", "disabled"} \cup Certified, Settle(c, shows),
                 call[c].pc # "none",
                 shows = "created" => order[c[1]] = "approve",
                 shows = "rejected" => verdict[c[1]] = "reject" /\ order[c[1]] = None
          PROVE  CardInv'
        <3>1. /\ UNCHANGED <<decides, verdict, order, receipt>>
              /\ card' = [card EXCEPT ![c].shows = shows]
              /\ call' = [call EXCEPT ![c].pc = "none"]
            BY <2>7 DEF Settle, CardOnly, serviceVars
        <3>2. card'[c].shows = shows /\ card'[c].submitted = card[c].submitted
            BY <2>0, <3>1 DEF CardStates
        <3>3. card[c].shows = "saving" /\ card[c].submitted # None
            BY <2>7 DEF CardInv
        <3>4. call'[c].pc = "none" /\ shows # "pending"
            BY <2>0, <3>1 DEF Certified
        <3>5. \A d \in Cards : d # c => card'[d] = card[d] /\ call'[d] = call[d]
                                            /\ decides'[d] = decides[d]
            BY <2>0, <3>1
        <3>6. decides'[c] = decides[c]
            BY <3>1
        <3> QED BY <2>0, <2>1, <2>2, <2>7, <3>1, <3>2, <3>3, <3>4, <3>5, <3>6
    <2>8. CASE CallLost(c)
        BY <2>7, <2>8 DEF CallLost
    <2>9. CASE CallAnswered(c)
        <3>1. PICK reply \in Replies(c) : call[c].pc = "sent" /\ Settle(c, Outcome(c, reply))
            BY <2>9 DEF CallAnswered
        <3>2. Outcome(c, reply) \in {"uncertain", "disabled"} \cup Certified
            BY DEF Outcome, Certified
        <3>3. ASSUME Outcome(c, reply) = "created" PROVE order[c[1]] = "approve"
            <4>1. reply = "created"
                BY <3>3 DEF Outcome
            <4>2. receipt[c[1]] = "created"
                BY <4>1 DEF Replies
            <4> QED BY <2>0, <4>2 DEF CardInv, TypeOK
        <3>4. ASSUME Outcome(c, reply) = "rejected"
              PROVE  verdict[c[1]] = "reject" /\ order[c[1]] = None
            <4>1. reply = "rejected"
                BY <3>4 DEF Outcome
            <4>2. receipt[c[1]] = "rejected"
                BY <4>1 DEF Replies
            <4> QED BY <2>0, <4>2 DEF CardInv
        <3> QED BY <2>7, <3>1, <3>2, <3>3, <3>4
    <2>10. CASE Judge(c)
        <3>1. /\ decides[c] = 1 /\ verdict[c[1]] = None
              /\ verdict' = [verdict EXCEPT ![c[1]] = card[c].submitted]
              /\ UNCHANGED <<card, call, decides, order, receipt>>
            BY <2>0, <2>2, <2>10 DEF Judge, MayJudge, BrowserOnly, cardVars
        <3>2. order[c[1]] = None /\ receipt[c[1]] = None
            BY <2>0, <3>1 DEF CardInv, Verdicts
        <3>3. \A q \in Questions : q # c[1] => verdict'[q] = verdict[q]
            BY <2>0, <3>1 DEF TypeOK
        <3>4. verdict'[c[1]] = card[c].submitted
            BY <2>0, <3>1 DEF TypeOK
        <3>5. DecidedOnce'
            BY <2>0, <3>1, <3>3, <3>4 DEF CardInv, DecidedOnce
        <3>6. CardsAreTrue'
            <4>1. \A d \in Cards : d[1] \in Questions
                BY DEF Cards
            <4>2. \A d \in Cards : d[1] = c[1] => card[d].shows # "created" /\ card[d].shows # "rejected"
                BY <3>1, <3>2, <4>1 DEF CardInv, CardsAreTrue, Verdicts
            <4> QED BY <3>1, <3>3, <4>1, <4>2 DEF CardInv, CardsAreTrue
        <3>7. \A q \in Questions :
                  /\ order'[q] # None => verdict'[q] = "approve"
                  /\ receipt'[q] # None => verdict'[q] # None
                  /\ receipt'[q] = "created" => order'[q] # None
                  /\ receipt'[q] = "rejected" => verdict'[q] = "reject"
            BY <2>0, <3>1, <3>2, <3>3 DEF CardInv
        <3> QED BY <3>1, <3>5, <3>6, <3>7 DEF CardInv
    <2> QED BY <1>5, <2>4, <2>5, <2>6, <2>8, <2>9, <2>10 DEF Deciding
<1> QED BY <1>2, <1>3, <1>4, <1>5 DEF Next

-----------------------------------------------------------------------------
(* The theorems.                                                           *)

\* The inductive invariant holds at the start.
LEMMA InitInv == Init => IInv
<1> SUFFICES ASSUME Init PROVE IInv
    OBVIOUS
<1>1. TypeOK
    BY InitType
<1>2. \A q \in Questions : task[q].pc = "unasked" /\ ~Live(q)
    BY DEF Init, Live, Pending, NoticesStop
<1>3. \A q \in Questions : transcript[q] = None /\ client[q] = NewClient /\ run[q] = "none"
    BY DEF Init, NoMessages
<1>4. ShownIsCurrent /\ AnswersAreTheirOwn /\ FollowUpsAreVisible
    BY <1>3 DEF Init, ShownIsCurrent, AnswersAreTheirOwn, FollowUpsAreVisible
<1>5. BusyIsOneTask
    BY <1>2, <1>3 DEF Init, BusyIsOneTask
<1>6. SessionInv
    BY <1>2, <1>3 DEF Init, SessionInv, Current, NewClient
<1>7. RunInv
    BY <1>2, <1>3 DEF RunInv
<1>8. CardInv
    <2>1. \A q \in Questions : verdict[q] = None /\ order[q] = None /\ receipt[q] = None
        BY DEF Init, NoMessages
    <2>2. \A c \in Cards : /\ card[c].shows = "pending" /\ card[c].submitted = None
                          /\ call[c].pc = "none" /\ decides[c] = 0
        BY DEF Init
    <2> QED BY <2>1, <2>2 DEF CardInv, DecidedOnce, CardsAreTrue, Certified
<1> QED BY <1>1, <1>4, <1>5, <1>6, <1>7, <1>8 DEF IInv, ConversationInv

\* Every step keeps the inductive invariant.
LEMMA StepInv == IInv /\ [Next]_vars => IInv'
<1> SUFFICES ASSUME IInv, [Next]_vars PROVE IInv'
    OBVIOUS
<1>1. TypeOK'
    <2>1. ASSUME NEW q \in Questions, Asking(q) PROVE TypeOK'
        <3>1. /\ task[q].pc # "unasked" => task[q].session # None
              /\ task[q].pc = "polling" => task[q].target = q
            BY DEF IInv, ConversationInv, SessionInv, RunInv
        <3> QED BY <2>1, <3>1, AskingType DEF IInv
    <2>2. CASE UNCHANGED vars
        BY <2>2 DEF IInv, TypeOK, vars, laneVars, cardVars, serviceVars
    <2> QED BY <2>1, <2>2, OtherType DEF Next, IInv
<1>2. ConversationInv' /\ CardInv'
    BY <1>1, ConversationStep, CardStep DEF IInv
<1> QED BY <1>1, <1>2 DEF IInv

\* The inductive invariant: types, the conversation and the cards.
THEOREM Invariant == Spec => []IInv
<1> QED BY InitInv, StepInv, PTL DEF Spec

\* Every variable keeps its type, and a recovery goes on only below the limit.
THEOREM TypeCorrect == Spec => []TypeOK
<1>1. IInv => TypeOK
    BY DEF IInv
<1> QED BY <1>1, Invariant, PTL

\* Whatever ends after the account or the chat changed, the transcript is the current one.
THEOREM ShownIsCurrentAlways == Spec => []ShownIsCurrent
<1>1. IInv => ShownIsCurrent
    BY DEF IInv, ConversationInv
<1> QED BY <1>1, Invariant, PTL

\* The lane is busy with one request, the one Stop reaches; the transport is never
\* asked while it runs.
THEOREM BusyIsOneTaskAlways == Spec => []BusyIsOneTask
<1>1. IInv => BusyIsOneTask
    BY DEF IInv, ConversationInv
<1> QED BY <1>1, Invariant, PTL

\* An answer is shown under its own question, recovered or not.
THEOREM AnswersAreTheirOwnAlways == Spec => []AnswersAreTheirOwn
<1>1. IInv => AnswersAreTheirOwn
    BY DEF IInv, ConversationInv
<1> QED BY <1>1, Invariant, PTL

\* The next question continues an answer the operator sees.
THEOREM FollowUpsAreVisibleAlways == Spec => []FollowUpsAreVisible
<1>1. IInv => FollowUpsAreVisible
    BY DEF IInv, ConversationInv
<1> QED BY <1>1, Invariant, PTL

\* A card decides once, and what the service recorded is the decision of a card.
THEOREM DecidedOnceAlways == Spec => []DecidedOnce
<1>1. IInv => DecidedOnce
    BY DEF IInv, CardInv
<1> QED BY <1>1, Invariant, PTL

\* A card that says created or rejected is right, whatever other cards submitted.
THEOREM CardsAreTrueAlways == Spec => []CardsAreTrue
<1>1. IInv => CardsAreTrue
    BY DEF IInv, CardInv
<1> QED BY <1>1, Invariant, PTL

\* No question is sent once it was stopped or its account changed.
THEOREM NothingSentAfterStop == Spec => NothingIsSentAfterStop
<1> DEFINE Sends(q) == run[q] = "none" /\ run'[q] = "sent"
           Sound(q) ==
               /\ ~aborted[q] /\ task[q].revision = revision /\ task[q].session = session
               /\ task[q].context # None => transcript[task[q].context] = task[q].context
<1>1. ASSUME IInv, [Next]_vars, NEW q \in Questions, Sends(q) PROVE Sound(q)
    <2>1. task[q].pc = "signing" /\ ~aborted[q]
        <3>1. run' # run
            BY <1>1
        <3>2. \A r \in Questions : Service(r) => ~Sends(q)
            <4>1. \A r \in Questions : Admit(r) => ~Sends(q)
                BY <1>1 DEF Admit, IInv, TypeOK
            <4>2. \A r \in Questions : Execute(r) => ~Sends(q)
                BY <1>1 DEF Execute, IInv, TypeOK
            <4>3. \A r \in Questions : Perform(r) \/ Certify(r) => run' = run
                BY DEF Perform, Certify
            <4> QED BY <3>1, <4>1, <4>2, <4>3 DEF Service
        <3>3. \A r \in Questions : Asking(r) => SignInEnds(r) \/ run' = run
            BY DEF Asking, Ask, StreamRun, StreamAnswer, StreamBreaks, PollRunning,
                 PollLost, Accept, Contradicted, StopTakesEffect, Timeout, RunRefused, PollAnswered,
                 PollRefused, Answered, Throw, End, Abort, serviceVars
        <3>4. \A c \in Cards : Deciding(c) => run' = run
            BY DEF Deciding, Decide, Reconcile, Submit, CallSignedIn, CallLost, CallAnswered,
                   Settle, Judge, CardOnly, serviceVars
        <3>5. Clear \/ Reset \/ Stop \/ Revisit \/ UNCHANGED vars => run' = run
            BY DEF Clear, Reset, Stop, Abort, Revisit, CardOnly, serviceVars, vars
        <3>6. PICK r \in Questions : SignInEnds(r)
            BY <1>1, <3>1, <3>2, <3>3, <3>4, <3>5 DEF Next
        <3>7. MaySend(r) /\ run' = [run EXCEPT ![r] = "sent"] /\ task[r].pc = "signing"
            BY <3>1, <3>6 DEF SignInEnds, Throw, End, serviceVars
        <3>8. r = q
            BY <1>1, <3>7 DEF IInv, TypeOK
        <3> QED BY <3>7, <3>8 DEF MaySend
    <2>2. Live(q) /\ q = controller /\ Current(q)
        <3>1. Live(q)
            BY <2>1 DEF Live, Pending
        <3>2. q = controller
            BY <1>1, <2>1, <3>1 DEF IInv, ConversationInv, BusyIsOneTask
        <3> QED BY <1>1, <3>1, <3>2 DEF IInv, ConversationInv, BusyIsOneTask
    <2>3. task[q].revision = revision /\ task[q].session = session /\ session # None
        <3>1. task[q].revision = revision /\ task[q].session = session
            BY <1>1, <2>2 DEF IInv, ConversationInv, SessionInv, Current
        <3>2. task[q].session # None
            BY <1>1, <2>1 DEF IInv, ConversationInv, SessionInv
        <3> QED BY <3>1, <3>2
    <2>4. task[q].context = client[session].previous
        BY <1>1, <2>1, <2>2, <2>3 DEF IInv, ConversationInv, RunInv, Mine
    <2> QED BY <1>1, <2>1, <2>3, <2>4 DEF IInv, ConversationInv, FollowUpsAreVisible
<1>2. IInv /\ [Next]_vars => [\A q \in Questions : Sends(q) => Sound(q)]_vars
    BY <1>1
<1> QED BY <1>2, Invariant, PTL DEF Spec, NothingIsSentAfterStop

\* What the service has of each draft implements WorkOrderCard.
THEOREM CardsAreKept == Spec => KeepsCards
<1>1. ASSUME IInv, [Next]_vars, NEW q \in Questions
      PROVE  [Kept(q)!Next]_(Kept(q)!vars)
    <2>0. q \in Questions /\ TypeOK /\ CardInv
        BY <1>1 DEF IInv
    <2>1. ASSUME UNCHANGED <<verdict, order, receipt>> PROVE [Kept(q)!Next]_(Kept(q)!vars)
        BY <2>1 DEF Kept!vars
    <2>2. ASSUME NEW c \in Cards, Judge(c) PROVE [Kept(q)!Next]_(Kept(q)!vars)
        <3>1. c[1] \in Questions /\ UNCHANGED <<order, receipt>>
            BY <2>2 DEF Judge, BrowserOnly, Cards
        <3>2. /\ verdict[c[1]] = None /\ decides[c] > 0
              /\ verdict' = [verdict EXCEPT ![c[1]] = card[c].submitted]
            BY <2>2 DEF Judge, MayJudge
        <3>3. card[c].submitted \in Verdicts
            BY <2>0, <3>2 DEF CardInv, TypeOK, CardStates
        <3>4. CASE c[1] = q
            BY <2>0, <3>1, <3>2, <3>3, <3>4 DEF Kept!Next, Kept!Judge, TypeOK, Verdicts
        <3>5. CASE c[1] # q
            BY <2>0, <3>1, <3>2, <3>5 DEF Kept!vars, TypeOK
        <3> QED BY <3>4, <3>5
    <2>3. ASSUME NEW r \in Questions, Perform(r) PROVE [Kept(q)!Next]_(Kept(q)!vars)
        <3>1. /\ verdict[r] = "approve" /\ order[r] = None /\ UNCHANGED <<verdict, receipt>>
              /\ order' = [order EXCEPT ![r] = "approve"]
            BY <2>3 DEF Perform
        <3>2. CASE r = q
            BY <2>0, <3>1, <3>2 DEF Kept!Next, Kept!Perform, TypeOK
        <3>3. CASE r # q
            BY <2>0, <3>1, <3>3 DEF Kept!vars, TypeOK
        <3> QED BY <3>2, <3>3
    <2>4. ASSUME NEW r \in Questions, Certify(r) PROVE [Kept(q)!Next]_(Kept(q)!vars)
        <3>1. PICK certificate \in Certified :
                 /\ receipt[r] = None /\ verdict[r] # None /\ UNCHANGED <<verdict, order>>
                 /\ certificate = "rejected" <=> verdict[r] = "reject"
                 /\ certificate = "created" => order[r] # None
                 /\ receipt' = [receipt EXCEPT ![r] = certificate]
            BY <2>4 DEF Certify
        <3>2. verdict[r] \in Verdicts /\ order[r] \in {None, "approve"}
            BY <2>0, <3>1 DEF TypeOK
        <3>3. CASE r = q
            <4>1. receipt'[q] = certificate /\ receipt[q] = None
                BY <2>0, <3>1, <3>3 DEF TypeOK
            <4>2. UNCHANGED <<verdict[q], order[q]>>
                BY <3>1
            <4>3. Kept(q)!Certify
                BY <3>1, <3>2, <3>3, <4>1, <4>2 DEF Kept!Certify, Verdicts, Certified
            <4> QED BY <4>3 DEF Kept!Next
        <3>4. CASE r # q
            BY <2>0, <3>1, <3>4 DEF Kept!vars, TypeOK
        <3> QED BY <3>3, <3>4
    <2>5. ASSUME NEW r \in Questions, Asking(r) PROVE UNCHANGED <<verdict, order, receipt>>
        BY <2>5 DEF Asking, Ask, SignInEnds, StreamRun, StreamAnswer, StreamBreaks, PollRunning,
             PollLost, Accept, Contradicted, StopTakesEffect, Timeout, RunRefused, PollAnswered,
             PollRefused, Answered, Step, Throw, End, Abort, serviceVars
    <2>6. ASSUME NEW c \in Cards, Deciding(c), ~Judge(c) PROVE UNCHANGED <<verdict, order, receipt>>
        BY <2>6 DEF Deciding, Decide, Reconcile, Submit, CallSignedIn, CallLost, CallAnswered,
               Settle, CardOnly, serviceVars
    <2>7. ASSUME NEW r \in Questions, Admit(r) \/ Execute(r) PROVE UNCHANGED <<verdict, order, receipt>>
        BY <2>7 DEF Admit, Execute
    <2>8. Clear \/ Reset \/ Stop \/ Revisit \/ UNCHANGED vars => UNCHANGED <<verdict, order, receipt>>
        BY DEF Clear, Reset, Stop, Abort, Revisit, CardOnly, serviceVars, vars
    <2> QED BY <1>1, <2>1, <2>2, <2>3, <2>4, <2>5, <2>6, <2>7, <2>8 DEF Next, Service
<1>2. IInv /\ [Next]_vars => [\A q \in Questions : [Kept(q)!Next]_(Kept(q)!vars)]_vars
    BY <1>1
<1> QED BY <1>2, Invariant, PTL DEF Spec, KeepsCards
=============================================================================
