---------------------- MODULE WorkOrderDecisionProofs ----------------------
(***************************************************************************)
(* Proofs about WorkOrderDecision for any number of calls about a card and *)
(* every order of timeouts, lost answers, crashes and database delays.     *)
(***************************************************************************)
EXTENDS WorkOrderDecision, TLAPS

(* None is neither a decision, a call, an answer nor a receipt.            *)
LEMMA NoneIsFresh ==
    /\ None \notin Edits /\ None # Reject /\ None \notin Calls
    /\ None \notin Results /\ None \notin Replies /\ None \notin Answers
    /\ Reject \notin Edits
<1>1. None \notin Decisions \cup Calls \cup Results \cup Replies \cup Answers
  BY ConstantsAssumption, Zenon
<1>2. Reject \notin Edits BY ConstantsAssumption, Zenon
<1> QED BY <1>1, <1>2 DEF Decisions

(* Answering a call leaves a well-typed call and lock behind.              *)
LEMMA ReplyType ==
    ASSUME TypeOK, NEW c \in Calls, NEW reply \in Replies, Reply(c, reply)
    PROVE  call' \in [Calls -> CallStates] /\ holder' \in Calls \cup {None}
<1>1. holder' \in Calls \cup {None} BY DEF TypeOK, Reply
<1>2. call[c] \in CallStates BY DEF TypeOK
<1>3. [call[c] EXCEPT !.pc = "done", !.reply = reply] \in CallStates
  BY <1>2 DEF CallStates
<1>4. call' = [call EXCEPT ![c] = [call[c] EXCEPT !.pc = "done", !.reply = reply]]
  BY DEF TypeOK, Reply
<1>5. call' \in [Calls -> CallStates] BY <1>3, <1>4 DEF TypeOK
<1> QED BY <1>1, <1>5

(* What Reply does to the answered call and to every other one.            *)
LEMMA ReplyEffect ==
    ASSUME TypeOK, NEW c \in Calls, NEW reply, Reply(c, reply)
    PROVE  /\ call'[c].pc = "done" /\ call'[c].reply = reply
           /\ call'[c].decision = call[c].decision /\ call'[c].create = call[c].create
           /\ \A d \in Calls \ {c} : call'[d] = call[d]
           /\ holder = c => holder' = None
           /\ holder # c => holder' = holder
BY DEF TypeOK, Reply, CallStates

(* The worker's answers and the places of its jobs are typed.              *)
LEMMA AnswerType ==
    ASSUME TypeOK, NEW c \in Calls, NEW answer \in Answers \cup {None}, Answer(c, answer)
    PROVE  job' \in [Calls -> JobStates]
BY DEF TypeOK, Answer, JobStates

(* ... likewise when a job only moves on.                                  *)
LEMMA GotoType ==
    ASSUME TypeOK, NEW c \in Calls,
           NEW pc \in {"reading", "staging", "creating", "checking"}, Goto(c, pc)
    PROVE  job' \in [Calls -> JobStates]
BY DEF TypeOK, Goto, JobStates

(* Types survive every step.                                               *)
LEMMA TypeStep == IInv /\ [Next]_vars => TypeOK'
<1> SUFFICES ASSUME IInv, [Next]_vars PROVE TypeOK'
  OBVIOUS
<1>0. TypeOK /\ OrderInv /\ \A c \in Calls : CallInv(c) /\ JobInv(c) BY DEF IInv
<1>1. ASSUME NEW c \in Calls, NEW reconcile \in BOOLEAN, NEW d \in Decisions,
             Ask(c, reconcile, d)
      PROVE  TypeOK'
  <2> DEFINE answer == Answered(reconcile, d)
  <2>1. CASE answer # None
    <3>1. answer \in Replies BY <1>0, <2>1 DEF Answered, Replies, TypeOK
    <3>2. call' \in [Calls -> CallStates] /\ holder' \in Calls \cup {None}
      BY <1>0, <1>1, <2>1, <3>1, ReplyType DEF Ask
    <3> QED BY <1>0, <1>1, <2>1, <3>2 DEF Ask, TypeOK, databaseVars, processVars
  <2>2. CASE answer = None
    <3>1. [pc |-> IF IsRejection(d) THEN "rejecting" ELSE "submitting",
           decision |-> d, create |-> AllowCreate, reply |-> None] \in CallStates
      BY DEF CallStates, AllowCreate
    <3> QED BY <1>0, <1>1, <2>2, <3>1 DEF Ask, TypeOK, databaseVars, processVars
  <2> QED BY <2>1, <2>2
<1>2. ASSUME NEW c \in Calls, OpenSourcesFails(c) \/ GiveUp(c) PROVE TypeOK'
  <2>1. call' \in [Calls -> CallStates] /\ holder' \in Calls \cup {None}
    BY <1>0, <1>2, ReplyType DEF OpenSourcesFails, GiveUp, Replies
  <2> QED
    BY <1>0, <1>2, <2>1
    DEF OpenSourcesFails, GiveUp, TypeOK, journalVars, databaseVars, processVars
<1>3. ASSUME NEW c \in Calls, SaveRejection(c) \/ Receive(c) PROVE TypeOK'
  <2>1. call' \in [Calls -> CallStates] /\ holder' \in Calls \cup {None}
    BY <1>0, <1>3, ReplyType DEF SaveRejection, Receive, Replies, Results
  <2> QED
    BY <1>0, <1>3, <2>1
    DEF SaveRejection, Receive, TypeOK, Results, databaseVars, processVars
<1>4. ASSUME NEW c \in Calls, Submit(c) PROVE TypeOK'
  <2>1. call[c] \in CallStates /\ job[c] \in JobStates BY <1>0 DEF TypeOK
  <2>2. /\ [call[c] EXCEPT !.pc = "awaiting"] \in CallStates
        /\ [job[c] EXCEPT !.pc = "sent"] \in JobStates
    BY <2>1 DEF CallStates, JobStates
  <2>3. call' \in [Calls -> CallStates] /\ job' \in [Calls -> JobStates]
    BY <1>0, <1>4, <2>2 DEF Submit, TypeOK
  <2> QED BY <1>0, <1>4, <2>3 DEF Submit, TypeOK, journalVars, databaseVars, processVars
<1>5. ASSUME NEW c \in Calls,
             \/ Read(c) \/ FindExisting(c) \/ FailsBeforeWrite(c)
             \/ Stage(c) \/ CheckCreated(c) \/ JobLost(c)
      PROVE  TypeOK'
  <2>1. job' \in [Calls -> JobStates]
    BY <1>0, <1>5, AnswerType, GotoType
    DEF Read, FindExisting, FailsBeforeWrite, Stage, CheckCreated, JobLost, Answers, Doubt
  <2> QED
    BY <1>0, <1>5, <2>1
    DEF Read, FindExisting, FailsBeforeWrite, Stage, CheckCreated, JobLost, NodeOnly, TypeOK,
        journalVars, databaseVars, processVars
<1>6. ASSUME NEW c \in Calls, Create(c) PROVE TypeOK'
  <2>1. call[c].decision \in Edits BY <1>0, <1>6 DEF Create, JobInv
  <2> QED
    BY <1>0, <1>6, <2>1, GotoType DEF Create, NodeOnly, TypeOK, journalVars, processVars
<1>7. CASE Commit \/ LoseMutation \/ WorkOn
  <2>1. sql' \in [edits : Edits, draft : BOOLEAN] \cup {None}
    <3>1. CASE Commit
      <4>1. [edits |-> wire, draft |-> TRUE] \in [edits : Edits, draft : BOOLEAN]
        BY <1>0, <3>1 DEF Commit, TypeOK
      <4> QED BY <1>0, <3>1, <4>1 DEF Commit, TypeOK
    <3>2. CASE WorkOn
      <4>1. sql \in [edits : Edits, draft : BOOLEAN] BY <1>0, <3>2 DEF WorkOn, TypeOK
      <4>2. [sql EXCEPT !.draft = FALSE] \in [edits : Edits, draft : BOOLEAN] BY <4>1
      <4> QED BY <3>2, <4>2 DEF WorkOn
    <3> QED BY <1>0, <1>7, <3>1, <3>2 DEF LoseMutation, TypeOK
  <2> QED
    BY <1>0, <1>7, <2>1 DEF Commit, LoseMutation, WorkOn, TypeOK, journalVars, processVars
<1>8. CASE Crash
  <2>1. call' \in [Calls -> CallStates]
    <3>1. ASSUME NEW c \in Calls
          PROVE  [call[c] EXCEPT !.pc = "done", !.reply = "lost"] \in CallStates
      BY <1>0 DEF TypeOK, CallStates, Replies
    <3> QED BY <1>0, <1>8, <3>1 DEF Crash, TypeOK
  <2>2. up' = FALSE /\ crashes' = crashes + 1 BY <1>8, Zenon DEF Crash
  <2>3. crashes' \in Nat BY <1>0, <2>2 DEF TypeOK
  <2> QED BY <1>0, <1>8, <2>1, <2>2, <2>3 DEF Crash, TypeOK, journalVars, databaseVars
<1>9. CASE Restart \/ Expire \/ UNCHANGED vars
  BY <1>0, <1>9
  DEF Restart, Expire, TypeOK, vars, journalVars, databaseVars, processVars
<1> QED
  BY <1>1, <1>2, <1>3, <1>4, <1>5, <1>6, <1>7, <1>8, <1>9 DEF Next, Python, Node

-----------------------------------------------------------------------------
(* The record types, spelled out for the leaves below.                     *)
LEMMA Parts ==
    ASSUME TypeOK
    PROVE  /\ \A c \in Calls : call[c] \in CallStates /\ job[c] \in JobStates
           /\ creates \in Nat /\ DOMAIN call = Calls /\ DOMAIN job = Calls
BY DEF TypeOK

(* Answering a call that holds the lock, or that never took it, keeps the  *)
(* invariant, provided that the receipt saved with the answer is true.     *)
LEMMA ReplyStep ==
    ASSUME IInv, NEW c \in Calls, NEW reply, Reply(c, reply),
           UNCHANGED <<intent, job, databaseVars, up>>,
           result' = result \/ Held(c),
           result' = "created" => sql # None,
           result' = "rejected" => intent = Reject,
           result' # None => intent # None,
           call[c].create /\ reply = "blocked" => creates = 0 /\ job[c].pc = "over"
    PROVE  OrderInv' /\ \A d \in Calls : CallInv(d)' /\ JobInv(d)'
<1>0. TypeOK /\ OrderInv /\ \A d \in Calls : CallInv(d) /\ JobInv(d) BY DEF IInv
<1>1. /\ call'[c].pc = "done" /\ call'[c].reply = reply
      /\ call'[c].decision = call[c].decision /\ call'[c].create = call[c].create
      /\ \A d \in Calls \ {c} : call'[d] = call[d]
      /\ holder = c => holder' = None
      /\ holder # c => holder' = holder
  BY <1>0, ReplyEffect
<1>2. /\ intent' = intent /\ job' = job /\ up' = up
      /\ sql' = sql /\ wire' = wire /\ creates' = creates
  BY DEF databaseVars
<1>3. holder \in Calls \cup {None} BY <1>0 DEF TypeOK
<1>4. OrderInv'
  <2>1. OneCreation' BY <1>0, <1>2 DEF OrderInv, OneCreation
  <2>2. holder' # None => Held(holder)' BY <1>0, <1>1, <1>3 DEF OrderInv, Held
  <2>3. \A d, e \in Calls : call'[d].create /\ call'[e].create => d = e
    BY <1>0, <1>1 DEF OrderInv
  <2> QED BY <1>0, <1>2, <2>1, <2>2, <2>3 DEF OrderInv
<1>5. CallInv(c)' BY <1>0, <1>1, <1>2 DEF CallInv, Held
<1>6. JobInv(c)' BY <1>0, <1>1, <1>2 DEF JobInv
<1>7. ASSUME NEW d \in Calls \ {c} PROVE CallInv(d)' /\ JobInv(d)'
  <2>1. Held(d) => holder' = d /\ result' = result
    BY <1>0, <1>1 DEF CallInv
  <2>2. CallInv(d)' BY <1>0, <1>1, <1>2, <2>1 DEF CallInv, Held
  <2>3. JobInv(d)' BY <1>0, <1>1, <1>2 DEF JobInv
  <2> QED BY <2>2, <2>3
<1> QED BY <1>4, <1>5, <1>6, <1>7

(* A step of the Node worker that writes nothing keeps the invariant if it *)
(* keeps that of its own job.                                              *)
LEMMA NodeStep ==
    ASSUME IInv, NEW c \in Calls, NEW record \in JobStates,
           job' = [job EXCEPT ![c] = record], record.pc # "none",
           job[c].pc \notin {"none", "over"},
           UNCHANGED databaseVars, NodeOnly, JobInv(c)'
    PROVE  OrderInv' /\ \A d \in Calls : CallInv(d)' /\ JobInv(d)'
<1>0. TypeOK /\ OrderInv /\ \A d \in Calls : CallInv(d) /\ JobInv(d) BY DEF IInv
<1>1. /\ intent' = intent /\ result' = result /\ holder' = holder /\ call' = call
      /\ sql' = sql /\ wire' = wire /\ creates' = creates
  BY DEF databaseVars, NodeOnly, journalVars
<1>2. up' = up BY DEF NodeOnly, processVars
<1>3. job'[c] = record /\ \A d \in Calls \ {c} : job'[d] = job[d] BY <1>0 DEF TypeOK
<1>4. OrderInv'
  <2>1. OneCreation' BY <1>0, <1>1 DEF OrderInv, OneCreation
  <2> QED BY <1>0, <1>1, <2>1 DEF OrderInv, Held
<1>5. CallInv(c)' BY <1>0, <1>1, <1>2, <1>3 DEF CallInv, Held
<1>6. ASSUME NEW d \in Calls \ {c} PROVE CallInv(d)' /\ JobInv(d)'
  <2>1. CallInv(d)' BY <1>0, <1>1, <1>2, <1>3 DEF CallInv, Held
  <2>2. JobInv(d)' BY <1>0, <1>1, <1>3 DEF JobInv
  <2> QED BY <2>1, <2>2
<1> QED BY <1>4, <1>5, <1>6

(* A step that takes no decision and leaves every call and job alone.      *)
LEMMA OutsideStep ==
    ASSUME IInv, UNCHANGED <<journalVars, holder, call, job, creates, up>>,
           wire' = wire \/ wire' = None,
           \/ sql' = sql
           \/ sql' # None /\ sql'.edits = intent /\ creates = 1
    PROVE  OrderInv' /\ \A d \in Calls : CallInv(d)' /\ JobInv(d)'
<1>0. TypeOK /\ OrderInv /\ \A d \in Calls : CallInv(d) /\ JobInv(d) BY DEF IInv
<1>1. /\ intent' = intent /\ result' = result /\ holder' = holder /\ call' = call
      /\ job' = job /\ creates' = creates /\ up' = up
  BY DEF journalVars
<1>2. sql # None => sql' # None BY <1>0 DEF OrderInv, OneCreation
<1>3. OrderInv'
  <2>1. OneCreation' BY <1>0, <1>1 DEF OrderInv, OneCreation
  <2> QED BY <1>0, <1>1, <1>2, <2>1 DEF OrderInv, Held
<1>4. ASSUME NEW d \in Calls PROVE CallInv(d)' /\ JobInv(d)'
  <2>1. CallInv(d)' BY <1>0, <1>1 DEF CallInv, Held
  <2>2. JobInv(d)' BY <1>0, <1>1, <1>2 DEF JobInv
  <2> QED BY <2>1, <2>2
<1> QED BY <1>3, <1>4

(* A first or repeated decision that takes the lock.                       *)
LEMMA AskStep ==
    ASSUME IInv, NEW c \in Calls, NEW reconcile \in BOOLEAN, NEW d \in Decisions,
           Ask(c, reconcile, d)
    PROVE  OrderInv' /\ \A e \in Calls : CallInv(e)' /\ JobInv(e)'
<1>0. TypeOK /\ OrderInv /\ \A e \in Calls : CallInv(e) /\ JobInv(e) BY DEF IInv
<1> DEFINE answer == Answered(reconcile, d)
<1>1. call[c].pc = "idle" /\ up /\ job[c].pc = "none" /\ ~call[c].create
  BY <1>0 DEF Ask, CallInv
<1>2. /\ result' = result /\ job' = job /\ sql' = sql /\ wire' = wire
      /\ creates' = creates /\ up' = up
  BY DEF Ask, databaseVars, processVars
<1>3. CASE answer # None
  <2>1. Reply(c, answer) /\ intent' = intent BY <1>3 DEF Ask
  <2> QED BY <1>0, <1>1, <1>2, <2>1, ReplyStep DEF databaseVars, OrderInv
<1>4. CASE answer = None
  <2> DEFINE record == [pc |-> IF IsRejection(d) THEN "rejecting" ELSE "submitting",
                        decision |-> d, create |-> AllowCreate, reply |-> None]
  <2>1. intent' = d /\ holder' = c /\ call' = [call EXCEPT ![c] = record]
    BY <1>4 DEF Ask
  <2>2. holder = None /\ result = None /\ (intent = None \/ intent = d)
    <3>1. "busy" # None /\ "conflict" # None /\ "unsubmitted" # None
      BY NoneIsFresh DEF Replies
    <3> QED BY <1>4, <3>1 DEF Answered, Conflicts
  <2>3. d # None BY NoneIsFresh DEF Decisions
  <2>4. /\ \/ call'[c].pc = "rejecting" /\ d = Reject
           \/ call'[c].pc = "submitting" /\ d # Reject
        /\ call'[c].decision = d /\ (call'[c].create <=> intent = None)
        /\ call'[c].reply = None
        /\ \A e \in Calls \ {c} : call'[e] = call[e]
    <3>1. call'[c] = record /\ \A e \in Calls \ {c} : call'[e] = call[e]
      BY <1>0, <2>1 DEF TypeOK
    <3>2. /\ \/ record.pc = "rejecting" /\ d = Reject
             \/ record.pc = "submitting" /\ d # Reject
          /\ record.decision = d /\ record.reply = None
      BY DEF IsRejection
    <3>3. record.create = AllowCreate OBVIOUS
    <3> HIDE DEF record
    <3>4. record.create <=> intent = None BY <3>3 DEF AllowCreate
    <3> QED BY <3>1, <3>2, <3>4
  <2>5. \A e \in Calls : ~Held(e) BY <1>0, <2>2, NoneIsFresh DEF CallInv
  <2>6. \A e \in Calls : intent = None => ~call[e].create /\ job[e].pc = "none"
    BY <1>0, NoneIsFresh DEF CallInv, JobInv, Decisions
  <2>7. intent = None => creates = 0 /\ sql = None /\ wire = None
    <3>1. intent = None => creates # 1
      BY <1>0, NoneIsFresh DEF OrderInv, Decisions
    <3> QED BY <1>0, <3>1 DEF OrderInv, OneCreation, TypeOK
  <2> HIDE DEF record
  <2>8. OrderInv'
    <3>1. OneCreation' BY <1>0, <1>2, <2>1, <2>2, <2>7 DEF OrderInv, OneCreation
    <3>2. Held(holder)' BY <2>1, <2>4 DEF Held
    <3>3. \A e, f \in Calls : call'[e].create /\ call'[f].create => e = f
      BY <1>0, <2>4, <2>6 DEF OrderInv
    <3>4. creates' = 1 => intent' \in Edits BY <1>0, <1>2, <2>1, <2>2, <2>7 DEF OrderInv
    <3>5. result' # "created" /\ result' # "rejected" /\ result' = None
      BY <1>2, <2>2, NoneIsFresh DEF Results
    <3> QED BY <2>1, <3>1, <3>2, <3>3, <3>4, <3>5 DEF OrderInv
  <2>9. CallInv(c)'
    <3>1. None # "blocked" /\ result' = None /\ holder' = c /\ up' /\ job'[c].pc = "none"
      BY <1>1, <1>2, <2>1, <2>2, NoneIsFresh DEF Results
    <3>2. intent' = call'[c].decision /\ intent' # None BY <2>1, <2>3, <2>4
    <3> QED BY <2>4, <3>1, <3>2 DEF CallInv, Held
  <2>10. JobInv(c)'
    BY <1>0, <1>1, <1>2, <2>4, <2>7, NoneIsFresh DEF JobInv, Answers
  <2>11. ASSUME NEW e \in Calls \ {c} PROVE CallInv(e)' /\ JobInv(e)'
    <3>1. CallInv(e)'
      BY <1>0, <1>2, <2>1, <2>2, <2>3, <2>4, <2>5, <2>6 DEF CallInv, Held
    <3>2. JobInv(e)' BY <1>0, <1>2, <2>1, <2>2, <2>4, <2>6 DEF JobInv
    <3> QED BY <3>1, <3>2
  <2> QED BY <2>8, <2>9, <2>10, <2>11
<1> QED BY <1>3, <1>4

(* A job that ends with a true answer keeps the invariant.                 *)
LEMMA JobAnswers ==
    ASSUME IInv, NEW c \in Calls, NEW answer \in Answers \cup {None}, Answer(c, answer),
           job[c].pc \notin {"none", "over"}, UNCHANGED databaseVars, NodeOnly,
           answer = "record" => sql # None,
           answer = "unattempted" /\ call[c].create => creates = 0
    PROVE  OrderInv' /\ \A d \in Calls : CallInv(d)' /\ JobInv(d)'
<1> DEFINE record == [pc |-> "over", answer |-> answer]
<1>0. TypeOK /\ JobInv(c) BY DEF IInv
<1>1. record \in JobStates BY DEF JobStates
<1>2. job' = [job EXCEPT ![c] = record] BY DEF Answer
<1>3. job'[c].pc = "over" /\ job'[c].answer = answer BY <1>0, <1>2 DEF TypeOK
<1>4. call' = call /\ intent' = intent /\ sql' = sql /\ creates' = creates
  BY DEF NodeOnly, journalVars, databaseVars
<1>5. JobInv(c)' BY <1>0, <1>3, <1>4 DEF JobInv
<1> QED BY <1>1, <1>2, <1>5, NodeStep

(* A job that is read, or goes on to the write if its call may create.     *)
LEMMA JobGoes ==
    ASSUME IInv, NEW c \in Calls, NEW pc \in {"reading", "staging", "creating"}, Goto(c, pc),
           job[c].pc \in {"sent", "reading", "staging"}, UNCHANGED databaseVars, NodeOnly,
           pc = "reading" \/ call[c].create
    PROVE  OrderInv' /\ \A d \in Calls : CallInv(d)' /\ JobInv(d)'
<1> DEFINE record == [pc |-> pc, answer |-> job[c].answer]
<1>0. TypeOK /\ JobInv(c) /\ job[c] \in JobStates BY DEF IInv, TypeOK
<1>1. record \in JobStates BY <1>0 DEF JobStates
<1>2. job' = [job EXCEPT ![c] = record]
  <2>1. [job[c] EXCEPT !.pc = pc] = record BY <1>0 DEF JobStates
  <2>2. job' = [job EXCEPT ![c] = [job[c] EXCEPT !.pc = pc]] BY <1>0 DEF Goto, TypeOK
  <2> QED BY <2>1, <2>2
<1>3. job'[c].pc = pc /\ job'[c].answer = job[c].answer BY <1>0, <1>2 DEF TypeOK
<1>4. call' = call /\ intent' = intent /\ sql' = sql /\ creates' = creates
  BY DEF NodeOnly, journalVars, databaseVars
<1>5. job[c].answer = None BY <1>0 DEF JobInv
<1>6. JobInv(c)' BY <1>0, <1>3, <1>4, <1>5, NoneIsFresh DEF JobInv, Answers
<1> QED BY <1>1, <1>2, <1>6, NodeStep

(* A readback that matches the approval finds a row.                       *)
LEMMA RowIsThere == ASSUME NEW e \in Edits, ReadBack(e) PROVE sql # None
<1>1. [edits |-> e, draft |-> TRUE] \in [edits : Edits, draft : BOOLEAN] OBVIOUS
<1>2. None \notin [edits : Edits, draft : BOOLEAN] BY ConstantsAssumption, Zenon
<1> QED BY <1>1, <1>2, Zenon DEF ReadBack

(* Every step keeps the invariant.                                         *)
LEMMA InvStep == IInv /\ [Next]_vars => OrderInv' /\ \A e \in Calls : CallInv(e)' /\ JobInv(e)'
<1> SUFFICES ASSUME IInv, [Next]_vars
             PROVE  OrderInv' /\ \A e \in Calls : CallInv(e)' /\ JobInv(e)'
  OBVIOUS
<1> DEFINE Goal == OrderInv' /\ \A e \in Calls : CallInv(e)' /\ JobInv(e)'
<1>0. TypeOK /\ OrderInv /\ \A e \in Calls : CallInv(e) /\ JobInv(e) BY DEF IInv
<1>1. ASSUME NEW c \in Calls, NEW reconcile \in BOOLEAN, NEW d \in Decisions,
             Ask(c, reconcile, d)
      PROVE  Goal
  BY <1>1, AskStep
<1>2. ASSUME NEW c \in Calls, OpenSourcesFails(c) PROVE Goal
  <2>1. Reply(c, "refused") /\ UNCHANGED <<intent, result, job, databaseVars, up>>
    BY <1>2 DEF OpenSourcesFails, journalVars, processVars
  <2> QED BY <1>0, <2>1, ReplyStep DEF OrderInv
<1>3. ASSUME NEW c \in Calls, GiveUp(c) PROVE Goal
  <2>1. Reply(c, "uncertain") /\ UNCHANGED <<intent, result, job, databaseVars, up>>
    BY <1>3 DEF GiveUp, journalVars, processVars
  <2> QED BY <1>0, <2>1, ReplyStep DEF OrderInv
<1>4. ASSUME NEW c \in Calls, SaveRejection(c) PROVE Goal
  <2>1. Reply(c, "rejected") /\ UNCHANGED <<intent, job, databaseVars, up>> /\ result' = "rejected"
    BY <1>4 DEF SaveRejection, processVars
  <2>2. Held(c) /\ intent = Reject BY <1>0, <1>4 DEF SaveRejection, CallInv, Held
  <2> QED BY <2>1, <2>2, ReplyStep, NoneIsFresh
<1>5. ASSUME NEW c \in Calls, Receive(c) PROVE Goal
  <2>1. Held(c) /\ intent # None /\ intent # Reject BY <1>0, <1>5 DEF Receive, CallInv, Held
  <2>2. UNCHANGED <<intent, job, databaseVars, up>> BY <1>5 DEF Receive, processVars
  <2>3. CASE job[c].answer = "record" /\ result' = "created" /\ Reply(c, "created")
    BY <1>0, <2>1, <2>2, <2>3, ReplyStep DEF JobInv
  <2>4. CASE job[c].answer = "unattempted" /\ result' = "blocked" /\ Reply(c, "blocked")
    <3>1. call[c].create => creates = 0 /\ job[c].pc = "over"
      BY <1>0, <1>5, <2>4 DEF JobInv, Receive
    <3> QED BY <2>1, <2>2, <2>4, <3>1, ReplyStep
  <2>5. CASE Reply(c, "uncertain") /\ result' = result
    BY <1>0, <2>1, <2>2, <2>5, ReplyStep DEF OrderInv
  <2> QED BY <1>5, <2>3, <2>4, <2>5 DEF Receive
<1>6. ASSUME NEW c \in Calls, Submit(c) PROVE Goal
  <2>1. /\ call[c].pc = "submitting" /\ job[c].pc = "none"
        /\ intent = call[c].decision /\ intent # None /\ intent # Reject
        /\ holder = c /\ up /\ result = None
    BY <1>0, <1>6 DEF Submit, CallInv, Held
  <2>2. intent \in Edits BY <1>0, <2>1 DEF TypeOK, Decisions
  <2>3. UNCHANGED <<intent, result, holder, databaseVars, up>>
    BY <1>6 DEF Submit, journalVars, processVars
  <2>4. /\ call'[c].pc = "awaiting" /\ call'[c].decision = call[c].decision
        /\ call'[c].create = call[c].create /\ call'[c].reply = call[c].reply
        /\ job'[c].pc = "sent" /\ job'[c].answer = job[c].answer
        /\ \A d \in Calls \ {c} : call'[d] = call[d] /\ job'[d] = job[d]
    BY <1>0, <1>6 DEF Submit, TypeOK, CallStates, JobStates
  <2>5. OrderInv'
    <3>1. OneCreation' BY <1>0, <2>3 DEF OrderInv, OneCreation, databaseVars
    <3>2. Held(holder)' BY <2>1, <2>3, <2>4 DEF Held
    <3>3. \A d, e \in Calls : call'[d].create /\ call'[e].create => d = e
      BY <1>0, <2>4 DEF OrderInv
    <3> QED BY <1>0, <2>3, <3>1, <3>2, <3>3 DEF OrderInv, databaseVars
  <2>6. CallInv(c)'
    BY <1>0, <2>1, <2>3, <2>4 DEF CallInv, Held
  <2>7. JobInv(c)'
    <3>1. job[c].answer = None BY <1>0, <2>1 DEF JobInv
    <3>2. call[c].create => creates = 0 BY <1>0, <2>1 DEF JobInv
    <3> QED BY <2>1, <2>2, <2>3, <2>4, <3>1, <3>2, NoneIsFresh DEF JobInv, Answers, databaseVars
  <2>8. ASSUME NEW d \in Calls \ {c} PROVE CallInv(d)' /\ JobInv(d)'
    <3>1. CallInv(d)' BY <1>0, <2>3, <2>4 DEF CallInv, Held, databaseVars
    <3>2. JobInv(d)' BY <1>0, <2>3, <2>4 DEF JobInv, databaseVars
    <3> QED BY <3>1, <3>2
  <2> QED BY <2>5, <2>6, <2>7, <2>8
<1>7. ASSUME NEW c \in Calls,
             \/ Read(c) \/ FindExisting(c) \/ FailsBeforeWrite(c)
             \/ Stage(c) \/ CheckCreated(c) \/ JobLost(c)
      PROVE  Goal
  <2>1. UNCHANGED databaseVars /\ NodeOnly /\ job[c].pc \notin {"none", "over"}
    BY <1>7 DEF Read, FindExisting, FailsBeforeWrite, Stage, CheckCreated, JobLost
  <2>2. call[c].decision \in Edits BY <1>0, <2>1 DEF JobInv
  <2>3. CASE Answer(c, "record") /\ ReadBack(call[c].decision)
    BY <2>1, <2>2, <2>3, RowIsThere, JobAnswers DEF Answers
  <2>4. CASE Answer(c, "unattempted") /\ job[c].pc \in {"reading", "staging"}
    BY <1>0, <2>1, <2>4, JobAnswers DEF Answers, JobInv
  <2>5. CASE Answer(c, "unconfirmed") BY <2>1, <2>5, JobAnswers DEF Answers
  <2>6. CASE Answer(c, None) BY <2>1, <2>6, JobAnswers, NoneIsFresh DEF Answers
  <2>7. CASE Goto(c, "staging") /\ job[c].pc = "reading" /\ call[c].create
    BY <2>1, <2>7, JobGoes
  <2>8. CASE Stage(c)
    <3>1. call[c].create BY <1>0, <2>8 DEF Stage, JobInv
    <3> QED BY <2>1, <2>8, <3>1, JobGoes DEF Stage
  <2>9. CASE Read(c) BY <2>1, <2>9, JobGoes DEF Read
  <2> QED
    BY <1>7, <2>3, <2>4, <2>5, <2>6, <2>7, <2>8, <2>9
    DEF FindExisting, FailsBeforeWrite, CheckCreated, JobLost, Doubt, MayWrite
<1>8. ASSUME NEW c \in Calls, Create(c) PROVE Goal
  <2>1. /\ job[c].pc = "creating" /\ call[c].create /\ creates = 0
        /\ call[c].decision = intent /\ intent \in Edits /\ job[c].answer = None
    BY <1>0, <1>8 DEF Create, JobInv
  <2>2. /\ intent' = intent /\ result' = result /\ holder' = holder /\ call' = call
        /\ sql' = sql /\ up' = up /\ wire' = intent /\ creates' = 1
    BY <1>8, <2>1 DEF Create, NodeOnly, journalVars, processVars
  <2>3. /\ job'[c].pc = "checking" /\ job'[c].answer = None
        /\ \A d \in Calls \ {c} : job'[d] = job[d]
    BY <1>0, <1>8, <2>1 DEF Create, Goto, TypeOK, JobStates
  <2>4. sql = None BY <1>0, <2>1 DEF OrderInv, OneCreation
  <2>5. \A d \in Calls \ {c} : ~call[d].create BY <1>0, <2>1 DEF OrderInv
  <2>6. OrderInv'
    <3>1. OneCreation' BY <2>2, <2>4 DEF OneCreation
    <3> QED BY <1>0, <2>1, <2>2, <3>1 DEF OrderInv, Held
  <2>7. CallInv(c)' BY <1>0, <2>1, <2>2, <2>3 DEF CallInv, Held
  <2>8. JobInv(c)' BY <2>1, <2>2, <2>3, NoneIsFresh DEF JobInv, Answers
  <2>9. ASSUME NEW d \in Calls \ {c} PROVE CallInv(d)' /\ JobInv(d)'
    <3>1. CallInv(d)' BY <1>0, <2>2, <2>3, <2>5 DEF CallInv, Held
    <3>2. JobInv(d)' BY <1>0, <2>2, <2>3, <2>5 DEF JobInv
    <3> QED BY <3>1, <3>2
  <2> QED BY <2>6, <2>7, <2>8, <2>9
<1>9. CASE Commit \/ LoseMutation \/ WorkOn \/ Expire \/ UNCHANGED vars
  <2>1. UNCHANGED <<journalVars, holder, call, job, creates, up>>
    BY <1>9 DEF Commit, LoseMutation, WorkOn, Expire, vars, processVars, databaseVars
  <2>2. wire' = wire \/ wire' = None
    BY <1>9 DEF Commit, LoseMutation, WorkOn, Expire, vars, databaseVars
  <2>3. CASE sql' = sql BY <2>1, <2>2, <2>3, OutsideStep
  <2>4. CASE Commit /\ sql = None
    <3>1. wire # None /\ sql' = [edits |-> wire, draft |-> TRUE] BY <2>4, Zenon DEF Commit
    <3>2. wire = intent /\ intent \in Edits /\ creates = 1
      BY <1>0, <3>1 DEF OrderInv, OneCreation
    <3>3. sql' \in [edits : Edits, draft : BOOLEAN] /\ sql'.edits = intent BY <3>1, <3>2
    <3>4. sql' # None BY <3>3, ConstantsAssumption, Zenon
    <3> QED BY <2>1, <2>2, <3>2, <3>3, <3>4, OutsideStep
  <2>5. CASE WorkOn
    <3>1. /\ sql \in [edits : Edits, draft : BOOLEAN] /\ sql.edits = intent /\ creates = 1
      BY <1>0, <2>5 DEF WorkOn, TypeOK, OrderInv, OneCreation
    <3>2. sql' = [sql EXCEPT !.draft = FALSE] BY <2>5 DEF WorkOn
    <3>3. sql'.edits = intent BY <3>1, <3>2
    <3>4. sql' \in [edits : Edits, draft : BOOLEAN] BY <3>1, <3>2
    <3>5. sql' # None BY <3>4, ConstantsAssumption, Zenon
    <3> QED BY <2>1, <2>2, <3>1, <3>3, <3>5, OutsideStep
  <2> QED
    BY <1>9, <2>3, <2>4, <2>5 DEF Commit, LoseMutation, Expire, vars, databaseVars
<1>10. CASE Restart
  <2>1. /\ ~up /\ intent' = intent /\ result' = result /\ holder' = holder /\ call' = call
        /\ job' = job /\ sql' = sql /\ wire' = wire /\ creates' = creates
    BY <1>10 DEF Restart, journalVars, databaseVars
  <2>2. \A d \in Calls : ~Held(d) BY <1>0, <2>1 DEF CallInv
  <2>3. OrderInv'
    <3>1. OneCreation' BY <1>0, <2>1 DEF OrderInv, OneCreation
    <3> QED BY <1>0, <2>1, <3>1 DEF OrderInv, Held
  <2>4. ASSUME NEW d \in Calls PROVE CallInv(d)' /\ JobInv(d)'
    <3>1. CallInv(d)' BY <1>0, <2>1, <2>2 DEF CallInv, Held
    <3>2. JobInv(d)' BY <1>0, <2>1 DEF JobInv
    <3> QED BY <3>1, <3>2
  <2> QED BY <2>3, <2>4
<1>11. CASE Crash
  <2>1. /\ intent' = intent /\ result' = result /\ holder' = None /\ job' = job
        /\ sql' = sql /\ wire' = wire /\ creates' = creates
    BY <1>11 DEF Crash, journalVars, databaseVars
  <2>2. \A d \in Calls :
           /\ call'[d].pc \in {"idle", "done"}
           /\ call'[d].pc = "idle" => call[d].pc = "idle"
           /\ call'[d].decision = call[d].decision
           /\ call'[d].create = call[d].create
           /\ call'[d].reply = "blocked" => call[d].reply = "blocked"
    <3>1. ASSUME NEW d \in Calls
          PROVE  call'[d] = IF call[d].pc \in {"idle", "done"} THEN call[d]
                            ELSE [call[d] EXCEPT !.pc = "done", !.reply = "lost"]
      <4>1. call' = [c \in Calls |->
                       IF call[c].pc \in {"idle", "done"} THEN call[c]
                       ELSE [call[c] EXCEPT !.pc = "done", !.reply = "lost"]]
        BY <1>11, Zenon DEF Crash
      <4> QED BY <4>1
    <3>2. ASSUME NEW d \in Calls
          PROVE  LET lost == [call[d] EXCEPT !.pc = "done", !.reply = "lost"]
                 IN  /\ lost.pc = "done" /\ lost.reply = "lost"
                     /\ lost.decision = call[d].decision /\ lost.create = call[d].create
      BY <1>0 DEF TypeOK, CallStates
    <3> QED BY <3>1, <3>2
  <2>3. OrderInv'
    <3>1. OneCreation' BY <1>0, <2>1 DEF OrderInv, OneCreation
    <3>2. \A d, e \in Calls : call'[d].create /\ call'[e].create => d = e
      BY <1>0, <2>2 DEF OrderInv
    <3> QED BY <1>0, <2>1, <3>1, <3>2 DEF OrderInv
  <2>4. ASSUME NEW d \in Calls PROVE CallInv(d)' /\ JobInv(d)'
    <3>1. ~Held(d)' BY <2>2 DEF Held
    <3>2. CallInv(d)' BY <1>0, <2>1, <2>2, <3>1 DEF CallInv
    <3>3. JobInv(d)' BY <1>0, <2>1, <2>2 DEF JobInv
    <3> QED BY <3>2, <3>3
  <2> QED BY <2>3, <2>4
<1> QED
  BY <1>1, <1>2, <1>3, <1>4, <1>5, <1>6, <1>7, <1>8, <1>9, <1>10, <1>11 DEF Next, Python, Node

(* The invariant that the theorems below rest on.                          *)
LEMMA Inductive == Spec => []IInv
<1>1. Init => IInv
  <2> SUFFICES ASSUME Init PROVE IInv OBVIOUS
  <2>1. TypeOK
    <3>1. [pc |-> "idle", decision |-> None, create |-> FALSE, reply |-> None] \in CallStates
      BY DEF CallStates
    <3>2. [pc |-> "none", answer |-> None] \in JobStates BY DEF JobStates
    <3>3. up \in BOOLEAN /\ enabled \in BOOLEAN /\ expired \in BOOLEAN BY DEF Init
    <3>4. call \in [Calls -> CallStates] /\ job \in [Calls -> JobStates]
      BY <3>1, <3>2 DEF Init
    <3> QED BY <3>3, <3>4 DEF Init, TypeOK
  <2>2. OrderInv BY NoneIsFresh DEF Init, OrderInv, OneCreation, Results
  <2>3. ASSUME NEW c \in Calls PROVE CallInv(c) /\ JobInv(c)
    <3>1. /\ call[c].pc = "idle" /\ call[c].create = FALSE
          /\ job[c].pc = "none" /\ job[c].answer = None
      BY DEF Init
    <3> QED BY <3>1, NoneIsFresh DEF CallInv, JobInv, Held, Answers
  <2> QED BY <2>1, <2>2, <2>3 DEF IInv
<1>2. IInv /\ [Next]_vars => IInv'
  <2>1. IInv /\ [Next]_vars => TypeOK' BY TypeStep
  <2>2. IInv /\ [Next]_vars => OrderInv' /\ \A c \in Calls : CallInv(c)' /\ JobInv(c)'
    BY InvStep
  <2> QED BY <2>1, <2>2 DEF IInv
<1> QED BY <1>1, <1>2, PTL DEF Spec

(* Types are kept for any number of calls: every reply, receipt and job    *)
(* state is one the code names.                                            *)
THEOREM TypeCorrect == Spec => []TypeOK
<1>1. IInv => TypeOK BY DEF IInv
<1> QED BY <1>1, Inductive, PTL

(* However many calls decide, retry and reconcile a card, submitApproved-  *)
(* WorkOrder sends one create mutation at most, with the approved fields.  *)
THEOREM AtMostOneCreation == Spec => []OneCreation
<1>1. IInv => OneCreation BY DEF IInv, OrderInv
<1> QED BY <1>1, Inductive, PTL

(* The receipt decide_work_order saves, and the blocked answer of the call *)
(* that was allowed to create, say what happened in the database.          *)
THEOREM ReceiptsStayTrue == Spec => []ReceiptsAreTrue
<1>1. IInv => ReceiptsAreTrue
  <2> SUFFICES ASSUME IInv PROVE ReceiptsAreTrue OBVIOUS
  <2>0. TypeOK /\ OrderInv /\ \A c \in Calls : CallInv(c) BY DEF IInv
  <2>1. result = "created" => sql # None /\ sql.edits = intent
    BY <2>0 DEF OrderInv, OneCreation
  <2>2. result = "rejected" => intent = Reject /\ creates = 0
    BY <2>0, NoneIsFresh DEF OrderInv, OneCreation, TypeOK
  <2>3. \A c \in Calls : call[c].create /\ call[c].reply = "blocked" => creates = 0
    BY <2>0 DEF CallInv
  <2> QED BY <2>1, <2>2, <2>3 DEF ReceiptsAreTrue
<1> QED BY <1>1, Inductive, PTL

(* Every step of the implementation is one of the card, or leaves it alone. *)
LEMMA CardStep == IInv /\ [Next]_vars => [Card!Next]_Card!vars
<1> SUFFICES ASSUME IInv, [Next]_vars PROVE [Card!Next]_Card!vars
  OBVIOUS
<1>0. TypeOK /\ OrderInv /\ \A c \in Calls : CallInv(c) /\ JobInv(c) BY DEF IInv
<1>1. CASE UNCHANGED <<intent, result, sql>>
  BY <1>1 DEF Card!vars
<1>2. ASSUME NEW c \in Calls, NEW reconcile \in BOOLEAN, NEW d \in Decisions,
             Ask(c, reconcile, d)
      PROVE  [Card!Next]_Card!vars
  <2>1. result' = result /\ sql' = sql BY <1>2 DEF Ask, databaseVars
  <2>2. CASE intent' = intent BY <1>1, <2>1, <2>2
  <2>3. CASE intent' # intent
    <3>1. intent = None /\ intent' = d
      <4>1. "busy" # None /\ "conflict" # None /\ "unsubmitted" # None
        BY NoneIsFresh DEF Replies
      <4>2. Answered(reconcile, d) = None /\ intent' = d BY <1>2, <2>3 DEF Ask
      <4> QED BY <2>3, <4>1, <4>2 DEF Answered, Conflicts
    <3>2. Card!Judge BY <2>1, <3>1 DEF Card!Judge, Decisions
    <3> QED BY <3>2 DEF Card!Next
  <2> QED BY <2>2, <2>3
<1>3. ASSUME NEW c \in Calls, SaveRejection(c) PROVE [Card!Next]_Card!vars
  <2>1. intent = Reject /\ result = None BY <1>0, <1>3 DEF SaveRejection, CallInv, Held
  <2>2. result' = "rejected" /\ intent' = intent /\ sql' = sql
    BY <1>3 DEF SaveRejection, databaseVars
  <2>3. Card!Certify BY <2>1, <2>2 DEF Card!Certify
  <2> QED BY <2>3 DEF Card!Next
<1>4. ASSUME NEW c \in Calls, Receive(c) PROVE [Card!Next]_Card!vars
  <2>1. intent \in Edits /\ result = None
    BY <1>0, <1>4 DEF Receive, CallInv, Held, TypeOK, Decisions
  <2>2. intent' = intent /\ sql' = sql BY <1>4 DEF Receive, databaseVars
  <2>3. CASE result' = result BY <1>1, <2>2, <2>3
  <2>4. CASE result' = "created" /\ job[c].answer = "record"
    <3>1. sql # None /\ sql.edits = intent
      BY <1>0, <2>4 DEF JobInv, OrderInv, OneCreation
    <3>2. Card!Certify BY <2>1, <2>2, <2>4, <3>1 DEF Card!Certify
    <3> QED BY <3>2 DEF Card!Next
  <2>5. CASE result' = "blocked"
    <3>1. Card!Certify BY <2>1, <2>2, <2>5 DEF Card!Certify
    <3> QED BY <3>1 DEF Card!Next
  <2> QED BY <1>4, <2>3, <2>4, <2>5 DEF Receive
<1>5. CASE Commit
  <2>1. wire # None /\ intent' = intent /\ result' = result BY <1>5 DEF Commit, journalVars
  <2>2. wire = intent /\ intent \in Edits BY <1>0, <2>1 DEF OrderInv, OneCreation, TypeOK
  <2>3. CASE sql # None
    <3>1. sql' = sql BY <1>5, <2>3, Zenon DEF Commit
    <3> QED BY <1>1, <2>1, <3>1
  <2>4. CASE sql = None
    <3>1. sql' = [edits |-> wire, draft |-> TRUE] BY <1>5, <2>4, Zenon DEF Commit
    <3>2. sql' \in [edits : Edits, draft : BOOLEAN] /\ sql'.edits = intent BY <2>2, <3>1
    <3>3. sql' # None BY <3>2, ConstantsAssumption, Zenon
    <3>4. Card!Perform BY <2>1, <2>2, <2>4, <3>2, <3>3 DEF Card!Perform
    <3> QED BY <3>4 DEF Card!Next
  <2> QED BY <2>3, <2>4
<1>6. CASE WorkOn
  <2>1. sql \in [edits : Edits, draft : BOOLEAN] BY <1>0, <1>6 DEF WorkOn, TypeOK
  <2>2. sql' = [sql EXCEPT !.draft = FALSE] /\ sql # None BY <1>6 DEF WorkOn
  <2>3. sql'.edits = sql.edits BY <2>1, <2>2
  <2>4. sql' \in [edits : Edits, draft : BOOLEAN] BY <2>1, <2>2
  <2>5. sql' # None BY <2>4, ConstantsAssumption, Zenon
  <2>6. intent' = intent /\ result' = result BY <1>6 DEF WorkOn, journalVars
  <2> QED BY <2>2, <2>3, <2>5, <2>6 DEF Card!vars
<1>7. ASSUME NEW c \in Calls,
             OpenSourcesFails(c) \/ Submit(c) \/ GiveUp(c) \/ Node(c)
      PROVE  UNCHANGED <<intent, result, sql>>
  BY <1>7
  DEF OpenSourcesFails, Submit, GiveUp, Node, Read, FindExisting, FailsBeforeWrite, Stage, Create,
      CheckCreated, JobLost, NodeOnly, journalVars, databaseVars
<1>8. CASE LoseMutation \/ Crash \/ Restart \/ Expire \/ UNCHANGED vars
  <2>1. UNCHANGED <<intent, result, sql>>
    BY <1>8 DEF LoseMutation, Crash, Restart, Expire, vars, journalVars, databaseVars
  <2> QED BY <1>1, <2>1
<1> QED
  BY <1>1, <1>2, <1>3, <1>4, <1>5, <1>6, <1>7, <1>8 DEF Next, Python

(* The journalled decision, the SQL row and the saved receipt behave as    *)
(* WorkOrderCard says, whatever the process, Node and the database do.     *)
THEOREM DecisionKeepsCard == Spec => KeepsCard
<1>1. Init => Card!Init BY DEF Init, Card!Init
<1> QED BY <1>1, CardStep, Inductive, PTL DEF Spec, KeepsCard, Card!Spec

============================================================================
