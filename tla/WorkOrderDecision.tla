-------------------------- MODULE WorkOrderDecision --------------------------
(***************************************************************************)
(* The human decision on one hosted work-order card: the decide and        *)
(* reconcile operations (service.py, live_sources.py), the Node submission *)
(* they wait for (local-fabric-sources.mjs) and the SQL database.          *)
(*                                                                         *)
(* `intent' and `result' are the two write-once journal receipts of the    *)
(* card and survive a crash.  `job' is the Node worker's memory: a job     *)
(* outlives the Python call that waits for it, at most 75 s, and may even  *)
(* outlive the Python process, whose exit only closes its input.           *)
(***************************************************************************)
EXTENDS Naturals, FiniteSets

CONSTANTS
    Calls,       \* HTTP invocations about the card
    Edits,       \* field values an operator may approve
    Reject,      \* the other decision
    None,        \* no receipt, no row, no caller
    MaxCrashes   \* bound of the checked instances

Decisions == Edits \cup {Reject}
Results == {"rejected", "created", "blocked"}
Replies == Results \cup {"busy", "unsubmitted", "conflict", "disabled", "expired",
                         "refused", "uncertain", "lost"}
Answers == {"record", "unattempted", "unconfirmed"}

ASSUME ConstantsAssumption ==
    /\ Reject \notin Edits
    /\ None \notin Decisions \cup Calls \cup Results \cup Replies \cup Answers
    /\ None \notin [edits : Edits, draft : BOOLEAN]
    /\ MaxCrashes \in Nat

CallStates == [pc : {"idle", "rejecting", "submitting", "awaiting", "done"},
               decision : Decisions \cup {None}, create : BOOLEAN,
               reply : Replies \cup {None}]
JobStates == [pc : {"none", "sent", "reading", "staging", "creating", "checking", "over"},
              answer : Answers \cup {None}]

VARIABLES
    intent, result,     \* receipts approval:<id>:intent and approval:<id>:result
    holder,             \* call that holds approval-<id>.lock
    call, job,
    sql,                \* row whose id is the card's creation id
    wire,               \* create mutation sent to the database, outcome open
    creates,            \* create mutations ever sent
    up, enabled,        \* process; its production_writes_enabled
    expired,            \* draft.expires_at has passed
    crashes

journalVars == <<intent, result>>
databaseVars == <<sql, wire, creates>>
processVars == <<up, enabled, crashes>>
vars == <<journalVars, holder, call, job, databaseVars, processVars, expired>>

Init ==
    /\ intent = None /\ result = None
    /\ holder = None
    /\ call = [c \in Calls |-> [pc |-> "idle", decision |-> None,
                                create |-> FALSE, reply |-> None]]
    /\ job = [c \in Calls |-> [pc |-> "none", answer |-> None]]
    /\ sql = None /\ wire = None /\ creates = 0
    /\ up = TRUE /\ enabled \in BOOLEAN /\ crashes = 0
    /\ expired = FALSE

-----------------------------------------------------------------------------
(* decide_work_order, up to its first await.                               *)

AlwaysCreate == TRUE   \* mutant: reconciliation repeats the write
AllowCreate == intent = None

AnyDecision(d) == FALSE   \* mutant: a later decision replaces the first
Conflicts(d) == intent # None /\ intent # d

IsRejection(d) == d = Reject

\* Answers given at once, in the order the code checks for them.
Answered(reconcile, d) ==
    IF holder # None THEN "busy"
    ELSE IF reconcile /\ intent = None THEN "unsubmitted"
    ELSE IF Conflicts(d) THEN "conflict"
    ELSE IF result # None THEN result
    ELSE IF ~IsRejection(d) /\ ~enabled THEN "disabled"
    ELSE IF ~IsRejection(d) /\ intent = None /\ expired THEN "expired"
    ELSE None

Reply(c, reply) ==
    /\ call' = [call EXCEPT ![c].pc = "done", ![c].reply = reply]
    /\ holder' = IF holder = c THEN None ELSE holder

Ask(c, reconcile, d) ==
    /\ up
    /\ call[c].pc = "idle"
    /\ LET answer == Answered(reconcile, d)
       IN  IF answer # None
           THEN Reply(c, answer) /\ UNCHANGED intent
           ELSE /\ intent' = d
                /\ holder' = c
                /\ call' = [call EXCEPT ![c] =
                      [pc |-> IF IsRejection(d) THEN "rejecting" ELSE "submitting",
                       decision |-> d, create |-> AllowCreate, reply |-> None]]
    /\ UNCHANGED <<result, job, databaseVars, processVars, expired>>

\* An approval opens its sources first: sign-in, discovery, source identity.
OpenSourcesFails(c) ==
    /\ up /\ enabled
    /\ call[c].pc = "idle"
    /\ Reply(c, "refused")
    /\ UNCHANGED <<journalVars, job, databaseVars, processVars, expired>>

SaveRejection(c) ==
    /\ call[c].pc = "rejecting"
    /\ result' = "rejected"
    /\ Reply(c, "rejected")
    /\ UNCHANGED <<intent, job, databaseVars, processVars, expired>>

-----------------------------------------------------------------------------
(* FabricBackendTools.approve and the bridge call.                         *)

\* Token acquisition is an await: the process may also exit before Submit.
Submit(c) ==
    /\ call[c].pc = "submitting"
    /\ call' = [call EXCEPT ![c].pc = "awaiting"]
    /\ job' = [job EXCEPT ![c].pc = "sent"]
    /\ UNCHANGED <<journalVars, holder, databaseVars, processVars, expired>>

GiveUpUnsent(c) ==   \* mutant: no call_timeout on the bridge
    /\ call[c].pc = "submitting"
    /\ Reply(c, "uncertain")
    /\ UNCHANGED <<journalVars, job, databaseVars, processVars, expired>>

\* No token, a lost worker, call_timeout, a readback that fails the Python
\* contract or a receipt that cannot be saved: nothing more is known.
GiveUp(c) ==
    /\ call[c].pc \in {"submitting", "awaiting"}
    /\ Reply(c, "uncertain")
    /\ UNCHANGED <<journalVars, job, databaseVars, processVars, expired>>

\* call_timeout begins once stdin is drained: the worker has read the request.
Timeout(c) ==
    /\ call[c].pc = "awaiting" /\ job[c].pc # "sent"
    /\ GiveUp(c)

Receive(c) ==
    /\ call[c].pc = "awaiting"
    /\ job[c].pc = "over"
    /\ \/ job[c].answer = "record" /\ result' = "created" /\ Reply(c, "created")
       \/ job[c].answer = "unattempted" /\ result' = "blocked" /\ Reply(c, "blocked")
       \/ job[c].answer \in {"unconfirmed", None} /\ Reply(c, "uncertain") /\ UNCHANGED result
    /\ UNCHANGED <<intent, job, databaseVars, processVars, expired>>

-----------------------------------------------------------------------------
(* submitApprovedWorkOrder, one job per bridge call.                       *)

Goto(c, pc) == job' = [job EXCEPT ![c].pc = pc]
Answer(c, answer) == job' = [job EXCEPT ![c] = [pc |-> "over", answer |-> answer]]
NodeOnly == UNCHANGED <<journalVars, holder, call, processVars, expired>>

\* serve: the request is read from the worker's stdin.
Read(c) ==
    /\ job[c].pc = "sent"
    /\ Goto(c, "reading")
    /\ UNCHANGED databaseVars /\ NodeOnly

ReadBack(e) == sql = [edits |-> e, draft |-> TRUE]

MayWrite(c) == sql = None /\ call[c].create

\* Before writeAttempted is set, every failure is reported as unattempted.
FindExisting(c) ==
    /\ job[c].pc = "reading"
    /\ IF ReadBack(call[c].decision) THEN Answer(c, "record")
       ELSE IF MayWrite(c) THEN Goto(c, "staging")
       ELSE Answer(c, "unattempted")
    /\ UNCHANGED databaseVars /\ NodeOnly

\* Sign-in or a source read fails, or open work already has this title.
FailsBeforeWrite(c) ==
    /\ job[c].pc \in {"reading", "staging"}
    /\ Answer(c, "unattempted")
    /\ UNCHANGED databaseVars /\ NodeOnly

Stage(c) ==
    /\ job[c].pc = "staging"
    /\ Goto(c, "creating")
    /\ UNCHANGED databaseVars /\ NodeOnly

Create(c) ==
    /\ job[c].pc = "creating"
    /\ wire' = call[c].decision
    /\ creates' = creates + 1
    /\ Goto(c, "checking")
    /\ UNCHANGED sql /\ NodeOnly

\* Acknowledged or not, a readback decides; without a match nothing is known.
Doubt == "unconfirmed"
CheckCreated(c) ==
    /\ job[c].pc = "checking"
    /\ \/ ReadBack(call[c].decision) /\ Answer(c, "record")
       \/ Answer(c, Doubt)
    /\ UNCHANGED databaseVars /\ NodeOnly

\* The worker is killed, or fails outside submitApprovedWorkOrder.
JobLost(c) ==
    /\ job[c].pc \notin {"none", "over"}
    /\ Answer(c, None)
    /\ UNCHANGED databaseVars /\ NodeOnly

-----------------------------------------------------------------------------
(* The database, the process and the clock.                                *)

Commit ==
    /\ wire # None
    /\ sql' = IF sql = None THEN [edits |-> wire, draft |-> TRUE] ELSE sql
    /\ wire' = None
    /\ UNCHANGED <<journalVars, holder, call, job, creates, processVars, expired>>

LoseMutation ==
    /\ wire # None
    /\ wire' = None
    /\ UNCHANGED <<journalVars, holder, call, job, sql, creates, processVars, expired>>

\* Someone works on the created order: it is no longer a Draft.
WorkOn ==
    /\ sql # None
    /\ sql' = [sql EXCEPT !.draft = FALSE]
    /\ UNCHANGED <<journalVars, holder, call, job, wire, creates, processVars, expired>>

\* The lock file is released by the operating system; Node drains its jobs.
Crash ==
    /\ up
    /\ crashes < MaxCrashes
    /\ up' = FALSE
    /\ crashes' = crashes + 1
    /\ holder' = None
    /\ call' = [c \in Calls |-> IF call[c].pc \in {"idle", "done"} THEN call[c]
                                ELSE [call[c] EXCEPT !.pc = "done", !.reply = "lost"]]
    /\ UNCHANGED <<journalVars, job, databaseVars, enabled, expired>>

Restart ==
    /\ ~up
    /\ up' = TRUE
    /\ enabled' \in BOOLEAN
    /\ UNCHANGED <<journalVars, holder, call, job, databaseVars, crashes, expired>>

Expire ==
    /\ ~expired
    /\ expired' = TRUE
    /\ UNCHANGED <<journalVars, holder, call, job, databaseVars, processVars>>

-----------------------------------------------------------------------------
Python(c) == SaveRejection(c) \/ Submit(c) \/ GiveUp(c) \/ Receive(c)

Node(c) ==
    \/ Read(c) \/ FindExisting(c) \/ FailsBeforeWrite(c) \/ Stage(c)
    \/ Create(c) \/ CheckCreated(c) \/ JobLost(c)

Next ==
    \/ \E c \in Calls :
          \/ \E reconcile \in BOOLEAN, d \in Decisions : Ask(c, reconcile, d)
          \/ OpenSourcesFails(c)
          \/ Python(c)
          \/ Node(c)
    \/ Commit \/ LoseMutation \/ WorkOn
    \/ Crash \/ Restart \/ Expire

Spec == Init /\ [][Next]_vars

\* A submission reaches a worker or fails (SourceBridge: CallsEnd; the token service
\* answers) and, as there, a live worker reads its stdin: neither is bounded by
\* call_timeout. What follows is, whatever worker, database and operator do.
FairSpec ==
    /\ Spec
    /\ \A c \in Calls :
          /\ WF_vars(SaveRejection(c) \/ Submit(c) \/ Timeout(c) \/ Receive(c))
          /\ WF_vars(Read(c))

-----------------------------------------------------------------------------
(* Correctness.                                                            *)

\* Every variable keeps its type.
TypeOK ==
    /\ intent \in Decisions \cup {None}
    /\ result \in Results \cup {None}
    /\ holder \in Calls \cup {None}
    /\ call \in [Calls -> CallStates]
    /\ job \in [Calls -> JobStates]
    /\ sql \in [edits : Edits, draft : BOOLEAN] \cup {None}
    /\ wire \in Edits \cup {None}
    /\ creates \in Nat
    /\ up \in BOOLEAN /\ enabled \in BOOLEAN /\ expired \in BOOLEAN
    /\ crashes \in Nat

\* However often the card is decided, retried and reconciled, across timeouts,
\* lost acknowledgements and crashes, one create mutation is sent at most, and
\* what it sends and stores is what the operator approved.
OneCreation ==
    /\ creates <= 1
    /\ wire # None => wire = intent
    /\ sql # None => sql.edits = intent
    /\ (wire # None \/ sql # None) => creates = 1

\* A creation is certified only when the order exists; a rejection, and a
\* no-write receipt of the call that was allowed to create, only when no create
\* mutation was ever sent, and none can be sent later.
ReceiptsAreTrue ==
    /\ result = "created" => sql # None /\ sql.edits = intent
    /\ result = "rejected" => intent = Reject /\ creates = 0
    /\ \A c \in Calls : call[c].create /\ call[c].reply = "blocked" => creates = 0

\* The card's decision, its order and its receipt, each written at most once
\* and in that order, implement WorkOrderCard.
Card == INSTANCE WorkOrderCard WITH
    verdict <- intent,
    order <- IF sql = None THEN None ELSE sql.edits,
    receipt <- result
KeepsCard == Card!Spec

\* A decision that took the card's lock is answered, whatever a Node worker that has
\* read it and the database do, so the card never stays "already being submitted".
DecisionsAreAnswered == \A c \in Calls : holder = c ~> holder # c

-----------------------------------------------------------------------------
(* The strengthening that makes the state properties inductive.            *)

Held(c) == call[c].pc \in {"rejecting", "submitting", "awaiting"}

\* The call that holds the lock carries the journalled decision, and the one
\* call that may create has not had a create mutation sent for it while its
\* job has not reached the write.
CallInv(c) ==
    /\ Held(c) => /\ up /\ holder = c /\ result = None
                  /\ intent = call[c].decision /\ intent # None
    /\ call[c].pc = "rejecting" => call[c].decision = Reject
    /\ call[c].pc \in {"submitting", "awaiting"} => call[c].decision # Reject
    /\ call[c].pc = "idle" => ~call[c].create
    /\ call[c].pc \in {"idle", "rejecting", "submitting"} => job[c].pc = "none"
    /\ call[c].create => intent # None
    /\ call[c].create /\ call[c].reply = "blocked" =>
          creates = 0 /\ job[c].pc = "over"

JobInv(c) ==
    /\ job[c].pc # "none" => call[c].decision = intent /\ intent \in Edits
    /\ job[c].pc \in {"staging", "creating", "checking"} => call[c].create
    /\ job[c].pc \in {"none", "sent", "reading", "staging", "creating"} /\ call[c].create => creates = 0
    /\ job[c].answer = "unattempted" /\ call[c].create => creates = 0
    /\ job[c].answer = "record" => sql # None
    /\ job[c].answer # None => job[c].pc = "over"

OrderInv ==
    /\ OneCreation
    /\ creates = 1 => intent \in Edits
    /\ result = "created" => sql # None
    /\ result = "rejected" => intent = Reject
    /\ result # None => intent # None
    /\ holder # None => Held(holder)
    /\ \A c, d \in Calls : call[c].create /\ call[d].create => c = d

IInv == TypeOK /\ OrderInv /\ \A c \in Calls : CallInv(c) /\ JobInv(c)

\* What the blocked receipt says in production_write_executed and in its
\* message ("no SQL write was attempted").
BlockedMeansNoWrite == result = "blocked" => sql = None

\* What the disabled answer says (service.py:432: "Production work-order writes are
\* disabled; no SQL write was attempted."), also of a card decided before.
DisabledMeansNoWrite ==
    [][\A c \in Calls :
          call[c].reply # "disabled" /\ call'[c].reply = "disabled" => creates = 0]_vars
==============================================================================
