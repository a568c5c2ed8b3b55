-------------------------- MODULE SourceBridgeProofs --------------------------
(***************************************************************************)
(* Proofs about SourceBridge for any set of calls and every order of       *)
(* responses, timeouts, cancellations, crashes and reconfigurations.       *)
(***************************************************************************)
EXTENDS SourceBridge, TLAPS

(* None and the lifespan are no calls.                                     *)
LEMMA Fresh == None \notin Calls /\ Lifespan \notin Calls
BY ConstantsAssumption DEF ConstantsAssumption

(* The invariant without the types.                                        *)
Rest == PendingIsServed /\ NoWorkerIsLeaked /\ \A c \in Calls : WorkerInv(c) /\ CallInv(c)

(***************************************************************************)
(* A call that only moves on.                                              *)
(***************************************************************************)
LEMMA MoveStep ==
    ASSUME IInv, NEW c \in Calls,
           \/ Call(c) \/ CloseEnds(c) \/ SpawnFails(c) \/ AbortEnds(c)
           \/ Drain(c) \/ Wake(c) \/ Timeout(c) \/ Cancel(c)
    PROVE  IInv'
<1>0. TypeOK /\ Rest BY DEF IInv, Rest
<1>1. PICK s \in {"ensuring", "spawning", "sent"} \cup Over : pc' = [pc EXCEPT ![c] = s]
  BY DEF Call, CloseEnds, SpawnFails, AbortEnds, Drain, Wake, Timeout, Cancel, Leave, Goto, Over
<1>2. /\ UNCHANGED <<future, served, process, workerVars, outerVars, job>>
      /\ pending' \in {pending, pending \ {c}}
      /\ closing' \in [Closers -> Calls \cup {None}]
  BY <1>0 DEF Call, CloseEnds, SpawnFails, AbortEnds, Drain, Wake, Timeout, Cancel, Leave, TypeOK,
     bridgeVars, callVars, Closers
<1>3. /\ pc'[c] = s /\ \A d \in Calls \ {c} : pc'[d] = pc[d]
      /\ pc' \in [Calls -> {"idle"} \cup Waiting \cup Over]
  BY <1>0, <1>1 DEF TypeOK, Waiting, Locked
<1>4. /\ s = "ensuring" => pc[c] = "idle"
      /\ s = "spawning" => pc[c] = "closing"
      /\ s = "sent" => pc[c] = "draining"
      /\ pc[c] \in Locked /\ s # "spawning" => lock = c /\ lock' = None
      /\ pc[c] \notin Locked \/ s = "spawning" => lock' = lock
      /\ pc[c] # s /\ pc[c] # "starting"
      /\ c \in pending => s = "sent" \/ c \notin pending'
  BY <1>0, <1>1, <1>3, Fresh DEF Call, CloseEnds, SpawnFails, AbortEnds, Drain, Wake, Timeout, Cancel,
     Leave, Goto,
     TypeOK, bridgeVars, Rest, PendingIsServed, Over, Waiting, Locked
<1>5. TypeOK'
  <2>1. \A d \in Calls : lock' = d <=> pc'[d] \in Locked
    BY <1>0, <1>3, <1>4, Fresh DEF TypeOK, Over, Locked
  <2>2. lock' \in Calls \cup {None} BY <1>0, <1>4 DEF TypeOK
  <2> QED BY <1>0, <1>2, <1>3, <2>1, <2>2 DEF TypeOK, workerVars, outerVars
<1>6. Rest'
  <2>1. PendingIsServed'
    <3> SUFFICES ASSUME NEW d \in pending'
                 PROVE  /\ pc'[d] \in {"draining", "sent"} /\ future'[d] = "open"
                        /\ served'[d] = process'
                        /\ stdin'[process'] /\ reader'[process'] = "reading"
      BY DEF PendingIsServed
    <3>1. d \in pending /\ d \in Calls BY <1>0, <1>2 DEF TypeOK
    <3>2. /\ pc[d] \in {"draining", "sent"} /\ future[d] = "open" /\ served[d] = process
          /\ stdin[process] /\ reader[process] = "reading"
      BY <1>0, <3>1 DEF Rest, PendingIsServed
    <3>3. pc'[d] \in {"draining", "sent"} BY <1>3, <1>4, <3>1, <3>2
    <3> QED BY <1>2, <3>2, <3>3 DEF workerVars
  <2>2. NoWorkerIsLeaked' BY <1>0, <1>2, <1>3, <1>4 DEF Rest, NoWorkerIsLeaked, workerVars
  <2>3. \A d \in Calls : WorkerInv(d)'
    BY <1>0, <1>2, <1>3, <1>4 DEF Rest, WorkerInv, workerVars, outerVars, Over
  <2>4. \A d \in Calls : CallInv(d)'
    BY <1>0, <1>2, <1>3, <1>4 DEF Rest, CallInv, Over, Locked
  <2> QED BY <2>1, <2>2, <2>3, <2>4 DEF Rest
<1> QED BY <1>5, <1>6 DEF IInv, Rest

(***************************************************************************)
(* The bridge lets go of its worker: under the lock, or on exit.           *)
(***************************************************************************)
LEMMA AcloseEffect ==
    ASSUME IInv, NEW x \in Closers, Aclose(x)
    PROVE  /\ process' = None /\ pending' = {}
           /\ closing' \in [Closers -> Calls \cup {None}]
           /\ future' \in [Calls -> {"none", "open", "answer"} \cup Failures]
           /\ stdin' \in [Calls -> BOOLEAN]
           /\ process # None => ~stdin'[process]
           /\ \A w \in Calls : stdin'[w] = stdin[w] \/ (w = process /\ ~stdin'[w])
<1>0. TypeOK /\ Rest BY DEF IInv, Rest
<1>1. process' = None /\ closing' \in [Closers -> Calls \cup {None}]
  BY <1>0 DEF Aclose, TypeOK
<1>2. CASE process = None
  <2>1. UNCHANGED <<pending, future, stdin>> BY <1>2 DEF Aclose
  <2>2. pending = {} BY <1>0, <1>2 DEF Rest, CallInv, TypeOK
  <2> QED BY <1>0, <1>1, <1>2, <2>1, <2>2 DEF TypeOK
<1>3. CASE process # None
  <2>1. FailPending("closed") /\ stdin' = [stdin EXCEPT ![process] = FALSE] BY <1>3 DEF Aclose
  <2>2. process \in Calls BY <1>0, <1>3 DEF TypeOK
  <2>3. pending' = {} /\ future' \in [Calls -> {"none", "open", "answer"} \cup Failures]
    BY <1>0, <2>1 DEF FailPending, TypeOK, Failures
  <2> QED BY <1>0, <1>1, <2>1, <2>2, <2>3 DEF TypeOK
<1> QED BY <1>2, <1>3

(* _aclose by whoever holds the lock, or by the lifespan.                  *)
LEMMA AcloseStep ==
    ASSUME IInv,
           \/ Release
           \/ \E c \in Calls : Replace(c)
    PROVE  IInv'
<1>0. TypeOK /\ Rest BY DEF IInv, Rest
<1>1. PICK x \in Closers :
         /\ Aclose(x)
         /\ \/ x = Lifespan /\ UNCHANGED <<pc, lock, bound>> /\ lifespan' \in {"over", "closing"}
            \/ /\ x \in Calls /\ pc[x] = "ensuring" /\ lock = None /\ lock' = x
               /\ pc' = [pc EXCEPT ![x] = IF process = None THEN "spawning" ELSE "closing"]
               /\ bound' = [bound EXCEPT ![x] = configuration]
               /\ lifespan' = lifespan
  BY DEF Release, Replace, Closers, Goto, outerVars
<1>2. UNCHANGED <<served, stage, reader, started, job, configuration, faults>>
  BY DEF Release, Replace, outerVars
<1>3. /\ process' = None /\ pending' = {}
      /\ closing' \in [Closers -> Calls \cup {None}]
      /\ future' \in [Calls -> {"none", "open", "answer"} \cup Failures]
      /\ stdin' \in [Calls -> BOOLEAN]
      /\ process # None => ~stdin'[process]
      /\ \A w \in Calls : stdin'[w] = stdin[w] \/ (w = process /\ ~stdin'[w])
  BY <1>1, AcloseEffect
<1>4. /\ pc' \in [Calls -> {"idle"} \cup Waiting \cup Over]
      /\ bound' \in [Calls -> Nat] /\ lock' \in Calls \cup {None}
      /\ lifespan' \in {"serving", "closing", "over"}
      /\ \A d \in Calls : \/ pc'[d] = pc[d] /\ bound'[d] = bound[d]
                          \/ /\ pc[d] = "ensuring" /\ pc'[d] \in {"closing", "spawning"}
                             /\ bound'[d] = configuration
      /\ \A d \in Calls : lock' = d <=> pc'[d] \in Locked
  <2>1. CASE x = Lifespan BY <1>0, <1>1, <2>1, Fresh DEF TypeOK
  <2>2. CASE x \in Calls
    <3>1. /\ pc[x] = "ensuring" /\ lock = None /\ lock' = x /\ lifespan' = lifespan
          /\ pc' = [pc EXCEPT ![x] = IF process = None THEN "spawning" ELSE "closing"]
          /\ bound' = [bound EXCEPT ![x] = configuration]
      BY <1>1, <2>2, Fresh
    <3>2. /\ pc'[x] \in {"closing", "spawning"} /\ bound'[x] = configuration
          /\ \A d \in Calls \ {x} : pc'[d] = pc[d] /\ bound'[d] = bound[d]
          /\ pc' \in [Calls -> {"idle"} \cup Waiting \cup Over] /\ bound' \in [Calls -> Nat]
      BY <1>0, <2>2, <3>1 DEF TypeOK, Waiting, Locked
    <3>3. \A d \in Calls : pc[d] \notin Locked
      BY <1>0, <3>1, Fresh DEF TypeOK
    <3> QED BY <1>0, <2>2, <3>1, <3>2, <3>3 DEF TypeOK, Locked
  <2> QED BY <1>1, <2>1, <2>2
<1>5. TypeOK' BY <1>0, <1>2, <1>3, <1>4 DEF TypeOK
<1>6. Rest'
  <2>1. PendingIsServed' BY <1>3 DEF PendingIsServed
  <2>2. NoWorkerIsLeaked' BY <1>0, <1>2, <1>3, <1>4 DEF Rest, NoWorkerIsLeaked
  <2>3. \A d \in Calls : WorkerInv(d)'
    <3>1. configuration \in Nat BY <1>0 DEF TypeOK
    <3>2. \A d \in Calls : pc'[d] = "starting" => pc[d] = "starting" /\ stdin'[d] = stdin[d]
      BY <1>0, <1>3, <1>4, Fresh DEF Rest, CallInv, Locked
    <3> QED BY <1>0, <1>2, <1>3, <1>4, <3>1, <3>2, Fresh DEF Rest, WorkerInv
  <2>4. \A d \in Calls : CallInv(d)' BY <1>0, <1>2, <1>3, <1>4 DEF Rest, CallInv
  <2> QED BY <2>1, <2>2, <2>3, <2>4 DEF Rest
<1> QED BY <1>5, <1>6 DEF IInv, Rest

(***************************************************************************)
(* A request is written to the present worker, or to a new one.            *)
(***************************************************************************)
LEMMA WriteEffect ==
    ASSUME IInv, NEW c \in Calls, NEW w \in Calls, Write(c, w)
    PROVE  /\ pc' \in [Calls -> {"idle"} \cup Waiting \cup Over]
           /\ pc'[c] \in {"draining", "sent"} /\ \A d \in Calls \ {c} : pc'[d] = pc[d]
           /\ future' \in [Calls -> {"none", "open", "answer"} \cup Failures]
           /\ future'[c] = "open" /\ \A d \in Calls \ {c} : future'[d] = future[d]
           /\ served' \in [Calls -> Calls \cup {None}]
           /\ served'[c] = w /\ \A d \in Calls \ {c} : served'[d] = served[d]
           /\ pending' = pending \cup {c} /\ pending' \subseteq Calls
           /\ job' \in [Calls -> {"none", "written", "running", "replied"}]
<1>0. TypeOK BY DEF IInv
<1>1. PICK s \in {"draining", "sent"} : pc' = [pc EXCEPT ![c] = s] BY DEF Write, Goto
<1>2. /\ pc' \in [Calls -> {"idle"} \cup Waiting \cup Over]
      /\ pc'[c] = s /\ \A d \in Calls \ {c} : pc'[d] = pc[d]
  BY <1>0, <1>1 DEF TypeOK, Waiting, Locked
<1>3. /\ future' \in [Calls -> {"none", "open", "answer"} \cup Failures]
      /\ future'[c] = "open" /\ \A d \in Calls \ {c} : future'[d] = future[d]
  BY <1>0 DEF Write, TypeOK
<1>4. /\ served' \in [Calls -> Calls \cup {None}]
      /\ served'[c] = w /\ \A d \in Calls \ {c} : served'[d] = served[d]
  BY <1>0 DEF Write, TypeOK
<1>5. /\ pending' = pending \cup {c} /\ pending' \subseteq Calls
      /\ job' \in [Calls -> {"none", "written", "running", "replied"}]
  BY <1>0 DEF Write, TypeOK
<1> QED BY <1>2, <1>3, <1>4, <1>5

(* A call finds the worker that it may use.                                *)
LEMMA ReuseStep == ASSUME IInv, NEW c \in Calls, Reuse(c) PROVE IInv'
<1>0. TypeOK /\ Rest BY DEF IInv, Rest
<1>1. /\ pc[c] = "ensuring" /\ lock = None /\ process # None /\ process \in Calls
      /\ UNCHANGED <<process, lock, closing, workerVars, outerVars>>
      /\ Write(c, process)
  BY <1>0 DEF Reuse, Healthy, TypeOK
<1>2. /\ pc' \in [Calls -> {"idle"} \cup Waiting \cup Over]
      /\ pc'[c] \in {"draining", "sent"} /\ \A d \in Calls \ {c} : pc'[d] = pc[d]
      /\ future' \in [Calls -> {"none", "open", "answer"} \cup Failures]
      /\ future'[c] = "open" /\ \A d \in Calls \ {c} : future'[d] = future[d]
      /\ served' \in [Calls -> Calls \cup {None}]
      /\ served'[c] = process /\ \A d \in Calls \ {c} : served'[d] = served[d]
      /\ pending' = pending \cup {c} /\ pending' \subseteq Calls
      /\ job' \in [Calls -> {"none", "written", "running", "replied"}]
  BY <1>1, WriteEffect
<1>3. TypeOK'
  <2>1. \A d \in Calls : lock' = d <=> pc'[d] \in Locked
    BY <1>0, <1>1, <1>2, Fresh DEF TypeOK, Locked
  <2> QED BY <1>0, <1>1, <1>2, <2>1 DEF TypeOK, workerVars, outerVars
<1>4. Rest'
  <2>1. PendingIsServed'
    <3>1. WorkerInv(process) BY <1>0, <1>1 DEF Rest
    <3>2. stdin'[process'] /\ reader'[process'] = "reading"
      BY <1>1, <3>1 DEF WorkerInv, workerVars
    <3>3. ASSUME NEW d \in pending'
          PROVE  pc'[d] \in {"draining", "sent"} /\ future'[d] = "open" /\ served'[d] = process'
      <4>1. CASE d = c BY <1>1, <1>2, <4>1
      <4>2. CASE d # c
        <5>1. d \in pending /\ d \in Calls \ {c} BY <1>2, <3>3, <4>2
        <5> QED BY <1>0, <1>1, <1>2, <5>1 DEF Rest, PendingIsServed
      <4> QED BY <4>1, <4>2
    <3> QED BY <3>2, <3>3 DEF PendingIsServed
  <2>2. NoWorkerIsLeaked' BY <1>0, <1>1, <1>2 DEF Rest, NoWorkerIsLeaked, workerVars
  <2>3. ASSUME NEW d \in Calls PROVE WorkerInv(d)'
    <3>1. WorkerInv(d) BY <1>0 DEF Rest
    <3>2. pc'[d] = pc[d] \/ pc'[d] \in {"draining", "sent"} BY <1>2
    <3> QED BY <1>1, <3>1, <3>2 DEF WorkerInv, workerVars, outerVars
  <2>4. ASSUME NEW d \in Calls PROVE CallInv(d)'
    <3>1. CallInv(d) BY <1>0 DEF Rest
    <3>2. CASE d = c BY <1>1, <1>2, <3>2 DEF CallInv, Locked
    <3>3. CASE d # c BY <1>1, <1>2, <3>1, <3>3 DEF CallInv
    <3> QED BY <3>2, <3>3
  <2> QED BY <2>1, <2>2, <2>3, <2>4 DEF Rest
<1> QED BY <1>3, <1>4 DEF IInv, Rest

(* A call starts a worker of its own, or gives it up while it starts.      *)
LEMMA LaunchStep == ASSUME IInv, NEW c \in Calls, Start(c) \/ Abort(c) PROVE IInv'
<1>0. TypeOK /\ Rest BY DEF IInv, Rest
<1>1. UNCHANGED <<future, served, bridgeVars, reader, bound, job, outerVars>>
  BY DEF Start, Abort
<1>2. /\ pc[c] \in {"spawning", "starting"} /\ pc'[c] \in {"starting", "aborting"}
      /\ \A d \in Calls \ {c} : pc'[d] = pc[d]
      /\ pc' \in [Calls -> {"idle"} \cup Waiting \cup Over]
  BY <1>0 DEF Start, Abort, Goto, TypeOK, Waiting, Locked
<1>3. /\ stage' \in [Calls -> {"unborn", "alive", "dead", "reaped"}]
      /\ stage'[c] # "unborn" /\ (stage'[c] = "alive" => pc'[c] = "starting")
      /\ \A d \in Calls \ {c} : stage'[d] = stage[d]
  BY <1>0 DEF Start, Abort, Goto, TypeOK, Rest, WorkerInv
<1>4. /\ stdin' \in [Calls -> BOOLEAN] /\ started' \in [Calls -> Nat]
      /\ stdin'[c] /\ started'[c] <= configuration /\ bound[c] <= started'[c]
      /\ \A d \in Calls \ {c} : stdin'[d] = stdin[d] /\ started'[d] = started[d]
  <2>1. WorkerInv(c) /\ configuration \in Nat /\ bound[c] \in Nat /\ started[c] \in Nat
    BY <1>0 DEF Rest, TypeOK
  <2>2. CASE Start(c) BY <1>0, <2>1, <2>2 DEF Start, TypeOK, WorkerInv
  <2>3. CASE Abort(c) BY <1>0, <2>1, <2>3 DEF Abort, TypeOK, WorkerInv
  <2> QED BY <2>2, <2>3
<1>5. process = None /\ pending = {} /\ lock = c
  BY <1>0, <1>2, Fresh DEF Rest, CallInv, TypeOK, Locked
<1>6. TypeOK'
  <2>1. \A d \in Calls : lock' = d <=> pc'[d] \in Locked
    BY <1>0, <1>1, <1>2, <1>5 DEF TypeOK, Locked, bridgeVars
  <2> QED BY <1>0, <1>1, <1>2, <1>3, <1>4, <2>1 DEF TypeOK, bridgeVars, outerVars
<1>7. Rest'
  <2>1. PendingIsServed' BY <1>1, <1>5 DEF PendingIsServed, bridgeVars
  <2>2. NoWorkerIsLeaked' BY <1>0, <1>1, <1>2, <1>3, <1>4 DEF Rest, NoWorkerIsLeaked, bridgeVars
  <2>3. ASSUME NEW d \in Calls PROVE WorkerInv(d)'
    <3>1. WorkerInv(d) /\ d # process BY <1>0, <1>5, Fresh DEF Rest
    <3>2. CASE d = c BY <1>1, <1>2, <1>3, <1>4, <3>1, <3>2 DEF WorkerInv, bridgeVars, outerVars
    <3>3. CASE d # c BY <1>1, <1>2, <1>3, <1>4, <3>1, <3>3 DEF WorkerInv, bridgeVars, outerVars
    <3> QED BY <3>2, <3>3
  <2>4. \A d \in Calls : CallInv(d)' BY <1>1, <1>5 DEF CallInv, bridgeVars
  <2> QED BY <2>1, <2>2, <2>3, <2>4 DEF Rest
<1> QED BY <1>6, <1>7 DEF IInv, Rest

(* What the resumed call does to itself: it writes, or its worker is gone. *)
LEMMA StartedEffect ==
    ASSUME IInv, NEW c \in Calls, Started(c)
    PROVE  /\ pc' \in [Calls -> {"idle"} \cup Waiting \cup Over]
           /\ pc'[c] \in {"draining", "sent", "failed"} /\ \A d \in Calls \ {c} : pc'[d] = pc[d]
           /\ future' \in [Calls -> {"none", "open", "answer"} \cup Failures]
           /\ \A d \in Calls \ {c} : future'[d] = future[d]
           /\ served' \in [Calls -> Calls \cup {None}]
           /\ \A d \in Calls \ {c} : served'[d] = served[d]
           /\ pending' \subseteq pending \cup {c} /\ pending' \subseteq Calls
           /\ c \in pending' \/ (future'[c] = future[c] /\ served'[c] = served[c])
           /\ c \in pending' => /\ pc'[c] \in {"draining", "sent"}
                                /\ future'[c] = "open" /\ served'[c] = c
           /\ job' \in [Calls -> {"none", "written", "running", "replied"}]
<1>0. TypeOK /\ c \notin pending
  BY DEF IInv, PendingIsServed, Started
<1>1. CASE Write(c, c)
  <2>1. c \in pending' BY <1>1 DEF Write
  <2> QED BY <1>1, <2>1, WriteEffect
<1>2. CASE Goto(c, "failed") /\ UNCHANGED <<future, served, pending, job>>
  <2>1. /\ pc' \in [Calls -> {"idle"} \cup Waiting \cup Over]
        /\ pc'[c] = "failed" /\ \A d \in Calls \ {c} : pc'[d] = pc[d]
    BY <1>0, <1>2 DEF Goto, TypeOK, Over
  <2> QED BY <1>0, <1>2, <2>1 DEF TypeOK
<1> QED BY <1>1, <1>2 DEF Started

(* Its worker becomes the bridge's.                                        *)
LEMMA StartedStep == ASSUME IInv, NEW c \in Calls, Started(c) PROVE IInv'
<1>0. TypeOK /\ Rest BY DEF IInv, Rest
<1>1. /\ pc[c] = "starting" /\ process' = c /\ lock' = None
      /\ reader' = [reader EXCEPT ![c] = "reading"]
      /\ UNCHANGED <<closing, stage, stdin, bound, started, outerVars>>
  BY DEF Started
<1>2. /\ pc' \in [Calls -> {"idle"} \cup Waiting \cup Over]
      /\ pc'[c] \in {"draining", "sent", "failed"} /\ \A d \in Calls \ {c} : pc'[d] = pc[d]
      /\ future' \in [Calls -> {"none", "open", "answer"} \cup Failures]
      /\ served' \in [Calls -> Calls \cup {None}]
      /\ pending' \subseteq pending \cup {c} /\ pending' \subseteq Calls
      /\ c \in pending' => /\ pc'[c] \in {"draining", "sent"}
                           /\ future'[c] = "open" /\ served'[c] = c
      /\ job' \in [Calls -> {"none", "written", "running", "replied"}]
  BY StartedEffect
<1>3. /\ reader' \in [Calls -> {"none", "reading", "waiting", "done"}]
      /\ reader'[c] = "reading" /\ \A d \in Calls \ {c} : reader'[d] = reader[d]
      /\ stdin[c] /\ stage[c] # "unborn"
  BY <1>0, <1>1 DEF TypeOK, Rest, WorkerInv
<1>4. process = None /\ pending = {} /\ lock = c
  BY <1>0, <1>1, Fresh DEF Rest, CallInv, TypeOK, Locked
<1>5. TypeOK'
  <2>1. \A d \in Calls : lock' = d <=> pc'[d] \in Locked
    BY <1>0, <1>1, <1>2, <1>4, Fresh DEF TypeOK, Locked
  <2> QED BY <1>0, <1>1, <1>2, <1>3, <2>1 DEF TypeOK, outerVars
<1>6. Rest'
  <2>1. PendingIsServed' BY <1>1, <1>2, <1>3, <1>4 DEF PendingIsServed
  <2>2. NoWorkerIsLeaked'
    BY <1>0, <1>1, <1>2, <1>4, Fresh DEF Rest, NoWorkerIsLeaked
  <2>3. ASSUME NEW d \in Calls PROVE WorkerInv(d)'
    <3>1. WorkerInv(d) BY <1>0 DEF Rest
    <3>2. CASE d = c BY <1>1, <1>2, <1>3, <3>1, <3>2 DEF WorkerInv, outerVars
    <3>3. CASE d # c BY <1>1, <1>2, <1>3, <3>1, <3>3 DEF WorkerInv, outerVars
    <3> QED BY <3>2, <3>3
  <2>4. ASSUME NEW d \in Calls PROVE CallInv(d)'
    <3>1. pc'[d] \notin Locked BY <1>0, <1>2, <1>4 DEF TypeOK, Locked
    <3> QED BY <1>1, <3>1, Fresh DEF CallInv
  <2> QED BY <2>1, <2>2, <2>3, <2>4 DEF Rest
<1> QED BY <1>5, <1>6 DEF IInv, Rest

(***************************************************************************)
(* The reader of a worker's responses.                                     *)
(***************************************************************************)
LEMMA RouteStep == ASSUME IInv, NEW c \in Calls, Route(c) PROVE IInv'
<1>0. TypeOK /\ Rest BY DEF IInv, Rest
<1>1. /\ UNCHANGED <<pc, served, process, lock, closing, workerVars, outerVars>>
      /\ pending' = pending \ {c} /\ pending' \subseteq Calls
      /\ job' \in [Calls -> {"none", "written", "running", "replied"}]
      /\ future' \in [Calls -> {"none", "open", "answer"} \cup Failures]
      /\ \A d \in Calls \ {c} : future'[d] = future[d]
  BY <1>0 DEF Route, TypeOK
<1>2. TypeOK' BY <1>0, <1>1 DEF TypeOK, workerVars, outerVars
<1>3. Rest'
  <2>1. PendingIsServed' BY <1>0, <1>1 DEF Rest, PendingIsServed, workerVars, TypeOK
  <2>2. NoWorkerIsLeaked' BY <1>0, <1>1 DEF Rest, NoWorkerIsLeaked, workerVars
  <2>3. \A d \in Calls : WorkerInv(d)'
    BY <1>0, <1>1 DEF Rest, WorkerInv, workerVars, outerVars
  <2>4. \A d \in Calls : CallInv(d)' BY <1>0, <1>1 DEF Rest, CallInv
  <2> QED BY <2>1, <2>2, <2>3, <2>4 DEF Rest
<1> QED BY <1>2, <1>3 DEF IInv, Rest

(* A worker's output ends or cannot be used: its calls fail.               *)
LEMMA StopReadingStep ==
    ASSUME IInv, NEW w \in Calls, Unusable(w) \/ EndOfFile(w)
    PROVE  IInv'
<1>0. TypeOK /\ Rest BY DEF IInv, Rest
<1>1. PICK reason \in {"unusable", "exited"} : StopReading(w, reason)
  BY DEF Unusable, EndOfFile
<1>2. /\ reader[w] = "reading" /\ faults' \in Nat
      /\ reader' = [reader EXCEPT ![w] = "waiting"]
      /\ process' = IF process = w THEN None ELSE process
      /\ stage' = [stage EXCEPT ![w] = IF @ = "alive" THEN "dead" ELSE @]
      /\ UNCHANGED <<pc, served, lock, closing, stdin, bound, started, job, lifespan, configuration>>
  BY <1>0, <1>1 DEF Unusable, EndOfFile, StopReading, TypeOK
<1>3. pending' = {} /\ future' \in [Calls -> {"none", "open", "answer"} \cup Failures]
  BY <1>0, <1>1 DEF StopReading, FailPending, TypeOK, Failures
<1>4. /\ reader' \in [Calls -> {"none", "reading", "waiting", "done"}]
      /\ stage' \in [Calls -> {"unborn", "alive", "dead", "reaped"}]
      /\ stage'[w] # "alive" /\ (stage'[w] = "unborn" <=> stage[w] = "unborn")
      /\ \A d \in Calls \ {w} : reader'[d] = reader[d] /\ stage'[d] = stage[d]
  BY <1>0, <1>2 DEF TypeOK
<1>5. stage[w] # "unborn" BY <1>0, <1>2 DEF Rest, WorkerInv
<1>6. TypeOK' BY <1>0, <1>2, <1>3, <1>4 DEF TypeOK
<1>7. Rest'
  <2>1. PendingIsServed' BY <1>3 DEF PendingIsServed
  <2>2. NoWorkerIsLeaked' BY <1>0, <1>2, <1>4 DEF Rest, NoWorkerIsLeaked
  <2>3. ASSUME NEW d \in Calls PROVE WorkerInv(d)'
    <3>1. WorkerInv(d) BY <1>0 DEF Rest
    <3>2. CASE d = w BY <1>2, <1>4, <1>5, <3>1, <3>2, Fresh DEF WorkerInv
    <3>3. CASE d # w BY <1>2, <1>4, <3>1, <3>3, Fresh DEF WorkerInv
    <3> QED BY <3>2, <3>3
  <2>4. \A d \in Calls : CallInv(d)' BY <1>0, <1>2, <1>3 DEF Rest, CallInv
  <2> QED BY <2>1, <2>2, <2>3, <2>4 DEF Rest
<1> QED BY <1>6, <1>7 DEF IInv, Rest

(* The reader has waited for its worker to exit.                           *)
LEMMA ReaderEndsStep == ASSUME IInv, NEW w \in Calls, ReaderEnds(w) PROVE IInv'
<1>0. TypeOK /\ Rest BY DEF IInv, Rest
<1>1. /\ reader[w] = "waiting" /\ stage[w] = "reaped"
      /\ UNCHANGED <<callVars, bridgeVars, stage, stdin, bound, started, job, outerVars>>
      /\ reader' \in [Calls -> {"none", "reading", "waiting", "done"}]
      /\ \A d \in Calls \ {w} : reader'[d] = reader[d]
  BY <1>0 DEF ReaderEnds, TypeOK
<1>2. w # process BY <1>0, <1>1 DEF Rest, WorkerInv
<1>3. TypeOK' BY <1>0, <1>1 DEF TypeOK, callVars, bridgeVars, outerVars
<1>4. Rest'
  <2>1. PendingIsServed'
    <3>1. \A d \in pending : process \in Calls \ {w}
      BY <1>0, <1>2 DEF Rest, CallInv, TypeOK
    <3> QED BY <1>0, <1>1, <3>1 DEF Rest, PendingIsServed, callVars, bridgeVars
  <2>2. NoWorkerIsLeaked' BY <1>0, <1>1 DEF Rest, NoWorkerIsLeaked, callVars, bridgeVars
  <2>3. \A d \in Calls : WorkerInv(d)'
    BY <1>0, <1>1, <1>2 DEF Rest, WorkerInv, callVars, bridgeVars, outerVars
  <2>4. \A d \in Calls : CallInv(d)' BY <1>0, <1>1 DEF Rest, CallInv, callVars, bridgeVars
  <2> QED BY <2>1, <2>2, <2>3, <2>4 DEF Rest
<1> QED BY <1>3, <1>4 DEF IInv, Rest

(***************************************************************************)
(* The Node worker, and the application.                                   *)
(***************************************************************************)
LEMMA WorkerStep ==
    ASSUME IInv,
           \/ \E w \in Calls : Exit(w) \/ Die(w) \/ Reap(w)
           \/ \E x \in Closers : Kill(x)
    PROVE  IInv'
<1>0. TypeOK /\ Rest BY DEF IInv, Rest
<1>1. PICK w \in Calls, s \in {"dead", "reaped"} :
         /\ stage[w] \in {"alive", "dead"} /\ stage' = [stage EXCEPT ![w] = s]
         /\ UNCHANGED <<callVars, bridgeVars, stdin, reader, bound, started, job, lifespan, configuration>>
         /\ faults' \in Nat
  <2>1. ASSUME NEW w \in Calls, Exit(w) \/ Die(w)
        PROVE  /\ stage[w] = "alive" /\ stage' = [stage EXCEPT ![w] = "dead"]
               /\ UNCHANGED <<callVars, bridgeVars, stdin, reader, bound, started, job, lifespan, configuration>>
               /\ faults' \in Nat
    BY <1>0, <2>1 DEF Exit, Die, Ends, TypeOK
  <2>2. ASSUME NEW w \in Calls, Reap(w)
        PROVE  /\ stage[w] = "dead" /\ stage' = [stage EXCEPT ![w] = "reaped"]
               /\ UNCHANGED <<callVars, bridgeVars, stdin, reader, bound, started, job, lifespan, configuration>>
               /\ faults' \in Nat
    BY <1>0, <2>2 DEF Reap, TypeOK, outerVars
  <2>3. ASSUME NEW x \in Closers, Kill(x)
        PROVE  /\ closing[x] \in Calls
               /\ stage[closing[x]] = "alive" /\ stage' = [stage EXCEPT ![closing[x]] = "dead"]
               /\ UNCHANGED <<callVars, bridgeVars, stdin, reader, bound, started, job, lifespan, configuration>>
               /\ faults' \in Nat
    BY <1>0, <2>3 DEF Kill, Ends, TypeOK
  <2> QED BY <2>1, <2>2, <2>3
<1>2. /\ stage' \in [Calls -> {"unborn", "alive", "dead", "reaped"}]
      /\ stage'[w] \notin {"alive", "unborn"} /\ stage[w] # "unborn"
      /\ \A d \in Calls \ {w} : stage'[d] = stage[d]
  BY <1>0, <1>1 DEF TypeOK
<1>3. TypeOK' BY <1>0, <1>1, <1>2 DEF TypeOK, callVars, bridgeVars
<1>4. Rest'
  <2>1. PendingIsServed' BY <1>0, <1>1 DEF Rest, PendingIsServed, callVars, bridgeVars
  <2>2. NoWorkerIsLeaked'
    BY <1>0, <1>1, <1>2 DEF Rest, NoWorkerIsLeaked, callVars, bridgeVars
  <2>3. \A d \in Calls : WorkerInv(d)'
    BY <1>0, <1>1, <1>2 DEF Rest, WorkerInv, callVars, bridgeVars
  <2>4. \A d \in Calls : CallInv(d)' BY <1>0, <1>1 DEF Rest, CallInv, callVars, bridgeVars
  <2> QED BY <2>1, <2>2, <2>3, <2>4 DEF Rest
<1> QED BY <1>3, <1>4 DEF IInv, Rest

(* Steps that the bridge does not see.                                     *)
LEMMA OtherStep ==
    ASSUME IInv,
           \/ \E c \in Calls : Read(c) \/ Reply(c)
           \/ ReleaseEnds \/ Reconfigure \/ UNCHANGED vars
    PROVE  IInv'
<1>0. TypeOK /\ Rest BY DEF IInv, Rest
<1>1. /\ UNCHANGED <<callVars, pending, process, lock, workerVars, faults>>
      /\ closing' \in [Closers -> Calls \cup {None}]
      /\ job' \in [Calls -> {"none", "written", "running", "replied"}]
      /\ lifespan' \in {"serving", "closing", "over"}
      /\ configuration' \in Nat /\ configuration <= configuration'
  <2>1. CASE \E c \in Calls : Read(c) \/ Reply(c)
    BY <1>0, <2>1 DEF Read, Reply, Job, TypeOK, bridgeVars, outerVars
  <2>2. CASE ReleaseEnds
    <3>1. closing' \in [Closers -> Calls \cup {None}] BY <1>0, <2>2 DEF ReleaseEnds, TypeOK
    <3>2. /\ UNCHANGED <<callVars, pending, process, lock, workerVars, faults, job, configuration>>
          /\ lifespan' = "over"
      BY <2>2 DEF ReleaseEnds
    <3>3. /\ job \in [Calls -> {"none", "written", "running", "replied"}]
          /\ configuration \in Nat
      BY <1>0 DEF TypeOK
    <3> QED BY <3>1, <3>2, <3>3
  <2>3. CASE Reconfigure BY <1>0, <2>3 DEF Reconfigure, TypeOK, bridgeVars
  <2>4. CASE UNCHANGED vars BY <1>0, <2>4 DEF vars, TypeOK, bridgeVars, outerVars
  <2> QED BY <2>1, <2>2, <2>3, <2>4
<1>2. TypeOK' BY <1>0, <1>1 DEF TypeOK, callVars, workerVars
<1>3. Rest'
  <2>1. PendingIsServed' BY <1>0, <1>1 DEF Rest, PendingIsServed, callVars, workerVars
  <2>2. NoWorkerIsLeaked' BY <1>0, <1>1 DEF Rest, NoWorkerIsLeaked, callVars, workerVars
  <2>3. ASSUME NEW d \in Calls PROVE WorkerInv(d)'
    <3>1. /\ WorkerInv(d) /\ bound[d] \in Nat /\ started[d] \in Nat /\ configuration \in Nat
      BY <1>0 DEF Rest, TypeOK
    <3> QED BY <1>1, <3>1 DEF WorkerInv, callVars, workerVars
  <2>4. \A d \in Calls : CallInv(d)' BY <1>0, <1>1 DEF Rest, CallInv, callVars
  <2> QED BY <2>1, <2>2, <2>3, <2>4 DEF Rest
<1> QED BY <1>2, <1>3 DEF IInv, Rest

(***************************************************************************)
(* The invariant holds initially and survives every step.                  *)
(***************************************************************************)
LEMMA InitInv == Init => IInv
<1> SUFFICES ASSUME Init PROVE IInv
  OBVIOUS
<1>1. TypeOK BY Fresh DEF Init, TypeOK, Closers, Locked
<1>2. PendingIsServed /\ NoWorkerIsLeaked BY DEF Init, PendingIsServed, NoWorkerIsLeaked
<1>3. \A c \in Calls : WorkerInv(c) /\ CallInv(c) BY Fresh DEF Init, WorkerInv, CallInv, Locked
<1> QED BY <1>1, <1>2, <1>3 DEF IInv

(* Every step keeps the invariant,                                         *)
LEMMA StepInv == IInv /\ [Next]_vars => IInv'
<1> SUFFICES ASSUME IInv, [Next]_vars PROVE IInv'
  OBVIOUS
<1>1. ASSUME NEW c \in Calls,
             \/ Call(c) \/ Ensure(c) \/ Abort(c) \/ Await(c) \/ Cancel(c)
             \/ Route(c) \/ Unusable(c) \/ Reading(c)
             \/ Read(c) \/ Reply(c) \/ Exit(c) \/ Die(c) \/ Reap(c)
      PROVE  IInv'
  <2>1. CASE Call(c) \/ Abort(c) \/ Await(c) \/ Cancel(c)
    BY <2>1, MoveStep, LaunchStep DEF Await
  <2>2. CASE Ensure(c)
    BY <2>2, MoveStep, ReuseStep, AcloseStep, LaunchStep, StartedStep DEF Ensure
  <2>3. CASE Route(c) \/ Unusable(c) \/ Reading(c)
    BY <2>3, RouteStep, StopReadingStep, ReaderEndsStep DEF Reading
  <2>4. CASE Read(c) \/ Reply(c) BY <2>4, OtherStep
  <2>5. CASE Exit(c) \/ Die(c) \/ Reap(c) BY <2>5, WorkerStep
  <2> QED BY <1>1, <2>1, <2>2, <2>3, <2>4, <2>5
<1>2. ASSUME NEW x \in Closers, Kill(x) PROVE IInv' BY <1>2, WorkerStep
<1>3. CASE Outside BY <1>3, AcloseStep, OtherStep DEF Outside
<1>4. CASE UNCHANGED vars BY <1>4, OtherStep
<1> QED BY <1>1, <1>2, <1>3, <1>4 DEF Next

(* ... and so it always holds.                                             *)
LEMMA Invariance == Spec => []IInv
BY InitInv, StepInv, PTL DEF Spec

(* Types, and the lock's owner.                                            *)
THEOREM TypeCorrect == Spec => []TypeOK
<1>1. IInv => TypeOK BY DEF IInv
<1> QED BY <1>1, Invariance, PTL

(* Calls wait on the present worker, whose reader is running.              *)
THEOREM PendingIsAlwaysServed == Spec => []PendingIsServed
<1>1. IInv => PendingIsServed BY DEF IInv
<1> QED BY <1>1, Invariance, PTL

(* Workers that were let go were told to exit, or killed.                  *)
THEOREM NoWorkerIsEverLeaked == Spec => []NoWorkerIsLeaked
<1>1. IInv => NoWorkerIsLeaked BY DEF IInv
<1> QED BY <1>1, Invariance, PTL

(* Requests go to workers that run the configuration in force; only the    *)
(* call that starts its worker may see it change while it starts.          *)
THEOREM ConfigurationIsAlwaysFollowed == Spec => ConfigurationIsFollowed
<1> DEFINE Due(c) == IF served'[c] = c THEN bound[c] ELSE configuration
           Follows == \A c \in Calls : served[c] = None /\ served'[c] # None =>
                         started'[served'[c]] >= Due(c)
<1>1. ASSUME IInv, Next PROVE Follows
  <2> SUFFICES ASSUME NEW c \in Calls, served[c] = None, served'[c] # None
               PROVE  started'[served'[c]] >= Due(c)
    OBVIOUS
  <2>0. TypeOK /\ Rest BY <1>1 DEF IInv, Rest
  <2>1. ASSUME NEW d \in Calls, Reuse(d) PROVE started'[served'[c]] >= Due(c)
    <3>1. /\ process \in Calls /\ bound[process] = configuration /\ started' = started
          /\ Write(d, process)
      BY <2>0, <2>1 DEF Reuse, Healthy, TypeOK, workerVars
    <3>2. served'[c] = process
      BY <1>1, <3>1, WriteEffect
    <3>3. WorkerInv(process) /\ WorkerInv(c) /\ stage[process] # "unborn"
      BY <2>0, <3>1 DEF Rest, WorkerInv
    <3>4. started[process] = configuration /\ bound[c] <= configuration
      BY <2>0, <3>1, <3>3 DEF WorkerInv, TypeOK
    <3>5. configuration \in Nat /\ bound[c] \in Nat BY <2>0 DEF TypeOK
    <3> QED BY <3>1, <3>2, <3>4, <3>5
  <2>2. ASSUME NEW d \in Calls, Started(d) PROVE started'[served'[c]] >= Due(c)
    <3>1. c = d /\ served'[c] = c /\ started' = started
      BY <1>1, <2>2, StartedEffect DEF Started
    <3>2. bound[c] <= started[c] /\ bound[c] \in Nat /\ started[c] \in Nat
      BY <2>0, <2>2, <3>1 DEF Started, Rest, WorkerInv, TypeOK
    <3> QED BY <3>1, <3>2
  <2>3. ASSUME served' = served PROVE FALSE BY <2>3
  <2>4. \/ \E d \in Calls : Reuse(d) \/ Started(d)
        \/ served' = served
    BY <1>1 DEF Next, Call, Ensure, Replace, CloseEnds, Start, SpawnFails, AbortEnds, Abort,
       Await, Drain, Wake, Timeout, Leave, Cancel, Route, Unusable, Reading, EndOfFile,
       StopReading, ReaderEnds, Read, Reply, Job, Exit, Die, Kill, Ends, Reap, Outside,
       Release, ReleaseEnds, Reconfigure, callVars
  <2> QED BY <2>1, <2>2, <2>3, <2>4
<1>2. IInv /\ [Next]_vars => [Follows]_vars BY <1>1
<1> QED BY <1>2, Invariance, PTL DEF Spec, ConfigurationIsFollowed

(***************************************************************************)
(* What remains of ExitIsTrue until the bridge is closed by the            *)
(* application or the configuration changes.                               *)
(***************************************************************************)
(* What most steps have in common: calls keep their worker and the bridge  *)
(* its own, no reader starts, and nobody who closes a worker stops waiting.*)
Quiet ==
    /\ UNCHANGED <<served, process>>
    /\ \A c \in Calls : future'[c] = future[c] \/ (c \in pending /\ future'[c] = "answer")
    /\ \A w \in Calls : \/ stage'[w] = stage[w]
                        \/ stage[w] = "unborn" /\ stage'[w] = "alive"
                        \/ stage[w] = "alive" /\ stage'[w] = "dead"
                        \/ stage[w] = "dead" /\ stage'[w] = "reaped"
    /\ \A w \in Calls : reader'[w] = "reading" => reader[w] = "reading"
    /\ \A d \in Calls : pc[d] = "closing" => pc'[d] = "closing" /\ closing'[d] = closing[d]
    /\ Undisturbed' => Undisturbed

LEMMA QuietKeeps == ASSUME IInv, ExitInv, Quiet PROVE ExitInv'
<1>0. TypeOK /\ PendingIsServed BY DEF IInv
<1>1. \A c \in Calls : served'[c] # None => stage'[served'[c]] # "unborn"
  BY <1>0 DEF ExitInv, Quiet, TypeOK
<1>2. ASSUME NEW c \in Calls, future'[c] # "none" PROVE served'[c] # None
  <2>1. CASE future'[c] = future[c] BY <1>2, <2>1 DEF ExitInv, Quiet
  <2>2. CASE c \in pending BY <1>0, <2>2 DEF ExitInv, Quiet, PendingIsServed
  <2> QED BY <2>1, <2>2 DEF Quiet
<1>3. ASSUME Undisturbed', NEW c \in Calls, future'[c] = "exited"
      PROVE  stage'[served'[c]] # "alive"
  <2>1. future[c] = "exited" /\ served'[c] = served[c] /\ served[c] \in Calls
    BY <1>0, <1>3 DEF Quiet, ExitInv, TypeOK
  <2>2. stage[served[c]] \notin {"alive", "unborn"}
    BY <1>3, <2>1, Fresh DEF Quiet, ExitInv, ExitIsTrue
  <2> QED BY <2>1, <2>2 DEF Quiet
<1>4. ASSUME Undisturbed', NEW w \in Calls PROVE ReaderIsAwaited(w)'
  BY <1>4 DEF Quiet, ExitInv, ReaderIsAwaited
<1> QED BY <1>1, <1>2, <1>3, <1>4 DEF ExitInv, ExitIsTrue

(* The steps of calls that are quiet.                                      *)
LEMMA CallsAreQuiet ==
    ASSUME IInv, NEW c \in Calls,
           \/ Call(c) \/ Await(c) \/ SpawnFails(c) \/ AbortEnds(c) \/ Route(c)
           \/ Cancel(c) /\ pc[c] # "closing"
    PROVE  Quiet
<1>0. TypeOK /\ PendingIsServed BY DEF IInv
<1>1. /\ UNCHANGED <<served, process, stage, reader, lifespan, configuration>>
      /\ closing' = closing \/ (closing' = [closing EXCEPT ![c] = None] /\ pc[c] # "closing")
      /\ \/ pc' = pc
         \/ /\ pc[c] # "closing"
            /\ \E s \in {"ensuring", "sent", "failed", "answered", "gone"} :
                  pc' = [pc EXCEPT ![c] = s]
  <2>1. CASE Call(c) BY <2>1 DEF Call, Goto, callVars, bridgeVars, workerVars, outerVars
  <2>2. CASE Drain(c) BY <2>2 DEF Drain, Goto, workerVars, outerVars
  <2>3. CASE Wake(c) \/ Timeout(c)
    <3>1. PICK s \in {"answered", "failed", "gone"} : Leave(c, s) /\ UNCHANGED closing
      BY <2>3 DEF Wake, Timeout
    <3>2. pc[c] = "sent" BY <2>3 DEF Wake, Timeout
    <3> QED BY <3>1, <3>2 DEF Leave, Goto, workerVars, outerVars
  <2>4. CASE SpawnFails(c) \/ AbortEnds(c)
    BY <2>4 DEF SpawnFails, AbortEnds, Goto, workerVars, outerVars
  <2>5. CASE Route(c) BY <2>5 DEF Route, workerVars, outerVars
  <2>6. CASE Cancel(c) /\ pc[c] # "closing"
    BY <2>6 DEF Cancel, Leave, Goto, workerVars, outerVars
  <2> QED BY <2>1, <2>2, <2>3, <2>4, <2>5, <2>6 DEF Await
<1>2. \A d \in Calls : closing'[d] = closing[d] \/ (d = c /\ pc[c] # "closing")
  BY <1>0, <1>1 DEF TypeOK, Closers
<1>3. future' = future \/ (future' = [future EXCEPT ![c] = IF c \in pending THEN "answer" ELSE @])
  BY DEF Call, Await, Drain, Wake, Timeout, SpawnFails, AbortEnds, Route, Cancel, Leave
<1>4. \A d \in Calls : future'[d] = future[d] \/ (d \in pending /\ future'[d] = "answer")
  BY <1>0, <1>3 DEF TypeOK
<1>5. \A d \in Calls : pc[d] = "closing" => pc'[d] = "closing" /\ closing'[d] = closing[d]
  BY <1>0, <1>1, <1>2 DEF TypeOK
<1> QED BY <1>1, <1>4, <1>5 DEF Quiet, Undisturbed

(* A worker starts, or is killed before anyone reads it.                   *)
LEMMA LaunchIsQuiet == ASSUME IInv, NEW c \in Calls, Start(c) \/ Abort(c) PROVE Quiet
<1>0. TypeOK /\ \A w \in Calls : WorkerInv(w) BY DEF IInv
<1>1. /\ UNCHANGED <<served, process, future, reader, closing, lifespan, configuration>>
      /\ pc[c] # "closing" /\ \A d \in Calls \ {c} : pc'[d] = pc[d]
  BY <1>0 DEF Start, Abort, Goto, TypeOK, bridgeVars, outerVars
<1>2. \A w \in Calls : \/ stage'[w] = stage[w]
                       \/ stage[w] = "unborn" /\ stage'[w] = "alive"
                       \/ stage[w] = "alive" /\ stage'[w] = "dead"
  BY <1>0 DEF Start, Abort, TypeOK, WorkerInv
<1> QED BY <1>1, <1>2 DEF Quiet, Undisturbed

(* The steps of workers, and of the outside, that are quiet.               *)
LEMMA WorkersAreQuiet ==
    ASSUME IInv,
           \/ \E w \in Calls : ReaderEnds(w) \/ Read(w) \/ Reply(w) \/ Exit(w) \/ Die(w) \/ Reap(w)
           \/ \E x \in Closers : Kill(x)
           \/ ReleaseEnds \/ Reconfigure \/ UNCHANGED vars
    PROVE  Quiet
<1>0. TypeOK BY DEF IInv
<1>1. UNCHANGED <<callVars, process>>
  BY DEF ReaderEnds, Read, Reply, Job, Exit, Die, Ends, Reap, Kill, ReleaseEnds, Reconfigure,
     vars, callVars, bridgeVars
<1>2. \A d \in Calls : closing'[d] = closing[d]
  BY <1>0, Fresh DEF ReaderEnds, Read, Reply, Job, Exit, Die, Ends, Reap, Kill, ReleaseEnds,
     Reconfigure, vars, bridgeVars, TypeOK, Closers
<1>3. \A w \in Calls : \/ stage'[w] = stage[w]
                       \/ stage[w] = "alive" /\ stage'[w] = "dead"
                       \/ stage[w] = "dead" /\ stage'[w] = "reaped"
  BY <1>0 DEF ReaderEnds, Read, Reply, Job, Exit, Die, Ends, Reap, Kill, ReleaseEnds,
     Reconfigure, vars, workerVars, TypeOK
<1>4. \A w \in Calls : reader'[w] = "reading" => reader[w] = "reading"
  BY <1>0 DEF ReaderEnds, Read, Reply, Job, Exit, Die, Ends, Reap, Kill, ReleaseEnds,
     Reconfigure, vars, workerVars, TypeOK
<1>5. Undisturbed' => Undisturbed
  BY <1>0 DEF ReaderEnds, Read, Reply, Job, Exit, Die, Ends, Reap, Kill, ReleaseEnds,
     Reconfigure, vars, outerVars, TypeOK, Undisturbed
<1> QED BY <1>1, <1>2, <1>3, <1>4, <1>5 DEF Quiet, callVars

(* While the lock is free, or its holder starts a worker, nobody is        *)
(* closing one, and the bridge's worker is the only one that is read.      *)
LEMMA OnlyOneIsRead ==
    ASSUME IInv, ExitInv, Undisturbed, \A d \in Calls : pc[d] # "closing"
    PROVE  \A w \in Calls : reader[w] = "reading" => w = process
BY DEF ExitInv, ReaderIsAwaited

(* A call is given a worker: the bridge's, or the one it started, which    *)
(* becomes the bridge's even if it has exited.                             *)
LEMMA WriteKeepsExit ==
    ASSUME IInv, ExitInv, NEW c \in Calls, Reuse(c) \/ Started(c)
    PROVE  ExitInv'
<1>0. TypeOK /\ \A w \in Calls : WorkerInv(w) /\ CallInv(w) BY DEF IInv
<1>1. PICK w \in Calls :
         /\ process' = w /\ process \in {None, w} /\ UNCHANGED <<outerVars, stage>>
         /\ stage[w] # "unborn"
         /\ \A v \in Calls : reader'[v] = reader[v] \/ v = w
         /\ \A d \in Calls \ {c} : future'[d] = future[d] /\ served'[d] = served[d]
         /\ \/ future'[c] = "open" /\ served'[c] = w
            \/ future'[c] = future[c] /\ served'[c] = served[c]
  <2>1. CASE Reuse(c)
    <3>1. /\ process \in Calls /\ Write(c, process)
          /\ UNCHANGED <<process, outerVars, stage, reader>>
      BY <1>0, <2>1 DEF Reuse, Healthy, TypeOK, workerVars
    <3>2. stage[process] # "unborn" BY <1>0, <3>1 DEF WorkerInv
    <3> QED BY <3>1, <3>2, WriteEffect
  <2>2. CASE Started(c)
    <3>1. stage[c] # "unborn" /\ process = None
      BY <1>0, <2>2 DEF Started, WorkerInv, CallInv, Locked
    <3>2. /\ process' = c /\ UNCHANGED <<outerVars, stage>>
          /\ \A v \in Calls \ {c} : reader'[v] = reader[v]
      BY <1>0, <2>2 DEF Started, TypeOK
    <3> QED BY <2>2, <3>1, <3>2, StartedEffect
  <2> QED BY <2>1, <2>2
<1>3. \A d \in Calls : pc[d] # "closing"
  BY <1>0, Fresh DEF Reuse, Started, TypeOK, Locked
<1>4. ASSUME NEW d \in Calls
      PROVE  /\ served'[d] # None => stage'[served'[d]] # "unborn"
             /\ future'[d] # "none" => served'[d] # None
  <2>1. CASE future'[d] = future[d] /\ served'[d] = served[d] BY <1>1, <2>1 DEF ExitInv
  <2>2. CASE served'[d] = w BY <1>1, <2>2, Fresh
  <2> QED BY <1>1, <2>1, <2>2
<1>5. ASSUME Undisturbed' PROVE ExitIsTrue' /\ \A v \in Calls : ReaderIsAwaited(v)'
  <2>1. Undisturbed BY <1>1, <1>5 DEF Undisturbed, outerVars
  <2>2. ASSUME NEW d \in Calls, future'[d] = "exited" PROVE stage'[served'[d]] # "alive"
    <3>1. future[d] = "exited" /\ served'[d] = served[d] BY <1>1, <2>2
    <3> QED BY <1>1, <2>1, <3>1 DEF ExitInv, ExitIsTrue
  <2>3. \A v \in Calls : reader[v] = "reading" => v = process
    BY <1>3, <2>1, OnlyOneIsRead
  <2>4. \A v \in Calls : ReaderIsAwaited(v)'
    BY <1>1, <2>3, Fresh DEF ReaderIsAwaited
  <2> QED BY <2>2, <2>4 DEF ExitIsTrue
<1> QED BY <1>4, <1>5 DEF ExitInv

(* A call takes the lock to replace the worker: as nothing disturbed the   *)
(* bridge, it is one that has exited, and the call waits for its reader.   *)
LEMMA ReplaceKeepsExit == ASSUME IInv, ExitInv, NEW c \in Calls, Replace(c) PROVE ExitInv'
<1>0. TypeOK /\ PendingIsServed /\ \A w \in Calls : WorkerInv(w) BY DEF IInv
<1>1. /\ Aclose(c) /\ lock = None /\ process' = None /\ c \in Closers
      /\ UNCHANGED <<served, stage, reader, lifespan, configuration>>
      /\ ~Healthy(process)
      /\ pc' = [pc EXCEPT ![c] = IF process = None THEN "spawning" ELSE "closing"]
  BY DEF Replace, Aclose, Goto, outerVars, Closers
<1>2. \A d \in Calls : future'[d] = future[d] \/ (d \in pending /\ future'[d] = "closed")
  BY <1>0, <1>1 DEF Aclose, FailPending, TypeOK
<1>3. \A d \in Calls : future'[d] # "none" => served'[d] # None
  BY <1>0, <1>1, <1>2 DEF ExitInv, PendingIsServed
<1>4. ASSUME Undisturbed' PROVE ExitIsTrue' /\ \A v \in Calls : ReaderIsAwaited(v)'
  <2>1. Undisturbed BY <1>1, <1>4 DEF Undisturbed
  <2>2. ExitIsTrue' BY <1>1, <1>2, <2>1 DEF ExitInv, ExitIsTrue
  <2>3. \A d \in Calls : pc[d] # "closing" BY <1>0, <1>1, Fresh DEF TypeOK, Locked
  <2>4. ASSUME NEW v \in Calls, reader'[v] = "reading"
        PROVE  stage'[v] = "reaped" /\ pc'[c] = "closing" /\ closing'[c] = v
    <3>1. v = process /\ process # None
      BY <1>1, <2>1, <2>3, <2>4, OnlyOneIsRead, Fresh
    <3>2. bound[v] = configuration
      BY <1>0, <2>1 DEF WorkerInv, TypeOK, Undisturbed
    <3>3. stage[v] = "reaped" BY <1>1, <3>1, <3>2 DEF Healthy
    <3>4. pc'[c] = "closing" /\ closing'[c] = v
      BY <1>0, <1>1, <3>1 DEF Aclose, TypeOK
    <3> QED BY <1>1, <3>3, <3>4
  <2> QED BY <2>2, <2>4 DEF ReaderIsAwaited
<1> QED BY <1>1, <1>3, <1>4 DEF ExitInv

(* The call that closes a worker goes on, or is cancelled: not before the  *)
(* reader of a worker that has exited is done.                             *)
LEMMA LeaveKeepsExit ==
    ASSUME IInv, ExitInv, NEW c \in Calls, CloseEnds(c) \/ Cancel(c), pc[c] = "closing"
    PROVE  ExitInv'
<1>0. TypeOK BY DEF IInv
<1>1. UNCHANGED <<future, served, process, stage, reader, lifespan, configuration>>
  BY DEF CloseEnds, Cancel, Leave, workerVars, outerVars
<1>2. stage[closing[c]] = "reaped" => reader[closing[c]] # "reading"
  BY DEF CloseEnds, Cancel, Closed
<1>3. \A d \in Calls \ {c} : pc'[d] = pc[d] /\ closing'[d] = closing[d]
  BY <1>0 DEF CloseEnds, Cancel, Leave, Goto, TypeOK, Closers
<1>4. ASSUME Undisturbed', NEW v \in Calls PROVE ReaderIsAwaited(v)'
  <2> SUFFICES ASSUME reader[v] = "reading", v # process
               PROVE  stage[v] = "reaped" /\ \E d \in Calls : pc'[d] = "closing" /\ closing'[d] = v
    BY <1>1 DEF ReaderIsAwaited
  <2>1. PICK d \in Calls : pc[d] = "closing" /\ closing[d] = v /\ stage[v] = "reaped"
    BY <1>1, <1>4 DEF ExitInv, ReaderIsAwaited, Undisturbed
  <2>2. d # c BY <1>2, <2>1
  <2> QED BY <1>3, <2>1, <2>2
<1> QED BY <1>1, <1>4 DEF ExitInv, ExitIsTrue, Undisturbed

(* The application closes the bridge: a disturbance.                       *)
LEMMA ReleaseKeepsExit == ASSUME IInv, ExitInv, Release PROVE ExitInv'
<1>0. TypeOK /\ PendingIsServed BY DEF IInv
<1>1. Aclose(Lifespan) /\ UNCHANGED <<served, stage>> /\ lifespan' # "serving"
  BY DEF Release
<1>2. \A d \in Calls : future'[d] = future[d] \/ d \in pending
  BY <1>0, <1>1 DEF Aclose, FailPending, TypeOK
<1>3. \A d \in Calls : future'[d] # "none" => served'[d] # None
  BY <1>0, <1>1, <1>2 DEF ExitInv, PendingIsServed
<1> QED BY <1>1, <1>3 DEF ExitInv, Undisturbed

(* A reader fails the pending calls: they were sent to its own worker, as  *)
(* nothing is pending while another worker is still being read.            *)
LEMMA StopKeepsExit ==
    ASSUME IInv, ExitInv, NEW w \in Calls, Unusable(w) \/ EndOfFile(w)
    PROVE  ExitInv'
<1>0. TypeOK /\ PendingIsServed /\ \A d \in Calls : WorkerInv(d) /\ CallInv(d) BY DEF IInv
<1>1. PICK reason \in {"unusable", "exited"} :
         /\ StopReading(w, reason)
         /\ reason = "exited" => stage[w] \in {"dead", "reaped"}
  BY DEF Unusable, EndOfFile
<1>2. /\ UNCHANGED <<pc, served, closing, lifespan, configuration>>
      /\ process' = IF process = w THEN None ELSE process
      /\ reader[w] = "reading"
  BY <1>1 DEF Unusable, EndOfFile, StopReading
<1>3. /\ \A d \in Calls : stage'[d] = stage[d] \/ (stage[d] = "alive" /\ stage'[d] = "dead")
      /\ reader'[w] = "waiting" /\ \A d \in Calls \ {w} : reader'[d] = reader[d]
      /\ \A d \in Calls : future'[d] = IF d \in pending THEN reason ELSE future[d]
  BY <1>0, <1>1 DEF StopReading, FailPending, TypeOK
<1>4. ASSUME NEW d \in Calls
      PROVE  /\ served'[d] # None => stage'[served'[d]] # "unborn"
             /\ future'[d] # "none" => served'[d] # None
  <2>1. served[d] \in Calls \cup {None} /\ (d \in pending => future[d] = "open")
    BY <1>0 DEF TypeOK, PendingIsServed
  <2> QED BY <1>2, <1>3, <2>1 DEF ExitInv
<1>5. ASSUME Undisturbed' PROVE ExitIsTrue' /\ \A v \in Calls : ReaderIsAwaited(v)'
  <2>1. Undisturbed BY <1>2, <1>5 DEF Undisturbed
  <2>2. ASSUME NEW d \in Calls, future'[d] = "exited" PROVE stage'[served'[d]] # "alive"
    <3>1. served'[d] = served[d] /\ served[d] \in Calls
      BY <1>0, <1>2, <1>4, <2>2 DEF TypeOK
    <3>2. CASE d \in pending
      <4>1. reason = "exited" /\ served[d] = process /\ process # None
        BY <1>0, <1>3, <2>2, <3>2 DEF PendingIsServed, CallInv
      <4>2. w = process
        BY <1>0, <1>2, <2>1, <4>1 DEF ExitInv, ReaderIsAwaited, CallInv, Locked
      <4> QED BY <1>1, <1>3, <3>1, <4>1, <4>2
    <3>3. CASE d \notin pending
      BY <1>3, <2>1, <2>2, <3>1, <3>3 DEF ExitInv, ExitIsTrue
    <3> QED BY <3>2, <3>3
  <2>3. \A v \in Calls : ReaderIsAwaited(v)'
    BY <1>2, <1>3, <2>1, Fresh DEF ExitInv, ReaderIsAwaited
  <2> QED BY <2>2, <2>3 DEF ExitIsTrue
<1> QED BY <1>4, <1>5 DEF ExitInv

(* Every step keeps it.                                                    *)
LEMMA ExitStep == IInv /\ ExitInv /\ [Next]_vars => ExitInv'
<1> SUFFICES ASSUME IInv, ExitInv, [Next]_vars PROVE ExitInv'
  OBVIOUS
<1>1. ASSUME NEW c \in Calls,
             \/ Call(c) \/ Ensure(c) \/ Abort(c) \/ Await(c) \/ Cancel(c)
             \/ Route(c) \/ Unusable(c) \/ Reading(c)
             \/ Read(c) \/ Reply(c) \/ Exit(c) \/ Die(c) \/ Reap(c)
      PROVE  ExitInv'
  <2>1. CASE Call(c) \/ Await(c) \/ Route(c) BY <2>1, CallsAreQuiet, QuietKeeps
  <2>2. CASE Cancel(c) BY <2>2, CallsAreQuiet, QuietKeeps, LeaveKeepsExit
  <2>3. CASE Ensure(c) \/ Abort(c)
    <3>1. CloseEnds(c) => pc[c] = "closing" BY DEF CloseEnds
    <3> QED BY <2>3, <3>1, WriteKeepsExit, ReplaceKeepsExit, LeaveKeepsExit, CallsAreQuiet,
          LaunchIsQuiet, QuietKeeps DEF Ensure
  <2>4. CASE Unusable(c) \/ EndOfFile(c) BY <2>4, StopKeepsExit
  <2>5. CASE ReaderEnds(c) \/ Read(c) \/ Reply(c) \/ Exit(c) \/ Die(c) \/ Reap(c)
    BY <2>5, WorkersAreQuiet, QuietKeeps
  <2> QED BY <1>1, <2>1, <2>2, <2>3, <2>4, <2>5 DEF Reading
<1>2. CASE \/ \E x \in Closers : Kill(x)
           \/ ReleaseEnds \/ Reconfigure \/ UNCHANGED vars
  BY <1>2, WorkersAreQuiet, QuietKeeps
<1>3. CASE Release BY <1>3, ReleaseKeepsExit
<1> QED BY <1>1, <1>2, <1>3 DEF Next, Outside

(* No call fails for the end of another worker than its own while the      *)
(* bridge is open and the configuration is the one it started with.        *)
THEOREM ExitIsTrueUntilDisturbed == Spec => []ExitIsTrueUndisturbed
<1>1. Init => ExitInv BY Fresh DEF Init, ExitInv, ExitIsTrue, ReaderIsAwaited
<1>2. ExitInv => ExitIsTrueUndisturbed BY DEF ExitInv, ExitIsTrueUndisturbed
<1> QED BY <1>1, <1>2, ExitStep, Invariance, PTL DEF Spec

=============================================================================
