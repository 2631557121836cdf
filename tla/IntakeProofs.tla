---------------------------- MODULE IntakeProofs ----------------------------
(***************************************************************************)
(* Proofs about Intake, for every set of instances, attempts and keys, and *)
(* any number of faults of every kind.                                     *)
(***************************************************************************)
EXTENDS Intake, TLAPS

(* The constants are as Intake assumes them.                               *)
USE IntakeAssumption

(* journey-management is called three times at most before create_booking  *)
(* gives up: what IntakeTypeOK needs to be inductive.                      *)
TriesLeft == \A a \in Attempt : pc[a] # "refused" => tries[a] <= 2

Typed == IntakeTypeOK /\ TriesLeft

(* A fault is one of the kinds, numbered below the bound; what happened    *)
(* stays happened.                                                         *)
LEMMA FaultTypes ==
    ASSUME NEW kind, Fault(kind), faults \subseteq AllFaults \X (1 .. MaxFaults)
    PROVE  /\ faults' \subseteq AllFaults \X (1 .. MaxFaults)
           /\ faults \subseteq faults'
           /\ Happened(kind)'
<1>1. PICK n \in 1 .. MaxFaults :
         /\ \A m \in 1 .. n - 1 : <<kind, m>> \in faults
         /\ faults' = faults \cup {<<kind, n>>}
  BY DEF Fault
<1>2. kind \in AllFaults
  BY DEF Fault
<1>3. <<kind, n>> \in AllFaults \X (1 .. MaxFaults)
  BY <1>1, <1>2
<1>4. CASE n = 1
  BY <1>1, <1>3, <1>4 DEF Happened
<1>5. CASE n # 1
  <2>1. 1 \in 1 .. n - 1
    BY <1>5
  <2>2. <<kind, 1>> \in faults
    BY <1>1, <2>1
  <2>3. QED
    BY <1>1, <1>3, <2>2 DEF Happened
<1>6. QED
  BY <1>4, <1>5

(* The handlers keep the types.                                            *)
LEMMA HandleKeepsTypes ==
    ASSUME Typed, NEW a \in Attempt, Handle(a) \/ FailAt(a)
    PROVE  Typed'
<1> USE DEF Typed, IntakeTypeOK, TriesLeft, Goto, Answer, workerVars, kafkaVars
<1>1. CASE CheckIdem(a)
  <2>1. Cached(a) \in Attempt \cup {None}
    BY DEF Cached
  <2>2. \/ /\ Cached(a) # None
           /\ pc' = [pc EXCEPT ![a] = "answered"]
           /\ reply' = [reply EXCEPT ![a] = Cached(a)]
        \/ pc' = [pc EXCEPT ![a] = "plan"] /\ UNCHANGED reply
    BY <1>1 DEF CheckIdem
  <2>3. pc[a] = "check" /\ tries' = tries /\ server' = server
    BY <1>1 DEF CheckIdem
  <2>4. /\ pc' \in [Attempt -> {"client", "check", "plan", "send", "flush", "saga", "store",
                                "answered", "refused"}]
        /\ reply' \in [Attempt -> Attempt \cup {None}]
        /\ \A b \in Attempt : /\ pc'[b] # "client" => server[b] \in Server
                              /\ pc'[b] = "answered" => reply'[b] \in Attempt
    <3>1. CASE /\ Cached(a) # None
               /\ pc' = [pc EXCEPT ![a] = "answered"]
               /\ reply' = [reply EXCEPT ![a] = Cached(a)]
      BY <2>1, <2>3, <3>1
    <3>2. CASE pc' = [pc EXCEPT ![a] = "plan"] /\ UNCHANGED reply
      BY <2>3, <3>2
    <3>3. QED
      BY <2>2, <3>1, <3>2
  <2>5. TriesLeft'
    BY <2>2, <2>3
  <2>6. QED
    BY <1>1, <2>3, <2>4, <2>5 DEF CheckIdem
<1>2. CASE Planned(a)
  BY <1>2 DEF Planned
<1>3. CASE Send(a)
  <2>1. server[a] \in Server
    BY <1>3 DEF Send
  <2>2. buffer' \in [Server -> [Attempt -> Nat]]
    BY <1>3, <2>1 DEF Send, Buffer
  <2>3. QED
    BY <1>3, <2>2 DEF Send
<1>4. CASE Flush(a)
  BY <1>4 DEF Flush
<1>5. CASE PostSaga(a)
  BY <1>5 DEF PostSaga
<1>6. CASE StoreIdem(a)
  <2>1. idem' \in [Key -> Attempt \cup {None}]
    BY <1>6 DEF StoreIdem, Stored
  <2>2. faults' \subseteq AllFaults \X (1 .. MaxFaults)
    BY <1>6, FaultTypes DEF StoreIdem
  <2>3. QED
    BY <1>6, <2>1, <2>2 DEF StoreIdem
<1>7. CASE CheckIdemFails(a)
  <2>1. faults' \subseteq AllFaults \X (1 .. MaxFaults)
    BY <1>7, FaultTypes DEF CheckIdemFails
  <2>2. QED
    BY <1>7, <2>1 DEF CheckIdemFails
<1>8. CASE PlanFails(a)
  <2>1. faults' \subseteq AllFaults \X (1 .. MaxFaults)
    BY <1>8, FaultTypes DEF PlanFails
  <2>2. QED
    BY <1>8, <2>1 DEF PlanFails
<1>9. CASE PublishRaises(a)
  <2>1. faults' \subseteq AllFaults \X (1 .. MaxFaults)
    BY <1>9, FaultTypes DEF PublishRaises
  <2>2. pc[a] \in {"send", "flush"} /\ server[a] \in Server
    BY <1>9 DEF PublishRaises
  <2>3. outbox' \in [Server -> SUBSET Attempt]
    BY <1>9, <2>2 DEF PublishRaises
  <2>4. QED
    BY <1>9, <2>1, <2>2, <2>3 DEF PublishRaises
<1>10. CASE PostSagaUnanswered(a)
  <2>1. faults' \subseteq AllFaults \X (1 .. MaxFaults)
    BY <1>10, FaultTypes DEF PostSagaUnanswered
  <2>2. /\ pc[a] = "saga"
        /\ pc' = [pc EXCEPT ![a] = IF tries[a] = 2 THEN "refused" ELSE "saga"]
        /\ tries' = [tries EXCEPT ![a] = tries[a] + 1]
        /\ UNCHANGED <<cross, server, reply, after, idem, outbox, workerVars, kafkaVars>>
    BY <1>10 DEF PostSagaUnanswered
  <2>3. sagas' \in [Attempt -> Nat]
    <3>1. CASE sagas' = sagas
      BY <3>1
    <3>2. CASE sagas' = [sagas EXCEPT ![a] = sagas[a] + 1]
      BY <3>2
    <3>3. QED
      BY <1>10, <3>1, <3>2 DEF PostSagaUnanswered
  <2>4. tries[a] \in 0 .. 2
    <3>1. pc[a] # "refused" /\ tries[a] \in 0 .. 3
      BY <1>10 DEF PostSagaUnanswered
    <3>2. tries[a] <= 2
      BY <3>1
    <3>3. QED
      BY <3>1, <3>2
  <2>5. tries' \in [Attempt -> 0 .. 3]
    BY <2>2, <2>4
  <2>6. TriesLeft'
    <3> SUFFICES ASSUME NEW b \in Attempt, pc'[b] # "refused" PROVE tries'[b] <= 2
      OBVIOUS
    <3>1. CASE b = a
      BY <2>2, <2>4, <3>1
    <3>2. CASE b # a
      BY <2>2, <3>2
    <3>3. QED
      BY <3>1, <3>2
  <2>7. QED
    BY <2>1, <2>2, <2>3, <2>5, <2>6
<1>11. CASE PostSagaRefused(a)
  <2>1. faults' \subseteq AllFaults \X (1 .. MaxFaults)
    BY <1>11, FaultTypes DEF PostSagaRefused
  <2>2. /\ pc[a] = "saga" /\ pc' = [pc EXCEPT ![a] = "refused"]
        /\ UNCHANGED <<cross, server, reply, tries, after, idem, outbox, workerVars, kafkaVars>>
    BY <1>11 DEF PostSagaRefused
  <2>3. sagas' \in [Attempt -> Nat]
    <3>1. CASE sagas' = sagas
      BY <3>1
    <3>2. CASE sagas' = [sagas EXCEPT ![a] = sagas[a] + 1]
      BY <3>2
    <3>3. QED
      BY <1>11, <3>1, <3>2 DEF PostSagaRefused
  <2>4. QED
    BY <2>1, <2>2, <2>3
<1>12. QED
  BY <1>1, <1>2, <1>3, <1>4, <1>5, <1>6, <1>7, <1>8, <1>9, <1>10, <1>11
     DEF Handle, FailAt

(* So do arrivals, the outbox worker, the producer's thread, crashes and   *)
(* expiring keys.                                                          *)
LEMMA RestKeepsTypes ==
    ASSUME Typed,
           \/ \E a \in Attempt, s \in Server : Arrive(a, s)
           \/ \E s \in Server : Work(s) \/ Crash(s) \/ (\E a \in Attempt : Transmit(s, a))
           \/ \E k \in Key : ExpireIdem(k)
           \/ UNCHANGED vars
    PROVE  Typed'
<1> USE DEF Typed, IntakeTypeOK, TriesLeft, Goto, workerVars, kafkaVars, requestVars
<1>1. ASSUME NEW a \in Attempt, NEW s \in Server, Arrive(a, s) PROVE Typed'
  BY <1>1 DEF Arrive, Answered
<1>2. ASSUME NEW s \in Server, Drain(s) PROVE Typed'
  <2>1. failed[s] = {} /\ unsent[s] = {}
    BY <1>2 DEF Drain
  <2>2. QED
    BY <1>2, <2>1 DEF Drain
<1>3. ASSUME NEW s \in Server, NEW a \in Attempt, Resend(s, a) PROVE Typed'
  <2>1. faults' \subseteq AllFaults \X (1 .. MaxFaults)
    BY <1>3, FaultTypes DEF Resend
  <2>2. /\ a \in unsent[s] /\ unsent' = [unsent EXCEPT ![s] = @ \ {a}]
        /\ UNCHANGED <<cross, requestVars, idem, outbox, batch, published>>
    BY <1>3 DEF Resend
  <2>3. CASE buffer' = [buffer EXCEPT ![s][a] = @ + 1] /\ failed' = failed
    BY <2>1, <2>2, <2>3
  <2>4. CASE failed' = [failed EXCEPT ![s] = @ \cup {a}] /\ buffer' = buffer
    BY <2>1, <2>2, <2>4
  <2>5. QED
    BY <1>3, <2>3, <2>4 DEF Resend, Buffer
<1>4. ASSUME NEW s \in Server, FinishRound(s) PROVE Typed'
  <2>1. faults' \subseteq AllFaults \X (1 .. MaxFaults)
    BY <1>4, FaultTypes DEF FinishRound
  <2>2. outbox' \in [Server -> SUBSET Attempt]
    <3>1. CASE outbox' = [outbox EXCEPT ![s] = @ \cup failed[s]]
      BY <3>1
    <3>2. CASE outbox' = [outbox EXCEPT ![s] = @ \cup batch[s]]
      BY <3>2
    <3>3. QED
      BY <1>4, <3>1, <3>2 DEF FinishRound, ToRequeue
  <2>3. /\ batch' \in [Server -> SUBSET Attempt]
        /\ failed' \in [Server -> SUBSET Attempt]
        /\ \A t \in Server : unsent[t] \cup failed'[t] \subseteq batch'[t]
    BY <1>4 DEF FinishRound, FailedAfterRound
  <2>4. QED
    BY <1>4, <2>1, <2>2, <2>3 DEF FinishRound
<1>5. ASSUME NEW s \in Server, NEW a \in Attempt, Transmit(s, a) PROVE Typed'
  <2>1. faults' \subseteq AllFaults \X (1 .. MaxFaults)
    BY <1>5, FaultTypes DEF Transmit
  <2>2. /\ buffer' \in [Server -> [Attempt -> Nat]]
        /\ published' \in [Attempt -> Nat]
    <3>1. buffer[s][a] \in Nat /\ buffer[s][a] - 1 \in Nat /\ buffer[s] \in [Attempt -> Nat]
      BY <1>5 DEF Transmit
    <3>2. buffer' = [buffer EXCEPT ![s][a] = buffer[s][a] - 1]
      BY <1>5 DEF Transmit
    <3>3. buffer' \in [Server -> [Attempt -> Nat]]
      BY <3>1, <3>2
    <3>4. CASE published' = published
      BY <3>3, <3>4
    <3>5. CASE published' = [published EXCEPT ![a] = published[a] + 1]
      BY <3>3, <3>5
    <3>6. QED
      BY <1>5, <3>4, <3>5 DEF Transmit
  <2>3. QED
    BY <1>5, <2>1, <2>2 DEF Transmit
<1>6. ASSUME NEW s \in Server, Crash(s) PROVE Typed'
  <2>1. faults' \subseteq AllFaults \X (1 .. MaxFaults)
    BY <1>6, FaultTypes DEF Crash
  <2>2. /\ pc' \in [Attempt -> {"client", "check", "plan", "send", "flush", "saga", "store",
                                "answered", "refused"}]
        /\ \A a \in Attempt : /\ pc'[a] # "client" => server[a] \in Server
                              /\ pc'[a] = "answered" => reply[a] \in Attempt
        /\ TriesLeft'
    BY <1>6 DEF Crash
  <2>3. buffer' \in [Server -> [Attempt -> Nat]]
    BY <1>6 DEF Crash
  <2>4. QED
    BY <1>6, <2>1, <2>2, <2>3 DEF Crash
<1>7. ASSUME NEW k \in Key, ExpireIdem(k) PROVE Typed'
  <2>1. faults' \subseteq AllFaults \X (1 .. MaxFaults)
    BY <1>7, FaultTypes DEF ExpireIdem
  <2>2. QED
    BY <1>7, <2>1 DEF ExpireIdem
<1>8. CASE UNCHANGED vars
  BY <1>8 DEF vars
<1>9. QED
  BY <1>1, <1>2, <1>3, <1>4, <1>5, <1>6, <1>7, <1>8 DEF Work

(* Every step keeps the types.                                             *)
LEMMA StepKeepsTypes ==
    ASSUME Typed, [Next]_vars
    PROVE  Typed'
BY HandleKeepsTypes, RestKeepsTypes DEF Next

(* At the start no attempt has come and nothing is queued.                 *)
LEMMA InitTypes == Init => Typed
BY DEF Init, Typed, IntakeTypeOK, TriesLeft

(* The variables always have their types: what a worker still has to send  *)
(* or failed to send stays within its batch, and journey-management is     *)
(* never called a fourth time.                                             *)
THEOREM IntakeTypes == Spec => []IntakeTypeOK
<1>1. Typed /\ [Next]_vars => Typed'
  BY StepKeepsTypes
<1>2. Typed => IntakeTypeOK
  BY DEF Typed
<1>3. QED
  BY InitTypes, <1>1, <1>2, PTL DEF Spec

-----------------------------------------------------------------------------
(* Why ResubmissionIsSafe holds: an answer is in the cache before the      *)
(* client has it, so a later attempt under the key finds one and stops     *)
(* before it could queue, send or buffer anything of its own.              *)
Remembering == ~Happened("redis") /\ ~Happened("expire")

Untouched(b) ==
    /\ sagas[b] = 0
    /\ published[b] = 0
    /\ \A s \in Server : b \notin outbox[s] \cup batch[s] /\ buffer[s][b] = 0

Late(b) == \E a \in after[b] : KeyOf[a] # NoKey /\ KeyOf[a] = KeyOf[b]

NewAreUntouched == \A b \in Attempt : pc[b] \in {"client", "check"} => Untouched(b)

AfterAnswers == \A b \in Attempt : after[b] \subseteq Answered

CacheNamesAnswers == \A k \in Key : idem[k] # None => idem[k] \in Answered

AnswersAreCached ==
    Remembering => \A a \in Answered : KeyOf[a] # NoKey => idem[KeyOf[a]] # None

LateIsSafe(b) ==
    /\ pc[b] \in {"check", "answered", "refused"}
    /\ Untouched(b)
    /\ pc[b] = "answered" => reply[b] # b

LateAreSafe == Remembering => \A b \in Attempt : Late(b) => LateIsSafe(b)

Resubmission ==
    /\ Typed
    /\ NewAreUntouched
    /\ AfterAnswers
    /\ CacheNamesAnswers
    /\ AnswersAreCached
    /\ LateAreSafe

(* What happened stays happened, so a step that keeps the promise started  *)
(* from a state that did.                                                  *)
LEMMA FaultsStay ==
    ASSUME Typed, [Next]_vars
    PROVE  faults \subseteq faults' /\ (Remembering' => Remembering)
<1> USE DEF Typed, IntakeTypeOK
<1>1. \/ faults' = faults
      \/ \E kind \in AllFaults : Fault(kind)
  BY DEF Next, vars, Handle, FailAt, Work, CheckIdem, Planned, Send, Flush, PostSaga, StoreIdem,
     CheckIdemFails, PlanFails, PublishRaises, PostSagaUnanswered, PostSagaRefused, Arrive,
     Drain, FinishRound, Resend, Crash, Transmit, ExpireIdem, AllFaults
<1>2. faults \subseteq faults'
  BY <1>1, FaultTypes
<1>3. QED
  BY <1>2 DEF Remembering, Happened

(* An attempt that was answered stays answered, and keeps its answer.      *)
LEMMA AnswersStay ==
    ASSUME Typed, [Next]_vars
    PROVE  /\ Answered \subseteq Answered'
           /\ \A a \in Answered : reply'[a] = reply[a]
<1> USE DEF Typed, IntakeTypeOK, Answered, Goto, Answer
<1>1. ASSUME NEW a \in Attempt, Handle(a) \/ FailAt(a)
      PROVE  /\ Answered \subseteq Answered'
             /\ \A b \in Answered : reply'[b] = reply[b]
  <2>1. pc[a] # "answered"
    BY <1>1 DEF Handle, FailAt, CheckIdem, Planned, Send, Flush, PostSaga, StoreIdem,
       CheckIdemFails, PlanFails, PublishRaises, PostSagaUnanswered, PostSagaRefused
  <2>2. \A b \in Attempt \ {a} : pc'[b] = pc[b] /\ reply'[b] = reply[b]
    BY <1>1 DEF Handle, FailAt, CheckIdem, Planned, Send, Flush, PostSaga, StoreIdem,
       CheckIdemFails, PlanFails, PublishRaises, PostSagaUnanswered, PostSagaRefused
  <2>3. QED
    BY <2>1, <2>2
<1>2. ASSUME NEW a \in Attempt, NEW s \in Server, Arrive(a, s)
      PROVE  /\ Answered \subseteq Answered'
             /\ \A b \in Answered : reply'[b] = reply[b]
  BY <1>2 DEF Arrive
<1>3. ASSUME NEW s \in Server, Crash(s)
      PROVE  /\ Answered \subseteq Answered'
             /\ \A b \in Answered : reply'[b] = reply[b]
  BY <1>3 DEF Crash
<1>4. CASE UNCHANGED requestVars
  BY <1>4 DEF requestVars
<1>5. QED
  BY <1>1, <1>2, <1>3, <1>4 DEF Next, Work, Drain, Resend, FinishRound, Transmit, ExpireIdem,
     vars, requestVars

(* Which attempts are between the look-up in the cache and their answer.   *)
Placing == {"plan", "send", "flush", "saga", "store"}

(* Only an attempt that is placing its booking leaves a trace of it.       *)
LEMMA UntouchedStays ==
    ASSUME Typed, [Next]_vars, NEW b \in Attempt, Untouched(b), pc[b] \notin Placing
    PROVE  Untouched(b)'
<1> USE DEF Typed, IntakeTypeOK, Untouched, kafkaVars, workerVars
<1>1. ASSUME NEW a \in Attempt, Handle(a) \/ FailAt(a) PROVE Untouched(b)'
  <2>1. CASE UNCHANGED <<sagas, kafkaVars, outbox, workerVars>>
    BY <2>1
  <2>2. CASE Send(a)
    <3>1. a # b /\ server[a] \in Server
      BY <2>2 DEF Send, Placing
    <3>2. /\ buffer' = [buffer EXCEPT ![server[a]][a] = @ + 1]
          /\ UNCHANGED <<sagas, published, outbox, batch>>
      BY <2>2 DEF Send, Buffer
    <3>3. \A s \in Server : buffer'[s][b] = buffer[s][b]
      BY <3>1, <3>2
    <3>4. QED
      BY <3>2, <3>3
  <2>3. CASE PublishRaises(a)
    <3>1. a # b /\ server[a] \in Server
      BY <2>3 DEF PublishRaises, Placing
    <3>2. QED
      BY <2>3, <3>1 DEF PublishRaises
  <2>4. CASE PostSaga(a) \/ PostSagaUnanswered(a) \/ PostSagaRefused(a)
    <3>1. a # b
      BY <2>4 DEF PostSaga, PostSagaUnanswered, PostSagaRefused, Placing
    <3>2. UNCHANGED <<kafkaVars, outbox, workerVars>>
      BY <2>4 DEF PostSaga, PostSagaUnanswered, PostSagaRefused
    <3>3. CASE sagas' = sagas
      BY <3>2, <3>3
    <3>4. CASE sagas' = [sagas EXCEPT ![a] = @ + 1]
      BY <3>1, <3>2, <3>4
    <3>5. QED
      BY <2>4, <3>3, <3>4 DEF PostSaga, PostSagaUnanswered, PostSagaRefused
  <2>5. QED
    BY <1>1, <2>1, <2>2, <2>3, <2>4 DEF Handle, FailAt, CheckIdem, Planned, Flush, StoreIdem,
       CheckIdemFails, PlanFails
<1>2. ASSUME NEW s \in Server, Drain(s) PROVE Untouched(b)'
  BY <1>2 DEF Drain, requestVars
<1>3. ASSUME NEW s \in Server, NEW a \in Attempt, Resend(s, a) PROVE Untouched(b)'
  <2>1. a # b /\ UNCHANGED <<sagas, published, outbox, batch>>
    BY <1>3 DEF Resend, requestVars
  <2>2. CASE buffer' = buffer
    BY <2>1, <2>2
  <2>3. CASE buffer' = [buffer EXCEPT ![s][a] = @ + 1]
    BY <2>1, <2>3
  <2>4. QED
    BY <1>3, <2>2, <2>3 DEF Resend, Buffer
<1>4. ASSUME NEW s \in Server, FinishRound(s) PROVE Untouched(b)'
  <2>1. /\ batch' = [batch EXCEPT ![s] = {}]
        /\ UNCHANGED <<sagas, published, buffer>>
    BY <1>4 DEF FinishRound, requestVars
  <2>2. CASE outbox' = [outbox EXCEPT ![s] = @ \cup failed[s]]
    BY <2>1, <2>2
  <2>3. CASE outbox' = [outbox EXCEPT ![s] = @ \cup batch[s]]
    BY <2>1, <2>3
  <2>4. QED
    BY <1>4, <2>2, <2>3 DEF FinishRound, ToRequeue
<1>5. ASSUME NEW s \in Server, NEW a \in Attempt, Transmit(s, a) PROVE Untouched(b)'
  <2>1. a # b /\ UNCHANGED <<sagas, outbox, batch>>
    BY <1>5 DEF Transmit, requestVars
  <2>2. buffer' = [buffer EXCEPT ![s][a] = @ - 1]
    BY <1>5 DEF Transmit
  <2>3. \A t \in Server : buffer'[t][b] = buffer[t][b]
    BY <2>1, <2>2
  <2>4. published'[b] = published[b]
    <3>1. CASE published' = published
      BY <3>1
    <3>2. CASE published' = [published EXCEPT ![a] = @ + 1]
      BY <2>1, <3>2
    <3>3. QED
      BY <1>5, <3>1, <3>2 DEF Transmit
  <2>5. QED
    BY <2>1, <2>3, <2>4
<1>6. ASSUME NEW s \in Server, Crash(s) PROVE Untouched(b)'
  BY <1>6 DEF Crash
<1>7. CASE \/ \E a \in Attempt, s \in Server : Arrive(a, s)
           \/ \E k \in Key : ExpireIdem(k)
           \/ UNCHANGED vars
  BY <1>7 DEF Arrive, ExpireIdem, requestVars, vars
<1>8. QED
  BY <1>1, <1>2, <1>3, <1>4, <1>5, <1>6, <1>7 DEF Next, Work

(* An attempt comes once, and records who was answered before it.          *)
LEMMA WhoComes ==
    ASSUME Typed, [Next]_vars, NEW b \in Attempt
    PROVE  /\ after'[b] = after[b] \/ (pc[b] = "client" /\ after'[b] = Answered)
           /\ pc'[b] = "client" => pc[b] = "client"
           /\ pc'[b] = "check" => pc[b] \in {"client", "check"}
           /\ pc[b] = "client" /\ after'[b] # after[b] => pc'[b] = "check"
<1> USE DEF Typed, IntakeTypeOK, Goto, Answer
<1>1. ASSUME NEW a \in Attempt, Handle(a) \/ FailAt(a)
      PROVE  /\ after' = after
             /\ pc'[b] \in {"client", "check"} => pc[b] = pc'[b]
  BY <1>1 DEF Handle, FailAt, CheckIdem, Planned, Send, Flush, PostSaga, StoreIdem,
     CheckIdemFails, PlanFails, PublishRaises, PostSagaUnanswered, PostSagaRefused
<1>2. ASSUME NEW a \in Attempt, NEW s \in Server, Arrive(a, s)
      PROVE  /\ after'[b] = after[b] \/ (pc[b] = "client" /\ after'[b] = Answered)
             /\ pc'[b] = "client" => pc[b] = "client"
             /\ pc'[b] = "check" => pc[b] \in {"client", "check"}
             /\ pc[b] = "client" /\ after'[b] # after[b] => pc'[b] = "check"
  <2>1. CASE a = b
    BY <1>2, <2>1 DEF Arrive
  <2>2. CASE a # b
    BY <1>2, <2>2 DEF Arrive
  <2>3. QED
    BY <2>1, <2>2
<1>3. ASSUME NEW s \in Server, Crash(s)
      PROVE  after' = after /\ pc'[b] \in {pc[b], "refused"}
  BY <1>3 DEF Crash
<1>4. CASE UNCHANGED requestVars
  BY <1>4 DEF requestVars
<1>5. QED
  BY <1>1, <1>2, <1>3, <1>4 DEF Next, Work, Drain, Resend, FinishRound, Transmit, ExpireIdem,
     vars, requestVars

(* The cache changes by an answer that is stored and by a key that expires.*)
LEMMA CacheMoves ==
    ASSUME Typed, [Next]_vars
    PROVE  \/ idem' = idem
           \/ \E a \in Attempt : /\ KeyOf[a] \in Key /\ a \in Answered'
                                 /\ idem' = [idem EXCEPT ![KeyOf[a]] = a]
           \/ \E k \in Key : idem' = [idem EXCEPT ![k] = None] /\ Happened("expire")'
<1> USE DEF Typed, IntakeTypeOK
<1>1. ASSUME NEW a \in Attempt, StoreIdem(a)
      PROVE  \/ idem' = idem
             \/ /\ KeyOf[a] \in Key /\ a \in Answered'
                /\ idem' = [idem EXCEPT ![KeyOf[a]] = a]
  <2>1. a \in Answered'
    BY <1>1 DEF StoreIdem, Answer, Goto, Answered
  <2>2. idem' = idem \/ Stored(a)
    BY <1>1 DEF StoreIdem
  <2>3. QED
    BY <2>1, <2>2 DEF Stored
<1>2. ASSUME NEW k \in Key, ExpireIdem(k)
      PROVE  idem' = [idem EXCEPT ![k] = None] /\ Happened("expire")'
  BY <1>2, FaultTypes DEF ExpireIdem
<1>3. ASSUME NEW a \in Attempt, Handle(a) \/ FailAt(a), ~StoreIdem(a) PROVE idem' = idem
  BY <1>3 DEF Handle, FailAt, CheckIdem, Planned, Send, Flush, PostSaga,
     CheckIdemFails, PlanFails, PublishRaises, PostSagaUnanswered, PostSagaRefused
<1>4. QED
  BY <1>1, <1>2, <1>3 DEF Next, Work, Arrive, Drain, Resend, FinishRound, Transmit, Crash, vars

(* Who becomes answered was answered from the cache, or has just stored    *)
(* its answer there, unless Redis did not take it.                         *)
LEMMA WhoIsAnswered ==
    ASSUME Typed, [Next]_vars, NEW a \in Answered', a \notin Answered
    PROVE  \/ pc[a] = "check" /\ Cached(a) # None /\ reply'[a] = Cached(a) /\ idem' = idem
           \/ pc[a] = "store" /\ (Stored(a) \/ Happened("redis")')
<1> USE DEF Typed, IntakeTypeOK, Goto, Answer, Answered
<1>1. ASSUME NEW b \in Attempt, CheckIdem(b)
      PROVE  pc[a] = "check" /\ Cached(a) # None /\ reply'[a] = Cached(a) /\ idem' = idem
  BY <1>1 DEF CheckIdem
<1>2. ASSUME NEW b \in Attempt, StoreIdem(b)
      PROVE  pc[a] = "store" /\ (Stored(a) \/ Happened("redis")')
  <2>1. a = b /\ pc[a] = "store"
    BY <1>2 DEF StoreIdem
  <2>2. Stored(b) \/ Fault("redis")
    BY <1>2 DEF StoreIdem
  <2>3. QED
    BY <2>1, <2>2, FaultTypes
<1>3. ASSUME NEW b \in Attempt, Handle(b) \/ FailAt(b), ~CheckIdem(b), ~StoreIdem(b)
      PROVE  FALSE
  BY <1>3 DEF Handle, FailAt, Planned, Send, Flush, PostSaga,
     CheckIdemFails, PlanFails, PublishRaises, PostSagaUnanswered, PostSagaRefused
<1>4. ASSUME NEW b \in Attempt, NEW s \in Server, Arrive(b, s) PROVE FALSE
  BY <1>4 DEF Arrive
<1>5. ASSUME NEW s \in Server, Crash(s) PROVE FALSE
  BY <1>5 DEF Crash
<1>6. CASE UNCHANGED requestVars
  BY <1>6 DEF requestVars
<1>7. QED
  BY <1>1, <1>2, <1>3, <1>4, <1>5, <1>6 DEF Next, Work, Drain, Resend, FinishRound, Transmit,
     ExpireIdem, vars, requestVars

(* As long as Redis keeps its promise, whoever comes late and finds the    *)
(* answer in the cache goes nowhere else.                                  *)
LEMMA LateGoesNowhere ==
    ASSUME Typed, [Next]_vars, Remembering', NEW b \in Attempt,
           pc[b] \in {"check", "answered", "refused"}, Cached(b) # None
    PROVE  pc'[b] \in {"check", "answered", "refused"}
<1> USE DEF Typed, IntakeTypeOK, Goto, Answer
<1>1. ASSUME NEW a \in Attempt, CheckIdemFails(a) PROVE FALSE
  BY <1>1, FaultTypes DEF CheckIdemFails, Remembering
<1>2. ASSUME NEW a \in Attempt, CheckIdem(a)
      PROVE  pc'[b] \in {"check", "answered", "refused"}
  <2>1. CASE a = b
    BY <1>2, <2>1 DEF CheckIdem
  <2>2. CASE a # b
    BY <1>2, <2>2 DEF CheckIdem
  <2>3. QED
    BY <2>1, <2>2
<1>3. ASSUME NEW a \in Attempt, Handle(a) \/ FailAt(a), ~CheckIdem(a), ~CheckIdemFails(a)
      PROVE  pc'[b] = pc[b]
  BY <1>3 DEF Handle, FailAt, Planned, Send, Flush, PostSaga, StoreIdem,
     PlanFails, PublishRaises, PostSagaUnanswered, PostSagaRefused
<1>4. ASSUME NEW a \in Attempt, NEW s \in Server, Arrive(a, s) PROVE pc'[b] = pc[b]
  BY <1>4 DEF Arrive
<1>5. ASSUME NEW s \in Server, Crash(s) PROVE pc'[b] \in {pc[b], "refused"}
  BY <1>5 DEF Crash
<1>6. CASE UNCHANGED requestVars
  BY <1>6 DEF requestVars
<1>7. QED
  BY <1>1, <1>2, <1>3, <1>4, <1>5, <1>6 DEF Next, Work, Drain, Resend, FinishRound, Transmit,
     ExpireIdem, vars, requestVars

(* Every step keeps a late attempt safe, and what makes it so.             *)
LEMMA StepKeepsResubmission ==
    ASSUME Resubmission, [Next]_vars
    PROVE  Resubmission'
<1>1. Typed /\ Typed'
  BY StepKeepsTypes DEF Resubmission
<1>2. Answered \subseteq Answered'
  BY <1>1, AnswersStay
<1>3. NewAreUntouched'
  <2> SUFFICES ASSUME NEW b \in Attempt, pc'[b] \in {"client", "check"}
               PROVE  Untouched(b)'
    BY DEF NewAreUntouched
  <2>1. pc[b] \in {"client", "check"}
    BY <1>1, WhoComes
  <2>2. Untouched(b)
    BY <2>1 DEF Resubmission, NewAreUntouched
  <2>3. QED
    BY <1>1, <2>1, <2>2, UntouchedStays DEF Placing
<1>4. AfterAnswers'
  BY <1>1, <1>2, WhoComes DEF Resubmission, AfterAnswers
<1>5. CacheNamesAnswers'
  <2> SUFFICES ASSUME NEW k \in Key, idem'[k] # None PROVE idem'[k] \in Answered'
    BY DEF CacheNamesAnswers
  <2>1. idem \in [Key -> Attempt \cup {None}] /\ (idem[k] # None => idem[k] \in Answered)
    BY DEF Resubmission, Typed, IntakeTypeOK, CacheNamesAnswers
  <2>2. CASE idem' = idem
    BY <1>2, <2>1, <2>2
  <2>3. ASSUME NEW a \in Attempt, KeyOf[a] \in Key, a \in Answered',
               idem' = [idem EXCEPT ![KeyOf[a]] = a]
        PROVE  idem'[k] \in Answered'
    BY <1>2, <2>1, <2>3
  <2>4. ASSUME NEW j \in Key, idem' = [idem EXCEPT ![j] = None]
        PROVE  idem'[k] \in Answered'
    BY <1>2, <2>1, <2>4
  <2>5. QED
    BY <1>1, <2>2, <2>3, <2>4, CacheMoves
<1>6. ASSUME Remembering', NEW k \in Key, idem[k] # None PROVE idem'[k] # None
  <2>1. idem \in [Key -> Attempt \cup {None}]
    BY <1>1 DEF Typed, IntakeTypeOK
  <2>2. ~Happened("expire")'
    BY <1>6 DEF Remembering
  <2>3. ASSUME NEW a \in Attempt, KeyOf[a] \in Key, idem' = [idem EXCEPT ![KeyOf[a]] = a]
        PROVE  idem'[k] # None
    BY <1>6, <2>1, <2>3
  <2>4. QED
    BY <1>1, <1>6, <2>2, <2>3, CacheMoves
<1>7. AnswersAreCached'
  <2> SUFFICES ASSUME Remembering', NEW a \in Answered', KeyOf[a] # NoKey
               PROVE  idem'[KeyOf[a]] # None
    BY DEF AnswersAreCached
  <2>1. Remembering
    BY <1>1, FaultsStay
  <2>2. a \in Attempt /\ KeyOf[a] \in Key
    BY DEF Answered
  <2>3. CASE a \in Answered
    BY <1>6, <2>1, <2>2, <2>3 DEF Resubmission, AnswersAreCached
  <2>4. CASE a \notin Answered
    <3>1. \/ Cached(a) # None
          \/ Stored(a)
      BY <1>1, <2>4, WhoIsAnswered DEF Remembering
    <3>2. CASE Cached(a) # None
      BY <1>6, <2>2, <3>2 DEF Cached
    <3>3. CASE Stored(a)
      BY <1>1, <2>2, <3>3 DEF Stored, Typed, IntakeTypeOK
    <3>4. QED
      BY <3>1, <3>2, <3>3
  <2>5. QED
    BY <2>3, <2>4
<1>8. LateAreSafe'
  <2> SUFFICES ASSUME Remembering', NEW b \in Attempt, Late(b)' PROVE LateIsSafe(b)'
    BY DEF LateAreSafe
  <2>1. Remembering
    BY <1>1, FaultsStay
  <2>2. CASE Late(b)
    <3>1. LateIsSafe(b) /\ pc[b] \notin Placing
      BY <2>1, <2>2 DEF Resubmission, LateAreSafe, LateIsSafe, Placing
    <3>2. Untouched(b)'
      BY <1>1, <3>1, UntouchedStays DEF LateIsSafe
    <3>3. PICK a \in after[b] : KeyOf[a] # NoKey /\ KeyOf[a] = KeyOf[b]
      BY <2>2 DEF Late
    <3>4. a \in Answered
      BY <3>3 DEF Resubmission, AfterAnswers
    <3>5. Cached(b) # None
      BY <2>1, <3>3, <3>4 DEF Resubmission, AnswersAreCached, Cached
    <3>6. pc'[b] \in {"check", "answered", "refused"}
      BY <1>1, <3>1, <3>5, LateGoesNowhere DEF LateIsSafe
    <3>7. pc'[b] = "answered" => reply'[b] # b
      <4>1. CASE b \in Answered
        BY <1>1, <3>1, <4>1, AnswersStay DEF LateIsSafe, Answered
      <4>2. CASE b \notin Answered /\ b \in Answered'
        <5>1. reply'[b] = Cached(b)
          BY <1>1, <3>1, <4>2, WhoIsAnswered DEF Placing
        <5>2. Cached(b) \in Answered
          BY <3>3, <3>5 DEF Resubmission, CacheNamesAnswers, Cached
        <5>3. QED
          BY <4>2, <5>1, <5>2
      <4>3. QED
        BY <4>1, <4>2 DEF Answered
    <3>8. QED
      BY <3>2, <3>6, <3>7 DEF LateIsSafe
  <2>3. CASE ~Late(b)
    <3>1. pc[b] = "client"
      BY <1>1, <2>3, WhoComes DEF Late
    <3>2. Untouched(b)'
      BY <1>1, <3>1, UntouchedStays DEF Resubmission, NewAreUntouched, Placing
    <3>3. pc'[b] = "check"
      <4>1. after'[b] # after[b]
        BY <2>3 DEF Late
      <4>2. QED
        BY <1>1, <3>1, <4>1, WhoComes
    <3>4. QED
      BY <3>2, <3>3 DEF LateIsSafe
  <2>4. QED
    BY <2>2, <2>3
<1>9. QED
  BY <1>1, <1>3, <1>4, <1>5, <1>7, <1>8 DEF Resubmission

(* A client that resubmits under its key after an answer places nothing    *)
(* anew and is given a booking answered before, on whichever instance it   *)
(* lands and however many instances crash and publications fail, as long   *)
(* as Redis answers and the key has not expired.                           *)
THEOREM ResubmissionsAreSafe == Spec => []ResubmissionIsSafe
<1>1. Init => Resubmission
  <2> SUFFICES ASSUME Init PROVE Resubmission
    OBVIOUS
  <2>1. Answered = {} /\ \A b \in Attempt : after[b] = {} /\ Untouched(b)
    BY DEF Init, Answered, Untouched
  <2>2. \A k \in Key : idem[k] = None
    BY DEF Init
  <2>3. QED
    BY <2>1, <2>2, InitTypes DEF Resubmission, NewAreUntouched, AfterAnswers,
       CacheNamesAnswers, AnswersAreCached, LateAreSafe, Late
<1>2. Resubmission /\ [Next]_vars => Resubmission'
  BY StepKeepsResubmission
<1>3. Resubmission => ResubmissionIsSafe
  <2> SUFFICES ASSUME Resubmission, Remembering, NEW a \in Attempt, NEW b \in Attempt,
                      KeyOf[a] # NoKey, KeyOf[a] = KeyOf[b], a \in after[b]
               PROVE  ~Placed(b) /\ (pc[b] = "answered" => reply[b] # b)
    BY DEF ResubmissionIsSafe, Remembering
  <2>1. LateIsSafe(b)
    BY DEF Resubmission, LateAreSafe, Late
  <2>2. QED
    BY <2>1 DEF LateIsSafe, Untouched, Placed
<1>4. QED
  BY <1>1, <1>2, <1>3, PTL DEF Spec
=============================================================================
