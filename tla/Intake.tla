------------------------------- MODULE Intake -------------------------------
(***************************************************************************)
(* The booking-service: two instances behind nginx that take POST          *)
(* /bookings, look an idempotency key up in Redis, have journey-management *)
(* plan the route, and publish the request to Kafka or start a saga.  A    *)
(* publication that raises goes to the instance's in-memory outbox, which  *)
(* a worker thread drains every 5 s; the Kafka producer sends what it has  *)
(* buffered in a thread of its own.                                        *)
(*                                                                         *)
(* Every attempt of a client makes a new booking id, so an attempt stands  *)
(* for the booking it would make.                                          *)
(***************************************************************************)
EXTENDS Naturals, FiniteSets

CONSTANTS
    Server,         \* instances of the booking-service
    Attempt,        \* POST /bookings requests of clients
    Key,            \* idempotency keys
    KeyOf,          \* the key an attempt carries, or NoKey
    NoKey,
    None,           \* no server, no booking
    FaultKinds,     \* the faults that can occur
    MaxFaults       \* how many, in all

AllFaults == {"redis", "expire", "plan", "saga", "lost_answer", "send", "flush", "drop",
              "crash"}

ASSUME IntakeAssumption ==
    /\ NoKey \notin Key
    /\ None \notin Attempt \cup Server
    /\ KeyOf \in [Attempt -> Key \cup {NoKey}]
    /\ FaultKinds \subseteq AllFaults
    /\ MaxFaults \in Nat

VARIABLES
    cross,          \* whether the journey the clients ask for is cross-region
    pc,             \* per attempt, where create_booking stands
    server,         \* per attempt, the instance that handles it
    reply,          \* per attempt, the booking its answer names, None before
    tries,          \* per attempt, POST /sagas calls that were not answered
    sagas,          \* per attempt, sagas created for its booking
    idem,           \* Redis: per key, the booking of the cached answer
    outbox,         \* per server, bookings queued in _outbox
    batch,          \* per server, bookings of the worker's batch
    unsent,         \* per server, those its loop has still to send
    failed,         \* per server, those whose send raised
    buffer,         \* per server, how often a booking is in the producer's buffer
    published,      \* per booking, messages on booking-requests
    after,          \* history: per attempt, attempts answered before it came
    faults          \* the faults so far, each kind numbered

requestVars == <<pc, server, reply, tries, sagas, after>>
workerVars  == <<batch, unsent, failed>>
kafkaVars   == <<buffer, published>>
vars == <<cross, requestVars, idem, outbox, workerVars, kafkaVars, faults>>

Fault(kind) ==
    /\ kind \in FaultKinds
    /\ Cardinality(faults) < MaxFaults
    /\ \E n \in 1 .. MaxFaults :
         /\ <<kind, n>> \notin faults
         /\ \A m \in 1 .. n - 1 : <<kind, m>> \in faults
         /\ faults' = faults \cup {<<kind, n>>}

Happened(kind) == <<kind, 1>> \in faults

Init ==
    /\ cross \in BOOLEAN
    /\ pc = [a \in Attempt |-> "client"]
    /\ server = [a \in Attempt |-> None]
    /\ reply = [a \in Attempt |-> None]
    /\ tries = [a \in Attempt |-> 0]
    /\ sagas = [a \in Attempt |-> 0]
    /\ idem = [k \in Key |-> None]
    /\ outbox = [s \in Server |-> {}]
    /\ batch = [s \in Server |-> {}]
    /\ unsent = [s \in Server |-> {}]
    /\ failed = [s \in Server |-> {}]
    /\ buffer = [s \in Server |-> [a \in Attempt |-> 0]]
    /\ published = [a \in Attempt |-> 0]
    /\ after = [a \in Attempt |-> {}]
    /\ faults = {}

Goto(a, place) == pc' = [pc EXCEPT ![a] = place]

----------------------------------------------------------------------------
(* create_booking.  The handlers of one instance share an event loop: they *)
(* interleave at their awaits only, and publishing and caching have none.  *)

LoopFree(a) ==
    \A b \in Attempt \ {a} : server[b] = server[a] => pc[b] \notin {"flush", "store"}

Answer(a, booking) ==
    /\ Goto(a, "answered")
    /\ reply' = [reply EXCEPT ![a] = booking]

Answered == {a \in Attempt : pc[a] = "answered"}

Arrive(a, s) ==
    /\ pc[a] = "client"
    /\ server' = [server EXCEPT ![a] = s]
    /\ after' = [after EXCEPT ![a] = Answered]
    /\ Goto(a, "check")
    /\ UNCHANGED <<cross, reply, tries, sagas, idem, outbox, workerVars, kafkaVars, faults>>

Cached(a) == IF KeyOf[a] = NoKey THEN None ELSE idem[KeyOf[a]]

CheckIdem(a) ==
    /\ pc[a] = "check"
    /\ LoopFree(a)
    /\ IF Cached(a) # None
         THEN Answer(a, Cached(a))
         ELSE Goto(a, "plan") /\ UNCHANGED reply
    /\ UNCHANGED <<cross, server, tries, sagas, after, idem, outbox, workerVars, kafkaVars,
                   faults>>

(* Redis is unavailable: proceed without the cache.                        *)
CheckIdemFails(a) ==
    /\ pc[a] = "check"
    /\ KeyOf[a] # NoKey
    /\ LoopFree(a)
    /\ Fault("redis")
    /\ Goto(a, "plan")
    /\ UNCHANGED <<cross, server, reply, tries, sagas, after, idem, outbox, workerVars,
                   kafkaVars>>

Planned(a) ==
    /\ pc[a] = "plan"
    /\ LoopFree(a)
    /\ Goto(a, IF cross THEN "saga" ELSE "send")
    /\ UNCHANGED <<cross, server, reply, tries, sagas, after, idem, outbox, workerVars,
                   kafkaVars, faults>>

(* No route (422), or journey-management unavailable after three tries.    *)
PlanFails(a) ==
    /\ pc[a] = "plan"
    /\ LoopFree(a)
    /\ Fault("plan")
    /\ Goto(a, "refused")
    /\ UNCHANGED <<cross, server, reply, tries, sagas, after, idem, outbox, workerVars,
                   kafkaVars>>

Buffer(s, a) == buffer' = [buffer EXCEPT ![s][a] = @ + 1]

(* _publish_to_kafka: send, then flush; whatever raises ends in the outbox.*)
Send(a) ==
    /\ pc[a] = "send"
    /\ LoopFree(a)
    /\ Buffer(server[a], a)
    /\ Goto(a, "flush")
    /\ UNCHANGED <<cross, server, reply, tries, sagas, after, idem, outbox, workerVars,
                   published, faults>>

Flushed(s) == \A a \in Attempt : buffer[s][a] = 0

Flush(a) ==
    /\ pc[a] = "flush"
    /\ Flushed(server[a])
    /\ Goto(a, "store")
    /\ UNCHANGED <<cross, server, reply, tries, sagas, after, idem, outbox, workerVars,
                   kafkaVars, faults>>

PublishRaises(a) ==
    /\ \/ pc[a] = "send" /\ LoopFree(a) /\ Fault("send")
       \/ pc[a] = "flush" /\ Fault("flush")
    /\ outbox' = [outbox EXCEPT ![server[a]] = @ \cup {a}]
    /\ Goto(a, "store")
    /\ UNCHANGED <<cross, server, reply, tries, sagas, after, idem, workerVars, kafkaVars>>

(* POST /sagas.  Each call that reaches journey-management makes a saga of *)
(* its own; a call whose answer is lost is repeated, three times in all.   *)
PostSaga(a) ==
    /\ pc[a] = "saga"
    /\ LoopFree(a)
    /\ sagas' = [sagas EXCEPT ![a] = @ + 1]
    /\ Goto(a, "store")
    /\ UNCHANGED <<cross, server, reply, tries, after, idem, outbox, workerVars, kafkaVars,
                   faults>>

PostSagaUnanswered(a) ==
    /\ pc[a] = "saga"
    /\ LoopFree(a)
    /\ Fault("lost_answer")
    /\ sagas' \in {sagas, [sagas EXCEPT ![a] = @ + 1]}
    /\ tries' = [tries EXCEPT ![a] = @ + 1]
    /\ Goto(a, IF tries[a] = 2 THEN "refused" ELSE "saga")
    /\ UNCHANGED <<cross, server, reply, after, idem, outbox, workerVars, kafkaVars>>

(* An error status is not retried; the saga may exist all the same.        *)
PostSagaRefused(a) ==
    /\ pc[a] = "saga"
    /\ LoopFree(a)
    /\ Fault("saga")
    /\ sagas' \in {sagas, [sagas EXCEPT ![a] = @ + 1]}
    /\ Goto(a, "refused")
    /\ UNCHANGED <<cross, server, reply, tries, after, idem, outbox, workerVars, kafkaVars>>

(* Mutant: the answer is returned and never cached.                        *)
NotStored(a) == idem' = idem

Stored(a) == idem' = IF KeyOf[a] = NoKey THEN idem ELSE [idem EXCEPT ![KeyOf[a]] = a]

StoreIdem(a) ==
    /\ pc[a] = "store"
    /\ LoopFree(a)
    /\ \/ Stored(a) /\ UNCHANGED faults
       \/ KeyOf[a] # NoKey /\ Fault("redis") /\ UNCHANGED idem
    /\ Answer(a, a)
    /\ UNCHANGED <<cross, server, tries, sagas, after, outbox, workerVars, kafkaVars>>

(* The 300 s of a key are over, or Redis restarts empty.                   *)
ExpireIdem(k) ==
    /\ idem[k] # None
    /\ Fault("expire")
    /\ idem' = [idem EXCEPT ![k] = None]
    /\ UNCHANGED <<cross, requestVars, outbox, workerVars, kafkaVars>>

----------------------------------------------------------------------------
(* _outbox_worker and the producer's own thread *)

Drain(s) ==
    /\ batch[s] = {}
    /\ outbox[s] # {}
    /\ batch' = [batch EXCEPT ![s] = outbox[s]]
    /\ unsent' = [unsent EXCEPT ![s] = outbox[s]]
    /\ outbox' = [outbox EXCEPT ![s] = {}]
    /\ UNCHANGED <<cross, requestVars, idem, failed, kafkaVars, faults>>

Resend(s, a) ==
    /\ a \in unsent[s]
    /\ unsent' = [unsent EXCEPT ![s] = @ \ {a}]
    /\ \/ Buffer(s, a) /\ UNCHANGED <<failed, faults>>
       \/ /\ Fault("send")
          /\ failed' = [failed EXCEPT ![s] = @ \cup {a}]
          /\ UNCHANGED buffer
    /\ UNCHANGED <<cross, requestVars, idem, outbox, batch, published>>

(* Mutant: what failed is logged and forgotten.                            *)
RequeueNothing(s) == {}

ToRequeue(s) == failed[s]

(* Mutant: "failed" is initialised before the worker's loop.               *)
FailedCarriedOver(s) == failed[s]

FailedAfterRound(s) == {}

(* The flush that ends a round, and the requeueing of what failed.         *)
FinishRound(s) ==
    /\ batch[s] # {}
    /\ unsent[s] = {}
    /\ \/ /\ Flushed(s)
          /\ outbox' = [outbox EXCEPT ![s] = @ \cup ToRequeue(s)]
          /\ UNCHANGED faults
       \/ /\ Fault("flush")
          /\ outbox' = [outbox EXCEPT ![s] = @ \cup batch[s]]
    /\ batch' = [batch EXCEPT ![s] = {}]
    /\ failed' = [failed EXCEPT ![s] = FailedAfterRound(s)]
    /\ UNCHANGED <<cross, requestVars, idem, unsent, kafkaVars>>

(* The broker takes a buffered message, or the producer gives it up after  *)
(* its retries: only the message's future would tell, and nobody asks it.  *)
Transmit(s, a) ==
    /\ buffer[s][a] > 0
    /\ buffer' = [buffer EXCEPT ![s][a] = @ - 1]
    /\ \/ published' = [published EXCEPT ![a] = @ + 1] /\ UNCHANGED faults
       \/ Fault("drop") /\ UNCHANGED published
    /\ UNCHANGED <<cross, requestVars, idem, outbox, workerVars>>

(* An instance dies with its outbox and its buffer, and restarts.          *)
Crash(s) ==
    /\ Fault("crash")
    /\ pc' = [a \in Attempt |-> IF server[a] = s /\ pc[a] \notin {"answered", "refused"}
                                  THEN "refused" ELSE pc[a]]
    /\ outbox' = [outbox EXCEPT ![s] = {}]
    /\ batch' = [batch EXCEPT ![s] = {}]
    /\ unsent' = [unsent EXCEPT ![s] = {}]
    /\ failed' = [failed EXCEPT ![s] = {}]
    /\ buffer' = [buffer EXCEPT ![s] = [a \in Attempt |-> 0]]
    /\ UNCHANGED <<cross, server, reply, tries, sagas, after, idem, published>>

----------------------------------------------------------------------------
Handle(a) ==
    \/ CheckIdem(a)
    \/ Planned(a)
    \/ Send(a)
    \/ Flush(a)
    \/ PostSaga(a)
    \/ StoreIdem(a)

FailAt(a) ==
    \/ CheckIdemFails(a)
    \/ PlanFails(a)
    \/ PublishRaises(a)
    \/ PostSagaUnanswered(a)
    \/ PostSagaRefused(a)

Work(s) ==
    \/ Drain(s)
    \/ FinishRound(s)
    \/ \E a \in Attempt : Resend(s, a)

Next ==
    \/ \E a \in Attempt : Handle(a) \/ FailAt(a) \/ (\E s \in Server : Arrive(a, s))
    \/ \E s \in Server : Work(s) \/ Crash(s) \/ (\E a \in Attempt : Transmit(s, a))
    \/ \E k \in Key : ExpireIdem(k)

Spec == Init /\ [][Next]_vars

(* Handlers, the outbox thread and the producer's thread keep running;     *)
(* clients need not come.                                                  *)
Fairness ==
    /\ \A a \in Attempt : WF_vars(Handle(a))
    /\ \A s \in Server : WF_vars(Work(s)) /\ WF_vars(\E a \in Attempt : Transmit(s, a))

FairSpec == Spec /\ Fairness

----------------------------------------------------------------------------
(* Type correctness: a message is queued, batched and buffered only for    *)
(* attempts, and an attempt that was answered names a booking.             *)
IntakeTypeOK ==
    /\ cross \in BOOLEAN
    /\ pc \in [Attempt -> {"client", "check", "plan", "send", "flush", "saga", "store",
                           "answered", "refused"}]
    /\ server \in [Attempt -> Server \cup {None}]
    /\ reply \in [Attempt -> Attempt \cup {None}]
    /\ \A a \in Attempt : /\ pc[a] # "client" => server[a] \in Server
                          /\ pc[a] = "answered" => reply[a] \in Attempt
    /\ tries \in [Attempt -> 0 .. 3]
    /\ sagas \in [Attempt -> Nat]
    /\ idem \in [Key -> Attempt \cup {None}]
    /\ outbox \in [Server -> SUBSET Attempt]
    /\ batch \in [Server -> SUBSET Attempt]
    /\ unsent \in [Server -> SUBSET Attempt]
    /\ failed \in [Server -> SUBSET Attempt]
    /\ \A s \in Server : unsent[s] \cup failed[s] \subseteq batch[s]
    /\ buffer \in [Server -> [Attempt -> Nat]]
    /\ published \in [Attempt -> Nat]
    /\ after \in [Attempt -> SUBSET Attempt]
    /\ faults \subseteq AllFaults \X (1 .. MaxFaults)

(* A client that resubmits under its key after an answer gets one of the   *)
(* bookings answered before, and places nothing anew, on whichever         *)
(* instance it lands: as long as Redis answers and the key has not expired.*)
Placed(a) == published[a] > 0 \/ sagas[a] > 0 \/ \E s \in Server : a \in outbox[s] \cup batch[s]

ResubmissionIsSafe ==
    ~Happened("redis") /\ ~Happened("expire") =>
        \A a, b \in Attempt :
            KeyOf[a] # NoKey /\ KeyOf[a] = KeyOf[b] /\ a \in after[b] =>
                ~Placed(b) /\ (pc[b] = "answered" => reply[b] # b)

(* An accepted single-region booking reaches the topic, over any number of *)
(* failing sends and flushes and through any rounds of the outbox: only a  *)
(* crash, or a producer that gives up, loses it.                           *)
AcceptedIsPublished ==
    \A a \in Attempt :
        (pc[a] = "answered" /\ reply[a] = a /\ ~cross)
            ~> (published[a] > 0 \/ Happened("crash") \/ Happened("drop"))
=============================================================================
