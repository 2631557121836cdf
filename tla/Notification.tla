---------------------------- MODULE Notification ----------------------------
(***************************************************************************)
(* The notification service: instances of one Kafka consumer group that    *)
(* take final booking outcomes from booking-outcomes and publish them on a *)
(* Redis channel, to which every instance subscribes; each instance pushes *)
(* what it hears to the WebSockets its own drivers have open.              *)
(*                                                                         *)
(* Redis delivers to whoever is subscribed at that moment, and Kafka until *)
(* the offset is committed.                                                *)
(***************************************************************************)
EXTENDS Integers, Sequences, FiniteSets

CONSTANTS
    Instance,       \* instances of the service
    Message,        \* messages of booking-outcomes
    SubBooking,     \* those that answer a sub-booking of a saga
    Socket,         \* WebSockets that drivers open
    DriverOf,       \* the driver of a message and of a socket
    None,           \* no message, no instance
    FaultKinds,     \* the faults that can occur
    MaxFaults       \* how many, in all

AllFaults == {"crash", "publish", "unsubscribed", "slow"}

ASSUME NotificationAssumption ==
    /\ None \notin Message \cup Instance
    /\ SubBooking \subseteq Message
    /\ FaultKinds \subseteq AllFaults
    /\ MaxFaults \in Nat

VARIABLES
    pending,        \* outcomes not yet consumed, or to be consumed again
    hand,           \* per instance, the outcome its consumer handles
    processed,      \* per instance, those handled since its last commit
    subscribed,     \* instances subscribed to the channel
    heard,          \* per instance, messages of the channel still to be read
    pushing,        \* per instance, broadcasts under way
    waiting,        \* per instance, the message whose broadcast its reader awaits
    home,           \* per socket, the instance that accepted it
    socket,         \* per socket, its state at the client
    handler,        \* per socket, where its websocket_endpoint stands
    connections,    \* sockets in the table of their instance
    copies,         \* per socket and message, how often it was received
    faults          \* the faults so far, numbered per kind

consumerVars == <<pending, hand, processed>>
readerVars   == <<subscribed, heard, pushing, waiting>>
socketVars   == <<home, socket, handler, connections, copies>>
vars == <<consumerVars, readerVars, socketVars, faults>>

Fault(kind) ==
    /\ kind \in FaultKinds
    /\ Cardinality(faults) < MaxFaults
    /\ \E n \in 1 .. MaxFaults :
         /\ <<kind, n>> \notin faults
         /\ \A m \in 1 .. n - 1 : <<kind, m>> \in faults
         /\ faults' = faults \cup {<<kind, n>>}

Happened(kind) == <<kind, 1>> \in faults

Init ==
    /\ pending = Message
    /\ hand = [n \in Instance |-> None]
    /\ processed = [n \in Instance |-> {}]
    /\ subscribed = {}
    /\ heard = [n \in Instance |-> <<>>]
    /\ pushing = [n \in Instance |-> {}]
    /\ waiting = [n \in Instance |-> None]
    /\ home = [w \in Socket |-> None]
    /\ socket = [w \in Socket |-> "new"]
    /\ handler = [w \in Socket |-> "none"]
    /\ connections = {}
    /\ copies = [w \in Socket |-> [m \in Message |-> 0]]
    /\ faults = {}

----------------------------------------------------------------------------
(* _kafka_consumer_loop *)

(* Mutant: every instance reads the topic in a group of its own.           *)
KeepForOthers(m) == pending

TakeFromGroup(m) == pending \ {m}

(* Mutant: regional answers are passed on as well.                         *)
AnyOutcome(m) == m \in Message

IsFinal(m) == m \notin SubBooking

Consume(n, m) ==
    /\ hand[n] = None
    /\ m \in pending
    /\ IsFinal(m)
    /\ pending' = TakeFromGroup(m)
    /\ hand' = [hand EXCEPT ![n] = m]
    /\ UNCHANGED <<processed, readerVars, socketVars, faults>>

(* The answer to a sub-booking is not the driver's outcome.                *)
SkipSubBooking(n, m) ==
    /\ hand[n] = None
    /\ m \in pending
    /\ ~IsFinal(m)
    /\ pending' = TakeFromGroup(m)
    /\ processed' = [processed EXCEPT ![n] = @ \cup {m}]
    /\ UNCHANGED <<hand, readerVars, socketVars, faults>>

Publish(n) ==
    /\ hand[n] # None
    /\ heard' = [k \in Instance |->
                   IF k \in subscribed THEN Append(heard[k], hand[n]) ELSE heard[k]]
    /\ processed' = [processed EXCEPT ![n] = @ \cup {hand[n]}]
    /\ hand' = [hand EXCEPT ![n] = None]
    /\ UNCHANGED <<pending, subscribed, pushing, waiting, socketVars, faults>>

(* Mutant: the offset was committed before the outcome was published.      *)
ForgetOutcome(n) == pending

Uncommitted(n) == pending \cup processed[n] \cup ({hand[n]} \ {None})

(* Redis does not take the message: the consumer starts over.              *)
PublishFails(n) ==
    /\ hand[n] # None
    /\ Fault("publish")
    /\ pending' = Uncommitted(n)
    /\ processed' = [processed EXCEPT ![n] = {}]
    /\ hand' = [hand EXCEPT ![n] = None]
    /\ UNCHANGED <<readerVars, socketVars>>

CommitOffsets(n) ==
    /\ hand[n] = None
    /\ processed[n] # {}
    /\ processed' = [processed EXCEPT ![n] = {}]
    /\ UNCHANGED <<pending, hand, readerVars, socketVars, faults>>

----------------------------------------------------------------------------
(* _redis_subscriber_loop and _broadcast *)

Subscribe(n) ==
    /\ n \notin subscribed
    /\ subscribed' = subscribed \cup {n}
    /\ UNCHANGED <<consumerVars, heard, pushing, waiting, socketVars, faults>>

(* The connection to Redis breaks: what was not read is gone, and the loop *)
(* subscribes anew after 5 s.                                              *)
LoseSubscription(n) ==
    /\ n \in subscribed
    /\ Fault("unsubscribed")
    /\ subscribed' = subscribed \ {n}
    /\ heard' = [heard EXCEPT ![n] = <<>>]
    /\ UNCHANGED <<consumerVars, pushing, waiting, socketVars>>

Listed(n, m) == {w \in connections : home[w] = n /\ DriverOf[w] = DriverOf[m]}

(* The broadcast copies the driver's sockets before it sends to any.       *)
StartBroadcast(n) ==
    /\ heard[n] # <<>>
    /\ waiting[n] = None
    /\ LET m == Head(heard[n]) IN
         /\ waiting' = [waiting EXCEPT ![n] = m]
         /\ pushing' = [pushing EXCEPT ![n] =
              @ \cup {[message |-> m, left |-> Listed(n, m), dead |-> {}]}]
    /\ heard' = [heard EXCEPT ![n] = Tail(@)]
    /\ UNCHANGED <<consumerVars, subscribed, socketVars, faults>>

(* Mutant: a send that raises ends the broadcast.                          *)
GiveUp(b, w) == [b EXCEPT !.left = {}, !.dead = {w}]

NoteDead(b, w) == [b EXCEPT !.left = @ \ {w}, !.dead = @ \cup {w}]

Replace(n, b, c) == pushing' = [pushing EXCEPT ![n] = (@ \ {b}) \cup {c}]

(* One send.  To a socket whose client is gone it raises, or is swallowed. *)
SendTo(n, b, w) ==
    /\ b \in pushing[n]
    /\ w \in b.left
    /\ \/ /\ socket[w] = "open"
          /\ copies' = [copies EXCEPT ![w][b.message] = @ + 1]
          /\ Replace(n, b, [b EXCEPT !.left = @ \ {w}])
       \/ /\ socket[w] = "closed"
          /\ \/ Replace(n, b, NoteDead(b, w))
             \/ Replace(n, b, [b EXCEPT !.left = @ \ {w}])
          /\ UNCHANGED copies
    /\ UNCHANGED <<consumerVars, subscribed, heard, waiting, home, socket, handler,
                   connections, faults>>

FinishBroadcast(n, b) ==
    /\ b \in pushing[n]
    /\ b.left = {}
    /\ connections' = connections \ b.dead
    /\ pushing' = [pushing EXCEPT ![n] = @ \ {b}]
    /\ waiting' = [waiting EXCEPT ![n] = IF @ = b.message THEN None ELSE @]
    /\ UNCHANGED <<consumerVars, subscribed, heard, home, socket, handler, copies,
                   faults>>

(* future.result gives up after 5 s; the broadcast itself goes on.         *)
BroadcastSlow(n) ==
    /\ waiting[n] # None
    /\ Fault("slow")
    /\ waiting' = [waiting EXCEPT ![n] = None]
    /\ UNCHANGED <<consumerVars, subscribed, heard, pushing, socketVars>>

----------------------------------------------------------------------------
(* websocket_endpoint, and the clients *)

(* accept() and the entry in the table: a message that is fanned out       *)
(* between the two misses the socket as if it came before both.            *)
Accept(n, w) ==
    /\ handler[w] = "none"
    /\ socket' = [socket EXCEPT ![w] = "open"]
    /\ home' = [home EXCEPT ![w] = n]
    /\ handler' = [handler EXCEPT ![w] = "receiving"]
    /\ connections' = connections \cup {w}
    /\ UNCHANGED <<consumerVars, readerVars, copies, faults>>

CloseSocket(w) ==
    /\ socket[w] = "open"
    /\ socket' = [socket EXCEPT ![w] = "closed"]
    /\ UNCHANGED <<consumerVars, readerVars, home, handler, connections, copies, faults>>

(* receive_text raises WebSocketDisconnect: the handler unlists its socket *)
(* (if a broadcast has not done so) and ends.                              *)
Disconnect(w) ==
    /\ handler[w] = "receiving"
    /\ socket[w] = "closed"
    /\ connections' = connections \ {w}
    /\ handler' = [handler EXCEPT ![w] = "ended"]
    /\ UNCHANGED <<consumerVars, readerVars, home, socket, copies, faults>>

(* An instance dies with its sockets, and restarts.                        *)
Crash(n) ==
    /\ Fault("crash")
    /\ pending' = Uncommitted(n)
    /\ processed' = [processed EXCEPT ![n] = {}]
    /\ hand' = [hand EXCEPT ![n] = None]
    /\ subscribed' = subscribed \ {n}
    /\ heard' = [heard EXCEPT ![n] = <<>>]
    /\ pushing' = [pushing EXCEPT ![n] = {}]
    /\ waiting' = [waiting EXCEPT ![n] = None]
    /\ socket' = [w \in Socket |-> IF home[w] = n THEN "closed" ELSE socket[w]]
    /\ handler' = [w \in Socket |-> IF home[w] = n THEN "ended" ELSE handler[w]]
    /\ connections' = {w \in connections : home[w] # n}
    /\ UNCHANGED <<home, copies>>

----------------------------------------------------------------------------
ConsumerStep(n) == Publish(n) \/ \E m \in Message : Consume(n, m) \/ SkipSubBooking(n, m)

ReaderStep(n) == Subscribe(n) \/ StartBroadcast(n)

PushStep(n) ==
    \E b \in pushing[n] : FinishBroadcast(n, b) \/ \E w \in Socket : SendTo(n, b, w)

Next ==
    \/ \E n \in Instance :
         ConsumerStep(n) \/ CommitOffsets(n) \/ PublishFails(n) \/ ReaderStep(n) \/ PushStep(n)
         \/ LoseSubscription(n) \/ BroadcastSlow(n) \/ Crash(n)
    \/ \E w \in Socket :
         Disconnect(w) \/ CloseSocket(w) \/ (\E n \in Instance : Accept(n, w))

Spec == Init /\ [][Next]_vars

(* The threads loop for ever and restart themselves after an exception,    *)
(* and the event loop runs every coroutine; drivers do as they like.       *)
Fairness ==
    /\ \A n \in Instance :
         WF_vars(ConsumerStep(n)) /\ WF_vars(ReaderStep(n)) /\ WF_vars(PushStep(n))
    /\ \A w \in Socket : WF_vars(Disconnect(w))

FairSpec == Spec /\ Fairness

----------------------------------------------------------------------------
Broadcast == [message : Message \ SubBooking, left : SUBSET Socket, dead : SUBSET Socket]

(* Type correctness: only final outcomes are published and pushed, and     *)
(* only sockets of the instance are in its broadcasts.                     *)
NotificationTypeOK ==
    /\ pending \subseteq Message
    /\ hand \in [Instance -> Message \cup {None}]
    /\ processed \in [Instance -> SUBSET Message]
    /\ subscribed \subseteq Instance
    /\ heard \in [Instance -> Seq(Message \ SubBooking)]
    /\ pushing \in [Instance -> SUBSET Broadcast]
    /\ waiting \in [Instance -> Message \cup {None}]
    /\ home \in [Socket -> Instance \cup {None}]
    /\ socket \in [Socket -> {"new", "open", "closed"}]
    /\ handler \in [Socket -> {"none", "receiving", "ended"}]
    /\ connections \subseteq {w \in Socket : home[w] # None}
    /\ copies \in [Socket -> [Message -> Nat]]
    /\ faults \subseteq AllFaults \X (1 .. MaxFaults)

(* A driver is told each outcome at most once per socket, by whichever     *)
(* instance consumed it and whichever holds the socket, unless a consumer  *)
(* had to start over.                                                      *)
ToldOnce ==
    ~Happened("crash") /\ ~Happened("publish") =>
        \A w \in Socket, m \in Message : copies[w][m] <= 1

(* A driver whose socket is listed, on an instance that is subscribed, when*)
(* the outcome is still on the topic gets it, although it may be consumed  *)
(* and published by the other instance and that one may crash meanwhile:   *)
(* unless the socket is closed or its own instance loses its subscription. *)
Ready(w, m) ==
    /\ m \in pending
    /\ w \in connections
    /\ home[w] \in subscribed
    /\ DriverOf[w] = DriverOf[m]

OpenSocketIsTold ==
    \A w \in Socket, m \in Message \ SubBooking :
        Ready(w, m) ~> (copies[w][m] > 0 \/ socket[w] # "open" \/ Happened("unsubscribed"))
=============================================================================
