------------------------- MODULE NotificationProofs -------------------------
(***************************************************************************)
(* A driver is told an outcome at most once per socket, for any number of  *)
(* instances, drivers, sockets and outcomes, as long as no consumer starts *)
(* over.                                                                   *)
(***************************************************************************)
EXTENDS Notification, TLAPS

(* A socket that nobody accepted has received nothing, and a broadcast     *)
(* sends to sockets of its own instance only.                              *)
Fresh ==
    \A w \in Socket : handler[w] = "none" =>
        home[w] = None /\ \A m \in Message : copies[w][m] = 0

LeftAtHome == \A n \in Instance : \A b \in pushing[n] : \A w \in b.left : home[w] = n

(* Only final outcomes are in hand.                                        *)
HandsFinal == \A n \in Instance : hand[n] \notin SubBooking

TypeInv == NotificationTypeOK /\ Fresh /\ LeftAtHome /\ HandsFinal

(* No consumer had to start over.                                          *)
Quiet == ~Happened("crash") /\ ~Happened("publish")

(* An outcome is on the topic, or in one hand, or published.               *)
InOneHand ==
    \A n \in Instance : hand[n] # None =>
        hand[n] \notin pending /\ \A k \in Instance : hand[k] = hand[n] => k = n

Heard(k)  == {heard[k][i] : i \in 1 .. Len(heard[k])}
Pushed(k) == {b.message : b \in pushing[k]}

(* What is not published yet is nowhere else.                              *)
Unseen(m) ==
    /\ \A k \in Instance : m \notin Heard(k) \cup Pushed(k)
    /\ \A w \in Socket : copies[w][m] = 0

UnpublishedUnseen ==
    \A m \in Message : (m \in pending \/ \E n \in Instance : hand[n] = m) => Unseen(m)

(* What an instance has still to read it reads once, and has not pushed;   *)
(* what it pushes it pushes once, and no socket left has it.               *)
HeardOnce ==
    \A k \in Instance : \A i, j \in 1 .. Len(heard[k]) : heard[k][i] = heard[k][j] => i = j

HeardNew ==
    \A k \in Instance : \A m \in Heard(k) :
        /\ m \notin Pushed(k)
        /\ \A w \in Socket : home[w] = k => copies[w][m] = 0

PushedOnce ==
    \A k \in Instance : \A b, c \in pushing[k] : b.message = c.message => b = c

PushedNew ==
    \A k \in Instance : \A b \in pushing[k] : \A w \in b.left : copies[w][b.message] = 0

AtMostOne == \A w \in Socket, m \in Message : copies[w][m] <= 1

OnceInv ==
    /\ InOneHand
    /\ UnpublishedUnseen
    /\ HeardOnce
    /\ HeardNew
    /\ PushedOnce
    /\ PushedNew
    /\ AtMostOne

----------------------------------------------------------------------------
(* One send takes the socket from the broadcast, and may add a copy.       *)
LEMMA SendToChanges ==
    ASSUME TypeInv, NEW n \in Instance, NEW b \in pushing[n], NEW w \in Socket,
           SendTo(n, b, w)
    PROVE  \E c \in Broadcast :
               /\ c.message = b.message /\ c.left = b.left \ {w}
               /\ pushing' = [pushing EXCEPT ![n] = (@ \ {b}) \cup {c}]
               /\ (copies' = copies \/ copies' = [copies EXCEPT ![w][b.message] = @ + 1])
<1>1. b \in Broadcast
  BY DEF TypeInv, NotificationTypeOK
<1> DEFINE c == [b EXCEPT !.left = @ \ {w}]
           d == NoteDead(b, w)
<1>2. c \in Broadcast /\ c.message = b.message /\ c.left = b.left \ {w}
  BY <1>1 DEF Broadcast
<1>3. d \in Broadcast /\ d.message = b.message /\ d.left = b.left \ {w}
  BY <1>1 DEF Broadcast, NoteDead
<1>4. \/ Replace(n, b, c) /\ (copies' = copies \/ copies' = [copies EXCEPT ![w][b.message] = @ + 1])
      \/ Replace(n, b, d) /\ copies' = copies
  BY DEF SendTo
<1> QED
  BY <1>2, <1>3, <1>4 DEF Replace

(* One send keeps the types, and no other copy appears.                   *)
LEMMA SendToTypes ==
    ASSUME TypeInv, NEW n \in Instance, NEW b \in pushing[n], NEW w \in Socket,
           SendTo(n, b, w)
    PROVE  TypeInv'
<1>1. PICK c \in Broadcast :
          /\ c.message = b.message /\ c.left = b.left \ {w}
          /\ pushing' = [pushing EXCEPT ![n] = (@ \ {b}) \cup {c}]
          /\ (copies' = copies \/ copies' = [copies EXCEPT ![w][b.message] = @ + 1])
  BY SendToChanges
<1> USE NotificationAssumption DEF TypeInv, NotificationTypeOK, Fresh, LeftAtHome, HandsFinal
<1>b. b \in Broadcast
  OBVIOUS
<1>m. b.message \in Message
  BY <1>b DEF Broadcast
<1>2. w \in b.left /\ home[w] = n /\ handler[w] # "none"
  BY DEF SendTo
<1>3. copies' \in [Socket -> [Message -> Nat]]
  <2>1. copies[w] \in [Message -> Nat] /\ copies[w][b.message] + 1 \in Nat
    BY <1>m
  <2>2. CASE copies' = copies
    BY <2>2
  <2>3. CASE copies' = [copies EXCEPT ![w][b.message] = @ + 1]
    BY <1>m, <2>1, <2>3
  <2> QED
    BY <1>1, <2>2, <2>3
<1>4. pushing' \in [Instance -> SUBSET Broadcast]
  BY <1>1
<1>5. LeftAtHome'
  BY <1>1, <1>2 DEF SendTo
<1>6. Fresh'
  <2>1. home' = home /\ handler' = handler
    BY DEF SendTo
  <2>2. \A v \in Socket : v # w => copies'[v] = copies[v]
    BY <1>1
  <2>3. \A v \in Socket :
          handler[v] = "none" => home[v] = None /\ \A m \in Message : copies[v][m] = 0
    BY DEF Fresh
  <2>4. ASSUME NEW v \in Socket, handler'[v] = "none"
        PROVE  home'[v] = None /\ \A m \in Message : copies'[v][m] = 0
    <3>1. v # w
      BY <2>1, <2>4, <1>2
    <3> QED
      BY <2>1, <2>2, <2>3, <2>4, <3>1
  <2> QED
    BY <2>4
<1> QED
  BY <1>3, <1>4, <1>5, <1>6 DEF SendTo, consumerVars

(* Every step keeps the types and the homes of sockets.                    *)
LEMMA TypeStep == TypeInv /\ [Next]_vars => TypeInv'
<1> SUFFICES ASSUME TypeInv, [Next]_vars PROVE TypeInv'
  OBVIOUS
<1> USE NotificationAssumption DEF TypeInv, NotificationTypeOK, Fresh, LeftAtHome, HandsFinal
<1>1. ASSUME NEW n \in Instance, NEW m \in Message, Consume(n, m)
      PROVE  TypeInv'
  BY <1>1 DEF Consume, TakeFromGroup, IsFinal, readerVars, socketVars
<1>2. ASSUME NEW n \in Instance, NEW m \in Message, SkipSubBooking(n, m)
      PROVE  TypeInv'
  BY <1>2 DEF SkipSubBooking, TakeFromGroup, readerVars, socketVars
<1>3. ASSUME NEW n \in Instance, Publish(n)
      PROVE  TypeInv'
  <2>1. hand[n] \in Message \ SubBooking
    BY <1>3 DEF Publish
  <2>2. heard' \in [Instance -> Seq(Message \ SubBooking)]
    BY <1>3, <2>1 DEF Publish
  <2> QED
    BY <1>3, <2>1, <2>2 DEF Publish, socketVars
<1>4. ASSUME NEW n \in Instance, PublishFails(n)
      PROVE  TypeInv'
  BY <1>4 DEF PublishFails, Uncommitted, Fault, readerVars, socketVars
<1>5. ASSUME NEW n \in Instance, CommitOffsets(n)
      PROVE  TypeInv'
  BY <1>5 DEF CommitOffsets, readerVars, socketVars
<1>6. ASSUME NEW n \in Instance, Subscribe(n)
      PROVE  TypeInv'
  BY <1>6 DEF Subscribe, consumerVars, socketVars
<1>7. ASSUME NEW n \in Instance, LoseSubscription(n)
      PROVE  TypeInv'
  BY <1>7 DEF LoseSubscription, Fault, consumerVars, socketVars
<1>8. ASSUME NEW n \in Instance, StartBroadcast(n)
      PROVE  TypeInv'
  BY <1>8 DEF StartBroadcast, Listed, Broadcast, consumerVars, socketVars
<1>9. ASSUME NEW n \in Instance, NEW b \in pushing[n], NEW w \in Socket, SendTo(n, b, w)
      PROVE  TypeInv'
  BY <1>9, SendToTypes
<1>10. ASSUME NEW n \in Instance, NEW b \in pushing[n], FinishBroadcast(n, b)
      PROVE  TypeInv'
  BY <1>10 DEF FinishBroadcast, consumerVars
<1>11. ASSUME NEW n \in Instance, BroadcastSlow(n)
      PROVE  TypeInv'
  BY <1>11 DEF BroadcastSlow, Fault, consumerVars, socketVars
<1>12. ASSUME NEW n \in Instance, NEW w \in Socket, Accept(n, w)
      PROVE  TypeInv'
  BY <1>12 DEF Accept, consumerVars, readerVars
<1>13. ASSUME NEW w \in Socket, CloseSocket(w)
      PROVE  TypeInv'
  BY <1>13 DEF CloseSocket, consumerVars, readerVars
<1>14. ASSUME NEW w \in Socket, Disconnect(w)
      PROVE  TypeInv'
  BY <1>14 DEF Disconnect, consumerVars, readerVars
<1>15. ASSUME NEW n \in Instance, Crash(n)
      PROVE  TypeInv'
  BY <1>15 DEF Crash, Uncommitted, Fault
<1>16. CASE UNCHANGED vars
  BY <1>16 DEF vars, consumerVars, readerVars, socketVars
<1> QED
  BY <1>1, <1>2, <1>3, <1>4, <1>5, <1>6, <1>7, <1>8, <1>9, <1>10,
     <1>11, <1>12, <1>13, <1>14, <1>15, <1>16
  DEF Next, ConsumerStep, ReaderStep, PushStep

----------------------------------------------------------------------------
(* As long as nothing is heard or pushed, all that may change is what is   *)
(* still to be published.                                                  *)
LEMMA NothingHeard ==
    ASSUME OnceInv, UNCHANGED <<heard, pushing, home, copies>>
    PROVE  /\ HeardOnce' /\ HeardNew' /\ PushedOnce' /\ PushedNew' /\ AtMostOne'
           /\ \A q \in Message : Unseen(q) => Unseen(q)'
<1>1. HeardOnce'
  BY DEF OnceInv, HeardOnce
<1>s. \A k \in Instance : Heard(k)' = Heard(k) /\ Pushed(k)' = Pushed(k)
  BY DEF Heard, Pushed
<1>2. HeardNew'
  BY <1>s DEF OnceInv, HeardNew
<1>3. PushedOnce' /\ PushedNew' /\ AtMostOne'
  BY DEF OnceInv, PushedOnce, PushedNew, AtMostOne
<1>4. \A q \in Message : Unseen(q) => Unseen(q)'
  BY DEF Unseen, Heard, Pushed
<1> QED
  BY <1>1, <1>2, <1>3, <1>4

(* What nobody touches stays as it is.                                     *)
LEMMA NothingMoved ==
    ASSUME OnceInv, UNCHANGED <<pending, hand, heard, pushing, home, copies>>
    PROVE  OnceInv'
<1>1. InOneHand'
  BY DEF OnceInv, InOneHand
<1>2. UnpublishedUnseen'
  BY NothingHeard DEF OnceInv, UnpublishedUnseen
<1> QED
  BY <1>1, <1>2, NothingHeard DEF OnceInv

(* Taking an outcome from the topic leaves it unpublished.                 *)
LEMMA ConsumeOnce ==
    ASSUME TypeInv, OnceInv, NEW n \in Instance, NEW m \in Message, Consume(n, m)
    PROVE  OnceInv'
<1>1. /\ pending' = pending \ {m} /\ hand' = [hand EXCEPT ![n] = m] /\ m \in pending
      /\ heard' = heard /\ pushing' = pushing /\ home' = home /\ copies' = copies
  BY DEF Consume, TakeFromGroup, readerVars, socketVars
<1>2. InOneHand'
  BY <1>1 DEF TypeInv, NotificationTypeOK, OnceInv, InOneHand
<1>3. UnpublishedUnseen'
  <2>1. \A q \in Message : Unseen(q)' <=> Unseen(q)
    BY <1>1 DEF Unseen, Heard, Pushed
  <2>2. \A q \in Message :
          (q \in pending' \/ \E k \in Instance : hand'[k] = q)
          => (q \in pending \/ \E k \in Instance : hand[k] = q)
    BY <1>1 DEF TypeInv, NotificationTypeOK
  <2> QED
    BY <2>1, <2>2 DEF OnceInv, UnpublishedUnseen
<1> QED
  BY <1>1, <1>2, <1>3, NothingHeard DEF OnceInv

(* The answer to a sub-booking is passed over.                             *)
LEMMA SkipOnce ==
    ASSUME TypeInv, OnceInv, NEW n \in Instance, NEW m \in Message, SkipSubBooking(n, m)
    PROVE  OnceInv'
<1>1. /\ pending' = pending \ {m} /\ hand' = hand
      /\ heard' = heard /\ pushing' = pushing /\ home' = home /\ copies' = copies
  BY DEF SkipSubBooking, TakeFromGroup, readerVars, socketVars
<1>2. InOneHand'
  BY <1>1 DEF OnceInv, InOneHand
<1>3. UnpublishedUnseen'
  BY <1>1, NothingHeard DEF OnceInv, UnpublishedUnseen
<1> QED
  BY <1>1, <1>2, <1>3, NothingHeard DEF OnceInv

(* What is published was in one hand only, and nobody has heard of it.     *)
LEMMA PublishOnce ==
    ASSUME TypeInv, OnceInv, NEW n \in Instance, Publish(n)
    PROVE  OnceInv'
<1> DEFINE m == hand[n]
<1>1. /\ pending' = pending /\ hand' = [hand EXCEPT ![n] = None]
      /\ heard' = [k \in Instance |-> IF k \in subscribed THEN Append(heard[k], m) ELSE heard[k]]
      /\ pushing' = pushing /\ home' = home /\ copies' = copies /\ m # None
  BY DEF Publish, socketVars
<1>2. /\ hand \in [Instance -> Message \cup {None}] /\ m \in Message
      /\ \A k \in Instance : heard[k] \in Seq(Message)
      /\ None \notin Message
  BY <1>1, NotificationAssumption DEF TypeInv, NotificationTypeOK
<1>3. m \notin pending /\ \A k \in Instance : hand[k] = m => k = n
  BY <1>1 DEF OnceInv, InOneHand
<1>4. Unseen(m)
  BY <1>2 DEF OnceInv, UnpublishedUnseen
<1>5. \A k \in Instance : Heard(k)' \subseteq Heard(k) \cup {m}
  BY <1>1, <1>2 DEF Heard
<1>6. \A k \in Instance : Pushed(k)' = Pushed(k)
  BY <1>1 DEF Pushed
<1>7. InOneHand'
  BY <1>1, <1>2 DEF OnceInv, InOneHand
<1>8. UnpublishedUnseen'
  <2> SUFFICES ASSUME NEW q \in Message, q \in pending' \/ \E k \in Instance : hand'[k] = q
               PROVE  Unseen(q)'
    BY DEF UnpublishedUnseen
  <2>1. q # m /\ (q \in pending \/ \E k \in Instance : hand[k] = q)
    BY <1>1, <1>2, <1>3
  <2>2. Unseen(q)
    BY <2>1 DEF OnceInv, UnpublishedUnseen
  <2> QED
    BY <1>1, <1>5, <1>6, <2>1, <2>2 DEF Unseen
<1>9. HeardOnce'
  <2> SUFFICES ASSUME NEW k \in Instance,
                      NEW i \in 1 .. Len(heard'[k]), NEW j \in 1 .. Len(heard'[k]),
                      heard'[k][i] = heard'[k][j]
               PROVE  i = j
    BY DEF HeardOnce
  <2>1. m \notin Heard(k) /\ \A a, b \in 1 .. Len(heard[k]) : heard[k][a] = heard[k][b] => a = b
    BY <1>4 DEF OnceInv, HeardOnce, Unseen
  <2>2. CASE k \in subscribed
    <3>1. heard'[k] = Append(heard[k], m)
      BY <1>1, <2>2
    <3> QED
      BY <1>2, <2>1, <3>1 DEF Heard
  <2>3. CASE k \notin subscribed
    BY <1>1, <2>1, <2>3
  <2> QED
    BY <2>2, <2>3
<1>10. HeardNew'
  BY <1>1, <1>4, <1>5, <1>6, <1>2 DEF OnceInv, HeardNew, Unseen
<1> QED
  BY <1>1, <1>7, <1>8, <1>9, <1>10 DEF OnceInv, PushedOnce, PushedNew, AtMostOne

(* What an unsubscribed instance was to read is gone.                      *)
LEMMA LoseSubscriptionOnce ==
    ASSUME TypeInv, OnceInv, NEW n \in Instance, LoseSubscription(n)
    PROVE  OnceInv'
<1>1. /\ pending' = pending /\ hand' = hand /\ heard' = [heard EXCEPT ![n] = <<>>]
      /\ pushing' = pushing /\ home' = home /\ copies' = copies
  BY DEF LoseSubscription, consumerVars, socketVars
<1>2. \A k \in Instance : heard'[k] = heard[k] \/ heard'[k] = <<>>
  BY <1>1 DEF TypeInv, NotificationTypeOK
<1>3. \A k \in Instance : Heard(k)' \subseteq Heard(k)
  BY <1>2 DEF Heard
<1>4. HeardOnce'
  BY <1>2 DEF OnceInv, HeardOnce
<1> QED
  BY <1>1, <1>3, <1>4 DEF OnceInv, InOneHand, UnpublishedUnseen, Unseen, HeardNew, PushedOnce,
                          PushedNew, AtMostOne, Pushed

(* The broadcast an instance starts is of an outcome it had not pushed, to *)
(* sockets that do not have it.                                            *)
LEMMA StartBroadcastOnce ==
    ASSUME TypeInv, OnceInv, NEW n \in Instance, StartBroadcast(n)
    PROVE  OnceInv'
<1> DEFINE m == Head(heard[n])
           b == [message |-> m, left |-> Listed(n, m), dead |-> {}]
<1>1. /\ pending' = pending /\ hand' = hand /\ heard' = [heard EXCEPT ![n] = Tail(@)]
      /\ pushing' = [pushing EXCEPT ![n] = @ \cup {b}]
      /\ home' = home /\ copies' = copies /\ heard[n] # <<>>
  BY DEF StartBroadcast, consumerVars, socketVars
<1>2. /\ heard \in [Instance -> Seq(Message \ SubBooking)]
      /\ pushing \in [Instance -> SUBSET Broadcast]
      /\ connections \subseteq Socket
  BY DEF TypeInv, NotificationTypeOK
<1>t. /\ heard[n] \in Seq(Message) /\ Len(heard[n]) >= 1 /\ Len(Tail(heard[n])) = Len(heard[n]) - 1
      /\ \A i \in 1 .. Len(Tail(heard[n])) : Tail(heard[n])[i] = heard[n][i + 1]
      /\ m = heard[n][1]
  BY <1>1, <1>2
<1>3. m \in Message /\ m \in Heard(n)
  BY <1>t DEF Heard
<1>4. m \notin Pushed(n) /\ \A w \in Socket : home[w] = n => copies[w][m] = 0
  BY <1>3 DEF OnceInv, HeardNew
<1>5. /\ heard'[n] = Tail(heard[n]) /\ pushing'[n] = pushing[n] \cup {b}
      /\ \A k \in Instance \ {n} : heard'[k] = heard[k] /\ pushing'[k] = pushing[k]
  BY <1>1, <1>2
<1>6. m \notin Heard(n)' /\ \A k \in Instance : Heard(k)' \subseteq Heard(k)
  <2>1. Heard(n)' \subseteq Heard(n) \ {m}
    <3> SUFFICES ASSUME NEW i \in 1 .. Len(Tail(heard[n]))
                 PROVE  Tail(heard[n])[i] \in Heard(n) \ {m}
      BY <1>5 DEF Heard
    <3>1. i + 1 \in 1 .. Len(heard[n]) /\ 1 \in 1 .. Len(heard[n]) /\ i + 1 # 1
      BY <1>t
    <3>2. heard[n][i + 1] # heard[n][1]
      BY <3>1 DEF OnceInv, HeardOnce
    <3> QED
      BY <1>t, <3>1, <3>2 DEF Heard
  <2>2. \A k \in Instance \ {n} : Heard(k)' = Heard(k)
    BY <1>5 DEF Heard
  <2> QED
    BY <2>1, <2>2
<1>7. /\ Pushed(n)' = Pushed(n) \cup {m}
      /\ \A k \in Instance \ {n} : Pushed(k)' = Pushed(k)
  <2>1. b.message = m
    OBVIOUS
  <2>2. \A k \in Instance \ {n} : Pushed(k)' = Pushed(k)
    BY <1>5 DEF Pushed
  <2> HIDE DEF b, m
  <2>3. Pushed(n)' = Pushed(n) \cup {m}
    BY <1>5, <2>1 DEF Pushed
  <2> QED
    BY <2>2, <2>3
<1>8. UnpublishedUnseen'
  <2> SUFFICES ASSUME NEW q \in Message, q \in pending \/ \E k \in Instance : hand[k] = q
               PROVE  Unseen(q)'
    BY <1>1 DEF UnpublishedUnseen
  <2>1. Unseen(q)
    BY DEF OnceInv, UnpublishedUnseen
  <2>2. q # m
    BY <1>3, <2>1 DEF Unseen
  <2> QED
    BY <1>1, <1>6, <1>7, <2>1, <2>2 DEF Unseen
<1>9. HeardOnce'
  <2>1. \A i, j \in 1 .. Len(heard[n]) : heard[n][i] = heard[n][j] => i = j
    BY DEF OnceInv, HeardOnce
  <2>2. \A i, j \in 1 .. Len(heard'[n]) : heard'[n][i] = heard'[n][j] => i = j
    <3> SUFFICES ASSUME NEW i \in 1 .. Len(Tail(heard[n])), NEW j \in 1 .. Len(Tail(heard[n])),
                        Tail(heard[n])[i] = Tail(heard[n])[j]
                 PROVE  i = j
      BY <1>5
    <3>1. i + 1 \in 1 .. Len(heard[n]) /\ j + 1 \in 1 .. Len(heard[n])
      BY <1>t
    <3>2. heard[n][i + 1] = heard[n][j + 1]
      BY <1>t
    <3>3. i + 1 = j + 1
      BY <2>1, <3>1, <3>2
    <3> QED
      BY <3>3
  <2> QED
    BY <1>5, <2>2 DEF OnceInv, HeardOnce
<1>10. HeardNew'
  BY <1>1, <1>6, <1>7 DEF OnceInv, HeardNew
<1>11. PushedOnce'
  <2>1. b.message = m
    OBVIOUS
  <2> HIDE DEF b, m
  <2>2. \A c \in pushing[n] : c.message # b.message
    BY <1>4, <2>1 DEF Pushed
  <2> QED
    BY <1>5, <2>2 DEF OnceInv, PushedOnce
<1>12. PushedNew'
  <2>1. \A w \in Listed(n, m) : copies[w][m] = 0
    BY <1>2, <1>4 DEF Listed
  <2> QED
    BY <1>1, <1>5, <2>1 DEF OnceInv, PushedNew
<1>13. InOneHand' /\ AtMostOne'
  BY <1>1 DEF OnceInv, InOneHand, AtMostOne
<1> QED
  BY <1>8, <1>9, <1>10, <1>11, <1>12, <1>13 DEF OnceInv

(* A send is to a socket without the outcome, and takes it off the list.   *)
LEMMA SendToOnce ==
    ASSUME TypeInv, OnceInv, NEW n \in Instance, NEW b \in pushing[n], NEW w \in Socket,
           SendTo(n, b, w)
    PROVE  OnceInv'
<1>1. PICK c \in Broadcast :
          /\ c.message = b.message /\ c.left = b.left \ {w}
          /\ pushing' = [pushing EXCEPT ![n] = (@ \ {b}) \cup {c}]
          /\ (copies' = copies \/ copies' = [copies EXCEPT ![w][b.message] = @ + 1])
  BY SendToChanges
<1>2. /\ pending' = pending /\ hand' = hand /\ heard' = heard /\ home' = home
      /\ w \in b.left
  BY DEF SendTo, consumerVars
<1>3. /\ pushing \in [Instance -> SUBSET Broadcast] /\ copies \in [Socket -> [Message -> Nat]]
      /\ b \in Broadcast /\ home[w] = n
  BY <1>2 DEF TypeInv, NotificationTypeOK, LeftAtHome
<1>4. b.message \in Message /\ b.message \in Pushed(n) /\ copies[w][b.message] = 0
  BY <1>2, <1>3 DEF Broadcast, Pushed, OnceInv, PushedNew
<1>5. /\ pushing'[n] = (pushing[n] \ {b}) \cup {c}
      /\ \A k \in Instance \ {n} : pushing'[k] = pushing[k]
  BY <1>1, <1>3
<1>6. \A v \in Socket, q \in Message :
         (v # w \/ q # b.message) => copies'[v][q] = copies[v][q]
  BY <1>1, <1>3, <1>4
<1>7. copies'[w][b.message] \in {0, 1}
  <2>1. CASE copies' = copies
    BY <1>4, <2>1
  <2>2. CASE copies' = [copies EXCEPT ![w][b.message] = @ + 1]
    BY <1>3, <1>4, <2>2
  <2> QED
    BY <1>1, <2>1, <2>2
<1>8. /\ \A k \in Instance : Pushed(k)' = Pushed(k)
      /\ \A k \in Instance : Heard(k)' = Heard(k)
  BY <1>1, <1>2, <1>5 DEF Pushed, Heard
<1>9. UnpublishedUnseen'
  <2> SUFFICES ASSUME NEW q \in Message, q \in pending \/ \E k \in Instance : hand[k] = q
               PROVE  Unseen(q)'
    BY <1>2 DEF UnpublishedUnseen
  <2>1. Unseen(q)
    BY DEF OnceInv, UnpublishedUnseen
  <2>2. q # b.message
    BY <1>4, <2>1 DEF Unseen
  <2> QED
    BY <1>6, <1>8, <2>1, <2>2 DEF Unseen
<1>10. HeardNew'
  <2> SUFFICES ASSUME NEW k \in Instance, NEW q \in Heard(k)
               PROVE  q \notin Pushed(k) /\ \A v \in Socket : home[v] = k => copies'[v][q] = 0
    BY <1>2, <1>8 DEF HeardNew
  <2>1. q \notin Pushed(k) /\ \A v \in Socket : home[v] = k => copies[v][q] = 0
    BY DEF OnceInv, HeardNew
  <2>2. q \in Message
    BY DEF Heard, TypeInv, NotificationTypeOK
  <2>3. \A v \in Socket : home[v] = k => v # w \/ q # b.message
    BY <1>3, <1>4, <2>1
  <2> QED
    BY <1>6, <2>1, <2>2, <2>3
<1>11. PushedOnce'
  BY <1>1, <1>5 DEF OnceInv, PushedOnce
<1>12. PushedNew'
  <2> SUFFICES ASSUME NEW k \in Instance, NEW d \in pushing'[k], NEW v \in d.left
               PROVE  copies'[v][d.message] = 0
    BY DEF PushedNew
  <2>1. PICK e \in pushing[k] :
           /\ e.message = d.message /\ v \in e.left
           /\ (e = d /\ (k # n \/ e # b)) \/ (k = n /\ v # w)
    <3>1. CASE k # n
      BY <1>5, <3>1
    <3>2. CASE k = n /\ d = c
      BY <1>1, <3>2
    <3>3. CASE k = n /\ d # c
      BY <1>5, <3>3
    <3> QED
      BY <3>1, <3>2, <3>3
  <2>2. copies[v][e.message] = 0 /\ home[v] = k
    BY <2>1 DEF OnceInv, PushedNew, TypeInv, LeftAtHome
  <2>3. e \in Broadcast /\ v \in Socket /\ e.message \in Message
    BY <1>3, <2>1 DEF Broadcast
  <2>4. v # w \/ e.message # b.message
    BY <1>3, <2>1, <2>2 DEF OnceInv, PushedOnce
  <2> QED
    BY <1>6, <2>1, <2>2, <2>3, <2>4
<1>13. InOneHand' /\ HeardOnce'
  BY <1>2 DEF OnceInv, InOneHand, HeardOnce
<1>14. AtMostOne'
  BY <1>6, <1>7 DEF OnceInv, AtMostOne
<1> QED
  BY <1>9, <1>10, <1>11, <1>12, <1>13, <1>14 DEF OnceInv

(* A finished broadcast is gone.                                           *)
LEMMA FinishBroadcastOnce ==
    ASSUME TypeInv, OnceInv, NEW n \in Instance, NEW b \in pushing[n], FinishBroadcast(n, b)
    PROVE  OnceInv'
<1>1. /\ pending' = pending /\ hand' = hand /\ heard' = heard /\ home' = home /\ copies' = copies
      /\ \A k \in Instance : pushing'[k] \subseteq pushing[k]
  BY DEF FinishBroadcast, consumerVars, TypeInv, NotificationTypeOK
<1>2. \A k \in Instance : Pushed(k)' \subseteq Pushed(k) /\ Heard(k)' = Heard(k)
  BY <1>1 DEF Pushed, Heard
<1>3. UnpublishedUnseen'
  BY <1>1, <1>2 DEF OnceInv, UnpublishedUnseen, Unseen
<1>4. HeardNew'
  BY <1>1, <1>2 DEF OnceInv, HeardNew
<1>5. PushedOnce'
  BY <1>1 DEF OnceInv, PushedOnce
<1>6. PushedNew'
  BY <1>1 DEF OnceInv, PushedNew
<1> QED
  BY <1>1, <1>3, <1>4, <1>5, <1>6 DEF OnceInv, InOneHand, HeardOnce, AtMostOne

(* A socket that is accepted has received nothing.                         *)
LEMMA AcceptOnce ==
    ASSUME TypeInv, OnceInv, NEW n \in Instance, NEW w \in Socket, Accept(n, w)
    PROVE  OnceInv'
<1>1. /\ pending' = pending /\ hand' = hand /\ heard' = heard /\ pushing' = pushing
      /\ copies' = copies /\ home' = [home EXCEPT ![w] = n] /\ handler[w] = "none"
  BY DEF Accept, consumerVars, readerVars
<1>2. \A m \in Message : copies[w][m] = 0
  BY <1>1 DEF TypeInv, Fresh
<1>3. \A v \in Socket : v # w => home'[v] = home[v]
  BY <1>1 DEF TypeInv, NotificationTypeOK
<1>4. \A k \in Instance :
         Heard(k) \subseteq Message /\ Heard(k)' = Heard(k) /\ Pushed(k)' = Pushed(k)
  BY <1>1 DEF Heard, Pushed, TypeInv, NotificationTypeOK
<1>5. HeardNew'
  BY <1>1, <1>2, <1>3, <1>4 DEF OnceInv, HeardNew
<1>6. UnpublishedUnseen'
  BY <1>1, <1>4 DEF OnceInv, UnpublishedUnseen, Unseen
<1> QED
  BY <1>1, <1>5, <1>6 DEF OnceInv, InOneHand, HeardOnce, PushedOnce, PushedNew, AtMostOne

(* A fault that occurs has occurred.                                       *)
LEMMA FaultHappens ==
    ASSUME NEW kind, Fault(kind)
    PROVE  Happened(kind)'
<1>1. MaxFaults \in Nat
  BY NotificationAssumption
<1>2. PICK n \in 1 .. MaxFaults : /\ \A m \in 1 .. n - 1 : <<kind, m>> \in faults
                                 /\ faults' = faults \cup {<<kind, n>>}
  BY DEF Fault
<1>3. n = 1 \/ 1 \in 1 .. n - 1
  BY <1>1
<1>4. QED
  BY <1>2, <1>3 DEF Happened

(* Every step without a consumer that starts over tells nobody twice.      *)
LEMMA OnceStep == TypeInv /\ OnceInv /\ [Next]_vars /\ Quiet' => OnceInv'
<1> SUFFICES ASSUME TypeInv, OnceInv, [Next]_vars, Quiet' PROVE OnceInv'
  OBVIOUS
<1>1. ASSUME NEW n \in Instance, NEW m \in Message, Consume(n, m) \/ SkipSubBooking(n, m)
      PROVE  OnceInv'
  BY <1>1, ConsumeOnce, SkipOnce
<1>2. ASSUME NEW n \in Instance, Publish(n) \/ LoseSubscription(n) \/ StartBroadcast(n)
      PROVE  OnceInv'
  BY <1>2, PublishOnce, LoseSubscriptionOnce, StartBroadcastOnce
<1>3. ASSUME NEW n \in Instance, PublishFails(n) \/ Crash(n)
      PROVE  OnceInv'
  BY <1>3, FaultHappens DEF Quiet, PublishFails, Crash
<1>4. ASSUME NEW n \in Instance, CommitOffsets(n) \/ Subscribe(n) \/ BroadcastSlow(n)
      PROVE  OnceInv'
  BY <1>4, NothingMoved
  DEF CommitOffsets, Subscribe, BroadcastSlow, consumerVars, readerVars, socketVars
<1>5. ASSUME NEW n \in Instance, NEW b \in pushing[n], NEW w \in Socket, SendTo(n, b, w)
      PROVE  OnceInv'
  BY <1>5, SendToOnce
<1>6. ASSUME NEW n \in Instance, NEW b \in pushing[n], FinishBroadcast(n, b)
      PROVE  OnceInv'
  BY <1>6, FinishBroadcastOnce
<1>7. ASSUME NEW n \in Instance, NEW w \in Socket, Accept(n, w)
      PROVE  OnceInv'
  BY <1>7, AcceptOnce
<1>8. ASSUME NEW w \in Socket, CloseSocket(w) \/ Disconnect(w)
      PROVE  OnceInv'
  BY <1>8, NothingMoved DEF CloseSocket, Disconnect, consumerVars, readerVars
<1>9. CASE UNCHANGED vars
  BY <1>9, NothingMoved DEF vars, consumerVars, readerVars, socketVars
<1> QED
  BY <1>1, <1>2, <1>3, <1>4, <1>5, <1>6, <1>7, <1>8, <1>9
  DEF Next, ConsumerStep, ReaderStep, PushStep

(* Faults stay in the history.                                             *)
LEMMA QuietBefore == [Next]_vars /\ Quiet' => Quiet
<1> SUFFICES ASSUME [Next]_vars PROVE faults \subseteq faults'
  BY DEF Quiet, Happened
<1>1. ASSUME NEW n \in Instance, ConsumerStep(n) \/ CommitOffsets(n) \/ ReaderStep(n)
      PROVE  faults \subseteq faults'
  BY <1>1 DEF ConsumerStep, ReaderStep, Consume, SkipSubBooking, Publish, CommitOffsets,
              Subscribe, StartBroadcast
<1>2. ASSUME NEW n \in Instance, PushStep(n) PROVE faults \subseteq faults'
  BY <1>2 DEF PushStep, SendTo, FinishBroadcast
<1>3. ASSUME NEW n \in Instance,
             PublishFails(n) \/ LoseSubscription(n) \/ BroadcastSlow(n) \/ Crash(n)
      PROVE  faults \subseteq faults'
  BY <1>3 DEF PublishFails, LoseSubscription, BroadcastSlow, Crash, Fault
<1>4. ASSUME NEW w \in Socket, Disconnect(w) \/ CloseSocket(w) \/ \E n \in Instance : Accept(n, w)
      PROVE  faults \subseteq faults'
  BY <1>4 DEF Disconnect, CloseSocket, Accept
<1> QED
  BY <1>1, <1>2, <1>3, <1>4 DEF Next, vars

----------------------------------------------------------------------------
(* The types hold in every behaviour.                                      *)
LEMMA TypesHold == Spec => []TypeInv
<1>1. Init => TypeInv
  BY NotificationAssumption DEF Init, TypeInv, NotificationTypeOK, Fresh, LeftAtHome, HandsFinal
<1> QED
  BY <1>1, TypeStep, PTL DEF Spec

(* Type correctness of the notification service and its clients.           *)
THEOREM NotificationTypes == Spec => []NotificationTypeOK
<1>1. TypeInv => NotificationTypeOK
  BY DEF TypeInv
<1> QED
  BY <1>1, TypesHold, PTL

(* No socket receives an outcome twice, whichever instances consume it and *)
(* however sockets come and go, unless a consumer had to start over.       *)
THEOREM NobodyIsToldTwice == Spec => []ToldOnce
<1> DEFINE Inv == Quiet => OnceInv
<1>1. Init => Inv
  BY NotificationAssumption
  DEF Init, OnceInv, InOneHand, UnpublishedUnseen, Unseen, HeardOnce, HeardNew, PushedOnce,
      PushedNew, AtMostOne, Heard, Pushed
<1>2. TypeInv /\ Inv /\ [Next]_vars => Inv'
  BY OnceStep, QuietBefore
<1>3. Inv => ToldOnce
  BY DEF OnceInv, AtMostOne, ToldOnce, Quiet
<1> QED
  BY <1>1, <1>2, <1>3, TypesHold, PTL DEF Spec
=============================================================================
