----------------------------- MODULE SagaProofs -----------------------------
(***************************************************************************)
(* What holds of a saga for any number of regions and coordinators and any *)
(* mix of faults: types, one coordinator as long as no held key is lost,   *)
(* and records for whatever is committed.                                  *)
(***************************************************************************)
EXTENDS Saga, FiniteSetTheorems, TLAPS

(* A step of _advance_saga that looks at the outcome in hand has one.      *)
Handling ==
    \A c \in Coordinator : pc[c] \in {"read", "update"} => hand[c] \in Reply

TypeInv == SagaTypeOK /\ Handling

(* Leaders hold the key, until one is lost.                                *)
LeadersHoldKey == faults["key"] = 0 => leaders \subseteq {key}

(* The region's record, or its stand-in in the global data-service.        *)
Recorded(r) == r \in stray \/ "approved" \in {docs[r][i] : i \in 1 .. Len(docs[r])}

(* A commit has written what its loop has passed.                          *)
CommitsRecorded ==
    \A c \in Coordinator : pc[c] = "commit" => \A r \in Region \ todo[c] : Recorded(r)

----------------------------------------------------------------------------
(* Faults only add up.                                                     *)
LEMMA FaultsAddUp ==
    ASSUME faults \in [FaultKind -> Nat], NEW k \in FaultKind, Fault(k)
    PROVE  /\ faults' \in [FaultKind -> Nat]
           /\ faults'[k] > 0
           /\ \A j \in FaultKind : faults'[j] >= faults[j]
  BY DEF Fault

(* Back in the consumer loop nothing is in hand.                           *)
LEMMA FinishTypes ==
    ASSUME TypeInv, NEW c \in Coordinator, Finish(c)
    PROVE  /\ inbox' \subseteq Reply
           /\ consumed' \in [Coordinator -> SUBSET Reply]
           /\ pc' \in [Coordinator -> Place]
           /\ hand' \in [Coordinator -> Reply \cup {NoReply}]
           /\ snap' \in [Coordinator -> [Region -> Answer \cup {"NONE"}]]
           /\ todo' \in [Coordinator -> SUBSET Region]
           /\ replaying' \subseteq Coordinator
           /\ Handling'
<1> USE DEF TypeInv, SagaTypeOK, Finish, Goto, Place
<1>1. Message(c) \subseteq Reply
  BY DEF Message
<1>2. consumed' \in [Coordinator -> SUBSET Reply]
  BY <1>1
<1>3. Handling'
  BY DEF Handling
<1> QED
  BY <1>2, <1>3

(* An outcome that is delivered again is an outcome.                       *)
LEMMA RedeliverableTypes ==
    ASSUME TypeInv, NEW c \in Coordinator
    PROVE  Redeliverable(c) \subseteq Reply
  BY DEF TypeInv, SagaTypeOK, Redeliverable, Message

(* A record more, in one region.                                           *)
LEMMA AddRecordTypes ==
    ASSUME TypeInv, NEW r \in Region, NEW st \in {"approved", "rejected"}, AddRecord(r, st)
    PROVE  docs' \in [Region -> Seq({"approved", "rejected"})]
  BY DEF TypeInv, SagaTypeOK, AddRecord

(* Every step keeps the types, and an outcome in every hand that needs it. *)
LEMMA TypeStep == TypeInv /\ [Next]_vars => TypeInv'
<1> SUFFICES ASSUME TypeInv, [Next]_vars PROVE TypeInv'
  OBVIOUS
<1> USE DEF TypeInv, SagaTypeOK, Handling, Answer
<1>f. ASSUME NEW k \in FaultKind, Fault(k) PROVE faults' \in [FaultKind -> Nat]
  BY <1>f, FaultsAddUp
\* create_saga
<1>1. CASE InsertSaga
  BY <1>1 DEF InsertSaga, Terminal, regionVars, coordVars, effectVars, queueVars,
       leaderVars
<1>2. ASSUME NEW r \in Region, SendSubBooking(r) PROVE TypeInv'
  BY <1>2, <1>f DEF SendSubBooking, FaultKind, sagaVars, coordVars, effectVars,
       queueVars, leaderVars
<1>3. CASE SendFails
  BY <1>3, <1>f DEF SendFails, FaultKind, sagaVars, regionVars, coordVars,
       effectVars, queueVars, leaderVars
\* the regions
<1>4. ASSUME NEW r \in Region, SkipValidation(r) PROVE TypeInv'
  BY <1>4 DEF SkipValidation, apiVars, sagaVars, coordVars, effectVars, queueVars,
       leaderVars
<1>5. ASSUME NEW r \in Region, NEW o \in Answer, Validate(r, o) PROVE TypeInv'
  BY <1>5 DEF Validate, Reply, apiVars, sagaVars, coordVars, effectVars, leaderVars
<1>6. ASSUME NEW r \in Region, Redeliver(r) PROVE TypeInv'
  BY <1>6, <1>f DEF Redeliver, FaultKind, apiVars, sagaVars, coordVars, effectVars,
       queueVars, leaderVars
\* the election
<1>7. CASE ExpireKey
  BY <1>7 DEF ExpireKey, apiVars, regionVars, sagaVars, coordVars, effectVars, queueVars
<1>8. CASE LoseKey
  BY <1>8, <1>f DEF LoseKey, FaultKind, apiVars, regionVars, sagaVars, coordVars,
       effectVars, queueVars
<1>9. ASSUME NEW c \in Coordinator, TakeOver(c) PROVE TypeInv'
  BY <1>9 DEF TakeOver, Goto, Place, apiVars, regionVars, sagaVars, effectVars, queueVars
<1>10. ASSUME NEW c \in Coordinator, ElectionRaises(c) PROVE TypeInv'
  <2>1. faults' \in [FaultKind -> Nat]
    BY <1>10, <1>f DEF ElectionRaises, FaultKind
  <2> QED
    BY <1>10, <2>1 DEF ElectionRaises, Goto, Place, apiVars, regionVars, sagaVars,
         effectVars, queueVars, leaderVars
\* the recovery
<1>11. ASSUME NEW c \in Coordinator, RecoverAborting(c) PROVE TypeInv'
  BY <1>11 DEF RecoverAborting, Goto, Approvers, Place, apiVars, regionVars,
       sagaVars, effectVars, queueVars, leaderVars
<1>12. ASSUME NEW c \in Coordinator, NEW r \in Region, RecoverAnswered(c, r)
      PROVE  TypeInv'
  <2>1. /\ AllAnswered(answers)
        /\ UNCHANGED <<apiVars, regionVars, sagaVars, snap, todo, effectVars, queueVars,
                       leaderVars, faults>>
        /\ pc' = [pc EXCEPT ![c] = "read"]
        /\ hand' = [hand EXCEPT ![c] = [region |-> r, outcome |-> answers[r]]]
        /\ replaying' = replaying \cup {c}
    BY <1>12 DEF RecoverAnswered, Goto
  <2>2. [region |-> r, outcome |-> answers[r]] \in Reply
    BY <2>1 DEF AllAnswered, Reply
  <2>3. /\ pc' \in [Coordinator -> Place]
        /\ hand' \in [Coordinator -> Reply \cup {NoReply}]
        /\ replaying' \subseteq Coordinator
    BY <2>1, <2>2 DEF Place
  <2>4. Handling'
    <3>1. ASSUME NEW d \in Coordinator, pc'[d] \in {"read", "update"} PROVE hand'[d] \in Reply
      BY <2>1, <2>2, <3>1
    <3> QED
      BY <3>1
  <2>5. SagaTypeOK'
    BY <2>1, <2>3 DEF apiVars, regionVars, sagaVars, effectVars, queueVars, leaderVars
  <2> QED
    BY <2>4, <2>5
<1>13. ASSUME NEW c \in Coordinator, RecoverNothing(c) PROVE TypeInv'
  BY <1>13 DEF RecoverNothing, Goto, AllAnswered, Place, apiVars, regionVars,
       sagaVars, effectVars, queueVars, leaderVars
\* the consumer and _advance_saga
<1>14. ASSUME NEW c \in Coordinator, NEW m \in Reply, Deliver(c, m) PROVE TypeInv'
  BY <1>14 DEF Deliver, Goto, Place, apiVars, regionVars, sagaVars, effectVars, leaderVars
<1>15. ASSUME NEW c \in Coordinator, ReadStatus(c) PROVE TypeInv'
  <2>1. CASE StillOpen
    BY <1>15, <2>1 DEF ReadStatus, Goto, Place, apiVars, regionVars, sagaVars,
         effectVars, queueVars, leaderVars
  <2>2. CASE ~StillOpen
    <3>1. Finish(c)
      BY <1>15, <2>2 DEF ReadStatus
    <3> QED
      BY <1>15, <3>1, FinishTypes DEF ReadStatus, apiVars, regionVars, sagaVars,
           effectVars, leaderVars
  <2> QED
    BY <2>1, <2>2
<1>16. ASSUME NEW c \in Coordinator, UpdateOutcome(c) PROVE TypeInv'
  BY <1>16 DEF UpdateOutcome, Goto, Place, Reply, apiVars, regionVars, effectVars,
       queueVars, leaderVars
<1>17. ASSUME NEW c \in Coordinator, RereadOutcomes(c) PROVE TypeInv'
  <2>1. CASE AllAnswered(answers)
    <3>1. snap' \in [Coordinator -> [Region -> Answer \cup {"NONE"}]]
      BY <1>17, <2>1 DEF RereadOutcomes
    <3>2. pc' \in [Coordinator -> Place] /\ Handling'
      BY <1>17, <2>1 DEF RereadOutcomes, Goto, Place
    <3> QED
      BY <1>17, <2>1, <3>1, <3>2 DEF RereadOutcomes, apiVars, regionVars, sagaVars,
           effectVars, queueVars, leaderVars
  <2>2. CASE ~AllAnswered(answers)
    <3>1. Finish(c)
      BY <1>17, <2>2 DEF RereadOutcomes
    <3> QED
      BY <1>17, <3>1, FinishTypes DEF RereadOutcomes, apiVars, regionVars,
           sagaVars, effectVars, leaderVars
  <2> QED
    BY <2>1, <2>2
<1>18. ASSUME NEW c \in Coordinator, StartAbort(c) PROVE TypeInv'
  BY <1>18 DEF StartAbort, Goto, SetStatus, Approvers, Place, Terminal, apiVars,
       regionVars, effectVars, queueVars, leaderVars
<1>19. ASSUME NEW c \in Coordinator, NEW r \in Region, SendRelease(c, r) PROVE TypeInv'
  <2>1. released' \in [Region -> Nat] /\ faults' \in [FaultKind -> Nat]
    <3>1. CASE released' = [released EXCEPT ![r] = @ + 1] /\ UNCHANGED faults
      BY <3>1
    <3>2. CASE Fault("send") /\ UNCHANGED released
      BY <3>2, <1>f DEF FaultKind
    <3> QED
      BY <1>19, <3>1, <3>2 DEF SendRelease
  <2>2. todo' \in [Coordinator -> SUBSET Region]
    BY <1>19 DEF SendRelease
  <2> QED
    BY <1>19, <2>1, <2>2 DEF SendRelease, apiVars, regionVars, sagaVars, queueVars,
         leaderVars
<1>20. ASSUME NEW c \in Coordinator, ReleasesSent(c) PROVE TypeInv'
  BY <1>20 DEF ReleasesSent, Goto, Place, apiVars, regionVars, sagaVars,
       effectVars, queueVars, leaderVars
<1>21. ASSUME NEW c \in Coordinator, NEW r \in Region, WriteRejected(c, r) PROVE TypeInv'
  <2>1. docs' \in [Region -> Seq({"approved", "rejected"})]
    BY <1>21, AddRecordTypes DEF WriteRejected
  <2>2. faults' \in [FaultKind -> Nat]
    BY <1>21, <1>f DEF WriteRejected, FaultKind
  <2>3. todo' \in [Coordinator -> SUBSET Region]
    BY <1>21 DEF WriteRejected
  <2> QED
    BY <1>21, <2>1, <2>2, <2>3 DEF WriteRejected, regionVars, apiVars, sagaVars,
         queueVars, leaderVars
<1>22. ASSUME NEW c \in Coordinator, SetAborted(c) PROVE TypeInv'
  BY <1>22 DEF SetAborted, Goto, SetStatus, Place, Terminal, apiVars, regionVars,
       effectVars, queueVars, leaderVars
<1>23. ASSUME NEW c \in Coordinator, StartCommit(c) PROVE TypeInv'
  BY <1>23 DEF StartCommit, Goto, Place, apiVars, regionVars, sagaVars, effectVars,
       queueVars, leaderVars
<1>24. ASSUME NEW c \in Coordinator, NEW r \in Region, WriteApproved(c, r) PROVE TypeInv'
  <2>1. docs' \in [Region -> Seq({"approved", "rejected"})]
    BY <1>24, AddRecordTypes DEF WriteApproved
  <2>2. faults' \in [FaultKind -> Nat] /\ stray' \subseteq Region
    BY <1>24, <1>f DEF WriteApproved, FaultKind
  <2>3. todo' \in [Coordinator -> SUBSET Region]
    BY <1>24 DEF WriteApproved
  <2> QED
    BY <1>24, <2>1, <2>2, <2>3 DEF WriteApproved, regionVars, apiVars, sagaVars,
         queueVars, leaderVars
<1>25. ASSUME NEW c \in Coordinator, SetCommitted(c) PROVE TypeInv'
  BY <1>25 DEF SetCommitted, Goto, SetStatus, Place, Terminal, apiVars, regionVars,
       effectVars, queueVars, leaderVars
<1>26. ASSUME NEW c \in Coordinator, Tell(c) PROVE TypeInv'
  <2>1. Finish(c) /\ verdicts' \subseteq Answer
    BY <1>26 DEF Tell
  <2> QED
    BY <1>26, <2>1, FinishTypes DEF Tell, apiVars, regionVars, sagaVars, leaderVars
\* what goes wrong meanwhile
<1>27. ASSUME NEW c \in Coordinator, CommitOffsets(c) PROVE TypeInv'
  BY <1>27 DEF CommitOffsets, apiVars, regionVars, sagaVars, coordVars, effectVars,
       leaderVars
<1>28. ASSUME NEW c \in Coordinator, NEW r \in Region, WriteRepeated(c, r) PROVE TypeInv'
  <2>1. docs' \in [Region -> Seq({"approved", "rejected"})]
    BY <1>28, AddRecordTypes DEF WriteRepeated
  <2>2. faults' \in [FaultKind -> Nat]
    BY <1>28, <1>f DEF WriteRepeated, FaultKind
  <2> QED
    BY <1>28, <2>1, <2>2 DEF WriteRepeated, apiVars, regionVars, sagaVars,
         coordVars, queueVars, leaderVars
<1>29. ASSUME NEW c \in Coordinator, StepFails(c) PROVE TypeInv'
  <2>1. Finish(c)
    BY <1>29 DEF StepFails
  <2>2. faults' \in [FaultKind -> Nat]
    BY <1>29, <1>f DEF StepFails, FaultKind
  <2>3. status' \in {"NONE", "PENDING", "ABORTING"} \cup Terminal
    BY <1>29 DEF StepFails, Terminal
  <2> QED
    BY <1>29, <2>1, <2>2, <2>3, FinishTypes DEF StepFails, apiVars, regionVars,
         effectVars, leaderVars
<1>30. ASSUME NEW c \in Coordinator, ConsumerDies(c) PROVE TypeInv'
  <2>1. faults' \in [FaultKind -> Nat]
    BY <1>30, <1>f DEF ConsumerDies, FaultKind
  <2>2. inbox' \subseteq Reply /\ consumed' \in [Coordinator -> SUBSET Reply]
    BY <1>30, RedeliverableTypes DEF ConsumerDies
  <2>3. pc' \in [Coordinator -> Place] /\ Handling'
    BY <1>30 DEF ConsumerDies, Goto, Place
  <2> QED
    BY <1>30, <2>1, <2>2, <2>3 DEF ConsumerDies, apiVars, regionVars, sagaVars,
         effectVars, leaderVars
<1>31. ASSUME NEW c \in Coordinator, Crash(c) PROVE TypeInv'
  <2>1. faults' \in [FaultKind -> Nat]
    BY <1>31, <1>f DEF Crash, FaultKind
  <2>2. inbox' \subseteq Reply /\ consumed' \in [Coordinator -> SUBSET Reply]
    BY <1>31, RedeliverableTypes DEF Crash
  <2>3. /\ pc' \in [Coordinator -> Place] /\ todo' \in [Coordinator -> SUBSET Region]
        /\ hand' \in [Coordinator -> Reply \cup {NoReply}] /\ Handling'
    BY <1>31 DEF Crash, Goto, Place
  <2>4. snap' \in [Coordinator -> [Region -> Answer \cup {"NONE"}]]
    BY <1>31 DEF Crash, NoAnswers
  <2> QED
    BY <1>31, <2>1, <2>2, <2>3, <2>4 DEF Crash, apiVars, regionVars, sagaVars, effectVars
<1>32. CASE UNCHANGED vars
  BY <1>32 DEF vars, apiVars, regionVars, sagaVars, coordVars, effectVars,
       queueVars, leaderVars
<1> QED
  BY <1>1, <1>2, <1>3, <1>4, <1>5, <1>6, <1>7, <1>8, <1>9, <1>10, <1>11, <1>12,
       <1>13, <1>14, <1>15, <1>16, <1>17, <1>18, <1>19, <1>20, <1>21, <1>22, <1>23,
            <1>24, <1>25, <1>26, <1>27, <1>28, <1>29, <1>30, <1>31, <1>32 DEF Next,
                 Create, Answering, Coordinate

----------------------------------------------------------------------------
(* Who leads.  The key changes hands only when nobody holds it, and it is  *)
(* taken from a leader only by a fault.                                    *)
LEMMA LeadersStep ==
    TypeInv /\ LeadersHoldKey /\ [Next]_vars => LeadersHoldKey'
<1> SUFFICES ASSUME TypeInv, LeadersHoldKey, [Next]_vars PROVE LeadersHoldKey'
  OBVIOUS
<1> USE DEF LeadersHoldKey
<1>t. /\ faults \in [FaultKind -> Nat] /\ leaders \subseteq Coordinator
      /\ "key" \in FaultKind /\ faults["key"] \in Nat
  BY DEF TypeInv, SagaTypeOK, FaultKind
<1>f. ASSUME NEW k \in FaultKind, Fault(k), faults'["key"] = 0 PROVE faults["key"] = 0
  BY <1>t, <1>f, FaultsAddUp
<1>n. ASSUME UNCHANGED leaderVars, UNCHANGED faults \/ \E k \in FaultKind : Fault(k)
      PROVE  LeadersHoldKey'
  BY <1>n, <1>f DEF leaderVars
<1>1. ASSUME NEW c \in Coordinator, TakeOver(c) PROVE LeadersHoldKey'
  BY <1>1, <1>t, SagaAssumption DEF TakeOver, MayLead
<1>2. CASE ExpireKey
  BY <1>2 DEF ExpireKey
<1>3. CASE LoseKey
  <2>1. faults'["key"] > 0
    BY <1>3, <1>t, FaultsAddUp DEF LoseKey
  <2> QED
    BY <2>1
<1>4. ASSUME NEW c \in Coordinator, Crash(c) PROVE LeadersHoldKey'
  <2>1. Fault("crash") /\ "crash" \in FaultKind /\ leaders' \subseteq leaders /\ key' = key
    BY <1>4 DEF Crash, FaultKind
  <2> QED
    BY <2>1, <1>f
<1>5. CASE InsertSaga
  BY <1>5, <1>n DEF InsertSaga
<1>6. ASSUME NEW r \in Region, SendSubBooking(r) PROVE LeadersHoldKey'
  BY <1>6, <1>n DEF SendSubBooking, FaultKind
<1>7. CASE SendFails
  BY <1>7, <1>n DEF SendFails, FaultKind
<1>8. ASSUME NEW r \in Region, SkipValidation(r) PROVE LeadersHoldKey'
  BY <1>8, <1>n DEF SkipValidation
<1>9. ASSUME NEW r \in Region, NEW o \in Answer, Validate(r, o) PROVE LeadersHoldKey'
  BY <1>9, <1>n DEF Validate
<1>10. ASSUME NEW r \in Region, Redeliver(r) PROVE LeadersHoldKey'
  BY <1>10, <1>n DEF Redeliver, FaultKind
<1>11. ASSUME NEW c \in Coordinator, ElectionRaises(c) PROVE LeadersHoldKey'
  BY <1>11, <1>n DEF ElectionRaises, FaultKind
<1>12. ASSUME NEW c \in Coordinator, RecoverAborting(c) PROVE LeadersHoldKey'
  BY <1>12, <1>n DEF RecoverAborting
<1>13. ASSUME NEW c \in Coordinator, NEW r \in Region, RecoverAnswered(c, r)
      PROVE  LeadersHoldKey'
  BY <1>13, <1>n DEF RecoverAnswered
<1>14. ASSUME NEW c \in Coordinator, RecoverNothing(c) PROVE LeadersHoldKey'
  BY <1>14, <1>n DEF RecoverNothing
<1>15. ASSUME NEW c \in Coordinator, NEW m \in Reply, Deliver(c, m) PROVE LeadersHoldKey'
  BY <1>15, <1>n DEF Deliver
<1>16. ASSUME NEW c \in Coordinator, ReadStatus(c) PROVE LeadersHoldKey'
  BY <1>16, <1>n DEF ReadStatus
<1>17. ASSUME NEW c \in Coordinator, UpdateOutcome(c) PROVE LeadersHoldKey'
  BY <1>17, <1>n DEF UpdateOutcome
<1>18. ASSUME NEW c \in Coordinator, RereadOutcomes(c) PROVE LeadersHoldKey'
  BY <1>18, <1>n DEF RereadOutcomes
<1>19. ASSUME NEW c \in Coordinator, StartAbort(c) PROVE LeadersHoldKey'
  BY <1>19, <1>n DEF StartAbort
<1>20. ASSUME NEW c \in Coordinator, NEW r \in Region, SendRelease(c, r)
      PROVE  LeadersHoldKey'
  BY <1>20, <1>n DEF SendRelease, FaultKind
<1>21. ASSUME NEW c \in Coordinator, ReleasesSent(c) PROVE LeadersHoldKey'
  BY <1>21, <1>n DEF ReleasesSent
<1>22. ASSUME NEW c \in Coordinator, NEW r \in Region, WriteRejected(c, r)
      PROVE  LeadersHoldKey'
  BY <1>22, <1>n DEF WriteRejected, FaultKind
<1>23. ASSUME NEW c \in Coordinator, SetAborted(c) PROVE LeadersHoldKey'
  BY <1>23, <1>n DEF SetAborted
<1>24. ASSUME NEW c \in Coordinator, StartCommit(c) PROVE LeadersHoldKey'
  BY <1>24, <1>n DEF StartCommit
<1>25. ASSUME NEW c \in Coordinator, NEW r \in Region, WriteApproved(c, r)
      PROVE  LeadersHoldKey'
  BY <1>25, <1>n DEF WriteApproved, FaultKind
<1>26. ASSUME NEW c \in Coordinator, SetCommitted(c) PROVE LeadersHoldKey'
  BY <1>26, <1>n DEF SetCommitted
<1>27. ASSUME NEW c \in Coordinator, Tell(c) PROVE LeadersHoldKey'
  BY <1>27, <1>n DEF Tell
<1>28. ASSUME NEW c \in Coordinator, CommitOffsets(c) PROVE LeadersHoldKey'
  BY <1>28, <1>n DEF CommitOffsets
<1>29. ASSUME NEW c \in Coordinator, NEW r \in Region, WriteRepeated(c, r)
      PROVE  LeadersHoldKey'
  BY <1>29, <1>n DEF WriteRepeated, FaultKind
<1>30. ASSUME NEW c \in Coordinator, StepFails(c) PROVE LeadersHoldKey'
  BY <1>30, <1>n DEF StepFails, FaultKind
<1>31. ASSUME NEW c \in Coordinator, ConsumerDies(c) PROVE LeadersHoldKey'
  BY <1>31, <1>n DEF ConsumerDies, FaultKind
<1>32. CASE UNCHANGED vars
  BY <1>32, <1>n DEF vars
<1> QED
  BY <1>1, <1>2, <1>3, <1>4, <1>5, <1>6, <1>7, <1>8, <1>9, <1>10, <1>11, <1>12,
       <1>13, <1>14, <1>15, <1>16, <1>17, <1>18, <1>19, <1>20, <1>21, <1>22, <1>23,
            <1>24, <1>25, <1>26, <1>27, <1>28, <1>29, <1>30, <1>31, <1>32 DEF Next,
                 Create, Answering, Coordinate

----------------------------------------------------------------------------
(* A record is never taken back.                                           *)
LEMMA RecordedStays ==
    ASSUME TypeInv, NEW r \in Region, Recorded(r), stray \subseteq stray',
           \/ UNCHANGED docs
           \/ \E q \in Region : \E st \in {"approved", "rejected"} : AddRecord(q, st)
    PROVE  Recorded(r)'
<1> USE DEF TypeInv, SagaTypeOK, Recorded
<1>1. CASE UNCHANGED docs
  BY <1>1
<1>2. ASSUME NEW q \in Region, NEW st \in {"approved", "rejected"}, AddRecord(q, st)
      PROVE  Recorded(r)'
  <2>1. docs' = [docs EXCEPT ![q] = Append(docs[q], st)]
    BY <1>2 DEF AddRecord
  <2>2. docs[r] \in Seq({"approved", "rejected"})
    OBVIOUS
  <2>3. ASSUME NEW i \in 1 .. Len(docs[r])
        PROVE  i \in 1 .. Len(docs'[r]) /\ docs'[r][i] = docs[r][i]
    <3>1. CASE q = r
      <4>1. docs'[r] = Append(docs[r], st)
        BY <2>1, <3>1
      <4> QED
        BY <2>2, <4>1
    <3>2. CASE q # r
      BY <2>1, <3>2
    <3> QED
      BY <3>1, <3>2
  <2> QED
    BY <2>3
<1> QED
  BY <1>1, <1>2

(* A region whose record is inserted is recorded.                          *)
LEMMA NowRecorded ==
    ASSUME TypeInv, NEW r \in Region, AddRecord(r, "approved")
    PROVE  Recorded(r)'
<1>1. docs[r] \in Seq({"approved", "rejected"}) /\ docs'[r] = Append(docs[r], "approved")
  BY DEF TypeInv, SagaTypeOK, AddRecord
<1>2. Len(docs'[r]) \in 1 .. Len(docs'[r]) /\ docs'[r][Len(docs'[r])] = "approved"
  BY <1>1
<1> QED
  BY <1>2 DEF Recorded

(* A saga is COMMITTED only by a coordinator that has been to every region.*)
CommitInv == CommitsRecorded /\ CommittedIsRecorded

LEMMA CommitStep ==
    TypeInv /\ CommitInv /\ [Next]_vars => CommitInv'
<1> SUFFICES ASSUME TypeInv, CommitInv, [Next]_vars PROVE CommitInv'
  OBVIOUS
<1>t. /\ pc \in [Coordinator -> Place] /\ todo \in [Coordinator -> SUBSET Region]
  BY DEF TypeInv, SagaTypeOK
<1>r. \A r \in Region : status = "COMMITTED" => Recorded(r)
  BY DEF CommitInv, CommittedIsRecorded, Recorded
<1>k. ASSUME \A r \in Region : Recorded(r) => Recorded(r)',
             status' = "COMMITTED" => status = "COMMITTED",
             \A c \in Coordinator : pc'[c] = "commit" => pc[c] = "commit" /\ todo'[c] = todo[c]
      PROVE  CommitInv'
  <2>1. CommitsRecorded'
    BY <1>k DEF CommitInv, CommitsRecorded
  <2>2. \A r \in Region : status' = "COMMITTED" => Recorded(r)'
    BY <1>k, <1>r
  <2> QED
    BY <2>1, <2>2 DEF CommitInv, CommittedIsRecorded, Recorded
<1>d. ASSUME UNCHANGED <<docs, stray>> PROVE \A r \in Region : Recorded(r) => Recorded(r)'
  BY <1>d DEF Recorded
<1>1. CASE InsertSaga
  BY <1>1, <1>k, <1>d, <1>t DEF InsertSaga, coordVars, effectVars
<1>2. ASSUME NEW r \in Region, SendSubBooking(r) PROVE CommitInv'
  BY <1>2, <1>k, <1>d, <1>t DEF SendSubBooking, sagaVars, coordVars, effectVars
<1>3. CASE SendFails
  BY <1>3, <1>k, <1>d, <1>t DEF SendFails, sagaVars, coordVars, effectVars
<1>4. ASSUME NEW r \in Region, SkipValidation(r) PROVE CommitInv'
  BY <1>4, <1>k, <1>d, <1>t DEF SkipValidation, sagaVars, coordVars, effectVars
<1>5. ASSUME NEW r \in Region, NEW o \in Answer, Validate(r, o) PROVE CommitInv'
  BY <1>5, <1>k, <1>d, <1>t DEF Validate, sagaVars, coordVars, effectVars
<1>6. ASSUME NEW r \in Region, Redeliver(r) PROVE CommitInv'
  BY <1>6, <1>k, <1>d, <1>t DEF Redeliver, sagaVars, coordVars, effectVars
<1>7. CASE ExpireKey
  BY <1>7, <1>k, <1>d, <1>t DEF ExpireKey, sagaVars, coordVars, effectVars
<1>8. CASE LoseKey
  BY <1>8, <1>k, <1>d, <1>t DEF LoseKey, sagaVars, coordVars, effectVars
<1>9. ASSUME NEW c \in Coordinator, TakeOver(c) PROVE CommitInv'
  BY <1>9, <1>k, <1>d, <1>t DEF TakeOver, Goto, sagaVars, effectVars
<1>10. ASSUME NEW c \in Coordinator, ElectionRaises(c) PROVE CommitInv'
  BY <1>10, <1>k, <1>d, <1>t DEF ElectionRaises, Goto, sagaVars, effectVars
<1>11. ASSUME NEW c \in Coordinator, RecoverAborting(c) PROVE CommitInv'
  BY <1>11, <1>k, <1>d, <1>t DEF RecoverAborting, Goto, sagaVars, effectVars
<1>12. ASSUME NEW c \in Coordinator, NEW r \in Region, RecoverAnswered(c, r)
      PROVE  CommitInv'
  BY <1>12, <1>k, <1>d, <1>t DEF RecoverAnswered, Goto, sagaVars, effectVars
<1>13. ASSUME NEW c \in Coordinator, RecoverNothing(c) PROVE CommitInv'
  BY <1>13, <1>k, <1>d, <1>t DEF RecoverNothing, Goto, sagaVars, effectVars
<1>14. ASSUME NEW c \in Coordinator, NEW m \in Reply, Deliver(c, m) PROVE CommitInv'
  BY <1>14, <1>k, <1>d, <1>t DEF Deliver, Goto, sagaVars, effectVars
<1>15. ASSUME NEW c \in Coordinator, ReadStatus(c) PROVE CommitInv'
  BY <1>15, <1>k, <1>d, <1>t DEF ReadStatus, Goto, Finish, sagaVars, effectVars
<1>16. ASSUME NEW c \in Coordinator, UpdateOutcome(c) PROVE CommitInv'
  BY <1>16, <1>k, <1>d, <1>t DEF UpdateOutcome, Goto, effectVars
<1>17. ASSUME NEW c \in Coordinator, RereadOutcomes(c) PROVE CommitInv'
  BY <1>17, <1>k, <1>d, <1>t DEF RereadOutcomes, Goto, Finish, sagaVars, effectVars
<1>18. ASSUME NEW c \in Coordinator, StartAbort(c) PROVE CommitInv'
  BY <1>18, <1>k, <1>d, <1>t DEF StartAbort, Goto, SetStatus, effectVars
<1>19. ASSUME NEW c \in Coordinator, NEW r \in Region, SendRelease(c, r) PROVE CommitInv'
  BY <1>19, <1>k, <1>d, <1>t DEF SendRelease, sagaVars
<1>20. ASSUME NEW c \in Coordinator, ReleasesSent(c) PROVE CommitInv'
  BY <1>20, <1>k, <1>d, <1>t DEF ReleasesSent, Goto, sagaVars, effectVars
<1>21. ASSUME NEW c \in Coordinator, NEW r \in Region, WriteRejected(c, r)
      PROVE  CommitInv'
  <2>1. \A q \in Region : Recorded(q) => Recorded(q)'
    <3>1. stray' = stray /\ (UNCHANGED docs \/ AddRecord(r, "rejected"))
      BY <1>21 DEF WriteRejected
    <3> QED
      BY <3>1, RecordedStays
  <2>2. status' = status /\ pc' = pc /\ todo' = [todo EXCEPT ![c] = @ \ {r}] /\
       pc[c] = "reject"
    BY <1>21 DEF WriteRejected, sagaVars
  <2> QED
    BY <1>k, <1>t, <2>1, <2>2
<1>22. ASSUME NEW c \in Coordinator, SetAborted(c) PROVE CommitInv'
  BY <1>22, <1>k, <1>d, <1>t DEF SetAborted, Goto, SetStatus, effectVars
<1>23. ASSUME NEW c \in Coordinator, StartCommit(c) PROVE CommitInv'
  <2>1. /\ UNCHANGED <<docs, stray, status>> /\ pc' = [pc EXCEPT ![c] = "commit"]
        /\ todo' = [todo EXCEPT ![c] = Region]
    BY <1>23 DEF StartCommit, Goto, sagaVars, effectVars
  <2>2. \A r \in Region : Recorded(r)' <=> Recorded(r)
    BY <2>1 DEF Recorded
  <2>3. CommitsRecorded'
    BY <1>t, <2>1, <2>2 DEF CommitInv, CommitsRecorded
  <2> QED
    BY <2>1, <2>3 DEF CommitInv, CommittedIsRecorded
<1>24. ASSUME NEW c \in Coordinator, NEW r \in Region, WriteApproved(c, r)
      PROVE  CommitInv'
  <2>1. /\ stray \subseteq stray' /\ (UNCHANGED docs \/ AddRecord(r, "approved"))
        /\ r \in stray' \/ AddRecord(r, "approved")
    BY <1>24 DEF WriteApproved
  <2>2. \A q \in Region : Recorded(q) => Recorded(q)'
    BY <2>1, RecordedStays
  <2>3. Recorded(r)'
    BY <2>1, NowRecorded DEF Recorded
  <2>4. status' = status /\ pc' = pc /\ todo' = [todo EXCEPT ![c] = @ \ {r}]
    BY <1>24 DEF WriteApproved, sagaVars
  <2>5. CommitsRecorded'
    BY <1>t, <2>2, <2>3, <2>4 DEF CommitInv, CommitsRecorded
  <2>6. \A q \in Region : status' = "COMMITTED" => Recorded(q)'
    BY <1>r, <2>2, <2>4
  <2> QED
    BY <2>5, <2>6 DEF CommitInv, CommittedIsRecorded, Recorded
<1>25. ASSUME NEW c \in Coordinator, SetCommitted(c) PROVE CommitInv'
  <2>1. /\ pc[c] = "commit" /\ todo[c] = {} /\ UNCHANGED <<docs, stray, todo>>
        /\ pc' = [pc EXCEPT ![c] = "tell_approved"]
    BY <1>25 DEF SetCommitted, Goto, effectVars
  <2>2. \A r \in Region : Recorded(r)' <=> Recorded(r)
    BY <2>1 DEF Recorded
  <2>3. \A r \in Region : Recorded(r)
    BY <2>1 DEF CommitInv, CommitsRecorded
  <2>4. CommitsRecorded'
    BY <2>2, <2>3 DEF CommitsRecorded
  <2> QED
    BY <2>2, <2>3, <2>4 DEF CommitInv, CommittedIsRecorded, Recorded
<1>26. ASSUME NEW c \in Coordinator, Tell(c) PROVE CommitInv'
  <2>1. UNCHANGED <<docs, stray, status>>
    BY <1>26 DEF Tell, sagaVars
  <2>2. \A d \in Coordinator : pc'[d] = "commit" => pc[d] = "commit" /\ todo'[d] = todo[d]
    BY <1>26, <1>t DEF Tell, Finish, Goto
  <2> QED
    BY <1>k, <1>d, <2>1, <2>2
<1>27. ASSUME NEW c \in Coordinator, CommitOffsets(c) PROVE CommitInv'
  BY <1>27, <1>k, <1>d, <1>t DEF CommitOffsets, sagaVars, coordVars, effectVars
<1>28. ASSUME NEW c \in Coordinator, NEW r \in Region, WriteRepeated(c, r)
      PROVE  CommitInv'
  <2>1. \A q \in Region : Recorded(q) => Recorded(q)'
    BY <1>28, RecordedStays DEF WriteRepeated
  <2> QED
    BY <1>k, <1>28, <2>1 DEF WriteRepeated, sagaVars, coordVars
<1>29. ASSUME NEW c \in Coordinator, StepFails(c) PROVE CommitInv'
  BY <1>29, <1>k, <1>d, <1>t DEF StepFails, Finish, Goto, effectVars
<1>30. ASSUME NEW c \in Coordinator, ConsumerDies(c) PROVE CommitInv'
  BY <1>30, <1>k, <1>d, <1>t DEF ConsumerDies, Goto, sagaVars, effectVars
<1>31. ASSUME NEW c \in Coordinator, Crash(c) PROVE CommitInv'
  BY <1>31, <1>k, <1>d, <1>t DEF Crash, Goto, sagaVars, effectVars
<1>32. CASE UNCHANGED vars
  BY <1>32, <1>k, <1>d DEF vars, sagaVars, coordVars, effectVars
<1> QED
  BY <1>1, <1>2, <1>3, <1>4, <1>5, <1>6, <1>7, <1>8, <1>9, <1>10, <1>11, <1>12,
       <1>13, <1>14, <1>15, <1>16, <1>17, <1>18, <1>19, <1>20, <1>21, <1>22, <1>23,
            <1>24, <1>25, <1>26, <1>27, <1>28, <1>29, <1>30, <1>31, <1>32 DEF Next,
                 Create, Answering, Coordinate

----------------------------------------------------------------------------
(* The type invariant holds of every saga.                                  *)
LEMMA TypesHold == Spec => []TypeInv
<1>1. Init => TypeInv
  BY SagaAssumption DEF Init, TypeInv, SagaTypeOK, Handling, NoAnswers, Place, FaultKind
<1> QED
  BY <1>1, TypeStep, PTL DEF Spec

(* Type correctness of a saga and its coordinators.                        *)
THEOREM SagaTypes == Spec => []SagaTypeOK
<1>1. TypeInv => SagaTypeOK
  BY DEF TypeInv
<1> QED
  BY <1>1, TypesHold, PTL

(* A set with at most one member has at most one.                          *)
LEMMA AtMostOne == ASSUME NEW S, NEW x, S \subseteq {x} PROVE Cardinality(S) <= 1
<1>1. CASE S = {}
  BY <1>1, FS_EmptySet
<1>2. CASE S # {}
  <2>1. S = {x}
    BY <1>2
  <2> QED
    BY <2>1, FS_Singleton
<1> QED
  BY <1>1, <1>2

(* However often coordinators crash and restart and the key expires, at    *)
(* most one leads as long as the key of a leader is never lost.            *)
THEOREM OneCoordinatorLeads == Spec => []OneCoordinator
<1>1. Init => LeadersHoldKey
  BY DEF Init, LeadersHoldKey
<1>2. LeadersHoldKey => OneCoordinator
  BY AtMostOne DEF LeadersHoldKey, OneCoordinator
<1> QED
  BY <1>1, <1>2, TypesHold, LeadersStep, PTL DEF Spec

(* Whoever commits a saga, it has written it down for every region first.  *)
THEOREM CommitsAreRecorded == Spec => []CommittedIsRecorded
<1>1. Init => CommitInv
  BY DEF Init, CommitInv, CommitsRecorded, CommittedIsRecorded
<1>2. CommitInv => CommittedIsRecorded
  BY DEF CommitInv
<1> QED
  BY <1>1, <1>2, TypesHold, CommitStep, PTL DEF Spec
=============================================================================
