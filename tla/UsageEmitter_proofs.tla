------------------------ MODULE UsageEmitter_proofs ------------------------
(***************************************************************************)
(* Proofs about UsageEmitter, for any set of records and any limits.       *)
(***************************************************************************)
EXTENDS UsageEmitter, FiniteSetTheorems, TLAPS

USE EmitterAssumption DEF EmitterAssumption

-----------------------------------------------------------------------------
(* Type correctness.                                                       *)

(* What _get_producer does to the three module globals. *)
LEMMA GetProducerType ==
    ASSUME TypeOK, NEW ok \in BOOLEAN, GetProducer(ok)
    PROVE  /\ producer' \in {0} \cup Generations
           /\ disabled' \in BOOLEAN
           /\ initFailed' \in BOOLEAN
           /\ ok => producer' \in Generations
           /\ ~configured => producer' = producer /\ initFailed' = initFailed
  BY DEF GetProducer, TypeOK, Generations, producerVars

(* The part of TypeOK that _requeue can disturb. *)
QueueTypes ==
    /\ retryQ \subseteq Events /\ ripe \subseteq Events
    /\ parkedAt \in [Events -> Nat]
    /\ attempts \in [Events -> 0..MaxAttempts]
    /\ drainer \in BOOLEAN

LossTypes ==
    /\ dropped \in Nat /\ lost \in Nat
    /\ givenUp \subseteq Events

(* _requeue keeps the types of the queue and of the counters. *)
LEMMA FailAndParkType ==
    ASSUME TypeOK, NEW e \in Events, NEW a \in Nat, FailAndPark(e, a)
    PROVE  QueueTypes' /\ LossTypes'
<1>1. \A S \in SUBSET Events : Cardinality(S) \in Nat
  BY FS_Subset, FS_CardinalityType
<1>2. CASE a > MaxAttempts /\ WriteOff({e}) /\ UNCHANGED queueVars /\ dropped' = dropped + 1
  BY <1>1, <1>2 DEF TypeOK, QueueTypes, LossTypes, WriteOff, queueVars
<1>3. CASE /\ a <= MaxAttempts /\ Enqueue(e, a, {})
           /\ drainer' = TRUE /\ UNCHANGED <<lost, givenUp>> /\ dropped' = dropped + 1
  BY <1>3 DEF TypeOK, QueueTypes, LossTypes, Enqueue
<1>4. ASSUME NEW old \in Older(retryQ), a <= MaxAttempts, Enqueue(e, a, {old}), WriteOff({old}),
             drainer' = TRUE, dropped' = dropped + 1
      PROVE  QueueTypes' /\ LossTypes'
  <2>1. old \in Events
    BY <1>4 DEF TypeOK, Older
  <2>2. QED
    BY <1>1, <1>4, <2>1 DEF TypeOK, QueueTypes, LossTypes, Enqueue, WriteOff
<1>5. QED
  BY <1>2, <1>3, <1>4 DEF FailAndPark

(* The counter of lost records stays a number when records are written off. *)
LEMMA WriteOffType ==
    ASSUME LossTypes, NEW S \in SUBSET Events, WriteOff(S)
    PROVE  lost' \in Nat /\ givenUp' \subseteq Events
  BY FS_Subset, FS_CardinalityType DEF LossTypes, WriteOff

(* The types of the variables that no helper owns. *)
RestTypes ==
    /\ configured \in BOOLEAN
    /\ accepted \subseteq Events /\ pending \subseteq Events
    /\ scheduled \subseteq Events /\ sending \subseteq Events
    /\ buffer \in [Generations -> SUBSET Events]
    /\ handback \subseteq Events
    /\ pass \in [Drainers -> SUBSET Events]
    /\ via \in [Drainers -> Generations]
    /\ producer \in {0} \cup Generations
    /\ disabled \in BOOLEAN /\ initFailed \in BOOLEAN
    /\ retried \in Nat /\ recovered \in Nat
    /\ acked \subseteq Events
    /\ phase \in Phases

LEMMA TypeParts ==
    /\ TypeOK <=> QueueTypes /\ LossTypes /\ RestTypes
    /\ TypeOK' <=> QueueTypes' /\ LossTypes' /\ RestTypes'
  BY DEF TypeOK, QueueTypes, LossTypes, RestTypes

LEMMA TypeInit == Init => TypeOK
<1> SUFFICES ASSUME Init PROVE QueueTypes /\ LossTypes /\ RestTypes
  BY TypeParts
<1>1. QueueTypes
  <2>1. parkedAt \in [Events -> Nat] /\ attempts \in [Events -> 0..MaxAttempts]
    BY DEF Init
  <2>2. QED
    BY <2>1 DEF Init, QueueTypes
<1>2. LossTypes
  BY DEF Init, LossTypes
<1>3. RestTypes
  BY DEF Init, RestTypes, Phases, Generations, Drainers
<1>4. QED
  BY <1>1, <1>2, <1>3

LEMMA TypeEmitBody ==
    ASSUME TypeOK, NEW e \in Events, EmitBody(e), accepted' \subseteq Events, UNCHANGED configured
    PROVE  TypeOK'
<1> USE TypeParts
<1>1. LossTypes'
  <2>1. CASE DropAndLose(e)
    BY <2>1, WriteOffType DEF DropAndLose, LossTypes
  <2>2. CASE UNCHANGED lossVars
    BY <2>2 DEF lossVars, LossTypes
  <2>3. QED
    BY <2>1, <2>2 DEF EmitBody
<1>2. QueueTypes'
  BY DEF EmitBody, QueueTypes, queueVars
<1>3. producer' \in {0} \cup Generations /\ disabled' \in BOOLEAN /\ initFailed' \in BOOLEAN
  <2>1. CASE UNCHANGED producerVars
    BY <2>1 DEF producerVars, RestTypes
  <2>2. CASE GetProducer(FALSE) \/ GetProducer(TRUE)
    BY <2>2, GetProducerType
  <2>3. QED
    BY <2>1, <2>2 DEF EmitBody
<1>4. RestTypes'
  BY <1>3 DEF EmitBody, RestTypes, passVars, ackVars
<1>5. QED
  BY <1>1, <1>2, <1>4

LEMMA TypeTakeDue ==
    ASSUME TypeOK, NEW p \in Drainers, TakeDue(p), phase' \in Phases, UNCHANGED configured
    PROVE  TypeOK'
<1> USE TypeParts
<1>1. /\ producer' \in Generations
      /\ disabled' \in BOOLEAN /\ initFailed' \in BOOLEAN
  BY GetProducerType DEF TakeDue
<1>2. /\ via' \in [Drainers -> Generations]
      /\ pass' \in [Drainers -> SUBSET Events]
      /\ retried' \in Nat
  BY <1>1 DEF TakeDue, RestTypes, QueueTypes
<1>3. RestTypes'
  BY <1>1, <1>2 DEF TakeDue, RestTypes, emitVars
<1>4. QueueTypes' /\ LossTypes'
  BY DEF TakeDue, QueueTypes, LossTypes, lossVars
<1>5. QED
  BY <1>3, <1>4

LEMMA TypeNext == TypeOK /\ [Next]_vars => TypeOK'
<1> SUFFICES ASSUME TypeOK, [Next]_vars PROVE TypeOK'
  OBVIOUS
<1> USE TypeParts DEF Quiet
<1>1. ASSUME NEW e \in Events, SpawnEmit(e) PROVE TypeOK'
  <2>1. LossTypes'
    BY <1>1, WriteOffType DEF SpawnEmit, DropAndLose, LossTypes, lossVars
  <2>2. QueueTypes' /\ RestTypes'
    BY <1>1 DEF SpawnEmit, QueueTypes, RestTypes, queueVars, passVars, producerVars, ackVars
  <2>3. QED
    BY <2>1, <2>2
<1>2. ASSUME NEW e \in Events, EmitStart(e) PROVE TypeOK'
  BY <1>2, TypeEmitBody DEF EmitStart, RestTypes
<1>3. ASSUME NEW e \in Events, EmitInline(e) PROVE TypeOK'
  BY <1>3, TypeEmitBody DEF EmitInline, RestTypes
<1>4. ASSUME NEW e \in Events, EmitSendOk(e) PROVE TypeOK'
  BY <1>4 DEF EmitSendOk, QueueTypes, LossTypes, RestTypes, Generations, queueVars, passVars,
              producerVars, lossVars, ackVars
<1>5. ASSUME NEW e \in Events, EmitSendFail(e) PROVE TypeOK'
  <2>1. QueueTypes' /\ LossTypes'
    BY <1>5, FailAndParkType DEF EmitSendFail
  <2>2. RestTypes'
    BY <1>5 DEF EmitSendFail, RestTypes, passVars, producerVars, ackVars
  <2>3. QED
    BY <2>1, <2>2
<1>6. ASSUME NEW g \in Generations, NEW e \in Events, OnSuccess(g, e) PROVE TypeOK'
  BY <1>6 DEF OnSuccess, QueueTypes, LossTypes, RestTypes, emitVars, queueVars, passVars,
              producerVars, lossVars
<1>7. ASSUME NEW g \in Generations, NEW batch \in SUBSET Events, BatchFails(g, batch) PROVE TypeOK'
  BY <1>7 DEF BatchFails, QueueTypes, LossTypes, RestTypes, emitVars, queueVars, passVars,
              producerVars, lossVars, ackVars
<1>8. ASSUME NEW e \in Events, OnError(e) PROVE TypeOK'
  <2>1. QueueTypes' /\ LossTypes'
    <3>1. CASE DropAndLose(e) /\ UNCHANGED queueVars
      BY <3>1, WriteOffType DEF DropAndLose, QueueTypes, LossTypes, queueVars
    <3>2. CASE FailAndPark(e, attempts[e] + 1)
      BY <3>2, FailAndParkType DEF QueueTypes
    <3>3. QED
      BY <1>8, <3>1, <3>2 DEF OnError
  <2>2. RestTypes'
    BY <1>8 DEF OnError, RestTypes, emitVars, passVars, producerVars, ackVars
  <2>3. QED
    BY <2>1, <2>2
<1>9. ASSUME NEW e \in Events, Ripen(e) PROVE TypeOK'
  BY <1>9 DEF Ripen, QueueTypes, LossTypes, RestTypes, emitVars, passVars, producerVars,
              lossVars, ackVars
<1>10. CASE DrainBegin
  BY <1>10, TypeTakeDue DEF DrainBegin, Drainers, RestTypes
<1>11. CASE DrainNoProducer
  <2>1. /\ producer' \in {0} \cup Generations
        /\ disabled' \in BOOLEAN /\ initFailed' \in BOOLEAN
    BY <1>11, GetProducerType DEF DrainNoProducer
  <2>2. QED
    BY <1>11, <2>1 DEF DrainNoProducer, QueueTypes, LossTypes, RestTypes, emitVars, queueVars,
                       passVars, lossVars, ackVars
<1>12. CASE MaybeReinit
  BY <1>12 DEF MaybeReinit, QueueTypes, LossTypes, RestTypes, Generations, emitVars, queueVars,
               passVars, lossVars, ackVars
<1>13. ASSUME NEW p \in Drainers, NEW e \in Events, DrainSendOk(p, e) PROVE TypeOK'
  BY <1>13 DEF DrainSendOk, FinishItem, QueueTypes, LossTypes, RestTypes, emitVars, queueVars,
               producerVars, lossVars
<1>14. ASSUME NEW p \in Drainers, NEW e \in Events, DrainSendFail(p, e) PROVE TypeOK'
  <2>1. QueueTypes' /\ LossTypes'
    BY <1>14, FailAndParkType DEF DrainSendFail, QueueTypes
  <2>2. RestTypes'
    BY <1>14 DEF DrainSendFail, FinishItem, RestTypes, emitVars, producerVars
  <2>3. QED
    BY <2>1, <2>2
<1>15. CASE BeginShutdown
  BY <1>15 DEF BeginShutdown, QueueTypes, LossTypes, RestTypes, Phases, emitVars, queueVars,
               passVars, producerVars, lossVars, ackVars
<1>16. ASSUME NEW p \in Drainers, CutPass(p)
       PROVE  pass' \in [Drainers -> SUBSET Events] /\ buffer' \in [Generations -> SUBSET Events]
  BY <1>16 DEF CutPass, Older, RestTypes
<1>17. CASE CancelDrainer
  <2>1. pass' \in [Drainers -> SUBSET Events] /\ buffer' \in [Generations -> SUBSET Events]
    BY <1>16, <1>17 DEF CancelDrainer, Drainers
  <2>2. QED
    BY <1>17, <2>1 DEF CancelDrainer, DetachProducer, QueueTypes, LossTypes, RestTypes, Phases,
                       emitVars, producerVars, lossVars, ackVars
<1>18. CASE FinalBegin
  <2>1. CASE TakeDue("final")
    BY <1>18, <2>1, TypeTakeDue DEF FinalBegin, Drainers, Phases
  <2>2. CASE UNCHANGED <<emitVars, buffer, handback, queueVars, passVars, producerVars,
                         lossVars, ackVars>>
    BY <1>18, <2>2 DEF FinalBegin, QueueTypes, LossTypes, RestTypes, Phases, emitVars, queueVars,
                       passVars, producerVars, lossVars, ackVars
  <2>3. QED
    BY <1>18, <2>1, <2>2 DEF FinalBegin
<1>19. CASE FinalEnd
  <2>1. pass' \in [Drainers -> SUBSET Events] /\ buffer' \in [Generations -> SUBSET Events]
    BY <1>16, <1>19 DEF FinalEnd, Drainers
  <2>2. QED
    BY <1>19, <2>1 DEF FinalEnd, DetachProducer, QueueTypes, LossTypes, RestTypes, Phases,
                       emitVars, queueVars, lossVars, ackVars
<1>20. CASE CloseProducer
  <2>1. LossTypes'
    BY <1>20, WriteOffType DEF CloseProducer, QueueTypes, LossTypes
  <2>2. QueueTypes' /\ RestTypes'
    BY <1>20 DEF CloseProducer, QueueTypes, RestTypes, Phases, emitVars, passVars, producerVars,
                 ackVars
  <2>3. QED
    BY <2>1, <2>2
<1>21. CASE ProcessEnds
  BY <1>21 DEF ProcessEnds, QueueTypes, LossTypes, RestTypes, Phases, producerVars, lossVars,
               ackVars
<1>22. CASE UNCHANGED vars
  BY <1>22 DEF vars, QueueTypes, LossTypes, RestTypes, emitVars, queueVars, passVars,
               producerVars, lossVars, ackVars
<1>23. QED
  BY <1>1, <1>2, <1>3, <1>4, <1>5, <1>6, <1>7, <1>8, <1>9, <1>10, <1>11, <1>12, <1>13, <1>14,
     <1>15, <1>17, <1>18, <1>19, <1>20, <1>21, <1>22
  DEF Next, Requests, Emits, Flush, Drain, Shutdown

(* Every variable keeps its type: the queue, the drain passes and the buffers
   hold records only, and no event is sent with more than
   eventhub_retry_max_attempts stamped on it. *)
THEOREM TypeCorrect == Spec => []TypeOK
<1>1. QED
  BY TypeInit, TypeNext, PTL DEF Spec

-----------------------------------------------------------------------------
(* Where a record is.  The invariant below names the places one by one: each
   hand-over takes a record from one of them and puts it into another.       *)

Exclusive ==
    /\ scheduled \cap (sending \cup buffer[1] \cup buffer[2] \cup handback \cup retryQ
                         \cup pass["loop"] \cup pass["final"] \cup acked \cup givenUp) = {}
    /\ sending \cap (buffer[1] \cup buffer[2] \cup handback \cup retryQ
                         \cup pass["loop"] \cup pass["final"] \cup acked \cup givenUp) = {}
    /\ buffer[1] \cap (buffer[2] \cup handback \cup retryQ
                         \cup pass["loop"] \cup pass["final"] \cup acked \cup givenUp) = {}
    /\ buffer[2] \cap (handback \cup retryQ
                         \cup pass["loop"] \cup pass["final"] \cup acked \cup givenUp) = {}
    /\ handback \cap (retryQ \cup pass["loop"] \cup pass["final"] \cup acked \cup givenUp) = {}
    /\ retryQ \cap (pass["loop"] \cup pass["final"] \cup acked \cup givenUp) = {}
    /\ pass["loop"] \cap (pass["final"] \cup acked \cup givenUp) = {}
    /\ pass["final"] \cap (acked \cup givenUp) = {}
    /\ acked \cap givenUp = {}

(* Nothing is held, acknowledged or counted that was not handed over. *)
Owned ==
    /\ scheduled \cup sending \cup handback \cup retryQ \cup acked \cup givenUp \subseteq accepted
    /\ buffer[1] \cup buffer[2] \cup pass["loop"] \cup pass["final"] \subseteq accepted

PlaceInv == Exclusive /\ Owned /\ ripe \subseteq retryQ

LEMMA PlacesOfHeld ==
    /\ Buffered = buffer[1] \cup buffer[2]
    /\ InPass = pass["loop"] \cup pass["final"]
    /\ Buffered' = buffer'[1] \cup buffer'[2]
    /\ InPass' = pass'["loop"] \cup pass'["final"]
  BY DEF Buffered, InPass, Generations, Drainers

LEMMA PlaceInit == Init => PlaceInv
  BY DEF Init, PlaceInv, Exclusive, Owned, Generations, Drainers

(* What _requeue does to the places of a record e that just left its own. *)
LEMMA FailAndParkPlaces ==
    ASSUME TypeOK, PlaceInv, NEW e \in Events, NEW a \in Nat, FailAndPark(e, a)
    PROVE  \/ retryQ' = retryQ /\ ripe' = ripe /\ givenUp' = givenUp \cup {e}
           \/ retryQ' = retryQ \cup {e} /\ ripe' = ripe \ {e} /\ givenUp' = givenUp
           \/ \E old \in retryQ :
                 /\ retryQ' = (retryQ \ {old}) \cup {e}
                 /\ ripe' = ripe \ {e, old}
                 /\ givenUp' = givenUp \cup {old}
<1>1. ASSUME NEW old \in Older(retryQ), Enqueue(e, a, {old}), WriteOff({old})
      PROVE  \E x \in retryQ :
                 /\ retryQ' = (retryQ \ {x}) \cup {e}
                 /\ ripe' = ripe \ {e, x}
                 /\ givenUp' = givenUp \cup {x}
  <2>1. old \in retryQ
    BY DEF Older
  <2>2. QED
    BY <1>1, <2>1 DEF Enqueue, WriteOff
<1>2. QED
  BY <1>1 DEF FailAndPark, Enqueue, WriteOff, queueVars

LEMMA PlaceNext == TypeOK /\ PlaceInv /\ [Next]_vars => PlaceInv'
<1> SUFFICES ASSUME TypeOK, PlaceInv, [Next]_vars PROVE PlaceInv'
  OBVIOUS
<1> USE DEF Quiet
<1>1. ASSUME NEW e \in Events, SpawnEmit(e) PROVE PlaceInv'
  BY <1>1 DEF SpawnEmit, DropAndLose, WriteOff, PlaceInv, Exclusive, Owned, queueVars, passVars,
              ackVars, lossVars
<1>2. ASSUME NEW e \in Events, e \in scheduled \/ e \notin accepted, accepted' = accepted \cup {e},
             EmitBody(e)
      PROVE  PlaceInv'
  <2>1. e \notin sending \cup buffer[1] \cup buffer[2] \cup handback \cup retryQ
                 \cup pass["loop"] \cup pass["final"] \cup acked \cup givenUp
    BY <1>2 DEF PlaceInv, Exclusive, Owned
  <2>2. \/ sending' = sending \cup {e} /\ givenUp' = givenUp
        \/ sending' = sending /\ givenUp' = givenUp
        \/ sending' = sending /\ givenUp' = givenUp \cup {e}
    BY <1>2 DEF EmitBody, DropAndLose, WriteOff, lossVars
  <2>3. /\ scheduled' = scheduled \ {e} /\ buffer' = buffer /\ handback' = handback
        /\ retryQ' = retryQ /\ ripe' = ripe /\ pass' = pass /\ acked' = acked
    BY <1>2 DEF EmitBody, queueVars, passVars, ackVars
  <2>4. QED
    BY <1>2, <2>1, <2>2, <2>3 DEF PlaceInv, Exclusive, Owned
<1>3. ASSUME NEW e \in Events, EmitStart(e) PROVE PlaceInv'
  BY <1>2, <1>3 DEF EmitStart, PlaceInv, Owned
<1>4. ASSUME NEW e \in Events, EmitInline(e) PROVE PlaceInv'
  BY <1>2, <1>4 DEF EmitInline
<1>5. ASSUME NEW e \in Events, EmitSendOk(e) PROVE PlaceInv'
  <2>1. buffer'[1] = buffer[1] \cup {e} /\ buffer'[2] = buffer[2]
    BY <1>5 DEF EmitSendOk, TypeOK, Generations
  <2>2. QED
    BY <1>5, <2>1 DEF EmitSendOk, PlaceInv, Exclusive, Owned, queueVars, passVars, ackVars, lossVars
<1>6. ASSUME NEW e \in Events, EmitSendFail(e) PROVE PlaceInv'
  BY <1>6, FailAndParkPlaces
     DEF EmitSendFail, PlaceInv, Exclusive, Owned, passVars, ackVars
<1>7. ASSUME NEW g \in Generations, NEW e \in Events, OnSuccess(g, e) PROVE PlaceInv'
  <2>1. /\ e \in buffer[1] \cup buffer[2]
        /\ g = 1 => e \in buffer[1] /\ buffer'[1] = buffer[1] \ {e} /\ buffer'[2] = buffer[2]
        /\ g = 2 => e \in buffer[2] /\ buffer'[2] = buffer[2] \ {e} /\ buffer'[1] = buffer[1]
    BY <1>7 DEF OnSuccess, TypeOK, Generations
  <2>2. QED
    BY <1>7, <2>1
       DEF OnSuccess, PlaceInv, Exclusive, Owned, Generations, emitVars, queueVars, passVars, lossVars
<1>8. ASSUME NEW g \in Generations, NEW batch \in SUBSET Events, BatchFails(g, batch) PROVE PlaceInv'
  <2>1. /\ g = 1 => batch \subseteq buffer[1] /\ buffer'[1] = buffer[1] \ batch /\ buffer'[2] = buffer[2]
        /\ g = 2 => batch \subseteq buffer[2] /\ buffer'[2] = buffer[2] \ batch /\ buffer'[1] = buffer[1]
    BY <1>8 DEF BatchFails, TypeOK, Generations
  <2>2. QED
    BY <1>8, <2>1
       DEF BatchFails, PlaceInv, Exclusive, Owned, Generations, emitVars, queueVars, passVars,
           lossVars, ackVars
<1>9. ASSUME NEW e \in Events, OnError(e) PROVE PlaceInv'
  <2>1. CASE DropAndLose(e) /\ UNCHANGED queueVars
    BY <1>9, <2>1 DEF OnError, DropAndLose, WriteOff, PlaceInv, Exclusive, Owned, emitVars, queueVars,
                      passVars, ackVars
  <2>2. CASE FailAndPark(e, attempts[e] + 1)
    <3>1. attempts[e] + 1 \in Nat
      BY DEF TypeOK
    <3>2. QED
      BY <1>9, <2>2, <3>1, FailAndParkPlaces
         DEF OnError, PlaceInv, Exclusive, Owned, emitVars, passVars, ackVars
  <2>3. QED
    BY <1>9, <2>1, <2>2 DEF OnError
<1>10. ASSUME NEW e \in Events, Ripen(e) PROVE PlaceInv'
  BY <1>10 DEF Ripen, PlaceInv, Exclusive, Owned, emitVars, passVars, ackVars, lossVars
<1>11. ASSUME NEW p \in Drainers, TakeDue(p) PROVE PlaceInv'
  <2>1. /\ p = "loop" => /\ pass["loop"] = {}
                         /\ pass'["loop"] = retryQ \cap ripe
                         /\ pass'["final"] = pass["final"]
        /\ p = "final" => /\ pass["final"] = {}
                          /\ pass'["final"] = retryQ \cap ripe
                          /\ pass'["loop"] = pass["loop"]
    BY <1>11 DEF TakeDue, TypeOK, Drainers
  <2>2. QED
    BY <1>11, <2>1 DEF TakeDue, PlaceInv, Exclusive, Owned, Drainers, emitVars, lossVars
<1>12. CASE DrainBegin
  BY <1>11, <1>12 DEF DrainBegin, Drainers
<1>13. CASE DrainNoProducer \/ MaybeReinit \/ BeginShutdown \/ UNCHANGED vars
  BY <1>13 DEF DrainNoProducer, MaybeReinit, BeginShutdown, PlaceInv, Exclusive, Owned, vars, emitVars,
               queueVars, passVars, lossVars, ackVars
<1>14. ASSUME NEW p \in Drainers, NEW e \in Events, FinishItem(p, e)
       PROVE  /\ p = "loop" => /\ e \in pass["loop"]
                               /\ pass'["loop"] = pass["loop"] \ {e}
                               /\ pass'["final"] = pass["final"]
              /\ p = "final" => /\ e \in pass["final"]
                                /\ pass'["final"] = pass["final"] \ {e}
                                /\ pass'["loop"] = pass["loop"]
  BY <1>14 DEF FinishItem, Older, TypeOK, Drainers
<1>15. ASSUME NEW p \in Drainers, NEW e \in Events, DrainSendOk(p, e) PROVE PlaceInv'
  <2>1. \/ buffer'[1] = buffer[1] \cup {e} /\ buffer'[2] = buffer[2]
        \/ buffer'[2] = buffer[2] \cup {e} /\ buffer'[1] = buffer[1]
    BY <1>15 DEF DrainSendOk, TypeOK, Generations
  <2>2. /\ scheduled' = scheduled /\ sending' = sending /\ handback' = handback /\ acked' = acked
        /\ retryQ' = retryQ /\ ripe' = ripe /\ givenUp' = givenUp /\ accepted' = accepted
    BY <1>15 DEF DrainSendOk, FinishItem, emitVars, queueVars, lossVars
  <2>3. CASE p = "loop"
    BY <1>14, <1>15, <2>1, <2>2, <2>3 DEF DrainSendOk, PlaceInv, Exclusive, Owned
  <2>4. CASE p = "final"
    BY <1>14, <1>15, <2>1, <2>2, <2>4 DEF DrainSendOk, PlaceInv, Exclusive, Owned
  <2>5. QED
    BY <2>3, <2>4 DEF Drainers
<1>16. ASSUME NEW p \in Drainers, NEW e \in Events, DrainSendFail(p, e) PROVE PlaceInv'
  <2>1. attempts[e] + 1 \in Nat
    BY DEF TypeOK
  <2>2. /\ scheduled' = scheduled /\ sending' = sending /\ handback' = handback /\ acked' = acked
        /\ buffer' = buffer /\ accepted' = accepted
    BY <1>16 DEF DrainSendFail, FinishItem, emitVars
  <2>3. FailAndPark(e, attempts[e] + 1) /\ FinishItem(p, e)
    BY <1>16 DEF DrainSendFail
  <2>4. CASE p = "loop"
    BY <1>14, <2>1, <2>2, <2>3, <2>4, FailAndParkPlaces DEF PlaceInv, Exclusive, Owned
  <2>5. CASE p = "final"
    BY <1>14, <2>1, <2>2, <2>3, <2>5, FailAndParkPlaces DEF PlaceInv, Exclusive, Owned
  <2>6. QED
    BY <2>4, <2>5 DEF Drainers
<1>17. ASSUME NEW p \in Drainers, CutPass(p)
       PROVE  \E in \in SUBSET pass[p] :
                 /\ p = "loop" => pass'["loop"] = {} /\ pass'["final"] = pass["final"]
                 /\ p = "final" => pass'["final"] = {} /\ pass'["loop"] = pass["loop"]
                 /\ \/ buffer'[1] = buffer[1] \cup in /\ buffer'[2] = buffer[2]
                    \/ buffer'[2] = buffer[2] \cup in /\ buffer'[1] = buffer[1]
  <2>1. /\ p = "loop" => pass'["loop"] = {} /\ pass'["final"] = pass["final"]
        /\ p = "final" => pass'["final"] = {} /\ pass'["loop"] = pass["loop"]
    BY <1>17 DEF CutPass, TypeOK, Drainers
  <2>2. CASE UNCHANGED buffer
    <3>1. {} \in SUBSET pass[p] /\ buffer'[1] = buffer[1] \cup {} /\ buffer'[2] = buffer[2]
      BY <2>2
    <3>2. QED
      BY <2>1, <3>1
  <2>3. ASSUME NEW e \in Older(pass[p]), buffer' = [buffer EXCEPT ![via[p]] = @ \cup {e}]
        PROVE  /\ {e} \in SUBSET pass[p]
               /\ \/ buffer'[1] = buffer[1] \cup {e} /\ buffer'[2] = buffer[2]
                  \/ buffer'[2] = buffer[2] \cup {e} /\ buffer'[1] = buffer[1]
    BY <2>3 DEF TypeOK, Generations, Older
  <2>4. QED
    BY <1>17, <2>1, <2>2, <2>3 DEF CutPass
<1>18. CASE CancelDrainer
  BY <1>17, <1>18 DEF CancelDrainer, PlaceInv, Exclusive, Owned, Drainers, emitVars, lossVars, ackVars
<1>19. CASE FinalBegin
  BY <1>11, <1>19 DEF FinalBegin, PlaceInv, Exclusive, Owned, Drainers, emitVars, queueVars, passVars,
                      lossVars, ackVars
<1>20. CASE FinalEnd
  BY <1>17, <1>20 DEF FinalEnd, PlaceInv, Exclusive, Owned, Drainers, emitVars, queueVars, lossVars,
                      ackVars
<1>21. CASE CloseProducer
  BY <1>21 DEF CloseProducer, WriteOff, PlaceInv, Exclusive, Owned, emitVars, passVars, ackVars
<1>22. CASE ProcessEnds
  BY <1>22 DEF ProcessEnds, PlaceInv, Exclusive, Owned, Generations, Drainers, lossVars, ackVars
<1>23. QED
  BY <1>1, <1>3, <1>4, <1>5, <1>6, <1>7, <1>8, <1>9, <1>10, <1>12, <1>13, <1>15, <1>16, <1>18, <1>19,
     <1>20, <1>21, <1>22
  DEF Next, Requests, Emits, Flush, Drain, Shutdown

(* A record is never in two places at once, so no retry forks it. *)
THEOREM OneCopyAlways == Spec => []OneCopy
<1>1. PlaceInv => OneCopy
  BY PlacesOfHeld DEF PlaceInv, Exclusive, OneCopy, Held
<1>2. QED
  BY <1>1, TypeInit, TypeNext, PlaceInit, PlaceNext, PTL DEF Spec

-----------------------------------------------------------------------------
(* The counter of lost records.                                            *)

(* What a step may write off: nothing, or records that were not yet. *)
WritesOffNew ==
    \/ UNCHANGED <<lost, givenUp>>
    \/ \E S \in SUBSET Events : S \cap givenUp = {} /\ WriteOff(S)

(* _requeue gives up on the event itself or on the oldest one in the queue. *)
LEMMA FailAndParkWritesOff ==
    ASSUME TypeOK, PlaceInv, NEW e \in Events, NEW a \in Nat, e \notin givenUp, FailAndPark(e, a)
    PROVE  WritesOffNew
<1>1. CASE UNCHANGED <<lost, givenUp>>
  BY <1>1 DEF WritesOffNew
<1>2. CASE WriteOff({e})
  BY <1>2 DEF WritesOffNew
<1>3. ASSUME NEW old \in Older(retryQ), WriteOff({old})
      PROVE  WritesOffNew
  <2>1. old \in Events /\ old \notin givenUp
    BY DEF Older, TypeOK, PlaceInv, Exclusive
  <2>2. QED
    BY <1>3, <2>1 DEF WritesOffNew
<1>4. QED
  BY <1>1, <1>2, <1>3 DEF FailAndPark

LEMMA StepWritesOff == TypeOK /\ PlaceInv /\ [Next]_vars => WritesOffNew
<1> SUFFICES ASSUME TypeOK, PlaceInv, [Next]_vars PROVE WritesOffNew
  OBVIOUS
<1>1. ASSUME NEW e \in Events, e \notin givenUp, DropAndLose(e) \/ UNCHANGED lossVars
      PROVE  WritesOffNew
  BY <1>1 DEF DropAndLose, lossVars, WritesOffNew
<1>2. ASSUME NEW e \in Events, e \in scheduled \/ e \notin accepted
      PROVE  e \notin givenUp
  BY <1>2 DEF PlaceInv, Exclusive, Owned
<1>3. ASSUME NEW e \in Events, SpawnEmit(e) \/ EmitStart(e) \/ EmitInline(e)
      PROVE  WritesOffNew
  BY <1>1, <1>2, <1>3 DEF SpawnEmit, EmitStart, EmitInline, EmitBody
<1>4. ASSUME NEW e \in Events, EmitSendFail(e) PROVE WritesOffNew
  BY <1>4, FailAndParkWritesOff DEF EmitSendFail, PlaceInv, Exclusive
<1>5. ASSUME NEW e \in Events, OnError(e) PROVE WritesOffNew
  <2>1. e \notin givenUp /\ attempts[e] + 1 \in Nat
    BY <1>5 DEF OnError, PlaceInv, Exclusive, TypeOK
  <2>2. QED
    BY <1>1, <1>5, <2>1, FailAndParkWritesOff DEF OnError
<1>6. ASSUME NEW p \in Drainers, NEW e \in Events, DrainSendFail(p, e) PROVE WritesOffNew
  <2>1. e \notin givenUp /\ attempts[e] + 1 \in Nat
    BY <1>6 DEF DrainSendFail, FinishItem, Older, Drainers, PlaceInv, Exclusive, TypeOK
  <2>2. QED
    BY <1>6, <2>1, FailAndParkWritesOff DEF DrainSendFail
<1>7. CASE CloseProducer
  <2>1. retryQ \in SUBSET Events /\ retryQ \cap givenUp = {}
    BY DEF TypeOK, PlaceInv, Exclusive
  <2>2. QED
    BY <1>7, <2>1 DEF CloseProducer, WritesOffNew
<1>8. CASE \/ \E e \in Events : EmitSendOk(e) \/ Ripen(e)
           \/ Flush \/ DrainBegin \/ DrainNoProducer \/ MaybeReinit
           \/ \E p \in Drainers, e \in Events : DrainSendOk(p, e)
  BY <1>8 DEF EmitSendOk, Ripen, Flush, OnSuccess, BatchFails, DrainBegin, TakeDue,
              DrainNoProducer, MaybeReinit, DrainSendOk, lossVars, WritesOffNew
<1>9. CASE BeginShutdown \/ CancelDrainer \/ FinalBegin \/ FinalEnd \/ ProcessEnds \/ UNCHANGED vars
  BY <1>9 DEF BeginShutdown, CancelDrainer, FinalBegin, TakeDue, FinalEnd, ProcessEnds, vars,
              lossVars, WritesOffNew
<1>10. QED
  BY <1>3, <1>4, <1>5, <1>6, <1>7, <1>8, <1>9 DEF Next, Requests, Emits, Drain, Shutdown

LostIsCardinality == lost = Cardinality(givenUp)

(* Writing off new records moves the counter by their number. *)
LEMMA WriteOffCounts == TypeOK /\ LostIsCardinality /\ WritesOffNew => LostIsCardinality'
<1> SUFFICES ASSUME TypeOK, LostIsCardinality, WritesOffNew PROVE LostIsCardinality'
  OBVIOUS
<1>1. CASE UNCHANGED <<lost, givenUp>>
  BY <1>1 DEF LostIsCardinality
<1>2. ASSUME NEW S \in SUBSET Events, S \cap givenUp = {}, WriteOff(S)
      PROVE  LostIsCardinality'
  <2>1. IsFiniteSet(S) /\ IsFiniteSet(givenUp)
    BY FS_Subset DEF TypeOK
  <2>2. Cardinality(givenUp \cup S) = Cardinality(givenUp) + Cardinality(S)
    <3>1. Cardinality(givenUp \cup S)
            = Cardinality(givenUp) + Cardinality(S) - Cardinality(givenUp \cap S)
      BY <2>1, FS_Union
    <3>2. givenUp \cap S = {}
      BY <1>2
    <3>3. Cardinality(givenUp) \in Nat /\ Cardinality(S) \in Nat
      BY <2>1, FS_CardinalityType
    <3>4. Cardinality(givenUp \cap S) = 0
      BY <3>2, FS_EmptySet
    <3>5. QED
      BY <3>1, <3>3, <3>4
  <2>3. QED
    BY <1>2, <2>2 DEF WriteOff, LostIsCardinality
<1>3. QED
  BY <1>1, <1>2 DEF WritesOffNew

(* lost_count() counts each event at most once and never one that was, or may
   still be, delivered: the reconciliation can subtract it. *)
THEOREM LostIsExact == Spec => []LostCountsEventsOnce
<1>1. Init => LostIsCardinality
  BY FS_EmptySet DEF Init, LostIsCardinality
<1>2. PlaceInv /\ LostIsCardinality => LostCountsEventsOnce
  BY PlacesOfHeld DEF PlaceInv, Exclusive, LostIsCardinality, LostCountsEventsOnce, Held
<1>3. QED
  BY <1>1, <1>2, TypeInit, TypeNext, PlaceInit, PlaceNext, StepWritesOff, WriteOffCounts, PTL
  DEF Spec

-----------------------------------------------------------------------------
(* The drain task.                                                         *)

(* What a step may do to the queue, the loop's pass and the drain task: it
   starts the task, or adds nothing to the queue or the pass while the task
   lives on, or it is one after which the process no longer serves. *)
KeepsDrainer ==
    \/ drainer' = TRUE
    \/ /\ retryQ' \subseteq retryQ
       /\ pass'["loop"] \subseteq pass["loop"]
       /\ drainer' = drainer
    \/ phase' \notin {"serving", "draining"}

(* _requeue either leaves the queue alone or calls _ensure_drainer. *)
LEMMA FailAndParkDrains ==
    ASSUME NEW e, NEW a, FailAndPark(e, a)
    PROVE  drainer' = TRUE \/ UNCHANGED <<retryQ, drainer>>
  BY DEF FailAndPark, queueVars

LEMMA StepKeepsDrainer == TypeOK /\ [Next]_vars => KeepsDrainer
<1> SUFFICES ASSUME TypeOK, [Next]_vars PROVE KeepsDrainer
  OBVIOUS
<1>1. CASE Requests \/ \E e \in Events : EmitStart(e) \/ EmitSendOk(e)
  BY <1>1 DEF Requests, SpawnEmit, EmitInline, EmitStart, EmitBody, EmitSendOk, queueVars,
              passVars, KeepsDrainer
<1>2. ASSUME NEW e \in Events, EmitSendFail(e) PROVE KeepsDrainer
  BY <1>2, FailAndParkDrains DEF EmitSendFail, passVars, KeepsDrainer
<1>3. CASE Flush
  BY <1>3 DEF Flush, OnSuccess, BatchFails, queueVars, passVars, KeepsDrainer
<1>4. ASSUME NEW e \in Events, OnError(e) PROVE KeepsDrainer
  BY <1>4, FailAndParkDrains DEF OnError, queueVars, passVars, KeepsDrainer
<1>5. ASSUME NEW e \in Events, Ripen(e) PROVE KeepsDrainer
  BY <1>5 DEF Ripen, passVars, KeepsDrainer
<1>6. CASE DrainBegin \/ DrainNoProducer \/ MaybeReinit
  BY <1>6 DEF DrainBegin, TakeDue, DrainNoProducer, MaybeReinit, queueVars, passVars, TypeOK,
              KeepsDrainer
<1>7. ASSUME NEW p \in Drainers, NEW e \in Events, FinishItem(p, e)
      PROVE  pass'["loop"] \subseteq pass["loop"]
  BY <1>7 DEF FinishItem, TypeOK, Drainers
<1>8. ASSUME NEW p \in Drainers, NEW e \in Events, DrainSendOk(p, e) PROVE KeepsDrainer
  BY <1>7, <1>8 DEF DrainSendOk, queueVars, KeepsDrainer
<1>9. ASSUME NEW p \in Drainers, NEW e \in Events, DrainSendFail(p, e) PROVE KeepsDrainer
  BY <1>7, <1>9, FailAndParkDrains DEF DrainSendFail, KeepsDrainer
<1>10. CASE BeginShutdown \/ UNCHANGED vars
  BY <1>10 DEF BeginShutdown, vars, queueVars, passVars, KeepsDrainer
<1>11. CASE CancelDrainer \/ FinalBegin \/ FinalEnd \/ CloseProducer \/ ProcessEnds
  <2>1. phase' \in {"final", "finalPass", "flushing", "closed", "exited"}
    BY <1>11 DEF CancelDrainer, FinalBegin, FinalEnd, CloseProducer, ProcessEnds
  <2>2. QED
    BY <2>1 DEF KeepsDrainer
<1>12. QED
  BY <1>1, <1>2, <1>3, <1>4, <1>5, <1>6, <1>8, <1>9, <1>10, <1>11
     DEF Next, Emits, Drain, Shutdown

(* The process never goes back to serving. *)
LEMMA PhaseAdvances ==
    [Next]_vars => (phase' \in {"serving", "draining"} => phase \in {"serving", "draining"})
<1> SUFFICES ASSUME [Next]_vars, phase' \in {"serving", "draining"}
             PROVE  phase \in {"serving", "draining"}
  OBVIOUS
<1>1. CASE Requests \/ Emits \/ Flush \/ \E e \in Events : OnError(e)
  BY <1>1 DEF Requests, SpawnEmit, EmitInline, Emits, EmitStart, EmitBody, EmitSendOk,
              EmitSendFail, Flush, OnSuccess, BatchFails, OnError
<1>2. CASE Drain
  BY <1>2 DEF Drain, Ripen, DrainBegin, DrainNoProducer, MaybeReinit, DrainSendOk, DrainSendFail,
              FinishItem
<1>3. CASE Shutdown \/ ProcessEnds
  BY <1>3 DEF Shutdown, BeginShutdown, CancelDrainer, FinalBegin, FinalEnd, CloseProducer,
              ProcessEnds
<1>4. CASE UNCHANGED vars
  BY <1>4 DEF vars
<1>5. QED
  BY <1>1, <1>2, <1>3, <1>4 DEF Next

(* While the process serves, a parked event has a live drain task: only
   _requeue starts one, and it runs until aclose cancels it. *)
THEOREM ParkedEventsAreDrained == Spec => []ParkedHasDrainer
<1>1. Init => ParkedHasDrainer
  BY DEF Init, ParkedHasDrainer, Drainers
<1>2. TypeOK /\ ParkedHasDrainer /\ [Next]_vars => ParkedHasDrainer'
  <2> SUFFICES ASSUME TypeOK, ParkedHasDrainer, [Next]_vars PROVE ParkedHasDrainer'
    OBVIOUS
  <2>1. KeepsDrainer
    BY StepKeepsDrainer
  <2>2. phase' \in {"serving", "draining"} => phase \in {"serving", "draining"}
    BY PhaseAdvances
  <2>3. QED
    BY <2>1, <2>2 DEF KeepsDrainer, ParkedHasDrainer
<1>3. QED
  BY <1>1, <1>2, TypeInit, TypeNext, PTL DEF Spec

-----------------------------------------------------------------------------
(* The counter of recovered records.  _on_success looks at a record's attempt
   count only once something was retried, so the invariant relates the two:
   a record with an attempt behind it reaches the SDK through a drain pass. *)

RetryInv ==
    /\ \A e \in Events : e \notin accepted => attempts[e] = 0
    /\ \A e \in scheduled \cup sending : attempts[e] = 0
    /\ InPass # {} => retried > 0
    /\ \A e \in Buffered \cup handback : attempts[e] > 0 => retried > 0

LEMMA RetryInit == Init => RetryInv
  BY PlacesOfHeld DEF Init, RetryInv, Generations, Drainers

(* A step that leaves the attempt counts alone, and hands the SDK a record
   only from an emit task or, when something was retried, from a pass. *)
KeepsAttempts ==
    /\ UNCHANGED attempts
    /\ accepted \subseteq accepted'
    /\ scheduled' \cup sending' \subseteq scheduled \cup sending \cup (accepted' \ accepted)
    /\ retried' \in Nat /\ retried' >= retried
    /\ InPass' \subseteq InPass \/ retried' > 0
    /\ \/ Buffered' \cup handback' \subseteq Buffered \cup handback \cup scheduled \cup sending
       \/ retried' > 0

LEMMA KeepsRetryInv ==
    ASSUME TypeOK, RetryInv, KeepsAttempts, accepted' \subseteq Events
    PROVE  RetryInv'
<1>1. retried \in Nat /\ retried' \in Nat /\ (retried > 0 => retried' > 0)
  BY DEF TypeOK, KeepsAttempts
<1>2. \A e \in Events : e \notin accepted' => attempts'[e] = 0
  BY DEF KeepsAttempts, RetryInv
<1>3. \A e \in scheduled' \cup sending' : attempts'[e] = 0
  BY DEF KeepsAttempts, RetryInv
<1>4. InPass' # {} => retried' > 0
  BY <1>1 DEF KeepsAttempts, RetryInv
<1>5. \A e \in Buffered' \cup handback' : attempts'[e] > 0 => retried' > 0
  BY <1>1 DEF KeepsAttempts, RetryInv
<1>6. QED
  BY <1>2, <1>3, <1>4, <1>5 DEF RetryInv

(* What _requeue does to the attempt counts: those of other records stay. *)
LEMMA FailAndParkAttempts ==
    ASSUME TypeOK, NEW e \in Events, NEW a \in Nat, FailAndPark(e, a)
    PROVE  \A f \in Events : f # e => attempts'[f] = attempts[f]
  BY DEF FailAndPark, Enqueue, queueVars, TypeOK

(* A step that parks e, which was in an emit task, with the SDK or in a pass. *)
Parks(e) ==
    /\ \A f \in Events : f # e => attempts'[f] = attempts[f]
    /\ e \in accepted
    /\ e \notin scheduled' \cup sending' \cup Buffered' \cup handback'
    /\ UNCHANGED accepted
    /\ scheduled' \subseteq scheduled /\ sending' \subseteq sending
    /\ retried' \in Nat /\ retried' >= retried
    /\ InPass' \subseteq InPass
    /\ Buffered' \subseteq Buffered /\ handback' \subseteq handback

LEMMA ParksRetryInv ==
    ASSUME TypeOK, RetryInv, NEW e \in Events, Parks(e)
    PROVE  RetryInv'
<1>1. retried \in Nat /\ retried' \in Nat /\ (retried > 0 => retried' > 0)
  BY DEF TypeOK, Parks
<1>2. \A f \in Events : f \notin accepted' => attempts'[f] = 0
  BY DEF Parks, RetryInv
<1>3. \A f \in scheduled' \cup sending' : attempts'[f] = 0
  BY DEF Parks, RetryInv, TypeOK
<1>4. InPass' # {} => retried' > 0
  BY <1>1 DEF Parks, RetryInv
<1>5. \A f \in Buffered' \cup handback' : attempts'[f] > 0 => retried' > 0
  <2>1. Buffered \subseteq Events /\ handback \subseteq Events
    BY DEF TypeOK, Buffered
  <2>2. QED
    BY <1>1, <2>1 DEF Parks, RetryInv
<1>6. QED
  BY <1>2, <1>3, <1>4, <1>5 DEF RetryInv

(* The pass of the final drain and that of the loop move alike. *)
LEMMA FinishItemMoves ==
    ASSUME TypeOK, NEW p \in Drainers, NEW e \in Events, FinishItem(p, e)
    PROVE  /\ e \in InPass
           /\ InPass' \subseteq InPass
           /\ retried' \in Nat /\ retried' >= retried
<1>1. e \in pass[p] /\ pass[p] \subseteq InPass
  BY DEF FinishItem, Older, InPass
<1>2. \A d \in Drainers : pass'[d] \subseteq pass[d]
  BY DEF FinishItem, TypeOK
<1>3. QED
  BY <1>1, <1>2 DEF FinishItem, InPass, TypeOK

LEMMA CutPassMoves ==
    ASSUME TypeOK, PlaceInv, RetryInv, NEW p \in Drainers, CutPass(p)
    PROVE  /\ InPass' \subseteq InPass
           /\ Buffered' \subseteq Buffered \/ retried > 0
<1>1. \A d \in Drainers : pass'[d] \subseteq pass[d]
  BY DEF CutPass, TypeOK
<1>2. Buffered' \subseteq Buffered \/ pass[p] # {}
  <2>1. CASE UNCHANGED buffer
    BY <2>1 DEF Buffered
  <2>2. CASE \E e \in Older(pass[p]) : buffer' = [buffer EXCEPT ![via[p]] = @ \cup {e}]
    BY <2>2 DEF Older
  <2>3. QED
    BY <2>1, <2>2 DEF CutPass
<1>3. QED
  BY <1>1, <1>2 DEF InPass, RetryInv

LEMMA RetryNext == TypeOK /\ PlaceInv /\ RetryInv /\ [Next]_vars => RetryInv'
<1> SUFFICES ASSUME TypeOK, PlaceInv, RetryInv, [Next]_vars PROVE RetryInv'
  OBVIOUS
<1>0. TypeOK' /\ accepted' \subseteq Events /\ retried \in Nat
  BY TypeNext DEF TypeOK
<1> USE PlacesOfHeld DEF Quiet
<1>1. ASSUME NEW e \in Events, SpawnEmit(e) \/ EmitInline(e) \/ EmitStart(e) PROVE RetryInv'
  <2>1. UNCHANGED <<attempts, retried, buffer, handback, pass>>
    BY <1>1 DEF SpawnEmit, EmitInline, EmitStart, EmitBody, queueVars, passVars, ackVars
  <2>2. Buffered' = Buffered /\ InPass' = InPass
    BY <2>1 DEF Buffered, InPass
  <2>3. /\ accepted \subseteq accepted'
        /\ scheduled' \cup sending' \subseteq scheduled \cup sending \cup (accepted' \ accepted)
    BY <1>1 DEF SpawnEmit, EmitInline, EmitStart, EmitBody
  <2>4. KeepsAttempts
    BY <1>0, <2>1, <2>2, <2>3 DEF KeepsAttempts
  <2>5. QED
    BY <1>0, <2>4, KeepsRetryInv
<1>2. ASSUME NEW e \in Events, EmitSendOk(e) PROVE RetryInv'
  <2>1. Buffered' = Buffered \cup {e}
    <3>1. buffer'[1] = buffer[1] \cup {e} /\ buffer'[2] = buffer[2]
      BY <1>2 DEF EmitSendOk, TypeOK, Generations
    <3>2. QED
      BY <3>1
  <2>2. KeepsAttempts
    BY <1>0, <1>2, <2>1 DEF EmitSendOk, KeepsAttempts, queueVars, passVars, ackVars
  <2>3. QED
    BY <1>0, <2>2, KeepsRetryInv
<1>3. ASSUME NEW e \in Events, EmitSendFail(e) PROVE RetryInv'
  <2>1. \A f \in Events : f # e => attempts'[f] = attempts[f]
    BY <1>3, FailAndParkAttempts DEF EmitSendFail
  <2>2. Parks(e)
    BY <1>0, <1>3, <2>1 DEF EmitSendFail, Parks, PlaceInv, Exclusive, Owned, passVars, ackVars
  <2>3. QED
    BY <2>2, ParksRetryInv
<1>4. ASSUME NEW g \in Generations, NEW e \in Events, OnSuccess(g, e) PROVE RetryInv'
  <2>1. Buffered' \subseteq Buffered
    BY <1>4 DEF OnSuccess, Buffered, TypeOK
  <2>2. KeepsAttempts
    BY <1>0, <1>4, <2>1 DEF OnSuccess, KeepsAttempts, emitVars, queueVars, passVars
  <2>3. QED
    BY <1>0, <2>2, KeepsRetryInv
<1>5. ASSUME NEW g \in Generations, NEW batch \in SUBSET Events, BatchFails(g, batch)
      PROVE  RetryInv'
  <2>1. Buffered' \subseteq Buffered /\ batch \subseteq Buffered
    BY <1>5 DEF BatchFails, Buffered, TypeOK
  <2>2. KeepsAttempts
    BY <1>0, <1>5, <2>1 DEF BatchFails, KeepsAttempts, emitVars, queueVars, passVars, ackVars
  <2>3. QED
    BY <1>0, <2>2, KeepsRetryInv
<1>6. ASSUME NEW e \in Events, OnError(e) PROVE RetryInv'
  <2>1. CASE UNCHANGED queueVars
    <3>1. KeepsAttempts
      BY <1>0, <1>6, <2>1 DEF OnError, KeepsAttempts, emitVars, queueVars, passVars, ackVars
    <3>2. QED
      BY <1>0, <3>1, KeepsRetryInv
  <2>2. CASE FailAndPark(e, attempts[e] + 1)
    <3>1. \A f \in Events : f # e => attempts'[f] = attempts[f]
      BY <2>2, FailAndParkAttempts DEF TypeOK
    <3>2. Parks(e)
      BY <1>0, <1>6, <3>1 DEF OnError, Parks, PlaceInv, Exclusive, Owned, emitVars, passVars,
                              ackVars
    <3>3. QED
      BY <3>2, ParksRetryInv
  <2>3. QED
    BY <1>6, <2>1, <2>2 DEF OnError
<1>7. CASE \/ \E e \in Events : Ripen(e)
           \/ DrainNoProducer \/ MaybeReinit \/ BeginShutdown \/ CloseProducer \/ UNCHANGED vars
  <2>1. UNCHANGED <<attempts, retried, buffer, handback, pass, accepted, scheduled, sending>>
    BY <1>7 DEF Ripen, DrainNoProducer, MaybeReinit, BeginShutdown, CloseProducer, vars,
                emitVars, queueVars, passVars, ackVars
  <2>2. Buffered' = Buffered /\ InPass' = InPass
    BY <2>1 DEF Buffered, InPass
  <2>3. KeepsAttempts
    BY <1>0, <2>1, <2>2 DEF KeepsAttempts
  <2>4. QED
    BY <1>0, <2>3, KeepsRetryInv
<1>8. ASSUME NEW p \in Drainers, TakeDue(p) PROVE RetryInv'
  <2>1. InPass' \subseteq InPass \/ retryQ \cap ripe # {}
    <3>1. CASE retryQ \cap ripe = {}
      <4>1. \A d \in Drainers : pass'[d] \subseteq pass[d]
        BY <1>8, <3>1 DEF TakeDue, TypeOK
      <4>2. QED
        BY <4>1 DEF Drainers
    <3>2. QED
      BY <3>1
  <2>2. retried' \in Nat /\ retried' >= retried /\ (retryQ \cap ripe # {} => retried' > 0)
    BY <1>0, <1>8 DEF TakeDue
  <2>3. KeepsAttempts
    BY <1>0, <1>8, <2>1, <2>2 DEF TakeDue, KeepsAttempts, emitVars
  <2>4. QED
    BY <1>0, <2>3, KeepsRetryInv
<1>9. CASE DrainBegin
  BY <1>8, <1>9 DEF DrainBegin, Drainers
<1>10. ASSUME NEW p \in Drainers, NEW e \in Events, DrainSendOk(p, e) PROVE RetryInv'
  <2>1. e \in InPass /\ InPass' \subseteq InPass /\ retried' \in Nat /\ retried' >= retried
    BY <1>10, FinishItemMoves DEF DrainSendOk
  <2>2. retried' > 0
    BY <1>0, <2>1 DEF RetryInv
  <2>3. KeepsAttempts
    BY <1>10, <2>1, <2>2 DEF DrainSendOk, FinishItem, KeepsAttempts, emitVars, queueVars
  <2>4. QED
    BY <1>0, <2>3, KeepsRetryInv
<1>11. ASSUME NEW p \in Drainers, NEW e \in Events, DrainSendFail(p, e) PROVE RetryInv'
  <2>1. e \in InPass /\ InPass' \subseteq InPass /\ retried' \in Nat /\ retried' >= retried
    BY <1>11, FinishItemMoves DEF DrainSendFail
  <2>2. \A f \in Events : f # e => attempts'[f] = attempts[f]
    BY <1>11, FailAndParkAttempts DEF DrainSendFail, TypeOK
  <2>3. Parks(e)
    BY <1>11, <2>1, <2>2
       DEF DrainSendFail, FinishItem, Parks, PlaceInv, Exclusive, Owned, emitVars
  <2>4. QED
    BY <2>3, ParksRetryInv
<1>12. ASSUME NEW p \in Drainers, CutPass(p), UNCHANGED <<emitVars, handback, attempts, ackVars>>
       PROVE  RetryInv'
  <2>1. InPass' \subseteq InPass /\ (Buffered' \subseteq Buffered \/ retried > 0)
    BY <1>12, CutPassMoves
  <2>2. KeepsAttempts
    BY <1>0, <1>12, <2>1 DEF KeepsAttempts, emitVars, ackVars
  <2>3. QED
    BY <1>0, <2>2, KeepsRetryInv
<1>13. CASE CancelDrainer
  BY <1>12, <1>13 DEF CancelDrainer, Drainers
<1>14. CASE FinalEnd
  BY <1>12, <1>14 DEF FinalEnd, Drainers, queueVars
<1>15. CASE FinalBegin
  <2>1. CASE TakeDue("final")
    BY <1>8, <2>1 DEF Drainers
  <2>2. CASE UNCHANGED <<emitVars, buffer, handback, queueVars, passVars, producerVars,
                         lossVars, ackVars>>
    <3>1. KeepsAttempts
      BY <1>0, <2>2 DEF KeepsAttempts, emitVars, queueVars, passVars, ackVars
    <3>2. QED
      BY <1>0, <3>1, KeepsRetryInv
  <2>3. QED
    BY <1>15, <2>1, <2>2 DEF FinalBegin
<1>16. CASE ProcessEnds
  <2>1. Buffered' = {} /\ InPass' = {}
    BY <1>16 DEF ProcessEnds, Generations, Drainers
  <2>2. /\ UNCHANGED <<attempts, retried, accepted>>
        /\ scheduled' = {} /\ sending' = {} /\ handback' = {}
    BY <1>16 DEF ProcessEnds, ackVars
  <2>3. KeepsAttempts
    BY <1>0, <2>1, <2>2 DEF KeepsAttempts
  <2>4. QED
    BY <1>0, <2>3, KeepsRetryInv
<1>17. QED
  BY <1>1, <1>2, <1>3, <1>4, <1>5, <1>6, <1>7, <1>9, <1>10, <1>11, <1>13, <1>14, <1>15, <1>16
     DEF Next, Requests, Emits, Flush, Drain, Shutdown

(* The acknowledged records that failed before. *)
Recoveries == {e \in acked : attempts[e] > 0}

(* A step that acknowledges nothing leaves them alone: it touches the attempt
   count of a record that is on its way into the queue only. *)
LEMMA AckedKeepTheirAttempts ==
    ASSUME TypeOK, PlaceInv, [Next]_vars,
           ~ \E g \in Generations, e \in Events : OnSuccess(g, e)
    PROVE  UNCHANGED <<recovered, Recoveries>>
<1>0. acked \subseteq Events
  BY DEF TypeOK
<1> USE DEF Quiet
<1>1. CASE UNCHANGED <<attempts, recovered, acked>>
  BY <1>1 DEF Recoveries
<1>2. ASSUME NEW e \in Events, e \notin acked, NEW a \in Nat, FailAndPark(e, a),
             UNCHANGED <<recovered, acked>>
      PROVE  UNCHANGED <<recovered, Recoveries>>
  BY <1>0, <1>2, FailAndParkAttempts DEF Recoveries
<1>3. CASE Requests \/ \E e \in Events : EmitStart(e) \/ EmitSendOk(e)
  BY <1>1, <1>3 DEF Requests, SpawnEmit, EmitInline, EmitStart, EmitBody, EmitSendOk, queueVars,
              ackVars
<1>4. ASSUME NEW e \in Events, EmitSendFail(e) PROVE UNCHANGED <<recovered, Recoveries>>
  BY <1>2, <1>4 DEF EmitSendFail, PlaceInv, Exclusive, ackVars
<1>5. ASSUME NEW e \in Events, OnError(e) PROVE UNCHANGED <<recovered, Recoveries>>
  <2>1. e \notin acked /\ attempts[e] + 1 \in Nat /\ UNCHANGED <<recovered, acked>>
    BY <1>5 DEF OnError, PlaceInv, Exclusive, TypeOK, ackVars
  <2>2. QED
    BY <1>1, <1>2, <1>5, <2>1 DEF OnError, queueVars
<1>6. CASE Flush
  BY <1>1, <1>6 DEF Flush, BatchFails, queueVars, ackVars
<1>7. ASSUME NEW p \in Drainers, NEW e \in Events, DrainSendFail(p, e)
      PROVE  UNCHANGED <<recovered, Recoveries>>
  <2>1. attempts[e] + 1 \in Nat /\ UNCHANGED <<recovered, acked>>
    BY <1>7 DEF DrainSendFail, FinishItem, TypeOK
  <2>2. e \notin acked
    BY <1>7 DEF DrainSendFail, FinishItem, Older, Drainers, PlaceInv, Exclusive
  <2>3. QED
    BY <1>2, <1>7, <2>1, <2>2 DEF DrainSendFail
<1>8. CASE \/ \E e \in Events : Ripen(e)
           \/ DrainBegin \/ DrainNoProducer \/ MaybeReinit
           \/ \E p \in Drainers, e \in Events : DrainSendOk(p, e)
  BY <1>1, <1>8 DEF Ripen, DrainBegin, TakeDue, DrainNoProducer, MaybeReinit, DrainSendOk,
                    FinishItem, queueVars, ackVars
<1>9. CASE Shutdown \/ ProcessEnds \/ UNCHANGED vars
  BY <1>1, <1>9 DEF Shutdown, BeginShutdown, CancelDrainer, FinalBegin, TakeDue, FinalEnd,
                    CloseProducer, ProcessEnds, vars, queueVars, ackVars
<1>10. QED
  BY <1>3, <1>4, <1>5, <1>6, <1>7, <1>8, <1>9 DEF Next, Emits, Drain

(* An acknowledgement adds its record exactly when it failed before. *)
LEMMA SuccessIsCounted ==
    ASSUME TypeOK, PlaceInv, RetryInv, RecoveredExact,
           NEW g \in Generations, NEW e \in Events, OnSuccess(g, e)
    PROVE  RecoveredExact'
<1>1. e \in Buffered /\ e \notin acked
  BY PlacesOfHeld DEF OnSuccess, Buffered, PlaceInv, Exclusive, Generations
<1>2. acked' = acked \cup {e} /\ attempts' = attempts
  BY DEF OnSuccess, queueVars
<1>3. IsFiniteSet(Recoveries) /\ e \notin Recoveries
  <2>1. Recoveries \subseteq Events
    BY DEF Recoveries, TypeOK
  <2>2. IsFiniteSet(Recoveries)
    BY <2>1, FS_Subset
  <2>3. QED
    BY <1>1, <2>2 DEF Recoveries
<1>4. recovered = Cardinality(Recoveries) /\ recovered \in Nat
  BY DEF RecoveredExact, Recoveries, TypeOK
<1>5. CASE attempts[e] > 0
  <2>1. Recoveries' = Recoveries \cup {e}
    BY <1>2, <1>5 DEF Recoveries
  <2>2. recovered' = recovered + 1
    BY <1>1, <1>5 DEF OnSuccess, RetryInv
  <2>3. Cardinality(Recoveries \cup {e}) = Cardinality(Recoveries) + 1
    BY <1>3, FS_AddElement
  <2>4. QED
    BY <1>4, <2>1, <2>2, <2>3 DEF RecoveredExact, Recoveries
<1>6. CASE ~(attempts[e] > 0)
  <2>1. Recoveries' = Recoveries
    BY <1>2, <1>6 DEF Recoveries
  <2>2. recovered' = recovered
    BY <1>6 DEF OnSuccess
  <2>3. QED
    BY <1>4, <2>1, <2>2 DEF RecoveredExact, Recoveries
<1>7. QED
  BY <1>5, <1>6

(* The hub's `recovered` counts the records that were acknowledged after a
   failure, each once, although _on_success does not look at a batch that
   arrives before the first retry. *)
THEOREM RecoveriesAreCounted == Spec => []RecoveredExact
<1>1. Init => RecoveredExact
  <2> SUFFICES ASSUME Init PROVE RecoveredExact
    OBVIOUS
  <2>1. {e \in acked : attempts[e] > 0} = {}
    BY DEF Init
  <2>2. QED
    BY <2>1, FS_EmptySet DEF Init, RecoveredExact
<1>2. TypeOK /\ PlaceInv /\ RetryInv /\ RecoveredExact /\ [Next]_vars => RecoveredExact'
  <2> SUFFICES ASSUME TypeOK, PlaceInv, RetryInv, RecoveredExact, [Next]_vars
               PROVE  RecoveredExact'
    OBVIOUS
  <2>1. CASE \E g \in Generations, e \in Events : OnSuccess(g, e)
    BY <2>1, SuccessIsCounted
  <2>2. CASE ~ \E g \in Generations, e \in Events : OnSuccess(g, e)
    BY <2>2, AckedKeepTheirAttempts DEF RecoveredExact, Recoveries
  <2>3. QED
    BY <2>1, <2>2
<1>3. QED
  BY <1>1, <1>2, TypeInit, TypeNext, PlaceInit, PlaceNext, RetryInit, RetryNext, PTL DEF Spec

-----------------------------------------------------------------------------
(* The refinement of UsageLedger.                                          *)

Serving == phase \in {"serving", "draining"}

(* _disabled is only set when no Event Hub is configured, so a record that
   emit drops without counting it is one of an unconfigured hub. *)
OnlyUnconfiguredIsDisabled == disabled => ~configured

LEMMA DisabledNext == OnlyUnconfiguredIsDisabled /\ [Next]_vars => OnlyUnconfiguredIsDisabled'
<1> SUFFICES ASSUME OnlyUnconfiguredIsDisabled, [Next]_vars PROVE OnlyUnconfiguredIsDisabled'
  OBVIOUS
<1> USE DEF Quiet, OnlyUnconfiguredIsDisabled
<1>1. ASSUME NEW ok, GetProducer(ok), UNCHANGED configured PROVE OnlyUnconfiguredIsDisabled'
  BY <1>1 DEF GetProducer, producerVars
<1>2. CASE UNCHANGED <<configured, disabled>> \/ (disabled' = FALSE /\ UNCHANGED configured)
  BY <1>2
<1>3. CASE Requests \/ Emits
  BY <1>1, <1>2, <1>3 DEF Requests, SpawnEmit, EmitInline, Emits, EmitStart, EmitBody, EmitSendOk,
                          EmitSendFail, producerVars
<1>4. CASE Flush \/ \E e \in Events : OnError(e)
  BY <1>2, <1>4 DEF Flush, OnSuccess, BatchFails, OnError, producerVars
<1>5. CASE Drain
  BY <1>1, <1>2, <1>5 DEF Drain, Ripen, DrainBegin, TakeDue, DrainNoProducer, MaybeReinit,
                          DrainSendOk, DrainSendFail, FinishItem, producerVars
<1>6. CASE Shutdown
  BY <1>1, <1>2, <1>6 DEF Shutdown, BeginShutdown, CancelDrainer, FinalBegin, TakeDue, FinalEnd,
                          CloseProducer, DetachProducer, producerVars
<1>7. CASE ProcessEnds \/ UNCHANGED vars
  BY <1>2, <1>7 DEF ProcessEnds, vars, producerVars
<1>8. QED
  BY <1>3, <1>4, <1>5, <1>6, <1>7 DEF Next

(* A step of the ledger, or none. *)
LedgerStep == [Ledger!Next]_<<~configured, Ledger!ledgerVars>>

(* What the ledger sees of a record's places. *)
LEMMA HeldPlaces ==
    /\ Held = scheduled \cup sending \cup buffer[1] \cup buffer[2] \cup handback \cup retryQ
                 \cup pass["loop"] \cup pass["final"]
    /\ Held' = scheduled' \cup sending' \cup buffer'[1] \cup buffer'[2] \cup handback'
                 \cup retryQ' \cup pass'["loop"] \cup pass'["final"]
  BY PlacesOfHeld DEF Held

(* The steps of the emitter, as the ledger names them. *)
LedgerStutters ==
    /\ UNCHANGED <<configured, acked, givenUp, lost>>
    /\ Held' = Held /\ Serving' = Serving

LEMMA StutterIsLedgerStep == LedgerStutters => LedgerStep
<1> SUFFICES ASSUME LedgerStutters PROVE LedgerStep
  OBVIOUS
<1>1. UNCHANGED <<~configured, Held, acked, givenUp, lost, phase \notin {"serving", "draining"}>>
  BY DEF LedgerStutters, Serving
<1>2. QED
  BY <1>1 DEF LedgerStep, Ledger!ledgerVars

(* Records are counted as lost. *)
LedgerWriteOff(S) ==
    /\ UNCHANGED <<configured, acked>>
    /\ S \subseteq Held /\ Held' = Held \ S
    /\ WriteOff(S) /\ Serving' = Serving

LEMMA WriteOffIsLedgerStep ==
    ASSUME NEW S \in SUBSET Events, LedgerWriteOff(S), lost \in Nat
    PROVE  LedgerStep
<1>1. /\ (~configured)' = ~configured
      /\ (phase \notin {"serving", "draining"})' = (phase \notin {"serving", "draining"})
  BY DEF LedgerWriteOff, Serving
<1>2. CASE S = {}
  <2>1. Held' = Held /\ givenUp' = givenUp /\ acked' = acked
    BY <1>2 DEF LedgerWriteOff, WriteOff
  <2>2. lost' = lost
    BY <1>2, FS_EmptySet DEF LedgerWriteOff, WriteOff
  <2>3. QED
    BY <1>1, <2>1, <2>2 DEF LedgerStep, Ledger!ledgerVars
<1>3. CASE S # {}
  <2>1. Ledger!Cardinality(S) = Cardinality(S)
    BY DEF Cardinality, Ledger!Cardinality
  <2>2. Ledger!WriteOff(S)
    BY <1>1, <1>3, <2>1 DEF LedgerWriteOff, WriteOff, Ledger!WriteOff
  <2>3. QED
    BY <1>1, <2>2 DEF LedgerStep, Ledger!Next
<1>4. QED
  BY <1>2, <1>3

(* The emitter is being taken down and forgets the records of S. *)
LedgerStop(S) ==
    /\ UNCHANGED <<configured, acked, givenUp, lost>>
    /\ S \subseteq Held /\ Held' = Held \ S
    /\ ~Serving'

LEMMA StopIsLedgerStep ==
    ASSUME NEW S \in SUBSET Events, LedgerStop(S)
    PROVE  LedgerStep
<1>1. /\ (~configured)' = ~configured
      /\ (phase \notin {"serving", "draining"})' = TRUE
  BY DEF LedgerStop, Serving
<1>2. Ledger!Stop(S)
  BY <1>1 DEF LedgerStop, Ledger!Stop
<1>3. QED
  BY <1>1, <1>2 DEF LedgerStep, Ledger!Next

(* Everything that is held outside the retry queue. *)
OutsideQueue == scheduled \cup sending \cup buffer[1] \cup buffer[2] \cup handback
                  \cup pass["loop"] \cup pass["final"]

LEMMA HeldOutsideQueue ==
    /\ Held = OutsideQueue \cup retryQ
    /\ Held' = OutsideQueue' \cup retryQ'
    /\ PlaceInv => OutsideQueue \cap (retryQ \cup acked \cup givenUp) = {}
  BY HeldPlaces DEF OutsideQueue, PlaceInv, Exclusive

(* A failed hand-off: the record is parked, or counted, or it pushes the
   oldest one out of the queue, which is counted. *)
LEMMA FailedHandOffIsLedgerStep ==
    ASSUME TypeOK, PlaceInv, NEW e \in Events, NEW a \in Nat, FailAndPark(e, a),
           e \in OutsideQueue, OutsideQueue' = OutsideQueue \ {e},
           UNCHANGED <<configured, acked, phase>>
    PROVE  LedgerStep
<1>0. Serving' = Serving /\ lost \in Nat
  BY DEF Serving, TypeOK
<1>1. CASE WriteOff({e}) /\ UNCHANGED queueVars
  <2>1. LedgerWriteOff({e})
    BY <1>0, <1>1, HeldOutsideQueue DEF LedgerWriteOff, queueVars
  <2>2. QED
    BY <1>0, <2>1, WriteOffIsLedgerStep
<1>2. CASE Enqueue(e, a, {}) /\ UNCHANGED <<lost, givenUp>>
  <2>1. LedgerStutters
    BY <1>0, <1>2, HeldOutsideQueue DEF LedgerStutters, Enqueue
  <2>2. QED
    BY <2>1, StutterIsLedgerStep
<1>3. ASSUME NEW old \in Older(retryQ), Enqueue(e, a, {old}), WriteOff({old})
      PROVE  LedgerStep
  <2>1. old \in retryQ /\ old \in Events /\ retryQ' = (retryQ \ {old}) \cup {e}
    BY <1>3 DEF Older, Enqueue, TypeOK
  <2>2. LedgerWriteOff({old})
    BY <1>0, <1>3, <2>1, HeldOutsideQueue DEF LedgerWriteOff
  <2>3. {old} \in SUBSET Events
    BY <2>1
  <2>4. QED
    BY <1>0, <2>2, <2>3, WriteOffIsLedgerStep
<1>4. QED
  BY <1>1, <1>2, <1>3 DEF FailAndPark

(* A request hands over a new record. *)
LEMMA AcceptIsLedgerStep ==
    ASSUME NEW e \in Events, Serving, e \notin Held \cup acked \cup givenUp,
           Held' = Held \cup {e}, UNCHANGED <<configured, acked, givenUp, lost, phase>>
    PROVE  LedgerStep
<1>1. (~configured)' = ~configured
  OBVIOUS
<1>2. Ledger!Accept(e)
  BY DEF Ledger!Accept, Serving
<1>3. QED
  BY <1>1, <1>2 DEF LedgerStep, Ledger!Next

LEMMA RefuseIsLedgerStep ==
    ASSUME NEW e \in Events, Serving, e \notin Held \cup acked \cup givenUp, lost \in Nat,
           Held' = Held, WriteOff({e}), UNCHANGED <<configured, acked, phase>>
    PROVE  LedgerStep
<1>1. (~configured)' = ~configured
  OBVIOUS
<1>2. lost' = lost + 1
  BY FS_Singleton DEF WriteOff
<1>3. Ledger!Refuse(e)
  BY <1>2 DEF Ledger!Refuse, Serving, WriteOff
<1>4. QED
  BY <1>1, <1>3 DEF LedgerStep, Ledger!Next

LEMMA IgnoreIsLedgerStep ==
    ASSUME NEW e \in Events, ~configured, Held' = Held \ {e},
           UNCHANGED <<configured, acked, givenUp, lost, phase>>
    PROVE  LedgerStep
<1>1. (~configured)' = ~configured
  OBVIOUS
<1>2. Ledger!Ignore(e)
  BY DEF Ledger!Ignore
<1>3. QED
  BY <1>1, <1>2 DEF LedgerStep, Ledger!Next

LEMMA SettleIsLedgerStep ==
    ASSUME NEW e \in Events, e \in Held, Held' = Held \ {e}, acked' = acked \cup {e},
           UNCHANGED <<configured, givenUp, lost, phase>>
    PROVE  LedgerStep
<1>1. (~configured)' = ~configured
  OBVIOUS
<1>2. Ledger!Settle(e)
  BY DEF Ledger!Settle
<1>3. QED
  BY <1>1, <1>2 DEF LedgerStep, Ledger!Next

(* emit drops a record without a trace only when no hub is configured. *)
LEMMA NoProducerUncounted ==
    ASSUME OnlyUnconfiguredIsDisabled, GetProducer(FALSE), ~initFailed'
    PROVE  ~configured
  BY DEF GetProducer, OnlyUnconfiguredIsDisabled, producerVars

(* The outcomes of emit for a record that is not with the SDK yet. *)
LEMMA EmitBodyOutcomes ==
    ASSUME OnlyUnconfiguredIsDisabled, NEW e \in Events, EmitBody(e)
    PROVE  /\ scheduled' = scheduled \ {e}
           /\ UNCHANGED <<buffer, handback, retryQ, pass, acked, phase>>
           /\ \/ sending' = sending /\ WriteOff({e})
              \/ sending' = sending /\ ~configured /\ UNCHANGED <<lost, givenUp>>
              \/ sending' = sending \cup {e} /\ UNCHANGED <<lost, givenUp>>
<1>1. CASE DropAndLose(e) /\ UNCHANGED sending
  BY <1>1 DEF EmitBody, DropAndLose, queueVars, passVars, ackVars
<1>2. CASE GetProducer(FALSE) /\ ~initFailed' /\ UNCHANGED <<sending, lossVars>>
  BY <1>2, NoProducerUncounted DEF EmitBody, queueVars, passVars, ackVars, lossVars
<1>3. CASE sending' = sending \cup {e} /\ UNCHANGED lossVars
  BY <1>3 DEF EmitBody, queueVars, passVars, ackVars, lossVars
<1>4. QED
  BY <1>1, <1>2, <1>3 DEF EmitBody

LEMMA LedgerNextHolds ==
    TypeOK /\ PlaceInv /\ OnlyUnconfiguredIsDisabled /\ [Next]_vars => LedgerStep
<1> SUFFICES ASSUME TypeOK, PlaceInv, OnlyUnconfiguredIsDisabled, [Next]_vars PROVE LedgerStep
  OBVIOUS
<1>0. lost \in Nat
  BY DEF TypeOK
<1> USE DEF Quiet
<1>1. ASSUME NEW e \in Events, e \notin accepted
      PROVE  e \notin Held \cup acked \cup givenUp
  BY <1>1, HeldPlaces DEF PlaceInv, Owned
<1>2. ASSUME NEW e \in Events, SpawnEmit(e) PROVE LedgerStep
  <2>1. e \notin Held \cup acked \cup givenUp /\ Serving /\ UNCHANGED <<configured, acked, phase>>
    BY <1>1, <1>2 DEF SpawnEmit, Serving, ackVars
  <2>2. CASE DropAndLose(e) /\ UNCHANGED scheduled
    <3>1. Held' = Held
      BY <1>2, <2>2, HeldPlaces DEF SpawnEmit, queueVars, passVars
    <3>2. QED
      BY <1>0, <2>1, <2>2, <3>1, RefuseIsLedgerStep DEF DropAndLose
  <2>3. CASE scheduled' = scheduled \cup {e} /\ UNCHANGED lossVars
    <3>1. Held' = Held \cup {e}
      BY <1>2, <2>3, HeldPlaces DEF SpawnEmit, queueVars, passVars
    <3>2. QED
      BY <2>1, <2>3, <3>1, AcceptIsLedgerStep DEF lossVars
  <2>4. QED
    BY <1>2, <2>2, <2>3 DEF SpawnEmit
<1>3. ASSUME NEW e \in Events, EmitInline(e) PROVE LedgerStep
  <2>1. /\ e \notin Held \cup acked \cup givenUp /\ Serving
        /\ UNCHANGED <<configured, acked, phase>>
        /\ scheduled' = scheduled \ {e}
        /\ UNCHANGED <<buffer, handback, retryQ, pass>>
    BY <1>1, <1>3, EmitBodyOutcomes DEF EmitInline, Serving
  <2>2. CASE sending' = sending
    <3>1. Held' = Held
      BY <2>1, <2>2, HeldPlaces
    <3>2. CASE WriteOff({e})
      BY <1>0, <2>1, <3>1, <3>2, RefuseIsLedgerStep
    <3>3. CASE UNCHANGED <<lost, givenUp>>
      <4>1. Serving' = Serving
        BY <2>1 DEF Serving
      <4>2. QED
        BY <2>1, <3>1, <3>3, <4>1, StutterIsLedgerStep DEF LedgerStutters
    <3>4. QED
      BY <1>3, <3>2, <3>3, EmitBodyOutcomes, <2>2 DEF EmitInline, EmitBody, DropAndLose, lossVars
  <2>3. CASE sending' = sending \cup {e} /\ UNCHANGED <<lost, givenUp>>
    <3>1. Held' = Held \cup {e}
      BY <2>1, <2>3, HeldPlaces
    <3>2. QED
      BY <2>1, <2>3, <3>1, AcceptIsLedgerStep
  <2>4. QED
    BY <1>3, <2>2, <2>3, EmitBodyOutcomes DEF EmitInline
<1>4. ASSUME NEW e \in Events, EmitStart(e) PROVE LedgerStep
  <2>1. /\ e \in scheduled /\ UNCHANGED <<configured, acked, phase>>
        /\ scheduled' = scheduled \ {e}
        /\ UNCHANGED <<buffer, handback, retryQ, pass>>
        /\ Serving' = Serving
    BY <1>4, EmitBodyOutcomes DEF EmitStart, Serving
  <2>2. e \in Held /\ e \notin sending \cup buffer[1] \cup buffer[2] \cup handback \cup retryQ
                             \cup pass["loop"] \cup pass["final"]
    BY <2>1, HeldPlaces DEF PlaceInv, Exclusive
  <2>3. CASE sending' = sending /\ WriteOff({e})
    <3>1. Held' = Held \ {e}
      BY <2>1, <2>2, <2>3, HeldPlaces
    <3>2. QED
      BY <1>0, <2>1, <2>2, <2>3, <3>1, WriteOffIsLedgerStep DEF LedgerWriteOff
  <2>4. CASE sending' = sending /\ ~configured /\ UNCHANGED <<lost, givenUp>>
    <3>1. Held' = Held \ {e}
      BY <2>1, <2>2, <2>4, HeldPlaces
    <3>2. QED
      BY <2>1, <2>4, <3>1, IgnoreIsLedgerStep
  <2>5. CASE sending' = sending \cup {e} /\ UNCHANGED <<lost, givenUp>>
    <3>1. Held' = Held
      BY <2>1, <2>5, HeldPlaces
    <3>2. QED
      BY <2>1, <2>5, <3>1, StutterIsLedgerStep DEF LedgerStutters
  <2>6. QED
    BY <1>4, <2>3, <2>4, <2>5, EmitBodyOutcomes DEF EmitStart
<1>5. ASSUME UNCHANGED <<configured, acked, givenUp, lost, phase>>, Held' = Held
      PROVE  LedgerStep
  BY <1>5, StutterIsLedgerStep DEF LedgerStutters, Serving
<1>6. ASSUME NEW e \in Events, EmitSendOk(e) PROVE LedgerStep
  <2>1. buffer'[1] = buffer[1] \cup {e} /\ buffer'[2] = buffer[2]
    BY <1>6 DEF EmitSendOk, TypeOK, Generations
  <2>2. Held' = Held
    BY <1>6, <2>1, HeldPlaces DEF EmitSendOk, queueVars, passVars
  <2>3. QED
    BY <1>5, <1>6, <2>2 DEF EmitSendOk, ackVars, lossVars
<1>7. ASSUME NEW e \in Events, EmitSendFail(e) PROVE LedgerStep
  <2>1. e \in OutsideQueue /\ OutsideQueue' = OutsideQueue \ {e}
    BY <1>7 DEF EmitSendFail, OutsideQueue, PlaceInv, Exclusive, passVars
  <2>2. FailAndPark(e, 1) /\ UNCHANGED <<configured, acked, phase>>
    BY <1>7 DEF EmitSendFail, ackVars
  <2>3. QED
    BY <2>1, <2>2, FailedHandOffIsLedgerStep
<1>8. ASSUME NEW g \in Generations, NEW e \in Events, OnSuccess(g, e) PROVE LedgerStep
  <2>1. /\ e \in buffer[1] \cup buffer[2]
        /\ g = 1 => e \in buffer[1] /\ buffer'[1] = buffer[1] \ {e} /\ buffer'[2] = buffer[2]
        /\ g = 2 => e \in buffer[2] /\ buffer'[2] = buffer[2] \ {e} /\ buffer'[1] = buffer[1]
    BY <1>8 DEF OnSuccess, TypeOK, Generations
  <2>2. e \in Held /\ Held' = Held \ {e}
    BY <1>8, <2>1, HeldPlaces
       DEF OnSuccess, PlaceInv, Exclusive, Generations, emitVars, queueVars, passVars
  <2>3. QED
    BY <1>8, <2>2, SettleIsLedgerStep DEF OnSuccess, lossVars
<1>9. ASSUME NEW g \in Generations, NEW batch \in SUBSET Events, BatchFails(g, batch)
      PROVE  LedgerStep
  <2>1. /\ g = 1 => /\ batch \subseteq buffer[1]
                    /\ buffer'[1] = buffer[1] \ batch /\ buffer'[2] = buffer[2]
        /\ g = 2 => /\ batch \subseteq buffer[2]
                    /\ buffer'[2] = buffer[2] \ batch /\ buffer'[1] = buffer[1]
    BY <1>9 DEF BatchFails, TypeOK, Generations
  <2>2. Held' = Held
    BY <1>9, <2>1, HeldPlaces DEF BatchFails, Generations, emitVars, queueVars, passVars
  <2>3. QED
    BY <1>5, <1>9, <2>2 DEF BatchFails, ackVars, lossVars
<1>10. ASSUME NEW e \in Events, OnError(e) PROVE LedgerStep
  <2>1. /\ e \in OutsideQueue /\ OutsideQueue' = OutsideQueue \ {e}
        /\ UNCHANGED <<configured, acked, phase>>
    BY <1>10 DEF OnError, OutsideQueue, PlaceInv, Exclusive, emitVars, passVars, ackVars
  <2>2. CASE DropAndLose(e) /\ UNCHANGED queueVars
    <3>1. e \in Held /\ Held' = Held \ {e} /\ Serving' = Serving
      BY <2>1, <2>2, HeldOutsideQueue DEF queueVars, Serving
    <3>2. QED
      BY <1>0, <2>1, <2>2, <3>1, WriteOffIsLedgerStep DEF DropAndLose, LedgerWriteOff
  <2>3. CASE FailAndPark(e, attempts[e] + 1)
    <3>1. attempts[e] + 1 \in Nat
      BY DEF TypeOK
    <3>2. QED
      BY <2>1, <2>3, <3>1, FailedHandOffIsLedgerStep
  <2>4. QED
    BY <1>10, <2>2, <2>3 DEF OnError
<1>11. CASE \/ \E e \in Events : Ripen(e)
            \/ DrainNoProducer \/ MaybeReinit \/ UNCHANGED vars
  <2>1. UNCHANGED <<configured, acked, givenUp, lost, phase, emitVars, buffer, handback, retryQ,
                    pass>>
    BY <1>11 DEF Ripen, DrainNoProducer, MaybeReinit, vars, queueVars, passVars, lossVars, ackVars
  <2>2. Held' = Held
    BY <2>1, HeldPlaces DEF emitVars
  <2>3. QED
    BY <1>5, <2>1, <2>2
<1>12. CASE BeginShutdown
  <2>1. UNCHANGED <<configured, acked, givenUp, lost, emitVars, buffer, handback, retryQ, pass>>
    BY <1>12 DEF BeginShutdown, queueVars, passVars, lossVars, ackVars
  <2>2. Held' = Held /\ Serving' = Serving
    BY <1>12, <2>1, HeldPlaces DEF BeginShutdown, Serving, emitVars
  <2>3. QED
    BY <2>1, <2>2, StutterIsLedgerStep DEF LedgerStutters
<1>13. ASSUME NEW p \in Drainers, TakeDue(p) PROVE Held' = Held
  <2>1. /\ p = "loop" => /\ pass["loop"] = {}
                         /\ pass'["loop"] = retryQ \cap ripe
                         /\ pass'["final"] = pass["final"]
        /\ p = "final" => /\ pass["final"] = {}
                          /\ pass'["final"] = retryQ \cap ripe
                          /\ pass'["loop"] = pass["loop"]
    BY <1>13 DEF TakeDue, TypeOK, Drainers
  <2>2. QED
    BY <1>13, <2>1, HeldPlaces DEF TakeDue, Drainers, emitVars
<1>14. CASE DrainBegin
  BY <1>5, <1>13, <1>14 DEF DrainBegin, TakeDue, Drainers, lossVars
<1>15. ASSUME NEW p \in Drainers, NEW e \in Events, FinishItem(p, e)
       PROVE  /\ p = "loop" => /\ e \in pass["loop"]
                               /\ pass'["loop"] = pass["loop"] \ {e}
                               /\ pass'["final"] = pass["final"]
              /\ p = "final" => /\ e \in pass["final"]
                                /\ pass'["final"] = pass["final"] \ {e}
                                /\ pass'["loop"] = pass["loop"]
  BY <1>15 DEF FinishItem, Older, TypeOK, Drainers
<1>16. ASSUME NEW p \in Drainers, NEW e \in Events, DrainSendOk(p, e) PROVE LedgerStep
  <2>1. \/ buffer'[1] = buffer[1] \cup {e} /\ buffer'[2] = buffer[2]
        \/ buffer'[2] = buffer[2] \cup {e} /\ buffer'[1] = buffer[1]
    BY <1>16 DEF DrainSendOk, TypeOK, Generations
  <2>2. /\ scheduled' = scheduled /\ sending' = sending /\ handback' = handback
        /\ retryQ' = retryQ
        /\ UNCHANGED <<configured, acked, givenUp, lost, phase>>
    BY <1>16 DEF DrainSendOk, FinishItem, emitVars, queueVars, lossVars
  <2>3. Held' = Held
    <3>1. CASE p = "loop"
      BY <1>15, <1>16, <2>1, <2>2, <3>1, HeldPlaces DEF DrainSendOk
    <3>2. CASE p = "final"
      BY <1>15, <1>16, <2>1, <2>2, <3>2, HeldPlaces DEF DrainSendOk
    <3>3. QED
      BY <3>1, <3>2 DEF Drainers
  <2>4. QED
    BY <1>5, <2>2, <2>3
<1>17. ASSUME NEW p \in Drainers, NEW e \in Events, DrainSendFail(p, e) PROVE LedgerStep
  <2>1. attempts[e] + 1 \in Nat
    BY DEF TypeOK
  <2>2. /\ scheduled' = scheduled /\ sending' = sending /\ handback' = handback
        /\ buffer' = buffer
        /\ UNCHANGED <<configured, acked, phase>>
        /\ FinishItem(p, e) /\ FailAndPark(e, attempts[e] + 1)
    BY <1>17 DEF DrainSendFail, FinishItem, emitVars
  <2>3. e \in OutsideQueue /\ OutsideQueue' = OutsideQueue \ {e}
    <3>1. CASE p = "loop"
      BY <1>15, <2>2, <3>1 DEF OutsideQueue, PlaceInv, Exclusive
    <3>2. CASE p = "final"
      BY <1>15, <2>2, <3>2 DEF OutsideQueue, PlaceInv, Exclusive
    <3>3. QED
      BY <3>1, <3>2 DEF Drainers
  <2>4. QED
    BY <2>1, <2>2, <2>3, FailedHandOffIsLedgerStep
<1>18. ASSUME NEW p \in Drainers, CutPass(p),
              UNCHANGED <<configured, emitVars, handback, retryQ, lossVars, ackVars>>, ~Serving'
       PROVE  LedgerStep
  <2> DEFINE Gone == Held \ Held'
  <2>1. /\ p = "loop" => pass'["loop"] = {} /\ pass'["final"] = pass["final"]
        /\ p = "final" => pass'["final"] = {} /\ pass'["loop"] = pass["loop"]
    BY <1>18 DEF CutPass, TypeOK, Drainers
  <2>2. \E in \in SUBSET pass[p] :
           \/ buffer'[1] = buffer[1] \cup in /\ buffer'[2] = buffer[2]
           \/ buffer'[2] = buffer[2] \cup in /\ buffer'[1] = buffer[1]
    <3>1. CASE UNCHANGED buffer
      <4>1. {} \in SUBSET pass[p] /\ buffer'[1] = buffer[1] \cup {} /\ buffer'[2] = buffer[2]
        BY <3>1
      <4>2. QED
        BY <4>1
    <3>2. ASSUME NEW e \in Older(pass[p]), buffer' = [buffer EXCEPT ![via[p]] = @ \cup {e}]
          PROVE  /\ {e} \in SUBSET pass[p]
                 /\ \/ buffer'[1] = buffer[1] \cup {e} /\ buffer'[2] = buffer[2]
                    \/ buffer'[2] = buffer[2] \cup {e} /\ buffer'[1] = buffer[1]
      BY <3>2 DEF TypeOK, Generations, Older
    <3>3. QED
      BY <1>18, <3>1, <3>2 DEF CutPass
  <2>3. scheduled' = scheduled /\ sending' = sending /\ handback' = handback /\ retryQ' = retryQ
    BY <1>18 DEF emitVars
  <2>4. Held' \subseteq Held
    <3>1. CASE p = "loop"
      BY <2>1, <2>2, <2>3, <3>1, HeldPlaces
    <3>2. CASE p = "final"
      BY <2>1, <2>2, <2>3, <3>2, HeldPlaces
    <3>3. QED
      BY <3>1, <3>2 DEF Drainers
  <2>5. Held \subseteq Events
    BY HeldPlaces DEF TypeOK, Generations, Drainers
  <2>6. PICK S \in SUBSET Events : S = Held \ Held'
    BY <2>5
  <2>7. LedgerStop(S)
    BY <1>18, <2>4, <2>6 DEF LedgerStop, lossVars, ackVars
  <2>8. QED
    BY <2>7, StopIsLedgerStep
<1>19. CASE CancelDrainer
  <2>1. ~Serving'
    BY <1>19 DEF CancelDrainer, Serving
  <2>2. QED
    BY <1>18, <1>19, <2>1 DEF CancelDrainer, Drainers
<1>20. CASE FinalEnd
  <2>1. ~Serving'
    BY <1>20 DEF FinalEnd, Serving
  <2>2. QED
    BY <1>18, <1>20, <2>1 DEF FinalEnd, Drainers, queueVars
<1>21. CASE FinalBegin
  <2>1. Serving' = Serving /\ UNCHANGED <<configured, acked, givenUp, lost>>
    <3>1. Serving' = Serving /\ UNCHANGED configured
      BY <1>21 DEF FinalBegin, Serving
    <3>2. UNCHANGED <<acked, givenUp, lost>>
      BY <1>21 DEF FinalBegin, TakeDue, ackVars, lossVars
    <3>3. QED
      BY <3>1, <3>2
  <2>2. Held' = Held
    <3>1. CASE TakeDue("final")
      BY <1>13, <3>1 DEF Drainers
    <3>2. CASE UNCHANGED <<emitVars, buffer, handback, queueVars, passVars>>
      BY <3>2, HeldPlaces DEF emitVars, queueVars, passVars
    <3>3. QED
      BY <1>21, <3>1, <3>2 DEF FinalBegin
  <2>3. QED
    BY <2>1, <2>2, StutterIsLedgerStep DEF LedgerStutters
<1>22. CASE CloseProducer
  <2>1. OutsideQueue' = OutsideQueue
    BY <1>22 DEF CloseProducer, OutsideQueue, emitVars, passVars
  <2>2. retryQ \in SUBSET Events /\ Serving' = Serving
    BY <1>22 DEF CloseProducer, Serving, TypeOK
  <2>3. LedgerWriteOff(retryQ)
    BY <1>22, <2>1, <2>2, HeldOutsideQueue DEF CloseProducer, LedgerWriteOff, ackVars
  <2>4. QED
    BY <1>0, <2>2, <2>3, WriteOffIsLedgerStep
<1>23. CASE ProcessEnds
  <2>1. Held' = {}
    BY <1>23, HeldPlaces DEF ProcessEnds, Generations, Drainers
  <2>2. Held \in SUBSET Events
    BY HeldPlaces DEF TypeOK, Generations, Drainers
  <2>3. LedgerStop(Held)
    BY <1>23, <2>1 DEF ProcessEnds, LedgerStop, Serving, lossVars, ackVars
  <2>4. QED
    BY <2>2, <2>3, StopIsLedgerStep
<1>24. QED
  BY <1>2, <1>3, <1>4, <1>6, <1>7, <1>8, <1>9, <1>10, <1>11, <1>12, <1>14, <1>16, <1>17, <1>19,
     <1>20, <1>21, <1>22, <1>23
  DEF Next, Requests, Emits, Flush, Drain, Shutdown

(* The emitter implements the ledger: until aclose takes it down, no record of
   a configured hub leaves it but acknowledged or counted as lost, and no
   record is counted twice or after it was acknowledged. *)
THEOREM EmitterImplementsLedger == Spec => LedgerSpec
<1>1. Init => Ledger!Init
  BY HeldPlaces DEF Init, Ledger!Init, Generations, Drainers
<1>2. Init => OnlyUnconfiguredIsDisabled
  BY DEF Init, OnlyUnconfiguredIsDisabled
<1>3. QED
  BY <1>1, <1>2, DisabledNext, LedgerNextHolds, TypeInit, TypeNext, PlaceInit, PlaceNext, PTL
  DEF Spec, LedgerSpec, Ledger!Spec, LedgerStep
=============================================================================
