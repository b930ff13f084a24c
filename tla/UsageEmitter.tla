---------------------------- MODULE UsageEmitter ----------------------------
(***************************************************************************)
(* The usage-record emitter of one hub process: hub/eventhub.py with its   *)
(* callers in hub/server.py (_spawn_emit, _emit_usage, drain_emits and the *)
(* shutdown handler).                                                      *)
(*                                                                         *)
(* Everything runs on one asyncio loop, so an action is the code between   *)
(* two suspension points.  The points are: a task that was created and has *)
(* not run yet, an emit waiting in producer.send_event, the retry drainer  *)
(* waiting in producer.send_event, and the steps of aclose.  The azure SDK *)
(* (buffer, flush, callbacks) is external: it may accept or refuse a       *)
(* hand-off, and acknowledge or hand back what it accepted.                *)
(*                                                                         *)
(* A usage record is an element of Events.  It is in at most one of the    *)
(* places listed by Held, or it is acknowledged, or it is counted as lost, *)
(* or it has silently disappeared: telling these apart is the module's     *)
(* purpose.                                                                *)
(***************************************************************************)
EXTENDS Integers, FiniteSets

CONSTANTS
    Events,       \* the usage records of the requests this process serves
    MaxAttempts,  \* eventhub_retry_max_attempts
    QueueCap,     \* eventhub_retry_max_queue
    MaxPending    \* _MAX_PENDING_EMITS

ASSUME EmitterAssumption ==
    /\ IsFiniteSet(Events)
    /\ MaxAttempts \in Nat
    /\ QueueCap \in Nat
    /\ MaxPending \in Nat

VARIABLES
    configured,  \* eventhub_enabled: TF_EVENTHUB_FQDN and _NAME are set
    accepted,    \* records a request handler handed over
    pending,     \* _PENDING_EMITS: emit tasks that are not done
    scheduled,   \* the emit tasks that have not run yet
    sending,     \* emits waiting in producer.send_event
    buffer,      \* per producer generation: accepted by the SDK, not acknowledged
    handback,    \* the part of a failed batch _on_error still has to go through
    retryQ,      \* _retry_q
    parkedAt,    \* order of arrival in _retry_q
    ripe,        \* parked events whose next_at has passed
    attempts,    \* _Pending.attempts, or the tf-attempt property of the event
    pass,        \* per drain pass: items of `due` not finished, first one in flight
    via,         \* per drain pass: the producer it fetched
    drainer,     \* _drainer is a live task
    producer,    \* _producer: 0 is None, else its generation
    disabled,    \* _disabled
    initFailed,  \* _init_failed
    dropped,     \* the five _failed_* counters, summed as dropped_count does
    lost,        \* _lost
    givenUp,     \* the records _lost was incremented for
    retried,     \* _retried
    recovered,   \* _recovered
    acked,       \* records the broker acknowledged
    phase        \* how far the process has come in its shutdown

emitVars == <<accepted, pending, scheduled, sending>>
queueVars == <<retryQ, parkedAt, ripe, attempts, drainer>>
passVars == <<pass, via>>
producerVars == <<producer, disabled, initFailed>>
lossVars == <<dropped, lost, givenUp>>
ackVars == <<retried, recovered, acked>>
vars == <<configured, emitVars, buffer, handback, queueVars, passVars, producerVars,
          lossVars, ackVars, phase>>

-----------------------------------------------------------------------------
(* The drain loop and the last pass of aclose both run _drain_once. *)
Drainers == {"loop", "final"}

(* The producer emit builds, and the one built after aclose let go of it. *)
Generations == {1, 2}

Phases == {"serving", "draining", "final", "finalPass", "flushing", "closed", "exited"}

Cap == IF QueueCap > 1 THEN QueueCap ELSE 1

Buffered == UNION {buffer[g] : g \in Generations}

InPass == UNION {pass[p] : p \in Drainers}

Held == scheduled \cup sending \cup Buffered \cup handback \cup retryQ \cup InPass

Older(S) == {e \in S : \A f \in S : parkedAt[e] <= parkedAt[f]}

Init ==
    /\ configured \in BOOLEAN
    /\ accepted = {} /\ pending = {} /\ scheduled = {} /\ sending = {}
    /\ buffer = [g \in Generations |-> {}]
    /\ handback = {}
    /\ retryQ = {} /\ ripe = {} /\ drainer = FALSE
    /\ parkedAt = [e \in Events |-> 0]
    /\ attempts = [e \in Events |-> 0]
    /\ pass = [p \in Drainers |-> {}]
    /\ via = [p \in Drainers |-> 1]
    /\ producer = 0 /\ disabled = FALSE /\ initFailed = FALSE
    /\ dropped = 0 /\ lost = 0 /\ givenUp = {}
    /\ retried = 0 /\ recovered = 0 /\ acked = {}
    /\ phase = "serving"

-----------------------------------------------------------------------------
(* Helpers that take a step of the code inside an action.                  *)

(* _on_error does not await: nothing else runs while it is in its loop. *)
Quiet == handback = {} /\ UNCHANGED configured

(* `_lost += 1` for every record of S. *)
WriteOff(S) ==
    /\ lost' = lost + Cardinality(S)
    /\ givenUp' = givenUp \cup S

(* A hand-off failed and the record goes with it. *)
DropAndLose(e) ==
    /\ dropped' = dropped + 1
    /\ WriteOff({e})

(* _get_producer: ok tells whether the caller gets a producer.  There is no
   await in it, so it is part of the caller's step. *)
GetProducer(ok) ==
    \/ /\ producer # 0
       /\ ok /\ UNCHANGED producerVars
    \/ /\ producer = 0 /\ (disabled \/ initFailed)
       /\ ~ok /\ UNCHANGED producerVars
    \/ /\ producer = 0 /\ ~disabled /\ ~initFailed /\ ~configured
       /\ ~ok /\ disabled' = TRUE /\ UNCHANGED <<producer, initFailed>>
    \/ /\ producer = 0 /\ ~disabled /\ ~initFailed /\ configured
       /\ \/ /\ ok
             /\ producer' = IF phase \in {"serving", "draining"} THEN 1 ELSE 2
             /\ UNCHANGED initFailed
          \/ /\ ~ok
             /\ initFailed' = TRUE
             /\ UNCHANGED producer
       /\ UNCHANGED disabled

(* Adds e to the queue; the ones in `out` leave it. *)
Enqueue(e, a, out) ==
    /\ attempts' = [attempts EXCEPT ![e] = a]
    /\ parkedAt' = [parkedAt EXCEPT ![e] = dropped']
    /\ retryQ' = (retryQ \ out) \cup {e}
    /\ ripe' = ripe \ ({e} \cup out)

(* Mutants of FailAndPark: one attempt too many, ... *)
ParkOnceMore(e, a) ==
    /\ dropped' = dropped + 1
    /\ IF a > MaxAttempts + 1
       THEN WriteOff({e}) /\ UNCHANGED queueVars
       ELSE Enqueue(e, a, {}) /\ drainer' = TRUE /\ UNCHANGED <<lost, givenUp>>

(* ... giving up does not return, ... *)
GiveUpAndPark(e, a) ==
    /\ dropped' = dropped + 1
    /\ drainer' = TRUE
    /\ IF a > MaxAttempts
       THEN WriteOff({e}) /\ Enqueue(e, MaxAttempts, {})
       ELSE Enqueue(e, a, {}) /\ UNCHANGED <<lost, givenUp>>

(* ... and _ensure_drainer is not called. *)
ParkUndrained(e, a) ==
    /\ dropped' = dropped + 1
    /\ IF a > MaxAttempts
       THEN WriteOff({e}) /\ UNCHANGED queueVars
       ELSE Enqueue(e, a, {}) /\ UNCHANGED <<drainer, lost, givenUp>>

(* A failed hand-off followed by _requeue(e, a).  The while loop of _requeue
   evicts at most one event because the queue never exceeds Cap. *)
FailAndPark(e, a) ==
    /\ dropped' = dropped + 1
    /\ \/ /\ a > MaxAttempts
          /\ WriteOff({e})
          /\ UNCHANGED queueVars
       \/ /\ a <= MaxAttempts /\ Cardinality(retryQ) < Cap
          /\ Enqueue(e, a, {})
          /\ drainer' = TRUE
          /\ UNCHANGED <<lost, givenUp>>
       \/ /\ a <= MaxAttempts /\ Cardinality(retryQ) >= Cap
          /\ \E old \in Older(retryQ) : Enqueue(e, a, {old}) /\ WriteOff({old})
          /\ drainer' = TRUE

-----------------------------------------------------------------------------
(* Request handlers and emit tasks.                                        *)

(* _spawn_emit, from the finally of a streamed response. *)
SpawnEmit(e) ==
    /\ Quiet
    /\ phase = "serving"
    /\ e \notin accepted
    /\ accepted' = accepted \cup {e}
    /\ \/ /\ DropAndLose(e)       \* too many in flight, or scheduling raised
          /\ UNCHANGED <<pending, scheduled>>
       \/ /\ Cardinality(pending) < MaxPending
          /\ pending' = pending \cup {e}
          /\ scheduled' = scheduled \cup {e}
          /\ UNCHANGED lossVars
    /\ UNCHANGED <<sending, buffer, handback, queueVars, passVars, producerVars, ackVars, phase>>

(* emit up to its send_event: serialize, fetch the producer, hand over. *)
EmitBody(e) ==
    /\ \/ /\ DropAndLose(e)                       \* json.dumps raised
          /\ pending' = pending \ {e}
          /\ UNCHANGED <<sending, producerVars>>
       \/ /\ GetProducer(FALSE)
          /\ pending' = pending \ {e}
          /\ IF initFailed' THEN DropAndLose(e) ELSE UNCHANGED lossVars
          /\ UNCHANGED sending
       \/ /\ GetProducer(TRUE)
          /\ sending' = sending \cup {e}
          /\ UNCHANGED <<pending, lossVars>>
    /\ scheduled' = scheduled \ {e}
    /\ UNCHANGED <<buffer, handback, queueVars, passVars, ackVars, phase>>

(* A scheduled emit task gets to run. *)
EmitStart(e) ==
    /\ Quiet
    /\ e \in scheduled
    /\ EmitBody(e)
    /\ UNCHANGED accepted

(* _emit_usage: a non-streaming handler awaits emit itself. *)
EmitInline(e) ==
    /\ Quiet
    /\ phase = "serving"
    /\ e \notin accepted
    /\ accepted' = accepted \cup {e}
    /\ EmitBody(e)

(* send_event took the event into the SDK's buffer. *)
EmitSendOk(e) ==
    /\ Quiet
    /\ e \in sending
    /\ sending' = sending \ {e}
    /\ pending' = pending \ {e}
    /\ buffer' = [buffer EXCEPT ![1] = @ \cup {e}]
    /\ UNCHANGED <<accepted, scheduled, handback, queueVars, passVars, producerVars,
                   lossVars, ackVars, phase>>

(* Mutants of EmitSendFail: the record is only logged, ... *)
EmitSendForget(e) ==
    /\ Quiet
    /\ e \in sending
    /\ sending' = sending \ {e}
    /\ pending' = pending \ {e}
    /\ dropped' = dropped + 1
    /\ UNCHANGED <<accepted, scheduled, buffer, handback, queueVars, passVars, producerVars,
                   lost, givenUp, ackVars, phase>>

(* ... and the finished task is never discarded from _PENDING_EMITS. *)
EmitSendStuck(e) ==
    /\ Quiet
    /\ e \in sending
    /\ sending' = sending \ {e}
    /\ FailAndPark(e, 1)
    /\ UNCHANGED <<accepted, pending, scheduled, buffer, handback, passVars, producerVars,
                   ackVars, phase>>

(* send_event raised or timed out: the record is parked with attempt 1. *)
EmitSendFail(e) ==
    /\ Quiet
    /\ e \in sending
    /\ sending' = sending \ {e}
    /\ pending' = pending \ {e}
    /\ FailAndPark(e, 1)
    /\ UNCHANGED <<accepted, scheduled, buffer, handback, passVars, producerVars, ackVars, phase>>

-----------------------------------------------------------------------------
(* The SDK's flush task and its callbacks.                                 *)

(* Mutant of OnSuccess: first attempts are counted as recoveries. *)
OnSuccessCountAll(g, e) ==
    /\ Quiet
    /\ e \in buffer[g]
    /\ buffer' = [buffer EXCEPT ![g] = @ \ {e}]
    /\ acked' = acked \cup {e}
    /\ recovered' = IF retried > 0 THEN recovered + 1 ELSE recovered
    /\ UNCHANGED <<emitVars, handback, queueVars, passVars, producerVars, lossVars, retried, phase>>

(* _on_success for an acknowledged event. *)
OnSuccess(g, e) ==
    /\ Quiet
    /\ e \in buffer[g]
    /\ buffer' = [buffer EXCEPT ![g] = @ \ {e}]
    /\ acked' = acked \cup {e}
    /\ recovered' = IF retried > 0 /\ attempts[e] > 0 THEN recovered + 1 ELSE recovered
    /\ UNCHANGED <<emitVars, handback, queueVars, passVars, producerVars, lossVars, retried, phase>>

(* The SDK gives up on a batch and calls _on_error with it. *)
BatchFails(g, batch) ==
    /\ Quiet
    /\ batch # {}
    /\ batch \subseteq buffer[g]
    /\ buffer' = [buffer EXCEPT ![g] = @ \ batch]
    /\ handback' = batch
    /\ UNCHANGED <<emitVars, queueVars, passVars, producerVars, lossVars, ackVars, phase>>

(* One round of the loop of _on_error. *)
OnError(e) ==
    /\ e \in handback
    /\ handback' = handback \ {e}
    /\ UNCHANGED configured
    /\ \/ /\ DropAndLose(e)                       \* its body is unreadable
          /\ UNCHANGED queueVars
       \/ FailAndPark(e, attempts[e] + 1)
    /\ UNCHANGED <<emitVars, buffer, passVars, producerVars, ackVars, phase>>

-----------------------------------------------------------------------------
(* The retry drainer.                                                      *)

(* The backoff of a parked event is over. *)
Ripen(e) ==
    /\ Quiet
    /\ e \in retryQ \ ripe
    /\ ripe' = ripe \cup {e}
    /\ UNCHANGED <<emitVars, buffer, handback, retryQ, parkedAt, attempts, drainer, passVars,
                   producerVars, lossVars, ackVars, phase>>

(* Mutant of TakeDue: the queue is not cleared after the snapshot. *)
TakeDueKeeping(p) ==
    /\ pass[p] = {}
    /\ retryQ # {}
    /\ GetProducer(TRUE)
    /\ via' = [via EXCEPT ![p] = producer']
    /\ pass' = [pass EXCEPT ![p] = retryQ \cap ripe]
    /\ retried' = IF retryQ \cap ripe # {} THEN retried + 1 ELSE retried
    /\ UNCHANGED <<emitVars, buffer, handback, queueVars, lossVars, recovered, acked>>

(* _drain_once up to its first send_event: the snapshot of the queue is
   split into the due items, now local to the pass, and the others. *)
TakeDue(p) ==
    /\ pass[p] = {}
    /\ retryQ # {}
    /\ GetProducer(TRUE)
    /\ via' = [via EXCEPT ![p] = producer']
    /\ pass' = [pass EXCEPT ![p] = retryQ \cap ripe]
    /\ retryQ' = retryQ \ ripe
    /\ ripe' = {}
    /\ retried' = IF retryQ \cap ripe # {} THEN retried + 1 ELSE retried
    /\ UNCHANGED <<emitVars, buffer, handback, parkedAt, attempts, drainer, lossVars,
                   recovered, acked>>

(* _drain_loop starts a pass. *)
DrainBegin ==
    /\ Quiet
    /\ drainer
    /\ TakeDue("loop")
    /\ UNCHANGED phase

(* _drain_loop when the producer cannot be built: the items stay queued. *)
DrainNoProducer ==
    /\ Quiet
    /\ drainer /\ pass["loop"] = {} /\ retryQ # {}
    /\ GetProducer(FALSE)
    /\ UNCHANGED <<emitVars, buffer, handback, queueVars, passVars, lossVars, ackVars, phase>>

(* _maybe_reinit when the build succeeds; when it fails nothing changes. *)
MaybeReinit ==
    /\ Quiet
    /\ drainer /\ pass["loop"] = {}
    /\ initFailed /\ retryQ # {}
    /\ initFailed' = FALSE
    /\ producer' = IF phase \in {"serving", "draining"} THEN 1 ELSE 2
    /\ UNCHANGED <<emitVars, buffer, handback, queueVars, passVars, disabled, lossVars,
                   ackVars, phase>>

(* The next item of the pass is handed over as soon as e is finished. *)
FinishItem(p, e) ==
    /\ e \in Older(pass[p])
    /\ pass' = [pass EXCEPT ![p] = @ \ {e}]
    /\ retried' = IF pass[p] # {e} THEN retried + 1 ELSE retried
    /\ UNCHANGED <<via, emitVars, handback, producerVars, recovered, acked, phase>>

(* send_event took the event; a closed producer does not. *)
DrainSendOk(p, e) ==
    /\ Quiet
    /\ FinishItem(p, e)
    /\ ~(via[p] = 1 /\ phase = "closed")
    /\ buffer' = [buffer EXCEPT ![via[p]] = @ \cup {e}]
    /\ UNCHANGED <<queueVars, lossVars>>

(* send_event raised or timed out. *)
DrainSendFail(p, e) ==
    /\ Quiet
    /\ FinishItem(p, e)
    /\ FailAndPark(e, attempts[e] + 1)
    /\ UNCHANGED buffer

-----------------------------------------------------------------------------
(* Shutdown: server._shutdown and aclose.                                  *)

(* The server runs its shutdown handler: no request is in flight any more,
   emit tasks of streamed responses may be. *)
BeginShutdown ==
    /\ Quiet
    /\ phase = "serving"
    /\ sending \subseteq pending
    /\ phase' = "draining"
    /\ UNCHANGED <<emitVars, buffer, handback, queueVars, passVars, producerVars, lossVars, ackVars>>

(* A pass is cancelled inside send_event: the SDK has the item in flight or
   not, the rest of the local list is gone. *)
CutPass(p) ==
    /\ pass' = [pass EXCEPT ![p] = {}]
    /\ \/ UNCHANGED buffer
       \/ \E e \in Older(pass[p]) : buffer' = [buffer EXCEPT ![via[p]] = @ \cup {e}]

(* aclose lets go of the producer and resets the two flags. *)
DetachProducer ==
    /\ producer' = 0
    /\ disabled' = FALSE
    /\ initFailed' = FALSE

(* drain_emits has returned; aclose cancels the drainer, then schedules its
   own pass over the queue, all of it due, or goes straight to close(). *)
CancelDrainer ==
    /\ Quiet
    /\ phase = "draining"
    /\ pending = {}
    /\ drainer' = FALSE
    /\ CutPass("loop")
    /\ IF producer # 0 /\ retryQ # {}
       THEN /\ phase' = "final"
            /\ ripe' = retryQ
            /\ UNCHANGED producerVars
       ELSE /\ phase' = "flushing"
            /\ DetachProducer
            /\ UNCHANGED ripe
    /\ UNCHANGED <<emitVars, handback, retryQ, parkedAt, attempts, via, lossVars, ackVars>>

(* The pass of aclose starts; a drainer that _requeue revived in between may
   have emptied the queue. *)
FinalBegin ==
    /\ Quiet
    /\ phase = "final"
    /\ phase' = "finalPass"
    /\ \/ TakeDue("final")
       \/ /\ retryQ = {}
          /\ UNCHANGED <<emitVars, buffer, handback, queueVars, passVars, producerVars,
                         lossVars, ackVars>>

(* The pass ends, or its five seconds are over and wait_for cancels it. *)
FinalEnd ==
    /\ Quiet
    /\ phase = "finalPass"
    /\ CutPass("final")
    /\ phase' = "flushing"
    /\ DetachProducer
    /\ UNCHANGED <<emitVars, handback, queueVars, via, lossVars, ackVars>>

(* close() has flushed the first producer's buffer: what is left in the
   queue is counted. *)
CloseProducer ==
    /\ Quiet
    /\ phase = "flushing"
    /\ buffer[1] = {}
    /\ phase' = "closed"
    /\ WriteOff(retryQ)
    /\ retryQ' = {} /\ ripe' = {}
    /\ UNCHANGED <<emitVars, buffer, handback, parkedAt, attempts, drainer, passVars,
                   producerVars, dropped, ackVars>>

(* The process ends, after aclose or by a kill: its memory is gone. *)
ProcessEnds ==
    /\ Quiet
    /\ phase # "exited"
    /\ phase' = "exited"
    /\ pending' = {} /\ scheduled' = {} /\ sending' = {} /\ handback' = {}
    /\ buffer' = [g \in Generations |-> {}]
    /\ pass' = [p \in Drainers |-> {}]
    /\ retryQ' = {} /\ ripe' = {} /\ drainer' = FALSE
    /\ UNCHANGED <<accepted, parkedAt, attempts, via, producerVars, lossVars, ackVars>>

-----------------------------------------------------------------------------
Requests == \E e \in Events : SpawnEmit(e) \/ EmitInline(e)

Emits == \E e \in Events : EmitStart(e) \/ EmitSendOk(e) \/ EmitSendFail(e)

Flush ==
    \E g \in Generations :
        \/ \E e \in Events : OnSuccess(g, e)
        \/ \E batch \in SUBSET Events : BatchFails(g, batch)

Drain ==
    \/ \E e \in Events : Ripen(e)
    \/ DrainBegin \/ DrainNoProducer \/ MaybeReinit
    \/ \E p \in Drainers, e \in Events : DrainSendOk(p, e) \/ DrainSendFail(p, e)

Shutdown == BeginShutdown \/ CancelDrainer \/ FinalBegin \/ FinalEnd \/ CloseProducer

Next ==
    \/ \E e \in Events : OnError(e)
    \/ Requests \/ Emits \/ Flush \/ Drain \/ Shutdown \/ ProcessEnds

Spec == Init /\ [][Next]_vars

-----------------------------------------------------------------------------
(* Fairness.  The event loop runs a task that is ready, every send_event has
   a timeout, the SDK settles what it accepted one way or the other, and time
   passes.  Nothing is assumed of which way a hand-off goes, except that a
   build that is retried for ever succeeds. *)
Fairness ==
    /\ \A e \in Events :
          /\ WF_vars(OnError(e))
          /\ WF_vars(EmitStart(e))
          /\ WF_vars(EmitSendOk(e) \/ EmitSendFail(e))
          /\ WF_vars(\E g \in Generations :
                \/ OnSuccess(g, e)
                \/ \E batch \in SUBSET Events : e \in batch /\ BatchFails(g, batch))
          /\ WF_vars(Ripen(e))
    /\ \A p \in Drainers :
          WF_vars(\E e \in Events : DrainSendOk(p, e) \/ DrainSendFail(p, e))
    /\ WF_vars(DrainBegin \/ DrainNoProducer)
    /\ WF_vars(MaybeReinit)
    /\ WF_vars(CancelDrainer)
    /\ WF_vars(FinalBegin)
    /\ WF_vars(FinalEnd)
    /\ WF_vars(CloseProducer)

FairSpec == Spec /\ Fairness

-----------------------------------------------------------------------------
(* Properties.                                                             *)

(* Every variable has its type. *)
TypeOK ==
    /\ configured \in BOOLEAN
    /\ accepted \subseteq Events /\ pending \subseteq Events
    /\ scheduled \subseteq Events /\ sending \subseteq Events
    /\ buffer \in [Generations -> SUBSET Events]
    /\ handback \subseteq Events
    /\ retryQ \subseteq Events /\ ripe \subseteq Events
    /\ parkedAt \in [Events -> Nat]
    /\ attempts \in [Events -> 0..MaxAttempts]
    /\ pass \in [Drainers -> SUBSET Events]
    /\ via \in [Drainers -> Generations]
    /\ drainer \in BOOLEAN
    /\ producer \in {0} \cup Generations
    /\ disabled \in BOOLEAN /\ initFailed \in BOOLEAN
    /\ dropped \in Nat /\ lost \in Nat /\ retried \in Nat /\ recovered \in Nat
    /\ givenUp \subseteq Events /\ acked \subseteq Events
    /\ phase \in Phases

(* A record is never in two places at once, through every hand-over between
   handlers, SDK buffer, callback, queue and the two drain passes: the retry
   machinery does not fork an event, so the broker gets it again only when
   the SDK handed it back. *)
OneCopy ==
    /\ scheduled \cap (sending \cup Buffered \cup handback \cup retryQ \cup InPass) = {}
    /\ sending \cap (Buffered \cup handback \cup retryQ \cup InPass) = {}
    /\ Buffered \cap (handback \cup retryQ \cup InPass) = {}
    /\ handback \cap (retryQ \cup InPass) = {}
    /\ retryQ \cap InPass = {}
    /\ buffer[1] \cap buffer[2] = {}
    /\ pass["loop"] \cap pass["final"] = {}
    /\ acked \cap Held = {}

(* lost_count() "counts EVENTS given up on for good, each at most once": the
   counter is the number of records given up on, and no such record is sent,
   acknowledged or given up on again. *)
LostCountsEventsOnce ==
    /\ lost = Cardinality(givenUp)
    /\ givenUp \cap (acked \cup Held) = {}

(* _on_success skips its loop while _retried is 0, yet misses no recovery:
   the counter is the number of acknowledged records that failed before. *)
RecoveredExact == recovered = Cardinality({e \in acked : attempts[e] > 0})

(* While the process serves, a parked event always has a live drain task:
   the drainer is only created by _requeue, so a queue without a drainer
   would stay full for ever. *)
ParkedHasDrainer ==
    phase \in {"serving", "draining"} /\ (retryQ # {} \/ pass["loop"] # {}) => drainer

(* Until aclose takes the emitter down, a record of a configured hub is in
   flight, acknowledged or counted as lost: refinement of UsageLedger. *)
Ledger == INSTANCE UsageLedger WITH
    Records <- Events,
    Silent <- ~configured,
    open <- Held,
    settled <- acked,
    writtenOff <- givenUp,
    lostCount <- lost,
    stopped <- phase \notin {"serving", "draining"}

LedgerSpec == Ledger!Spec

(* No record is stuck: one handed over while the process serves is
   acknowledged or counted as lost in the end, however often hand-offs fail. *)
EveryRecordSettles ==
    \A e \in Events :
        (configured /\ e \in accepted) ~> (e \in acked \cup givenUp \/ phase # "serving")

(* aclose comes to its end: neither the emits it waits for nor the drain
   passes, nor a drainer revived by a late callback, hold it up for ever. *)
ShutdownCompletes == phase = "draining" ~> phase \in {"closed", "exited"}

(* What eventhub.py says of its shutdown: "aclose() counts whatever is still
   queued at shutdown rather than letting it vanish silently". *)
ShutdownCountsEverything ==
    phase = "closed" /\ configured => accepted = acked \cup givenUp
=============================================================================
