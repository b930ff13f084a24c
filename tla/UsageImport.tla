----------------------------- MODULE UsageImport -----------------------------
(***************************************************************************)
(* The batch importer of app/services/usage_capture_import.py, run on a    *)
(* timer by every control-plane replica (app/main.py, _usage_import_loop). *)
(*                                                                         *)
(* Event Hub Capture puts blobs into a container; each pass of a replica   *)
(* lists the ones newer than the shared watermark less an overlap, writes  *)
(* one Cosmos document per event and moves the watermark.  A pass runs in  *)
(* a thread, so the passes of several replicas interleave at every call to *)
(* the database, the blob container and Cosmos.                            *)
(*                                                                         *)
(* Time is counted in ticks.  The events of a blob are a set: the order in *)
(* which one pass upserts them does not matter to any property.  The       *)
(* markup stands for all a document takes from outside its event.          *)
(***************************************************************************)
EXTENDS Integers, FiniteSets

CONSTANTS
    Replicas,    \* control-plane replicas
    Blobs,       \* Capture blobs
    Requests,    \* request ids of usage events
    Content,     \* the request ids in each blob; one may be in several blobs
    Markups,     \* values of ModelRoute.markup_pct; 0 is the fallback
    Overlap,     \* _OVERLAP
    Lag,         \* how far behind the present a blob's last_modified may be
    MaxBlobs,    \* _MAX_BLOBS_PER_RUN
    MaxTime,     \* bound of the clock
    MaxFaults,   \* bound of the failing calls and restarts
    NoBlob,      \* no blob is being imported
    NoDoc        \* no document is stored under a key

ASSUME ImportAssumption ==
    /\ IsFiniteSet(Blobs) /\ IsFiniteSet(Requests)
    /\ Content \in [Blobs -> SUBSET Requests]
    /\ 0 \in Markups
    /\ Overlap \in Nat /\ Lag \in Nat /\ Lag < Overlap
    /\ MaxBlobs \in Nat \ {0}
    /\ MaxTime \in Nat \ {0} /\ MaxFaults \in Nat
    /\ NoBlob \notin Blobs /\ NoDoc \notin Markups

VARIABLES
    now,        \* the present
    stamp,      \* last_modified of each visible blob, 0 for the others
    watermark,  \* ImportWatermark.position, 0 when there is none
    docs,       \* the markup each stored document was priced with
    stage,      \* per replica: what its pass does next
    read,       \* per replica: the watermark its pass started from
    markups,    \* per replica: what _route_markups returned
    pending,    \* per replica: the blobs listed and not imported yet
    current,    \* per replica: the blob being imported
    written,    \* per replica: events of that blob upserted so far
    high,       \* per replica: high_water
    faults      \* failing calls and restarts so far

passVars == <<stage, read, markups, pending, current, written, high>>
storeVars == <<watermark, docs>>
worldVars == <<now, stamp>>
vars == <<worldVars, storeVars, passVars, faults>>

-----------------------------------------------------------------------------
Stages == {"asleep", "list", "import", "dead"}

Visible == {b \in Blobs : stamp[b] > 0}

(* Mutant of Since: nothing is scanned twice. *)
SinceExactly(position) == position

(* Only blobs modified after this time are listed; 0 stands for no watermark
   and lists them all, because every stamp is positive. *)
Since(position) == position - Overlap

Stored(e) == docs[e] # NoDoc

Imported(b) == \A e \in Content[b] : Stored(e)

(* sorted(S, key = last_modified)[:MaxBlobs]; blobs of one time may come in
   any order. *)
FirstBlobs(S) ==
    {T \in SUBSET S :
        /\ Cardinality(T) <= MaxBlobs
        /\ T # S => Cardinality(T) = MaxBlobs
        /\ \A b \in T, c \in S \ T : stamp[b] <= stamp[c]}

Oldest(S) == {b \in S : \A c \in S : stamp[b] <= stamp[c]}

Init ==
    /\ now = 1
    /\ stamp = [b \in Blobs |-> 0]
    /\ watermark = 0
    /\ docs = [e \in Requests |-> NoDoc]
    /\ stage = [r \in Replicas |-> "asleep"]
    /\ read = [r \in Replicas |-> 0]
    /\ markups = [r \in Replicas |-> 0]
    /\ pending = [r \in Replicas |-> {}]
    /\ current = [r \in Replicas |-> NoBlob]
    /\ written = [r \in Replicas |-> {}]
    /\ high = [r \in Replicas |-> 0]
    /\ faults = 0

Fault == faults < MaxFaults /\ faults' = faults + 1

(* A pass is over: its locals are gone. *)
EndPass(r, next) ==
    /\ stage' = [stage EXCEPT ![r] = next]
    /\ read' = [read EXCEPT ![r] = 0]
    /\ markups' = [markups EXCEPT ![r] = 0]
    /\ high' = [high EXCEPT ![r] = 0]

(* The rest of the blobs is left for a later pass. *)
DropWork(r) ==
    /\ pending' = [pending EXCEPT ![r] = {}]
    /\ current' = [current EXCEPT ![r] = NoBlob]
    /\ written' = [written EXCEPT ![r] = {}]

-----------------------------------------------------------------------------
(* The environment.                                                        *)

Tick ==
    /\ now < MaxTime
    /\ now' = now + 1
    /\ UNCHANGED <<stamp, storeVars, passVars, faults>>

(* Capture finishes a blob; the listing may show it a little late. *)
Publish(b) ==
    /\ b \notin Visible
    /\ \E t \in (now - Lag)..now : t > 0 /\ stamp' = [stamp EXCEPT ![b] = t]
    /\ UNCHANGED <<now, storeVars, passVars, faults>>

-----------------------------------------------------------------------------
(* One pass, run_once.                                                     *)

(* _read_watermark and _route_markups.  An administrator may set any markup at
   any time, and a failing read of the markups gives {}, which is 0. *)
Begin(r) ==
    /\ stage[r] = "asleep"
    /\ stage' = [stage EXCEPT ![r] = "list"]
    /\ read' = [read EXCEPT ![r] = watermark]
    /\ high' = [high EXCEPT ![r] = watermark]
    /\ \E m \in Markups : markups' = [markups EXCEPT ![r] = m]
    /\ UNCHANGED <<worldVars, storeVars, pending, current, written, faults>>

(* The database fails under _read_watermark, which is outside the try block:
   the exception leaves run_once and ends the replica's import loop. *)
LoopDies(r) ==
    /\ stage[r] = "asleep"
    /\ Fault
    /\ stage' = [stage EXCEPT ![r] = "dead"]
    /\ UNCHANGED <<worldVars, storeVars, read, markups, pending, current, written, high>>

(* list_blobs, the sort and the cap. *)
List(r) ==
    /\ stage[r] = "list"
    /\ stage' = [stage EXCEPT ![r] = "import"]
    /\ \E listed \in FirstBlobs({b \in Visible : stamp[b] > Since(read[r])}) :
          pending' = [pending EXCEPT ![r] = listed]
    /\ UNCHANGED <<worldVars, storeVars, read, markups, current, written, high, faults>>

(* b is the blob of r's loop: the next one, or the one it is in the middle of. *)
InHand(r, b) ==
    /\ stage[r] = "import"
    /\ b \in Oldest(pending[r])
    /\ current[r] \in {NoBlob, b}

(* Mutant of Upsert: the high-water mark moves before the blob is in. *)
UpsertAdvancing(r, b, e) ==
    /\ InHand(r, b)
    /\ e \in Content[b] \ written[r]
    /\ docs' = [docs EXCEPT ![e] = markups[r]]
    /\ current' = [current EXCEPT ![r] = b]
    /\ written' = [written EXCEPT ![r] = @ \cup {e}]
    /\ high' = [high EXCEPT ![r] = IF stamp[b] > @ THEN stamp[b] ELSE @]
    /\ UNCHANGED <<worldVars, watermark, stage, read, markups, pending, faults>>

(* event_to_document and the upsert of one event.  The download of the blob
   is part of the first one: blobs do not change. *)
Upsert(r, b, e) ==
    /\ InHand(r, b)
    /\ e \in Content[b] \ written[r]
    /\ docs' = [docs EXCEPT ![e] = markups[r]]
    /\ current' = [current EXCEPT ![r] = b]
    /\ written' = [written EXCEPT ![r] = @ \cup {e}]
    /\ UNCHANGED <<worldVars, watermark, stage, read, markups, pending, high, faults>>

(* The whole blob is in: high_water moves up to it. *)
CloseBlob(r, b) ==
    /\ InHand(r, b)
    /\ Content[b] \subseteq written[r]
    /\ pending' = [pending EXCEPT ![r] = @ \ {b}]
    /\ current' = [current EXCEPT ![r] = NoBlob]
    /\ written' = [written EXCEPT ![r] = {}]
    /\ high' = [high EXCEPT ![r] = IF stamp[b] > @ THEN stamp[b] ELSE @]
    /\ UNCHANGED <<worldVars, storeVars, stage, read, markups, faults>>

(* A listing, a download, a decode or an upsert raises: the except clause of
   run_once leaves the rest of the blobs for a later pass. *)
Abort(r) ==
    /\ stage[r] \in {"list", "import"}
    /\ Fault
    /\ stage' = [stage EXCEPT ![r] = "import"]
    /\ DropWork(r)
    /\ UNCHANGED <<worldVars, storeVars, read, markups, high>>

(* Mutants of Save: the position is that of the next blob to come, ... *)
SavePast(r) ==
    /\ stage[r] = "import" /\ pending[r] = {}
    /\ EndPass(r, "asleep")
    /\ IF high[r] # read[r] THEN watermark' = high[r] + 1 ELSE UNCHANGED watermark
    /\ UNCHANGED <<worldVars, docs, pending, current, written, faults>>

(* ... or it is only written when there was none. *)
SaveFirst(r) ==
    /\ stage[r] = "import" /\ pending[r] = {}
    /\ EndPass(r, "asleep")
    /\ IF high[r] # read[r] /\ watermark = 0
       THEN watermark' = high[r]
       ELSE UNCHANGED watermark
    /\ UNCHANGED <<worldVars, docs, pending, current, written, faults>>

(* _write_watermark, which overwrites whatever another replica wrote since;
   a failing write, such as the second of two first inserts, is logged. *)
Save(r) ==
    /\ stage[r] = "import" /\ pending[r] = {}
    /\ EndPass(r, "asleep")
    /\ \/ /\ high[r] # read[r]
          /\ watermark' = high[r]
          /\ UNCHANGED faults
       \/ /\ high[r] = read[r]
          /\ UNCHANGED <<watermark, faults>>
       \/ /\ high[r] # read[r]
          /\ Fault
          /\ UNCHANGED watermark
    /\ UNCHANGED <<worldVars, docs, pending, current, written>>

(* The replica's process restarts: its pass is gone, its loop begins anew. *)
Restart(r) ==
    /\ Fault
    /\ EndPass(r, "asleep")
    /\ DropWork(r)
    /\ UNCHANGED <<worldVars, storeVars>>

Progress(r) ==
    \/ Begin(r) \/ List(r) \/ Save(r)
    \/ \E b \in Blobs : CloseBlob(r, b) \/ \E e \in Requests : Upsert(r, b, e)

Next ==
    \/ Tick
    \/ \E b \in Blobs : Publish(b)
    \/ \E r \in Replicas : Progress(r) \/ LoopDies(r) \/ Abort(r) \/ Restart(r)

Spec == Init /\ [][Next]_vars

-----------------------------------------------------------------------------
(* Fairness: a thread runs on and the timer of a live loop fires again.    *)
FairSpec == Spec /\ \A r \in Replicas : WF_vars(Progress(r))

-----------------------------------------------------------------------------
(* Properties.                                                             *)

(* Every variable has its type. *)
TypeOK ==
    /\ now \in 1..MaxTime
    /\ stamp \in [Blobs -> 0..MaxTime]
    /\ watermark \in 0..MaxTime
    /\ docs \in [Requests -> Markups \cup {NoDoc}]
    /\ stage \in [Replicas -> Stages]
    /\ read \in [Replicas -> 0..MaxTime]
    /\ markups \in [Replicas -> Markups]
    /\ pending \in [Replicas -> SUBSET Blobs]
    /\ current \in [Replicas -> Blobs \cup {NoBlob}]
    /\ written \in [Replicas -> SUBSET Requests]
    /\ high \in [Replicas -> 0..MaxTime]
    /\ faults \in 0..MaxFaults

(* No billing record falls behind the watermark: a visible blob is imported,
   or the next pass lists it again, whichever replica wrote the watermark last
   and however late the blob showed up. *)
NothingLeftBehind ==
    \A b \in Visible : Imported(b) \/ stamp[b] > Since(watermark)

(* "The watermark only advances over blobs that actually landed": it is the
   time of a blob whose events are all stored. *)
WatermarkOnLandedBlob ==
    watermark # 0 => \E b \in Visible : stamp[b] = watermark /\ Imported(b)

AllDead == \A r \in Replicas : stage[r] = "dead"

(* The cap is used up by blobs that are scanned again. *)
Jammed ==
    Cardinality({b \in Visible : stamp[b] \in (Since(watermark) + 1)..watermark}) >= MaxBlobs

(* Once Capture is quiet the import catches up and stays there: every blob is
   imported and the watermark rests on the newest, however often replicas
   overwrite each other's watermark with an older one.  It does not when every
   import loop has died, or when one overlap window fills the cap. *)
ImportCatchesUp ==
    <>[](\/ \A b \in Visible : Imported(b) /\ stamp[b] <= watermark
         \/ AllDead
         \/ Jammed)

(* What _usage_import_loop relies on: "`run_once` swallows its own failures,
   so this loop only has to survive cancellation". *)
LoopSurvives == \A r \in Replicas : stage[r] # "dead"
=============================================================================
