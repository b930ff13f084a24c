-------------------------- MODULE UsageImport_proofs --------------------------
(***************************************************************************)
(* That no blob falls behind the importer's watermark, for any number of   *)
(* replicas, blobs and events, any overlap longer than Capture's lag and   *)
(* any cap.  The watermark is only ever a copy of some pass's high-water   *)
(* mark, whichever replica wrote last, so the inductive invariant is about *)
(* the passes: what each has listed and how far its mark has come.         *)
(***************************************************************************)
EXTENDS UsageImport, TLAPS

(* What holds of a watermark: no visible blob that is not imported is so    *)
(* far below it that it is not listed again, and a landed blob is at it.    *)
Safe(mark) ==
    /\ mark <= now
    /\ \A b \in Visible : Imported(b) \/ stamp[b] > Since(mark)
    /\ mark # 0 => \E b \in Visible : stamp[b] = mark /\ Imported(b)

(* What a list left out is imported, or not so much older than the blobs    *)
(* on it that it is lost when the mark moves on to them.                    *)
Ordered(listed) ==
    \A b \in listed :
        /\ b \in Visible
        /\ \A c \in Visible \ listed : Imported(c) \/ stamp[c] > Since(stamp[b])

PassOK(r) ==
    /\ stage[r] \in {"list", "import"} => Safe(high[r])
    /\ stage[r] = "list" => high[r] = read[r]
    /\ Ordered(pending[r])
    /\ \A e \in written[r] : Stored(e)

ImportInv ==
    /\ TypeOK
    /\ \A b \in Blobs : stamp[b] <= now
    /\ Safe(watermark)
    /\ \A r \in Replicas : PassOK(r)

-----------------------------------------------------------------------------
(* What every step leaves of the world: a visible blob keeps its stamp, a   *)
(* stored document stays, and a blob that shows up is not older than Lag.   *)
WorldMoves ==
    /\ now <= now'
    /\ \A b \in Visible : b \in Visible' /\ stamp'[b] = stamp[b]
    /\ \A b \in Visible' \ Visible : now - Lag <= stamp'[b]
    /\ \A b \in Blobs : stamp'[b] <= now'
    /\ \A e \in Requests : Stored(e) => Stored(e)'

(* A blob stays imported.                                                   *)
LEMMA StaysImported ==
    ASSUME WorldMoves, NEW b \in Blobs, Imported(b)
    PROVE  Imported(b)'
<1>1. Content[b] \subseteq Requests
  BY ImportAssumption
<1> QED
  BY <1>1 DEF Imported, WorldMoves

(* A time that no unimported blob is too far below stays such a time.       *)
LEMMA StaysAhead ==
    ASSUME TypeOK, TypeOK', WorldMoves, NEW m \in Nat, m <= now, NEW S,
           \A c \in Visible \ S : Imported(c) \/ stamp[c] > Since(m)
    PROVE  \A c \in (Visible' \ S) : Imported(c)' \/ stamp'[c] > Since(m)
<1> SUFFICES ASSUME NEW c \in Visible' \ S PROVE Imported(c)' \/ stamp'[c] > Since(m)
  OBVIOUS
<1>1. CASE c \in Visible
  BY <1>1, StaysImported DEF WorldMoves, Visible
<1>2. CASE c \notin Visible
  <2>1. now - Lag <= stamp'[c] /\ stamp'[c] \in Nat /\ now \in Nat
    BY <1>2 DEF WorldMoves, TypeOK, Visible
  <2>2. Overlap \in Nat /\ Lag \in Nat /\ Lag < Overlap
    BY ImportAssumption
  <2> QED
    BY <2>1, <2>2 DEF Since
<1> QED
  BY <1>1, <1>2

(* A watermark stays safe.                                                  *)
LEMMA StaysSafe ==
    ASSUME TypeOK, TypeOK', WorldMoves, NEW m \in Nat, Safe(m)
    PROVE  Safe(m)'
<1>1. m <= now'
  <2>1. m <= now /\ now <= now' /\ now \in Nat /\ now' \in Nat
    BY DEF Safe, WorldMoves, TypeOK
  <2> QED
    BY <2>1
<1>2. \A c \in Visible' : Imported(c)' \/ stamp'[c] > Since(m)
  <2>1. \A c \in Visible' \ {} : Imported(c)' \/ stamp'[c] > Since(m)
    <3>1. m <= now /\ \A c \in Visible \ {} : Imported(c) \/ stamp[c] > Since(m)
      BY DEF Safe
    <3> QED
      BY <3>1, StaysAhead
  <2> QED
    BY <2>1
<1>3. m # 0 => \E b \in Visible' : stamp'[b] = m /\ Imported(b)'
  <2>1. ASSUME m # 0 PROVE \E b \in Visible' : stamp'[b] = m /\ Imported(b)'
    <3>1. PICK b \in Visible : stamp[b] = m /\ Imported(b)
      BY <2>1 DEF Safe
    <3>2. Imported(b)'
      BY <3>1, StaysImported DEF Visible
    <3>3. b \in Visible' /\ stamp'[b] = m
      BY <3>1 DEF WorldMoves
    <3> QED
      BY <3>2, <3>3
  <2> QED
    BY <2>1
<1> QED
  BY <1>1, <1>2, <1>3 DEF Safe, Since

(* A list stays ordered.                                                    *)
LEMMA StaysOrdered ==
    ASSUME TypeOK, TypeOK', \A b \in Blobs : stamp[b] <= now, WorldMoves,
           NEW S \in SUBSET Blobs, Ordered(S)
    PROVE  Ordered(S)'
<1> SUFFICES ASSUME NEW b \in S
             PROVE  /\ b \in Visible'
                    /\ \A c \in Visible' \ S : Imported(c)' \/ stamp'[c] > Since(stamp'[b])
  BY DEF Ordered, Since
<1>1. /\ b \in Visible' /\ stamp'[b] = stamp[b]
      /\ stamp[b] \in Nat /\ stamp[b] <= now
  BY DEF Ordered, WorldMoves, TypeOK
<1>2. \A c \in Visible \ S : Imported(c) \/ stamp[c] > Since(stamp[b])
  BY DEF Ordered
<1> QED
  BY <1>1, <1>2, StaysAhead

(* A pass that does not move stays in order.                                *)
LEMMA PassStays ==
    ASSUME ImportInv, TypeOK', WorldMoves, NEW q \in Replicas,
           stage'[q] = stage[q], read'[q] = read[q], pending'[q] = pending[q],
           written'[q] = written[q], high'[q] = high[q]
    PROVE  PassOK(q)'
<1>1. PassOK(q) /\ high[q] \in Nat /\ pending[q] \in SUBSET Blobs /\ written[q] \in SUBSET Requests
  BY DEF ImportInv, TypeOK
<1>2. ASSUME stage[q] \in {"list", "import"} PROVE Safe(high[q])'
  <2>1. PICK m \in Nat : m = high[q]
    BY <1>1
  <2>2. Safe(m)'
    BY <1>1, <1>2, <2>1, StaysSafe DEF ImportInv, PassOK
  <2> QED
    BY <2>1, <2>2 DEF Safe
<1>3. Ordered(pending[q])'
  <2>1. PICK S \in SUBSET Blobs : S = pending[q]
    BY <1>1
  <2>2. Ordered(S)'
    BY <1>1, <2>1, StaysOrdered DEF ImportInv, PassOK
  <2> QED
    BY <2>1, <2>2 DEF Ordered
<1>4. \A e \in written'[q] : Stored(e)'
  BY <1>1 DEF PassOK, WorldMoves
<1> QED
  BY <1>1, <1>2, <1>3, <1>4 DEF PassOK

(* Steps that leave the world alone.                                        *)
LEMMA WorldStays ==
    ASSUME TypeOK, \A b \in Blobs : stamp[b] <= now, UNCHANGED <<now, stamp, docs>>
    PROVE  WorldMoves
<1>1. now <= now'
  BY DEF TypeOK
<1> QED
  BY <1>1 DEF WorldMoves, Visible, Stored

(* A step of one pass keeps the invariant when it keeps that pass in order. *)
LEMMA OnePass ==
    ASSUME ImportInv, TypeOK', WorldMoves, Safe(watermark)', NEW r \in Replicas,
           \A q \in Replicas \ {r} :
               /\ stage'[q] = stage[q] /\ read'[q] = read[q] /\ pending'[q] = pending[q]
               /\ written'[q] = written[q] /\ high'[q] = high[q],
           PassOK(r)'
    PROVE  ImportInv'
<1>1. \A q \in Replicas : PassOK(q)'
  BY PassStays
<1>2. \A b \in Blobs : stamp'[b] <= now'
  BY DEF WorldMoves
<1> QED
  BY <1>1, <1>2 DEF ImportInv

(* The watermark stays safe when it is not written.                         *)
LEMMA WatermarkStays ==
    ASSUME ImportInv, TypeOK', WorldMoves, watermark' = watermark
    PROVE  Safe(watermark)'
<1>1. PICK m \in Nat : m = watermark
  BY DEF ImportInv, TypeOK
<1>2. Safe(m)'
  BY <1>1, StaysSafe DEF ImportInv
<1> QED
  BY <1>1, <1>2 DEF Safe

-----------------------------------------------------------------------------
(* Every variable keeps its type.                                           *)
LEMMA InitType == Init => TypeOK
  BY ImportAssumption DEF Init, TypeOK, Stages

LEMMA FaultType == TypeOK /\ Fault => faults' \in 0..MaxFaults
  BY ImportAssumption DEF TypeOK, Fault

LEMMA StepType == TypeOK /\ [Next]_vars => TypeOK'
<1> SUFFICES ASSUME TypeOK, [Next]_vars PROVE TypeOK'
  OBVIOUS
<1>0. /\ MaxTime \in Nat \ {0} /\ MaxFaults \in Nat /\ 0 \in Markups
      /\ Content \in [Blobs -> SUBSET Requests]
  BY ImportAssumption
<1>1. CASE Tick
  BY <1>0, <1>1 DEF TypeOK, Tick, storeVars, passVars
<1>2. ASSUME NEW b \in Blobs, Publish(b) PROVE TypeOK'
  <2>1. PICK t \in (now - Lag)..now : t > 0 /\ stamp' = [stamp EXCEPT ![b] = t]
    BY <1>2 DEF Publish
  <2>2. t \in 0..MaxTime
    BY <1>0, <2>1, ImportAssumption DEF TypeOK
  <2> QED
    BY <1>2, <2>1, <2>2 DEF TypeOK, Publish, storeVars, passVars
<1>3. ASSUME NEW r \in Replicas, Begin(r) PROVE TypeOK'
  BY <1>3 DEF TypeOK, Begin, worldVars, storeVars, Stages
<1>4. ASSUME NEW r \in Replicas, LoopDies(r) PROVE TypeOK'
  BY <1>4, FaultType DEF TypeOK, LoopDies, worldVars, storeVars, Stages
<1>5. ASSUME NEW r \in Replicas, List(r) PROVE TypeOK'
  <2>1. PICK listed \in FirstBlobs({b \in Visible : stamp[b] > Since(read[r])}) :
           pending' = [pending EXCEPT ![r] = listed]
    BY <1>5 DEF List
  <2>2. listed \subseteq Blobs
    BY DEF FirstBlobs, Visible
  <2> QED
    BY <1>5, <2>1, <2>2 DEF TypeOK, List, worldVars, storeVars, Stages
<1>6. ASSUME NEW r \in Replicas, NEW b \in Blobs, NEW e \in Requests, Upsert(r, b, e)
      PROVE  TypeOK'
  BY <1>6 DEF TypeOK, Upsert, worldVars
<1>7. ASSUME NEW r \in Replicas, NEW b \in Blobs, CloseBlob(r, b) PROVE TypeOK'
  <2>1. /\ stamp[b] \in 0..MaxTime
        /\ high' = [high EXCEPT ![r] = IF stamp[b] > high[r] THEN stamp[b] ELSE high[r]]
    BY <1>7 DEF TypeOK, CloseBlob
  <2>2. high' \in [Replicas -> 0..MaxTime]
    BY <2>1 DEF TypeOK
  <2> QED
    BY <1>7, <2>2 DEF TypeOK, CloseBlob, worldVars, storeVars
<1>8. ASSUME NEW r \in Replicas, Abort(r) PROVE TypeOK'
  BY <1>8, FaultType DEF TypeOK, Abort, DropWork, worldVars, storeVars, Stages
<1>9. ASSUME NEW r \in Replicas, Save(r) PROVE TypeOK'
  <2>1. watermark' \in 0..MaxTime /\ faults' \in 0..MaxFaults
    BY <1>9, FaultType DEF TypeOK, Save
  <2> QED
    BY <1>0, <1>9, <2>1 DEF TypeOK, Save, EndPass, worldVars, Stages
<1>10. ASSUME NEW r \in Replicas, Restart(r) PROVE TypeOK'
  BY <1>0, <1>10, FaultType DEF TypeOK, Restart, EndPass, DropWork, worldVars, storeVars, Stages
<1>11. CASE UNCHANGED vars
  BY <1>11 DEF TypeOK, vars, worldVars, storeVars, passVars
<1> QED
  BY <1>1, <1>2, <1>3, <1>4, <1>5, <1>6, <1>7, <1>8, <1>9, <1>10, <1>11 DEF Next, Progress

(* Every variable has its type: what every handler of UsageImport assigns,  *)
(* passes that are cut off included.                                        *)
THEOREM ImportTypes == Spec => []TypeOK
  BY InitType, StepType, PTL DEF Spec

-----------------------------------------------------------------------------
(* The clock moves on.                                                      *)
LEMMA TickKeeps == ImportInv /\ TypeOK' /\ Tick => ImportInv'
<1> SUFFICES ASSUME ImportInv, TypeOK', Tick PROVE ImportInv'
  OBVIOUS
<1>1. now' = now + 1 /\ now \in Nat /\ UNCHANGED <<stamp, storeVars, passVars>>
  BY DEF Tick, ImportInv, TypeOK
<1>2. \A b \in Blobs : stamp[b] \in Nat /\ stamp[b] <= now
  BY DEF ImportInv, TypeOK
<1>3. WorldMoves
  BY <1>1, <1>2 DEF WorldMoves, Visible, Stored, storeVars
<1>4. Safe(watermark)'
  BY <1>1, <1>3, WatermarkStays DEF storeVars
<1>5. \A q \in Replicas : PassOK(q)'
  BY <1>1, <1>3, PassStays DEF passVars
<1> QED
  BY <1>3, <1>4, <1>5 DEF ImportInv, WorldMoves

(* Capture shows a blob, late by Lag at most.                               *)
LEMMA PublishKeeps ==
    ASSUME ImportInv, TypeOK', NEW b \in Blobs, Publish(b)
    PROVE  ImportInv'
<1>1. b \notin Visible /\ UNCHANGED <<now, storeVars, passVars>>
  BY DEF Publish
<1>2. PICK t \in (now - Lag)..now : t > 0 /\ stamp' = [stamp EXCEPT ![b] = t]
  BY DEF Publish
<1>3. /\ now \in Nat /\ Lag \in Nat
      /\ stamp \in [Blobs -> Nat] /\ \A c \in Blobs : stamp[c] <= now
  BY ImportAssumption DEF ImportInv, TypeOK
<1>4. stamp'[b] = t /\ \A c \in Blobs \ {b} : stamp'[c] = stamp[c]
  BY <1>2, <1>3
<1>5. \A c \in Blobs : stamp'[c] <= now
  BY <1>2, <1>3, <1>4
<1>6. \A c \in Visible : c \in Visible' /\ stamp'[c] = stamp[c]
  BY <1>1, <1>4 DEF Visible
<1>7. \A c \in Visible' \ Visible : now - Lag <= stamp'[c]
  <2>1. \A c \in Visible' \ Visible : c = b
    BY <1>4 DEF Visible
  <2> QED
    BY <1>2, <1>3, <1>4, <2>1
<1>8. WorldMoves
  BY <1>1, <1>3, <1>5, <1>6, <1>7 DEF WorldMoves, Stored, storeVars
<1>9. Safe(watermark)'
  BY <1>1, <1>8, WatermarkStays DEF storeVars
<1>10. \A q \in Replicas : PassOK(q)'
  BY <1>1, <1>8, PassStays DEF passVars
<1> QED
  BY <1>8, <1>9, <1>10 DEF ImportInv, WorldMoves

(* A pass starts from the watermark.                                        *)
LEMMA BeginKeeps ==
    ASSUME ImportInv, TypeOK', NEW r \in Replicas, Begin(r)
    PROVE  ImportInv'
<1>1. UNCHANGED <<now, stamp, docs, watermark, pending, written>> /\ WorldMoves
  BY WorldStays DEF Begin, worldVars, storeVars, ImportInv
<1>2. /\ stage'[r] = "list" /\ read'[r] = watermark /\ high'[r] = watermark
      /\ \A q \in Replicas \ {r} : /\ stage'[q] = stage[q] /\ read'[q] = read[q]
                                   /\ high'[q] = high[q]
  BY DEF Begin, ImportInv, TypeOK
<1>3. Safe(watermark)'
  BY <1>1, WatermarkStays
<1>4. Safe(high[r])'
  BY <1>1, <1>2, <1>3 DEF Safe
<1>5. Ordered(pending[r])' /\ \A e \in written'[r] : Stored(e)'
  BY <1>1 DEF ImportInv, PassOK, Ordered, Visible, Imported, Stored
<1>6. PassOK(r)'
  BY <1>2, <1>4, <1>5 DEF PassOK
<1> QED
  BY <1>1, <1>2, <1>3, <1>6, OnePass

(* A loop that dies leaves its pass in order.                               *)
LEMMA LoopDiesKeeps ==
    ASSUME ImportInv, TypeOK', NEW r \in Replicas, LoopDies(r)
    PROVE  ImportInv'
<1>1. /\ UNCHANGED <<now, stamp, docs, watermark, read, pending, written, high>>
      /\ WorldMoves
  BY WorldStays DEF LoopDies, worldVars, storeVars, ImportInv
<1>2. stage'[r] = "dead" /\ \A q \in Replicas \ {r} : stage'[q] = stage[q]
  BY DEF LoopDies, ImportInv, TypeOK
<1>3. Safe(watermark)'
  BY <1>1, WatermarkStays
<1>4. Ordered(pending[r])' /\ \A e \in written'[r] : Stored(e)'
  BY <1>1 DEF ImportInv, PassOK, Ordered, Visible, Imported, Stored
<1>5. PassOK(r)'
  BY <1>2, <1>4 DEF PassOK
<1> QED
  BY <1>1, <1>2, <1>3, <1>5, OnePass

(* The list a pass takes from the watermark, oldest first up to the cap.    *)
LEMMA ListKeeps ==
    ASSUME ImportInv, TypeOK', NEW r \in Replicas, List(r)
    PROVE  ImportInv'
<1>1. /\ UNCHANGED <<now, stamp, docs, watermark, read, written, high>>
      /\ stage[r] = "list" /\ WorldMoves
  BY WorldStays DEF List, worldVars, storeVars, ImportInv
<1> DEFINE S == {b \in Visible : stamp[b] > Since(read[r])}
<1>2. PICK T \in FirstBlobs(S) : pending' = [pending EXCEPT ![r] = T]
  BY DEF List
<1>3. /\ stage'[r] = "import" /\ pending'[r] = T
      /\ \A q \in Replicas \ {r} : stage'[q] = stage[q] /\ pending'[q] = pending[q]
  BY <1>2 DEF List, ImportInv, TypeOK
<1>4. Safe(watermark)'
  BY <1>1, WatermarkStays
<1>5. Safe(high[r]) /\ high[r] = read[r]
  BY <1>1 DEF ImportInv, PassOK
<1>6. Ordered(T)
  <2>1. T \subseteq Visible /\ \A b \in T, c \in S \ T : stamp[b] <= stamp[c]
    BY <1>2 DEF FirstBlobs
  <2>2. ASSUME NEW b \in T, NEW c \in Visible \ T
        PROVE  Imported(c) \/ stamp[c] > Since(stamp[b])
    <3>1. CASE c \in S
      <4>1. stamp[b] <= stamp[c]
        BY <2>1, <2>2, <3>1
      <4>2. stamp[b] \in Nat /\ stamp[c] \in Nat /\ Overlap \in Nat /\ 0 < Overlap
        BY <2>1, <2>2, ImportAssumption DEF ImportInv, TypeOK, Visible
      <4> QED
        BY <4>1, <4>2 DEF Since
    <3>2. CASE c \notin S
      BY <1>5, <2>2, <3>2 DEF Safe
    <3> QED
      BY <3>1, <3>2
  <2> QED
    BY <2>1, <2>2 DEF Ordered
<1> HIDE DEF S
<1>7. Safe(high[r])' /\ Ordered(pending[r])' /\ \A e \in written'[r] : Stored(e)'
  BY <1>1, <1>3, <1>5, <1>6 DEF ImportInv, PassOK, Safe, Ordered, Visible, Imported, Stored
<1>8. PassOK(r)'
  BY <1>3, <1>7 DEF PassOK
<1> QED
  BY <1>1, <1>3, <1>4, <1>8, OnePass

(* An event goes in: what is stored stays stored.                           *)
LEMMA UpsertKeeps ==
    ASSUME ImportInv, TypeOK', NEW r \in Replicas, NEW b \in Blobs, NEW e \in Requests,
           Upsert(r, b, e)
    PROVE  ImportInv'
<1>1. UNCHANGED <<now, stamp, watermark, stage, read, pending, high>>
  BY DEF Upsert, worldVars
<1>2. /\ docs'[e] # NoDoc /\ \A d \in Requests \ {e} : docs'[d] = docs[d]
      /\ written'[r] = written[r] \cup {e}
      /\ \A q \in Replicas \ {r} : written'[q] = written[q]
  BY ImportAssumption DEF Upsert, ImportInv, TypeOK
<1>3. \A d \in Requests : Stored(d) => Stored(d)'
  BY <1>2 DEF Stored
<1>4. WorldMoves
  BY <1>1, <1>3 DEF WorldMoves, Visible, ImportInv, TypeOK
<1>5. Safe(watermark)'
  BY <1>1, <1>4, WatermarkStays
<1>6. written[r] \subseteq Requests /\ pending[r] \in SUBSET Blobs /\ high[r] \in Nat /\ PassOK(r)
  BY DEF ImportInv, TypeOK
<1>7. stage[r] \in {"list", "import"} => Safe(high[r])'
  <2>1. PICK m \in Nat : m = high[r]
    BY <1>6
  <2>2. Safe(m) => Safe(m)'
    BY <1>4, StaysSafe DEF ImportInv
  <2> QED
    BY <1>1, <1>6, <2>1, <2>2 DEF PassOK, Safe
<1>8. Ordered(pending[r])'
  <2>1. PICK S \in SUBSET Blobs : S = pending[r]
    BY <1>6
  <2>2. Ordered(S)'
    BY <1>4, <1>6, <2>1, StaysOrdered DEF ImportInv, PassOK
  <2> QED
    BY <1>1, <2>1, <2>2 DEF Ordered
<1>9. \A d \in written'[r] : Stored(d)'
  BY <1>2, <1>3, <1>6 DEF PassOK, Stored
<1>10. PassOK(r)'
  BY <1>1, <1>6, <1>7, <1>8, <1>9 DEF PassOK
<1> QED
  BY <1>1, <1>2, <1>4, <1>5, <1>10, OnePass

(* A blob of which every event is in is imported: the mark may move up to   *)
(* it, because it is the oldest of a list that left nothing behind.         *)
LEMMA CloseBlobKeeps ==
    ASSUME ImportInv, TypeOK', NEW r \in Replicas, NEW b \in Blobs, CloseBlob(r, b)
    PROVE  ImportInv'
<1>1. UNCHANGED <<now, stamp, docs, watermark, stage, read>> /\ WorldMoves
  BY WorldStays DEF CloseBlob, worldVars, storeVars, ImportInv
<1>2. /\ pending'[r] = pending[r] \ {b} /\ written'[r] = {}
      /\ high'[r] = IF stamp[b] > high[r] THEN stamp[b] ELSE high[r]
      /\ \A q \in Replicas \ {r} : /\ pending'[q] = pending[q] /\ written'[q] = written[q]
                                   /\ high'[q] = high[q]
  BY DEF CloseBlob, ImportInv, TypeOK
<1>3. /\ stage[r] = "import" /\ b \in pending[r]
      /\ \A c \in pending[r] : stamp[b] <= stamp[c]
      /\ Content[b] \subseteq written[r]
  BY DEF CloseBlob, InHand, Oldest
<1>4. Safe(watermark)'
  BY <1>1, WatermarkStays
<1>5. PassOK(r)
  BY DEF ImportInv
<1>6. Imported(b) /\ b \in Visible
  BY <1>3, <1>5 DEF PassOK, Imported, Ordered
<1>7. Safe(stamp[b])
  <2>1. stamp[b] <= now
    BY DEF ImportInv
  <2>2. ASSUME NEW c \in Visible PROVE Imported(c) \/ stamp[c] > Since(stamp[b])
    <3>1. CASE c \in pending[r]
      <4>1. stamp[b] <= stamp[c]
        BY <1>3, <3>1
      <4>2. stamp[b] \in Nat /\ stamp[c] \in Nat /\ Overlap \in Nat /\ 0 < Overlap
        BY <2>2, ImportAssumption DEF ImportInv, TypeOK, Visible
      <4> QED
        BY <4>1, <4>2 DEF Since
    <3>2. CASE c \notin pending[r]
      BY <1>3, <1>5, <2>2, <3>2 DEF PassOK, Ordered
    <3> QED
      BY <3>1, <3>2
  <2> QED
    BY <1>6, <2>1, <2>2 DEF Safe
<1>8. Safe(high[r])'
  <2>1. Safe(high[r])
    BY <1>3, <1>5 DEF PassOK
  <2>2. CASE high'[r] = stamp[b]
    BY <1>1, <1>7, <2>2 DEF Safe, Visible, Imported, Stored, Since
  <2>3. CASE high'[r] = high[r]
    BY <1>1, <2>1, <2>3 DEF Safe, Visible, Imported, Stored, Since
  <2> QED
    BY <1>2, <2>2, <2>3
<1>9. Ordered(pending[r] \ {b})
  <2>1. ASSUME NEW d \in pending[r] \ {b}, NEW c \in Visible \ (pending[r] \ {b})
        PROVE  Imported(c) \/ stamp[c] > Since(stamp[d])
    BY <1>5, <1>6, <2>1 DEF PassOK, Ordered
  <2> QED
    BY <1>5, <2>1 DEF PassOK, Ordered
<1>10. Ordered(pending[r])'
  BY <1>1, <1>2, <1>9 DEF Ordered, Visible, Imported, Stored, Since
<1>11. PassOK(r)'
  BY <1>1, <1>2, <1>3, <1>8, <1>10 DEF PassOK
<1> QED
  BY <1>1, <1>2, <1>4, <1>11, OnePass

(* A pass that is cut off drops its list and keeps its mark.                *)
LEMMA AbortKeeps ==
    ASSUME ImportInv, TypeOK', NEW r \in Replicas, Abort(r)
    PROVE  ImportInv'
<1>1. UNCHANGED <<now, stamp, docs, watermark, read, high>> /\ WorldMoves
  BY WorldStays DEF Abort, worldVars, storeVars, ImportInv
<1>2. /\ stage[r] \in {"list", "import"} /\ stage'[r] = "import"
      /\ pending'[r] = {} /\ written'[r] = {}
      /\ \A q \in Replicas \ {r} : /\ stage'[q] = stage[q] /\ pending'[q] = pending[q]
                                   /\ written'[q] = written[q]
  BY DEF Abort, DropWork, ImportInv, TypeOK
<1>3. Safe(watermark)'
  BY <1>1, WatermarkStays
<1>4. Safe(high[r])
  BY <1>2 DEF ImportInv, PassOK
<1>5. Safe(high[r])'
  BY <1>1, <1>4 DEF Safe, Visible, Imported, Stored, Since
<1>6. PassOK(r)'
  BY <1>2, <1>5 DEF PassOK, Ordered
<1> QED
  BY <1>1, <1>2, <1>3, <1>6, OnePass

(* The watermark becomes the mark of the pass, or stays what it was.        *)
LEMMA SaveKeeps ==
    ASSUME ImportInv, TypeOK', NEW r \in Replicas, Save(r)
    PROVE  ImportInv'
<1>1. /\ UNCHANGED <<now, stamp, docs, pending, written>> /\ WorldMoves
      /\ watermark' \in {watermark, high[r]}
  BY WorldStays DEF Save, worldVars, ImportInv
<1>2. /\ stage[r] = "import" /\ stage'[r] = "asleep"
      /\ \A q \in Replicas \ {r} : /\ stage'[q] = stage[q] /\ read'[q] = read[q]
                                   /\ high'[q] = high[q]
  BY DEF Save, EndPass, ImportInv, TypeOK
<1>3. Safe(watermark) /\ Safe(high[r])
  BY <1>2 DEF ImportInv, PassOK
<1>4. Safe(watermark)'
  <2>1. CASE watermark' = watermark
    BY <1>1, <2>1, WatermarkStays
  <2>2. CASE watermark' = high[r]
    BY <1>1, <1>3, <2>2 DEF Safe, Visible, Imported, Stored, Since
  <2> QED
    BY <1>1, <2>1, <2>2
<1>5. Ordered(pending[r])' /\ \A e \in written'[r] : Stored(e)'
  BY <1>1 DEF ImportInv, PassOK, Ordered, Visible, Imported, Stored
<1>6. PassOK(r)'
  BY <1>2, <1>5 DEF PassOK
<1> QED
  BY <1>1, <1>2, <1>4, <1>6, OnePass

(* A replica that restarts holds nothing.                                   *)
LEMMA RestartKeeps ==
    ASSUME ImportInv, TypeOK', NEW r \in Replicas, Restart(r)
    PROVE  ImportInv'
<1>1. UNCHANGED <<now, stamp, docs, watermark>> /\ WorldMoves
  BY WorldStays DEF Restart, worldVars, storeVars, ImportInv
<1>2. /\ stage'[r] = "asleep" /\ pending'[r] = {} /\ written'[r] = {}
      /\ \A q \in Replicas \ {r} :
            /\ stage'[q] = stage[q] /\ read'[q] = read[q] /\ pending'[q] = pending[q]
            /\ written'[q] = written[q] /\ high'[q] = high[q]
  BY DEF Restart, EndPass, DropWork, ImportInv, TypeOK
<1>3. Safe(watermark)'
  BY <1>1, WatermarkStays
<1>4. PassOK(r)'
  BY <1>2 DEF PassOK, Ordered
<1> QED
  BY <1>1, <1>2, <1>3, <1>4, OnePass

-----------------------------------------------------------------------------
(* The invariant holds initially and every step keeps it.                   *)
LEMMA InitImport == Init => ImportInv
<1> SUFFICES ASSUME Init PROVE ImportInv
  OBVIOUS
<1>1. TypeOK
  BY InitType
<1>2. Visible = {} /\ watermark = 0 /\ now = 1 /\ \A b \in Blobs : stamp[b] = 0
  BY DEF Init, Visible
<1>3. Safe(watermark)
  BY <1>2 DEF Safe
<1>4. \A r \in Replicas : PassOK(r)
  BY DEF Init, PassOK, Ordered
<1> QED
  BY <1>1, <1>2, <1>3, <1>4 DEF ImportInv

LEMMA StepImport == ImportInv /\ [Next]_vars => ImportInv'
<1> SUFFICES ASSUME ImportInv, [Next]_vars PROVE ImportInv'
  OBVIOUS
<1>1. TypeOK'
  BY StepType DEF ImportInv
<1>2. CASE UNCHANGED vars
  BY <1>2 DEF ImportInv, TypeOK, PassOK, Safe, Ordered, Imported, Stored, Visible, Since,
              vars, worldVars, storeVars, passVars
<1>3. CASE Tick
  BY <1>1, <1>3, TickKeeps
<1>4. ASSUME NEW b \in Blobs, Publish(b) PROVE ImportInv'
  BY <1>1, <1>4, PublishKeeps
<1>5. ASSUME NEW r \in Replicas, Begin(r) \/ List(r) \/ Save(r) PROVE ImportInv'
  BY <1>1, <1>5, BeginKeeps, ListKeeps, SaveKeeps
<1>6. ASSUME NEW r \in Replicas, NEW b \in Blobs, CloseBlob(r, b) PROVE ImportInv'
  BY <1>1, <1>6, CloseBlobKeeps
<1>7. ASSUME NEW r \in Replicas, NEW b \in Blobs, NEW e \in Requests, Upsert(r, b, e)
      PROVE  ImportInv'
  BY <1>1, <1>7, UpsertKeeps
<1>8. ASSUME NEW r \in Replicas, LoopDies(r) \/ Abort(r) \/ Restart(r) PROVE ImportInv'
  BY <1>1, <1>8, LoopDiesKeeps, AbortKeeps, RestartKeeps
<1> QED
  BY <1>2, <1>3, <1>4, <1>5, <1>6, <1>7, <1>8 DEF Next, Progress

LEMMA ImportInvariant == Spec => []ImportInv
  BY InitImport, StepImport, PTL DEF Spec

(* No billing record falls behind the watermark that _write_watermark       *)
(* leaves, whichever replica's pass ends last, with whatever mark, and      *)
(* however many passes fail or restart half-way: the overlap covers it.     *)
THEOREM ImportLeavesNothingBehind == Spec => []NothingLeftBehind
<1>1. ImportInv => NothingLeftBehind
  BY DEF ImportInv, Safe, NothingLeftBehind
<1> QED
  BY <1>1, ImportInvariant, PTL

(* "The watermark only advances over blobs that actually landed": run_once  *)
(* raises high_water after the last upsert of a blob, in every interleaving.*)
THEOREM WatermarkIsALandedBlob == Spec => []WatermarkOnLandedBlob
<1>1. ImportInv => WatermarkOnLandedBlob
  BY DEF ImportInv, Safe, WatermarkOnLandedBlob
<1> QED
  BY <1>1, ImportInvariant, PTL
=============================================================================
