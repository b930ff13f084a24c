--------------------------- MODULE UsageDocuments ---------------------------
(***************************************************************************)
(* What a usage document is: how the importer turns an event of a hub into *)
(* one (app/services/usage_capture_import.py, billing.py) and how the      *)
(* reports read and fold documents (app/services/usage_ingest.py,          *)
(* app/api/usage.py).                                                      *)
(*                                                                         *)
(* Instants are counted in ticks of UTC, money in nano-AIU, 1e-11 USD,     *)
(* which is the precision documents keep.  An event is a record            *)
(*   id, sub, route, hub   a name, or Null where the hub sent none;        *)
(*   at                    when the call was made (the hub's own clock);   *)
(*   ts                    [local, offset] as stamped, Null if malformed;  *)
(*   counts                the hub's own count of each kind of token;      *)
(*   aiu                   copilot_usage: the total, or Null, and the      *)
(*                         token count of each token_type; Null if absent; *)
(*   status                the HTTP status, Null if there is none.         *)
(* An event one of whose numbers int() refuses raises here and fails the   *)
(* import of its blob; UsageImport has that failure.                       *)
(***************************************************************************)
EXTENDS Integers, FiniteSets, FiniteSetsExt, Functions

CONSTANTS
    Null,        \* a value the event or the document does not have
    Unknown,     \* the name "unknown"
    Markup,      \* ModelRoute.markup_pct in percent, by model name
    HourTicks,   \* ticks of an hour
    DayHours,    \* hours of a day
    MonthTicks   \* ticks of a month

ASSUME DocumentsAssumption ==
    /\ HourTicks \in Nat \ {0} /\ DayHours \in Nat \ {0} /\ MonthTicks \in Nat \ {0}
    /\ \A m \in DOMAIN Markup : Markup[m] \in Nat
    /\ Null # Unknown

TokenFields == {"prompt_tok", "completion_tok", "cached_tok", "cache_write_tok"}

TokenTypeFields ==
    [input |-> "prompt_tok", output |-> "completion_tok",
     cache_read |-> "cached_tok", cache_write |-> "cache_write_tok"]

NoTokens == [f \in TokenFields |-> 0]

Or(value, fallback) == IF value = Null THEN fallback ELSE value

(* Mutant of ParseTs: the offset is kept instead of converted. *)
ParseTsLocal(ts, present) == IF ts = Null THEN present ELSE ts.local

(* A timestamp without an offset is taken for UTC, a malformed one for now. *)
ParseTs(ts, present) == IF ts = Null THEN present ELSE ts.local - ts.offset

(* Counts of a token_type the table does not know are dropped. *)
UpstreamTokens(aiu) ==
    [f \in TokenFields |->
        IF aiu = Null THEN 0
        ELSE SumFunctionOnSet(aiu.details,
                 {t \in DOMAIN aiu.details \cap DOMAIN TokenTypeFields :
                     TokenTypeFields[t] = f})]

(* Upstream's split where it says anything, else the hub's counts, which know
   no cache writes. *)
EventTokens(e) ==
    IF UpstreamTokens(e.aiu) # NoTokens
    THEN UpstreamTokens(e.aiu)
    ELSE [f \in TokenFields |-> IF f = "cache_write_tok" THEN 0 ELSE e.counts[f]]

(* A total of 0 is an answer; an absent one is not. *)
Priced(aiu) == aiu # Null /\ aiu.total # Null

(* cost_usd times 1 + markup_pct, to the nearest unit; a model without a row
   has no markup. *)
Billed(cost, model) ==
    LET pct == IF model \in DOMAIN Markup THEN Markup[model] ELSE 0
    IN  (cost * (100 + pct) + 50) \div 100

MonthOf(ts) == ts \div MonthTicks

(* event_to_document of an event that has a request id. *)
Document(e, present) ==
    LET ts    == ParseTs(e.ts, present)
        sub   == Or(e.sub, Unknown)
        route == Or(e.route, Unknown)
        cost  == IF Priced(e.aiu) THEN e.aiu.total ELSE 0
    IN  [id |-> e.id, pk |-> <<sub, MonthOf(ts)>>, ts |-> ts, sub |-> sub,
         route |-> route, hub |-> e.hub,
         status |-> Or(e.status, 0), flat |-> TRUE, tok |-> EventTokens(e),
         cost |-> cost, billed |-> Billed(cost, route),
         source |-> IF Priced(e.aiu) THEN "copilot_usage" ELSE "unpriced"]

-----------------------------------------------------------------------------
(* Reading documents.  A document of the retired gateway policy is not      *)
(* flat: its tokens are nested in raw_response, it has no cost, no status   *)
(* and no cost_source.                                                      *)

(* _extract_tokens and _extract_cache_write, which know both shapes; ... *)
ExtractTokens(d) == d.tok

(* ... the aggregates read the columns only. *)
ColumnTokens(d) == IF d.flat THEN d.tok ELSE NoTokens

Failed(d) == d.status # Null /\ d.status >= 400

TotalOf(field(_), S) == SumFunction([d \in S |-> field(d)])

(* _accumulate over all of S, from _blank. *)
Aggregate(S) ==
    LET failed == {d \in S : Failed(d)}
    IN  [calls |-> Cardinality(S),
         ok |-> Cardinality(S \ failed),
         byStatus |-> [s \in {d.status : d \in failed} |->
                          Cardinality({d \in failed : d.status = s})],
         tok |-> [f \in TokenFields |-> TotalOf(LAMBDA d : ColumnTokens(d)[f], S)],
         cost |-> TotalOf(LAMBDA d : d.cost, S),
         billed |-> TotalOf(LAMBDA d : d.billed, S)]

(* _summarize: no cache columns, no calls.  The sums are shown rounded to four
   decimals, which is left out. *)
Summary(S) ==
    [prompt |-> TotalOf(LAMBDA d : ExtractTokens(d)["prompt_tok"], S),
     completion |-> TotalOf(LAMBDA d : ExtractTokens(d)["completion_tok"], S),
     cost |-> TotalOf(LAMBDA d : d.cost, S),
     billed |-> TotalOf(LAMBDA d : d.billed, S)]

(* _to_record_view; owned says that the key's project is known. *)
RecordView(d, owned) ==
    [id |-> d.id, ts |-> d.ts, sub |-> d.sub, owned |-> owned, status |-> d.status,
     tok |-> ExtractTokens(d), cost |-> d.cost, billed |-> d.billed,
     source |-> d.source]

-----------------------------------------------------------------------------
(* Order and buckets.                                                       *)

(* Mutant of Later: the oldest documents come first. *)
LaterOldestFirst(d, c) == c.ts > d.ts \/ (c.ts = d.ts /\ c.id > d.id)

(* ORDER BY c.ts DESC; documents of one instant come in a fixed order. *)
Later(d, c) == d.ts > c.ts \/ (d.ts = c.ts /\ d.id > c.id)

(* OFFSET skip LIMIT n of that order. *)
Slice(S, skip, n) ==
    {c \in S : Cardinality({d \in S : Later(d, c)}) \in skip..(skip + n - 1)}

(* The start of the hour, or of the day, an instant is in. *)
StartOf(ts, step) == (ts \div step) * step
=============================================================================
