--------------------------- MODULE MCUsageReports ---------------------------
(* A model-checking instance of UsageReports. *)
EXTENDS UsageReports, TLC

CONSTANTS k1, k2, k3, t1, t2, h1, m1, m2, openai, google

MCTenantOf == k1 :> t1 @@ k2 :> t2 @@ k3 :> t1

MCMarkup == m1 :> 20

(* The hub counted 2 tokens of a kind; upstream may say something else. *)
HubCounts == [prompt_tok |-> 2, completion_tok |-> 2, cached_tok |-> 2]

Upstream(total, details) == [total |-> total, details |-> details]

(* Four calls: one stamped with an offset, one upstream refused, one with a
   malformed timestamp, one the gateway itself turned away. *)
MCCalls ==
    {[id |-> 1, sub |-> k1, at |-> 5, ts |-> [local |-> 7, offset |-> 2], route |-> m1,
      api |-> openai, hub |-> h1, status |-> 200, counts |-> HubCounts,
      aiu |-> Upstream(5, [input |-> 3, cache_write |-> 1, other |-> 4])],
     [id |-> 2, sub |-> k2, at |-> 6, ts |-> [local |-> 5, offset |-> -1], route |-> m1,
      api |-> google, hub |-> Null, status |-> 429, counts |-> HubCounts, aiu |-> Null],
     [id |-> 3, sub |-> k3, at |-> 7, ts |-> Null, route |-> m2,
      api |-> google, hub |-> h1, status |-> Null, counts |-> HubCounts,
      aiu |-> Upstream(7, [output |-> 1])],
     [id |-> Null, at |-> 7, api |-> openai, status |-> 503]}

(* One document of the retired policy. *)
MCLegacy ==
    {[id |-> 9, pk |-> <<k1, 0>>, ts |-> 1, sub |-> k1, route |-> m1, hub |-> Null,
      status |-> Null, flat |-> FALSE,
      tok |-> [NoTokens EXCEPT !["prompt_tok"] = 4],
      cost |-> 0, billed |-> 0, source |-> Null]}
=============================================================================
