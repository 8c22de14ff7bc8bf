---------------------------- MODULE MCDimsApprove ----------------------------
(* Small instances of DimsApprove.  The race: two calls, by threads of one  *)
(* process or of two, on one product with an each and a carton unit of      *)
(* measure, with requests that agree, overlap or are disjoint, one with a   *)
(* value that cannot be written.  The gates: one call under every           *)
(* configuration, owner and token.  In both, an edit by somebody else may   *)
(* take the place of a call.                                                *)
EXTENDS DimsApprove

CONSTANTS ea, ct, len, wgt, v1, v2, p1, c1, c3, r1, r2, other

TwoProcesses == [c \in Callers |-> IF c = c3 THEN r2 ELSE r1]

Ask(u, captured) ==
  [id |-> p1, uom |-> u, captured |-> captured, live |-> TRUE, token |-> "matching"]

RaceRequests ==
  { Ask(ea, [f \in {len} |-> v1]),
    Ask(ea, [f \in {wgt} |-> v2]),
    Ask(ea, [f \in {len, wgt} |-> IF f = len THEN v2 ELSE NaN]),
    Ask(ea, [f \in {len, wgt} |-> v2]),
    Ask(ct, [f \in {len, wgt} |-> v1]) }

Uniform(x) == [i \in Ids |-> [u \in Uoms |-> [f \in Fields |-> x]]]
OpenConfig ==
  [write_enabled |-> TRUE, secret_set |-> TRUE, allowlist |-> {Sandbox},
   live_promotion |-> FALSE, client_enabled |-> TRUE]

Races ==
  { [config |-> OpenConfig, owner |-> [i \in Ids |-> Sandbox],
     store |-> Uniform(x), asks |-> [c \in Callers |-> RaceRequests]] : x \in {Unset, v1} }

GateRequests ==
  [id : Ids, uom : {ea}, captured : {[f \in {len} |-> v1]}, live : BOOLEAN, token : Tokens]

Gateways ==
  { [config |-> k, owner |-> o, store |-> Uniform(x),
     asks |-> [c \in Callers |-> IF c = c1 THEN GateRequests ELSE {}]] :
      k \in Configs, o \in [Ids -> Customers \union {NoCustomer}], x \in {Unset, v1} }

MCSituations == Races \union Gateways
=============================================================================
