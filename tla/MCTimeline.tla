------------------------------ MODULE MCTimeline ------------------------------
(***************************************************************************)
(* Eight records: three at one instant, hidden ones between visible ones,  *)
(* one of another scope, one outside a half-open range, one whose payload  *)
(* is withheld with a secret reference, one that does not decode and one   *)
(* that is over the page budget by itself.                                 *)
(***************************************************************************)
EXTENDS Timeline

Rec(id, at, scope, sensitivity, refs) ==
  [id |-> id, at |-> at, scope |-> scope, sensitivity |-> sensitivity, refs |-> refs,
   decodes |-> TRUE, bulky |-> FALSE]

MCScopes == {"personal", "other"}

MCRecords ==
  {Rec(5, 1, "personal", 0, <<>>),
   Rec(2, 1, "personal", 1, <<1, 2>>),
   Rec(9, 1, "personal", 2, <<>>),
   Rec(1, 2, "personal", 2, <<>>),
   Rec(7, 3, "personal", 0, <<1, 0>>),
   Rec(3, 2, "other", 0, <<>>),
   [Rec(4, 0, "personal", 2, <<>>) EXCEPT !.decodes = FALSE],
   [Rec(6, 2, "personal", 2, <<1, 1, 1, 1>>) EXCEPT !.bulky = TRUE]}

Ask(scope, start, end, limit) ==
  [token |-> TRUE, scope |-> scope, start |-> start, end |-> end, limit |-> limit]

MCQueries ==
  {Ask("personal", None, None, 1), Ask("personal", None, None, 2), Ask("personal", 1, 3, 3),
   Ask("other", None, None, 1), [Ask("personal", None, None, 1) EXCEPT !.token = FALSE]}

(* The two profiles of from_environment.                                   *)
MCPolicies ==
  {[scopes |-> {"personal"}, grant |-> [sensitivity |-> 0, retrieval |-> 0, payload |-> FALSE]],
   [scopes |-> {"personal"}, grant |-> [sensitivity |-> 2, retrieval |-> 1, payload |-> TRUE]]}
=============================================================================
