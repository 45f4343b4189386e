------------------------------ MODULE MCRuntime ------------------------------
(***************************************************************************)
(* Three rows of earlier days, one of them of another scope and no longer  *)
(* decodable, one with a secret reference.  Texts just within the limit of *)
(* a read, above it, and above the limit of the clipboard.  What happens   *)
(* in one behaviour is bounded by one of the budgets.                      *)
(***************************************************************************)
EXTENDS Runtime, TLC

MCContents == {"short", "long", "huge"}
MCLength == ("short" :> 2) @@ ("long" :> 3) @@ ("huge" :> 9)
MCMedia == {"text/plain; charset=utf-8", "image/png"}
MCPlainText == {"text/plain; charset=utf-8"}
MCScopes == {"scope.personal", "scope.other"}

Ref(c, class) ==
  [sha256 |-> c, media |-> "text/plain; charset=utf-8", length |-> Length[c],
   compressed |-> FALSE, local |-> TRUE, class |-> class]
ApiRow(n, scope, sensitivity, refs, fault) ==
  [id |-> [source |-> "api", n |-> n], scope |-> scope, sensitivity |-> sensitivity,
   refs |-> refs, fault |-> fault, at |-> 0]

MCFound ==
  <<ApiRow(1, "scope.personal", 1, <<Ref("short", NormalRef)>>, None),
    ApiRow(2, "scope.other", 0, <<Ref("short", NormalRef)>>, "envelope"),
    ApiRow(3, "scope.personal", 0, <<Ref("short", SecretRef), Ref("short", NormalRef)>>, None)>>

Read(source, n, sha) ==
  [op |-> "read", token |-> TRUE, id |-> [source |-> source, n |-> n], sha256 |-> sha]

MCRequests ==
  {[op |-> "unsupported"],
   [op |-> "submit", row |-> ApiRow(4, "scope.personal", 0, <<Ref("long", NormalRef)>>, None)],
   Read("api", 1, "short"), Read("api", 2, "short"), Read("api", 3, "short"),
   Read("clipboard", 4, "short"), [Read("api", 1, "short") EXCEPT !.token = FALSE]}

MCPolicies ==
  {NoPolicy, InvalidPolicy, MetadataProfile({"scope.personal"}),
   SensitiveProfile({"scope.personal"})}

Allow(copies, changes, requests, faults) ==
  [copies |-> copies, changes |-> changes, requests |-> requests, faults |-> faults]
MCBudgets ==
  {Allow(2, 0, 0, 1), Allow(1, 0, 0, 2), Allow(1, 0, 1, 0), Allow(0, 0, 2, 1),
   Allow(0, 2, 0, 1), Allow(0, 1, 0, 2)}
=============================================================================
