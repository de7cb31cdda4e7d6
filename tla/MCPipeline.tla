----------------------------- MODULE MCPipeline -----------------------------
(***************************************************************************)
(* Model-checking instance of Pipeline: three requests, and the shapes of *)
(* result prepared.Eval can return for the query data.soholink.authz.     *)
(***************************************************************************)
EXTENDS Pipeline, TLC

CONSTANTS r1, r2, r3

MCProcs == {r1, r2, r3}

(* Requests are interchangeable. *)
MCSymmetry == Permutations(MCProcs)

(* An evaluation error, no result, or an authz object whose allow is true, *)
(* false, absent or not a boolean, and whose deny_reasons are absent,      *)
(* string entries or contain a non-string.                                 *)
MCPolicyResults ==
  {[status |-> "error", allow |-> "absent", reasons |-> <<>>],
   [status |-> "empty", allow |-> "absent", reasons |-> <<>>]}
  \cup [status : {"ok"}, allow : {"true", "false", "absent", "nonbool"},
        reasons : {<<>>, <<"no_did">>, <<NonString, "no_did">>}]

MCNoDoc == [status |-> "none", allow |-> "absent", reasons |-> <<>>]
=============================================================================
