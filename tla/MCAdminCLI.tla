----------------------------- MODULE MCAdminCLI -----------------------------
(***************************************************************************)
(* Model-checking instance of AdminCLI: two CLI processes, one of which   *)
(* also runs `install`, two usernames, one power loss, and enough key     *)
(* pairs for every invocation.                                            *)
(***************************************************************************)
EXTENDS AdminCLI, TLC

CONSTANTS a1, a2, n1, n2, k1, k2, k3, k4

MCAdmins == {a1, a2}
MCInstallers == {a1}
MCUsernames == {n1, n2}
MCKeys == {k1, k2, k3, k4}

(* Usernames and key pairs are each interchangeable; the processes are   *)
(* not, as only a1 runs `install`.                                        *)
MCSymmetry == Permutations(MCUsernames) \cup Permutations(MCKeys)
=============================================================================
