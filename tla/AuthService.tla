----------------------------- MODULE AuthService -----------------------------
(***************************************************************************)
(* What the credential verifier promises its caller, HandleAuth: each      *)
(* request is decided in one atomic step, against the identity store as   *)
(* it is at that step, and every decision is justified by the store and    *)
(* the clock.  How the decision is reached (the order of the checks, the  *)
(* separate SQLite queries, the nonce cache and its pruner) is hidden.     *)
(*                                                                         *)
(* The store operations that run beside the verifier (user creation,      *)
(* revocation, clients minting tokens, the clock) are those of Verifier,  *)
(* whose abstractions this module shares: a user's DID and key pair are   *)
(* named by the username.  Verifier is shown to implement this            *)
(* specification by the refinement mapping in Verifier.tla.               *)
(*                                                                         *)
(* At-most-once acceptance of a nonce is not promised here: the verifier  *)
(* does not provide it (see NonceAcceptedAtMostOnce in Verifier).         *)
(***************************************************************************)
EXTENDS Integers

CONSTANTS Procs, Usernames, Nonces, Malformed, TTL, Skew, MaxTime,
          MaxRequests, MaxRevocations, StoreMayFail

VARIABLES
  now, users, revocations, issued, requests,
  pc,             \* "idle", "busy" (inside Verify) or "done"
  req, res,
  allowed,        \* nonces of every token allowed so far
  arrivedRevoked  \* whether the requested user was revoked on arrival

vars == <<now, users, revocations, issued, requests, pc, req, res, allowed,
          arrivedRevoked>>

store == <<now, users, revocations, issued>>
requestVars == <<requests, pc, req, res, allowed, arrivedRevoked>>

Token == [ts : Int, nonce : Nonces, uname : Usernames, signer : Usernames]

Reasons == {"invalid_credential", "internal_error", "user_not_found",
            "username_mismatch", "invalid_signature", "credential_future",
            "credential_expired", "nonce_replay", "user_revoked"}

(* A token that decodes, was issued for u, is signed with u's key and is   *)
(* inside its validity window on the server clock.                         *)
ValidFor(u, t) ==
  /\ t # Malformed
  /\ t.uname = u /\ t.signer = u
  /\ -Skew <= now - t.ts /\ now - t.ts <= TTL + Skew

(* The results the verifier may return for request p in the current      *)
(* state.  A refusal names a reason that holds; a replay is refused only  *)
(* for a nonce that was allowed before; ALLOW needs a valid token of an   *)
(* existing user who had not been revoked when the request arrived.       *)
Justified(p, r) ==
  LET u == req[p].user
      t == req[p].tok
  IN CASE r = "ALLOW"              -> ValidFor(u, t) /\ u \in users
                                       /\ ~arrivedRevoked[p]
       [] r = "invalid_credential" -> t = Malformed
       [] r = "internal_error"     -> StoreMayFail
       [] r = "user_not_found"     -> u \notin users
       [] r = "username_mismatch"  -> t # Malformed /\ t.uname # u
       [] r = "invalid_signature"  -> t # Malformed /\ t.signer # u
       [] r = "credential_future"  -> t # Malformed /\ now - t.ts < -Skew
       [] r = "credential_expired" -> t # Malformed /\ now - t.ts > TTL + Skew
       [] r = "nonce_replay"       -> t # Malformed /\ t.nonce \in allowed
       [] r = "user_revoked"       -> u \in users /\ revocations[u] > 0
       [] OTHER                    -> FALSE

-----------------------------------------------------------------------------
(* The environment of the verifier.                                        *)

Tick ==
  /\ now < MaxTime /\ now' = now + 1
  /\ UNCHANGED <<users, revocations, issued>> /\ UNCHANGED requestVars

CreateCredential(k, u) ==
  /\ UNCHANGED <<now, users, revocations>> /\ UNCHANGED requestVars
  /\ \E n \in Nonces \ {t.nonce : t \in issued}, ts \in now..(now + Skew + 1) :
       issued' = issued \cup {[ts |-> ts, nonce |-> n, uname |-> u, signer |-> k]}

AddUser(u) ==
  /\ u \notin users /\ users' = users \cup {u}
  /\ UNCHANGED <<now, revocations, issued>> /\ UNCHANGED requestVars

RevokeUser(u) ==
  /\ u \in users /\ revocations[u] < MaxRevocations
  /\ revocations' = [revocations EXCEPT ![u] = @ + 1]
  /\ UNCHANGED <<now, users, issued>> /\ UNCHANGED requestVars

-----------------------------------------------------------------------------
(* A request arrives, and is later decided in one step.                    *)

Receive(p) ==
  /\ pc[p] \in {"idle", "done"} /\ requests < MaxRequests
  /\ \E u \in Usernames, t \in issued \cup {Malformed} :
       /\ req' = [req EXCEPT ![p] = [user |-> u, tok |-> t]]
       /\ arrivedRevoked' = [arrivedRevoked EXCEPT ![p] = revocations[u] > 0]
  /\ requests' = requests + 1
  /\ pc' = [pc EXCEPT ![p] = "busy"]
  /\ res' = [res EXCEPT ![p] = "none"]
  /\ UNCHANGED store /\ UNCHANGED allowed

Decide(p) ==
  /\ pc[p] = "busy"
  /\ pc' = [pc EXCEPT ![p] = "done"]
  /\ \E r \in Reasons \cup {"ALLOW"} :
       /\ Justified(p, r)
       /\ res' = [res EXCEPT ![p] = r]
       /\ allowed' = IF r = "ALLOW" THEN allowed \cup {req[p].tok.nonce}
                                    ELSE allowed
  /\ UNCHANGED store /\ UNCHANGED <<requests, req, arrivedRevoked>>

Init ==
  /\ now = 0 /\ users = {} /\ issued = {} /\ requests = 0
  /\ revocations = [u \in Usernames |-> 0]
  /\ pc = [p \in Procs |-> "idle"]
  /\ req = [p \in Procs |-> [user |-> CHOOSE u \in Usernames : TRUE, tok |-> Malformed]]
  /\ res = [p \in Procs |-> "none"]
  /\ allowed = {}
  /\ arrivedRevoked = [p \in Procs |-> FALSE]

Next ==
  \/ Tick
  \/ \E k, u \in Usernames : CreateCredential(k, u)
  \/ \E u \in Usernames : AddUser(u) \/ RevokeUser(u)
  \/ \E p \in Procs : Receive(p) \/ Decide(p)

Spec == Init /\ [][Next]_vars

=============================================================================
