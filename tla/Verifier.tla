------------------------------ MODULE Verifier ------------------------------
(***************************************************************************)
(* The offline credential verifier (Verifier.Verify) running concurrently  *)
(* for several RADIUS requests against the identity store (users,          *)
(* revocations, nonce_cache), together with the operations that change the *)
(* store underneath it: user creation, revocation, the periodic nonce      *)
(* pruner of the application, and clients minting credential tokens.      *)
(*                                                                         *)
(* Abstraction.  A user's DID and public key are identified with the       *)
(* username: every account is created with a fresh key pair (runUsersAdd), *)
(* so "the token was signed with the key resolved for user u" is           *)
(* signer = u.  SHA3 digests are the names they digest, signatures are the *)
(* name of the signing key.  Time is whole seconds, as in the store, which *)
(* writes seen_at with CURRENT_TIMESTAMP and compares against a cutoff     *)
(* formatted to the second.                                                *)
(*                                                                         *)
(* Every store query of Verify is a step of its own, because each is a     *)
(* separate round-trip to SQLite and other requests interleave between     *)
(* them; the local checks between two queries (username digest, key       *)
(* resolution, signature, clock) happen inside the step of the query      *)
(* that precedes them.                                                     *)
(***************************************************************************)
EXTENDS Integers, FiniteSets

CONSTANTS
  Procs,          \* request handler goroutines of the RADIUS auth server
  Usernames,      \* usernames, each also naming its holder's key pair
  Nonces,         \* 8-byte token nonces
  Malformed,      \* a token string that does not decode to 84 bytes
  NotSeen,        \* a nonce absent from nonce_cache
  TTL,            \* auth.credential_ttl
  Skew,           \* clock skew tolerance of the verifier
  MaxNonceAge,    \* auth.max_nonce_age: the pruner's period and cutoff
  MaxTime,        \* bound on the server clock
  MaxRequests,    \* bound on the requests handled in one behaviour
  MaxRevocations, \* bound on revocation rows per identifier
  StoreMayFail,   \* whether a store query may return an error
  RecordMayFail   \* whether RecordNonce's INSERT may return an error

ASSUME /\ {TTL, Skew, MaxNonceAge, MaxTime, MaxRequests, MaxRevocations} \subseteq Nat
       /\ StoreMayFail \in BOOLEAN /\ RecordMayFail \in BOOLEAN

VARIABLES
  now,          \* the server clock, time.Now() in seconds
  users,        \* usernames with a row in the users table
  revocations,  \* number of rows in revocations for each user's DID
  nonceCache,   \* nonce_cache: seen_at of each nonce, or NotSeen
  issued,       \* tokens minted so far by CreateCredential(AtTime)
  requests,     \* number of requests handled so far
  pc,           \* where each handler is in Verify
  req,          \* the (username, token) each handler is verifying
  res,          \* each handler's VerifyResult: "ALLOW" or a deny reason
  \* history, read only by the properties
  accepted,     \* nonces of tokens whose acceptance has been returned
  allowCount,   \* how many times each nonce has been accepted
  startAccepted,\* accepted, as it was when each handler's request arrived
  startRevoked, \* whether the requested user was revoked on arrival
  revokedBeforeCheck \* ... or by a RevokeUser before the handler's step 8

vars == <<now, users, revocations, nonceCache, issued, requests, pc, req,
          res, accepted, allowCount, startAccepted, startRevoked,
          revokedBeforeCheck>>

Time == 0..MaxTime

(* A decoded 84-byte token: timestamp, nonce, username digest, signer.     *)
Token == [ts : Int, nonce : Nonces, uname : Usernames, signer : Usernames]

Reasons == {"invalid_credential", "internal_error", "user_not_found",
            "username_mismatch", "invalid_signature", "credential_future",
            "credential_expired", "nonce_replay", "user_revoked"}

-----------------------------------------------------------------------------
(* Clients.                                                                *)

(* CreateCredential / CreateCredentialAtTime: the holder of key k signs a  *)
(* token for username u (any name, not only k's own) with a fresh random   *)
(* nonce, stamped by the client's clock.  A clock ahead of the server's    *)
(* gives a timestamp up to Skew + 1 ahead; a clock behind it is the same   *)
(* as minting the token earlier.                                           *)
CreateCredential(k, u) ==
  \E n \in Nonces \ {t.nonce : t \in issued}, ts \in now..(now + Skew + 1) :
      /\ issued' = issued \cup {[ts |-> ts, nonce |-> n, uname |-> u, signer |-> k]}
      /\ UNCHANGED <<now, users, revocations, nonceCache, requests, pc, req,
                     res, accepted, allowCount, startAccepted, startRevoked, revokedBeforeCheck>>

-----------------------------------------------------------------------------
(* Store operations not issued by the verifier.                            *)

(* The clock advances in units of the skew tolerance (300 s by default).  *)
(* A Verify call, a few local SQLite queries, takes far less than that:    *)
(* the clock does not move while a handler is inside Verify.               *)
InVerify == {p \in Procs : pc[p] \notin {"idle", "done"}}

Tick ==
  /\ now < MaxTime
  /\ InVerify = {}
  /\ now' = now + 1
  /\ UNCHANGED <<users, revocations, nonceCache, issued, requests, pc, req,
                 res, accepted, allowCount, startAccepted, startRevoked, revokedBeforeCheck>>

(* AddUser: the INSERT fails on the UNIQUE username (and DID) constraint.  *)
AddUser(u) ==
  /\ u \notin users
  /\ users' = users \cup {u}
  /\ UNCHANGED <<now, revocations, nonceCache, issued, requests, pc, req,
                 res, accepted, allowCount, startAccepted, startRevoked, revokedBeforeCheck>>

(* Handlers inside Verify that have not yet run the revocation query.     *)
BeforeStep8(p) == pc[p] \in {"lookup", "checkNonce", "checkRevoked"}

(* RevokeUser: one transaction that finds the user's DID, sets revoked_at  *)
(* and inserts a revocation row.  It does not refuse a user that is        *)
(* already revoked: every call appends another row.                        *)
RevokeUser(u) ==
  /\ u \in users
  /\ revocations[u] < MaxRevocations
  /\ revocations' = [revocations EXCEPT ![u] = @ + 1]
  /\ revokedBeforeCheck' =
       [p \in Procs |-> revokedBeforeCheck[p] \/ (BeforeStep8(p) /\ req[p].user = u)]
  /\ UNCHANGED <<now, users, nonceCache, issued, requests, pc, req,
                 res, accepted, allowCount, startAccepted, startRevoked>>

(* Mutant: the pruner's cutoff taken as inclusive.                        *)
ExpiredInclusive(n) ==
  nonceCache[n] # NotSeen /\ nonceCache[n] <= now - MaxNonceAge

(* The DELETE condition of PruneExpiredNonces(ctx, maxAge):                *)
(* seen_at < now - maxAge.                                                 *)
Expired(n) ==
  nonceCache[n] # NotSeen /\ nonceCache[n] < now - MaxNonceAge

(* One tick of startNoncePruner: PruneExpiredNonces with the configured    *)
(* max_nonce_age as the retention.                                         *)
PruneExpiredNonces ==
  /\ nonceCache' = [n \in Nonces |-> IF Expired(n) THEN NotSeen ELSE nonceCache[n]]
  /\ UNCHANGED <<now, users, revocations, issued, requests, pc, req,
                 res, accepted, allowCount, startAccepted, startRevoked, revokedBeforeCheck>>

-----------------------------------------------------------------------------
(* Verify(ctx, username, token), one handler at a time.                    *)

(* A RADIUS Access-Request arrives with a non-empty username and token.    *)
Receive(p) ==
  /\ pc[p] \in {"idle", "done"}
  /\ requests < MaxRequests
  /\ \E u \in Usernames, t \in issued \cup {Malformed} :
       /\ req' = [req EXCEPT ![p] = [user |-> u, tok |-> t]]
       /\ startRevoked' = [startRevoked EXCEPT ![p] = revocations[u] > 0]
       /\ revokedBeforeCheck' = [revokedBeforeCheck EXCEPT ![p] = revocations[u] > 0]
  /\ requests' = requests + 1
  /\ pc' = [pc EXCEPT ![p] = "lookup"]
  /\ res' = [res EXCEPT ![p] = "none"]
  /\ startAccepted' = [startAccepted EXCEPT ![p] = accepted]
  /\ UNCHANGED <<now, users, revocations, nonceCache, issued, accepted, allowCount>>

Deny(p, reason) ==
  /\ pc' = [pc EXCEPT ![p] = "done"]
  /\ res' = [res EXCEPT ![p] = reason]

(* A store query of handler p returns an error: Verify returns             *)
(* deny("internal_error") together with the error.                         *)
QueryFails(p) ==
  /\ StoreMayFail
  /\ pc[p] \in {"lookup", "checkNonce", "checkRevoked"}
  /\ Deny(p, "internal_error")
  /\ UNCHANGED <<now, users, revocations, nonceCache, issued, requests, req,
                 accepted, allowCount, startAccepted, startRevoked, revokedBeforeCheck>>

(* Mutant: the expiry check without the skew tolerance.                   *)
LookupVerdictExpiryNoSkew(u, t) ==
  CASE t = Malformed                 -> "invalid_credential"
    [] u \notin users                -> "user_not_found"
    [] t.uname # u                   -> "username_mismatch"
    [] t.signer # u                  -> "invalid_signature"
    [] now - t.ts < -Skew            -> "credential_future"
    [] now - t.ts > TTL              -> "credential_expired"
    [] OTHER                         -> "ok"

(* Steps 1 to 6 in the order of the code; the first that fails decides.    *)
LookupVerdict(u, t) ==
  CASE t = Malformed                 -> "invalid_credential"
    [] u \notin users                -> "user_not_found"
    [] t.uname # u                   -> "username_mismatch"
    [] t.signer # u                  -> "invalid_signature"
    [] now - t.ts < -Skew            -> "credential_future"
    [] now - t.ts > TTL + Skew       -> "credential_expired"
    [] OTHER                         -> "ok"

(* ParseCredential, GetUserByUsername, then the digest comparison, key     *)
(* resolution, ed25519.Verify and the clock checks on the fetched row.     *)
Lookup(p) ==
  /\ pc[p] = "lookup"
  /\ LET v == LookupVerdict(req[p].user, req[p].tok) IN
       IF v = "ok" THEN /\ pc' = [pc EXCEPT ![p] = "checkNonce"]
                        /\ UNCHANGED res
                   ELSE Deny(p, v)
  /\ UNCHANGED <<now, users, revocations, nonceCache, issued, requests, req,
                 accepted, allowCount, startAccepted, startRevoked, revokedBeforeCheck>>

(* Store.CheckNonce: the count of the nonce's nonce_cache rows is > 0.   *)
NonceSeen(n) == nonceCache[n] # NotSeen

(* Store.IsRevoked: the count of the DID's revocation rows is > 0.      *)
IsRevoked(u) == revocations[u] > 0

(* Store.RecordNonce: INSERT OR IGNORE keeps an existing row's seen_at.    *)
InsertOrIgnore(n, t) == [nonceCache EXCEPT ![n] = IF @ = NotSeen THEN t ELSE @]

(* Step 7: CheckNonce counts the nonce's rows in nonce_cache.              *)
CheckNonce(p) ==
  /\ pc[p] = "checkNonce"
  /\ IF NonceSeen(req[p].tok.nonce)
       THEN Deny(p, "nonce_replay")
       ELSE /\ pc' = [pc EXCEPT ![p] = "checkRevoked"]
            /\ UNCHANGED res
  /\ UNCHANGED <<now, users, revocations, nonceCache, issued, requests, req,
                 accepted, allowCount, startAccepted, startRevoked, revokedBeforeCheck>>

(* Mutant: the revocation status decided from what was known when the    *)
(* request arrived (a cached status, or the row fetched at step 2).       *)
CheckRevokedAtArrival(p) ==
  /\ pc[p] = "checkRevoked"
  /\ IF startRevoked[p]
       THEN Deny(p, "user_revoked")
       ELSE /\ pc' = [pc EXCEPT ![p] = "recordNonce"]
            /\ UNCHANGED res
  /\ UNCHANGED <<now, users, revocations, nonceCache, issued, requests, req,
                 accepted, allowCount, startAccepted, startRevoked, revokedBeforeCheck>>

(* Step 8: IsRevoked counts the DID's rows in revocations.                 *)
CheckRevoked(p) ==
  /\ pc[p] = "checkRevoked"
  /\ IF IsRevoked(req[p].user)
       THEN Deny(p, "user_revoked")
       ELSE /\ pc' = [pc EXCEPT ![p] = "recordNonce"]
            /\ UNCHANGED res
  /\ UNCHANGED <<now, users, revocations, nonceCache, issued, requests, req,
                 accepted, allowCount, startAccepted, startRevoked, revokedBeforeCheck>>

Accept(p) ==
  LET n == req[p].tok.nonce IN
  /\ pc' = [pc EXCEPT ![p] = "done"]
  /\ res' = [res EXCEPT ![p] = "ALLOW"]
  /\ accepted' = accepted \cup {n}
  /\ allowCount' = [allowCount EXCEPT ![n] = @ + 1]

(* Mutant: seen_at taken from the credential's timestamp, not the clock.  *)
RecordNonceAtTokenTime(p) ==
  LET n == req[p].tok.nonce IN
  /\ pc[p] = "recordNonce"
  /\ nonceCache' = InsertOrIgnore(n, req[p].tok.ts)
  /\ Accept(p)
  /\ UNCHANGED <<now, users, revocations, issued, requests, req,
                 startAccepted, startRevoked, revokedBeforeCheck>>

(* Step 9: RecordNonce runs INSERT OR IGNORE (an existing row keeps its    *)
(* seen_at), and Verify returns the allowed result.                        *)
RecordNonce(p) ==
  LET n == req[p].tok.nonce IN
  /\ pc[p] = "recordNonce"
  /\ nonceCache' = InsertOrIgnore(n, now)
  /\ Accept(p)
  /\ UNCHANGED <<now, users, revocations, issued, requests, req,
                 startAccepted, startRevoked, revokedBeforeCheck>>

(* The INSERT returns an error; Verify discards it and still allows.       *)
RecordNonceFails(p) ==
  /\ RecordMayFail
  /\ pc[p] = "recordNonce"
  /\ Accept(p)
  /\ UNCHANGED <<now, users, revocations, nonceCache, issued, requests, req,
                 startAccepted, startRevoked, revokedBeforeCheck>>

-----------------------------------------------------------------------------
Init ==
  /\ now = 0
  /\ users = {}
  /\ revocations = [u \in Usernames |-> 0]
  /\ nonceCache = [n \in Nonces |-> NotSeen]
  /\ issued = {}
  /\ requests = 0
  /\ pc = [p \in Procs |-> "idle"]
  /\ req = [p \in Procs |-> [user |-> CHOOSE u \in Usernames : TRUE, tok |-> Malformed]]
  /\ res = [p \in Procs |-> "none"]
  /\ accepted = {}
  /\ allowCount = [n \in Nonces |-> 0]
  /\ startAccepted = [p \in Procs |-> {}]
  /\ startRevoked = [p \in Procs |-> FALSE]
  /\ revokedBeforeCheck = [p \in Procs |-> FALSE]

(* Every bound is reached and every handler has returned.                  *)
Finished ==
  /\ requests = MaxRequests
  /\ now = MaxTime
  /\ \A p \in Procs : pc[p] = "done"
  /\ UNCHANGED vars

Next ==
  \/ Tick
  \/ PruneExpiredNonces
  \/ \E k, u \in Usernames : CreateCredential(k, u)
  \/ \E u \in Usernames : AddUser(u) \/ RevokeUser(u)
  \/ \E p \in Procs :
       \/ Receive(p) \/ Lookup(p) \/ CheckNonce(p) \/ CheckRevoked(p)
       \/ RecordNonce(p) \/ RecordNonceFails(p) \/ QueryFails(p)
  \/ Finished

Spec == Init /\ [][Next]_vars

-----------------------------------------------------------------------------
(* Properties.                                                             *)

TypeOK ==
  /\ now \in Time
  /\ users \subseteq Usernames
  /\ revocations \in [Usernames -> 0..MaxRevocations]
  /\ nonceCache \in [Nonces -> Time \cup {NotSeen}]
  /\ issued \subseteq Token
  /\ requests \in 0..MaxRequests
  /\ pc \in [Procs -> {"idle", "lookup", "checkNonce", "checkRevoked",
                       "recordNonce", "done"}]
  /\ res \in [Procs -> Reasons \cup {"ALLOW", "none"}]
  /\ accepted \subseteq Nonces
  /\ allowCount \in [Nonces -> Nat]

(* Replay protection across requests: a token whose acceptance Verify has  *)
(* already returned is never accepted again by a request that arrives      *)
(* afterwards, however long the token stays inside its validity window.   *)
(* This is what the nonce_cache, RecordNonce and the pruner's retention    *)
(* together must guarantee.                                                *)
NoReplayAfterAcceptance ==
  \A p \in Procs :
    res[p] = "ALLOW" => req[p].tok.nonce \notin startAccepted[p]

(* The spec's nonce invariant: a nonce is accepted at most once, also when *)
(* two requests carrying the same token are verified at the same time.     *)
NonceAcceptedAtMostOnce ==
  \A n \in Nonces : allowCount[n] <= 1

(* Revocation takes effect immediately (spec section 8: "a user revoked  *)
(* between steps 3 and 8 must still deny"): a request is never allowed    *)
(* when its user was revoked before it arrived or by a RevokeUser that     *)
(* committed while Verify was between its user lookup and its revocation  *)
(* query, although the user row was fetched before the revocation.       *)
RevokedUserNeverAdmitted ==
  \A p \in Procs : res[p] = "ALLOW" => ~revokedBeforeCheck[p]

-----------------------------------------------------------------------------
(* Refinement.  Verify is one Decide step of AuthService, taken at the     *)
(* step of Verify that sets the result; the steps between its queries are *)
(* internal, and the nonce cache and the pruner are hidden.               *)

AbstractPc == [p \in Procs |-> IF pc[p] \in {"idle", "done"} THEN pc[p] ELSE "busy"]

Abstract == INSTANCE AuthService
              WITH pc <- AbstractPc, allowed <- accepted,
                   arrivedRevoked <- startRevoked

(* Verify, split at its SQLite queries and interleaved with other         *)
(* handlers, revocations and the pruner, implements the atomic service:  *)
(* every result it returns is justified by the store at the step it is    *)
(* returned, and its internal steps change nothing the caller sees.      *)
ImplementsAuthService == Abstract!Spec

=============================================================================
