------------------------------ MODULE Pipeline ------------------------------
(***************************************************************************)
(* The request pipeline of the RADIUS server and its shutdown: HandleAuth *)
(* and HandleAccounting (src/unnamed/part_005), each run in a goroutine    *)
(* of its own per request, composed with the credential verifier, the     *)
(* policy engine's Evaluate and the accounting collector; Server.Shutdown *)
(* and App.Shutdown, which stop the listeners, wait for handlers under a  *)
(* 10 s context, close the collector and the store, and return, after     *)
(* which the process exits and goroutines still running are gone.         *)
(*                                                                         *)
(* The verifier is a single step here whose outcome is free: AuthService  *)
(* (which Verifier implements) states when each outcome happens.  Verify  *)
(* after Store.Close fails.  What prepared.Eval returns is a member of    *)
(* the set PolicyResults, and Evaluate's conversion of it is modelled.    *)
(* A Record fails when the collector is closed or the write fails; the    *)
(* day-file itself is the business of Accounting.                          *)
(***************************************************************************)
EXTENDS Integers, Sequences, SequencesExt, FiniteSets

CONSTANTS
  Procs,          \* one request, and its handler goroutine, per member
  PolicyResults,  \* what prepared.Eval may return for a request
  NonString,      \* a deny_reasons entry that is not a string
  NoDoc           \* the doc of a handler that has not evaluated

VARIABLES
  phase,          \* where App.Shutdown is
  expired,        \* the 10 s shutdown context is done
  collectorOpen,  \* Accounting.Close has not run
  storeOpen,      \* the store is open: NewStore succeeded, Close has not run
  listener,       \* each listener goroutine: "pending", "up" or "failed"
  kind,           \* "none", "auth" or "acct": the request of each handler
  hpc,            \* each handler's step
  verdict,        \* what Verify returned: "none", "error", "deny", "allow"
  doc,            \* what prepared.Eval returned, or NoDoc
  reply,          \* the packet the handler wrote, or "none"
  toReply,        \* the packet it is about to write
  pending,        \* the accounting event it is about to record
  log,            \* the events Record appended, in order
  recordFailed    \* Record returned an error to the handler

vars == <<phase, expired, collectorOpen, storeOpen, listener, kind, hpc, verdict, doc,
          reply, toReply, pending, log, recordFailed>>

server == <<phase, expired, collectorOpen, storeOpen, listener>>

Event(p, type, decision, reason) ==
  [req |-> p, type |-> type, decision |-> decision, reason |-> reason]

-----------------------------------------------------------------------------
(* Evaluate: the conversion of the query result to an AuthzResult.  An    *)
(* evaluation error is returned as an error; no result is a denial with   *)
(* reason no_policy_result; allow counts only when it is the boolean      *)
(* true; only the string entries of deny_reasons are kept.                *)

Evaluate(d) ==
  [err |-> d.status = "error",
   allow |-> d.status = "ok" /\ d.allow = "true",
   reasons |-> IF d.status = "empty" THEN <<"no_policy_result">>
               ELSE SelectSeq(d.reasons, LAMBDA r : r # NonString)]

(* The reason HandleAuth records for a policy denial.                      *)
DenyReason(r) == IF r.reasons # <<>> THEN Head(r.reasons) ELSE "policy_denied"

-----------------------------------------------------------------------------
(* HandleAuth.                                                             *)

InFlight(k) == {p \in Procs : kind[p] = k /\ hpc[p] \notin {"idle", "done"}}

Running == phase # "exited"

(* Decide the answer: sendReject or the Access-Accept comes next, then    *)
(* recordEvent.                                                            *)
Answer(p, packet, event) ==
  /\ hpc' = [hpc EXCEPT ![p] = "reply"]
  /\ toReply' = [toReply EXCEPT ![p] = packet]
  /\ pending' = [pending EXCEPT ![p] = event]

(* An Access-Request reaches the auth server while it still listens; a    *)
(* missing username or password is rejected at once.                      *)
AuthArrives(p) ==
  /\ phase = "serving" /\ listener["auth"] = "up" /\ kind[p] = "none"
  /\ kind' = [kind EXCEPT ![p] = "auth"]
  /\ \/ Answer(p, "reject", Event(p, "auth_failure", "DENY", "missing_username"))
     \/ Answer(p, "reject", Event(p, "auth_failure", "DENY", "missing_credential"))
     \/ hpc' = [hpc EXCEPT ![p] = "verify"] /\ UNCHANGED <<toReply, pending>>
  /\ UNCHANGED <<server, verdict, doc, reply, log, recordFailed>>

(* Step 1: h.verifier.Verify.  An error (every query fails once the store *)
(* is closed) is an internal_error, a denial carries the verifier's       *)
(* reason, an allowed result goes on to the policy.                        *)
Verify(p) ==
  /\ Running /\ hpc[p] = "verify"
  /\ \E v \in IF storeOpen THEN {"error", "deny", "allow"} ELSE {"error"} :
       /\ verdict' = [verdict EXCEPT ![p] = v]
       /\ CASE v = "error" -> Answer(p, "reject", Event(p, "auth_error", "DENY", "internal_error"))
            [] v = "deny"  -> Answer(p, "reject", Event(p, "auth_failure", "DENY", "verifier_reason"))
            [] v = "allow" -> hpc' = [hpc EXCEPT ![p] = "policy"] /\ UNCHANGED <<toReply, pending>>
  /\ UNCHANGED <<server, kind, doc, reply, log, recordFailed>>

(* Step 2: h.policyEng.Evaluate with authenticated = true.                 *)
Authorize(p) ==
  /\ Running /\ hpc[p] = "policy"
  /\ \E d \in PolicyResults :
       /\ doc' = [doc EXCEPT ![p] = d]
       /\ LET r == Evaluate(d) IN
            CASE r.err       -> Answer(p, "reject", Event(p, "auth_error", "DENY", "policy_error"))
              [] ~r.allow    -> Answer(p, "reject", Event(p, "auth_failure", "DENY", DenyReason(r)))
              [] OTHER       -> Answer(p, "accept", Event(p, "auth_success", "ALLOW", "authenticated"))
  /\ UNCHANGED <<server, kind, verdict, reply, log, recordFailed>>

(* w.Write of the answer (sendReject, or the Access-Accept of step 3).     *)
Reply(p) ==
  /\ Running /\ hpc[p] = "reply"
  /\ reply' = [reply EXCEPT ![p] = toReply[p]]
  /\ hpc' = [hpc EXCEPT ![p] = IF kind[p] = "auth" THEN "record" ELSE "done"]
  /\ UNCHANGED <<server, kind, verdict, doc, toReply, pending, log, recordFailed>>

(* recordEvent / the Record of HandleAccounting: under the collector's    *)
(* mutex the line is appended, or the write fails.  After Accounting.Close *)
(* the write to the closed file fails on the same day; on a later day     *)
(* rotate reopens a day-file and the line is appended (collector.go:116). *)
(* An error is only logged.                                                *)
Record(p) ==
  /\ Running /\ hpc[p] = "record"
  /\ \/ /\ collectorOpen
        /\ log' = Append(log, pending[p])
        /\ UNCHANGED recordFailed
     \/ /\ collectorOpen
        /\ recordFailed' = [recordFailed EXCEPT ![p] = TRUE]
        /\ UNCHANGED log
     \/ /\ ~collectorOpen
        /\ UNCHANGED <<log, recordFailed>>
     \/ /\ ~collectorOpen
        /\ log' = Append(log, pending[p])
        /\ UNCHANGED recordFailed
  /\ hpc' = [hpc EXCEPT ![p] = IF kind[p] = "auth" THEN "done" ELSE "reply"]
  /\ UNCHANGED <<server, kind, verdict, doc, reply, toReply, pending>>

(* HandleAccounting: the event is recorded first, then the                *)
(* Accounting-Response is sent whatever Record returned.                   *)
AcctArrives(p) ==
  /\ phase \in {"serving", "authDrain"} /\ listener["acct"] = "up"
  /\ kind[p] = "none"
  /\ kind' = [kind EXCEPT ![p] = "acct"]
  /\ hpc' = [hpc EXCEPT ![p] = "record"]
  /\ toReply' = [toReply EXCEPT ![p] = "acctResponse"]
  /\ pending' = [pending EXCEPT ![p] = Event(p, "acct", "none", "none")]
  /\ UNCHANGED <<server, verdict, doc, reply, log, recordFailed>>

-----------------------------------------------------------------------------
(* App.Shutdown, on SIGINT or SIGTERM.                                     *)

Handlers == <<kind, hpc, verdict, doc, reply, toReply, pending, log, recordFailed>>

(* cancelFunc, the 10 s context, and authServer.Shutdown closing the auth *)
(* listener.                                                               *)
Signal ==
  /\ phase = "serving" /\ phase' = "authDrain"
  /\ UNCHANGED <<expired, collectorOpen, storeOpen, listener>> /\ UNCHANGED Handlers

ShuttingDown ==
  {"authDrain", "acctDrain", "closeAcct", "finalBatch", "closeStore", "returned"}

(* The context's deadline passes while App.Shutdown runs.                  *)
Expire ==
  /\ phase \in ShuttingDown /\ ~expired /\ expired' = TRUE
  /\ UNCHANGED <<phase, collectorOpen, storeOpen, listener>> /\ UNCHANGED Handlers

(* authServer.Shutdown returns when no auth handler is active or the      *)
(* context is done; then the accounting listener is closed.               *)
AuthServerShutdown ==
  /\ phase = "authDrain" /\ (InFlight("auth") = {} \/ expired)
  /\ phase' = "acctDrain"
  /\ UNCHANGED <<expired, collectorOpen, storeOpen, listener>> /\ UNCHANGED Handlers

(* Mutant: the accounting listener closed without waiting for handlers.  *)
AcctServerShutdownNoWait ==
  /\ phase = "acctDrain"
  /\ phase' = "closeAcct"
  /\ UNCHANGED <<expired, collectorOpen, storeOpen, listener>> /\ UNCHANGED Handlers

(* acctServer.Shutdown likewise; s.wg.Wait then returns at once, as both  *)
(* ListenAndServe calls have returned.                                     *)
AcctServerShutdown ==
  /\ phase = "acctDrain" /\ (InFlight("acct") = {} \/ expired)
  /\ phase' = "closeAcct"
  /\ UNCHANGED <<expired, collectorOpen, storeOpen, listener>> /\ UNCHANGED Handlers

(* Step 2: Accounting.Close.                                               *)
CloseAccounting ==
  /\ phase = "closeAcct" /\ phase' = "finalBatch" /\ collectorOpen' = FALSE
  /\ UNCHANGED <<expired, storeOpen, listener>> /\ UNCHANGED Handlers

(* Step 3: the final BuildBatch, which changes nothing of this model.      *)
FinalBatch ==
  /\ phase = "finalBatch" /\ phase' = "closeStore"
  /\ UNCHANGED <<expired, collectorOpen, storeOpen, listener>> /\ UNCHANGED Handlers

(* Step 4: Store.Close; App.Shutdown returns.                              *)
CloseStore ==
  /\ phase = "closeStore" /\ phase' = "returned" /\ storeOpen' = FALSE
  /\ UNCHANGED <<expired, collectorOpen, listener>> /\ UNCHANGED Handlers

(* Start returns, main returns, and the process exits: handler goroutines *)
(* still running stop where they are.                                      *)
Exit ==
  /\ phase = "returned" /\ phase' = "exited"
  /\ UNCHANGED <<expired, collectorOpen, storeOpen, listener>> /\ UNCHANGED Handlers

-----------------------------------------------------------------------------
(* App.New and App.Start.                                                 *)

(* store.NewStore; NewVerifier keeps only references.                    *)
NewStore ==
  /\ phase = "new"
  /\ \/ phase' = "exited" /\ UNCHANGED storeOpen
     \/ phase' = "engine" /\ storeOpen' = TRUE
  /\ UNCHANGED <<expired, collectorOpen, listener>> /\ UNCHANGED Handlers

(* policy.NewEngine: load globs the *.rego files of the policy directory *)
(* and fails on a glob error, no file, an unreadable file or a module    *)
(* that does not compile; New then closes the store and returns.         *)
NewEngine ==
  /\ phase = "engine"
  /\ \/ phase' = "exited" /\ storeOpen' = FALSE
     \/ phase' = "collector" /\ UNCHANGED storeOpen
  /\ UNCHANGED <<expired, collectorOpen, listener>> /\ UNCHANGED Handlers

(* accounting.NewCollector: MkdirAll and the open of today's file; on    *)
(* failure New closes the store.  NewBatcher and NewServer keep only     *)
(* settings (NewBatcher's MkdirAll is unchecked).                         *)
NewCollector ==
  /\ phase = "collector"
  /\ \/ phase' = "exited" /\ storeOpen' = FALSE /\ UNCHANGED collectorOpen
     \/ phase' = "start" /\ collectorOpen' = TRUE /\ UNCHANGED storeOpen
  /\ UNCHANGED <<expired, listener>> /\ UNCHANGED Handlers

(* App.Start: Radius.Start builds the two PacketServers, starts one      *)
(* goroutine per listener and returns nil at once, so the error path of  *)
(* App.Start is never taken; the background goroutines start and Start   *)
(* waits for a signal.                                                    *)
AppStart ==
  /\ phase = "start" /\ phase' = "serving"
  /\ UNCHANGED <<expired, collectorOpen, storeOpen, listener>> /\ UNCHANGED Handlers

(* A listener goroutine's ListenAndServe binds its UDP port and serves,  *)
(* or fails and the error is only logged.  Once its PacketServer's       *)
(* Shutdown has run, ListenAndServe returns without serving.             *)
Listen(k) ==
  /\ listener[k] = "pending"
  /\ phase \in IF k = "auth" THEN {"serving"} ELSE {"serving", "authDrain"}
  /\ \E o \in {"up", "failed"} : listener' = [listener EXCEPT ![k] = o]
  /\ UNCHANGED <<phase, expired, collectorOpen, storeOpen>> /\ UNCHANGED Handlers

Init ==
  /\ phase = "new" /\ expired = FALSE
  /\ collectorOpen = FALSE /\ storeOpen = FALSE
  /\ listener = [k \in {"auth", "acct"} |-> "pending"]
  /\ kind = [p \in Procs |-> "none"]
  /\ hpc = [p \in Procs |-> "idle"]
  /\ verdict = [p \in Procs |-> "none"]
  /\ doc = [p \in Procs |-> NoDoc]
  /\ reply = [p \in Procs |-> "none"]
  /\ toReply = [p \in Procs |-> "none"]
  /\ pending = [p \in Procs |-> Event(p, "none", "none", "none")]
  /\ log = <<>>
  /\ recordFailed = [p \in Procs |-> FALSE]

Next ==
  \/ \E p \in Procs :
       AuthArrives(p) \/ AcctArrives(p) \/ Verify(p) \/ Authorize(p)
       \/ Reply(p) \/ Record(p)
  \/ NewStore \/ NewEngine \/ NewCollector \/ AppStart
  \/ \E k \in {"auth", "acct"} : Listen(k)
  \/ Signal \/ Expire \/ AuthServerShutdown \/ AcctServerShutdown
  \/ CloseAccounting \/ FinalBatch \/ CloseStore \/ Exit

Spec == Init /\ [][Next]_vars

-----------------------------------------------------------------------------
(* Properties.                                                             *)

TypeOK ==
  /\ phase \in {"new", "engine", "collector", "start",
                "serving", "authDrain", "acctDrain", "closeAcct", "finalBatch",
                "closeStore", "returned", "exited"}
  /\ expired \in BOOLEAN /\ collectorOpen \in BOOLEAN /\ storeOpen \in BOOLEAN
  /\ listener \in [{"auth", "acct"} -> {"pending", "up", "failed"}]
  /\ kind \in [Procs -> {"none", "auth", "acct"}]
  /\ hpc \in [Procs -> {"idle", "verify", "policy", "reply", "record", "done"}]
  /\ verdict \in [Procs -> {"none", "error", "deny", "allow"}]
  /\ doc \in [Procs -> PolicyResults \cup {NoDoc}]
  /\ reply \in [Procs -> {"none", "accept", "reject", "acctResponse"}]
  /\ log \in Seq([req : Procs, type : STRING, decision : STRING, reason : STRING])
  /\ recordFailed \in [Procs -> BOOLEAN]

(* Orderly shutdown loses no audit event: if every handler finishes       *)
(* before the 10 s context of App.Shutdown is done, then when the process *)
(* exits every request that reached a listener (including accounting     *)
(* requests accepted while the auth server drains) has been answered and *)
(* has exactly one event in the log, unless its write itself failed.      *)
OrderlyShutdownAuditsAll ==
  (phase = "exited" /\ ~expired) =>
    \A p \in Procs : kind[p] # "none" =>
      /\ hpc[p] = "done" /\ reply[p] # "none"
      /\ \/ recordFailed[p]
         \/ Cardinality({i \in DOMAIN log : log[i].req = p}) = 1

=============================================================================
