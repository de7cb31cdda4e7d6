------------------------------ MODULE AdminCLI ------------------------------
(***************************************************************************)
(* The administration commands of the CLI, each run as its own process   *)
(* against one data directory: `install` (internal/cli/install.go),      *)
(* `users add` and `users revoke` (internal/cli/users.go).  SQLite runs  *)
(* each statement, and RevokeUser's transaction, atomically and durably,  *)
(* but nothing holds between a command's check and its act.              *)
(*                                                                         *)
(* A key pair is a model value of Keys, each returned once by            *)
(* GenerateKeypair; the DID is EncodeDIDKey of the public key, so it is   *)
(* unique exactly when the key is, and a DID stored or written is shown   *)
(* as its key.  A revocation row, keyed by DID, is counted against the    *)
(* one user holding that DID.  No command deletes a user.                 *)
(*                                                                         *)
(* Files are written with os.WriteFile (open with O_TRUNC, then write)    *)
(* and never fsynced: a file is Torn when the write failed after the open *)
(* or when power was lost before the kernel wrote it back, and a power    *)
(* loss may also drop a file not yet written back.  Output, the sample    *)
(* token, node_name and the wording of the files are left out.            *)
(***************************************************************************)
EXTENDS Naturals, FiniteSets

CONSTANTS
  Admins,       \* concurrent CLI processes
  Usernames,
  Keys,         \* the key pairs GenerateKeypair can return
  NoUser,       \* no row in the users table
  Installers,   \* the processes that run `install`
  NoKey,        \* no such file (and no node_did row)
  Torn,         \* a file whose content does not parse
  MaxCommands,  \* bound on the number of CLI invocations
  MaxCrashes    \* bound on power losses

VARIABLES
  users,        \* users table: NoUser or [pub, revoked] per username
  revocations,  \* number of revocation rows for each user's DID
  keyFile,      \* <data>/keys/<username>.pem: a key, NoKey or Torn
  nodeKey,      \* <data>/node_key.pem: a key, NoKey or Torn
  nodeDID,      \* the node_did row of node_info: a key or NoKey
  config,       \* the config file: the node DID written in it, NoKey or Torn
  policy,       \* <policy>/default.rego: "rego", NoKey or Torn
  dirtyKeys,    \* users whose key file is not yet on disk
  dirtyNode,    \* node files ("key", "config", "policy") not yet on disk
  crashes,      \* power losses so far
  generated,    \* keys GenerateKeypair has returned
  commands,     \* CLI invocations so far
  cpc,          \* each process's step
  cuser,        \* the username argument of its command
  ckey          \* the key pair its runUsersAdd generated, or the node
                \* key its runInstall loaded

vars == <<users, revocations, keyFile, nodeKey, nodeDID, config, policy,
          dirtyKeys, dirtyNode, crashes, generated, commands, cpc, cuser, ckey>>

db == <<users, revocations, keyFile, dirtyKeys>>
node == <<nodeKey, nodeDID, config, policy, dirtyNode>>

NodeFiles == {"key", "config", "policy"}

TypeOK ==
  /\ users \in [Usernames -> {NoUser} \cup [pub : Keys, revoked : BOOLEAN]]
  /\ revocations \in [Usernames -> Nat]
  /\ keyFile \in [Usernames -> Keys \cup {NoKey, Torn}]
  /\ nodeKey \in Keys \cup {NoKey, Torn} /\ nodeDID \in Keys \cup {NoKey}
  /\ config \in Keys \cup {NoKey, Torn} /\ policy \in {"rego", NoKey, Torn}
  /\ dirtyKeys \subseteq Usernames /\ dirtyNode \subseteq NodeFiles
  /\ generated \subseteq Keys
  /\ cpc \in [Admins -> {"idle", "addCheck", "gen", "insert", "save",
                         "revokeCheck", "revoke", "keyCheck", "keyGen", "initDB",
                         "config", "policy", "done", "ok"}]

Goto(a, s) == cpc' = [cpc EXCEPT ![a] = s]

(* os.WriteFile once its open succeeded, as SavePrivateKey calls it: the  *)
(* content is written, or the write fails and leaves the file Torn.       *)
WriteFile(v) == {Torn, v}

(* LoadPublicKey: the file is read, PEM-decoded and parsed as a PKCS#8    *)
(* Ed25519 key; a missing or torn file fails.                             *)
LoadsKey(f) == f \in Keys

-----------------------------------------------------------------------------
(* A command starts: openStore loads the configuration and opens the     *)
(* database, and fails if either does.                                    *)
Start(a, u, first) ==
  /\ cpc[a] \in {"idle", "done", "ok"} /\ commands < MaxCommands
  /\ commands' = commands + 1
  /\ cuser' = [cuser EXCEPT ![a] = u]
  /\ \/ Goto(a, "done")
     \/ Goto(a, first)
  /\ UNCHANGED <<node, crashes, db, generated, ckey>>

(* Store.GetUserByUsername: the username has a row (no row is nil, nil). *)
UserExists(u) == users[u] # NoUser

(* runUsersAdd: GetUserByUsername; an error or an existing user ends the *)
(* command.                                                               *)
AddCheck(a) ==
  /\ cpc[a] = "addCheck"
  /\ \/ Goto(a, "done")
     \/ UserExists(cuser[a]) /\ Goto(a, "done")
     \/ ~UserExists(cuser[a]) /\ Goto(a, "gen")
  /\ UNCHANGED <<node, crashes, db, generated, commands, cuser, ckey>>

(* Mutant: the private key file written as soon as the key is generated, *)
(* before the user is stored.                                             *)
GenerateSavingKey(a) ==
  /\ cpc[a] = "gen"
  /\ \/ Goto(a, "done") /\ UNCHANGED <<generated, ckey, keyFile, dirtyKeys>>
     \/ \E k \in Keys \ generated :
          /\ generated' = generated \cup {k}
          /\ ckey' = [ckey EXCEPT ![a] = k]
          /\ keyFile' = [keyFile EXCEPT ![cuser[a]] = k]
          /\ dirtyKeys' = dirtyKeys \cup {cuser[a]}
          /\ Goto(a, "insert")
  /\ UNCHANGED <<node, crashes, users, revocations, commands, cuser>>

(* GenerateKeypair: a fresh Ed25519 key pair, or an error from the       *)
(* random source.                                                         *)
Generate(a) ==
  /\ cpc[a] = "gen"
  /\ \/ Goto(a, "done") /\ UNCHANGED <<generated, ckey>>
     \/ \E k \in Keys \ generated :
          /\ generated' = generated \cup {k}
          /\ ckey' = [ckey EXCEPT ![a] = k]
          /\ Goto(a, "insert")
  /\ UNCHANGED <<node, crashes, db, commands, cuser>>

(* Store.AddUser: the INSERT fails on the UNIQUE username when another   *)
(* process stored the user since the check, or on a database error.      *)
Insert(a) ==
  /\ cpc[a] = "insert"
  /\ LET u == cuser[a] IN
       \/ users[u] # NoUser /\ Goto(a, "done") /\ UNCHANGED users
       \/ users[u] = NoUser /\ Goto(a, "done") /\ UNCHANGED users
       \/ /\ users[u] = NoUser
          /\ users' = [users EXCEPT ![u] = [pub |-> ckey[a], revoked |-> FALSE]]
          /\ Goto(a, "save")
  /\ UNCHANGED <<node, crashes, revocations, keyFile, dirtyKeys, generated, commands, cuser, ckey>>

(* SavePrivateKey writes <data>/keys/<username>.pem, replacing any file  *)
(* there: the open fails (the MkdirAll before it is unchecked, so a      *)
(* missing directory shows here), or the write fails after the open and   *)
(* leaves the file Torn, or the key is written.  CreateCredential cannot *)
(* fail on a generated key, and the command ends.                         *)
Save(a) ==
  /\ cpc[a] = "save"
  /\ LET u == cuser[a] IN
       \/ UNCHANGED <<keyFile, dirtyKeys>>
       \/ /\ \E v \in WriteFile(ckey[a]) : keyFile' = [keyFile EXCEPT ![u] = v]
          /\ dirtyKeys' = dirtyKeys \cup {u}
  /\ Goto(a, "done")
  /\ UNCHANGED <<node, crashes, users, revocations, generated, commands, cuser, ckey>>

(* runUsersRevoke: GetUserByUsername; an error, a missing user or one    *)
(* whose revoked_at is set ends the command.                              *)
RevokeCheck(a) ==
  /\ cpc[a] = "revokeCheck"
  /\ LET u == cuser[a] IN
       \/ Goto(a, "done")
       \/ ~UserExists(u) /\ Goto(a, "done")
       \/ UserExists(u) /\ users[u].revoked /\ Goto(a, "done")
       \/ UserExists(u) /\ ~users[u].revoked /\ Goto(a, "revoke")
  /\ UNCHANGED <<node, crashes, db, generated, commands, cuser, ckey>>

(* Mutant: the UPDATE and the INSERT run outside a transaction, so a     *)
(* failing INSERT leaves revoked_at set with no revocation row.           *)
RevokeUserNoTx(a) ==
  /\ cpc[a] = "revoke"
  /\ LET u == cuser[a] IN
       \/ UNCHANGED <<users, revocations>>
       \/ users' = [users EXCEPT ![u].revoked = TRUE] /\ UNCHANGED revocations
       \/ /\ users' = [users EXCEPT ![u].revoked = TRUE]
          /\ revocations' = [revocations EXCEPT ![u] = @ + 1]
  /\ Goto(a, "done")
  /\ UNCHANGED <<node, crashes, keyFile, dirtyKeys, generated, commands, cuser, ckey>>

(* Store.RevokeUser, one transaction: read the user's DID, set revoked_at *)
(* (again, if another process set it since the check) and append a        *)
(* revocation row; any failing statement rolls the whole back.  The user *)
(* the check found is still there, as no command deletes one.            *)
RevokeUser(a) ==
  /\ cpc[a] = "revoke"
  /\ LET u == cuser[a] IN
       \/ UNCHANGED <<users, revocations>>
       \/ /\ users' = [users EXCEPT ![u].revoked = TRUE]
          /\ revocations' = [revocations EXCEPT ![u] = @ + 1]
  /\ Goto(a, "done")
  /\ UNCHANGED <<node, crashes, keyFile, dirtyKeys, generated, commands, cuser, ckey>>

-----------------------------------------------------------------------------
(* runInstall                                                             *)

(* The command starts: config.Load and EnsureDirectories, either of which *)
(* can fail and end it.                                                   *)
StartInstall(a) ==
  /\ a \in Installers
  /\ cpc[a] \in {"idle", "done", "ok"} /\ commands < MaxCommands
  /\ commands' = commands + 1
  /\ \/ Goto(a, "done")
     \/ Goto(a, "keyCheck")
  /\ UNCHANGED <<node, crashes, db, generated, cuser, ckey>>

(* Step 2, os.Stat of node_key.pem: an existing file is kept, and one    *)
(* LoadPublicKey cannot parse ends the command; a missing one is made.   *)
KeyCheck(a) ==
  /\ cpc[a] = "keyCheck"
  /\ \/ nodeKey = NoKey /\ Goto(a, "keyGen")
     \/ nodeKey # NoKey /\ ~LoadsKey(nodeKey) /\ Goto(a, "done")
     \/ LoadsKey(nodeKey) /\ Goto(a, "initDB")
  /\ UNCHANGED <<node, crashes, db, generated, commands, cuser, ckey>>

(* GenerateKeypair, then SavePrivateKey with os.WriteFile over whatever  *)
(* is at the path by now: the open fails, or the write fails after it and *)
(* leaves the file Torn, or the key is written.                           *)
KeyGen(a) ==
  /\ cpc[a] = "keyGen"
  /\ \/ Goto(a, "done") /\ UNCHANGED <<generated, nodeKey, dirtyNode>>
     \/ \E k \in Keys \ generated :
          /\ generated' = generated \cup {k}
          /\ \/ Goto(a, "done") /\ UNCHANGED <<nodeKey, dirtyNode>>
             \/ /\ nodeKey' \in WriteFile(k)
                /\ dirtyNode' = dirtyNode \cup {"key"}
                /\ Goto(a, IF nodeKey' = k THEN "initDB" ELSE "done")
  /\ UNCHANGED <<nodeDID, config, policy, crashes, db, commands, cuser, ckey>>

(* Mutant: node_did is written with INSERT OR IGNORE, keeping a value   *)
(* from an earlier installation.                                          *)
InitDBKeepingDID(a) ==
  /\ cpc[a] = "initDB"
  /\ \/ Goto(a, "done") /\ UNCHANGED <<nodeDID, ckey>>
     \/ ~LoadsKey(nodeKey) /\ Goto(a, "done") /\ UNCHANGED <<nodeDID, ckey>>
     \/ /\ LoadsKey(nodeKey)
        /\ nodeDID' = IF nodeDID = NoKey THEN nodeKey ELSE nodeDID
        /\ ckey' = [ckey EXCEPT ![a] = nodeKey]
        /\ Goto(a, "done") \/ Goto(a, "config")
  /\ UNCHANGED <<nodeKey, config, policy, dirtyNode, crashes, db, generated,
                 commands, cuser>>

(* Step 3: NewStore, LoadPublicKey of the key file as it is now, and the *)
(* upsert of node_did (then node_name); each can fail and end the        *)
(* command, the node_name one after node_did is stored.                   *)
InitDB(a) ==
  /\ cpc[a] = "initDB"
  /\ \/ Goto(a, "done") /\ UNCHANGED <<nodeDID, ckey>>
     \/ ~LoadsKey(nodeKey) /\ Goto(a, "done") /\ UNCHANGED <<nodeDID, ckey>>
     \/ /\ LoadsKey(nodeKey)
        /\ nodeDID' = nodeKey
        /\ ckey' = [ckey EXCEPT ![a] = nodeKey]
        /\ Goto(a, "done") \/ Goto(a, "config")
  /\ UNCHANGED <<nodeKey, config, policy, dirtyNode, crashes, db, generated,
                 commands, cuser>>

(* Step 4: a config file that exists is kept; otherwise MkdirAll (whose  *)
(* failure ends the command) and os.WriteFile with the DID loaded in step *)
(* 3, whose failure, leaving no file or a Torn one, is only a warning.    *)
WriteConfig(a) ==
  /\ cpc[a] = "config"
  /\ \/ config # NoKey /\ Goto(a, "policy") /\ UNCHANGED <<config, dirtyNode>>
     \/ config = NoKey /\ Goto(a, "done") /\ UNCHANGED <<config, dirtyNode>>
     \/ config = NoKey /\ Goto(a, "policy") /\ UNCHANGED <<config, dirtyNode>>
     \/ /\ config = NoKey
        /\ config' \in WriteFile(ckey[a])
        /\ dirtyNode' = dirtyNode \cup {"config"}
        /\ Goto(a, "policy")
  /\ UNCHANGED <<nodeKey, nodeDID, policy, crashes, db, generated, commands,
                 cuser, ckey>>

(* Step 5: default.rego is written unless it exists; a failed write ends *)
(* the command, and a successful one, or an existing file, completes it.  *)
WritePolicy(a) ==
  /\ cpc[a] = "policy"
  /\ \/ policy # NoKey /\ Goto(a, "ok") /\ UNCHANGED <<policy, dirtyNode>>
     \/ policy = NoKey /\ Goto(a, "done") /\ UNCHANGED <<policy, dirtyNode>>
     \/ /\ policy = NoKey
        /\ policy' \in WriteFile("rego")
        /\ Goto(a, IF policy' = "rego" THEN "ok" ELSE "done")
        /\ dirtyNode' = dirtyNode \cup {"policy"}
  /\ UNCHANGED <<nodeKey, nodeDID, config, crashes, db, generated, commands,
                 cuser, ckey>>

-----------------------------------------------------------------------------
(* The machine                                                            *)

(* The kernel writes a file back to disk.                                 *)
WritebackKey(u) ==
  /\ u \in dirtyKeys
  /\ dirtyKeys' = dirtyKeys \ {u}
  /\ UNCHANGED <<users, revocations, keyFile, node, crashes, generated,
                 commands, cpc, cuser, ckey>>

WritebackNode(f) ==
  /\ f \in dirtyNode
  /\ dirtyNode' = dirtyNode \ {f}
  /\ UNCHANGED <<nodeKey, nodeDID, config, policy, db, crashes, generated,
                 commands, cpc, cuser, ckey>>

(* What a file not yet on disk holds after a power loss: nothing, a torn *)
(* content, or what was written.                                          *)
AfterLoss(v, dirty) == IF dirty THEN {NoKey, Torn, v} ELSE {v}

(* Power loss: every process dies; the database keeps its committed      *)
(* statements and each file not written back is lost, torn or kept.      *)
Crash ==
  /\ crashes < MaxCrashes
  /\ crashes' = crashes + 1
  /\ keyFile' \in {f \in [Usernames -> Keys \cup {NoKey, Torn}] :
                     \A u \in Usernames : f[u] \in AfterLoss(keyFile[u], u \in dirtyKeys)}
  /\ nodeKey' \in AfterLoss(nodeKey, "key" \in dirtyNode)
  /\ config' \in AfterLoss(config, "config" \in dirtyNode)
  /\ policy' \in AfterLoss(policy, "policy" \in dirtyNode)
  /\ dirtyKeys' = {} /\ dirtyNode' = {}
  /\ cpc' = [a \in Admins |-> "idle"]
  /\ UNCHANGED <<users, revocations, nodeDID, generated, commands, cuser, ckey>>

-----------------------------------------------------------------------------
Init ==
  /\ users = [u \in Usernames |-> NoUser]
  /\ revocations = [u \in Usernames |-> 0]
  /\ keyFile = [u \in Usernames |-> NoKey]
  /\ nodeKey = NoKey /\ nodeDID = NoKey /\ config = NoKey /\ policy = NoKey
  /\ dirtyKeys = {} /\ dirtyNode = {}
  /\ crashes = 0
  /\ generated = {}
  /\ commands = 0
  /\ cpc = [a \in Admins |-> "idle"]
  /\ cuser = [a \in Admins |-> CHOOSE u \in Usernames : TRUE]
  /\ ckey = [a \in Admins |-> CHOOSE k \in Keys : TRUE]

Next ==
  \/ \E a \in Admins, u \in Usernames :
       Start(a, u, "addCheck") \/ Start(a, u, "revokeCheck")
  \/ \E a \in Admins :
       \/ AddCheck(a) \/ Generate(a) \/ Insert(a) \/ Save(a)
       \/ RevokeCheck(a) \/ RevokeUser(a)
       \/ StartInstall(a) \/ KeyCheck(a) \/ KeyGen(a) \/ InitDB(a)
       \/ WriteConfig(a) \/ WritePolicy(a)
  \/ \E u \in Usernames : WritebackKey(u)
  \/ \E f \in NodeFiles : WritebackNode(f)
  \/ Crash

Spec == Init /\ [][Next]_vars

-----------------------------------------------------------------------------
(* The private key in a user's key file is the one whose public key the  *)
(* users table holds for that user: two `users add` of one name racing   *)
(* past the existence check never leave the loser's key in the file,     *)
(* because runUsersAdd saves the key only after its INSERT succeeded; a  *)
(* torn or lost file, after a failed write or a power loss, holds no key. *)
KeyFileMatchesStore ==
  \A u \in Usernames :
    LoadsKey(keyFile[u]) => users[u] # NoUser /\ users[u].pub = keyFile[u]

(* A user's revoked_at is set exactly when a revocation row exists for   *)
(* the user's DID (spec section 3), whatever statements of RevokeUser fail:    *)
(* the listing (revoked_at) and the verifier (IsRevoked) agree.          *)
RevokedIffRevocationRow ==
  \A u \in Usernames :
    IF users[u] = NoUser THEN revocations[u] = 0
    ELSE users[u].revoked <=> revocations[u] > 0

(* When `install` reports success, node_info's node_did is the DID of the *)
(* key in node_key.pem, even when the node key was lost and made anew by *)
(* this run after an earlier run had stored the old DID: runInstall loads *)
(* the key again and upserts node_did.                                    *)
NodeDIDIsNodeKey ==
  [][\A a \in Admins : (cpc[a] # "ok" /\ cpc'[a] = "ok") => nodeDID' = nodeKey']_vars

(* revoke_user fails if the user is already revoked (spec 4.3), so a     *)
(* user has at most one revocation row.                                   *)
AtMostOneRevocation == \A u \in Usernames : revocations[u] <= 1

=============================================================================
