------------------------------ MODULE Compressor ------------------------------
(***************************************************************************)
(* CompressOldLogs and compressFile of internal/accounting/collector.go,  *)
(* run by App.startLogCompressor every 24 hours, on a machine that may    *)
(* crash and a file system whose calls may fail.                          *)
(*                                                                         *)
(* For every day-file f, src[f] says whether f.jsonl exists, gz[f] what   *)
(* f.jsonl.gz holds as the OS shows it ("none", a "partial" stream, or a  *)
(* "complete" one) and gzSynced[f] whether that content has been fsynced. *)
(* A crash keeps a synced .gz; an unsynced one may be gone, truncated, or *)
(* (if the kernel wrote it back) complete.  Unlinks are taken to be       *)
(* durable.  Day-files older than compress_after_days are the set Old;    *)
(* files whose names are not dates are not modelled (they are skipped).   *)
(***************************************************************************)
EXTENDS Integers, Sequences, SequencesExt

CONSTANTS
  Files,        \* day-files in the accounting directory
  Old,          \* those whose date is before the cutoff
  Order,        \* the directory order os.ReadDir returns (by name)
  MayFail,      \* whether copy, fsync and unlink may return an error
  MaxCrashes,   \* bound on crashes
  MaxFailures   \* bound on failed calls

ASSUME /\ Old \subseteq Files
       /\ Order \in Seq(Files) /\ ToSet(Order) = Files /\ Len(Order) = Cardinality(Files)
       /\ MayFail \in BOOLEAN /\ MaxCrashes \in Nat /\ MaxFailures \in Nat

VARIABLES
  src,       \* f.jsonl exists
  gz,        \* content of f.jsonl.gz: "none", "partial" or "complete"
  gzSynced,  \* that content is on disk
  cpc,       \* step of the compressor goroutine
  queue,     \* the .jsonl entries of the ReadDir snapshot still to visit
  cur,       \* the file compressFile is working on
  crashes, failures

vars == <<src, gz, gzSynced, cpc, queue, cur, crashes, failures>>

-----------------------------------------------------------------------------

(* CompressOldLogs up to the loop: ReadDir, and its .jsonl entries.       *)
StartRun ==
  /\ cpc = "idle"
  /\ cpc' = "scan"
  /\ queue' = SelectSeq(Order, LAMBDA f : src[f])
  /\ UNCHANGED <<src, gz, gzSynced, cur, crashes, failures>>

(* One iteration of the loop: skip a file that is not old or whose .gz    *)
(* exists (os.Stat succeeds), else compressFile opens the source and      *)
(* creates the destination, an empty gzip stream so far.                  *)
Scan ==
  LET f == Head(queue) IN
  /\ cpc = "scan" /\ queue # <<>>
  /\ IF f \notin Old \/ gz[f] # "none"
       THEN queue' = Tail(queue) /\ UNCHANGED <<cpc, gz, gzSynced, cur>>
       ELSE /\ cpc' = "copy" /\ cur' = f
            /\ gz' = [gz EXCEPT ![f] = "partial"]
            /\ gzSynced' = [gzSynced EXCEPT ![f] = FALSE]
            /\ UNCHANGED queue
  /\ UNCHANGED <<src, crashes, failures>>

(* The loop ends; CompressOldLogs returns its count.                      *)
FinishRun ==
  /\ cpc = "scan" /\ queue = <<>>
  /\ cpc' = "idle"
  /\ UNCHANGED <<src, gz, gzSynced, queue, cur, crashes, failures>>

(* Mutant: the original removed as soon as the gzip stream is closed.     *)
CopyDoneRemoving ==
  /\ cpc = "copy"
  /\ gz' = [gz EXCEPT ![cur] = "complete"]
  /\ src' = [src EXCEPT ![cur] = FALSE]
  /\ cpc' = "sync"
  /\ UNCHANGED <<gzSynced, queue, cur, crashes, failures>>

(* io.Copy and gz.Close succeed: the stream is complete, not yet synced.  *)
CopyDone ==
  /\ cpc = "copy"
  /\ gz' = [gz EXCEPT ![cur] = "complete"]
  /\ cpc' = "sync"
  /\ UNCHANGED <<src, gzSynced, queue, cur, crashes, failures>>

(* A call that fails ends the run: CompressOldLogs returns the error and  *)
(* the files left in the snapshot wait for the next tick.                 *)
Abort == /\ cpc' = "idle" /\ queue' = <<>> /\ failures' = failures + 1

(* io.Copy or gz.Close fails: the destination is removed.                 *)
CopyFails ==
  /\ MayFail /\ failures < MaxFailures
  /\ cpc = "copy"
  /\ gz' = [gz EXCEPT ![cur] = "none"]
  /\ Abort
  /\ UNCHANGED <<src, gzSynced, cur, crashes>>

(* dstFile.Sync succeeds; compressFile returns nil.                       *)
SyncDst ==
  /\ cpc = "sync"
  /\ gzSynced' = [gzSynced EXCEPT ![cur] = TRUE]
  /\ cpc' = "remove"
  /\ UNCHANGED <<src, gz, queue, cur, crashes, failures>>

(* dstFile.Sync fails: the complete, unsynced .gz stays next to the       *)
(* original.                                                              *)
SyncFails ==
  /\ MayFail /\ failures < MaxFailures
  /\ cpc = "sync"
  /\ Abort
  /\ UNCHANGED <<src, gz, gzSynced, cur, crashes>>

(* os.Remove of the original succeeds; the loop goes on.                  *)
RemoveSrc ==
  /\ cpc = "remove"
  /\ src' = [src EXCEPT ![cur] = FALSE]
  /\ cpc' = "scan"
  /\ queue' = Tail(queue)
  /\ UNCHANGED <<gz, gzSynced, cur, crashes, failures>>

RemoveFails ==
  /\ MayFail /\ failures < MaxFailures
  /\ cpc = "remove"
  /\ Abort
  /\ UNCHANGED <<src, gz, gzSynced, cur, crashes>>

(* What an unsynced .gz can be after a crash.                             *)
CrashOutcomes(f) ==
  IF gzSynced[f] THEN {gz[f]}
  ELSE {"none", gz[f]} \cup (IF gz[f] = "none" THEN {} ELSE {"partial"})

(* Loss of power, and the restart of the application: the compressor      *)
(* goroutine starts again with the next tick.                             *)
Crash ==
  /\ crashes < MaxCrashes
  /\ \E g \in [Files -> {"none", "partial", "complete"}] :
       /\ \A f \in Files : g[f] \in CrashOutcomes(f)
       /\ gz' = g
       /\ gzSynced' = [f \in Files |-> g[f] # "none"]
  /\ cpc' = "idle"
  /\ queue' = <<>>
  /\ crashes' = crashes + 1
  /\ UNCHANGED <<src, cur, failures>>

-----------------------------------------------------------------------------

(* Every day-file still uncompressed, none of its archives yet written.   *)
Init ==
  /\ src = [f \in Files |-> TRUE]
  /\ gz = [f \in Files |-> "none"]
  /\ gzSynced = [f \in Files |-> FALSE]
  /\ cpc = "idle"
  /\ queue = <<>>
  /\ cur = CHOOSE f \in Files : TRUE
  /\ crashes = 0
  /\ failures = 0

Next ==
  \/ StartRun \/ Scan \/ FinishRun
  \/ CopyDone \/ CopyFails
  \/ SyncDst \/ SyncFails
  \/ RemoveSrc \/ RemoveFails
  \/ Crash

Spec == Init /\ [][Next]_vars

(* The ticker fires every 24 hours and the goroutine runs its steps;      *)
(* failures and crashes are not assumed to happen.                        *)
FairSpec ==
  /\ Spec
  /\ WF_vars(StartRun) /\ WF_vars(Scan) /\ WF_vars(FinishRun)
  /\ WF_vars(CopyDone) /\ WF_vars(SyncDst) /\ WF_vars(RemoveSrc)

-----------------------------------------------------------------------------
(* Properties                                                             *)

TypeOK ==
  /\ src \in [Files -> BOOLEAN]
  /\ gz \in [Files -> {"none", "partial", "complete"}]
  /\ gzSynced \in [Files -> BOOLEAN]
  /\ cpc \in {"idle", "scan", "copy", "sync", "remove"}
  /\ queue \in Seq(Files) /\ cur \in Files
  /\ crashes \in 0..MaxCrashes /\ failures \in 0..MaxFailures

(* No day's events are ever lost by compression (spec 4.6: the original   *)
(* is removed only after the gzip is closed and fsynced): every file has  *)
(* its .jsonl or a complete, durable .gz, whatever crashes and failed     *)
(* calls interrupt CompressOldLogs.                                       *)
NoLogLost ==
  \A f \in Files : src[f] \/ (gz[f] = "complete" /\ gzSynced[f])

(* Every old day-file ends up compressed: only a complete .gz remains     *)
(* (spec 4.6: a file older than max_age that is not already .gz is        *)
(* compressed; re-runs are idempotent).                                   *)
EveryOldLogCompressed ==
  \A f \in Old : <>(~src[f] /\ gz[f] = "complete")

=============================================================================
