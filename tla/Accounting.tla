------------------------------ MODULE Accounting ------------------------------
(***************************************************************************)
(* The accounting collector of internal/accounting/collector.go, the      *)
(* Merkle batcher of internal/merkle/batch.go that commits its day-files, *)
(* and the part of App.Start / App.Shutdown (internal/cli/users.go) that  *)
(* drives them, on a machine that may crash.                              *)
(*                                                                         *)
(* A day-file is a sequence of lines; a line is the number of the event   *)
(* that wrote it, so every line is distinct.  file[d] is the content the  *)
(* OS shows (page cache), durable[d] the length of its prefix that is on  *)
(* disk.  fsync makes the whole file durable; the kernel's own writeback  *)
(* makes a longer prefix durable at any time; a crash cuts every file     *)
(* back to its durable prefix.  Record holds c.mu for its whole body, so  *)
(* it is one step.  BuildBatch reads time.Now twice (batch.go:60 and 85)  *)
(* and reads the file in between, so it is a read step and a write step.  *)
(* Time is a day and an hour slot; the batcher's ticker fires once per    *)
(* hour slot while the application runs.                                  *)
(***************************************************************************)
EXTENDS Integers, Sequences, MerkleTree

CONSTANTS
  MaxDay,          \* last day of the checked period
  HoursPerDay,     \* batch intervals per day
  SyncEvery,       \* Collector.syncEvery
  MaxEvents,       \* bound on Record calls
  NoBatch,         \* model value: no batch file for that hour
  CrashMayHappen,  \* whether the machine may lose power
  LateRecords      \* whether handlers may still Record after Close

ASSUME /\ MaxDay \in Nat /\ HoursPerDay \in Nat \ {0}
       /\ SyncEvery \in Nat \ {0} /\ MaxEvents \in Nat
       /\ CrashMayHappen \in BOOLEAN /\ LateRecords \in BOOLEAN

Days == 0..MaxDay
Hours == 0..(HoursPerDay - 1)
Slots == Days \X Hours
Lines == 1..MaxEvents

(* The ticker goroutine of Batcher.Start and the synchronous final batch  *)
(* of App.Shutdown; both call BuildBatch and may run at the same time.    *)
BatchProcs == {"ticker", "final"}

VARIABLES
  day, hour,     \* time.Now().UTC(): the date and the batch hour
  ticked,        \* the ticker has fired in the current hour
  crossed,       \* the clock has passed an hour boundary during this shutdown
  phase,         \* "running", then the App.Shutdown steps "draining",
                 \* "closed" and "exiting", or "stopped"
  currentDate,   \* Collector.currentDate
  closed,        \* Collector.file has been closed by Close
  eventCount,    \* Collector.eventCount
  file,          \* day -> lines visible in <day>.jsonl
  durable,       \* day -> length of the prefix of <day>.jsonl on disk
  nextLine,      \* number of the next event
  bpc,           \* BuildBatch step of each batch process
  bsrc,          \* the date read at batch.go:60
  bleaves,       \* the lines readLogLines returned
  batches,       \* slot -> the BatchRecord in <slot>.batch.json, or NoBatch
  \* history, read only by the properties
  late           \* events recorded after Close

vars == <<day, hour, ticked, crossed, phase, currentDate, closed, eventCount, file,
          durable, nextLine, bpc, bsrc, bleaves, batches, late>>

-----------------------------------------------------------------------------
(* Collector                                                              *)

(* Mutant: rotate drops the Sync of the file it closes.                   *)
RotateFlushSkipped(old) == durable

(* rotate: Sync and Close the open file.  After Close the handle is       *)
(* already synced and both calls fail, their errors ignored.              *)
RotateFlush(old) ==
  IF closed THEN durable ELSE [durable EXCEPT ![old] = Len(file[old])]

(* Record: under c.mu, rotate if the date changed, append the line and    *)
(* fsync when eventCount is a multiple of syncEvery.  rotate syncs and    *)
(* closes the old file and sets currentDate before its OpenFile; when     *)
(* that open fails, c.file stays the closed handle and eventCount is not  *)
(* reset, so every later Record that day writes to a closed file.  A      *)
(* failing Write (a closed file, a full disk) appends nothing and leaves  *)
(* eventCount alone.  The event is then lost, as spec section 7 allows.   *)
(* Handlers call Record until Close, and after it only if they outlive    *)
(* the shutdown deadline.                                                 *)
Record ==
  /\ phase \in {"running", "draining"}
       \cup (IF LateRecords THEN {"closed", "exiting"} ELSE {})
  /\ nextLine <= MaxEvents
  /\ LET rotating == day # currentDate
         flushed == IF rotating THEN RotateFlush(currentDate) ELSE durable
         count == IF rotating THEN 1 ELSE eventCount + 1
         written == [file EXCEPT ![day] = Append(@, nextLine)]
     IN \/ /\ rotating
           /\ durable' = flushed
           /\ closed' = TRUE
           /\ UNCHANGED <<eventCount, file>>
        \/ /\ rotating \/ ~closed
           /\ durable' = flushed
           /\ closed' = FALSE
           /\ eventCount' = IF rotating THEN 0 ELSE eventCount
           /\ UNCHANGED file
        \/ /\ rotating \/ ~closed
           /\ file' = written
           /\ eventCount' = count
           /\ durable' = IF count % SyncEvery = 0
                           THEN [flushed EXCEPT ![day] = Len(written[day])]
                           ELSE flushed
           /\ closed' = FALSE
  /\ currentDate' = day
  /\ nextLine' = nextLine + 1
  /\ late' = IF phase \in {"closed", "exiting"} THEN late \cup {nextLine} ELSE late
  /\ UNCHANGED <<day, hour, crossed, ticked, phase, bpc, bsrc, bleaves, batches>>

(* Collector.Close: Sync and close the open file.                         *)
CloseCollector ==
  /\ phase = "draining"
  /\ phase' = "closed"
  /\ closed' = TRUE
  /\ durable' = [durable EXCEPT ![currentDate] = Len(file[currentDate])]
  /\ UNCHANGED <<day, hour, crossed, ticked, currentDate, eventCount, file, nextLine,
                 bpc, bsrc, bleaves, batches, late>>

-----------------------------------------------------------------------------
(* Batcher                                                                *)

(* BuildBatch up to NewTree: today's file, and a no-op when it is absent  *)
(* or empty.  An absent file and an empty one are both the empty sequence. *)
BatchRead(b) ==
  /\ bpc[b] = "idle"
  /\ IF file[day] = <<>>
       THEN UNCHANGED <<bpc, bsrc, bleaves>>
       ELSE /\ bpc' = [bpc EXCEPT ![b] = "write"]
            /\ bsrc' = [bsrc EXCEPT ![b] = day]
            /\ bleaves' = [bleaves EXCEPT ![b] = file[day]]

(* The rest of BuildBatch: a record named for the hour of time.Now at     *)
(* batch.go:85, written with os.WriteFile over any record of that hour.   *)
WriteBatch(b) ==
  LET tree == NewTree(bleaves[b])
  IN /\ bpc[b] = "write"
     /\ batches' = [batches EXCEPT ![<<day, hour>>] =
                      [src |-> bsrc[b], root |-> tree.root,
                       leafCount |-> Len(bleaves[b]), height |-> tree.height]]

(* Batcher.Start: the ticker fires once per hour until ctx is cancelled.  *)
(* A tick while the previous BuildBatch still runs waits for it.          *)
TickerFires ==
  /\ phase = "running"
  /\ ~ticked
  /\ ticked' = TRUE
  /\ BatchRead("ticker")
  /\ UNCHANGED <<day, hour, crossed, phase, currentDate, closed, eventCount, file,
                 durable, nextLine, batches, late>>

TickerWrites ==
  /\ phase # "stopped"
  /\ WriteBatch("ticker")
  /\ bpc' = [bpc EXCEPT !["ticker"] = "idle"]
  /\ bleaves' = [bleaves EXCEPT !["ticker"] = <<>>]
  /\ UNCHANGED <<day, hour, crossed, ticked, phase, currentDate, closed, eventCount,
                 file, durable, nextLine, bsrc, late>>

-----------------------------------------------------------------------------
(* Application lifecycle                                                  *)

(* App.Shutdown up to the accounting Close: cancel ctx, which stops the   *)
(* ticker loop (a BuildBatch in progress runs on), and Radius.Shutdown,   *)
(* during which in-flight handlers still Record.                          *)
Shutdown ==
  /\ phase = "running"
  /\ phase' = "draining"
  /\ crossed' = FALSE
  /\ UNCHANGED <<day, hour, ticked, currentDate, closed, eventCount, file,
                 durable, nextLine, bpc, bsrc, bleaves, batches, late>>

(* App.Shutdown after the final batch: Store.Close and the return from   *)
(* main.  The goroutines die with the process; the page cache survives.   *)
Exit ==
  /\ phase = "exiting"
  /\ phase' = "stopped"
  /\ bpc' = [b \in BatchProcs |-> "idle"]
  /\ bleaves' = [b \in BatchProcs |-> <<>>]
  /\ UNCHANGED <<day, hour, crossed, ticked, currentDate, closed, eventCount,
                 file, durable, nextLine, bsrc, batches, late>>

(* App.Shutdown step 3: BuildBatch after Close; a no-op batch ends it.    *)
FinalBatchRead ==
  /\ phase = "closed"
  /\ BatchRead("final")
  /\ phase' = IF file[day] = <<>> THEN "exiting" ELSE phase
  /\ UNCHANGED <<day, hour, crossed, ticked, currentDate, closed, eventCount, file,
                 durable, nextLine, batches, late>>

FinalBatchWrites ==
  /\ phase = "closed"
  /\ WriteBatch("final")
  /\ phase' = "exiting"
  /\ bpc' = [bpc EXCEPT !["final"] = "idle"]
  /\ bleaves' = [bleaves EXCEPT !["final"] = <<>>]
  /\ UNCHANGED <<day, hour, crossed, ticked, currentDate, closed, eventCount, file,
                 durable, nextLine, bsrc, late>>

(* Loss of power: every file keeps only its durable prefix.  Batch files  *)
(* are taken to survive.                                                   *)
Crash ==
  /\ CrashMayHappen
  /\ file' = [d \in Days |-> SubSeq(file[d], 1, durable[d])]
  /\ phase' = "stopped"
  /\ bpc' = [b \in BatchProcs |-> "idle"]
  /\ bleaves' = [b \in BatchProcs |-> <<>>]
  /\ UNCHANGED <<day, hour, crossed, ticked, currentDate, closed, eventCount, durable,
                 nextLine, bsrc, batches, late>>

(* The kernel writes back part of a file's dirty pages.                   *)
Writeback ==
  \E d \in Days :
    \E k \in (durable[d] + 1)..Len(file[d]) :
      /\ durable' = [durable EXCEPT ![d] = k]
      /\ UNCHANGED <<day, hour, crossed, ticked, phase, currentDate, closed, eventCount,
                     file, nextLine, bpc, bsrc, bleaves, batches, late>>

(* App.New and App.Start: NewCollector opens today's file with a zero     *)
(* eventCount; the batcher's first tick comes one interval after start.   *)
Restart ==
  /\ phase = "stopped"
  /\ phase' = "running"
  /\ currentDate' = day
  /\ closed' = FALSE
  /\ eventCount' = 0
  /\ ticked' = TRUE
  /\ UNCHANGED <<day, hour, crossed, file, durable, nextLine, bpc, bsrc, bleaves, batches, late>>

(* The clock moves to the next hour slot; while the application runs, the *)
(* ticker has fired in the slot that ends.  App.Shutdown is bounded by    *)
(* its 10 s deadline, so a shutdown spans at most one hour boundary.      *)
AdvanceHour ==
  /\ day < MaxDay \/ hour < HoursPerDay - 1
  /\ phase = "running" => ticked
  /\ phase \in {"draining", "closed", "exiting"} => ~crossed
  /\ crossed' = (phase \in {"draining", "closed", "exiting"})
  /\ hour' = (hour + 1) % HoursPerDay
  /\ day' = IF hour = HoursPerDay - 1 THEN day + 1 ELSE day
  /\ ticked' = FALSE
  /\ UNCHANGED <<phase, currentDate, closed, eventCount, file, durable,
                 nextLine, bpc, bsrc, bleaves, batches, late>>

-----------------------------------------------------------------------------
(* A fresh installation started at hour 0 of day 0.                      *)
Init ==
  /\ day = 0 /\ hour = 0
  /\ ticked = TRUE
  /\ crossed = FALSE
  /\ phase = "running"
  /\ currentDate = 0
  /\ closed = FALSE
  /\ eventCount = 0
  /\ file = [d \in Days |-> <<>>]
  /\ durable = [d \in Days |-> 0]
  /\ nextLine = 1
  /\ bpc = [b \in BatchProcs |-> "idle"]
  /\ bsrc = [b \in BatchProcs |-> 0]
  /\ bleaves = [b \in BatchProcs |-> <<>>]
  /\ batches = [s \in Slots |-> NoBatch]
  /\ late = {}

Next ==
  \/ Record
  \/ CloseCollector
  \/ TickerFires
  \/ TickerWrites
  \/ Shutdown
  \/ FinalBatchRead
  \/ FinalBatchWrites
  \/ Exit
  \/ Crash
  \/ Writeback
  \/ Restart
  \/ AdvanceHour

Spec == Init /\ [][Next]_vars

(* The clock runs, the ticker fires every hour and the goroutines that    *)
(* run BuildBatch and Shutdown are scheduled; signals, requests, crashes  *)
(* and restarts come from outside and are not assumed.                    *)
FairSpec ==
  /\ Spec
  /\ WF_vars(AdvanceHour)
  /\ WF_vars(TickerFires)
  /\ WF_vars(TickerWrites)
  /\ WF_vars(CloseCollector)
  /\ WF_vars(FinalBatchRead)
  /\ WF_vars(FinalBatchWrites)
  /\ WF_vars(Exit)

-----------------------------------------------------------------------------
(* Properties                                                             *)

TypeOK ==
  /\ day \in Days /\ hour \in Hours /\ ticked \in BOOLEAN
  /\ phase \in {"running", "draining", "closed", "exiting", "stopped"}
  /\ currentDate \in Days /\ closed \in BOOLEAN
  /\ eventCount \in 0..MaxEvents
  /\ \A d \in Days : file[d] \in Seq(Lines) /\ durable[d] \in 0..Len(file[d])
  /\ nextLine \in 1..(MaxEvents + 1)
  /\ bpc \in [BatchProcs -> {"idle", "write"}]
  /\ bsrc \in [BatchProcs -> Days]
  /\ \A b \in BatchProcs : bleaves[b] \in Seq(Lines)
  /\ \A s \in Slots : batches[s] = NoBatch \/ batches[s].src \in Days
  /\ late \subseteq Lines

(* Durability of the collector (collector.go:91, 117, 140): a crash now   *)
(* loses fewer than syncEvery lines of the file the collector has open,   *)
(* and no line of any other file, nor of any file once it is closed: the  *)
(* periodic fsync, the Sync in rotate and the Sync in Close, across       *)
(* restarts that reset eventCount.  Events recorded after Close, by a     *)
(* handler that outlived the 10 s shutdown deadline, are outside the      *)
(* promise (spec section 5 flushes pending writes within that cap only).  *)
CrashLossBounded ==
  \A d \in Days :
    Cardinality({i \in (durable[d] + 1)..Len(file[d]) : file[d][i] \notin late})
      < IF phase # "stopped" /\ ~closed /\ d = currentDate THEN SyncEvery ELSE 1

(* A batch record commits its source file (batch.go:69-101, spec "the    *)
(* Merkle tree for a given day-file is deterministic given its lines"):   *)
(* rebuilding the tree over the first leafCount lines of that file gives  *)
(* the recorded root.                                                     *)
BatchMatchesLog ==
  \A s \in Slots :
    batches[s] # NoBatch =>
      LET r == batches[s]
      IN /\ r.leafCount <= Len(file[r.src])
         /\ NewTree(SubSeq(file[r.src], 1, r.leafCount)).root = r.root

(* Line n is covered by a batch record that matches its file.             *)
Committed(n) ==
  \E s \in Slots :
    /\ batches[s] # NoBatch
    /\ LET r == batches[s]
       IN /\ r.leafCount <= Len(file[r.src])
          /\ NewTree(SubSeq(file[r.src], 1, r.leafCount)).root = r.root
          /\ \E i \in 1..r.leafCount : file[r.src][i] = n

(* Every event appended to the log is eventually committed by a batch     *)
(* (spec section 1: an audit event "is later committed into a tamper-     *)
(* evident log"), for every day-file before the last day checked.         *)
EveryLineCommitted ==
  \A n \in Lines : \A d \in Days \ {MaxDay} :
    (\E i \in 1..Len(file[d]) : file[d][i] = n) ~> Committed(n)

=============================================================================
