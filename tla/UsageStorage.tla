---------------------------- MODULE UsageStorage ----------------------------
(***************************************************************************)
(* How the usage of a provider reaches its file: UsageManager's debounced  *)
(* saves, UsageStorage, ResilientStateWriter, and the BufferedWriteRegistry*)
(* whose retry thread and atexit hook write what the writer could not.     *)
(*                                                                         *)
(* The usage in memory is a version: every change gets the next number.    *)
(* The coroutines of the event loop have no await inside a save, so a save *)
(* is one action; the retry thread copies the buffered data, writes the    *)
(* file and drops the buffered entry in three steps, and only the first    *)
(* and the last hold the registry's lock.                                  *)
(***************************************************************************)
EXTENDS Integers

CONSTANTS
  Debounce,       \* save_debounce_seconds
  RetryInterval,  \* DEFAULT_BUFFERED_WRITE_RETRY_INTERVAL
  DiskFails,      \* the disk may stop and resume accepting writes
  Reloads,        \* reload_usage_from_disk is called
  Nil,
  LastTime,        \* bound on the clock
  MaxVersion      \* bound on the changes of the usage

ASSUME StorageConstants ==
  /\ Debounce \in Nat /\ RetryInterval \in Nat
  /\ DiskFails \in BOOLEAN /\ Reloads \in BOOLEAN
  /\ Nil \notin Int
  /\ LastTime \in Nat /\ MaxVersion \in Nat

VARIABLES
  time,
  memory,       \* usage in memory
  newest,       \* number of the newest version (history)
  unsaved,      \* when the oldest update the writer has not got was recorded,
                \* or Nil (history)
  dirty,        \* UsageStorage._dirty
  last_save,    \* UsageStorage._last_save
  flush,        \* when _flush_save wakes, Nil without a _save_task
  current_state,      \* ResilientStateWriter._current_state
  healthy,      \* ResilientStateWriter._disk_healthy
  last_attempt, \* ResilientStateWriter._last_attempt
  pending,      \* the registry's entry for the file
  retrying,     \* what the retry thread does: [pc, data]
  disk,         \* the file, 0 when there is none
  disk_up,      \* the disk accepts writes
  phase         \* of the process

usageVars == <<memory, newest, unsaved>>
storageVars == <<dirty, last_save, flush>>
writerVars == <<current_state, healthy, last_attempt>>
stateVars == <<time, usageVars, storageVars, writerVars, pending, retrying, disk,
          disk_up, phase>>

Version == Nat
Asleep == [pc |-> "asleep", data |-> Nil]
Retrying == {Asleep} \cup [pc : {"copied", "written"}, data : Version]
StorageTypeOK ==
  /\ time \in Nat
  /\ memory \in Version /\ newest \in Version
  /\ unsaved \in Nat \cup {Nil}
  /\ dirty \in BOOLEAN /\ last_save \in Int
  /\ flush \in Nat \cup {Nil}
  /\ current_state \in Version \cup {Nil}
  /\ healthy \in BOOLEAN /\ last_attempt \in Int
  /\ pending \in Version \cup {Nil}
  /\ retrying \in Retrying
  /\ disk \in Version /\ disk_up \in BOOLEAN
  /\ phase \in {"running", "closed", "exited"}

StorageInit ==
  /\ time = 0
  /\ memory = 0 /\ newest = 0 /\ unsaved = Nil
  /\ dirty = FALSE /\ last_save = -Debounce /\ flush = Nil
  /\ current_state = Nil /\ healthy = TRUE /\ last_attempt = 0
  /\ pending = Nil /\ retrying = Asleep
  /\ disk = 0 /\ disk_up = TRUE
  /\ phase = "running"

-----------------------------------------------------------------------------
(* Saving.                                                                  *)

\* An unhealthy disk is left alone until RetryInterval has passed.
TooSoon == ~healthy /\ time - last_attempt < RetryInterval
Saves == disk_up /\ ~TooSoon

\* ResilientStateWriter.write with the version v.
Write(v) ==
  /\ current_state' = v
  /\ unsaved' = Nil
  /\ IF TooSoon THEN UNCHANGED <<healthy, last_attempt, pending, disk>>
     ELSE /\ last_attempt' = time
          /\ healthy' = disk_up
          /\ disk' = IF disk_up THEN v ELSE disk
          /\ pending' = IF disk_up THEN Nil ELSE v

\* UsageStorage.save of the version v, once past the debounce.
Save(v) ==
  /\ Write(v)
  /\ dirty' = ~Saves
  /\ last_save' = IF Saves THEN time ELSE last_save

ScheduleNothing == UNCHANGED flush
ScheduleFlushOnce == flush' = IF flush = Nil /\ ~dirty THEN time + Debounce ELSE flush
\* _schedule_save_flush: at most one flush sleeps at a time.
ScheduleFlush == flush' = IF flush = Nil THEN time + Debounce ELSE flush

\* A recorded outcome, a cooldown or a quota baseline: _save_if_needed.
Record ==
  /\ phase = "running" /\ newest < MaxVersion
  /\ memory' = newest + 1 /\ newest' = newest + 1
  /\ IF time - last_save < Debounce
     THEN /\ dirty' = TRUE
          /\ ScheduleFlush
          /\ unsaved' = IF unsaved = Nil THEN time ELSE unsaved
          /\ UNCHANGED <<last_save, writerVars, pending, disk>>
     ELSE /\ Save(newest + 1)
          /\ IF Saves THEN UNCHANGED flush ELSE ScheduleFlush
  /\ UNCHANGED <<time, retrying, disk_up, phase>>

\* A change of the usage that is saved with the next record only: selection
\* marks or resets a fair cycle.
Touch ==
  /\ phase = "running" /\ newest < MaxVersion
  /\ memory' = newest + 1 /\ newest' = newest + 1
  /\ UNCHANGED <<time, unsaved, storageVars, writerVars, pending, retrying, disk,
                 disk_up, phase>>

\* _flush_save and save_if_dirty, which forces the save.
Flush ==
  /\ phase = "running" /\ flush # Nil /\ time >= flush
  /\ flush' = Nil
  /\ IF dirty THEN Save(memory)
     ELSE UNCHANGED <<unsaved, dirty, last_save, writerVars, pending, disk>>
  /\ UNCHANGED <<time, memory, newest, retrying, disk_up, phase>>

\* reload_from_disk: the file replaces the usage, unless it cannot be read.
Reload ==
  /\ Reloads /\ phase = "running" /\ disk # 0
  /\ memory' = disk
  /\ UNCHANGED <<time, newest, unsaved, storageVars, writerVars, pending, retrying,
                 disk, disk_up, phase>>

-----------------------------------------------------------------------------
(* The retry thread of BufferedWriteRegistry.                               *)

RetryCopies ==
  /\ phase # "exited" /\ retrying.pc = "asleep" /\ pending # Nil
  /\ retrying' = [pc |-> "copied", data |-> pending]
  /\ UNCHANGED <<time, usageVars, storageVars, writerVars, pending, disk, disk_up,
                 phase>>

RetryWrites ==
  /\ phase # "exited" /\ retrying.pc = "copied"
  /\ IF disk_up THEN /\ disk' = retrying.data
                     /\ retrying' = [retrying EXCEPT !.pc = "written"]
     ELSE /\ retrying' = Asleep
          /\ UNCHANGED disk
  /\ UNCHANGED <<time, usageVars, storageVars, writerVars, pending, disk_up, phase>>

RetryDrops ==
  /\ phase # "exited" /\ retrying.pc = "written"
  /\ pending' = Nil
  /\ retrying' = Asleep
  /\ UNCHANGED <<time, usageVars, storageVars, writerVars, disk, disk_up, phase>>

-----------------------------------------------------------------------------
(* The end of the process, and the next one.                                *)

\* RotatingClient.close: every UsageManager saves, forced.
Close ==
  /\ phase = "running"
  /\ phase' = "closed"
  /\ Save(memory)
  /\ flush' = Nil
  /\ UNCHANGED <<time, memory, newest, retrying, disk_up>>

\* The atexit hook writes what is still buffered; the daemon thread dies.
Exit ==
  /\ phase = "closed"
  /\ phase' = "exited"
  /\ IF pending # Nil /\ disk_up THEN disk' = pending /\ pending' = Nil
     ELSE UNCHANGED <<disk, pending>>
  /\ retrying' = Asleep
  /\ UNCHANGED <<time, usageVars, storageVars, writerVars, disk_up>>

Crash ==
  /\ phase = "running"
  /\ phase' = "exited"
  /\ retrying' = Asleep
  /\ UNCHANGED <<time, usageVars, storageVars, writerVars, pending, disk, disk_up>>

\* A new process loads the file.
Start ==
  /\ phase = "exited"
  /\ phase' = "running"
  /\ memory' = disk /\ unsaved' = Nil
  /\ dirty' = FALSE /\ last_save' = -Debounce /\ flush' = Nil
  /\ current_state' = Nil /\ healthy' = TRUE /\ last_attempt' = 0
  /\ pending' = Nil
  /\ UNCHANGED <<time, newest, retrying, disk, disk_up>>

DiskChanges ==
  /\ DiskFails
  /\ disk_up' = ~disk_up
  /\ UNCHANGED <<time, usageVars, storageVars, writerVars, pending, retrying, disk,
                 phase>>

\* LastTime bounds the clock, except that a flush always comes due.
TimePasses ==
  /\ time < LastTime \/ (flush # Nil /\ time < flush)
  /\ time' = time + 1
  /\ UNCHANGED <<usageVars, storageVars, writerVars, pending, retrying, disk,
                 disk_up, phase>>

RetryThread == RetryCopies \/ RetryWrites \/ RetryDrops
StorageNext ==
  \/ Record \/ Touch \/ Flush \/ Reload
  \/ RetryThread
  \/ Close \/ Exit \/ Crash \/ Start
  \/ DiskChanges \/ TimePasses

StorageSpec == StorageInit /\ [][StorageNext]_stateVars

\* The event loop wakes the flush, the thread runs, time passes.
StorageFairness == WF_stateVars(Flush) /\ WF_stateVars(RetryThread) /\ WF_stateVars(TimePasses)

FairStorageSpec == StorageSpec /\ StorageFairness

-----------------------------------------------------------------------------
(* Properties.                                                              *)

\* No update is forgotten between memory and the writer: while a recorded
\* update has not reached the writer the storage is dirty and a flush sleeps
\* that ends within Debounce of the update, also when earlier saves failed.
UpdatesReachWriter ==
  phase = "running" /\ unsaved # Nil =>
    /\ dirty
    /\ flush # Nil
    /\ flush <= unsaved + Debounce

\* While the disk works every recorded update reaches the file, unless the
\* process ends or a reload replaces the usage first.
EventuallySaved ==
  []disk_up =>
    \A v \in 1..MaxVersion :
      phase = "running" /\ unsaved # Nil /\ memory = v
        ~> disk >= v \/ phase = "exited" \/ memory < v
=============================================================================
