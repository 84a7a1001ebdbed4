---------------------------- MODULE TTLScheduler ----------------------------
(***************************************************************************)
(* The scheduler that removes what a pull-through cache stored once its    *)
(* time is over (proxy/scheduler/scheduler.go).                            *)
(*                                                                         *)
(* There is no clock: an armed timer may go off at any moment.  A timer    *)
(* that went off has a callback that waits for the scheduler's lock, and   *)
(* holds it while it removes the content.  timer.Stop does nothing to a    *)
(* timer that went off, and a callback deletes the entry of its key        *)
(* whatever entry that is, so timers are counted apart from the entries.   *)
(***************************************************************************)
EXTENDS Naturals, FiniteSets

CONSTANTS Key,       \* references: repository and digest
          NoKey,
          MaxTimers  \* bound: armed timers without an entry, and waiting callbacks, of a key

VARIABLES entries,  \* [Key -> "none", or the state of the entry's timer]
          orphans,  \* [Key -> armed timers whose entry is gone]
          waiting,  \* [Key -> callbacks that wait for the lock]
          running,  \* key of the callback that holds the lock, or NoKey
          stopped, indexDirty,
          saved,    \* keys in the state file
          overtaken \* [Key -> the entry was added while an older callback or timer existed]

schedVars == <<entries, orphans, waiting, running, stopped, indexDirty, saved, overtaken>>

EntryStates == {"none", "armed", "fired", "idle"}

SchedTypeOK ==
    /\ entries \in [Key -> EntryStates]
    /\ orphans \in [Key -> 0..MaxTimers] /\ waiting \in [Key -> 0..MaxTimers]
    /\ running \in Key \cup {NoKey}
    /\ stopped \in BOOLEAN /\ indexDirty \in BOOLEAN
    /\ saved \subseteq Key /\ overtaken \in [Key -> BOOLEAN]

Indexed == {k \in Key : entries[k] # "none"}

\* Mutant: the state file is not read.
Started_Empty(file) == [k \in Key |-> "none"]

\* Mutant: Start leaves the entries without timers.
Started_NoTimer(file) == [k \in Key |-> IF k \in file THEN "idle" ELSE "none"]

\* New, readState and Start: the entries of the state file, each with a timer.
Started(file) == [k \in Key |-> IF k \in file THEN "armed" ELSE "none"]

SchedInit ==
    /\ saved = {} /\ entries = Started({})
    /\ orphans = [k \in Key |-> 0] /\ waiting = [k \in Key |-> 0]
    /\ running = NoKey /\ stopped = FALSE /\ indexDirty = FALSE
    /\ overtaken = [k \in Key |-> FALSE]

\* Mutant: the timer of the old entry is not stopped.
Add_NoStop(k) ==
    /\ running = NoKey /\ ~stopped /\ orphans[k] < MaxTimers
    /\ entries' = [entries EXCEPT ![k] = "armed"]
    /\ orphans' = [orphans EXCEPT ![k] = IF entries[k] = "armed" THEN @ + 1 ELSE @]
    /\ overtaken' = [overtaken EXCEPT ![k] = orphans[k] > 0 \/ waiting[k] > 0]
    /\ indexDirty' = TRUE
    /\ UNCHANGED <<waiting, running, stopped, saved>>

\* add: the old entry's timer is stopped, if it has not gone off.
Add(k) ==
    /\ running = NoKey /\ ~stopped
    /\ entries' = [entries EXCEPT ![k] = "armed"]
    /\ overtaken' = [overtaken EXCEPT ![k] = orphans[k] > 0 \/ waiting[k] > 0]
    /\ indexDirty' = TRUE
    /\ UNCHANGED <<orphans, waiting, running, stopped, saved>>

\* AddBlob and AddManifest once the scheduler is stopped.
AddRefused == running = NoKey /\ stopped /\ UNCHANGED schedVars

\* The timer of an entry, or of an entry that is gone, goes off.
TimerFires(k) ==
    /\ waiting[k] < MaxTimers
    /\ \/ entries[k] = "armed" /\ entries' = [entries EXCEPT ![k] = "fired"] /\ UNCHANGED orphans
       \/ orphans[k] > 0 /\ orphans' = [orphans EXCEPT ![k] = @ - 1] /\ UNCHANGED entries
    /\ waiting' = [waiting EXCEPT ![k] = @ + 1]
    /\ UNCHANGED <<running, stopped, indexDirty, saved, overtaken>>

\* The callback of startTimer gets the lock; the entry's expiry function follows.
CallbackBegins(k) ==
    /\ running = NoKey /\ waiting[k] > 0
    /\ entries[k] = "armed" => orphans[k] < MaxTimers
    /\ waiting' = [waiting EXCEPT ![k] = @ - 1]
    /\ running' = k
    /\ UNCHANGED <<entries, orphans, stopped, indexDirty, saved, overtaken>>

\* Mutant: the lock is not released.
CallbackEnds_KeepsLock ==
    /\ running # NoKey
    /\ entries' = [entries EXCEPT ![running] = "none"]
    /\ indexDirty' = TRUE
    /\ UNCHANGED <<orphans, waiting, running, stopped, saved, overtaken>>

\* The end of the callback, whatever the expiry function returned.
CallbackEnds ==
    /\ running # NoKey
    /\ orphans' = [orphans EXCEPT ![running] = IF entries[running] = "armed" THEN @ + 1 ELSE @]
    /\ entries' = [entries EXCEPT ![running] = "none"]
    /\ indexDirty' = TRUE
    /\ running' = NoKey
    /\ UNCHANGED <<waiting, stopped, saved, overtaken>>

\* The goroutine of Start: the index is written when it is dirty; a failed write is retried.
SaveIndex ==
    /\ running = NoKey /\ ~stopped /\ indexDirty
    /\ saved' = Indexed
    /\ indexDirty' = FALSE
    /\ UNCHANGED <<entries, orphans, waiting, running, stopped, overtaken>>

\* Stop: the state is written, or the write fails, and the entries' timers are stopped.
Stop ==
    /\ running = NoKey /\ ~stopped
    /\ saved' \in {Indexed, saved}
    /\ entries' = [k \in Key |-> IF entries[k] = "armed" THEN "idle" ELSE entries[k]]
    /\ stopped' = TRUE
    /\ UNCHANGED <<orphans, waiting, running, indexDirty, overtaken>>

\* The process ends and another one starts.
Restart ==
    /\ entries' = Started(saved)
    /\ orphans' = [k \in Key |-> 0] /\ waiting' = [k \in Key |-> 0]
    /\ running' = NoKey /\ stopped' = FALSE /\ indexDirty' = FALSE
    /\ overtaken' = [k \in Key |-> FALSE]
    /\ UNCHANGED saved

-----------------------------------------------------------------------------
\* Something will still happen to the key: it has an entry, a timer or a callback.
Planned(k) == entries[k] # "none" \/ orphans[k] > 0 \/ waiting[k] > 0 \/ running = k

\* Content is removed before its own timer went off only if an older timer of the same
\* reference was already past stopping when the content was scheduled.
EarlyOnlyIfOvertaken ==
    [][\A k \in Key : running' = k /\ running # k /\ entries[k] = "armed" => overtaken[k]]_schedVars

\* What is due is removed: an entry does not stay for ever, unless the scheduler is stopped.
EntriesExpire == \A k \in Key : (entries[k] # "none") ~> (entries[k] = "none" \/ stopped)
=============================================================================
