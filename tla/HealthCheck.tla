----------------------------- MODULE HealthCheck -----------------------------
(***************************************************************************)
(* Health checks (health/health.go, health/checks, and RegisterHealthChecks*)
(* of handlers/app.go): a goroutine polls each checker and gives the       *)
(* result to its updater; requests look at the updaters.  A check is       *)
(* slow, so its result may be old when it is given to the updater.         *)
(***************************************************************************)
EXTENDS Naturals, Sequences

CONSTANTS Check,      \* registered checks
          ThresholdOf,\* [Check -> Nat], 0 for a plain updater
          KindOf,     \* [Check -> {"storage", "file", "http", "tcp"}]
          HistoryLen  \* bound: results remembered for the properties

ASSUME HealthAssumption ==
    /\ HistoryLen \in Nat \ {0}
    /\ ThresholdOf \in [Check -> 0..HistoryLen]

VARIABLES service,   \* [Check -> what the checked thing answers now]
          poller,    \* [Check -> "idle", "update", "gone", or "off": not configured]
          result,    \* [Check -> result of the check in progress]
          status, count,   \* the updater
          history,   \* [Check -> the latest results given to the updater]
          appDone    \* the application's context is done

healthVars == <<service, poller, result, status, count, history, appDone>>

Results == {"nil", "error", "terminated"}
Answers == {"ok", "missing", "failing"}

\* The checkers: an absent root is fine for the storage driver, and a file that is present is
\* the error of the file checker.
Checker(kind, answer) ==
    CASE kind = "storage" -> IF answer = "failing" THEN "error" ELSE "nil"
      [] kind = "file" -> IF answer = "missing" THEN "nil" ELSE "error"
      [] OTHER -> IF answer = "ok" THEN "nil" ELSE "error"

\* RegisterHealthChecks: one updater and one poller for each configured check.
HealthInit ==
    /\ service \in [Check -> Answers]
    /\ poller \in [Check -> {"idle", "off"}]
    /\ result = [c \in Check |-> "nil"]
    /\ status = [c \in Check |-> "nil"] /\ count = [c \in Check |-> 0]
    /\ history = [c \in Check |-> <<>>]
    /\ appDone = FALSE

Remember(h, r) == LET all == Append(h, r) IN IF Len(all) > HistoryLen THEN Tail(all) ELSE all

Update_NoReset(c, r) ==
    /\ status' = [status EXCEPT ![c] = r]
    /\ count' = [count EXCEPT ![c] = IF r # "nil" /\ @ < ThresholdOf[c] THEN @ + 1 ELSE @]
    /\ history' = [history EXCEPT ![c] = Remember(@, r)]

Update_FirstError(c, r) ==
    /\ status' = [status EXCEPT ![c] = IF @ = "nil" THEN r ELSE @]
    /\ count' = [count EXCEPT ![c] = IF r = "nil" THEN 0
                                     ELSE IF @ < ThresholdOf[c] THEN @ + 1 ELSE @]
    /\ history' = [history EXCEPT ![c] = Remember(@, r)]

\* updater.Update and thresholdUpdater.Update
Update(c, r) ==
    /\ status' = [status EXCEPT ![c] = r]
    /\ count' = [count EXCEPT ![c] = IF r = "nil" THEN 0
                                     ELSE IF @ < ThresholdOf[c] THEN @ + 1 ELSE @]
    /\ history' = [history EXCEPT ![c] = Remember(@, r)]

\* updater.Check and thresholdUpdater.Check
Report(c) == IF count[c] >= ThresholdOf[c] \/ status[c] = "terminated" THEN status[c] ELSE "nil"

\* Poll: a tick runs the checker, its result goes to the updater.
Tick(c) ==
    /\ poller[c] = "idle"
    /\ poller' = [poller EXCEPT ![c] = "update"]
    /\ result' = [result EXCEPT ![c] = Checker(KindOf[c], service[c])]
    /\ UNCHANGED <<service, status, count, history, appDone>>

PollUpdate(c) ==
    /\ poller[c] = "update"
    /\ Update(c, result[c])
    /\ poller' = [poller EXCEPT ![c] = "idle"]
    /\ UNCHANGED <<service, result, appDone>>

\* Poll when its context is done.
PollEnds(c) ==
    /\ poller[c] = "idle" /\ appDone
    /\ Update(c, "terminated")
    /\ poller' = [poller EXCEPT ![c] = "gone"]
    /\ UNCHANGED <<service, result, appDone>>

\* CheckStatus and Handler: a request passes only when no check reports an error.
CheckStatus == {c \in Check : Report(c) # "nil"}
Passes == CheckStatus = {}

\* What is checked changes by itself.
ServiceChanges(c) ==
    /\ poller[c] # "off"
    /\ \E a \in Answers : service' = [service EXCEPT ![c] = a]
    /\ UNCHANGED <<poller, result, status, count, history, appDone>>

AppDone ==
    /\ ~appDone /\ appDone' = TRUE
    /\ UNCHANGED <<service, poller, result, status, count, history>>

HealthNext ==
    \/ \E c \in Check : Tick(c) \/ PollUpdate(c) \/ PollEnds(c) \/ ServiceChanges(c)
    \/ AppDone

\* The ticker keeps ticking, and select takes either of two ready channels.
HealthFairness ==
    \A c \in Check : /\ WF_healthVars(Tick(c) \/ PollUpdate(c))
                     /\ SF_healthVars(PollEnds(c))

HealthSpec == HealthInit /\ [][HealthNext]_healthVars /\ HealthFairness

-----------------------------------------------------------------------------
Streak(c, n) == /\ Len(history[c]) >= n
                /\ \A i \in 1..n : history[c][Len(history[c]) + 1 - i] # "nil"

\* A request is turned away exactly when some check failed its threshold of times in a row,
\* or is no longer polled: the count the updater keeps is the streak of its results.
TurnedAwayOnStreak ==
    ~Passes <=> \E c \in Check : \/ Streak(c, IF ThresholdOf[c] = 0 THEN 1 ELSE ThresholdOf[c])
                                 \/ history[c] # <<>> /\ history[c][Len(history[c])] = "terminated"

\* A service that stays well is seen to be well, however old the results in flight are (Poll).
SeesRecovery ==
    \A c \in Check : <>[](Checker(KindOf[c], service[c]) = "nil" /\ ~appDone) => <>[](Report(c) = "nil")

\* A service that stays ill is seen to be ill, however old the results in flight are (Poll).
SeesFailure ==
    \A c \in Check : <>[](Checker(KindOf[c], service[c]) = "error" /\ poller[c] # "off") => <>[](Report(c) # "nil")

\* What the poller's updates show follows the service both ways (Poll, thresholdUpdater).
SeesService == SeesRecovery /\ SeesFailure
=============================================================================
