-------------------------- MODULE Services_proofs ---------------------------
(***************************************************************************)
(* Proofs about the regulator, for any number of callers and any           *)
(* parameter, about the health checks, for any checks and thresholds, and  *)
(* about the tokens, for any number of goroutines and requests, any        *)
(* lifetimes, minimum, leeway and scopes, and a clock that runs on.        *)
(***************************************************************************)
EXTENDS Regulator, HealthCheck, TokenAuth, Integers, FiniteSetTheorems, SequenceTheorems, TLAPS

(***************************************************************************)
(* The regulator (Regulator).                                              *)
(***************************************************************************)
Locking == {c \in Caller : rpc[c] = "lock"}

\* The condition variable holds callers that wait, each of them once.
WaitersOK ==
    /\ condWaiters \in Seq(Caller)
    /\ \A i \in 1..Len(condWaiters) : rpc[condWaiters[i]] = "wait"
    /\ \A i, j \in 1..Len(condWaiters) : condWaiters[i] = condWaiters[j] => i = j

RegInv ==
    /\ limit \in Nat /\ available \in Nat
    /\ rpc \in [Caller -> {"out", "lock", "wait", "in"}]
    /\ WaitersOK /\ LimitHeld /\ NoLostWakeup
-----------------------------------------------------------------------------
LEMMA Counts ==
  /\ IsFiniteSet(Inside) /\ Cardinality(Inside) \in Nat
  /\ IsFiniteSet(Locking) /\ Cardinality(Locking) \in Nat
<1>1. Inside \in SUBSET Caller /\ Locking \in SUBSET Caller
  BY DEF Inside, Locking
<1>2. QED
  BY <1>1, FS_Subset, FS_CardinalityType, RegAssumption

\* Whatever the parameter decodes to, a driver that is made has at least its minimum.
LEMMA LimitBounded ==
  ASSUME NEW p \in Param, GetLimitFromParameter(p) # Invalid
  PROVE  GetLimitFromParameter(p) \in Nat /\ GetLimitFromParameter(p) >= MinLimit
<1>1. ParamValue(p) \in Nat \cup {Invalid}
  BY RegAssumption DEF ParamValue, Invalid
<1>2. QED
  BY <1>1, RegAssumption DEF GetLimitFromParameter, Invalid

LEMMA RegInvInit == RegInit => RegInv
<1> SUFFICES ASSUME RegInit PROVE RegInv
  OBVIOUS
<1>1. limit \in Nat /\ limit >= MinLimit
  BY LimitBounded DEF RegInit
<1>2. Inside = {}
  BY DEF RegInit, Inside
<1>3. Cardinality(Inside) = 0
  BY <1>2, FS_EmptySet
<1>4. WaitersOK
  BY DEF RegInit, WaitersOK
<1>5. QED
  BY <1>1, <1>3, <1>4 DEF RegInit, RegInv, LimitHeld, NoLostWakeup

LEMMA CallMethodKeeps ==
  ASSUME RegInv, NEW c \in Caller, CallMethod(c)
  PROVE  RegInv'
<1> USE DEF RegInv, CallMethod
<1>1. Inside' = Inside /\ Locking' = Locking \cup {c} /\ c \notin Locking
  BY DEF Inside, Locking
<1>2. Cardinality(Locking') = Cardinality(Locking) + 1
  BY <1>1, Counts, FS_AddElement, ZenonT(30)
<1>3. WaitersOK'
  BY DEF WaitersOK
<1>4. LimitHeld'
  BY <1>1 DEF LimitHeld
<1>5. NoLostWakeup'
  BY <1>2, Counts DEF NoLostWakeup, Locking
<1>6. QED
  BY <1>3, <1>4, <1>5

LEMMA EnterKeeps ==
  ASSUME RegInv, NEW c \in Caller, Enter(c)
  PROVE  RegInv'
<1> USE DEF RegInv, Enter
<1>1. CASE available = 0
  <2>1. Inside' = Inside
    BY <1>1 DEF Inside
  <2>2. /\ condWaiters' \in Seq(Caller) /\ Len(condWaiters') = Len(condWaiters) + 1
        /\ \A i \in 1..Len(condWaiters) : condWaiters'[i] = condWaiters[i]
        /\ condWaiters'[Len(condWaiters) + 1] = c
    BY <1>1, AppendProperties DEF WaitersOK
  <2>3. \A i \in 1..Len(condWaiters) : condWaiters[i] # c
    BY DEF WaitersOK
  <2>4. Len(condWaiters) \in Nat /\ \A i \in 1..Len(condWaiters) : condWaiters[i] \in Caller
    BY ElementOfSeq, LenProperties DEF WaitersOK
  <2>5. WaitersOK'
    <3>1. \A i \in 1..Len(condWaiters') : rpc'[condWaiters'[i]] = "wait"
      BY <1>1, <2>2, <2>3, <2>4 DEF WaitersOK
    <3>2. \A i, j \in 1..Len(condWaiters') : condWaiters'[i] = condWaiters'[j] => i = j
      BY <2>2, <2>3, <2>4 DEF WaitersOK
    <3>3. QED
      BY <2>2, <3>1, <3>2 DEF WaitersOK
  <2>6. LimitHeld'
    BY <1>1, <2>1 DEF LimitHeld
  <2>7. Cardinality(Locking)' \in Nat
    <3>1. Locking' = Locking \ {c}
      BY <1>1 DEF Locking
    <3>2. QED
      BY <3>1, Counts, FS_RemoveElement, FS_CardinalityType, ZenonT(30)
  <2>8. NoLostWakeup'
    BY <1>1, <2>7 DEF NoLostWakeup, Locking
  <2>9. QED
    BY <1>1, <2>5, <2>6, <2>8
<1>2. CASE available # 0
  <2>1. Inside' = Inside \cup {c} /\ c \notin Inside /\ Locking' = Locking \ {c} /\ c \in Locking
    BY <1>2 DEF Inside, Locking
  <2>2. Cardinality(Inside') = Cardinality(Inside) + 1 /\ Cardinality(Locking') = Cardinality(Locking) - 1
    BY <2>1, Counts, FS_AddElement, FS_RemoveElement, ZenonT(30)
  <2>3. WaitersOK'
    BY <1>2 DEF WaitersOK
  <2>4. available' = available - 1 /\ available' \in Nat /\ UNCHANGED <<limit, condWaiters>>
    BY <1>2
  <2>5. LimitHeld'
    BY <2>2, <2>4, Counts DEF LimitHeld
  <2>6. NoLostWakeup'
    BY <2>2, <2>4, Counts DEF NoLostWakeup, Locking
  <2>7. QED
    BY <1>2, <2>3, <2>4, <2>5, <2>6
<1>3. QED
  BY <1>1, <1>2

LEMMA ExitKeeps ==
  ASSUME RegInv, NEW c \in Caller, Exit(c)
  PROVE  RegInv'
<1> USE DEF RegInv, Exit
<1>1. available' = available + 1 /\ limit' = limit /\ rpc[c] = "in" /\ available' \in Nat
  OBVIOUS
<1>2. CASE condWaiters = <<>>
  <2>1. Inside' = Inside \ {c} /\ c \in Inside
    BY <1>2 DEF Inside
  <2>2. Cardinality(Inside') = Cardinality(Inside) - 1
    BY <2>1, Counts, FS_RemoveElement, ZenonT(30)
  <2>3. WaitersOK' /\ NoLostWakeup'
    BY <1>2 DEF WaitersOK, NoLostWakeup
  <2>4. LimitHeld'
    BY <1>1, <2>2, Counts DEF LimitHeld
  <2>5. QED
    BY <1>1, <1>2, <2>3, <2>4
<1>3. CASE condWaiters # <<>>
  <2> DEFINE h == Head(condWaiters)
  <2>1. /\ h \in Caller /\ Tail(condWaiters) \in Seq(Caller)
        /\ Len(Tail(condWaiters)) = Len(condWaiters) - 1
        /\ \A i \in 1..Len(Tail(condWaiters)) : Tail(condWaiters)[i] = condWaiters[i + 1]
    BY <1>3, HeadTailProperties DEF WaitersOK
  <2>2. Len(condWaiters) \in Nat \ {0} /\ h = condWaiters[1]
    BY <1>3, LenProperties, EmptySeq DEF WaitersOK
  <2>3. rpc[h] = "wait" /\ h # c
    BY <1>1, <2>2 DEF WaitersOK
  <2>4. condWaiters' = Tail(condWaiters) /\ rpc' = [rpc EXCEPT ![c] = "out", ![h] = "lock"]
    BY <1>3
  <2> HIDE DEF h
  <2>5. Inside' = Inside \ {c} /\ c \in Inside /\ Locking' = Locking \cup {h} /\ h \notin Locking
    BY <1>1, <2>1, <2>3, <2>4 DEF Inside, Locking
  <2>6. Cardinality(Inside') = Cardinality(Inside) - 1 /\ Cardinality(Locking') = Cardinality(Locking) + 1
    BY <2>5, Counts, FS_AddElement, FS_RemoveElement, ZenonT(30)
  <2>7. LimitHeld'
    BY <1>1, <2>6, Counts DEF LimitHeld
  <2>8. NoLostWakeup'
    BY <1>1, <1>3, <2>6, Counts DEF NoLostWakeup, Locking
  <2>9. WaitersOK'
    <3>1. \A i \in 1..Len(condWaiters') : condWaiters'[i] = condWaiters[i + 1] /\ i + 1 \in 1..Len(condWaiters)
      BY <2>1, <2>2, <2>4
    <3>2. \A i \in 1..Len(condWaiters') : condWaiters'[i] # h /\ condWaiters'[i] # c
      BY <1>1, <2>2, <3>1 DEF WaitersOK
    <3>3. \A i \in 1..Len(condWaiters') : rpc'[condWaiters'[i]] = "wait"
      <4>1. TAKE i \in 1..Len(condWaiters')
      <4>2. condWaiters[i + 1] \in Caller /\ rpc[condWaiters[i + 1]] = "wait"
        BY <3>1, ElementOfSeq DEF WaitersOK
      <4>3. QED
        BY <2>4, <3>1, <3>2, <4>2
    <3>4. \A i, j \in 1..Len(condWaiters') : condWaiters'[i] = condWaiters'[j] => i = j
      BY <2>1, <2>2, <2>4, <3>1 DEF WaitersOK
    <3>5. QED
      BY <2>1, <2>4, <3>3, <3>4 DEF WaitersOK
  <2>10. QED
    BY <1>1, <2>1, <2>4, <2>7, <2>8, <2>9
<1>4. QED
  BY <1>2, <1>3

LEMMA RegInvNext == RegInv /\ [RegNext]_regVars => RegInv'
<1>1. ASSUME RegInv, RegNext PROVE RegInv'
  BY <1>1, CallMethodKeeps, EnterKeeps, ExitKeeps DEF RegNext
<1>2. ASSUME RegInv, UNCHANGED regVars PROVE RegInv'
  BY <1>2 DEF RegInv, WaitersOK, LimitHeld, NoLostWakeup, Inside, regVars
<1>3. QED
  BY <1>1, <1>2

(***************************************************************************)
(* enter and exit keep the count: never more calls in the driver than the  *)
(* limit, no token lost, and none free for a waiter that nobody woke, for  *)
(* any number of callers and any limit.                                    *)
(***************************************************************************)
THEOREM RegulatorCorrect == RegSpec => []TokensKept
<1>1. RegInv => TokensKept
  BY DEF RegInv, TokensKept
<1>2. QED
  BY <1>1, RegInvInit, RegInvNext, PTL DEF RegSpec
-----------------------------------------------------------------------------
(***************************************************************************)
(* The health checks (HealthCheck).                                        *)
(***************************************************************************)
\* The last n results of a history are all errors.
StreakOf(h, n) == Len(h) >= n /\ \A i \in 1..n : h[Len(h) + 1 - i] # "nil"

\* The updater of one check: the status is the last result, the count the streak of errors up
\* to the threshold.
UpdaterOK(c) ==
    /\ history[c] \in Seq(Results) /\ Len(history[c]) <= HistoryLen
    /\ status[c] = IF Len(history[c]) = 0 THEN "nil" ELSE history[c][Len(history[c])]
    /\ count[c] \in 0..ThresholdOf[c]
    /\ \A n \in 1..ThresholdOf[c] : count[c] >= n <=> StreakOf(history[c], n)

HealthInv ==
    /\ DOMAIN status = Check /\ DOMAIN count = Check /\ DOMAIN history = Check
    /\ DOMAIN result = Check
    /\ \A c \in Check : result[c] \in {"nil", "error"} /\ UpdaterOK(c)

\* What remembering one more result does, seen from the end of the history.
LEMMA Remembered ==
  ASSUME NEW h \in Seq(Results), Len(h) <= HistoryLen, NEW r \in Results
  PROVE  /\ Remember(h, r) \in Seq(Results)
         /\ Len(Remember(h, r)) = IF Len(h) < HistoryLen THEN Len(h) + 1 ELSE HistoryLen
         /\ Remember(h, r)[Len(Remember(h, r))] = r
         /\ \A i \in 2..Len(Remember(h, r)) :
               Remember(h, r)[Len(Remember(h, r)) + 1 - i] = h[Len(h) + 1 - (i - 1)]
<1> DEFINE all == Append(h, r)
<1>1. /\ all \in Seq(Results) /\ Len(all) = Len(h) + 1 /\ all[Len(h) + 1] = r
      /\ \A i \in 1..Len(h) : all[i] = h[i]
  BY AppendProperties
<1>2. Len(h) \in Nat
  BY LenProperties
<1>3. CASE Len(h) < HistoryLen
  <2>1. Remember(h, r) = all
    BY <1>1, <1>2, <1>3, HealthAssumption DEF Remember
  <2> HIDE DEF all
  <2>2. QED
    BY <1>1, <1>2, <1>3, <2>1
<1>4. CASE Len(h) = HistoryLen
  <2>1. Remember(h, r) = Tail(all)
    BY <1>1, <1>2, <1>4, HealthAssumption DEF Remember
  <2>2. all # <<>>
    OBVIOUS
  <2> HIDE DEF all
  <2>3. /\ Tail(all) \in Seq(Results) /\ Len(Tail(all)) = Len(all) - 1
        /\ \A i \in 1..Len(Tail(all)) : Tail(all)[i] = all[i + 1]
    BY <1>1, <2>2, HeadTailProperties
  <2>4. QED
    BY <1>1, <1>2, <1>4, <2>1, <2>3, HealthAssumption
<1>5. QED
  BY <1>2, <1>3, <1>4, HealthAssumption

\* A streak grows by one with an error and ends with a success.
LEMMA StreakGrows ==
  ASSUME NEW h \in Seq(Results), Len(h) <= HistoryLen, NEW r \in Results, NEW n \in 1..HistoryLen
  PROVE  StreakOf(Remember(h, r), n) <=> r # "nil" /\ StreakOf(h, n - 1)
<1> DEFINE g == Remember(h, r)
<1>1. /\ Len(g) = IF Len(h) < HistoryLen THEN Len(h) + 1 ELSE HistoryLen
      /\ g[Len(g)] = r
      /\ \A i \in 2..Len(g) : g[Len(g) + 1 - i] = h[Len(h) + 1 - (i - 1)]
  BY Remembered
<1>2. Len(h) \in Nat
  BY LenProperties
<1> HIDE DEF g
<1>3. Len(g) \in Nat /\ (Len(g) >= n <=> Len(h) >= n - 1)
  BY <1>1, <1>2, HealthAssumption
<1>4. ASSUME StreakOf(g, n) PROVE r # "nil" /\ StreakOf(h, n - 1)
  <2>1. g[Len(g) + 1 - 1] # "nil"
    BY <1>4 DEF StreakOf
  <2>2. ASSUME NEW i \in 1..(n - 1) PROVE h[Len(h) + 1 - i] # "nil"
    <3>1. i + 1 \in 1..n /\ i + 1 \in 2..Len(g) /\ (i + 1) - 1 = i
      BY <1>3, <1>4 DEF StreakOf
    <3>2. g[Len(g) + 1 - (i + 1)] # "nil"
      BY <1>4, <3>1 DEF StreakOf
    <3>3. g[Len(g) + 1 - (i + 1)] = h[Len(h) + 1 - ((i + 1) - 1)]
      BY <1>1, <3>1
    <3>4. QED
      BY <3>1, <3>2, <3>3
  <2>3. r # "nil"
    BY <1>1, <1>3, <2>1
  <2>4. QED
    BY <1>3, <1>4, <2>2, <2>3 DEF StreakOf
<1>5. ASSUME r # "nil", StreakOf(h, n - 1) PROVE StreakOf(g, n)
  <2>1. ASSUME NEW i \in 1..n PROVE g[Len(g) + 1 - i] # "nil"
    <3>1. CASE i = 1
      BY <1>1, <1>3, <1>5, <3>1
    <3>2. CASE i # 1
      <4>1. i \in 2..Len(g) /\ i - 1 \in 1..(n - 1)
        BY <1>3, <1>5, <3>2 DEF StreakOf
      <4>2. QED
        BY <1>1, <1>5, <4>1, ZenonT(30) DEF StreakOf
    <3>3. QED
      BY <3>1, <3>2
  <2>2. QED
    BY <1>3, <1>5, <2>1 DEF StreakOf
<1>6. QED
  BY <1>4, <1>5 DEF g

LEMMA UpdateKeeps ==
  ASSUME HealthInv, NEW c \in Check, NEW r \in Results, Update(c, r)
  PROVE  UpdaterOK(c)'
<1>1. /\ status'[c] = r
      /\ count'[c] = IF r = "nil" THEN 0 ELSE IF count[c] < ThresholdOf[c] THEN count[c] + 1 ELSE count[c]
      /\ history'[c] = Remember(history[c], r)
  BY DEF HealthInv, Update
<1>2. /\ history[c] \in Seq(Results) /\ Len(history[c]) <= HistoryLen
      /\ count[c] \in 0..ThresholdOf[c] /\ ThresholdOf[c] \in 0..HistoryLen
      /\ \A n \in 1..ThresholdOf[c] : count[c] >= n <=> StreakOf(history[c], n)
  BY HealthAssumption DEF HealthInv, UpdaterOK
<1>3. /\ history'[c] \in Seq(Results)
      /\ Len(history'[c]) = IF Len(history[c]) < HistoryLen THEN Len(history[c]) + 1 ELSE HistoryLen
      /\ history'[c][Len(history'[c])] = r
  BY <1>1, <1>2, Remembered
<1>4. Len(history[c]) \in Nat
  BY <1>2, LenProperties
<1>5. Len(history'[c]) <= HistoryLen /\ Len(history'[c]) # 0
  BY <1>2, <1>3, <1>4, HealthAssumption
<1>6. count'[c] \in 0..ThresholdOf[c]
  BY <1>1, <1>2, HealthAssumption
<1>7. ASSUME NEW n \in 1..ThresholdOf[c] PROVE count'[c] >= n <=> StreakOf(history'[c], n)
  <2>1. StreakOf(history'[c], n) <=> r # "nil" /\ StreakOf(history[c], n - 1)
    BY <1>1, <1>2, HealthAssumption, StreakGrows
  <2>2. StreakOf(history[c], n - 1) <=> count[c] >= n - 1
    <3>1. CASE n = 1
      BY <1>2, <1>4, <3>1, HealthAssumption DEF StreakOf
    <3>2. CASE n # 1
      BY <1>2, <3>2, HealthAssumption
    <3>3. QED
      BY <3>1, <3>2
  <2>3. QED
    BY <1>1, <1>2, <2>1, <2>2, HealthAssumption
<1>8. QED
  BY <1>1, <1>3, <1>5, <1>6, <1>7 DEF UpdaterOK

LEMMA HealthInvNext == HealthInv /\ [HealthNext]_healthVars => HealthInv'
<1> SUFFICES ASSUME HealthInv, [HealthNext]_healthVars PROVE HealthInv'
  OBVIOUS
<1>1. ASSUME UNCHANGED <<status, count, history>>, DOMAIN result' = Check,
             \A c \in Check : result'[c] \in {"nil", "error"}
      PROVE  HealthInv'
  BY <1>1 DEF HealthInv, UpdaterOK
<1>2. CASE UNCHANGED healthVars
  BY <1>1, <1>2 DEF healthVars, HealthInv
<1>3. ASSUME NEW c \in Check, Tick(c) PROVE HealthInv'
  <2>1. Checker(KindOf[c], service[c]) \in {"nil", "error"}
    BY DEF Checker
  <2>2. QED
    BY <1>1, <1>3, <2>1 DEF Tick, HealthInv
<1>4. ASSUME NEW c \in Check, NEW r \in Results, Update(c, r), UNCHANGED result PROVE HealthInv'
  <2>1. UpdaterOK(c)'
    BY <1>4, UpdateKeeps
  <2>2. ASSUME NEW d \in Check, d # c PROVE UpdaterOK(d)'
    <3>1. status'[d] = status[d] /\ count'[d] = count[d] /\ history'[d] = history[d]
      BY <1>4, <2>2 DEF Update, HealthInv
    <3>2. QED
      BY <3>1, ZenonT(30) DEF HealthInv, UpdaterOK
  <2>3. QED
    BY <1>4, <2>1, <2>2 DEF HealthInv, Update
<1>5. ASSUME NEW c \in Check, PollUpdate(c) \/ PollEnds(c) PROVE HealthInv'
  BY <1>4, <1>5 DEF PollUpdate, PollEnds, HealthInv, Results
<1>6. ASSUME NEW c \in Check, ServiceChanges(c) PROVE HealthInv'
  BY <1>1, <1>6 DEF ServiceChanges, HealthInv
<1>7. CASE AppDone
  BY <1>1, <1>7 DEF AppDone, HealthInv
<1>8. QED
  BY <1>2, <1>3, <1>5, <1>6, <1>7 DEF HealthNext

LEMMA HealthInvInit == HealthInit => HealthInv
<1> SUFFICES ASSUME HealthInit PROVE HealthInv
  OBVIOUS
<1>1. <<>> \in Seq(Results) /\ Len(<<>>) = 0
  BY EmptySeq
<1>2. \A n \in Nat \ {0} : ~StreakOf(<<>>, n)
  BY <1>1 DEF StreakOf
<1>3. ASSUME NEW c \in Check PROVE UpdaterOK(c)
  <2>1. history[c] = <<>> /\ status[c] = "nil" /\ count[c] = 0 /\ ThresholdOf[c] \in Nat
    BY HealthAssumption DEF HealthInit
  <2>2. QED
    BY <1>1, <1>2, <2>1, HealthAssumption DEF UpdaterOK
<1>4. QED
  BY <1>3 DEF HealthInit, HealthInv

(***************************************************************************)
(* updater and thresholdUpdater: a request is turned away exactly when     *)
(* some check failed its threshold of times in a row or is polled no more, *)
(* for any number of checks and any thresholds.                            *)
(***************************************************************************)
THEOREM HealthCorrect == HealthSpec => []TurnedAwayOnStreak
<1>1. ASSUME HealthInv, NEW c \in Check
      PROVE  Report(c) # "nil" <=>
                 \/ Streak(c, IF ThresholdOf[c] = 0 THEN 1 ELSE ThresholdOf[c])
                 \/ history[c] # <<>> /\ history[c][Len(history[c])] = "terminated"
  <2>1. /\ history[c] \in Seq(Results) /\ Len(history[c]) \in Nat
        /\ ThresholdOf[c] \in Nat
    BY <1>1, LenProperties, HealthAssumption DEF HealthInv, UpdaterOK
  <2>2. \A n : Streak(c, n) <=> StreakOf(history[c], n)
    BY DEF Streak, StreakOf
  <2>3. status[c] = "terminated" <=> history[c] # <<>> /\ history[c][Len(history[c])] = "terminated"
    BY <1>1, <2>1, EmptySeq DEF HealthInv, UpdaterOK
  <2>4. StreakOf(history[c], 1) <=> status[c] # "nil"
    BY <1>1, <2>1 DEF HealthInv, UpdaterOK, StreakOf
  <2>5. CASE ThresholdOf[c] = 0
    BY <1>1, <2>2, <2>3, <2>4, <2>5 DEF HealthInv, UpdaterOK, Report
  <2>6. CASE ThresholdOf[c] # 0
    <3>1. count[c] >= ThresholdOf[c] <=> StreakOf(history[c], ThresholdOf[c])
      BY <1>1, <2>1, <2>6 DEF HealthInv, UpdaterOK
    <3>2. StreakOf(history[c], ThresholdOf[c]) => StreakOf(history[c], 1)
      BY <2>1, <2>6 DEF StreakOf
    <3>3. QED
      BY <2>2, <2>3, <2>4, <2>6, <3>1, <3>2 DEF Report
  <2>7. QED
    BY <2>5, <2>6
<1>2. HealthInv => TurnedAwayOnStreak
  BY <1>1 DEF TurnedAwayOnStreak, Passes, CheckStatus
<1>3. QED
  BY <1>2, HealthInvInit, HealthInvNext, PTL DEF HealthSpec

-----------------------------------------------------------------------------
(***************************************************************************)
(* The tokens (TokenAuth).                                                 *)
(***************************************************************************)
Token == [asked : SUBSET Access, access : SUBSET Access, iat : Nat, exp : Nat,
          life : Nat, issued : Nat, got : Nat]
AskRecord == [at : {"none", "challenge", "modify", "fetch", "issued", "sent"}, kind : Kinds,
              token : Token \cup {NoToken}, sent : Nat,
              result : {"none", "failed", "served", "refused"}]

\* What the issuer counts from its clock, and what the client does from the receipt.
Lasts(life) == IF life = 0 THEN MinLifetime ELSE life
Limit(life) == IF life < MinLifetime THEN MinLifetime ELSE life

\* A token at instant t, of an issuer whose clock is s ahead, for a user with accesses u.
GoodToken(k, t, s, u) ==
    /\ k \in Token
    /\ k.access \subseteq u
    /\ k.issued <= k.got /\ k.got <= t
    /\ k.iat = k.issued + s
    /\ k.exp = k.issued + s + Lasts(k.life)

Served(kind, u) == accessRecords(kind) \subseteq u
Overdue(a, t) == a.token \in Token /\ (t - a.sent) + (a.token.got - a.token.issued) > Slack(a.token)
Late(a, t) ==
    a.token # NoToken /\ accessRecords(a.kind) \subseteq a.token.access => Overdue(a, t)

GoodAsk(a, t, s, u) ==
    /\ a.at \in {"challenge", "modify", "fetch"} => a.token = NoToken
    /\ a.at = "issued" => GoodToken(a.token, t, s, u) /\ a.token.asked = scopes(a.kind)
    /\ a.at = "sent" /\ a.token # NoToken =>
          /\ GoodToken(a.token, t, s, u)
          /\ scopes(a.kind) \subseteq a.token.asked
          /\ a.sent <= a.token.got + s + Limit(a.token.life)
    /\ a.result # "none" => a.at = "none"
    /\ a.result = "served" => Served(a.kind, u)
    /\ a.result = "refused" => Late(a, t)

GoodCache ==
    tokenCache # NoToken =>
        /\ GoodToken(tokenCache, now, skew, user)
        /\ tokenCache.asked = OwnScopes
        /\ tokenExpiration <= tokenCache.got + skew + Limit(tokenCache.life)

GoodLock == \A c \in Callers : tokenLock = c <=> ask[c].at \in {"fetch", "issued"}

AuthTypes ==
    /\ now \in Nat /\ skew \in 0..MaxSkew /\ tokenExpiration \in Nat
    /\ user \subseteq Access /\ "pull" \in user
    /\ tokenLock \in Callers \cup {NoToken}
    /\ ask \in [Callers -> AskRecord]

AuthInv ==
    /\ AuthTypes
    /\ GoodCache
    /\ GoodLock
    /\ \A c \in Callers : GoodAsk(ask[c], now, skew, user)
-----------------------------------------------------------------------------
LEMMA ScopesType == \A kind \in Kinds : scopes(kind) \subseteq Access
  BY AuthAssumption DEF scopes, Access

LEMMA NoAskType == NoAsk \in AskRecord
  BY DEF NoAsk, AskRecord, Kinds

\* Time only makes a refused request later.
LEMMA Later ==
  ASSUME NEW a \in AskRecord, NEW t \in Nat, NEW s \in Nat, NEW u, GoodAsk(a, t, s, u)
  PROVE  GoodAsk(a, t + 1, s, u)
<1>1. ASSUME NEW k, GoodToken(k, t, s, u) PROVE GoodToken(k, t + 1, s, u)
  BY <1>1 DEF GoodToken, Token
<1>2. ASSUME Late(a, t) PROVE Late(a, t + 1)
  <2> SUFFICES ASSUME Overdue(a, t) PROVE Overdue(a, t + 1)
    BY <1>2 DEF Late
  <2>1. a.sent \in Nat /\ a.token.got \in Nat /\ a.token.issued \in Nat /\ Slack(a.token) \in Int
    BY AuthAssumption DEF AskRecord, Token, Slack, Overdue
  <2>2. QED
    BY <2>1 DEF Overdue
<1>3. QED
  BY <1>1, <1>2 DEF GoodAsk

\* A step of one goroutine leaves the requests of the others as they are.
LEMMA AskStep ==
  ASSUME AuthInv, NEW c \in Callers, NEW n \in AskRecord, ask' = [ask EXCEPT ![c] = n],
         UNCHANGED <<now, skew, user>>, GoodAsk(n, now, skew, user)
  PROVE  /\ ask' \in [Callers -> AskRecord]
         /\ \A d \in Callers : GoodAsk(ask[d], now, skew, user)'
         /\ ask'[c] = n /\ \A d \in Callers \ {c} : ask'[d] = ask[d]
<1>1. ask' \in [Callers -> AskRecord]
  BY DEF AuthInv, AuthTypes
<1>2. ask'[c] = n /\ \A d \in Callers \ {c} : ask'[d] = ask[d]
  BY DEF AuthInv, AuthTypes
<1>3. ASSUME NEW d \in Callers PROVE GoodAsk(ask'[d], now, skew, user)
  BY <1>2 DEF AuthInv
<1>4. QED
  BY <1>1, <1>2, <1>3

\* A step of a goroutine that leaves the handler alone, and is not about to fetch or fetching.
LEMMA PlainStep ==
  ASSUME AuthInv, NEW c \in Callers, NEW n \in AskRecord, ask' = [ask EXCEPT ![c] = n],
         UNCHANGED <<now, skew, user, tokenCache, tokenExpiration, tokenLock>>,
         GoodAsk(n, now, skew, user),
         n.at \in {"fetch", "issued"} <=> ask[c].at \in {"fetch", "issued"}
  PROVE  AuthInv'
<1>1. /\ ask' \in [Callers -> AskRecord]
      /\ \A d \in Callers : GoodAsk(ask[d], now, skew, user)'
      /\ ask'[c] = n /\ \A d \in Callers \ {c} : ask'[d] = ask[d]
  BY AskStep, ZenonT(30)
<1>2. AuthTypes'
  BY <1>1 DEF AuthInv, AuthTypes
<1>3. GoodCache'
  BY DEF AuthInv, GoodCache
<1>4. GoodLock'
  BY <1>1 DEF AuthInv, GoodLock
<1>5. QED
  BY <1>1, <1>2, <1>3, <1>4 DEF AuthInv

LEMMA AuthInvInit == AuthInit => AuthInv
<1> SUFFICES ASSUME AuthInit PROVE AuthInv
  OBVIOUS
<1>1. AuthTypes
  BY NoAskType, AuthAssumption DEF AuthInit, AuthTypes, Access, NoCaller
<1>2. ASSUME NEW c \in Callers
      PROVE  ask[c].at = "none" /\ ask[c].result = "none"
  BY DEF AuthInit, NoAsk
<1>3. GoodCache /\ GoodLock
  BY <1>2, AuthAssumption DEF AuthInit, GoodCache, GoodLock, NoCaller
<1>4. ASSUME NEW c \in Callers PROVE GoodAsk(ask[c], now, skew, user)
  BY <1>2, ZenonT(30) DEF GoodAsk
<1>5. QED
  BY <1>1, <1>3, <1>4 DEF AuthInv

LEMMA TickKeeps ==
  ASSUME AuthInv, TimePasses
  PROVE  AuthInv'
<1> USE DEF TimePasses, Environment
<1>1. now \in Nat /\ skew \in Nat /\ ask \in [Callers -> AskRecord]
  BY AuthAssumption DEF AuthInv, AuthTypes
<1>2. ASSUME NEW d \in Callers PROVE GoodAsk(ask'[d], now', skew', user')
  <2>1. ask[d] \in AskRecord /\ GoodAsk(ask[d], now, skew, user)
    BY <1>1 DEF AuthInv
  <2>2. GoodAsk(ask[d], now + 1, skew, user)
    BY <1>1, <2>1, Later
  <2>3. QED
    BY <2>2
<1>3. GoodCache'
  BY <1>1 DEF AuthInv, GoodCache, GoodToken, Token
<1>4. GoodLock' /\ AuthTypes'
  BY <1>1 DEF AuthInv, AuthTypes, GoodLock
<1>5. QED
  BY <1>2, <1>3, <1>4, ZenonT(30) DEF AuthInv

\* Steps before a token is asked for, and those that end a request without one.
LEMMA EarlySteps ==
  ASSUME AuthInv, NEW c \in Callers,
         \/ \E kind \in Kinds : Start(c, kind)
         \/ EstablishChallenges(c) \/ PingFails(c) \/ Unchallenged(c)
         \/ BeginFetch(c) /\ useOAuth /\ creds = "none"
  PROVE  AuthInv'
<1> USE DEF Environment
<1>a. ask[c] \in AskRecord /\ ask \in [Callers -> AskRecord] /\ now \in Nat
  BY DEF AuthInv, AuthTypes
<1>b. GoodAsk(ask[c], now, skew, user)
  BY DEF AuthInv
<1>1. ASSUME NEW kind \in Kinds, Start(c, kind) PROVE AuthInv'
  <2> DEFINE n == [[NoAsk EXCEPT !.at = "challenge"] EXCEPT !.kind = kind]
  <2>1. ask' = [ask EXCEPT ![c] = n]
    BY <1>1, ZenonT(30) DEF Start
  <2>2. n \in AskRecord
    BY NoAskType, ZenonT(30) DEF AskRecord
  <2>3. n.at = "challenge" /\ n.token = NoToken /\ n.result = "none"
    BY NoAskType DEF AskRecord, NoAsk
  <2> HIDE DEF n
  <2>4. GoodAsk(n, now, skew, user)
    BY <2>3 DEF GoodAsk
  <2>5. UNCHANGED <<now, skew, user, tokenCache, tokenExpiration, tokenLock>> /\ ask[c].at = "none"
    BY <1>1, ZenonT(30) DEF Start
  <2>6. QED
    BY <2>1, <2>2, <2>3, <2>4, <2>5, PlainStep, ZenonT(30)
<1>2. CASE EstablishChallenges(c)
  <2> DEFINE n == [ask[c] EXCEPT !.at = "modify"]
  <2>1. ask' = [ask EXCEPT ![c] = n] /\ ask[c].at = "challenge"
    BY <1>2 DEF EstablishChallenges
  <2>2. n \in AskRecord
    BY <1>a DEF AskRecord
  <2>3. n.at = "modify" /\ n.token = ask[c].token /\ n.result = ask[c].result
    BY <1>a DEF AskRecord
  <2> HIDE DEF n
  <2>4. GoodAsk(n, now, skew, user)
    BY <1>b, <2>1, <2>3, ZenonT(30) DEF GoodAsk
  <2>5. UNCHANGED <<now, skew, user, tokenCache, tokenExpiration, tokenLock>>
    BY <1>2 DEF EstablishChallenges
  <2>6. QED
    BY <2>1, <2>2, <2>3, <2>4, <2>5, PlainStep, ZenonT(30)
<1>3. CASE PingFails(c) \/ (BeginFetch(c) /\ useOAuth /\ creds = "none")
  <2> DEFINE n == [[ask[c] EXCEPT !.at = "none"] EXCEPT !.result = "failed"]
  <2>1. ask' = [ask EXCEPT ![c] = n] /\ ask[c].at \in {"challenge", "modify"}
    BY <1>3, ZenonT(30) DEF PingFails, BeginFetch, Finish
  <2>2. n \in AskRecord
    BY <1>a, ZenonT(30) DEF AskRecord
  <2>3. n.at = "none" /\ n.result = "failed"
    BY <1>a DEF AskRecord
  <2> HIDE DEF n
  <2>4. GoodAsk(n, now, skew, user)
    BY <2>3, ZenonT(30) DEF GoodAsk
  <2>5. UNCHANGED <<now, skew, user, tokenCache, tokenExpiration, tokenLock>>
    BY <1>3 DEF PingFails, BeginFetch
  <2>6. QED
    BY <2>1, <2>2, <2>3, <2>4, <2>5, PlainStep, ZenonT(30)
<1>4. CASE Unchallenged(c)
  <2> DEFINE n == [[ask[c] EXCEPT !.at = "sent"] EXCEPT !.sent = now]
  <2>1. ask' = [ask EXCEPT ![c] = n] /\ ask[c].at = "modify"
    BY <1>4, ZenonT(30) DEF Unchallenged
  <2>2. n \in AskRecord
    BY <1>a, ZenonT(30) DEF AskRecord
  <2>3. n.at = "sent" /\ n.token = ask[c].token /\ n.result = ask[c].result
    BY <1>a, SMTT(30) DEF AskRecord
  <2> HIDE DEF n
  <2>4. GoodAsk(n, now, skew, user)
    BY <1>b, <2>1, <2>3, ZenonT(30) DEF GoodAsk
  <2>5. UNCHANGED <<now, skew, user, tokenCache, tokenExpiration, tokenLock>>
    BY <1>4 DEF Unchallenged
  <2>6. QED
    BY <2>1, <2>2, <2>3, <2>4, <2>5, PlainStep, ZenonT(30)
<1>5. QED
  BY <1>1, <1>2, <1>3, <1>4

\* The handler's token is attached: within what the client takes for its lifetime.
LEMMA CachedStep ==
  ASSUME AuthInv, NEW c \in Callers, UseCached(c)
  PROVE  AuthInv'
<1> USE DEF Environment, UseCached
<1>a. ask[c] \in AskRecord /\ ask \in [Callers -> AskRecord] /\ now \in Nat /\ tokenExpiration \in Nat
  BY DEF AuthInv, AuthTypes
<1>b. ask[c].result = "none"
  BY DEF AuthInv, GoodAsk
<1>c. tokenCache \in Token \cup {NoToken}
  BY DEF AuthInv, GoodCache, GoodToken
<1> DEFINE n == [[[ask[c] EXCEPT !.at = "sent"] EXCEPT !.token = tokenCache] EXCEPT !.sent = now]
<1>1. ask' = [ask EXCEPT ![c] = n] /\ ask[c].at = "modify"
  BY ZenonT(30)
<1>2. n \in AskRecord
  BY <1>a, <1>c, ZenonT(30) DEF AskRecord
<1>3. n.at = "sent" /\ n.token = tokenCache /\ n.result = "none" /\ n.sent = now /\ n.kind = ask[c].kind
  BY <1>a, <1>b DEF AskRecord
<1> HIDE DEF n
<1>4. now <= tokenExpiration /\ scopes(ask[c].kind) = OwnScopes
  BY <1>a DEF NeedsFetch, addedScopes
<1>5. ASSUME tokenCache # NoToken
      PROVE  now <= tokenCache.got + skew + Limit(tokenCache.life)
  <2>1. tokenCache \in Token /\ skew \in Nat /\ tokenExpiration <= tokenCache.got + skew + Limit(tokenCache.life)
    BY <1>5, AuthAssumption DEF AuthInv, AuthTypes, GoodCache, GoodToken
  <2>2. tokenCache.got \in Nat /\ Limit(tokenCache.life) \in Nat
    BY <2>1, AuthAssumption DEF Token, Limit
  <2>3. QED
    BY <1>a, <1>4, <2>1, <2>2
<1>6. GoodAsk(n, now, skew, user)
  BY <1>3, <1>4, <1>5 DEF GoodAsk, AuthInv, GoodCache
<1>7. UNCHANGED <<now, skew, user, tokenCache, tokenExpiration, tokenLock>>
  OBVIOUS
<1>8. QED
  BY <1>1, <1>2, <1>3, <1>6, <1>7, PlainStep, ZenonT(30)

\* A fetch begins with the lock free and a request that has no token.
LEMMA FetchStep ==
  ASSUME AuthInv, NEW c \in Callers, BeginFetch(c), ~(useOAuth /\ creds = "none")
  PROVE  AuthInv'
<1> USE DEF Environment, BeginFetch
<1>a. ask[c] \in AskRecord /\ GoodAsk(ask[c], now, skew, user)
  BY DEF AuthInv, AuthTypes
<1> DEFINE n == [ask[c] EXCEPT !.at = "fetch"]
<1>1. ask' = [ask EXCEPT ![c] = n] /\ ask[c].at = "modify" /\ tokenLock = NoToken /\ tokenLock' = c
  BY DEF NoCaller
<1>2. n \in AskRecord
  BY <1>a DEF AskRecord
<1>3. n.at = "fetch" /\ n.token = ask[c].token /\ n.result = ask[c].result
  BY <1>a DEF AskRecord
<1> HIDE DEF n
<1>4. GoodAsk(n, now, skew, user)
  BY <1>a, <1>1, <1>3 DEF GoodAsk
<1>5. UNCHANGED <<now, skew, user, tokenCache, tokenExpiration>>
  OBVIOUS
<1>6. /\ ask' \in [Callers -> AskRecord]
      /\ \A d \in Callers : GoodAsk(ask[d], now, skew, user)'
      /\ ask'[c] = n /\ \A d \in Callers \ {c} : ask'[d] = ask[d]
  BY <1>1, <1>2, <1>4, <1>5, AskStep, ZenonT(30)
<1>7. AuthTypes' /\ GoodCache'
  BY <1>1, <1>5, <1>6 DEF AuthInv, AuthTypes, GoodCache
<1>8. GoodLock'
  BY <1>1, <1>3, <1>6, AuthAssumption DEF AuthInv, GoodLock
<1>9. QED
  BY <1>6, <1>7, <1>8 DEF AuthInv

\* The issuer dates a token by its clock and grants no more than the user may do.
LEMMA IssueStep ==
  ASSUME AuthInv, NEW c \in Callers, NEW life \in Lifetimes, Issue(c, life)
  PROVE  AuthInv'
<1> USE DEF Environment
<1>a. ask[c] \in AskRecord /\ ask[c].kind \in Kinds /\ now \in Nat /\ skew \in Nat /\ life \in Nat
  BY AuthAssumption DEF AuthInv, AuthTypes, AskRecord
<1>b. GoodAsk(ask[c], now, skew, user) /\ user \subseteq Access /\ "pull" \in user
  BY DEF AuthInv, AuthTypes
<1> DEFINE may == IF creds = "none" THEN {"pull"} ELSE user
           k == [asked |-> scopes(ask[c].kind), access |-> scopes(ask[c].kind) \cap may,
                 iat |-> now + skew, exp |-> now + skew + Lasts(life),
                 life |-> life, issued |-> now, got |-> now]
           n == [[ask[c] EXCEPT !.at = "issued"] EXCEPT !.token = k]
<1>1. ask' = [ask EXCEPT ![c] = n] /\ ask[c].at = "fetch"
  BY ZenonT(30) DEF Issue, Lasts
<1>2. scopes(ask[c].kind) \subseteq Access /\ Lasts(life) \in Nat /\ may \subseteq user
  BY <1>a, <1>b, ScopesType, AuthAssumption DEF Lasts
<1>3. k \in Token
  BY <1>a, <1>2 DEF Token
<1>4. /\ k.asked = scopes(ask[c].kind) /\ k.access = scopes(ask[c].kind) \cap may /\ k.iat = now + skew
      /\ k.exp = now + skew + Lasts(life) /\ k.life = life /\ k.issued = now /\ k.got = now
  OBVIOUS
<1> HIDE DEF k, may
<1>5. GoodToken(k, now, skew, user)
  BY <1>a, <1>2, <1>3, <1>4 DEF GoodToken
<1>6. n \in AskRecord
  BY <1>a, <1>3, ZenonT(30) DEF AskRecord
<1>7. n.at = "issued" /\ n.token = k /\ n.result = ask[c].result /\ n.kind = ask[c].kind
  BY <1>a DEF AskRecord
<1> HIDE DEF n
<1>8. GoodAsk(n, now, skew, user)
  BY <1>b, <1>1, <1>4, <1>5, <1>7, ZenonT(30) DEF GoodAsk
<1>9. UNCHANGED <<now, skew, user, tokenCache, tokenExpiration, tokenLock>>
  BY DEF Issue
<1>10. QED
  BY <1>1, <1>6, <1>7, <1>8, <1>9, PlainStep, ZenonT(30)

\* The goroutine that fetched gives the lock back.
LEMMA Unlocks ==
  ASSUME AuthInv, NEW c \in Callers, ask[c].at \in {"fetch", "issued"}, tokenLock' = NoToken,
         ask'[c].at \notin {"fetch", "issued"}, \A d \in Callers \ {c} : ask'[d] = ask[d]
  PROVE  GoodLock'
<1>1. \A d \in Callers \ {c} : ask[d].at \notin {"fetch", "issued"}
  BY DEF AuthInv, GoodLock
<1>2. QED
  BY <1>1, AuthAssumption DEF GoodLock

LEMMA FetchFailsStep ==
  ASSUME AuthInv, NEW c \in Callers, FetchFails(c)
  PROVE  AuthInv'
<1> USE DEF Environment, FetchFails
<1>a. ask[c] \in AskRecord
  BY DEF AuthInv, AuthTypes
<1> DEFINE n == [[[ask[c] EXCEPT !.at = "none"] EXCEPT !.token = NoToken] EXCEPT !.result = "failed"]
<1>1. ask' = [ask EXCEPT ![c] = n] /\ ask[c].at \in {"fetch", "issued"} /\ tokenLock' = NoToken
  BY ZenonT(30) DEF NoCaller
<1>2. n \in AskRecord
  BY <1>a, ZenonT(30) DEF AskRecord
<1>3. n.at = "none" /\ n.result = "failed"
  BY <1>a DEF AskRecord
<1> HIDE DEF n
<1>4. GoodAsk(n, now, skew, user)
  BY <1>3 DEF GoodAsk
<1>5. UNCHANGED <<now, skew, user, tokenCache, tokenExpiration>>
  OBVIOUS
<1>6. /\ ask' \in [Callers -> AskRecord]
      /\ \A d \in Callers : GoodAsk(ask[d], now, skew, user)'
      /\ ask'[c] = n /\ \A d \in Callers \ {c} : ask'[d] = ask[d]
  BY <1>1, <1>2, <1>4, <1>5, AskStep, ZenonT(30)
<1>7. AuthTypes' /\ GoodCache'
  BY <1>1, <1>5, <1>6 DEF AuthInv, AuthTypes, GoodCache
<1>8. GoodLock'
  BY <1>1, <1>3, <1>6, Unlocks
<1>9. QED
  BY <1>6, <1>7, <1>8 DEF AuthInv

\* A token expires, for the client, within its most of the receipt.
LEMMA WithinLimit ==
  ASSUME NEW t \in Nat, NEW s \in Nat, NEW most \in Nat, NEW issued \in Nat, issued <= t
  PROVE  /\ t <= t + s + most
         /\ t + most \in Nat /\ t + most <= t + s + most
         /\ (issued + s) + most \in Nat /\ (issued + s) + most <= t + s + most
OBVIOUS

\* The receipt: the token is attached at once, and kept unless a scope was added.
LEMMA ReceivedStep ==
  ASSUME AuthInv, NEW c \in Callers, NEW dated \in BOOLEAN, NEW refresh \in BOOLEAN,
         Received(c, dated, refresh)
  PROVE  AuthInv'
<1> USE DEF Environment
<1>a. ask[c] \in AskRecord /\ now \in Nat /\ skew \in Nat
  BY AuthAssumption DEF AuthInv, AuthTypes
<1>b. ask[c].at = "issued"
  BY DEF Received
<1>c. /\ GoodToken(ask[c].token, now, skew, user) /\ ask[c].token.asked = scopes(ask[c].kind)
      /\ ask[c].result = "none"
  BY <1>b, ZenonT(30) DEF AuthInv, GoodAsk
<1> DEFINE o == ask[c].token
           k == [o EXCEPT !.got = now]
           n == [[[ask[c] EXCEPT !.at = "sent"] EXCEPT !.sent = now] EXCEPT !.token = k]
<1>1. ask' = [ask EXCEPT ![c] = n] /\ tokenLock' = NoToken
  BY ZenonT(30) DEF Received, NoCaller
<1>2. /\ ~addedScopes(ask[c].kind) =>
            /\ tokenCache' = k
            /\ tokenExpiration' = expiration(k.life, IF dated THEN k.iat ELSE now)
      /\ addedScopes(ask[c].kind) => UNCHANGED <<tokenCache, tokenExpiration>>
      /\ UNCHANGED <<now, skew, user>>
  BY DEF Received
<1>3. o \in Token /\ k \in Token
  BY <1>a, <1>c DEF GoodToken, Token
<1>4. /\ k.asked = o.asked /\ k.access = o.access /\ k.iat = o.iat /\ k.exp = o.exp
      /\ k.life = o.life /\ k.issued = o.issued /\ k.got = now
  BY <1>3 DEF Token
<1>5. n \in AskRecord
  BY <1>a, <1>3, ZenonT(30) DEF AskRecord
<1>6. n.at = "sent" /\ n.token = k /\ n.result = "none" /\ n.kind = ask[c].kind /\ n.sent = now
  BY <1>a, <1>c DEF AskRecord
<1> HIDE DEF n, k
<1>7. o.issued \in Nat /\ o.got \in Nat /\ o.issued <= o.got /\ o.got <= now
  BY <1>c, <1>3 DEF GoodToken, Token
<1>8. GoodToken(k, now, skew, user)
  <2>1. k.access \subseteq user /\ k.iat = k.issued + skew /\ k.exp = k.issued + skew + Lasts(k.life)
    BY <1>c, <1>4, ZenonT(30) DEF GoodToken
  <2>2. k.issued <= k.got /\ k.got <= now
    <3>1. o.issued <= now /\ now <= now
      BY <1>a, <1>7
    <3>2. QED
      BY <1>4, <3>1, ZenonT(30)
  <2>3. QED
    BY <1>3, <2>1, <2>2, ZenonT(30) DEF GoodToken
<1>9. k.life \in Nat /\ Limit(k.life) \in Nat /\ k.iat = k.issued + skew /\ k.issued \in Nat /\ k.issued <= now
  BY <1>3, <1>4, <1>7, <1>8, AuthAssumption, ZenonT(30) DEF Limit, GoodToken, Token
<1>10. now <= k.got + skew + Limit(k.life)
  BY <1>a, <1>4, <1>9, WithinLimit, ZenonT(30)
<1>11. GoodAsk(n, now, skew, user)
  BY <1>c, <1>4, <1>6, <1>8, <1>10, ZenonT(30) DEF GoodAsk
<1>12. /\ ask' \in [Callers -> AskRecord]
       /\ \A d \in Callers : GoodAsk(ask[d], now, skew, user)'
       /\ ask'[c] = n /\ \A d \in Callers \ {c} : ask'[d] = ask[d]
  BY <1>1, <1>2, <1>5, <1>11, AskStep, ZenonT(30)
<1>13. GoodLock'
  BY <1>b, <1>1, <1>6, <1>12, Unlocks, ZenonT(30)
<1>14. GoodCache' /\ tokenExpiration' \in Nat
  <2>1. CASE addedScopes(ask[c].kind)
    BY <1>2, <2>1 DEF AuthInv, AuthTypes, GoodCache
  <2>2. CASE ~addedScopes(ask[c].kind)
    <3>1. tokenExpiration' = (IF dated THEN k.iat ELSE now) + Limit(k.life)
      BY <1>2, <2>2 DEF expiration, Limit
    <3>2. tokenExpiration' \in Nat /\ tokenExpiration' <= k.got + skew + Limit(k.life)
      <4>1. k.got = now /\ (tokenExpiration' = (k.issued + skew) + Limit(k.life)
                             \/ tokenExpiration' = now + Limit(k.life))
        BY <1>4, <1>9, <3>1, ZenonT(30)
      <4>2. QED
        BY <1>a, <1>9, <4>1, WithinLimit
    <3>3. k.asked = OwnScopes
      BY <1>c, <1>4, <2>2, ZenonT(30) DEF addedScopes
    <3>4. QED
      BY <1>2, <1>8, <2>2, <3>2, <3>3 DEF GoodCache
  <2>3. QED
    BY <2>1, <2>2
<1>15. AuthTypes'
  BY <1>1, <1>2, <1>12, <1>14 DEF AuthInv, AuthTypes
<1>16. QED
  BY <1>12, <1>13, <1>14, <1>15 DEF AuthInv

\* The verdict of the registry.
LEMMA ArriveStep ==
  ASSUME AuthInv, NEW c \in Callers, Arrive(c)
  PROVE  AuthInv'
<1> USE DEF Environment
<1>a. ask[c] \in AskRecord /\ now \in Nat /\ skew \in Nat /\ skew <= Leeway /\ Leeway \in Nat
  BY AuthAssumption DEF AuthInv, AuthTypes
<1>b. ask[c].at = "sent" /\ GoodAsk(ask[c], now, skew, user)
  BY ZenonT(30) DEF Arrive, AuthInv
<1> DEFINE a == ask[c]
           verdict == IF Authorized(a.kind, a.token) THEN "served" ELSE "refused"
           n == [[a EXCEPT !.at = "none"] EXCEPT !.result = verdict]
<1>1. ask' = [ask EXCEPT ![c] = n]
  BY ZenonT(30) DEF Arrive, Finish
<1>2. n \in AskRecord
  BY <1>a, ZenonT(30) DEF AskRecord
<1>3. n.at = "none" /\ n.token = a.token /\ n.result = verdict /\ n.kind = a.kind /\ n.sent = a.sent
  BY <1>a, SMTT(30) DEF AskRecord
<1> HIDE DEF n
<1>4. verdict = "served" => Served(a.kind, user)
  BY <1>b, ZenonT(30) DEF Authorized, Served, GoodAsk, GoodToken
<1>5. ASSUME verdict = "refused", a.token # NoToken, accessRecords(a.kind) \subseteq a.token.access
      PROVE  Overdue(n, now)
  <2> DEFINE k == a.token
  <2>1. GoodToken(k, now, skew, user) /\ a.sent <= k.got + skew + Limit(k.life) /\ a.sent \in Nat
    BY <1>a, <1>b, <1>5, ZenonT(30) DEF GoodAsk, AskRecord
  <2>2. ~Verify(k)
    BY <1>5 DEF Authorized
  <2>3. /\ k \in Token /\ k.issued \in Nat /\ k.got \in Nat /\ k.life \in Nat /\ k.exp \in Nat /\ k.iat \in Nat
        /\ Lasts(k.life) \in Nat /\ Limit(k.life) \in Nat /\ Slack(k) \in Int /\ MinLifetime \in Nat
    <3>1. /\ k \in Token /\ k.issued \in Nat /\ k.got \in Nat /\ k.life \in Nat /\ k.exp \in Nat /\ k.iat \in Nat
      BY <2>1, AuthAssumption, ZenonT(30) DEF GoodToken, Token
    <3>2. MinLifetime \in Nat /\ Leeway \in Nat
      BY AuthAssumption
    <3>3. Lasts(k.life) \in Nat /\ Limit(k.life) \in Nat
      BY <3>1, <3>2 DEF Lasts, Limit
    <3>4. Slack(k) \in Int
      BY <3>1, <3>2 DEF Slack
    <3>5. QED
      BY <3>1, <3>2, <3>3, <3>4, ZenonT(30)
  <2>4. /\ k.issued <= k.got /\ k.got <= now /\ k.iat = k.issued + skew
        /\ k.exp = k.issued + skew + Lasts(k.life)
    BY <2>1 DEF GoodToken
  <2>5. Slack(k) = Leeway + Lasts(k.life) - Limit(k.life)
    BY <1>a, <2>3, SMTT(30) DEF Slack, Lasts, Limit
  <2>6. now > k.exp + Leeway
    <3>1. ~(now <= k.exp + Leeway /\ now + Leeway >= k.iat)
      BY <2>2, ZenonT(30) DEF Verify
    <3>2. now + Leeway >= k.iat
      BY <1>a, <2>3, <2>4
    <3>3. QED
      BY <1>a, <2>3, <3>1, <3>2
  <2> HIDE DEF k
  <2>7. (now - a.sent) + (k.got - k.issued) > Slack(k)
    BY <1>a, <2>1, <2>3, <2>4, <2>5, <2>6, SMTT(30)
  <2>8. QED
    BY <1>3, <2>3, <2>7, ZenonT(30) DEF Overdue, k
<1>6. GoodAsk(n, now, skew, user)
  BY <1>3, <1>4, <1>5, ZenonT(30) DEF GoodAsk, Late
<1>7. UNCHANGED <<now, skew, user, tokenCache, tokenExpiration, tokenLock>>
  BY ZenonT(30) DEF Arrive
<1>8. QED
  BY <1>b, <1>1, <1>2, <1>3, <1>6, <1>7, PlainStep, ZenonT(30)

LEMMA AuthInvNext == AuthInv /\ [AuthNext]_authVars => AuthInv'
<1>1. ASSUME AuthInv, AuthNext PROVE AuthInv'
  <2>1. ASSUME NEW c \in Callers, BeginFetch(c) PROVE AuthInv'
    BY <1>1, <2>1, EarlySteps, FetchStep
  <2>2. QED
    BY <1>1, <2>1, TickKeeps, EarlySteps, CachedStep, IssueStep, FetchFailsStep, ReceivedStep, ArriveStep
       DEF AuthNext
<1>2. ASSUME AuthInv, UNCHANGED authVars PROVE AuthInv'
  BY <1>2 DEF AuthInv, AuthTypes, GoodCache, GoodLock, authVars
<1>3. QED
  BY <1>1, <1>2

(***************************************************************************)
(* The token handler and the registry fit, for any minimum lifetime, any   *)
(* leeway no smaller than the clocks differ, and any lifetimes: the cached *)
(* token has the handler's own scopes, a request leaves with the scopes it *)
(* needs, nothing is served that was not granted, and a granted request is *)
(* refused only when it is late.                                           *)
(***************************************************************************)
THEOREM AuthCorrect == AuthSpec => [](ScopesKept /\ RefusedOnlyLate)
<1>1. ASSUME AuthInv PROVE ScopesKept /\ RefusedOnlyLate
  <2>1. CacheOwnScopes
    BY <1>1, ZenonT(30) DEF AuthInv, GoodLock, GoodCache, CacheOwnScopes
  <2>2. CarriesScopes
    BY <1>1, ZenonT(30) DEF AuthInv, GoodAsk, CarriesScopes
  <2>3. ServedOnlyGranted
    <3>1. ASSUME NEW c \in Callers, ask[c].result = "served"
          PROVE  CASE ask[c].kind = "GET"    -> TRUE
                   [] ask[c].kind = "PUT"    -> "push" \in user
                   [] ask[c].kind = "DELETE" -> "delete" \in user
                   [] ask[c].kind = "MOUNT"  -> {"push", "from"} \subseteq user
      <4>1. ask[c].kind \in {"GET", "PUT", "DELETE", "MOUNT"}
        BY <1>1 DEF AuthInv, AuthTypes, AskRecord, Kinds
      <4>2. accessRecords(ask[c].kind) \subseteq user
        BY <1>1, <3>1, ZenonT(30) DEF AuthInv, GoodAsk, Served
      <4>3. QED
        BY <4>1, <4>2, ZenonT(30) DEF accessRecords, appendAccessRecords
    <3>2. QED
      BY <3>1, ZenonT(30) DEF ServedOnlyGranted
  <2>4. RefusedOnlyLate
    BY <1>1, ZenonT(30) DEF AuthInv, GoodAsk, Late, Overdue, RefusedOnlyLate
  <2>5. QED
    BY <2>1, <2>2, <2>3, <2>4 DEF ScopesKept
<1>2. QED
  BY <1>1, AuthInvInit, AuthInvNext, PTL DEF AuthSpec

\* The token handler keeps scopes apart: what it caches has its own scopes and what it sends has
\* the scopes of the request, and the registry serves only what was granted.
THEOREM AuthScopes == AuthSpec => []ScopesKept
BY AuthCorrect, PTL
=============================================================================
