------------------------------ MODULE Regulator ------------------------------
(***************************************************************************)
(* The regulator of the storage drivers (base/regulator.go): every call of *)
(* a driver method takes a token first and gives it back at the end.  A    *)
(* step is one critical section of the regulator's lock, or a driver call. *)
(* The condition variable is the FIFO list of its waiters.                 *)
(***************************************************************************)
EXTENDS Integers, Sequences, FiniteSets

CONSTANTS Caller,
          MinLimit, DefLimit,  \* the driver's minimum and default number of calls
          Param                \* maxthreads/maxconcurrency as decoded: [kind, val]

ASSUME RegAssumption == /\ IsFiniteSet(Caller)
                        /\ MinLimit \in Nat /\ DefLimit \in Nat
                        /\ \A p \in Param : p.val \in Int

VARIABLES limit,      \* what the configuration gave
          available,
          rpc,        \* where each caller is
          condWaiters \* callers in Wait, in order

regVars == <<limit, available, rpc, condWaiters>>

Invalid == -1  \* an error, no driver is made

\* GetLimitFromParameter: strings and the unsigned types give their value, a signed value
\* that is not positive the minimum, and nothing the default.
ParamValue(p) ==
    CASE p.kind \in {"string", "unsigned"} -> IF p.val >= 0 THEN p.val ELSE Invalid
      [] p.kind = "signed" -> IF p.val > 0 THEN p.val ELSE MinLimit
      [] p.kind = "nil" -> DefLimit
      [] OTHER -> Invalid

GetLimitFromParameter(p) ==
    IF ParamValue(p) = Invalid THEN Invalid
    ELSE IF ParamValue(p) < MinLimit THEN MinLimit ELSE ParamValue(p)

\* NewRegulator
RegInit ==
    /\ limit \in {GetLimitFromParameter(p) : p \in Param} \ {Invalid}
    /\ available = limit
    /\ rpc = [c \in Caller |-> "out"]
    /\ condWaiters = <<>>

\* A method of the driver is called.
CallMethod(c) ==
    /\ rpc[c] = "out"
    /\ rpc' = [rpc EXCEPT ![c] = "lock"]
    /\ UNCHANGED <<limit, available, condWaiters>>

\* enter: a waiter that was signalled comes here again, and competes with new callers.
Enter(c) ==
    /\ rpc[c] = "lock"
    /\ IF available = 0
       THEN /\ rpc' = [rpc EXCEPT ![c] = "wait"]
            /\ condWaiters' = Append(condWaiters, c)
            /\ UNCHANGED available
       ELSE /\ available' = available - 1
            /\ rpc' = [rpc EXCEPT ![c] = "in"]
            /\ UNCHANGED condWaiters
    /\ UNCHANGED limit

Exit_NoSignal(c) ==
    /\ rpc[c] = "in"
    /\ available' = available + 1
    /\ rpc' = [rpc EXCEPT ![c] = "out"]
    /\ UNCHANGED <<condWaiters, limit>>

\* The driver's method returned: exit.
Exit(c) ==
    /\ rpc[c] = "in"
    /\ available' = available + 1
    /\ IF condWaiters = <<>>
       THEN /\ rpc' = [rpc EXCEPT ![c] = "out"]
            /\ UNCHANGED condWaiters
       ELSE /\ rpc' = [rpc EXCEPT ![c] = "out", ![Head(condWaiters)] = "lock"]
            /\ condWaiters' = Tail(condWaiters)
    /\ UNCHANGED limit

RegNext == \E c \in Caller : CallMethod(c) \/ Enter(c) \/ Exit(c)

\* Goroutines get the lock and driver calls return.
RegFairness == \A c \in Caller : WF_regVars(Enter(c) \/ Exit(c))

RegSpec == RegInit /\ [][RegNext]_regVars /\ RegFairness

-----------------------------------------------------------------------------
Inside == {c \in Caller : rpc[c] = "in"}

\* At most the configured number of calls is in the driver, and every token is accounted
\* for; the limit is never below the driver's minimum whatever the parameter was.
LimitHeld == /\ Cardinality(Inside) + available = limit
             /\ limit >= MinLimit

\* No wakeup is lost: while callers wait, every free token has a woken caller coming for it.
NoLostWakeup ==
    condWaiters # <<>> => available <= Cardinality({c \in Caller : rpc[c] = "lock"})

\* The tokens of the regulator are neither lost nor multiplied, and none lies idle while a caller
\* sleeps (enter and exit).
TokensKept == LimitHeld /\ NoLostWakeup

\* Every caller that waits for a token is woken.
WaiterWoken == \A c \in Caller : (rpc[c] = "wait") ~> (rpc[c] # "wait")
=============================================================================
