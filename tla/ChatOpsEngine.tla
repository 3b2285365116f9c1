---------------------------- MODULE ChatOpsEngine ----------------------------
(***************************************************************************)
(* The /stock command of the ChatOps backend                               *)
(* (Chatops/backend/src/chatOpsEngine.ts): it asks the logistics service   *)
(* for the stock of a product, with a timeout and retries, through a       *)
(* circuit breaker that all commands share.                                *)
(*                                                                         *)
(* Commands run at the same time: one that was let through may end after   *)
(* the breaker has changed its state.                                      *)
(*                                                                         *)
(* Time is left out but for two facts: a fetch ends (5 s at most), and the *)
(* reset timeout of an open breaker passes (30 s).                         *)
(***************************************************************************)
EXTENDS Integers

CONSTANTS
  Commands,         \* /stock commands under way at once
  FetchAttempts,    \* LOGISTICS_FETCH_RETRY_COUNT
  FailureThreshold, \* LOGISTICS_CIRCUIT_FAILURE_THRESHOLD
  SuccessThreshold  \* LOGISTICS_CIRCUIT_SUCCESS_THRESHOLD

ASSUME EngineAssumption ==
  {FetchAttempts, FailureThreshold, SuccessThreshold} \subseteq Nat \ {0}

VARIABLES
  breaker,   \* the fields of logisticsCircuitBreaker; `ripe`: nextAttempt is past
  command,   \* command[c]: where a command is, and the attempt of its fetch
  reachable, \* logistics answers
  streak     \* the failures in a row among the results of fetches

engineVars == <<breaker, command, reachable, streak>>

EngineInit ==
  /\ breaker = [state |-> "CLOSED", failures |-> 0, successes |-> 0, ripe |-> FALSE]
  /\ command = [c \in Commands |-> [pc |-> "idle", attempt |-> 1]]
  /\ reachable = TRUE
  /\ streak = 0

-----------------------------------------------------------------------------
(***************************************************************************)
(* The breaker.  Its counters are only compared with their thresholds, so  *)
(* they need not be told apart beyond these.                               *)
(***************************************************************************)
UpTo(bound, n) == IF n < bound THEN n ELSE bound
ResetCounts(b) == [b EXCEPT !.failures = 0, !.successes = 0]
Close(b) == [ResetCounts(b) EXCEPT !.state = "CLOSED"]
Open(b) == [b EXCEPT !.state = "OPEN", !.ripe = FALSE, !.successes = 0]

\* A success that resets the counts of a half-open breaker as well.
OnlyResets(b) == ResetCounts(b)
OnSuccess(b) ==
  IF b.state # "HALF_OPEN" THEN ResetCounts(b)
  ELSE IF b.successes + 1 >= SuccessThreshold THEN Close(b)
  ELSE [b EXCEPT !.successes = @ + 1]

\* Any failure opens the breaker.
FirstFailureOpens(b) == Open([b EXCEPT !.failures = UpTo(FailureThreshold, @ + 1)])
OnFailure(b) ==
  LET counted == [b EXCEPT !.failures = UpTo(FailureThreshold, @ + 1)]
  IN  IF counted.failures >= FailureThreshold THEN Open(counted) ELSE counted

\* fire: an open breaker refuses until its timeout has passed, and then lets
\* through whoever comes.
Refuses(b) == b.state = "OPEN" /\ ~b.ripe

Fire(c) ==
  /\ command[c].pc \in {"idle", "refused"}
  /\ IF Refuses(breaker)
     THEN /\ command' = [command EXCEPT ![c].pc = "refused"]
          /\ UNCHANGED breaker
     ELSE /\ command' = [command EXCEPT ![c] = [pc |-> "fetch", attempt |-> 1]]
          /\ breaker' = IF breaker.state = "OPEN"
                        THEN [breaker EXCEPT !.state = "HALF_OPEN"] ELSE breaker
  /\ UNCHANGED <<reachable, streak>>

-----------------------------------------------------------------------------
Rest(c) == command' = [command EXCEPT ![c] = [pc |-> "idle", attempt |-> 1]]

\* Logistics answers, be it that there is no such product (4xx): a success.
FetchAnswered(c) ==
  /\ command[c].pc = "fetch"
  /\ reachable
  /\ Rest(c)
  /\ breaker' = OnSuccess(breaker)
  /\ streak' = 0
  /\ UNCHANGED reachable

\* The timeout, the network or a 5xx: tried again after a pause.
FetchRetried(c) ==
  /\ command[c].pc = "fetch"
  /\ ~reachable
  /\ command[c].attempt < FetchAttempts
  /\ command' = [command EXCEPT ![c].pc = "pause"]
  /\ UNCHANGED <<breaker, reachable, streak>>

FetchAgain(c) ==
  /\ command[c].pc = "pause"
  /\ command' = [command EXCEPT ![c] = [pc |-> "fetch", attempt |-> @.attempt + 1]]
  /\ UNCHANGED <<breaker, reachable, streak>>

\* The last attempt fails, or one with an error that is not retried.
FetchFailed(c) ==
  /\ command[c].pc = "fetch"
  /\ ~reachable
  /\ Rest(c)
  /\ breaker' = OnFailure(breaker)
  /\ streak' = UpTo(FailureThreshold, streak + 1)
  /\ UNCHANGED reachable

\* nextAttempt passes.
ResetTimeout ==
  /\ breaker.state = "OPEN" /\ ~breaker.ripe
  /\ breaker' = [breaker EXCEPT !.ripe = TRUE]
  /\ UNCHANGED <<command, reachable, streak>>

LogisticsChanges ==
  /\ reachable' = ~reachable
  /\ UNCHANGED <<breaker, command, streak>>

FetchStep(c) == FetchAnswered(c) \/ FetchRetried(c) \/ FetchAgain(c) \/ FetchFailed(c)

EngineNext ==
  \/ \E c \in Commands : Fire(c) \/ FetchStep(c)
  \/ ResetTimeout \/ LogisticsChanges

\* Timers end every fetch, every pause and the reset timeout; nobody has to
\* send a command.
EngineFairness ==
  /\ \A c \in Commands : WF_engineVars(FetchStep(c))
  /\ WF_engineVars(ResetTimeout)

EngineSpec == EngineInit /\ [][EngineNext]_engineVars /\ EngineFairness

-----------------------------------------------------------------------------
\* Type invariant.
EngineTypeOK ==
  /\ breaker \in [state : {"CLOSED", "OPEN", "HALF_OPEN"}, failures : 0..FailureThreshold,
                  successes : 0..SuccessThreshold - 1, ripe : BOOLEAN]
  /\ command \in [Commands -> [pc : {"idle", "refused", "fetch", "pause"},
                               attempt : 1..FetchAttempts]]
  /\ reachable \in BOOLEAN
  /\ streak \in 0..FailureThreshold

\* The breaker opens only after FailureThreshold failures without a success
\* between them, however late the results of overlapping commands come in
\* (chatOpsEngine.ts:75-91).
OpensOnStreak ==
  [][breaker'.state = "OPEN" /\ breaker.state # "OPEN" => streak' = FailureThreshold]_engineVars

\* Once logistics answers for good and somebody goes on asking, the breaker
\* closes and stays closed: no result that comes late leaves it open or half
\* open (chatOpsEngine.ts:56-102).
Recovers ==
  <>[]reachable /\ []<><<\E c \in Commands : Fire(c)>>_engineVars
    => <>[](breaker.state = "CLOSED")

=============================================================================
