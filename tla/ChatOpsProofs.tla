---------------------------- MODULE ChatOpsProofs ----------------------------
(***************************************************************************)
(* Proofs about the ChatOps backend, for any number of commands, requests  *)
(* and messages.                                                           *)
(*                                                                         *)
(* Part 1, the circuit breaker, for any number of attempts and any         *)
(* thresholds: it opens for a reason. The breaker's failure count is the   *)
(* number of failures in a row, although commands that were let through at *)
(* different times end in any order. This rests on SuccessThreshold being  *)
(* 1, as it is in the code: with a greater one a half-open breaker would   *)
(* count a success and keep its failures.                                  *)
(*                                                                         *)
(* Part 2, the history of a channel, for any limit: what memory shows is   *)
(* what the database stores, or is about to. A message is pushed only      *)
(* while the list is in memory, so it is either pending or stored or       *)
(* refused; and a load that meets no other one starts from what was stored *)
(* before anything was pushed.                                             *)
(***************************************************************************)
EXTENDS ChatOpsEngine, ChatHistory, TLAPS

\* The failure count is the streak; together with the types, and with the fact
\* that a fetch pauses only before an attempt that is left, it is inductive.
EngineTyped ==
  /\ EngineTypeOK
  /\ \A c \in Commands : command[c].pc = "pause" => command[c].attempt < FetchAttempts
EngineInv == EngineTyped /\ breaker.failures = streak

LEMMA Sizes ==
  /\ FetchAttempts \in Nat \ {0} /\ FailureThreshold \in Nat \ {0}
  /\ SuccessThreshold \in Nat \ {0} /\ 1 \in 1..FetchAttempts
BY EngineAssumption

Breakers == [state : {"CLOSED", "OPEN", "HALF_OPEN"}, failures : 0..FailureThreshold,
             successes : 0..SuccessThreshold - 1, ripe : BOOLEAN]

LEMMA EngineStarts == EngineInit => EngineInv
BY Sizes DEF EngineInit, EngineInv, EngineTyped, EngineTypeOK

\* A success clears the counts, and opens nothing.
LEMMA SuccessClears ==
  ASSUME NEW b \in Breakers
  PROVE  /\ OnSuccess(b) \in Breakers
         /\ SuccessThreshold = 1 => OnSuccess(b).failures = 0
         /\ OnSuccess(b).state = "OPEN" => b.state = "OPEN"
<1>1. /\ b.successes \in 0..SuccessThreshold - 1 /\ 0 \in 0..FailureThreshold
      /\ 0 \in 0..SuccessThreshold - 1
  BY Sizes DEF Breakers
<1>2. CASE b.state # "HALF_OPEN"
  BY <1>1, <1>2 DEF OnSuccess, ResetCounts, Breakers
<1>3. CASE b.state = "HALF_OPEN" /\ b.successes + 1 >= SuccessThreshold
  <2>1. OnSuccess(b) = [[b EXCEPT !.failures = 0, !.successes = 0] EXCEPT !.state = "CLOSED"]
    BY <1>3 DEF OnSuccess, Close, ResetCounts
  <2> QED BY <1>1, <2>1 DEF Breakers
<1>4. CASE b.state = "HALF_OPEN" /\ ~(b.successes + 1 >= SuccessThreshold)
  <2>1. OnSuccess(b) = [b EXCEPT !.successes = b.successes + 1]
    BY <1>4 DEF OnSuccess
  <2>2. b.successes + 1 \in 0..SuccessThreshold - 1 /\ SuccessThreshold # 1
    BY <1>1, <1>4, Sizes
  <2> QED BY <1>4, <2>1, <2>2 DEF Breakers
<1> QED BY <1>2, <1>3, <1>4

\* A failure counts, and opens at the threshold.
LEMMA FailureCounts ==
  ASSUME NEW b \in Breakers
  PROVE  LET n == UpTo(FailureThreshold, b.failures + 1) IN
         /\ OnFailure(b) \in Breakers
         /\ OnFailure(b).failures = n /\ n \in 0..FailureThreshold
         /\ OnFailure(b).state = "OPEN" /\ b.state # "OPEN" => n = FailureThreshold
<1> DEFINE n == UpTo(FailureThreshold, b.failures + 1)
<1>1. n \in 0..FailureThreshold /\ (n >= FailureThreshold => n = FailureThreshold)
  BY Sizes DEF Breakers, UpTo
<1>2. CASE n >= FailureThreshold
  <2>1. OnFailure(b) = [[b EXCEPT !.failures = n] EXCEPT !.state = "OPEN", !.ripe = FALSE,
                                                         !.successes = 0]
    BY <1>2 DEF OnFailure, Open, Breakers
  <2>2. 0 \in 0..SuccessThreshold - 1
    BY Sizes
  <2>3. OnFailure(b) \in Breakers /\ OnFailure(b).failures = n
    BY <1>1, <2>1, <2>2 DEF Breakers
  <2> QED BY <1>1, <1>2, <2>3
<1>3. CASE ~(n >= FailureThreshold)
  <2>1. OnFailure(b) = [b EXCEPT !.failures = n]
    BY <1>3 DEF OnFailure, Breakers
  <2> QED BY <1>1, <2>1 DEF Breakers
<1> QED BY <1>2, <1>3

Steps == {s \in [pc : {"idle", "refused", "fetch", "pause"}, attempt : 1..FetchAttempts] :
            s.pc = "pause" => s.attempt < FetchAttempts}

\* One step per action; those of the breaker's counts are the two results.
LEMMA EngineStep ==
  ASSUME EngineTyped, [EngineNext]_engineVars
  PROVE  /\ EngineTyped'
         /\ SuccessThreshold = 1 /\ breaker.failures = streak =>
              /\ breaker'.failures = streak'
              /\ breaker'.state = "OPEN" /\ breaker.state # "OPEN"
                   => streak' = FailureThreshold
<1>1. /\ breaker \in Breakers /\ command \in [Commands -> Steps]
      /\ reachable \in BOOLEAN /\ streak \in 0..FailureThreshold
  BY DEF EngineTyped, EngineTypeOK, Breakers, Steps
<1> DEFINE counted == SuccessThreshold = 1 /\ breaker.failures = streak
<1> SUFFICES /\ breaker' \in Breakers /\ command' \in [Commands -> Steps]
             /\ reachable' \in BOOLEAN /\ streak' \in 0..FailureThreshold
             /\ counted => breaker'.failures = streak'
             /\ counted /\ breaker'.state = "OPEN" /\ breaker.state # "OPEN"
                  => streak' = FailureThreshold
  BY DEF EngineTyped, EngineTypeOK, Breakers, Steps
<1>2. CASE UNCHANGED engineVars
  BY <1>1, <1>2 DEF engineVars
<1>3. ASSUME NEW c \in Commands, Fire(c)
      PROVE  /\ breaker' \in Breakers /\ command' \in [Commands -> Steps]
             /\ breaker'.failures = breaker.failures
             /\ breaker'.state = "OPEN" => breaker.state = "OPEN"
             /\ UNCHANGED <<reachable, streak>>
  <2>1. CASE Refuses(breaker)
    <3>1. /\ command' = [command EXCEPT ![c] = [command[c] EXCEPT !.pc = "refused"]]
          /\ UNCHANGED <<breaker, reachable, streak>>
      BY <1>3, <2>1 DEF Fire
    <3>2. [command[c] EXCEPT !.pc = "refused"] \in Steps
      BY <1>1 DEF Steps
    <3> QED BY <1>1, <3>1, <3>2
  <2>2. CASE ~Refuses(breaker)
    <3>1. /\ command' = [command EXCEPT ![c] = [pc |-> "fetch", attempt |-> 1]]
          /\ breaker' = IF breaker.state = "OPEN"
                        THEN [breaker EXCEPT !.state = "HALF_OPEN"] ELSE breaker
          /\ UNCHANGED <<reachable, streak>>
      BY <1>3, <2>2 DEF Fire
    <3>2. [pc |-> "fetch", attempt |-> 1] \in Steps
      BY Sizes DEF Steps
    <3>3. /\ breaker' \in Breakers /\ breaker'.failures = breaker.failures
          /\ breaker'.state = "OPEN" => breaker.state = "OPEN"
      BY <1>1, <3>1 DEF Breakers
    <3> QED BY <1>1, <3>1, <3>2, <3>3
  <2> QED BY <2>1, <2>2
<1>4. ASSUME NEW c \in Commands
      PROVE  /\ Rest(c) => command' \in [Commands -> Steps]
             /\ FetchRetried(c) => command' \in [Commands -> Steps]
             /\ FetchAgain(c) => command' \in [Commands -> Steps]
  <2>1. [pc |-> "idle", attempt |-> 1] \in Steps
    BY Sizes DEF Steps
  <2>2. command[c].attempt < FetchAttempts => [command[c] EXCEPT !.pc = "pause"] \in Steps
    BY <1>1 DEF Steps
  <2>3. Rest(c) => command' \in [Commands -> Steps]
    BY <1>1, <2>1 DEF Rest
  <2>4. FetchRetried(c) => command' \in [Commands -> Steps]
    BY <1>1, <2>2 DEF FetchRetried
  <2>5. ASSUME FetchAgain(c) PROVE command' \in [Commands -> Steps]
    <3>1. /\ command[c] \in Steps /\ command[c].pc = "pause"
          /\ command' = [command EXCEPT ![c] = [pc |-> "fetch",
                                                attempt |-> command[c].attempt + 1]]
      BY <1>1, <2>5 DEF FetchAgain
    <3>2. [pc |-> "fetch", attempt |-> command[c].attempt + 1] \in Steps
      BY <3>1, Sizes DEF Steps
    <3> QED BY <1>1, <3>1, <3>2
  <2> QED BY <2>3, <2>4, <2>5
<1>5. ASSUME NEW c \in Commands, FetchAnswered(c)
      PROVE  /\ breaker' = OnSuccess(breaker) /\ streak' = 0 /\ UNCHANGED reachable
             /\ command' \in [Commands -> Steps]
  BY <1>4, <1>5 DEF FetchAnswered
<1>6. ASSUME NEW c \in Commands, FetchFailed(c)
      PROVE  /\ breaker' = OnFailure(breaker) /\ UNCHANGED reachable
             /\ streak' = UpTo(FailureThreshold, streak + 1)
             /\ command' \in [Commands -> Steps]
  BY <1>4, <1>6 DEF FetchFailed
<1>7. CASE ResetTimeout \/ LogisticsChanges
  BY <1>1, <1>7 DEF ResetTimeout, LogisticsChanges, Breakers
<1>8. ASSUME NEW c \in Commands, FetchStep(c)
      PROVE  /\ breaker' \in Breakers /\ command' \in [Commands -> Steps]
             /\ UNCHANGED reachable /\ streak' \in 0..FailureThreshold
             /\ counted => breaker'.failures = streak'
             /\ counted /\ breaker'.state = "OPEN" /\ breaker.state # "OPEN"
                  => streak' = FailureThreshold
  <2>1. CASE FetchAnswered(c)
    BY <1>1, <1>5, <2>1, SuccessClears, Sizes
  <2>2. CASE FetchRetried(c) \/ FetchAgain(c)
    <3>1. UNCHANGED <<breaker, reachable, streak>>
      BY <2>2 DEF FetchRetried, FetchAgain
    <3> QED BY <1>1, <1>4, <2>2, <3>1
  <2>3. CASE FetchFailed(c)
    <3>1. streak' \in 0..FailureThreshold
      BY <1>1, <1>6, <2>3, Sizes DEF UpTo
    <3>2. counted => streak' = UpTo(FailureThreshold, breaker.failures + 1)
      BY <1>6, <2>3
    <3>3. breaker' = OnFailure(breaker) /\ UNCHANGED reachable /\ command' \in [Commands -> Steps]
      BY <1>6, <2>3
    <3> HIDE DEF counted
    <3> QED BY <1>1, <3>1, <3>2, <3>3, FailureCounts
  <2> QED BY <1>8, <2>1, <2>2, <2>3 DEF FetchStep
<1> QED BY <1>1, <1>2, <1>3, <1>7, <1>8 DEF EngineNext

\* The counts of the breaker stay below their thresholds and an attempt within
\* its number, whatever the thresholds are (chatOpsEngine.ts:25-91, 115-157).
THEOREM EngineTypesHold == EngineInit /\ [][EngineNext]_engineVars => []EngineTypeOK
<1>1. EngineTyped /\ [EngineNext]_engineVars => EngineTyped'
  BY EngineStep
<1>2. EngineInit => EngineTyped
  BY EngineStarts DEF EngineInv
<1>3. EngineTyped => EngineTypeOK
  BY DEF EngineTyped
<1> QED BY <1>1, <1>2, <1>3, PTL

\* The breaker opens only on FailureThreshold failures in a row, in whatever
\* order the results of commands come in (chatOpsEngine.ts:75-91).
THEOREM BreakerOpensOnStreak ==
  ASSUME SuccessThreshold = 1
  PROVE  EngineSpec => OpensOnStreak
<1>1. EngineInv /\ [EngineNext]_engineVars => EngineInv'
  BY EngineStep DEF EngineInv
<1>2. EngineInv /\ [EngineNext]_engineVars
        => [breaker'.state = "OPEN" /\ breaker.state # "OPEN"
              => streak' = FailureThreshold]_engineVars
  BY EngineStep DEF EngineInv
<1> QED BY EngineStarts, <1>1, <1>2, PTL DEF EngineSpec, OpensOnStreak

-----------------------------------------------------------------------------
(***************************************************************************)
(* Part 2: the history of a channel.                                       *)
(***************************************************************************)
\* Where a request has pushed its message.
Serving(r) == chat[r].pc \in {"insert", "audit", "command", "insert reply"}

\* What is pushed, but not stored yet.
PendingAll == UNION {Pending(r) : r \in ChatRequests}

\* What a load of the channel returns.
Oldest == SubSeq(stored, 1, Min({Len(stored), HistoryLimit}))

\* A message is served, and a command answered, only while the list is in memory.
ServedFromMemory ==
  \A r \in ChatRequests :
    /\ Serving(r) => history # Unloaded /\ r \in ChatMessages
    /\ chat[r].pc \in {"command", "insert reply"} => r \in ChatCommands
    /\ Range(chat[r].rows) \subseteq Range(stored)

\* A load that meets no other one finds nothing in memory, and nothing is stored
\* before it ends.
LoadsAlone ==
  ~loadsMet =>
    /\ \A r \in ChatRequests : Loading(r) => history = Unloaded
    /\ \A r, q \in ChatRequests : Loading(r) /\ Loading(q) => r = q
    /\ \A r \in ChatRequests : At(r, "set") => chat[r].rows = Oldest

ShowsAll ==
  history # Unloaded /\ ~loadsMet /\ Len(history) < HistoryLimit =>
    Range(stored) \cup PendingAll \subseteq Range(history)

ShowsNoMore ==
  history # Unloaded =>
    Range(history) \subseteq {Welcome} \cup Range(stored) \cup unstored \cup PendingAll

RowsFit == \A r \in ChatRequests : Len(chat[r].rows) <= HistoryLimit

HistoryInv ==
  HistoryTypeOK /\ ServedFromMemory /\ RowsFit /\ LoadsAlone /\ ShowsAll /\ ShowsNoMore

LEMMA Limits ==
  /\ HistoryLimit \in Nat \ {0} /\ MaxChatFaults \in Nat /\ ChatCommands \subseteq ChatMessages
  /\ ChatMessages \subseteq ChatRequests /\ ChatMessages \cap Readers = {}
  /\ Unloaded \notin Seq(Shown) /\ Sent \subseteq Shown
  /\ \A m \in ChatMessages : m \in Sent
  /\ \A m \in ChatCommands : Reply(m) \in Sent
BY ChatAssumption DEF ChatRequests, Shown, Sent

LEMMA MinOfTwo ==
  ASSUME NEW a \in Nat, NEW b \in Nat
  PROVE  Min({a, b}) = IF a <= b THEN a ELSE b
<1>1. CASE a <= b
  <2>1. a \in {a, b} /\ \A y \in {a, b} : a <= y
    BY <1>1
  <2>2. \A x \in {a, b} : (\A y \in {a, b} : x <= y) => x = a
    BY <1>1
  <2> QED BY <1>1, <2>1, <2>2 DEF Min
<1>2. CASE ~(a <= b)
  <2>1. b \in {a, b} /\ \A y \in {a, b} : b <= y
    BY <1>2
  <2>2. \A x \in {a, b} : (\A y \in {a, b} : x <= y) => x = b
    BY <1>2
  <2> QED BY <1>2, <2>1, <2>2 DEF Min
<1> QED BY <1>1, <1>2

LEMMA AppendRange ==
  ASSUME NEW S, NEW s \in Seq(S), NEW e \in S
  PROVE  Append(s, e) \in Seq(S) /\ Range(Append(s, e)) = Range(s) \cup {e}
<1>1. /\ Append(s, e) \in Seq(S) /\ DOMAIN Append(s, e) = 1..Len(s) + 1
      /\ DOMAIN s = 1..Len(s) /\ Len(s) \in Nat
      /\ \A n \in 1..Len(s) : Append(s, e)[n] = s[n]
      /\ Append(s, e)[Len(s) + 1] = e
  OBVIOUS
<1>2. \A n \in 1..Len(s) + 1 : n \in 1..Len(s) \/ n = Len(s) + 1
  BY <1>1
<1>3. 1..Len(s) \subseteq 1..Len(s) + 1 /\ Len(s) + 1 \in 1..Len(s) + 1
  BY <1>1
<1>4. ASSUME NEW x \in Range(Append(s, e)) PROVE x \in Range(s) \cup {e}
  <2>1. PICK n \in DOMAIN Append(s, e) : x = Append(s, e)[n]
    BY DEF Range
  <2> QED BY <1>1, <1>2, <2>1 DEF Range
<1>5. ASSUME NEW x \in Range(s) \cup {e} PROVE x \in Range(Append(s, e))
  <2>1. CASE x \in Range(s)
    <3>1. PICK n \in DOMAIN s : x = s[n]
      BY <2>1 DEF Range
    <3> QED BY <1>1, <1>3, <3>1 DEF Range
  <2>2. CASE x = e
    BY <1>1, <1>3, <2>2 DEF Range
  <2> QED BY <2>1, <2>2
<1> QED BY <1>1, <1>4, <1>5

LEMMA TailRange ==
  ASSUME NEW S, NEW s \in Seq(S), s # <<>>
  PROVE  /\ Tail(s) \in Seq(S) /\ Len(Tail(s)) = Len(s) - 1
         /\ Range(Tail(s)) \subseteq Range(s)
         /\ Len(s) > 1 => s[Len(s)] \in Range(Tail(s))
<1>1. /\ Tail(s) \in Seq(S) /\ DOMAIN Tail(s) = 1..Len(s) - 1 /\ DOMAIN s = 1..Len(s)
      /\ Len(s) \in Nat \ {0} /\ Len(Tail(s)) = Len(s) - 1
      /\ \A n \in 1..Len(s) - 1 : Tail(s)[n] = s[n + 1]
  OBVIOUS
<1>2. \A n \in 1..Len(s) - 1 : n + 1 \in 1..Len(s)
  BY <1>1
<1>3. ASSUME NEW x \in Range(Tail(s)) PROVE x \in Range(s)
  <2>1. PICK n \in DOMAIN Tail(s) : x = Tail(s)[n]
    BY DEF Range
  <2> QED BY <1>1, <1>2, <2>1 DEF Range
<1>4. ASSUME Len(s) > 1 PROVE s[Len(s)] \in Range(Tail(s))
  <2>1. Len(s) - 1 \in 1..Len(s) - 1 /\ Tail(s)[Len(s) - 1] = s[Len(s)]
    BY <1>1, <1>4
  <2> QED BY <1>1, <2>1 DEF Range
<1> QED BY <1>1, <1>3, <1>4

\* A list that is pushed to keeps its limit, shows the message, and forgets
\* nothing before it is full.
LEMMA PushedFacts ==
  ASSUME NEW list \in Seq(Shown), Len(list) <= HistoryLimit, NEW m \in Shown
  PROVE  /\ Pushed(list, m) \in Seq(Shown) /\ Len(Pushed(list, m)) <= HistoryLimit
         /\ m \in Range(Pushed(list, m))
         /\ Range(Pushed(list, m)) \subseteq Range(list) \cup {m}
         /\ Len(Pushed(list, m)) < HistoryLimit =>
              Len(list) < HistoryLimit /\ Range(list) \subseteq Range(Pushed(list, m))
<1> DEFINE more == Append(list, m)
<1>1. more \in Seq(Shown) /\ Range(more) = Range(list) \cup {m}
  BY AppendRange
<1>2. Len(more) = Len(list) + 1 /\ more[Len(more)] = m /\ more # <<>> /\ Len(list) \in Nat
  OBVIOUS
<1> HIDE DEF more
<1>3. CASE Len(list) < HistoryLimit
  <2>1. Pushed(list, m) = more
    BY <1>3 DEF Pushed, more
  <2> QED BY <1>1, <1>2, <1>3, <2>1, Limits
<1>4. CASE ~(Len(list) < HistoryLimit)
  <2>1. Pushed(list, m) = Tail(more)
    BY <1>4 DEF Pushed, more
  <2>2. Len(more) > 1 /\ Len(more) - 1 = HistoryLimit
    BY <1>2, <1>4, Limits
  <2> QED BY <1>1, <1>2, <2>1, <2>2, TailRange, Limits
<1> QED BY <1>3, <1>4

\* A load returns rows that are stored, and all of them if it is not full.
LEMMA OldestFacts ==
  ASSUME stored \in Seq(Sent)
  PROVE  /\ Oldest \in Seq(Sent) /\ Len(Oldest) <= HistoryLimit
         /\ Range(Oldest) \subseteq Range(stored)
         /\ Len(Oldest) < HistoryLimit => Oldest = stored
<1>1. Len(stored) \in Nat /\ HistoryLimit \in Nat
  BY Limits
<1>2. CASE Len(stored) <= HistoryLimit
  <2>1. Min({Len(stored), HistoryLimit}) = Len(stored)
    BY <1>1, <1>2, MinOfTwo
  <2>2. Oldest = stored
    BY <2>1 DEF Oldest
  <2> QED BY <1>2, <2>2
<1>3. CASE ~(Len(stored) <= HistoryLimit)
  <2>1. Min({Len(stored), HistoryLimit}) = HistoryLimit
    BY <1>1, <1>3, MinOfTwo
  <2>2. Oldest = SubSeq(stored, 1, HistoryLimit)
    BY <2>1 DEF Oldest
  <2>3. /\ SubSeq(stored, 1, HistoryLimit) \in Seq(Sent)
        /\ Len(SubSeq(stored, 1, HistoryLimit)) = HistoryLimit
        /\ \A n \in 1..HistoryLimit : SubSeq(stored, 1, HistoryLimit)[n] = stored[n]
    BY <1>1, <1>3
  <2>4. Range(Oldest) \subseteq Range(stored)
    <3> SUFFICES ASSUME NEW n \in DOMAIN Oldest PROVE Oldest[n] \in Range(stored)
      BY DEF Range
    <3>1. n \in 1..HistoryLimit /\ n \in DOMAIN stored
      BY <1>1, <1>3, <2>2, <2>3
    <3> QED BY <2>2, <2>3, <3>1 DEF Range
  <2> QED BY <1>1, <2>2, <2>3, <2>4
<1> QED BY <1>2, <1>3

-----------------------------------------------------------------------------
ChatStates ==
  [pc : {"new", "create", "load", "set", "insert", "audit", "command",
         "insert reply", "done", "dropped"}, rows : Seq(Sent)]

LEMMA HistoryTypes ==
  HistoryTypeOK <=>
    /\ channelStored \in BOOLEAN /\ loadsMet \in BOOLEAN
    /\ stored \in Seq(Sent)
    /\ history # Unloaded => history \in Seq(Shown) /\ Len(history) <= HistoryLimit
    /\ chat \in [ChatRequests -> ChatStates]
    /\ unstored \subseteq Sent
    /\ chatFaults \in 0..MaxChatFaults
BY DEF HistoryTypeOK, ChatStates

LEMMA HistoryStarts == HistoryInit => HistoryInv
<1> SUFFICES ASSUME HistoryInit PROVE HistoryInv
  OBVIOUS
<1>1. FreshRequest \in ChatStates /\ FreshRequest.pc = "new" /\ Range(FreshRequest.rows) = {}
  BY DEF FreshRequest, ChatStates, Range
<1>2. HistoryTypeOK
  <2>1. <<>> \in Seq(Sent) /\ 0 \in 0..MaxChatFaults
    BY Limits
  <2> QED BY <1>1, <2>1 DEF HistoryInit, HistoryTypeOK, ChatStates
<1>3. ServedFromMemory /\ LoadsAlone
  BY <1>1 DEF HistoryInit, ServedFromMemory, Serving, LoadsAlone, Loading, At
<1>4. RowsFit
  BY Limits DEF HistoryInit, RowsFit, FreshRequest
<1> QED BY <1>2, <1>3, <1>4 DEF HistoryInit, HistoryInv, ShowsAll, ShowsNoMore

\* What a step of one request to pc does to it and to the others.
LEMMA StepFacts ==
  ASSUME HistoryTypeOK, NEW r \in ChatRequests, NEW f \in ChatStates,
         chat' = [chat EXCEPT ![r] = f]
  PROVE  /\ chat' \in [ChatRequests -> ChatStates] /\ chat'[r] = f
         /\ \A q \in ChatRequests \ {r} : chat'[q] = chat[q]
         /\ PendingAll \subseteq PendingAll' \cup Pending(r)
         /\ PendingAll' \subseteq PendingAll \cup Pending(r)'
         /\ Pending(r)' \subseteq PendingAll'
<1>1. /\ chat' \in [ChatRequests -> ChatStates] /\ chat'[r] = f
      /\ \A q \in ChatRequests \ {r} : chat'[q] = chat[q]
  BY HistoryTypes
<1>2. \A q \in ChatRequests \ {r} : Pending(q)' = Pending(q)
  BY <1>1 DEF Pending, At
<1> QED BY <1>1, <1>2 DEF PendingAll

LEMMA NoRows == <<>> \in Seq(Sent) /\ Range(<<>>) = {}
BY DEF Range

LEMMA ToFacts ==
  ASSUME NEW to \in {"new", "create", "load", "set", "insert", "audit", "command",
                     "insert reply", "done", "dropped"}
  PROVE  LET f == [FreshRequest EXCEPT !.pc = to] IN
         f \in ChatStates /\ f.pc = to /\ f.rows = <<>> /\ Range(f.rows) = {}
<1>1. FreshRequest \in ChatStates /\ FreshRequest.rows = <<>>
  BY NoRows DEF FreshRequest, ChatStates
<1> QED BY <1>1, NoRows DEF ChatStates

LEMMA PendingFacts ==
  ASSUME NEW r \in ChatRequests
  PROVE  /\ At(r, "insert") => Pending(r) = {r}
         /\ At(r, "insert reply") => Pending(r) = {Reply(r)}
         /\ ~At(r, "insert") /\ ~At(r, "insert reply") => Pending(r) = {}
         /\ At(r, "insert")' => Pending(r)' = {r}
         /\ At(r, "insert reply")' => Pending(r)' = {Reply(r)}
         /\ ~At(r, "insert")' /\ ~At(r, "insert reply")' => Pending(r)' = {}
BY DEF Pending, At

\* What is pending is a message of the channel.
LEMMA PendingSent ==
  ASSUME ServedFromMemory, NEW r \in ChatRequests
  PROVE  Pending(r) \subseteq Sent
<1>1. CASE At(r, "insert")
  <2>1. Pending(r) = {r} /\ r \in ChatMessages
    BY <1>1, PendingFacts DEF ServedFromMemory, Serving, At
  <2> QED BY <2>1, Limits
<1>2. CASE At(r, "insert reply")
  <2>1. Pending(r) = {Reply(r)} /\ r \in ChatCommands
    BY <1>2, PendingFacts DEF ServedFromMemory, At
  <2> QED BY <2>1, Limits
<1> QED BY <1>1, <1>2, PendingFacts

\* A request that has found or loaded the list answers, or pushes its message.
LEMMA EnterKeeps ==
  ASSUME HistoryInv, NEW r \in ChatRequests, NEW list \in Seq(Shown),
         AfterEnsure(list, r), UNCHANGED <<channelStored, stored, unstored, loadsMet, chatFaults>>,
         chat[r].pc \in {"new", "set"}, Len(list) <= HistoryLimit,
         ~loadsMet => \A q \in ChatRequests \ {r} : ~Loading(q),
         ~loadsMet /\ Len(list) < HistoryLimit =>
           Range(stored) \cup PendingAll \subseteq Range(list),
         Range(list) \subseteq {Welcome} \cup Range(stored) \cup unstored \cup PendingAll
  PROVE  HistoryInv'
<1> DEFINE pc == IF r \in Readers THEN "done" ELSE "insert"
           f == [FreshRequest EXCEPT !.pc = pc]
<1>1. f \in ChatStates /\ f.pc = pc /\ f.rows = <<>> /\ Range(f.rows) = {}
  BY ToFacts
<1>2. chat' = [chat EXCEPT ![r] = f] /\ HistoryTypeOK
  BY DEF AfterEnsure, ToStep, HistoryInv
<1> HIDE DEF f
<1>3. /\ chat' \in [ChatRequests -> ChatStates] /\ chat'[r] = f
      /\ \A q \in ChatRequests \ {r} : chat'[q] = chat[q]
      /\ PendingAll \subseteq PendingAll' \cup Pending(r)
      /\ PendingAll' \subseteq PendingAll \cup Pending(r)'
      /\ Pending(r)' \subseteq PendingAll'
  BY <1>1, <1>2, StepFacts
<1>4. Pending(r) = {} /\ Pending(r)' = IF r \in Readers THEN {} ELSE {r}
  BY <1>1, <1>3, PendingFacts DEF At
<1>5. /\ history' \in Seq(Shown) /\ Len(history') <= HistoryLimit
      /\ Pending(r)' \subseteq Range(history')
      /\ Range(history') \subseteq Range(list) \cup Pending(r)'
      /\ Len(history') < HistoryLimit =>
           Len(list) < HistoryLimit /\ Range(list) \subseteq Range(history')
  <2>1. CASE r \in Readers
    <3>1. history' = list
      BY <2>1 DEF AfterEnsure
    <3> QED BY <1>4, <2>1, <3>1
  <2>2. CASE r \notin Readers
    <3>1. history' = Pushed(list, r)
      BY <2>2 DEF AfterEnsure
    <3>2. r \in Shown
      BY <2>2, Limits DEF ChatRequests
    <3> QED BY <1>4, <2>2, <3>1, <3>2, PushedFacts
  <2> QED BY <2>1, <2>2
<1>6. history' # Unloaded
  BY <1>5, Limits
<1>7. HistoryTypeOK'
  BY <1>2, <1>3, <1>5 DEF HistoryTypeOK, ChatStates
<1>8. ServedFromMemory'
  BY <1>1, <1>3, <1>6, Limits DEF HistoryInv, ServedFromMemory, Serving, ChatRequests
<1>9. LoadsAlone'
  <2>1. ~Loading(r)'
    BY <1>1, <1>3 DEF Loading
  <2>2. ~loadsMet => \A q \in ChatRequests : ~Loading(q)'
    BY <1>3, <2>1 DEF Loading
  <2>3. \A q \in ChatRequests : At(q, "set")' => Loading(q)'
    BY DEF At, Loading
  <2> QED BY <2>2, <2>3 DEF LoadsAlone
<1>10. ShowsAll'
  BY <1>3, <1>4, <1>5 DEF ShowsAll
<1>11. ShowsNoMore'
  BY <1>3, <1>4, <1>5 DEF ShowsNoMore
<1>12. RowsFit'
  BY <1>1, <1>3, Limits DEF HistoryInv, RowsFit
<1> QED BY <1>7, <1>8, <1>9, <1>10, <1>11, <1>12 DEF HistoryInv

\* The list is in memory, or a request is loading it alone.
LEMMA ChannelKnownKeeps ==
  ASSUME HistoryInv, NEW r \in ChatRequests, ChannelKnown(r)
  PROVE  HistoryInv'
<1>1. /\ AfterEnsure(history, r) /\ chat[r].pc = "new" /\ history # Unloaded
      /\ UNCHANGED <<channelStored, stored, unstored, loadsMet, chatFaults>>
  BY DEF ChannelKnown, At
<1>2. history \in Seq(Shown) /\ Len(history) <= HistoryLimit
  BY <1>1 DEF HistoryInv, HistoryTypeOK
<1>3. ~loadsMet => \A q \in ChatRequests \ {r} : ~Loading(q)
  BY <1>1 DEF HistoryInv, LoadsAlone
<1>4. /\ ~loadsMet /\ Len(history) < HistoryLimit =>
           Range(stored) \cup PendingAll \subseteq Range(history)
      /\ Range(history) \subseteq {Welcome} \cup Range(stored) \cup unstored \cup PendingAll
  BY <1>1 DEF HistoryInv, ShowsAll, ShowsNoMore
<1> QED BY <1>1, <1>2, <1>3, <1>4, EnterKeeps

LEMMA SetHistoryKeeps ==
  ASSUME HistoryInv, NEW r \in ChatRequests, SetHistory(r)
  PROVE  HistoryInv'
<1> DEFINE rows == chat[r].rows
           list == Greeted(rows)
<1>1. /\ AfterEnsure(list, r) /\ chat[r].pc = "set" /\ Loading(r) /\ At(r, "set")
      /\ UNCHANGED <<channelStored, stored, unstored, loadsMet, chatFaults>>
  BY DEF SetHistory, At, Loading
<1>2. /\ rows \in Seq(Sent) /\ Range(rows) \subseteq Range(stored) /\ stored \in Seq(Sent)
  BY DEF HistoryInv, HistoryTypeOK, ServedFromMemory
<1>3. rows \in Seq(Shown) /\ <<Welcome>> \in Seq(Shown) /\ Len(<<Welcome>>) = 1
      /\ Range(<<Welcome>>) = {Welcome}
  BY <1>2, Limits DEF Shown, Range
<1>4. list \in Seq(Shown) /\ Range(list) \subseteq {Welcome} \cup Range(stored)
  BY <1>2, <1>3 DEF Greeted
<1>5. /\ ~loadsMet => \A q \in ChatRequests \ {r} : ~Loading(q)
      /\ ~loadsMet => rows = Oldest /\ history = Unloaded
  BY <1>1 DEF HistoryInv, LoadsAlone
<1>6. ~loadsMet => PendingAll = {}
  <2> SUFFICES ASSUME ~loadsMet, NEW q \in ChatRequests PROVE Pending(q) = {}
    BY DEF PendingAll
  <2>1. ~Serving(q)
    BY <1>5 DEF HistoryInv, ServedFromMemory
  <2> QED BY <2>1, PendingFacts DEF At, Serving
<1>7. ~loadsMet /\ Len(list) < HistoryLimit => Range(stored) \subseteq Range(list)
  <2> SUFFICES ASSUME ~loadsMet, Len(list) < HistoryLimit
               PROVE  Range(stored) \subseteq Range(list)
    OBVIOUS
  <2>1. rows = Oldest
    BY <1>5
  <2>2. CASE rows = <<>>
    <3>1. Len(Oldest) = 0 /\ 0 < HistoryLimit
      BY <2>1, <2>2, Limits
    <3>2. stored = <<>>
      BY <1>2, <2>1, <2>2, <3>1, OldestFacts
    <3> QED BY <3>2 DEF Range
  <2>3. CASE rows # <<>>
    <3>1. list = Oldest
      BY <2>1, <2>3 DEF Greeted
    <3> QED BY <1>2, <3>1, OldestFacts
  <2> QED BY <2>2, <2>3
<1>8. Len(list) <= HistoryLimit
  <2>1. Len(rows) <= HistoryLimit
    BY DEF HistoryInv, RowsFit
  <2> QED BY <1>3, <2>1, Limits DEF Greeted
<1> HIDE DEF list
<1> QED BY <1>1, <1>4, <1>5, <1>6, <1>7, <1>8, EnterKeeps

\* A request moves on, or ends; what it has pushed and not stored is lost.
LEMMA MoveKeeps ==
  ASSUME HistoryInv, NEW r \in ChatRequests, NEW f \in ChatStates,
         chat' = [chat EXCEPT ![r] = f], UNCHANGED <<stored, history>>,
         channelStored' \in BOOLEAN, loadsMet' \in BOOLEAN, ~loadsMet' => ~loadsMet,
         chatFaults' \in 0..MaxChatFaults, unstored' = unstored \cup Pending(r),
         f.pc \notin {"insert", "insert reply"},
         f.pc \in {"audit", "command"} => Serving(r),
         f.pc = "command" => r \in ChatCommands,
         Range(f.rows) \subseteq Range(stored), Len(f.rows) <= HistoryLimit, LoadsAlone'
  PROVE  HistoryInv'
<1>1. /\ chat' \in [ChatRequests -> ChatStates] /\ chat'[r] = f
      /\ \A q \in ChatRequests \ {r} : chat'[q] = chat[q]
      /\ PendingAll \subseteq PendingAll' \cup Pending(r)
      /\ PendingAll' \subseteq PendingAll \cup Pending(r)'
  BY StepFacts DEF HistoryInv
<1>2. Pending(r)' = {} /\ Pending(r) \subseteq Sent
  BY <1>1, PendingFacts, PendingSent DEF At, HistoryInv
<1>3. HistoryTypeOK'
  BY <1>1, <1>2 DEF HistoryInv, HistoryTypeOK, ChatStates
<1>4. ServedFromMemory'
  BY <1>1 DEF HistoryInv, ServedFromMemory, Serving
<1>5. ShowsAll' /\ ShowsNoMore'
  BY <1>1, <1>2 DEF HistoryInv, ShowsAll, ShowsNoMore
<1>6. RowsFit'
  BY <1>1 DEF HistoryInv, RowsFit
<1> QED BY <1>3, <1>4, <1>5, <1>6 DEF HistoryInv

\* When no load begins, those that are under way still meet no other.
LEMMA LoadsKept ==
  ASSUME HistoryInv, NEW r \in ChatRequests, NEW f \in ChatStates,
         chat' = [chat EXCEPT ![r] = f], UNCHANGED <<stored, history>>,
         ~loadsMet' => ~loadsMet,
         f.pc \in {"create", "load", "set"} => Loading(r),
         f.pc = "set" => f.rows = Oldest
  PROVE  LoadsAlone'
<1>1. /\ chat'[r] = f /\ \A q \in ChatRequests \ {r} : chat'[q] = chat[q]
  BY StepFacts DEF HistoryInv
<1>2. \A q \in ChatRequests : Loading(q)' => Loading(q)
  BY <1>1 DEF Loading
<1>3. Oldest' = Oldest
  BY DEF Oldest
<1>4. ASSUME NEW q \in ChatRequests, At(q, "set")', ~loadsMet'
      PROVE  chat'[q].rows = Oldest
  BY <1>1, <1>4 DEF At, HistoryInv, LoadsAlone
<1> QED BY <1>2, <1>3, <1>4 DEF HistoryInv, LoadsAlone

\* What was pushed is stored.
LEMMA StoreKeeps ==
  ASSUME HistoryInv, NEW r \in ChatRequests, NEW e \in Sent, Pending(r) = {e}, Serving(r),
         NEW to \in {"audit", "done"}, ToStep(r, to), stored' = Append(stored, e),
         UNCHANGED <<channelStored, history, unstored, loadsMet, chatFaults>>
  PROVE  HistoryInv'
<1> DEFINE f == [FreshRequest EXCEPT !.pc = to]
<1>1. f \in ChatStates /\ f.pc = to /\ f.rows = <<>> /\ Range(f.rows) = {}
  BY ToFacts
<1>2. chat' = [chat EXCEPT ![r] = f] /\ HistoryTypeOK
  BY DEF ToStep, HistoryInv
<1> HIDE DEF f
<1>3. /\ chat' \in [ChatRequests -> ChatStates] /\ chat'[r] = f
      /\ \A q \in ChatRequests \ {r} : chat'[q] = chat[q]
      /\ PendingAll \subseteq PendingAll' \cup Pending(r)
      /\ PendingAll' \subseteq PendingAll \cup Pending(r)'
  BY <1>1, <1>2, StepFacts
<1>4. Pending(r)' = {} /\ e \in PendingAll
  <2>1. e \in Pending(r)
    OBVIOUS
  <2>2. e \in PendingAll
    BY <2>1 DEF PendingAll
  <2> QED BY <1>1, <1>3, <2>2, PendingFacts DEF At
<1>5. stored' \in Seq(Sent) /\ Range(stored') = Range(stored) \cup {e}
  <2>1. stored \in Seq(Sent) /\ stored' = Append(stored, e)
    BY <1>2 DEF HistoryTypeOK
  <2>2. Append(stored, e) \in Seq(Sent) /\ Range(Append(stored, e)) = Range(stored) \cup {e}
    BY <2>1, AppendRange
  <2> QED BY <2>1, <2>2
<1>6. history # Unloaded /\ r \in ChatMessages
  BY DEF HistoryInv, ServedFromMemory
<1>7. HistoryTypeOK'
  BY <1>2, <1>3, <1>5 DEF HistoryTypeOK, ChatStates
<1>8. ServedFromMemory'
  BY <1>1, <1>3, <1>5, <1>6 DEF HistoryInv, ServedFromMemory, Serving
<1>9. LoadsAlone'
  <2>1. ~loadsMet => \A q \in ChatRequests : ~Loading(q)
    BY <1>6 DEF HistoryInv, LoadsAlone
  <2>2. ~loadsMet' => \A q \in ChatRequests : ~Loading(q)' /\ ~At(q, "set")'
    BY <1>1, <1>3, <2>1 DEF Loading, At
  <2> QED BY <2>2 DEF LoadsAlone
<1>10. ShowsAll' /\ ShowsNoMore'
  BY <1>3, <1>4, <1>5 DEF HistoryInv, ShowsAll, ShowsNoMore
<1>11. RowsFit'
  BY <1>1, <1>3, Limits DEF HistoryInv, RowsFit
<1> QED BY <1>7, <1>8, <1>9, <1>10, <1>11 DEF HistoryInv

\* The reply of a command is pushed.
LEMMA PushReplyKeeps ==
  ASSUME HistoryInv, NEW r \in ChatMessages, PushReply(r)
  PROVE  HistoryInv'
<1> DEFINE f == [FreshRequest EXCEPT !.pc = "insert reply"]
<1>1. f \in ChatStates /\ f.pc = "insert reply" /\ f.rows = <<>> /\ Range(f.rows) = {}
  BY ToFacts
<1>15. f.rows = <<>>
  BY <1>1
<1>2. /\ chat' = [chat EXCEPT ![r] = f] /\ HistoryTypeOK /\ r \in ChatRequests
      /\ chat[r].pc = "command" /\ history' = Pushed(history, Reply(r))
      /\ UNCHANGED <<channelStored, stored, unstored, loadsMet, chatFaults>>
  BY Limits DEF PushReply, ToStep, HistoryInv, At
<1> HIDE DEF f
<1>3. /\ chat' \in [ChatRequests -> ChatStates] /\ chat'[r] = f
      /\ \A q \in ChatRequests \ {r} : chat'[q] = chat[q]
      /\ PendingAll \subseteq PendingAll' \cup Pending(r)
      /\ PendingAll' \subseteq PendingAll \cup Pending(r)'
      /\ Pending(r)' \subseteq PendingAll'
  BY <1>1, <1>2, StepFacts
<1>4. Pending(r) = {} /\ Pending(r)' = {Reply(r)}
  BY <1>1, <1>2, <1>3, PendingFacts DEF At
<1>5. history # Unloaded /\ r \in ChatCommands /\ Reply(r) \in Shown
  BY <1>2, Limits DEF HistoryInv, ServedFromMemory, Serving
<1>6. history \in Seq(Shown) /\ Len(history) <= HistoryLimit
  BY <1>2, <1>5 DEF HistoryTypeOK
<1>7. /\ history' \in Seq(Shown) /\ Len(history') <= HistoryLimit
      /\ Reply(r) \in Range(history')
      /\ Range(history') \subseteq Range(history) \cup {Reply(r)}
      /\ Len(history') < HistoryLimit =>
           Len(history) < HistoryLimit /\ Range(history) \subseteq Range(history')
  BY <1>2, <1>5, <1>6, PushedFacts
<1>8. history' # Unloaded
  BY <1>7, Limits
<1>9. HistoryTypeOK'
  BY <1>2, <1>3, <1>7 DEF HistoryTypeOK, ChatStates
<1>10. ServedFromMemory'
  BY <1>1, <1>2, <1>3, <1>5, <1>8 DEF HistoryInv, ServedFromMemory, Serving
<1>11. LoadsAlone'
  <2>1. ~loadsMet => \A q \in ChatRequests : ~Loading(q)
    BY <1>5 DEF HistoryInv, LoadsAlone
  <2>2. ~loadsMet' => \A q \in ChatRequests : ~Loading(q)' /\ ~At(q, "set")'
    BY <1>1, <1>2, <1>3, <2>1 DEF Loading, At
  <2> QED BY <2>2 DEF LoadsAlone
<1>12. ShowsAll'
  BY <1>2, <1>3, <1>4, <1>5, <1>7 DEF HistoryInv, ShowsAll
<1>13. ShowsNoMore'
  BY <1>2, <1>3, <1>4, <1>5, <1>7 DEF HistoryInv, ShowsNoMore
<1>14. RowsFit'
  <2>1. Len(f.rows) <= HistoryLimit
    BY <1>15, Limits
  <2> QED BY <1>3, <2>1 DEF HistoryInv, RowsFit
<1> QED BY <1>9, <1>10, <1>11, <1>12, <1>13, <1>14 DEF HistoryInv

\* A restart forgets the list and the requests.
LEMMA RestartKeeps ==
  ASSUME HistoryInv, ServerRestarts
  PROVE  HistoryInv'
<1> DEFINE f == [FreshRequest EXCEPT !.pc = "dropped"]
<1>1. f \in ChatStates /\ f.pc = "dropped" /\ f.rows = <<>> /\ Range(f.rows) = {}
  BY ToFacts
<1> HIDE DEF f
<1>2. /\ chat' = [r \in ChatRequests |-> IF At(r, "new") THEN chat[r] ELSE f]
      /\ history' = Unloaded /\ loadsMet' = FALSE /\ UNCHANGED <<channelStored, stored>>
      /\ unstored' = unstored \cup PendingAll /\ chatFaults' = chatFaults + 1
      /\ chatFaults < MaxChatFaults
  BY DEF ServerRestarts, f, PendingAll
<1>3. \A r \in ChatRequests : chat'[r] = f \/ (chat'[r] = chat[r] /\ chat[r].pc = "new")
  BY <1>2 DEF At
<1>4. PendingAll \subseteq Sent
  BY PendingSent DEF PendingAll, HistoryInv
<1>5. chat \in [ChatRequests -> ChatStates]
  BY DEF HistoryInv, HistoryTypeOK, ChatStates
<1>6. chatFaults' \in 0..MaxChatFaults
  <2>1. chatFaults \in 0..MaxChatFaults /\ MaxChatFaults \in Nat
    BY Limits DEF HistoryInv, HistoryTypeOK
  <2> QED BY <1>2, <2>1
<1>7. HistoryTypeOK'
  <2>1. chat' \in [ChatRequests -> ChatStates]
    BY <1>1, <1>2, <1>5
  <2> QED BY <1>2, <1>4, <1>6, <2>1 DEF HistoryInv, HistoryTypeOK, ChatStates
<1>8. ServedFromMemory' /\ RowsFit'
  <2>1. ServedFromMemory /\ RowsFit /\ Len(f.rows) <= HistoryLimit
    BY <1>1, Limits DEF HistoryInv
  <2>2. ServedFromMemory'
    BY <1>1, <1>2, <1>3, <2>1 DEF ServedFromMemory, Serving
  <2>3. RowsFit'
    BY <1>3, <2>1 DEF RowsFit
  <2> QED BY <2>2, <2>3
<1>9. \A r \in ChatRequests : ~Loading(r)' /\ ~At(r, "set")'
  BY <1>1, <1>3 DEF Loading, At
<1> QED BY <1>2, <1>7, <1>8, <1>9 DEF HistoryInv, LoadsAlone, ShowsAll, ShowsNoMore

-----------------------------------------------------------------------------
LEMMA LoadSteps ==
  ASSUME HistoryInv, NEW r \in ChatRequests,
         FindChannel(r) \/ CreateChannel(r) \/ LoadMessages(r) \/ Audit(r) \/ ChatError(r)
  PROVE  HistoryInv'
<1>1. /\ channelStored \in BOOLEAN /\ loadsMet \in BOOLEAN /\ chatFaults \in 0..MaxChatFaults
      /\ stored \in Seq(Sent)
  BY DEF HistoryInv, HistoryTypeOK
<1>2. ASSUME NEW to \in {"create", "load", "command", "done", "dropped"}, ToStep(r, to),
             to = "command" => r \in ChatCommands /\ Serving(r),
             UNCHANGED <<stored, history>>, channelStored' \in BOOLEAN,
             loadsMet' \in BOOLEAN, ~loadsMet' => ~loadsMet,
             chatFaults' \in 0..MaxChatFaults, unstored' = unstored \cup Pending(r),
             \/ to \in {"create", "load"} => Loading(r)
             \/ history = Unloaded /\ (~loadsMet' => \A q \in ChatRequests : ~Loading(q))
      PROVE  HistoryInv'
  <2> DEFINE f == [FreshRequest EXCEPT !.pc = to]
  <2>1. f \in ChatStates /\ f.pc = to /\ f.rows = <<>> /\ Range(f.rows) = {}
    BY ToFacts
  <2>2. chat' = [chat EXCEPT ![r] = f]
    BY <1>2 DEF ToStep
  <2> HIDE DEF f
  <2>3. LoadsAlone'
    <3>1. CASE to \in {"create", "load"} => Loading(r)
      BY <1>2, <2>1, <2>2, <3>1, LoadsKept
    <3>2. CASE history = Unloaded /\ (~loadsMet' => \A q \in ChatRequests : ~Loading(q))
      <4>1. chat'[r] = f /\ \A q \in ChatRequests \ {r} : chat'[q] = chat[q]
        BY <2>1, <2>2, StepFacts DEF HistoryInv
      <4>2. ~loadsMet' => \A q \in ChatRequests \ {r} : ~Loading(q)'
        BY <3>2, <4>1 DEF Loading
      <4>3. ~At(r, "set")'
        BY <2>1, <4>1 DEF At
      <4>4. \A q \in ChatRequests : At(q, "set")' => Loading(q)'
        BY DEF At, Loading
      <4> QED BY <1>2, <3>2, <4>2, <4>3, <4>4 DEF LoadsAlone
    <3> QED BY <1>2, <3>1, <3>2
  <2>4. Len(f.rows) <= HistoryLimit
    BY <2>1, Limits
  <2> QED BY <1>2, <2>1, <2>2, <2>3, <2>4, MoveKeeps
<1>3. ASSUME ~At(r, "insert"), ~At(r, "insert reply") PROVE unstored = unstored \cup Pending(r)
  BY <1>3, PendingFacts
<1>4. CASE FindChannel(r)
  <2>1. PICK to \in {"create", "load"} : ToStep(r, to)
    BY <1>4 DEF FindChannel
  <2> QED BY <1>1, <1>2, <1>3, <1>4, <2>1 DEF FindChannel, At
<1>5. CASE CreateChannel(r)
  <2>1. PICK to \in {"dropped", "load"} : ToStep(r, to)
    BY <1>5 DEF CreateChannel
  <2>2. Loading(r)
    BY <1>5 DEF CreateChannel, At, Loading
  <2> QED BY <1>1, <1>2, <1>3, <1>5, <2>1, <2>2 DEF CreateChannel, At
<1>6. CASE LoadMessages(r)
  <2> DEFINE f == [pc |-> "set", rows |-> Oldest]
  <2>1. /\ chat' = [chat EXCEPT ![r] = f] /\ chat[r].pc = "load" /\ Loading(r)
        /\ UNCHANGED <<channelStored, stored, history, unstored, loadsMet, chatFaults>>
    BY <1>6 DEF LoadMessages, At, Loading, Oldest
  <2>2. f \in ChatStates /\ f.pc = "set" /\ f.rows = Oldest
    BY <1>1, OldestFacts DEF ChatStates
  <2> HIDE DEF f
  <2>3. unstored' = unstored \cup Pending(r)
    BY <1>3, <2>1 DEF At
  <2>4. LoadsAlone'
    BY <2>1, <2>2, LoadsKept
  <2> QED BY <1>1, <2>1, <2>2, <2>3, <2>4, OldestFacts, MoveKeeps
<1>7. CASE Audit(r)
  <2>1. PICK to \in {"command", "done"} : ToStep(r, to) /\ (to = "command" => r \in ChatCommands)
    BY <1>7 DEF Audit
  <2>2. Serving(r)
    BY <1>7 DEF Audit, At, Serving
  <2> QED BY <1>1, <1>2, <1>3, <1>7, <2>1, <2>2 DEF Audit, At
<1>8. CASE ChatError(r)
  <2>1. chatFaults' \in 0..MaxChatFaults
    BY <1>1, <1>8, Limits DEF ChatError
  <2> QED BY <1>1, <1>2, <1>8, <2>1 DEF ChatError
<1> QED BY <1>4, <1>5, <1>6, <1>7, <1>8

LEMMA StoreSteps ==
  ASSUME HistoryInv, NEW m \in ChatMessages, StoreMessage(m) \/ StoreReply(m)
  PROVE  HistoryInv'
<1>1. m \in ChatRequests
  BY Limits
<1>2. CASE StoreMessage(m)
  <2>1. Pending(m) = {m} /\ m \in Sent /\ Serving(m)
    BY <1>1, <1>2, PendingFacts, Limits DEF StoreMessage, Serving, At
  <2> QED BY <1>1, <1>2, <2>1, StoreKeeps DEF StoreMessage
<1>3. CASE StoreReply(m)
  <2>1. Pending(m) = {Reply(m)} /\ Serving(m)
    BY <1>1, <1>3, PendingFacts DEF StoreReply, Serving, At
  <2>2. Reply(m) \in Sent
    BY <1>1, <1>3, Limits DEF StoreReply, At, HistoryInv, ServedFromMemory
  <2> QED BY <1>1, <1>3, <2>1, <2>2, StoreKeeps DEF StoreReply
<1> QED BY <1>2, <1>3

LEMMA HistoryStep == HistoryInv /\ [HistoryNext]_chatVars => HistoryInv'
<1> SUFFICES ASSUME HistoryInv, [HistoryNext]_chatVars PROVE HistoryInv'
  OBVIOUS
<1>1. CASE UNCHANGED chatVars
  <2>1. UNCHANGED <<channelStored, stored, history, chat, unstored, loadsMet, chatFaults>>
    BY <1>1 DEF chatVars
  <2>2. PendingAll' = PendingAll
    BY <2>1 DEF PendingAll, Pending, At
  <2>3. HistoryTypeOK' /\ ServedFromMemory' /\ RowsFit'
    BY <2>1 DEF HistoryInv, HistoryTypeOK, ServedFromMemory, Serving, RowsFit
  <2>4. LoadsAlone'
    BY <2>1 DEF HistoryInv, LoadsAlone, Loading, At, Oldest
  <2>5. ShowsAll' /\ ShowsNoMore'
    BY <2>1, <2>2 DEF HistoryInv, ShowsAll, ShowsNoMore
  <2> QED BY <2>3, <2>4, <2>5 DEF HistoryInv
<1>2. ASSUME NEW m \in ChatMessages, Audit(m) PROVE HistoryInv'
  BY <1>2, LoadSteps, Limits
<1> QED BY <1>1, <1>2, ChannelKnownKeeps, SetHistoryKeeps, LoadSteps, StoreSteps,
           PushReplyKeeps, RestartKeeps DEF HistoryNext

\* What GET /history shows of a channel: while the list is not full, every
\* message that is stored, unless two loads of the channel met; and never one
\* that is neither stored, nor about to be, nor refused by the database, over
\* restarts and failing round trips (server.ts:137-197).
THEOREM HistoryIsStored == HistoryInit /\ [][HistoryNext]_chatVars => []HistoryShowsStored
<1>1. HistoryInv => HistoryShowsStored
  BY DEF HistoryInv, HistoryShowsStored, ShowsAll, ShowsNoMore, PendingAll
<1> QED BY HistoryStarts, HistoryStep, <1>1, PTL

\* The list in memory never exceeds its limit, and it and the rows that are read
\* hold messages that were sent (server.ts:137-197).
THEOREM HistoryTyped == HistoryInit /\ [][HistoryNext]_chatVars => []HistoryTypeOK
<1>1. HistoryInv => HistoryTypeOK
  BY DEF HistoryInv
<1> QED BY HistoryStarts, HistoryStep, <1>1, PTL

=============================================================================
