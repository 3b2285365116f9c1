----------------------------- MODULE ChatHistory -----------------------------
(***************************************************************************)
(* The history of a ChatOps channel (Chatops/backend/src/server.ts): what  *)
(* GET /history shows is kept in memory, loaded from the database by the   *)
(* first request that needs it and extended with each message before the   *)
(* message is stored.                                                      *)
(*                                                                         *)
(* Requests of all connections interleave at every round trip to the       *)
(* database; the server may restart, which loses memory and requests.      *)
(*                                                                         *)
(* One channel stands for all.  Left out: what is published to the other   *)
(* servers, and who is connected.                                          *)
(***************************************************************************)
EXTENDS Integers, Sequences, FiniteSets, FiniteSetsExt, SequencesExt

CONSTANTS
  ChatMessages,    \* messages that are sent, each with an id of its own
  ChatCommands,    \* those among them that are commands
  Readers,         \* GET /history requests
  HistoryLimit,    \* bound of list and load, 200
  MaxChatFaults,   \* bound: restarts and round trips that fail
  Welcome,         \* the text shown in an empty channel, which is never stored
  Unloaded         \* the channel is not in memory

Reply(m) == <<"reply", m>>
Sent == ChatMessages \cup {Reply(m) : m \in ChatCommands}
Shown == Sent \cup {Welcome}
ChatRequests == ChatMessages \cup Readers

ASSUME ChatAssumption ==
  /\ ChatCommands \subseteq ChatMessages
  /\ ChatMessages \cap Readers = {}
  /\ HistoryLimit \in Nat \ {0}
  /\ MaxChatFaults \in Nat
  /\ Unloaded \notin Seq(Shown)

VARIABLES
  channelStored,  \* the Channel row
  stored,         \* the Message rows, in the order of createdAt
  history,        \* messageHistory.get(channel)
  chat,           \* chat[r]: where a request is, and the rows it has loaded
  unstored,       \* messages whose insert failed or was given up
  loadsMet,       \* two requests were loading the channel at once
  chatFaults      \* restarts and failed round trips so far

chatVars == <<channelStored, stored, history, chat, unstored, loadsMet, chatFaults>>

FreshRequest == [pc |-> "new", rows |-> <<>>]

HistoryInit ==
  /\ channelStored = FALSE
  /\ stored = <<>>
  /\ history = Unloaded
  /\ chat = [r \in ChatRequests |-> FreshRequest]
  /\ unstored = {}
  /\ loadsMet = FALSE
  /\ chatFaults = 0

-----------------------------------------------------------------------------
At(r, pc) == chat[r].pc = pc
ToStep(r, pc) == chat' = [chat EXCEPT ![r] = [FreshRequest EXCEPT !.pc = pc]]
Loading(r) == chat[r].pc \in {"create", "load", "set"}

\* A list of at most HistoryLimit messages, the oldest of which makes room.
Pushed(list, m) ==
  IF Len(list) < HistoryLimit THEN Append(list, m) ELSE Tail(Append(list, m))

\* What follows ensureChannel, with nothing in between: a reader answers, a
\* message is pushed and then inserted.
StoredOnly(list, r) ==
  /\ history' = list
  /\ ToStep(r, IF r \in Readers THEN "done" ELSE "insert")
AfterEnsure(list, r) ==
  /\ history' = IF r \in Readers THEN list ELSE Pushed(list, r)
  /\ ToStep(r, IF r \in Readers THEN "done" ELSE "insert")

\* ensureChannel, when the channel is in memory.
ChannelKnown(r) ==
  /\ At(r, "new") /\ history # Unloaded
  /\ AfterEnsure(history, r)
  /\ UNCHANGED <<channelStored, stored, unstored, loadsMet, chatFaults>>

\* channel.findUnique.
FindChannel(r) ==
  /\ At(r, "new") /\ history = Unloaded
  /\ ToStep(r, IF channelStored THEN "load" ELSE "create")
  /\ loadsMet' = (loadsMet \/ \E q \in ChatRequests : Loading(q))
  /\ UNCHANGED <<channelStored, stored, history, unstored, chatFaults>>

\* channel.create: the second of two fails on the key, and with it its request.
CreateChannel(r) ==
  /\ At(r, "create")
  /\ ToStep(r, IF channelStored THEN "dropped" ELSE "load")
  /\ channelStored' = TRUE
  /\ UNCHANGED <<stored, history, unstored, loadsMet, chatFaults>>

\* message.findMany: the oldest rows.
LoadMessages(r) ==
  /\ At(r, "load")
  /\ chat' = [chat EXCEPT ![r] =
       [pc |-> "set", rows |-> SubSeq(stored, 1, Min({Len(stored), HistoryLimit}))]]
  /\ UNCHANGED <<channelStored, stored, history, unstored, loadsMet, chatFaults>>

Greeted(rows) == IF rows = <<>> THEN <<Welcome>> ELSE rows

\* messageHistory.set, whatever the memory holds by now.
SetHistory(r) ==
  /\ At(r, "set")
  /\ AfterEnsure(Greeted(chat[r].rows), r)
  /\ UNCHANGED <<channelStored, stored, unstored, loadsMet, chatFaults>>

-----------------------------------------------------------------------------
\* message.create.
StoreMessage(m) ==
  /\ At(m, "insert")
  /\ stored' = Append(stored, m)
  /\ ToStep(m, "audit")
  /\ UNCHANGED <<channelStored, history, unstored, loadsMet, chatFaults>>

\* auditLog.create, and handleCommand for a command.
Audit(m) ==
  /\ At(m, "audit")
  /\ ToStep(m, IF m \in ChatCommands THEN "command" ELSE "done")
  /\ UNCHANGED <<channelStored, stored, history, unstored, loadsMet, chatFaults>>

\* The command's reply: the channel is in memory since its message came.
PushReply(m) ==
  /\ At(m, "command")
  /\ history' = Pushed(history, Reply(m))
  /\ ToStep(m, "insert reply")
  /\ UNCHANGED <<channelStored, stored, unstored, loadsMet, chatFaults>>

StoreReply(m) ==
  /\ At(m, "insert reply")
  /\ stored' = Append(stored, Reply(m))
  /\ ToStep(m, "done")
  /\ UNCHANGED <<channelStored, history, unstored, loadsMet, chatFaults>>

\* What a request has pushed but not inserted.
Pending(r) ==
  CASE At(r, "insert") -> {r}
    [] At(r, "insert reply") -> {Reply(r)}
    [] OTHER -> {}

\* A round trip fails: the handler ends, and what it pushed stays in memory.
ChatError(r) ==
  /\ chat[r].pc \notin {"new", "done", "dropped"}
  /\ chatFaults < MaxChatFaults
  /\ chatFaults' = chatFaults + 1
  /\ ToStep(r, "dropped")
  /\ unstored' = unstored \cup Pending(r)
  /\ UNCHANGED <<channelStored, stored, history, loadsMet>>

\* The server restarts: memory and all requests under way are gone.
ServerRestarts ==
  /\ chatFaults < MaxChatFaults
  /\ chatFaults' = chatFaults + 1
  /\ history' = Unloaded
  /\ chat' = [r \in ChatRequests |->
       IF At(r, "new") THEN chat[r] ELSE [FreshRequest EXCEPT !.pc = "dropped"]]
  /\ unstored' = unstored \cup UNION {Pending(r) : r \in ChatRequests}
  /\ loadsMet' = FALSE
  /\ UNCHANGED <<channelStored, stored>>

HistoryNext ==
  \/ \E r \in ChatRequests :
       \/ ChannelKnown(r) \/ FindChannel(r) \/ CreateChannel(r) \/ LoadMessages(r)
       \/ SetHistory(r) \/ ChatError(r)
  \/ \E m \in ChatMessages :
       StoreMessage(m) \/ Audit(m) \/ PushReply(m) \/ StoreReply(m)
  \/ ServerRestarts

-----------------------------------------------------------------------------
\* Type invariant.
HistoryTypeOK ==
  /\ channelStored \in BOOLEAN /\ loadsMet \in BOOLEAN
  /\ stored \in Seq(Sent)
  /\ history # Unloaded => history \in Seq(Shown) /\ Len(history) <= HistoryLimit
  /\ chat \in [ChatRequests ->
       [pc : {"new", "create", "load", "set", "insert", "audit", "command",
              "insert reply", "done", "dropped"}, rows : Seq(Sent)]]
  /\ unstored \subseteq Sent
  /\ chatFaults \in 0..MaxChatFaults

\* Memory shows every stored message while the list is not full, unless two
\* first requests loaded the channel at once and the later one set it back; and
\* it shows nothing that is neither stored, nor about to be, nor refused by the
\* database (server.ts:137-197).
HistoryShowsStored ==
  history # Unloaded =>
    /\ ~loadsMet /\ Len(history) < HistoryLimit => Range(stored) \subseteq Range(history)
    /\ Range(history) \subseteq
         {Welcome} \cup Range(stored) \cup unstored
           \cup UNION {Pending(r) : r \in ChatRequests}

=============================================================================
