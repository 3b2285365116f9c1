-------------------------- MODULE FulfilmentProofs ---------------------------
(***************************************************************************)
(* Proofs about the picking of paid orders, for any number of orders,      *)
(* items, boxes, pickers, attempts, stalls and failing round trips.        *)
(*                                                                         *)
(* Part 1, the log: the events of an order whose runs are one after the    *)
(* other are numbered from 1 without a gap or a tie, and tell how its job  *)
(* ended. A run that is to append has read the number of the last event,   *)
(* because nobody else appends meanwhile.                                  *)
(*                                                                         *)
(* Part 2, the packing: the boxes of an order hold each of its lines, and  *)
(* each in one box.                                                        *)
(*                                                                         *)
(* Part 3, the pickings: a run that is past box b has saved it, so that a  *)
(* completed job has a picking of every box; and every picking of a box is *)
(* paid for by a run of its own, so that there are no more of them than    *)
(* runs.                                                                   *)
(*                                                                         *)
(* Part 4: the types.                                                      *)
(***************************************************************************)
EXTENDS Fulfilment, SumProofs

-----------------------------------------------------------------------------
(***************************************************************************)
(* Part 1: the log.                                                        *)
(***************************************************************************)
PickEvents == [type : {"PICKING_INITIATED", "PICKING_FAILED"}, version : Nat \ {0}]
PickRecords == [state : {"none", "waiting", "active", "completed", "failed"},
                attempts : Nat, stalls : Nat]
PickerStates ==
  [pc : {"idle", "boxes", "version", "event", "failversion", "failevent",
         "returned", "thrown"},
   order : PickOrders \cup {NoOrder}, run : Nat, box : Nat, version : Nat]

\* A run has an order; without Redis there is no job.
PickingTyped ==
  /\ pickJob \in [PickOrders -> PickRecords]
  /\ picker \in [Pickers -> PickerStates]
  /\ \A w \in Pickers : picker[w].order = NoOrder <=> picker[w].pc = "idle"
  /\ log \in [PickOrders -> Seq(PickEvents)]
  /\ pickRuns \in [PickOrders -> Nat]
  /\ together \subseteq PickOrders
  /\ ~withRedis => \A o \in PickOrders : pickJob[o].state = "none"

\* The log of an order whose runs are one after the other.
Numbered(o) == \A n \in DOMAIN log[o] : log[o][n].version = n
EndsWell(o) == log[o] # <<>> /\ Last(log[o]).type = "PICKING_INITIATED"

OneByOne(o) ==
  /\ \A v, w \in Pickers : picker[v].order = o /\ picker[w].order = o => v = w
  /\ Numbered(o)
  /\ \A w \in Pickers : picker[w].order = o =>
       /\ picker[w].pc \in {"event", "failevent"} => picker[w].version = Len(log[o])
       /\ picker[w].pc = "returned" => EndsWell(o)
       /\ pickJob[o].state # "completed"
  /\ pickJob[o].state = "completed" => EndsWell(o)

LogInv == PickingTyped /\ \A o \in PickOrders \ together : OneByOne(o)

-----------------------------------------------------------------------------
LEMMA MaxOfFinite ==
  ASSUME NEW S, IsFiniteSet(S), S \subseteq Nat, S # {}
  PROVE  Max(S) \in S /\ \A y \in S : y <= Max(S)
<1> DEFINE G == {U \in SUBSET S : U = {} \/ \E x \in U : \A y \in U : x >= y}
<1>1. ASSUME NEW U \in SUBSET S, \A V \in SUBSET U : V # U => V \in G
      PROVE  U \in G
  <2>1. CASE U = {}
    BY <2>1
  <2>2. CASE U # {}
    <3>1. PICK z \in U : TRUE
      BY <2>2
    <3>2. U \ {z} \in G
      BY <1>1, <3>1
    <3>3. CASE U \ {z} = {}
      BY <3>1, <3>3
    <3>4. CASE U \ {z} # {}
      <4>1. PICK x \in U \ {z} : \A y \in U \ {z} : x >= y
        BY <3>2, <3>4
      <4>2. CASE x >= z
        BY <4>1, <4>2
      <4>3. CASE ~(x >= z)
        BY <3>1, <4>1, <4>3
      <4> QED BY <4>2, <4>3
    <3> QED BY <3>3, <3>4
  <2> QED BY <2>1, <2>2
<1>2. \A U \in SUBSET S : U \in G
  <2> HIDE DEF G
  <2> QED BY <1>1, SubsetInduction
<1>3. \E x \in S : \A y \in S : x >= y
  BY <1>2
<1> QED BY <1>3 DEF Max

LEMMA VersionsFinite ==
  ASSUME PickingTyped, NEW o \in PickOrders
  PROVE  LET V == {0} \cup {e.version : e \in Range(log[o])}
         IN  IsFiniteSet(V) /\ V \subseteq Nat
<1> DEFINE s == log[o]
           T == {e.version : e \in Range(s)}
           f == [n \in 1..Len(s) |-> s[n].version]
<1>1. s \in Seq(PickEvents) /\ Len(s) \in Nat /\ DOMAIN s = 1..Len(s)
  BY DEF PickingTyped
<1>2. \A n \in 1..Len(s) : s[n] \in PickEvents
  BY <1>1
<1> HIDE DEF s
<1>3. f \in Surjection(1..Len(s), T)
  BY <1>1 DEF Surjection, Range
<1>4. IsFiniteSet(1..Len(s))
  BY <1>1, FS_Interval
<1>5. IsFiniteSet(T)
  BY <1>3, <1>4, FS_Surjection
<1>6. IsFiniteSet(T \cup {0})
  BY <1>5, FS_AddElement
<1>7. T \subseteq Nat
  BY <1>1, <1>2 DEF Range, PickEvents
<1>8. {0} \cup T = T \cup {0}
  OBVIOUS
<1> HIDE DEF T
<1>9. IsFiniteSet({0} \cup T) /\ {0} \cup T \subseteq Nat
  BY <1>6, <1>7, <1>8
<1> QED BY <1>9 DEF T, s

LEMMA VersionIsNat ==
  ASSUME PickingTyped, NEW o \in PickOrders
  PROVE  VersionOf(o) \in Nat
<1> DEFINE V == {0} \cup {e.version : e \in Range(log[o])}
<1>1. IsFiniteSet(V) /\ V \subseteq Nat /\ V # {}
  BY VersionsFinite
<1> HIDE DEF V
<1>2. Max(V) \in V
  BY <1>1, MaxOfFinite
<1> QED BY <1>1, <1>2 DEF V, VersionOf

\* The version that is read is the number of events.
LEMMA VersionIsLength ==
  ASSUME PickingTyped, NEW o \in PickOrders, Numbered(o)
  PROVE  VersionOf(o) = Len(log[o])
<1> DEFINE V == {0} \cup {e.version : e \in Range(log[o])}
<1>1. IsFiniteSet(V) /\ V \subseteq Nat /\ V # {}
  BY VersionsFinite
<1>2. Len(log[o]) \in Nat /\ DOMAIN log[o] = 1..Len(log[o])
  BY DEF PickingTyped
<1>3. \A v \in V : v <= Len(log[o])
  BY <1>2 DEF Numbered, Range
<1>4. Len(log[o]) \in V
  <2>1. CASE Len(log[o]) = 0
    BY <2>1
  <2>2. CASE Len(log[o]) # 0
    <3>1. Len(log[o]) \in DOMAIN log[o]
      BY <1>2, <2>2
    <3>2. log[o][Len(log[o])] \in Range(log[o]) /\ log[o][Len(log[o])].version = Len(log[o])
      BY <3>1 DEF Numbered, Range
    <3> QED BY <3>2
  <2> QED BY <2>1, <2>2
<1> HIDE DEF V
<1>5. Max(V) \in V /\ \A y \in V : y <= Max(V)
  BY <1>1, MaxOfFinite
<1>6. Max(V) = Len(log[o])
  <2>1. Max(V) <= Len(log[o]) /\ Len(log[o]) <= Max(V)
    BY <1>3, <1>4, <1>5
  <2>2. Max(V) \in Nat
    BY <1>1, <1>5
  <2> DEFINE m == Max(V)
             l == Len(log[o])
  <2> HIDE DEF m, l
  <2>3. m <= l /\ l <= m /\ m \in Nat /\ l \in Nat
    BY <1>2, <2>1, <2>2 DEF m, l
  <2>4. m = l
    BY <2>3
  <2> QED BY <2>4 DEF m, l
<1> QED BY <1>6 DEF V, VersionOf

-----------------------------------------------------------------------------
LEMMA NoOrderIsNone == NoOrder \notin PickOrders
BY FulfilmentAssumption

LEMMA RestingTyped ==
  RestingPicker \in PickerStates /\ RestingPicker.pc = "idle" /\ RestingPicker.order = NoOrder
BY DEF RestingPicker, PickerStates

LEMMA LogStarts == FulfilmentInit => LogInv
<1> SUFFICES ASSUME FulfilmentInit PROVE LogInv
  OBVIOUS
<1>1. \A w \in Pickers : picker[w] = RestingPicker
  BY DEF FulfilmentInit
<1>2. PickingTyped
  BY <1>1, RestingTyped DEF FulfilmentInit, PickingTyped, PickRecords
<1>3. ASSUME NEW o \in PickOrders PROVE OneByOne(o)
  <2>1. \A w \in Pickers : picker[w].order # o
    BY <1>1, RestingTyped, NoOrderIsNone
  <2>2. log[o] = <<>> /\ pickJob[o].state # "completed"
    BY DEF FulfilmentInit
  <2>3. Numbered(o)
    BY <2>2 DEF Numbered
  <2> QED BY <2>1, <2>2, <2>3 DEF OneByOne
<1> QED BY <1>2, <1>3 DEF LogInv

\* What a step may do to a picker, to keep the types.
LEMMA PickerMoves ==
  ASSUME PickingTyped, NEW w \in Pickers, NEW r \in PickerStates,
         picker' = [picker EXCEPT ![w] = r]
  PROVE  /\ picker' \in [Pickers -> PickerStates] /\ picker'[w] = r
         /\ \A v \in Pickers \ {w} : picker'[v] = picker[v]
BY DEF PickingTyped

\* An order keeps its invariant when its log and its job stay, and its run moves
\* on without ending well.
LEMMA RunMoves ==
  ASSUME NEW o \in PickOrders, OneByOne(o), log'[o] = log[o],
         pickJob'[o].state = "completed" => pickJob[o].state = "completed",
         \A v \in Pickers : picker'[v].order = o =>
           /\ picker[v].order = o
           /\ picker'[v].pc \in {"event", "failevent"} =>
                picker'[v].version = Len(log[o])
           /\ picker'[v].pc = "returned" => picker[v].pc = "returned"
  PROVE  OneByOne(o)'
<1>1. Numbered(o)' /\ (EndsWell(o) => EndsWell(o)')
  BY DEF OneByOne, Numbered, EndsWell
<1> QED BY <1>1 DEF OneByOne

LEMMA SameVersions ==
  ASSUME NEW o \in PickOrders, OneByOne(o), NEW v \in Pickers, picker'[v] = picker[v],
         picker'[v].order = o
  PROVE  /\ picker[v].order = o
         /\ picker'[v].pc \in {"event", "failevent"} => picker'[v].version = Len(log[o])
         /\ picker'[v].pc = "returned" => picker[v].pc = "returned"
BY DEF OneByOne

LEMMA StallTyped ==
  ASSUME NEW x \in PickRecords
  PROVE  AfterPickStall(x) \in PickRecords /\ AfterPickStall(x).state # "completed"
<1>1. PICK s \in {"waiting", "failed"} :
        AfterPickStall(x) = [x EXCEPT !.stalls = x.stalls + 1, !.state = s]
  BY DEF AfterPickStall
<1>2. x.stalls + 1 \in Nat
  BY DEF PickRecords
<1> QED BY <1>1, <1>2 DEF PickRecords

LEMMA EndedTyped ==
  ASSUME NEW x \in PickRecords, NEW ok \in BOOLEAN
  PROVE  Ended(x, ok) \in PickRecords /\ (Ended(x, ok).state = "completed" => ok)
<1>1. CASE ok
  BY <1>1 DEF Ended, PickRecords
<1>2. CASE ~ok
  <2>1. PICK s \in {"waiting", "failed"} :
          Ended(x, ok) = [x EXCEPT !.attempts = x.attempts + 1, !.state = s]
    BY <1>2 DEF Ended
  <2>2. x.attempts + 1 \in Nat
    BY DEF PickRecords
  <2> QED BY <2>1, <2>2 DEF PickRecords
<1> QED BY <1>1, <1>2

\* The jobs of a queue change without a run.
LEMMA JobSteps ==
  ASSUME LogInv, NEW o \in PickOrders,
         AddPickingJob(o) \/ PickingStalled(o) \/ PickingSlow(o)
  PROVE  LogInv'
<1>1. /\ UNCHANGED <<picker, log, pickRuns, together, withRedis>> /\ PickingTyped
      /\ \A q \in PickOrders \ together : OneByOne(q)
  BY DEF LogInv, AddPickingJob, PickingStalled, PickingSlow
<1>2. /\ pickJob' \in [PickOrders -> PickRecords]
      /\ \A q \in PickOrders : pickJob'[q].state = "completed" => pickJob[q].state = "completed"
      /\ ~withRedis => \A q \in PickOrders : pickJob'[q].state = "none"
  <2>1. CASE AddPickingJob(o)
    BY <1>1, <2>1 DEF AddPickingJob, PickingTyped, PickRecords
  <2>2. CASE PickingStalled(o) \/ PickingSlow(o)
    <3>1. /\ pickJob' = [pickJob EXCEPT ![o] = AfterPickStall(pickJob[o])]
          /\ pickJob[o].state = "active" /\ withRedis
      BY <1>1, <2>2 DEF PickingStalled, PickingSlow, PickingTyped
    <3>2. AfterPickStall(pickJob[o]) \in PickRecords
          /\ AfterPickStall(pickJob[o]).state # "completed"
      BY <1>1, StallTyped DEF PickingTyped
    <3> QED BY <1>1, <3>1, <3>2 DEF PickingTyped
  <2> QED BY <2>1, <2>2
<1>3. PickingTyped'
  BY <1>1, <1>2 DEF PickingTyped
<1>4. ASSUME NEW q \in PickOrders \ together PROVE OneByOne(q)'
  BY <1>1, <1>2, SameVersions, RunMoves
<1> QED BY <1>1, <1>3, <1>4 DEF LogInv

\* A run begins: alone, or the order is one of those that had two at once.
LEMMA BeginSteps ==
  ASSUME LogInv, NEW w \in Pickers, NEW o \in PickOrders,
         RunPickingJob(w, o) \/ TakePickingJob(w, o)
  PROVE  LogInv'
<1> DEFINE r == [RestingPicker EXCEPT !.pc = "boxes", !.order = o, !.run = pickRuns[o] + 1]
<1>1. /\ PickingTyped /\ \A q \in PickOrders \ together : OneByOne(q)
      /\ UNCHANGED <<log, withRedis>> /\ picker[w].pc = "idle"
      /\ picker' = [picker EXCEPT ![w] = r]
      /\ pickRuns' = [pickRuns EXCEPT ![o] = @ + 1]
      /\ together' = IF \E v \in Pickers : picker[v].order = o THEN together \cup {o}
                                                               ELSE together
  BY DEF LogInv, RunPickingJob, TakePickingJob, BeginRun
<1>2. r \in PickerStates /\ r.pc = "boxes" /\ r.order = o
  <2>1. pickRuns[o] + 1 \in Nat
    BY <1>1 DEF PickingTyped
  <2> QED BY <2>1, RestingTyped DEF PickerStates
<1> HIDE DEF r
<1>3. /\ picker' \in [Pickers -> PickerStates] /\ picker'[w] = r
      /\ \A v \in Pickers \ {w} : picker'[v] = picker[v]
  BY <1>1, <1>2, PickerMoves
<1>4. /\ pickJob' \in [PickOrders -> PickRecords]
      /\ \A q \in PickOrders : pickJob'[q].state = "completed" => pickJob[q].state = "completed"
      /\ pickJob'[o].state # "completed"
      /\ ~withRedis => \A q \in PickOrders : pickJob'[q].state = "none"
  <2>1. CASE RunPickingJob(w, o)
    BY <1>1, <2>1 DEF RunPickingJob, PickingTyped
  <2>2. CASE TakePickingJob(w, o)
    <3>1. pickJob' = [pickJob EXCEPT ![o].state = "active"] /\ pickJob[o].state = "waiting"
      BY <2>2 DEF TakePickingJob
    <3> QED BY <1>1, <3>1 DEF PickingTyped, PickRecords
  <2> QED BY <2>1, <2>2
<1>5. PickingTyped'
  <2>1. pickRuns' \in [PickOrders -> Nat] /\ together' \subseteq PickOrders
    BY <1>1 DEF PickingTyped
  <2>2. \A v \in Pickers : picker'[v].order = NoOrder <=> picker'[v].pc = "idle"
    BY <1>1, <1>2, <1>3, NoOrderIsNone DEF PickingTyped
  <2> QED BY <1>1, <1>3, <1>4, <2>1, <2>2 DEF PickingTyped
<1>6. ASSUME NEW q \in PickOrders \ together' PROVE OneByOne(q)'
  <2>1. q \notin together /\ OneByOne(q) /\ (q = o => \A v \in Pickers : picker[v].order # o)
    BY <1>1, <1>6
  <2>2. CASE q # o
    <3>1. \A v \in Pickers : picker'[v].order = q => v # w /\ picker'[v] = picker[v]
      BY <1>2, <1>3, <2>2
    <3>2. ASSUME NEW v \in Pickers, picker'[v].order = q
          PROVE  /\ picker[v].order = q
                 /\ picker'[v].pc \in {"event", "failevent"} =>
                      picker'[v].version = Len(log[q])
                 /\ picker'[v].pc = "returned" => picker[v].pc = "returned"
      <4>1. picker'[v] = picker[v]
        BY <3>1, <3>2
      <4> QED BY <2>1, <3>2, <4>1, SameVersions
    <3> QED BY <1>1, <1>4, <2>1, <3>2, RunMoves
  <2>3. CASE q = o
    <3>1. Numbered(o)'
      BY <1>1, <2>1, <2>3 DEF OneByOne, Numbered
    <3>2. \A v \in Pickers : picker'[v].order = o => v = w
      BY <1>3, <2>1, <2>3
    <3> QED BY <1>2, <1>3, <1>4, <2>3, <3>1, <3>2 DEF OneByOne
  <2> QED BY <2>2, <2>3
<1> QED BY <1>5, <1>6 DEF LogInv

\* A run moves on without an event.
LEMMA MoveSteps ==
  ASSUME LogInv, NEW w \in Pickers, SaveBox(w) \/ ReadVersion(w) \/ PickingError(w)
  PROVE  LogInv'
<1>1. /\ PickingTyped /\ \A q \in PickOrders \ together : OneByOne(q)
      /\ UNCHANGED <<log, withRedis, pickJob, pickRuns, together>>
      /\ picker[w].pc # "idle" /\ picker[w] \in PickerStates
  BY DEF LogInv, SaveBox, ReadVersion, PickingError, PickingTyped
<1>2. PICK o \in PickOrders : o = picker[w].order
  BY <1>1 DEF PickingTyped, PickerStates
<1>3. PICK r \in PickerStates :
        /\ picker' = [picker EXCEPT ![w] = r]
        /\ r.order = o /\ r.pc \notin {"idle", "returned"}
        /\ r.pc \in {"event", "failevent"} => r.version = VersionOf(o)
  <2>1. CASE SaveBox(w)
    <3>1. PICK pc \in {"version", "boxes"} :
            picker' = [picker EXCEPT ![w] = [picker[w] EXCEPT !.box = picker[w].box + 1,
                                                              !.pc = pc]]
      BY <2>1 DEF SaveBox
    <3>2. picker[w].box + 1 \in Nat
      BY <1>1 DEF PickerStates
    <3> DEFINE r == [picker[w] EXCEPT !.box = picker[w].box + 1, !.pc = pc]
    <3>3. r \in PickerStates /\ r.order = o /\ r.pc = pc
      BY <1>1, <1>2, <3>2 DEF PickerStates
    <3> HIDE DEF r
    <3> QED BY <3>1, <3>3 DEF r
  <2>2. CASE ReadVersion(w)
    <3>1. PICK pc \in {"event", "failevent"} :
            picker' = [picker EXCEPT ![w] = [picker[w] EXCEPT !.pc = pc,
                                                              !.version = VersionOf(o)]]
      BY <1>2, <2>2 DEF ReadVersion
    <3>2. VersionOf(o) \in Nat
      BY <1>1, VersionIsNat
    <3> DEFINE r == [picker[w] EXCEPT !.pc = pc, !.version = VersionOf(o)]
    <3>3. r \in PickerStates /\ r.order = o /\ r.pc = pc /\ r.version = VersionOf(o)
      BY <1>1, <1>2, <3>2 DEF PickerStates
    <3> HIDE DEF r
    <3> QED BY <3>1, <3>3 DEF r
  <2>3. CASE PickingError(w)
    <3>1. PICK pc \in {"thrown", "failversion"} :
            picker' = [picker EXCEPT ![w] = [picker[w] EXCEPT !.pc = pc]]
      BY <2>3 DEF PickingError
    <3> DEFINE r == [picker[w] EXCEPT !.pc = pc]
    <3>2. r \in PickerStates /\ r.order = o /\ r.pc = pc
      BY <1>1, <1>2 DEF PickerStates
    <3> HIDE DEF r
    <3> QED BY <3>1, <3>2 DEF r
  <2> QED BY <2>1, <2>2, <2>3
<1>4. /\ picker' \in [Pickers -> PickerStates] /\ picker'[w] = r
      /\ \A v \in Pickers \ {w} : picker'[v] = picker[v]
  BY <1>1, <1>3, PickerMoves
<1>5. PickingTyped'
  BY <1>1, <1>3, <1>4, NoOrderIsNone DEF PickingTyped
<1>6. ASSUME NEW q \in PickOrders \ together PROVE OneByOne(q)'
  <2>1. OneByOne(q)
    BY <1>1
  <2>2. ASSUME NEW v \in Pickers, picker'[v].order = q
        PROVE  /\ picker[v].order = q
               /\ picker'[v].pc \in {"event", "failevent"} =>
                    picker'[v].version = Len(log[q])
               /\ picker'[v].pc = "returned" => picker[v].pc = "returned"
    <3>1. CASE v # w
      BY <1>4, <2>1, <2>2, <3>1, SameVersions
    <3>2. CASE v = w
      <4>1. q = o
        BY <1>3, <1>4, <2>2, <3>2
      <4>2. VersionOf(o) = Len(log[q])
        BY <1>1, <2>1, <4>1, VersionIsLength DEF OneByOne
      <4> QED BY <1>2, <1>3, <1>4, <3>2, <4>1, <4>2
    <3> QED BY <3>1, <3>2
  <2> QED BY <1>1, <2>1, <2>2, RunMoves
<1> QED BY <1>1, <1>5, <1>6 DEF LogInv

LEMMA AppendedFacts ==
  ASSUME NEW S, NEW s \in Seq(S), NEW e \in S, NEW t, t = Append(s, e)
  PROVE  /\ Len(t) = Len(s) + 1 /\ t[Len(t)] = e /\ t # <<>>
         /\ \A n \in 1..Len(s) : t[n] = s[n]
         /\ DOMAIN t = 1..Len(s) + 1 /\ DOMAIN s = 1..Len(s)
         /\ Len(s) \in Nat
OBVIOUS

\* An event takes the next number.
LEMMA AppendSteps ==
  ASSUME LogInv, NEW w \in Pickers, AppendInitiated(w) \/ AppendFailed(w)
  PROVE  LogInv'
<1>1. /\ PickingTyped /\ \A q \in PickOrders \ together : OneByOne(q)
      /\ UNCHANGED <<withRedis, pickJob, pickRuns, together>>
      /\ picker[w].pc \in {"event", "failevent"} /\ picker[w].pc # "idle"
      /\ picker[w] \in PickerStates
  BY DEF LogInv, AppendInitiated, AppendFailed, PickingTyped
<1>2. PICK o \in PickOrders : o = picker[w].order
  BY <1>1 DEF PickingTyped, PickerStates
<1>3. PICK type \in {"PICKING_INITIATED", "PICKING_FAILED"}, pc \in {"returned", "thrown"} :
        /\ picker' = [picker EXCEPT ![w].pc = pc] /\ Insert(w, type)
        /\ pc = "returned" => type = "PICKING_INITIATED"
  BY DEF AppendInitiated, AppendFailed
<1> DEFINE e == [type |-> type, version |-> picker[w].version + 1]
           r == [picker[w] EXCEPT !.pc = pc]
<1>4. e \in PickEvents /\ e.version = picker[w].version + 1 /\ e.type = type
  BY <1>1 DEF PickEvents, PickerStates
<1>5. log' = [log EXCEPT ![o] = Append(log[o], e)]
  BY <1>2, <1>3 DEF Insert, NextVersion
<1>6. r \in PickerStates /\ r.order = o /\ r.pc = pc /\ picker' = [picker EXCEPT ![w] = r]
  BY <1>1, <1>2, <1>3 DEF PickerStates
<1> HIDE DEF e, r
<1>7. /\ picker' \in [Pickers -> PickerStates] /\ picker'[w] = r
      /\ \A v \in Pickers \ {w} : picker'[v] = picker[v]
  BY <1>1, <1>6, PickerMoves
<1>8. /\ log[o] \in Seq(PickEvents) /\ Append(log[o], e) \in Seq(PickEvents)
      /\ log' \in [PickOrders -> Seq(PickEvents)] /\ log'[o] = Append(log[o], e)
      /\ \A q \in PickOrders \ {o} : log'[q] = log[q]
  <2>1. log[o] \in Seq(PickEvents) /\ Append(log[o], e) \in Seq(PickEvents)
    BY <1>1, <1>4 DEF PickingTyped
  <2> QED BY <1>1, <1>5, <2>1 DEF PickingTyped
<1>9. PickingTyped'
  <2>1. \A v \in Pickers : picker'[v].order = NoOrder <=> picker'[v].pc = "idle"
    BY <1>1, <1>6, <1>7, NoOrderIsNone DEF PickingTyped
  <2> QED BY <1>1, <1>7, <1>8, <2>1 DEF PickingTyped
<1>10. ASSUME NEW q \in PickOrders \ together PROVE OneByOne(q)'
  <2>1. OneByOne(q)
    BY <1>1
  <2>2. CASE q # o
    <3>1. ASSUME NEW v \in Pickers, picker'[v].order = q
          PROVE  /\ picker[v].order = q
                 /\ picker'[v].pc \in {"event", "failevent"} =>
                      picker'[v].version = Len(log[q])
                 /\ picker'[v].pc = "returned" => picker[v].pc = "returned"
      <4>1. v # w
        BY <1>6, <1>7, <2>2, <3>1
      <4> QED BY <1>7, <2>1, <3>1, <4>1, SameVersions
    <3> QED BY <1>1, <1>8, <2>1, <2>2, <3>1, RunMoves
  <2>3. CASE q = o
    <3>1. picker[w].version = Len(log[o]) /\ Numbered(o) /\ pickJob[o].state # "completed"
      BY <1>1, <1>2, <2>1, <2>3 DEF OneByOne
    <3>2. /\ Len(log'[o]) = Len(log[o]) + 1 /\ log'[o][Len(log'[o])] = e /\ log'[o] # <<>>
          /\ \A n \in 1..Len(log[o]) : log'[o][n] = log[o][n]
          /\ DOMAIN log'[o] = 1..Len(log[o]) + 1 /\ DOMAIN log[o] = 1..Len(log[o])
          /\ Len(log[o]) \in Nat
      <4>1. log[o] \in Seq(PickEvents) /\ e \in PickEvents /\ log'[o] = Append(log[o], e)
        BY <1>4, <1>8
      <4> QED BY ONLY <4>1, AppendedFacts
    <3>3. Numbered(o)'
      <4> SUFFICES ASSUME NEW n \in DOMAIN log'[o] PROVE log'[o][n].version = n
        BY DEF Numbered
      <4>1. n \in 1..Len(log[o]) \/ n = Len(log[o]) + 1
        BY <3>2
      <4> QED BY <1>4, <3>1, <3>2, <4>1 DEF Numbered
    <3>4. pc = "returned" => EndsWell(o)'
      BY <1>3, <1>4, <3>2 DEF EndsWell, Last
    <3>5. \A v \in Pickers : picker'[v].order = o => v = w
      BY <1>2, <1>7, <2>1, <2>3 DEF OneByOne
    <3> QED BY <1>1, <1>6, <1>7, <2>3, <3>1, <3>3, <3>4, <3>5 DEF OneByOne
  <2> QED BY <2>2, <2>3
<1> QED BY <1>1, <1>9, <1>10 DEF LogInv

\* A run is over; a job is completed only by a run that ended well.
LEMMA EndSteps ==
  ASSUME LogInv, NEW w \in Pickers, EndRun(w) \/ PickerDies(w)
  PROVE  LogInv'
<1>1. /\ PickingTyped /\ \A q \in PickOrders \ together : OneByOne(q)
      /\ UNCHANGED <<withRedis, log, pickRuns, together>>
      /\ picker[w].pc # "idle" /\ picker[w] \in PickerStates
  BY DEF LogInv, EndRun, PickerDies, PickingTyped
<1>2. PICK o \in PickOrders : o = picker[w].order
  BY <1>1 DEF PickingTyped, PickerStates
<1>3. /\ picker' \in [Pickers -> PickerStates] /\ picker'[w] = RestingPicker
      /\ \A v \in Pickers : picker'[v] \in {picker[v], RestingPicker}
  BY <1>1, RestingTyped DEF EndRun, PickerDies, ProcessEnded, PickingTyped
<1>4. \/ pickJob' = pickJob
      \/ /\ pickJob[o].state = "active"
         /\ pickJob' = [pickJob EXCEPT ![o] = Ended(pickJob[o], picker[w].pc = "returned")]
  BY <1>2 DEF EndRun, PickerDies, HasPickJob
<1>5. /\ Ended(pickJob[o], picker[w].pc = "returned") \in PickRecords
      /\ Ended(pickJob[o], picker[w].pc = "returned").state = "completed"
           => picker[w].pc = "returned"
  BY <1>1, EndedTyped DEF PickingTyped
<1>6. /\ pickJob' \in [PickOrders -> PickRecords]
      /\ \A q \in PickOrders : pickJob'[q].state = "completed" =>
           pickJob[q].state = "completed" \/ (q = o /\ picker[w].pc = "returned")
      /\ ~withRedis => \A q \in PickOrders : pickJob'[q].state = "none"
  BY <1>1, <1>4, <1>5 DEF PickingTyped
<1>7. PickingTyped'
  <2>1. \A v \in Pickers : picker'[v].order = NoOrder <=> picker'[v].pc = "idle"
    BY <1>1, <1>3, RestingTyped DEF PickingTyped
  <2> QED BY <1>1, <1>3, <1>6, <2>1 DEF PickingTyped
<1>8. ASSUME NEW q \in PickOrders \ together PROVE OneByOne(q)'
  <2>1. OneByOne(q)
    BY <1>1
  <2>2. \A v \in Pickers : picker'[v].order = q => picker'[v] = picker[v]
    BY <1>3, RestingTyped, NoOrderIsNone
  <2>3. CASE pickJob'[q].state = "completed" => pickJob[q].state = "completed"
    <3>1. ASSUME NEW v \in Pickers, picker'[v].order = q
          PROVE  /\ picker[v].order = q
                 /\ picker'[v].pc \in {"event", "failevent"} =>
                      picker'[v].version = Len(log[q])
                 /\ picker'[v].pc = "returned" => picker[v].pc = "returned"
      BY <2>1, <2>2, <3>1, SameVersions
    <3> QED BY <1>1, <2>1, <2>3, <3>1, RunMoves
  <2>4. CASE q = o /\ picker[w].pc = "returned"
    <3>1. EndsWell(o) /\ Numbered(o)
      BY <1>2, <2>1, <2>4 DEF OneByOne
    <3>2. \A v \in Pickers : picker'[v].order # o
      <4> SUFFICES ASSUME NEW v \in Pickers, picker'[v].order = o PROVE FALSE
        OBVIOUS
      <4>1. picker[v].order = o
        BY <2>2, <2>4
      <4>2. v = w
        BY <1>2, <2>1, <2>4, <4>1 DEF OneByOne
      <4> QED BY <1>3, <4>2, RestingTyped, NoOrderIsNone
    <3>3. EndsWell(o)' /\ Numbered(o)'
      BY <1>1, <3>1 DEF EndsWell, Numbered
    <3> QED BY <2>4, <3>2, <3>3 DEF OneByOne
  <2> QED BY <1>6, <2>3, <2>4
<1> QED BY <1>1, <1>7, <1>8 DEF LogInv

LEMMA LogStep == LogInv /\ [FulfilmentNext]_pickVars => LogInv'
<1> SUFFICES ASSUME LogInv, [FulfilmentNext]_pickVars PROVE LogInv'
  OBVIOUS
<1>1. CASE UNCHANGED pickVars
  <2>1. UNCHANGED <<withRedis, pickJob, picker, log, pickRuns, together>>
    BY <1>1 DEF pickVars
  <2>2. PickingTyped'
    BY <2>1 DEF LogInv, PickingTyped
  <2>3. ASSUME NEW q \in PickOrders \ together PROVE OneByOne(q)'
    BY <2>1, <2>3 DEF LogInv, OneByOne, Numbered, EndsWell
  <2> QED BY <2>1, <2>2, <2>3 DEF LogInv
<1> QED BY <1>1, JobSteps, BeginSteps, MoveSteps, AppendSteps, EndSteps
        DEF FulfilmentNext, PickStep

\* The events of an order whose runs were one after the other are numbered
\* without a gap or a tie, and the log of a completed job ends in
\* PICKING_INITIATED, over errors, deaths, stalls and repeated attempts
\* (eventSourcing.ts:49-105, 132-219).
THEOREM LogsTellOutcomes == FulfilmentInit /\ [][FulfilmentNext]_pickVars => []LogTellsOutcome
<1>1. LogInv => LogTellsOutcome
  BY DEF LogInv, LogTellsOutcome, OneByOne, Numbered, EndsWell
<1> QED BY LogStarts, LogStep, <1>1, PTL

-----------------------------------------------------------------------------
(***************************************************************************)
(* Part 2: the packing.                                                    *)
(***************************************************************************)
\* The items of an order, and what a packing of some of them is.
ItemsOf(o) == Range(OrderItems[o])
FirstItems(o, n) == {OrderItems[o][m] : m \in 1..n}
Groups(o) == Seq(Seq(ItemsOf(o)))
Contents(groups) == UNION {Range(groups[g]) : g \in DOMAIN groups}
Apart(groups) ==
  \A g, h \in DOMAIN groups : g # h => Range(groups[g]) \cap Range(groups[h]) = {}

LEMMA AddToRange ==
  ASSUME NEW S, NEW s \in Seq(S), NEW e \in S
  PROVE  Append(s, e) \in Seq(S) /\ Range(Append(s, e)) = Range(s) \cup {e}
<1>1. /\ Append(s, e) \in Seq(S) /\ DOMAIN Append(s, e) = 1..Len(s) + 1
      /\ DOMAIN s = 1..Len(s) /\ Len(s) \in Nat
      /\ \A n \in 1..Len(s) : Append(s, e)[n] = s[n]
      /\ Append(s, e)[Len(s) + 1] = e
  OBVIOUS
<1>2. \A n \in 1..Len(s) + 1 : n \in 1..Len(s) \/ n = Len(s) + 1
  BY <1>1
<1>3. 1..Len(s) \subseteq 1..Len(s) + 1 /\ Len(s) + 1 \in 1..Len(s) + 1
  BY <1>1
<1>4. ASSUME NEW x \in Range(Append(s, e)) PROVE x \in Range(s) \cup {e}
  <2>1. PICK n \in DOMAIN Append(s, e) : x = Append(s, e)[n]
    BY DEF Range
  <2> QED BY <1>1, <1>2, <2>1 DEF Range
<1>5. ASSUME NEW x \in Range(s) \cup {e} PROVE x \in Range(Append(s, e))
  <2>1. CASE x \in Range(s)
    <3>1. PICK n \in DOMAIN s : x = s[n]
      BY <2>1 DEF Range
    <3> QED BY <1>1, <1>3, <3>1 DEF Range
  <2>2. CASE x = e
    BY <1>1, <1>3, <2>2 DEF Range
  <2> QED BY <2>1, <2>2
<1> QED BY <1>1, <1>4, <1>5

LEMMA AppendedElement ==
  ASSUME NEW S, NEW s \in Seq(S), NEW e \in S
  PROVE  /\ Append(s, e) \in Seq(S) /\ Append(s, e) # <<>>
         /\ DOMAIN Append(s, e) = 1..Len(s) + 1 /\ DOMAIN s = 1..Len(s)
         /\ \A h \in 1..Len(s) : Append(s, e)[h] = s[h]
         /\ Append(s, e)[Len(s) + 1] = e
OBVIOUS

\* Placing an item adds it to one group, which may be a new one.
AddedTo(new, groups, x, g, T) ==
  /\ new \in Seq(Seq(T)) /\ new # <<>>
  /\ DOMAIN groups \cup {g} = DOMAIN new
  /\ \A h \in DOMAIN groups \ {g} : new[h] = groups[h]
  /\ Range(new[g]) = {x} \cup (IF g \in DOMAIN groups THEN Range(groups[g]) ELSE {})

LEMMA PlaceAdds ==
  ASSUME NEW T, NEW groups \in Seq(Seq(T)), NEW x \in T
  PROVE  \E g \in 1..Len(groups) + 1 : AddedTo(Place(groups, x), groups, x, g, T)
<1> DEFINE fit == {g \in DOMAIN groups : FitsInto(groups[g], x)}
           N == Len(groups)
<1>1. N \in Nat /\ DOMAIN groups = 1..N
  OBVIOUS
<1>2. CASE fit = {}
  <2> DEFINE new == Append(groups, <<x>>)
  <2>1. Place(groups, x) = new
    BY <1>2 DEF Place
  <2>2. /\ new \in Seq(Seq(T)) /\ new # <<>> /\ DOMAIN new = 1..N + 1
        /\ \A h \in 1..N : new[h] = groups[h]
        /\ new[N + 1] = <<x>> /\ Range(<<x>>) = {x}
    <3>1. <<x>> \in Seq(T) /\ Range(<<x>>) = {x}
      BY DEF Range
    <3> DEFINE y == <<x>>
    <3>2. y \in Seq(T)
      BY <3>1
    <3> HIDE DEF y
    <3>3. /\ Append(groups, y) \in Seq(Seq(T)) /\ Append(groups, y) # <<>>
          /\ DOMAIN Append(groups, y) = 1..N + 1
          /\ \A h \in 1..N : Append(groups, y)[h] = groups[h]
          /\ Append(groups, y)[N + 1] = y
      <4> DEFINE T2 == Seq(T)
      <4>1. groups \in Seq(T2) /\ y \in T2
        BY <3>2
      <4> HIDE DEF T2
      <4>2. /\ Append(groups, y) \in Seq(T2) /\ Append(groups, y) # <<>>
            /\ DOMAIN Append(groups, y) = 1..Len(groups) + 1
            /\ \A h \in 1..Len(groups) : Append(groups, y)[h] = groups[h]
            /\ Append(groups, y)[Len(groups) + 1] = y
        BY <4>1, AppendedElement
      <4> QED BY <4>2 DEF T2
    <3> QED BY <3>1, <3>3 DEF y
  <2>3. DOMAIN groups \cup {N + 1} = DOMAIN new /\ N + 1 \notin DOMAIN groups
    BY <1>1, <2>2
  <2> HIDE DEF new
  <2>4. AddedTo(new, groups, x, N + 1, T)
    BY <1>1, <2>2, <2>3 DEF AddedTo
  <2> QED BY <1>1, <2>1, <2>4
<1>3. CASE fit # {}
  <2>1. Min(fit) \in fit
    <3>1. fit \subseteq Nat
      BY <1>1
    <3> HIDE DEF fit
    <3> QED BY <1>3, <3>1, MinOfNumbers
  <2>2. PICK g \in DOMAIN groups : g = Min(fit)
    BY <2>1
  <2> DEFINE more == Append(groups[g], x)
             new == [groups EXCEPT ![g] = more]
  <2>3. Place(groups, x) = new
    BY <1>3, <2>2 DEF Place
  <2>4. more \in Seq(T) /\ Range(more) = Range(groups[g]) \cup {x}
    BY <1>1, AddToRange
  <2> HIDE DEF more
  <2>5. /\ new \in Seq(Seq(T)) /\ new # <<>> /\ DOMAIN new = DOMAIN groups
        /\ new[g] = more /\ \A h \in DOMAIN groups \ {g} : new[h] = groups[h]
    BY <1>1, <2>4
  <2> HIDE DEF new
  <2>6. AddedTo(new, groups, x, g, T)
    BY <2>4, <2>5 DEF AddedTo
  <2> QED BY <1>1, <2>3, <2>6
<1> QED BY <1>2, <1>3

-----------------------------------------------------------------------------
(***************************************************************************)
(* The recursion of Packed has a solution, so it is one.                   *)
(***************************************************************************)
PacksUpTo(f, o, k) ==
  f = [n \in 0..k |-> IF n = 0 THEN <<>> ELSE Place(f[n - 1], OrderItems[o][n])]

LEMMA PacksMore ==
  ASSUME NEW o, NEW k \in Nat, k # 0, NEW f, PacksUpTo(f, o, k - 1)
  PROVE  \E g : PacksUpTo(g, o, k)
<1> DEFINE g == [n \in 0..k |-> IF n = k THEN Place(f[k - 1], OrderItems[o][k]) ELSE f[n]]
<1>1. \A n \in 0..k - 1 : g[n] = f[n]
  OBVIOUS
<1>2. g[k] = Place(f[k - 1], OrderItems[o][k])
  OBVIOUS
<1>3. g = [n \in 0..k |-> g[n]]
  OBVIOUS
<1> HIDE DEF g
<1>4. ASSUME NEW n \in 0..k
      PROVE  g[n] = IF n = 0 THEN <<>> ELSE Place(g[n - 1], OrderItems[o][n])
  <2>1. CASE n = k
    <3>1. k - 1 \in 0..k - 1
      OBVIOUS
    <3>2. g[k - 1] = f[k - 1]
      BY <1>1, <3>1
    <3> QED BY <1>2, <2>1, <3>2
  <2>2. CASE n # k
    <3>1. n \in 0..k - 1
      BY <2>2
    <3>2. f[n] = IF n = 0 THEN <<>> ELSE Place(f[n - 1], OrderItems[o][n])
      BY <3>1 DEF PacksUpTo
    <3>3. n # 0 => n - 1 \in 0..k - 1
      BY <3>1
    <3> QED BY <1>1, <3>1, <3>2, <3>3
  <2> QED BY <2>1, <2>2
<1>5. PacksUpTo(g, o, k)
  BY <1>3, <1>4 DEF PacksUpTo
<1> QED BY <1>5

LEMMA PackedUnfolds ==
  ASSUME NEW o \in PickOrders
  PROVE  /\ Packed(o)[0] = <<>>
         /\ \A n \in 1..Len(OrderItems[o]) :
              Packed(o)[n] = Place(Packed(o)[n - 1], OrderItems[o][n])
<1> DEFINE N == Len(OrderItems[o])
           G == {k \in 0..N : \E f : PacksUpTo(f, o, k)}
<1>1. N \in Nat
  BY FulfilmentAssumption
<1>2. 0 \in G
  <2>1. PacksUpTo([n \in 0..0 |-> <<>>], o, 0)
    BY DEF PacksUpTo
  <2> QED BY <1>1, <2>1
<1>3. ASSUME NEW n \in 0..N, n # 0, n - 1 \in G PROVE n \in G
  <2>1. PICK f : PacksUpTo(f, o, n - 1)
    BY <1>3
  <2>2. n \in Nat
    BY <1>1
  <2>3. \E g : PacksUpTo(g, o, n)
    BY <1>3, <2>1, <2>2, PacksMore
  <2> QED BY <2>3
<1>4. N \in G
  <2> HIDE DEF G, N
  <2> QED BY <1>1, <1>2, <1>3, NumbersUpTo
<1>5. \E f : PacksUpTo(f, o, N)
  BY <1>4
<1>6. Packed(o) = CHOOSE f : PacksUpTo(f, o, N)
  BY DEF Packed, PacksUpTo
<1>7. PacksUpTo(Packed(o), o, N)
  <2> HIDE DEF N
  <2> QED BY <1>5, <1>6
<1>8. \A n \in 0..N :
        Packed(o)[n] = IF n = 0 THEN <<>> ELSE Place(Packed(o)[n - 1], OrderItems[o][n])
  <2> HIDE DEF N
  <2>1. PICK f : f = Packed(o)
    OBVIOUS
  <2>2. f = [n \in 0..N |-> IF n = 0 THEN <<>> ELSE Place(f[n - 1], OrderItems[o][n])]
    BY <1>7, <2>1 DEF PacksUpTo
  <2>3. \A n \in 0..N : f[n] = IF n = 0 THEN <<>> ELSE Place(f[n - 1], OrderItems[o][n])
    BY <2>2
  <2> QED BY <2>1, <2>3
<1>9. 0 \in 0..N /\ \A n \in 1..N : n \in 0..N /\ n # 0
  BY <1>1
<1> QED BY <1>8, <1>9

-----------------------------------------------------------------------------
(***************************************************************************)
(* What is packed: the items so far, each in one group.                    *)
(***************************************************************************)
\* No two lines of an order are the same.
DistinctLines ==
  \A o \in PickOrders : \A m, n \in DOMAIN OrderItems[o] :
    OrderItems[o][m] = OrderItems[o][n] => m = n

PackedWell(groups, o, n) ==
  /\ groups \in Groups(o)
  /\ n # 0 => groups # <<>>
  /\ Contents(groups) = FirstItems(o, n)
  /\ DistinctLines => Apart(groups)

LEMMA PlacePacksWell ==
  ASSUME NEW o \in PickOrders, NEW n \in 1..Len(OrderItems[o]), NEW groups,
         PackedWell(groups, o, n - 1)
  PROVE  PackedWell(Place(groups, OrderItems[o][n]), o, n)
<1> DEFINE x == OrderItems[o][n]
           new == Place(groups, x)
           T == ItemsOf(o)
<1>1. /\ n \in DOMAIN OrderItems[o] /\ x \in T /\ n \in Nat \ {0}
      /\ DOMAIN OrderItems[o] = 1..Len(OrderItems[o]) /\ Len(OrderItems[o]) \in Nat
  BY FulfilmentAssumption DEF ItemsOf, Range
<1>2. groups \in Seq(Seq(T)) /\ Contents(groups) = FirstItems(o, n - 1)
  BY DEF PackedWell, Groups
<1> HIDE DEF x, T
<1>3. PICK g \in 1..Len(groups) + 1 :
        /\ new \in Seq(Seq(T)) /\ new # <<>>
        /\ DOMAIN groups \cup {g} = DOMAIN new
        /\ \A h \in DOMAIN groups \ {g} : new[h] = groups[h]
        /\ Range(new[g]) = {x} \cup (IF g \in DOMAIN groups THEN Range(groups[g]) ELSE {})
  <2>1. PICK g \in 1..Len(groups) + 1 : AddedTo(Place(groups, x), groups, x, g, T)
    BY <1>1, <1>2, PlaceAdds
  <2>2. AddedTo(new, groups, x, g, T)
    BY <2>1
  <2> HIDE DEF new
  <2> QED BY <2>2 DEF AddedTo
<1> HIDE DEF new
<1>4. Contents(new) = Contents(groups) \cup {x}
  <2>1. ASSUME NEW y \in Contents(new) PROVE y \in Contents(groups) \cup {x}
    <3>1. PICK h \in DOMAIN new : y \in Range(new[h])
      BY DEF Contents
    <3>2. CASE h = g
      BY <1>3, <3>1, <3>2 DEF Contents
    <3>3. CASE h # g
      BY <1>3, <3>1, <3>3 DEF Contents
    <3> QED BY <3>2, <3>3
  <2>2. x \in Contents(new)
    BY <1>3 DEF Contents
  <2>3. ASSUME NEW y \in Contents(groups) PROVE y \in Contents(new)
    <3>1. PICK h \in DOMAIN groups : y \in Range(groups[h])
      BY DEF Contents
    <3> QED BY <1>3, <3>1 DEF Contents
  <2> QED BY <2>1, <2>2, <2>3
<1>5. FirstItems(o, n) = FirstItems(o, n - 1) \cup {x}
  <2>1. \A m \in 1..n : m \in 1..n - 1 \/ m = n
    BY <1>1
  <2>2. n \in 1..n /\ 1..n - 1 \subseteq 1..n
    BY <1>1
  <2> QED BY <2>1, <2>2 DEF FirstItems, x
<1>6. ASSUME DistinctLines PROVE Apart(new)
  <2>1. x \notin Contents(groups)
    <3>1. SUFFICES ASSUME x \in FirstItems(o, n - 1) PROVE FALSE
      BY <1>2
    <3>2. PICK m \in 1..n - 1 : OrderItems[o][m] = OrderItems[o][n]
      BY <3>1 DEF FirstItems, x
    <3>3. m \in DOMAIN OrderItems[o] /\ m # n
      BY <1>1
    <3> QED BY <1>1, <1>6, <3>2, <3>3 DEF DistinctLines
  <2>2. Apart(groups)
    BY <1>6 DEF PackedWell
  <2>3. ASSUME NEW h \in DOMAIN new, NEW i \in DOMAIN new, h # i,
               NEW y \in Range(new[h]), y \in Range(new[i])
        PROVE  FALSE
    <3>1. \A k \in DOMAIN groups : x \notin Range(groups[k])
      BY <2>1 DEF Contents
    <3>2. CASE h = g
      <4>1. i \in DOMAIN groups /\ new[i] = groups[i]
        BY <1>3, <2>3, <3>2
      <4>2. y # x
        BY <2>3, <3>1, <4>1
      <4>3. h \in DOMAIN groups /\ y \in Range(groups[h])
        BY <1>3, <3>2, <4>2
      <4> QED BY <2>2, <2>3, <4>1, <4>3 DEF Apart
    <3>3. CASE i = g
      <4>1. h \in DOMAIN groups /\ new[h] = groups[h]
        BY <1>3, <2>3, <3>3
      <4>2. y # x
        BY <2>3, <3>1, <4>1
      <4>3. i \in DOMAIN groups /\ y \in Range(groups[i])
        BY <1>3, <2>3, <3>3, <4>2
      <4> QED BY <2>2, <2>3, <4>1, <4>3 DEF Apart
    <3>4. CASE h # g /\ i # g
      BY <1>3, <2>2, <2>3, <3>4 DEF Apart
    <3> QED BY <3>2, <3>3, <3>4
  <2> QED BY <2>3 DEF Apart
<1>7. PackedWell(new, o, n)
  BY <1>2, <1>3, <1>4, <1>5, <1>6 DEF PackedWell, Groups, T
<1> QED BY <1>7 DEF new, x

\* The boxes of an order hold its items, each in one box if no two are the same.
LEMMA BoxesPackAll ==
  ASSUME NEW o \in PickOrders
  PROVE  PackedWell(BoxesOf[o], o, Len(OrderItems[o]))
<1> DEFINE N == Len(OrderItems[o])
           G == {k \in 0..N : PackedWell(Packed(o)[k], o, k)}
<1>1. N \in Nat
  BY FulfilmentAssumption
<1>2. 0 \in G
  <2>1. Packed(o)[0] = <<>>
    BY PackedUnfolds
  <2>2. PackedWell(<<>>, o, 0)
    BY DEF PackedWell, Groups, Contents, FirstItems, Apart
  <2> QED BY <1>1, <2>1, <2>2
<1>3. ASSUME NEW n \in 0..N, n # 0, n - 1 \in G PROVE n \in G
  <2>1. n \in 1..N
    BY <1>1, <1>3
  <2>2. Packed(o)[n] = Place(Packed(o)[n - 1], OrderItems[o][n])
    BY <2>1, PackedUnfolds
  <2>3. PackedWell(Packed(o)[n - 1], o, n - 1)
    BY <1>3
  <2> QED BY <2>1, <2>2, <2>3, PlacePacksWell
<1>4. N \in G
  <2> HIDE DEF G, N
  <2> QED BY <1>1, <1>2, <1>3, NumbersUpTo
<1> QED BY <1>4 DEF BoxesOf

LEMMA BoxOfItem ==
  ASSUME NEW o \in PickOrders
  PROVE  /\ BoxesOf[o] \in Seq(Seq(ItemsOf(o))) /\ BoxesOf[o] # <<>>
         /\ DOMAIN BoxesOf[o] = 1..Len(BoxesOf[o]) /\ Len(BoxesOf[o]) \in Nat \ {0}
         /\ DistinctLines => \A n \in DOMAIN OrderItems[o] : \E b \in DOMAIN BoxesOf[o] :
              /\ OrderItems[o][n] \in Range(BoxesOf[o][b])
              /\ \A c \in DOMAIN BoxesOf[o] \ {b} :
                   OrderItems[o][n] \notin Range(BoxesOf[o][c])
<1> DEFINE boxes == BoxesOf[o]
<1>1. PackedWell(boxes, o, Len(OrderItems[o]))
  BY BoxesPackAll
<1>2. Len(OrderItems[o]) \in Nat \ {0} /\ DOMAIN OrderItems[o] = 1..Len(OrderItems[o])
  BY FulfilmentAssumption
<1> HIDE DEF boxes
<1>3. boxes \in Seq(Seq(ItemsOf(o))) /\ boxes # <<>>
  BY <1>1, <1>2 DEF PackedWell, Groups
<1>4. DOMAIN boxes = 1..Len(boxes) /\ Len(boxes) \in Nat \ {0}
  BY <1>3
<1>5. ASSUME DistinctLines, NEW n \in DOMAIN OrderItems[o]
      PROVE  \E b \in DOMAIN boxes :
               /\ OrderItems[o][n] \in Range(boxes[b])
               /\ \A c \in DOMAIN boxes \ {b} : OrderItems[o][n] \notin Range(boxes[c])
  <2>1. OrderItems[o][n] \in Contents(boxes)
    BY <1>1, <1>2, <1>5 DEF PackedWell, FirstItems
  <2>2. PICK b \in DOMAIN boxes : OrderItems[o][n] \in Range(boxes[b])
    BY <2>1 DEF Contents
  <2>3. Apart(boxes)
    BY <1>1, <1>5 DEF PackedWell
  <2> QED BY <2>2, <2>3 DEF Apart
<1> QED BY <1>3, <1>4, <1>5 DEF boxes

-----------------------------------------------------------------------------
(***************************************************************************)
(* Part 3: the pickings.                                                   *)
(***************************************************************************)
PickersFinite == IsFiniteSet(Pickers)

Boxes(o) == DOMAIN BoxesOf[o]
AllSaved(o) == \A b \in Boxes(o) : pickings[o][b] >= 1

\* The pickers that have yet to save box b of o.
YetToSave(o, b) ==
  [w \in Pickers |-> IF picker[w].pc = "boxes" /\ picker[w].order = o /\ picker[w].box <= b
                     THEN 1 ELSE 0]

SavedBehind(w) ==
  /\ picker[w].pc = "boxes" =>
       /\ picker[w].box \in Boxes(picker[w].order)
       /\ \A b \in Boxes(picker[w].order) :
            b < picker[w].box => pickings[picker[w].order][b] >= 1
  /\ picker[w].pc \in {"version", "event", "returned"} => AllSaved(picker[w].order)

PickingsTyped ==
  DOMAIN pickings = PickOrders /\ \A o \in PickOrders : pickings[o] \in [Boxes(o) -> Nat]

\* Each run pays for one picking of each box, made or to be made.
PickingsPaid ==
  \A o \in PickOrders : \A b \in Boxes(o) :
    pickings[o][b] + SumFunction(YetToSave(o, b)) <= pickRuns[o]

BoxInv ==
  /\ PickingTyped
  /\ PickingsTyped
  /\ PickingsPaid
  /\ \A w \in Pickers : SavedBehind(w)
  /\ \A o \in PickOrders : pickJob[o].state = "completed" => AllSaved(o)

-----------------------------------------------------------------------------
LEMMA BoxesAreNumbers ==
  ASSUME NEW o \in PickOrders
  PROVE  /\ Boxes(o) = 1..Len(BoxesOf[o]) /\ Len(BoxesOf[o]) \in Nat \ {0}
         /\ 1 \in Boxes(o) /\ IsFiniteSet(Boxes(o)) /\ Boxes(o) \subseteq Nat \ {0}
<1>1. DOMAIN BoxesOf[o] = 1..Len(BoxesOf[o]) /\ Len(BoxesOf[o]) \in Nat \ {0}
  BY BoxOfItem
<1> DEFINE n == Len(BoxesOf[o])
<1>2. n \in Nat \ {0} /\ Boxes(o) = 1..n
  BY <1>1 DEF Boxes
<1> HIDE DEF n
<1>3. IsFiniteSet(1..n) /\ 1 \in 1..n /\ 1..n \subseteq Nat \ {0}
  BY <1>2, FS_Interval
<1> QED BY <1>2, <1>3 DEF n

LEMMA FlagsTyped ==
  ASSUME NEW o, NEW b
  PROVE  /\ YetToSave(o, b) \in [Pickers -> Int]
         /\ PickersFinite => SumFunction(YetToSave(o, b)) \in Int
<1>1. YetToSave(o, b) \in [Pickers -> Int]
  BY DEF YetToSave
<1> QED BY <1>1, TotalInt DEF PickersFinite

LEMMA FlagsTypedNext ==
  ASSUME NEW o, NEW b
  PROVE  /\ YetToSave(o, b)' \in [Pickers -> Int]
         /\ PickersFinite => SumFunction(YetToSave(o, b)') \in Int
<1>1. YetToSave(o, b)' \in [Pickers -> Int]
  BY DEF YetToSave
<1> QED BY <1>1, TotalInt DEF PickersFinite

LEMMA FlagsFall ==
  ASSUME PickersFinite, NEW o, NEW b,
         \A v \in Pickers : YetToSave(o, b)'[v] <= YetToSave(o, b)[v]
  PROVE  SumFunction(YetToSave(o, b)') <= SumFunction(YetToSave(o, b))
<1>1. YetToSave(o, b) \in [Pickers -> Int] /\ YetToSave(o, b)' \in [Pickers -> Int]
  BY FlagsTyped, FlagsTypedNext
<1> QED BY <1>1, TotalAtMost DEF PickersFinite

LEMMA FlagChanges ==
  ASSUME PickersFinite, NEW o, NEW b, NEW w \in Pickers,
         \A v \in Pickers \ {w} : YetToSave(o, b)'[v] = YetToSave(o, b)[v]
  PROVE  SumFunction(YetToSave(o, b)')
           = SumFunction(YetToSave(o, b)) - YetToSave(o, b)[w] + YetToSave(o, b)'[w]
<1>1. YetToSave(o, b) \in [Pickers -> Int] /\ YetToSave(o, b)' \in [Pickers -> Int]
  BY FlagsTyped, FlagsTypedNext
<1> QED BY <1>1, TotalChange DEF PickersFinite

LEMMA BoxesStart == ASSUME PickersFinite PROVE FulfilmentInit => LogInv /\ BoxInv
<1> SUFFICES ASSUME FulfilmentInit PROVE LogInv /\ BoxInv
  OBVIOUS
<1>1. LogInv /\ PickingTyped
  BY LogStarts DEF LogInv
<1>2. \A w \in Pickers : picker[w] = RestingPicker /\ picker[w].pc = "idle"
  BY RestingTyped DEF FulfilmentInit
<1>3. /\ PickingsTyped /\ \A o \in PickOrders : \A b \in Boxes(o) : pickings[o][b] = 0
      /\ \A o \in PickOrders : pickRuns[o] = 0 /\ pickJob[o].state # "completed"
  BY DEF FulfilmentInit, PickingsTyped, Boxes
<1>4. PickingsPaid
  <2>1. ASSUME NEW o \in PickOrders, NEW b \in Boxes(o)
        PROVE  SumFunction(YetToSave(o, b)) = 0
    <3>1. YetToSave(o, b) = [w \in Pickers |-> 0]
      BY <1>2 DEF YetToSave
    <3> QED BY <3>1, TotalZero DEF PickersFinite
  <2> QED BY <1>3, <2>1 DEF PickingsPaid
<1>5. \A w \in Pickers : SavedBehind(w)
  BY <1>2 DEF SavedBehind
<1> QED BY <1>1, <1>3, <1>4, <1>5 DEF BoxInv

\* No box is saved and no run begins: runs go on or end, jobs change.
LEMMA QuietSteps ==
  ASSUME PickersFinite, BoxInv, PickingTyped', UNCHANGED <<pickings, pickRuns>>,
         \A v \in Pickers :
           \/ picker'[v] = picker[v]
           \/ /\ picker'[v].pc # "boxes"
              /\ picker'[v].pc \in {"version", "event", "returned"} =>
                   /\ picker[v].pc \in {"version", "event", "returned"}
                   /\ picker'[v].order = picker[v].order,
         \A o \in PickOrders : pickJob'[o].state = "completed" =>
           pickJob[o].state = "completed" \/ AllSaved(o)
  PROVE  BoxInv'
<1>1. \A o \in PickOrders : AllSaved(o)' <=> AllSaved(o)
  BY DEF AllSaved
<1>2. ASSUME NEW o \in PickOrders, NEW b \in Boxes(o)
      PROVE  pickings'[o][b] + SumFunction(YetToSave(o, b)') <= pickRuns'[o]
  <2>1. ASSUME NEW v \in Pickers PROVE YetToSave(o, b)'[v] <= YetToSave(o, b)[v]
    BY DEF YetToSave
  <2>2. SumFunction(YetToSave(o, b)') <= SumFunction(YetToSave(o, b))
    BY <2>1, FlagsFall
  <2>3. SumFunction(YetToSave(o, b)') \in Int /\ SumFunction(YetToSave(o, b)) \in Int
    BY FlagsTyped, FlagsTypedNext
  <2>4. pickings[o][b] \in Nat /\ pickRuns[o] \in Nat
    BY DEF BoxInv, PickingsTyped, PickingTyped
  <2>5. pickings[o][b] + SumFunction(YetToSave(o, b)) <= pickRuns[o]
    BY DEF BoxInv, PickingsPaid
  <2> QED BY <2>2, <2>3, <2>4, <2>5
<1>3. ASSUME NEW v \in Pickers PROVE SavedBehind(v)'
  <2>1. SavedBehind(v)
    BY DEF BoxInv
  <2>2. CASE picker'[v] = picker[v]
    BY <2>1, <2>2 DEF SavedBehind, AllSaved
  <2>3. CASE picker'[v] # picker[v]
    BY <2>1, <2>3 DEF SavedBehind, AllSaved
  <2> QED BY <2>2, <2>3
<1>4. PickingsTyped'
  BY DEF BoxInv, PickingsTyped
<1>5. PickingsPaid'
  BY <1>2 DEF PickingsPaid
<1>6. \A o \in PickOrders : pickJob'[o].state = "completed" => AllSaved(o)'
  BY <1>1 DEF BoxInv
<1> QED BY <1>3, <1>4, <1>5, <1>6 DEF BoxInv

\* A run begins at the first box and pays for all.
LEMMA BeginKeepsBoxes ==
  ASSUME PickersFinite, BoxInv, PickingTyped', NEW w \in Pickers, NEW o \in PickOrders,
         RunPickingJob(w, o) \/ TakePickingJob(w, o)
  PROVE  BoxInv'
<1> DEFINE r == [RestingPicker EXCEPT !.pc = "boxes", !.order = o, !.run = pickRuns[o] + 1]
<1>1. /\ picker[w].pc = "idle" /\ picker' = [picker EXCEPT ![w] = r]
      /\ pickRuns' = [pickRuns EXCEPT ![o] = @ + 1] /\ pickings' = pickings
      /\ PickingTyped
  BY DEF RunPickingJob, TakePickingJob, BeginRun, BoxInv
<1>2. r.pc = "boxes" /\ r.order = o /\ r.box = 1
  BY DEF RestingPicker
<1> HIDE DEF r
<1>3. picker'[w] = r /\ \A v \in Pickers \ {w} : picker'[v] = picker[v]
  BY <1>1 DEF PickingTyped
<1>4. /\ pickRuns'[o] = pickRuns[o] + 1 /\ pickRuns[o] \in Nat
      /\ \A q \in PickOrders \ {o} : pickRuns'[q] = pickRuns[q]
  BY <1>1 DEF PickingTyped
<1>5. ASSUME NEW q \in PickOrders, NEW b \in Boxes(q)
      PROVE  pickings'[q][b] + SumFunction(YetToSave(q, b)') <= pickRuns'[q]
  <2>1. /\ \A v \in Pickers \ {w} : YetToSave(q, b)'[v] = YetToSave(q, b)[v]
        /\ YetToSave(q, b)[w] = 0
        /\ YetToSave(q, b)'[w] \in {0, 1} /\ (q # o => YetToSave(q, b)'[w] = 0)
    BY <1>1, <1>2, <1>3 DEF YetToSave
  <2>2. SumFunction(YetToSave(q, b)')
          = SumFunction(YetToSave(q, b)) - YetToSave(q, b)[w] + YetToSave(q, b)'[w]
    BY <2>1, FlagChanges
  <2>3. SumFunction(YetToSave(q, b)') \in Int /\ SumFunction(YetToSave(q, b)) \in Int
    BY FlagsTyped, FlagsTypedNext
  <2>4. pickings[q][b] \in Nat /\ pickRuns[q] \in Nat
    BY DEF BoxInv, PickingsTyped, PickingTyped
  <2>5. pickings[q][b] + SumFunction(YetToSave(q, b)) <= pickRuns[q]
    BY DEF BoxInv, PickingsPaid
  <2> QED BY <1>1, <1>4, <2>1, <2>2, <2>3, <2>4, <2>5
<1>6. ASSUME NEW v \in Pickers PROVE SavedBehind(v)'
  <2>1. SavedBehind(v)
    BY DEF BoxInv
  <2>2. CASE v # w
    BY <1>1, <1>3, <2>1, <2>2 DEF SavedBehind, AllSaved
  <2>3. CASE v = w
    <3>1. 1 \in Boxes(o) /\ \A b \in Boxes(o) : ~(b < 1)
      BY BoxesAreNumbers
    <3> QED BY <1>2, <1>3, <2>3, <3>1 DEF SavedBehind
  <2> QED BY <2>2, <2>3
<1>7. ASSUME NEW q \in PickOrders, pickJob'[q].state = "completed" PROVE AllSaved(q)'
  <2>1. pickJob[q].state = "completed"
    <3>1. CASE RunPickingJob(w, o)
      BY <1>7, <3>1 DEF RunPickingJob
    <3>2. CASE TakePickingJob(w, o)
      <4>1. pickJob' = [pickJob EXCEPT ![o] = [pickJob[o] EXCEPT !.state = "active"]]
        BY <3>2 DEF TakePickingJob
      <4>2. pickJob[o] \in PickRecords /\ DOMAIN pickJob = PickOrders
        BY <1>1 DEF PickingTyped
      <4>3. [pickJob[o] EXCEPT !.state = "active"].state = "active"
        BY <4>2 DEF PickRecords
      <4> QED BY <1>7, <4>1, <4>2, <4>3
    <3> QED BY <3>1, <3>2
  <2> QED BY <1>1, <2>1 DEF BoxInv, AllSaved
<1>8. PickingsTyped' /\ PickingsPaid'
  BY <1>1, <1>5 DEF BoxInv, PickingsTyped, PickingsPaid
<1> QED BY <1>6, <1>7, <1>8 DEF BoxInv

\* Saving a box makes a picking that the run has paid for.
LEMMA SaveKeepsBoxes ==
  ASSUME PickersFinite, BoxInv, PickingTyped', NEW w \in Pickers, SaveBox(w)
  PROVE  BoxInv'
<1>1. /\ picker[w].pc = "boxes" /\ PickingTyped /\ PickingsTyped /\ SavedBehind(w)
      /\ UNCHANGED <<pickJob, pickRuns>> /\ picker[w] \in PickerStates
  BY DEF SaveBox, BoxInv, PickingTyped
<1>2. PICK o \in PickOrders : o = picker[w].order
  BY <1>1 DEF PickingTyped, PickerStates
<1>3. PICK b \in Boxes(o) : b = picker[w].box
  BY <1>1, <1>2 DEF SavedBehind
<1> DEFINE pc == IF b = Len(BoxesOf[o]) THEN "version" ELSE "boxes"
           r == [picker[w] EXCEPT !.box = b + 1, !.pc = pc]
<1>4. /\ pickings' = [pickings EXCEPT ![o][b] = @ + 1]
      /\ picker' = [picker EXCEPT ![w] = r]
  BY <1>2, <1>3 DEF SaveBox
<1>5. r.pc = pc /\ r.order = o /\ r.box = b + 1
  BY <1>1, <1>2 DEF PickerStates
<1> HIDE DEF r
<1>6. picker'[w] = r /\ \A v \in Pickers \ {w} : picker'[v] = picker[v]
  BY <1>1, <1>4 DEF PickingTyped
<1>7. /\ pickings'[o][b] = pickings[o][b] + 1
      /\ \A q \in PickOrders : \A c \in Boxes(q) :
           (q # o \/ c # b) => pickings'[q][c] = pickings[q][c]
      /\ \A q \in PickOrders : \A c \in Boxes(q) :
           pickings[q][c] \in Nat /\ pickings'[q][c] >= pickings[q][c]
      /\ PickingsTyped'
  <2>1. /\ pickings[o] \in [Boxes(o) -> Nat] /\ DOMAIN pickings = PickOrders
        /\ pickings[o][b] + 1 \in Nat
    BY <1>1 DEF PickingsTyped
  <2>2. pickings' = [pickings EXCEPT ![o] = [pickings[o] EXCEPT ![b] = pickings[o][b] + 1]]
    BY <1>4
  <2>3. PickingsTyped'
    BY <1>1, <2>1, <2>2 DEF PickingsTyped
  <2>4. \A q \in PickOrders : \A c \in Boxes(q) : pickings[q][c] \in Nat
    BY <1>1 DEF PickingsTyped
  <2> QED BY <2>1, <2>2, <2>3, <2>4
<1>8. /\ Boxes(o) = 1..Len(BoxesOf[o]) /\ Len(BoxesOf[o]) \in Nat
      /\ Boxes(o) \subseteq Nat
  BY BoxesAreNumbers
<1>9. ASSUME NEW q \in PickOrders, NEW c \in Boxes(q)
      PROVE  pickings'[q][c] + SumFunction(YetToSave(q, c)') <= pickRuns'[q]
  <2>1. c \in Nat /\ b \in Nat
    BY <1>8, BoxesAreNumbers
  <2>2. /\ \A v \in Pickers \ {w} : YetToSave(q, c)'[v] = YetToSave(q, c)[v]
        /\ YetToSave(q, c)[w] = IF q = o /\ b <= c THEN 1 ELSE 0
        /\ YetToSave(q, c)'[w] = IF pc = "boxes" /\ q = o /\ b + 1 <= c THEN 1 ELSE 0
    BY <1>1, <1>2, <1>3, <1>5, <1>6 DEF YetToSave
  <2>3. SumFunction(YetToSave(q, c)')
          = SumFunction(YetToSave(q, c)) - YetToSave(q, c)[w] + YetToSave(q, c)'[w]
    BY <2>2, FlagChanges
  <2>4. SumFunction(YetToSave(q, c)') \in Int /\ SumFunction(YetToSave(q, c)) \in Int
    BY FlagsTyped, FlagsTypedNext
  <2>5. pickings[q][c] \in Nat /\ pickRuns[q] \in Nat
    BY <1>1 DEF PickingsTyped, PickingTyped
  <2>6. pickings[q][c] + SumFunction(YetToSave(q, c)) <= pickRuns[q]
    BY DEF BoxInv, PickingsPaid
  <2> HIDE DEF pc
  <2>7. CASE q = o /\ c = b
    <3>1. YetToSave(q, c)[w] = 1 /\ YetToSave(q, c)'[w] = 0
      BY <2>1, <2>2, <2>7
    <3> QED BY <1>1, <1>7, <2>3, <2>4, <2>5, <2>6, <2>7, <3>1
  <2>8. CASE q # o \/ c # b
    <3>1. /\ YetToSave(q, c)'[w] <= YetToSave(q, c)[w]
          /\ YetToSave(q, c)'[w] \in Int /\ YetToSave(q, c)[w] \in Int
      BY <2>1, <2>2
    <3> QED BY <1>1, <1>7, <2>3, <2>4, <2>5, <2>6, <2>8, <3>1
  <2> QED BY <2>7, <2>8
<1>10. \A q \in PickOrders : AllSaved(q) => AllSaved(q)'
  BY <1>7 DEF AllSaved
<1>11. ASSUME NEW v \in Pickers PROVE SavedBehind(v)'
  <2>1. SavedBehind(v)
    BY DEF BoxInv
  <2>2. CASE v # w
    <3>1. picker'[v] = picker[v] /\ picker[v] \in PickerStates
      BY <1>1, <1>6, <2>2 DEF PickingTyped
    <3>2. picker[v].pc # "idle" => picker[v].order \in PickOrders
      BY <1>1, <3>1 DEF PickingTyped, PickerStates
    <3>3. CASE picker[v].pc = "boxes"
      <4>1. /\ picker[v].box \in Boxes(picker[v].order)
            /\ \A c \in Boxes(picker[v].order) :
                 c < picker[v].box => pickings[picker[v].order][c] >= 1
        BY <2>1, <3>3 DEF SavedBehind
      <4>2. ASSUME NEW c \in Boxes(picker[v].order), c < picker[v].box
            PROVE  pickings'[picker[v].order][c] >= 1
        <5>1. PICK q \in PickOrders : q = picker[v].order
          BY <3>2, <3>3
        <5>2. /\ pickings[q][c] >= 1 /\ pickings'[q][c] >= pickings[q][c]
              /\ pickings[q][c] \in Nat /\ pickings'[q][c] \in Nat
          BY <1>7, <4>1, <4>2, <5>1 DEF PickingsTyped
        <5> QED BY <5>1, <5>2
      <4> QED BY <3>1, <3>3, <4>1, <4>2 DEF SavedBehind
    <3>4. CASE picker[v].pc # "boxes"
      <4>1. CASE picker[v].pc \in {"version", "event", "returned"}
        <5>1. PICK q \in PickOrders : q = picker[v].order
          BY <3>2, <4>1
        <5>2. AllSaved(q)'
          BY <1>10, <2>1, <4>1, <5>1 DEF SavedBehind
        <5> QED BY <3>1, <3>4, <5>1, <5>2 DEF SavedBehind
      <4>2. CASE picker[v].pc \notin {"version", "event", "returned"}
        BY <3>1, <3>4, <4>2 DEF SavedBehind
      <4> QED BY <4>1, <4>2
    <3> QED BY <3>3, <3>4
  <2>3. CASE v = w
    <3>1. ASSUME NEW c \in Boxes(o), c < b + 1 PROVE pickings'[o][c] >= 1
      <4>1. CASE c = b
        BY <1>7, <4>1
      <4>2. CASE c # b
        <5>1. c < b
          BY <1>8, <3>1, <4>2
        <5> QED BY <1>1, <1>2, <1>3, <1>7, <4>2, <5>1 DEF SavedBehind
      <4> QED BY <4>1, <4>2
    <3>2. pc = "boxes" => b + 1 \in Boxes(o)
      BY <1>8
    <3>3. pc = "version" => AllSaved(o)'
      <4>1. pc = "version" => \A c \in Boxes(o) : c < b + 1
        BY <1>8
      <4> QED BY <3>1, <4>1 DEF AllSaved
    <3>4. pc \in {"boxes", "version"}
      OBVIOUS
    <3> HIDE DEF pc
    <3> QED BY <1>5, <1>6, <2>3, <3>1, <3>2, <3>3, <3>4 DEF SavedBehind
  <2> QED BY <2>2, <2>3
<1> QED BY <1>1, <1>7, <1>9, <1>10, <1>11 DEF BoxInv, PickingsPaid

LEMMA BoxStep ==
  ASSUME PickersFinite
  PROVE  LogInv /\ BoxInv /\ [FulfilmentNext]_pickVars => LogInv' /\ BoxInv'
<1> SUFFICES ASSUME LogInv, BoxInv, [FulfilmentNext]_pickVars PROVE BoxInv'
  BY LogStep
<1>1. PickingTyped' /\ PickingTyped
  BY LogStep DEF LogInv
<1>2. CASE UNCHANGED pickVars
  BY <1>1, <1>2, QuietSteps DEF pickVars
<1>3. ASSUME NEW o \in PickOrders, AddPickingJob(o) \/ PickingStalled(o) \/ PickingSlow(o)
      PROVE  BoxInv'
  <2>1. UNCHANGED <<pickings, pickRuns, picker>>
    BY <1>3 DEF AddPickingJob, PickingStalled, PickingSlow
  <2>2. \A q \in PickOrders : pickJob'[q].state = "completed" => pickJob[q].state = "completed"
    <3>1. CASE AddPickingJob(o)
      BY <1>1, <3>1 DEF AddPickingJob, PickingTyped, PickRecords
    <3>2. CASE PickingStalled(o) \/ PickingSlow(o)
      <4>1. pickJob' = [pickJob EXCEPT ![o] = AfterPickStall(pickJob[o])]
        BY <3>2 DEF PickingStalled, PickingSlow
      <4>2. AfterPickStall(pickJob[o]).state # "completed"
        BY <1>1, StallTyped DEF PickingTyped
      <4> QED BY <1>1, <4>1, <4>2 DEF PickingTyped
    <3> QED BY <1>3, <3>1, <3>2
  <2> QED BY <1>1, <2>1, <2>2, QuietSteps
<1>4. ASSUME NEW w \in Pickers, ReadVersion(w) \/ AppendInitiated(w) \/ AppendFailed(w)
                                \/ PickingError(w)
      PROVE  BoxInv'
  <2>1. UNCHANGED <<pickings, pickRuns, pickJob>>
    BY <1>4 DEF ReadVersion, AppendInitiated, AppendFailed, PickingError
  <2>2. ASSUME NEW v \in Pickers
        PROVE  \/ picker'[v] = picker[v]
               \/ /\ picker'[v].pc # "boxes"
                  /\ picker'[v].pc \in {"version", "event", "returned"} =>
                       /\ picker[v].pc \in {"version", "event", "returned"}
                       /\ picker'[v].order = picker[v].order
    <3>1. picker \in [Pickers -> PickerStates] /\ picker[w] \in PickerStates
      BY <1>1 DEF PickingTyped
    <3>2. CASE v # w
      BY <1>4, <3>1, <3>2 DEF ReadVersion, AppendInitiated, AppendFailed, PickingError
    <3>3. CASE v = w
      <4>1. CASE ReadVersion(w)
        BY <3>1, <3>3, <4>1 DEF ReadVersion, PickerStates
      <4>2. CASE AppendInitiated(w) \/ AppendFailed(w)
        BY <3>1, <3>3, <4>2 DEF AppendInitiated, AppendFailed, PickerStates
      <4>3. CASE PickingError(w)
        BY <3>1, <3>3, <4>3 DEF PickingError, PickerStates
      <4> QED BY <1>4, <4>1, <4>2, <4>3
    <3> QED BY <3>2, <3>3
  <2> QED BY <1>1, <2>1, <2>2, QuietSteps
<1>5. ASSUME NEW w \in Pickers, EndRun(w) \/ PickerDies(w) PROVE BoxInv'
  <2>1. UNCHANGED <<pickings, pickRuns>> /\ picker[w].pc # "idle" /\ SavedBehind(w)
    BY <1>5 DEF EndRun, PickerDies, BoxInv
  <2>2. \A v \in Pickers : picker'[v] \in {picker[v], RestingPicker}
    BY <1>1, <1>5 DEF EndRun, PickerDies, ProcessEnded, PickingTyped
  <2>3. ASSUME NEW q \in PickOrders, pickJob'[q].state = "completed"
        PROVE  pickJob[q].state = "completed" \/ AllSaved(q)
    <3>1. PICK o \in PickOrders : o = picker[w].order
      BY <1>1, <2>1 DEF PickingTyped, PickerStates
    <3>2. \/ pickJob' = pickJob
          \/ pickJob' = [pickJob EXCEPT ![o] = Ended(pickJob[o], picker[w].pc = "returned")]
      BY <1>5, <3>1 DEF EndRun, PickerDies
    <3>3. Ended(pickJob[o], picker[w].pc = "returned").state = "completed"
            => picker[w].pc = "returned"
      BY <1>1, EndedTyped DEF PickingTyped
    <3>4. picker[w].pc = "returned" => AllSaved(o)
      BY <2>1, <3>1 DEF SavedBehind
    <3> QED BY <1>1, <2>3, <3>2, <3>3, <3>4 DEF PickingTyped
  <2>4. ASSUME NEW v \in Pickers
        PROVE  \/ picker'[v] = picker[v]
               \/ /\ picker'[v].pc # "boxes"
                  /\ picker'[v].pc \in {"version", "event", "returned"} =>
                       /\ picker[v].pc \in {"version", "event", "returned"}
                       /\ picker'[v].order = picker[v].order
    BY <2>2, RestingTyped
  <2> QED BY <1>1, <2>1, <2>3, <2>4, QuietSteps
<1>6. ASSUME NEW w \in Pickers, NEW o \in PickOrders,
             RunPickingJob(w, o) \/ TakePickingJob(w, o)
      PROVE  BoxInv'
  BY <1>1, <1>6, BeginKeepsBoxes
<1>7. ASSUME NEW w \in Pickers, SaveBox(w) PROVE BoxInv'
  BY <1>1, <1>7, SaveKeepsBoxes
<1> QED BY <1>2, <1>3, <1>4, <1>5, <1>6, <1>7 DEF FulfilmentNext, PickStep

\* In one box only, an item is asked for as often as the box.
LEMMA OneBoxAsks ==
  ASSUME BoxInv, DistinctLines, NEW o \in PickOrders, NEW n \in DOMAIN OrderItems[o]
  PROVE  \E b \in Boxes(o) : PickingsOf(o, OrderItems[o][n]) = pickings[o][b]
<1> DEFINE x == OrderItems[o][n]
           f == [c \in Boxes(o) |-> IF x \in Range(BoxesOf[o][c]) THEN pickings[o][c] ELSE 0]
           z == [c \in Boxes(o) |-> 0]
<1>1. PICK b \in Boxes(o) : /\ x \in Range(BoxesOf[o][b])
                            /\ \A c \in Boxes(o) \ {b} : x \notin Range(BoxesOf[o][c])
  BY BoxOfItem DEF Boxes
<1>2. IsFiniteSet(Boxes(o)) /\ pickings[o] \in [Boxes(o) -> Nat]
  BY BoxesAreNumbers DEF BoxInv, PickingsTyped
<1>3. /\ f \in [Boxes(o) -> Int] /\ z \in [Boxes(o) -> Int]
      /\ f[b] = pickings[o][b] /\ z[b] = 0 /\ \A c \in Boxes(o) \ {b} : f[c] = z[c]
  BY <1>1, <1>2
<1>4. SumFunction(z) = 0
  BY <1>2, TotalZero
<1>5. PickingsOf(o, x) = SumFunction(f)
  BY DEF PickingsOf, Boxes
<1> HIDE DEF f, z, x
<1>6. SumFunction(f) = SumFunction(z) - z[b] + f[b]
  BY <1>2, <1>3, TotalChange
<1>7. SumFunction(f) = pickings[o][b]
  <2>1. pickings[o][b] \in Nat
    BY <1>2
  <2> QED BY <1>3, <1>4, <1>6, <2>1
<1> QED BY <1>5, <1>7 DEF x

LEMMA SumOfFlags ==
  ASSUME PickersFinite, NEW o, NEW b
  PROVE  SumFunction(YetToSave(o, b)) >= 0
<1> DEFINE z == [w \in Pickers |-> 0]
<1>1. z \in [Pickers -> Int] /\ \A w \in Pickers : z[w] <= YetToSave(o, b)[w]
  BY DEF YetToSave
<1>2. SumFunction(z) = 0
  BY TotalZero DEF PickersFinite
<1> HIDE DEF z
<1>3. SumFunction(z) <= SumFunction(YetToSave(o, b))
  BY <1>1, FlagsTyped, TotalAtMost DEF PickersFinite
<1>4. SumFunction(YetToSave(o, b)) \in Int
  BY FlagsTyped
<1> QED BY <1>2, <1>3, <1>4

\* The pickings of a completed job ask for every line of the order, and for none
\* more often than the processor ran (pickingQueueService.ts:67-108,
\* packingService.ts:160-184), for any number of orders, boxes and pickers.
THEOREM AllIsPicked ==
  ASSUME PickersFinite, DistinctLines
  PROVE  FulfilmentInit /\ [][FulfilmentNext]_pickVars => []EverythingPicked
<1>1. BoxInv => EverythingPicked
  <2> SUFFICES ASSUME BoxInv, NEW o \in PickOrders, pickJob[o].state = "completed",
                      NEW n \in DOMAIN OrderItems[o]
               PROVE  PickingsOf(o, OrderItems[o][n]) \in 1..pickRuns[o]
    BY DEF EverythingPicked
  <2>1. PICK b \in Boxes(o) : PickingsOf(o, OrderItems[o][n]) = pickings[o][b]
    BY OneBoxAsks
  <2>2. /\ pickings[o][b] >= 1 /\ pickings[o][b] \in Nat /\ pickRuns[o] \in Nat
        /\ pickings[o][b] + SumFunction(YetToSave(o, b)) <= pickRuns[o]
    BY DEF BoxInv, AllSaved, PickingsTyped, PickingTyped, PickingsPaid
  <2>3. SumFunction(YetToSave(o, b)) \in Int /\ SumFunction(YetToSave(o, b)) >= 0
    BY FlagsTyped, SumOfFlags
  <2> QED BY <2>1, <2>2, <2>3
<1>2. FulfilmentInit => LogInv /\ BoxInv
  BY BoxesStart
<1>3. LogInv /\ BoxInv /\ [FulfilmentNext]_pickVars => LogInv' /\ BoxInv'
  BY BoxStep
<1> QED BY <1>1, <1>2, <1>3, PTL

-----------------------------------------------------------------------------
(***************************************************************************)
(* Part 4: the types. A job that may still run has an attempt and a stall  *)
(* left, so that its counts stay within their bounds.                      *)
(***************************************************************************)
CountsFit(record) ==
  /\ record.attempts <= PickAttempts /\ record.stalls <= MaxPickStalls + 1
  /\ record.state \in {"none", "waiting", "active"} =>
       record.attempts < PickAttempts /\ record.stalls <= MaxPickStalls
JobsFit == \A o \in PickOrders : CountsFit(pickJob[o])

\* Bull's answers to a stall and to an end leave the counts within their bounds.
LEMMA CountsStayFit ==
  ASSUME NEW x \in PickRecords, CountsFit(x), x.state = "active", NEW ok \in BOOLEAN
  PROVE  CountsFit(AfterPickStall(x)) /\ CountsFit(Ended(x, ok))
<1>1. /\ PickAttempts \in Nat /\ MaxPickStalls \in Nat
      /\ x.attempts \in Nat /\ x.attempts < PickAttempts
      /\ x.stalls \in Nat /\ x.stalls <= MaxPickStalls
  BY FulfilmentAssumption DEF CountsFit, PickRecords
<1>2. CountsFit(AfterPickStall(x))
  <2>1. PICK s \in {"waiting", "failed"} :
          /\ AfterPickStall(x) = [x EXCEPT !.stalls = x.stalls + 1, !.state = s]
          /\ s = "waiting" => x.stalls < MaxPickStalls
    BY DEF AfterPickStall
  <2>2. /\ AfterPickStall(x).attempts = x.attempts /\ AfterPickStall(x).state = s
        /\ AfterPickStall(x).stalls = x.stalls + 1
    BY <2>1 DEF PickRecords
  <2> QED BY <1>1, <2>1, <2>2 DEF CountsFit
<1>3. CASE ok
  <2>1. /\ Ended(x, ok).attempts = x.attempts /\ Ended(x, ok).stalls = x.stalls
        /\ Ended(x, ok).state = "completed"
    BY <1>3 DEF Ended, PickRecords
  <2> QED BY <1>1, <1>2, <2>1 DEF CountsFit
<1>4. CASE ~ok
  <2>1. PICK s \in {"waiting", "failed"} :
          /\ Ended(x, ok) = [x EXCEPT !.attempts = x.attempts + 1, !.state = s]
          /\ s = "waiting" => x.attempts + 1 < PickAttempts
    BY <1>4 DEF Ended
  <2>2. /\ Ended(x, ok).attempts = x.attempts + 1 /\ Ended(x, ok).stalls = x.stalls
        /\ Ended(x, ok).state = s
    BY <2>1 DEF PickRecords
  <2> QED BY <1>1, <1>2, <2>1, <2>2 DEF CountsFit
<1> QED BY <1>3, <1>4

\* A job changes by a step of Bull's.
LEMMA JobChanges ==
  ASSUME PickingTyped, FulfilmentNext, NEW o \in PickOrders, pickJob'[o] # pickJob[o]
  PROVE  \/ /\ pickJob[o].state \in {"none", "waiting"}
            /\ \E s \in {"waiting", "active"} : pickJob'[o] = [pickJob[o] EXCEPT !.state = s]
         \/ /\ pickJob[o].state = "active"
            /\ \/ pickJob'[o] = AfterPickStall(pickJob[o])
               \/ \E ok \in BOOLEAN : pickJob'[o] = Ended(pickJob[o], ok)
<1>1. pickJob \in [PickOrders -> PickRecords]
  BY DEF PickingTyped
<1>2. ASSUME NEW q \in PickOrders, AddPickingJob(q)
      PROVE  /\ pickJob[o].state = "none"
             /\ pickJob'[o] = [pickJob[o] EXCEPT !.state = "waiting"]
  BY <1>1, <1>2 DEF AddPickingJob
<1>3. ASSUME NEW q \in PickOrders, PickingStalled(q) \/ PickingSlow(q)
      PROVE  pickJob[o].state = "active" /\ pickJob'[o] = AfterPickStall(pickJob[o])
  BY <1>1, <1>3 DEF PickingStalled, PickingSlow
<1>4. ASSUME NEW w \in Pickers, NEW q \in PickOrders, RunPickingJob(w, q) \/ TakePickingJob(w, q)
      PROVE  /\ pickJob[o].state = "waiting"
             /\ pickJob'[o] = [pickJob[o] EXCEPT !.state = "active"]
  BY <1>1, <1>4 DEF RunPickingJob, TakePickingJob
<1>5. ASSUME NEW w \in Pickers, EndRun(w)
      PROVE  /\ pickJob[o].state = "active"
             /\ \E ok \in BOOLEAN : pickJob'[o] = Ended(pickJob[o], ok)
  <2>1. /\ HasPickJob(w)
        /\ pickJob' = [pickJob EXCEPT ![picker[w].order] =
                         Ended(pickJob[picker[w].order], picker[w].pc = "returned")]
    BY <1>5 DEF EndRun
  <2>2. o = picker[w].order
    BY <1>1, <2>1
  <2> QED BY <1>1, <2>1, <2>2 DEF HasPickJob
<1>6. ASSUME NEW w \in Pickers, \/ SaveBox(w) \/ ReadVersion(w) \/ AppendInitiated(w)
                                \/ AppendFailed(w) \/ PickingError(w) \/ PickerDies(w)
      PROVE  FALSE
  BY <1>6 DEF SaveBox, ReadVersion, AppendInitiated, AppendFailed, PickingError, PickerDies
<1> QED BY <1>2, <1>3, <1>4, <1>5, <1>6 DEF FulfilmentNext, PickStep

LEMMA JobsStayFit ==
  ASSUME PickingTyped, JobsFit, [FulfilmentNext]_pickVars
  PROVE  JobsFit'
<1> SUFFICES ASSUME NEW o \in PickOrders, pickJob'[o] # pickJob[o]
             PROVE  CountsFit(pickJob'[o])
  BY DEF JobsFit
<1>1. FulfilmentNext
  BY DEF pickVars
<1>2. pickJob[o] \in PickRecords /\ CountsFit(pickJob[o])
  BY DEF PickingTyped, JobsFit
<1>3. CASE /\ pickJob[o].state \in {"none", "waiting"}
           /\ \E s \in {"waiting", "active"} : pickJob'[o] = [pickJob[o] EXCEPT !.state = s]
  <2>1. PICK s \in {"waiting", "active"} : pickJob'[o] = [pickJob[o] EXCEPT !.state = s]
    BY <1>3
  <2>2. /\ pickJob'[o].attempts = pickJob[o].attempts /\ pickJob'[o].state = s
        /\ pickJob'[o].stalls = pickJob[o].stalls
    BY <1>2, <2>1 DEF PickRecords
  <2> QED BY <1>2, <1>3, <2>2 DEF CountsFit
<1>4. CASE /\ pickJob[o].state = "active"
           /\ \/ pickJob'[o] = AfterPickStall(pickJob[o])
              \/ \E ok \in BOOLEAN : pickJob'[o] = Ended(pickJob[o], ok)
  BY <1>2, <1>4, CountsStayFit
<1> QED BY <1>1, <1>3, <1>4, JobChanges

\* The records of fulfilment keep their types; above all no box is saved more
\* often than the processor ran, and no job is tried or stalls more often than
\* Bull allows (pickingQueueService.ts:67-108, 190-221).
LEMMA FulfilmentTypes ==
  ASSUME PickersFinite, LogInv, BoxInv, JobsFit
  PROVE  FulfilmentTypeOK
<1>1. pickJob \in [PickOrders ->
        [state : {"none", "waiting", "active", "completed", "failed"},
         attempts : 0..PickAttempts, stalls : 0..MaxPickStalls + 1]]
  <2> SUFFICES ASSUME NEW o \in PickOrders
               PROVE  /\ pickJob[o].attempts \in 0..PickAttempts
                      /\ pickJob[o].stalls \in 0..MaxPickStalls + 1
    BY DEF LogInv, PickingTyped, PickRecords
  <2>1. pickJob[o] \in PickRecords /\ CountsFit(pickJob[o])
    BY DEF LogInv, PickingTyped, JobsFit
  <2> QED BY <2>1, FulfilmentAssumption DEF PickRecords, CountsFit
<1>2. ASSUME NEW o \in PickOrders PROVE pickings[o] \in [DOMAIN BoxesOf[o] -> 0..pickRuns[o]]
  <2>1. pickings[o] \in [Boxes(o) -> Nat] /\ pickRuns[o] \in Nat
    BY DEF BoxInv, PickingsTyped, PickingTyped
  <2>2. ASSUME NEW b \in Boxes(o) PROVE pickings[o][b] \in 0..pickRuns[o]
    <3>1. pickings[o][b] + SumFunction(YetToSave(o, b)) <= pickRuns[o]
      BY DEF BoxInv, PickingsPaid
    <3>2. SumFunction(YetToSave(o, b)) \in Int /\ SumFunction(YetToSave(o, b)) >= 0
      BY FlagsTyped, SumOfFlags
    <3> QED BY <2>1, <3>1, <3>2
  <2> QED BY <2>1, <2>2 DEF Boxes
<1>3. /\ picker \in [Pickers ->
            [pc : {"idle", "boxes", "version", "event", "failversion", "failevent",
                   "returned", "thrown"},
             order : PickOrders \cup {NoOrder}, run : Nat, box : Nat, version : Nat]]
      /\ log \in [PickOrders ->
           Seq([type : {"PICKING_INITIATED", "PICKING_FAILED"}, version : Nat \ {0}])]
      /\ together \subseteq PickOrders
  BY DEF LogInv, PickingTyped, PickerStates, PickEvents
<1> QED BY <1>1, <1>2, <1>3 DEF FulfilmentTypeOK

LEMMA JobsStartFit == FulfilmentInit => JobsFit
BY FulfilmentAssumption DEF FulfilmentInit, JobsFit, CountsFit

\* The same as a theorem of every behaviour, for any number of pickers.
THEOREM FulfilmentTyped ==
  ASSUME PickersFinite
  PROVE  FulfilmentInit /\ [][FulfilmentNext]_pickVars => []FulfilmentTypeOK
<1> DEFINE I == LogInv /\ BoxInv /\ JobsFit
<1>1. FulfilmentInit => I
  BY BoxesStart, JobsStartFit
<1>2. I /\ [FulfilmentNext]_pickVars => I'
  BY BoxStep, JobsStayFit DEF LogInv
<1>3. I => FulfilmentTypeOK
  BY FulfilmentTypes
<1> HIDE DEF I
<1> QED BY <1>1, <1>2, <1>3, PTL

=============================================================================
