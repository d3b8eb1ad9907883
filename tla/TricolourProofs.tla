-------------------------- MODULE TricolourProofs --------------------------
(***************************************************************************)
(* Theorems about Tricolour for every set of objects and upvalues, every   *)
(* choice of kinds and any number of finalizers.                           *)
(***************************************************************************)
EXTENDS Tricolour, TLAPS

USE ObjectsAssumption, UpValsAssumption, ClosedAssumption

-----------------------------------------------------------------------------
(* Marking and sweeping.                                                   *)

LEMMA MarkedType ==
  ASSUME TypeOK, NEW V
  PROVE  Marked(V) \in [Nodes -> Color] /\ ToVisit(V) \subseteq Objects
  BY DEF TypeOK, Marked, ToVisit, Whites, Color, Nodes

LEMMA SweptType ==
  ASSUME NEW S, NEW c \in [Nodes -> Color]
  PROVE  Swept(S, c) \in [Nodes -> Color]
  BY DEF Swept, Color

LEMMA MarkType ==
  ASSUME TypeOK, NEW V, Mark(V)
  PROVE  color' \in [Nodes -> Color] /\ gray' \subseteq Nodes
  BY MarkedType DEF Mark, TypeOK, Nodes

LEMMA BarrierType ==
  ASSUME TypeOK, NEW o \in Objects, NEW v, Barrier(o, v) \/ UpvalBarrier(v)
  PROVE  color' \in [Nodes -> Color] /\ gray' \subseteq Nodes
  <1>1. CASE Mark({v})
    BY <1>1, MarkType
  <1>2. CASE color' = [color EXCEPT ![o] = "white"] /\ gray' = gray
    BY <1>2 DEF TypeOK, Color
  <1>3. CASE UNCHANGED <<color, gray>>
    BY <1>3 DEF TypeOK
  <1> QED BY <1>1, <1>2, <1>3 DEF Barrier, UpvalBarrier

LEMMA BarrierBackType ==
  ASSUME TypeOK, NEW o \in Objects, NEW V, BarrierBack(o, V)
  PROVE  color' \in [Nodes -> Color] /\ grayagain' \subseteq Nodes
  <1>1. CASE color[o] = "black" /\ Whites(V) # {}
    BY <1>1 DEF BarrierBack, TypeOK, Color, Nodes
  <1>2. CASE ~(color[o] = "black" /\ Whites(V) # {})
    BY <1>2 DEF BarrierBack, TypeOK
  <1> QED BY <1>1, <1>2

LEMMA ClosingType ==
  ASSUME TypeOK, NEW D \in SUBSET Objects, Closing(D)
  PROVE  /\ at' \in [UpVals -> Objects \union {Closed}]
         /\ cell' \in [UpVals -> Value]
         /\ \A u \in UpVals : at'[u] = Closed \/ at'[u] \in Threads
  <1>1. \A u \in UpVals : at[u] \in D => val[at[u]] \in Value
    BY DEF TypeOK
  <1>2. cell' \in [UpVals -> Value]
    BY <1>1 DEF Closing, TypeOK, Value
  <1>3. at' \in [UpVals -> Objects \union {Closed}]
    BY DEF Closing, TypeOK
  <1>4. \A u \in UpVals : at'[u] = Closed \/ at'[u] \in Threads
    BY DEF Closing, TypeOK
  <1> QED BY <1>2, <1>3, <1>4

LEMMA FreedType ==
  ASSUME NEW S \in SUBSET Objects, NEW c
  PROVE  Freed(S, c) \in SUBSET Objects
  BY DEF Freed

LEMMA FreeType ==
  ASSUME TypeOK, NEW D \in SUBSET Objects, Free(D)
  PROVE  /\ key' \in [Objects -> Value] /\ val' \in [Objects -> Value]
         /\ up' \in [Objects -> UpVals \union {None}]
         /\ at' \in [UpVals -> Objects \union {Closed}]
         /\ cell' \in [UpVals -> Value]
         /\ touched' \subseteq UpVals
         /\ \A u \in UpVals : at'[u] = Closed \/ at'[u] \in Threads
  BY ClosingType DEF Free, Emptied, TypeOK, Value

-----------------------------------------------------------------------------
(* Types.                                                                  *)

LEMMA ProgramTypes ==
  ASSUME TypeOK, Program
  PROVE  TypeOK'
  <1>1. ASSUME NEW o \in Objects, NewObject(o) PROVE TypeOK'
    BY <1>1 DEF NewObject, TypeOK, Color, Value, Nodes, Threads
  <1>2. ASSUME NEW o \in Objects, NEW u \in UpVals, NewClosure(o, u) PROVE TypeOK'
    BY <1>2 DEF NewClosure, TypeOK, Color, Value, Nodes, Threads, OfKind
  <1>3. ASSUME NEW o \in stack, NEW v \in Slots(o), Load(o, v) PROVE TypeOK'
    <2>1. o \in Objects
      BY <1>3 DEF TypeOK
    <2>2. v \in Value
      BY <1>3, <2>1 DEF TypeOK, Slots, Read, Value, Weak, Threads
    <2> QED BY <1>3, <2>2 DEF Load, TypeOK, heap, Threads, Value
  <1>4. ASSUME NEW o \in stack, Drop(o) PROVE TypeOK'
    BY <1>4 DEF Drop, TypeOK, heap, Threads
  <1>5. ASSUME NEW o \in stack, NEW S \in SUBSET Unswept, SetFinalizer(o, S) PROVE TypeOK'
    <2>1. o \in Objects
      BY DEF TypeOK
    <2>2. CASE gcstate = "sweep"
      BY <1>5, <2>1, <2>2, FreeType, FreedType, SweptType DEF SetFinalizer, TypeOK, Unswept, Threads
    <2>3. CASE gcstate # "sweep"
      BY <1>5, <2>1, <2>3 DEF SetFinalizer, TypeOK, Threads
    <2> QED BY <2>2, <2>3
  <1>6. ASSUME NEW o \in stack, NEW k \in stack \union {None}, NEW v \in stack \union {None},
               StoreTable(o, k, v)
        PROVE  TypeOK'
    <2>1. o \in Objects /\ k \in Value /\ v \in Value
      BY DEF TypeOK, Value
    <2> QED BY <1>6, <2>1, BarrierBackType DEF StoreTable, TypeOK, Threads
  <1>7. ASSUME NEW o \in stack, NEW v \in stack \union {None},
               StoreBox(o, v) \/ StoreThread(o, v) \/ SetUpval(o, v)
        PROVE  TypeOK'
    <2>1. o \in Objects /\ v \in Value
      BY DEF TypeOK, Value
    <2>2. CASE StoreBox(o, v)
      BY <2>1, <2>2, BarrierType DEF StoreBox, TypeOK, Threads
    <2>3. CASE StoreThread(o, v)
      BY <2>1, <2>3 DEF StoreThread, TypeOK, Threads
    <2>4. CASE SetUpval(o, v)
      BY <2>1, <2>4, BarrierType DEF SetUpval, TypeOK, Threads
    <2> QED BY <1>7, <2>2, <2>3, <2>4
  <1>8. ASSUME NEW o \in stack, NEW p \in OfKind({"closure"}), UpvalueJoin(o, p) PROVE TypeOK'
    <2>1. o \in Objects /\ p \in Objects
      BY DEF TypeOK, OfKind
    <2>2. up[p] \in UpVals
      BY <1>8, <2>1 DEF UpvalueJoin, TypeOK
    <2>3. cell' \in [UpVals -> Value] /\ up' \in [Objects -> UpVals \union {None}]
      BY <1>8, <2>1, <2>2 DEF UpvalueJoin, TypeOK, Value
    <2>4. CASE at[up[p]] = Closed
      BY <1>8, <2>1, <2>3, <2>4, BarrierType DEF UpvalueJoin, TypeOK, Threads
    <2>5. CASE at[up[p]] # Closed
      BY <1>8, <2>1, <2>2, <2>3, <2>5 DEF UpvalueJoin, TypeOK, Threads
    <2> QED BY <2>4, <2>5
  <1>9. ASSUME NEW o \in stack, CloseUpval(o) PROVE TypeOK'
    <2>1. o \in Objects /\ {o} \in SUBSET Objects
      BY DEF TypeOK
    <2>2. color' \in [Nodes -> Color] /\ gray' \subseteq Nodes
      BY <1>9, <2>1, BarrierType DEF CloseUpval, TypeOK
    <2> QED BY <1>9, <2>1, <2>2, ClosingType DEF CloseUpval, TypeOK, Threads
  <1> QED BY <1>1, <1>2, <1>3, <1>4, <1>5, <1>6, <1>7, <1>8, <1>9 DEF Program

LEMMA CollectTypes ==
  ASSUME TypeOK, Collect
  PROVE  TypeOK'
  <1>1. CASE Restart
    BY <1>1, MarkedType DEF Restart, TypeOK, heap, Color, Nodes, Threads
  <1>2. ASSUME NEW o \in gray, Propagate(o) PROVE TypeOK'
    <2>1. o \in Nodes
      BY DEF TypeOK
    <2>2. color' \in [Nodes -> Color] /\ gray' \subseteq Nodes
      BY <1>2, <2>1, MarkedType DEF Propagate, TypeOK, Color, Nodes
    <2> QED BY <1>2, <2>1, <2>2 DEF Propagate, TypeOK, heap, OpenOf, Threads
  <1>3. CASE Atomic
    <2>1. PICK P \in Propagations : \E R \in {Reached(P)} : \E F \in {ToFinalize(R)} :
            \E M \in {Resurrected(R, F)}, S \in AtMostOne : EndAtomic(P, R, F, M, S)
      BY <1>3 DEF Atomic
    <2>2. \A M : Flipped(M) \in [Nodes -> Color]
      BY DEF Flipped, Color
    <2>3. TouchedBy(P) \subseteq UpVals
      BY DEF TouchedBy, OpenOf, TypeOK
    <2>4. \A M : KeptThreads(M) \subseteq Threads
      BY DEF KeptThreads
    <2>5. \A R : ToFinalize(R) \subseteq Objects
      BY DEF ToFinalize, TypeOK
    <2> QED BY <1>3, <2>1, <2>2, <2>3, <2>4, <2>5, SweptType, ClosingType, FreedType
            DEF Atomic, AtMostOne, EndAtomic, TypeOK, Emptied, Value, Threads
  <1>4. CASE Abandon
    BY <1>4, SweptType DEF Abandon, TypeOK, heap, Threads
  <1>5. ASSUME NEW S \in SUBSET Unswept, Sweep(S) PROVE TypeOK'
    BY <1>5, SweptType, FreeType, FreedType DEF Sweep, TypeOK, Unswept, Threads
  <1>6. CASE SweepEnd
    BY <1>6 DEF SweepEnd, TypeOK, heap, Color, Nodes, Threads
  <1>7. CASE CycleEnd
    BY <1>7 DEF CycleEnd, TypeOK, heap, Threads
  <1>8. ASSUME NEW o \in tobefnz, CallFinalizer(o) PROVE TypeOK'
    BY <1>8 DEF CallFinalizer, TypeOK, heap, Color, Threads
  <1> QED BY <1>1, <1>2, <1>3, <1>4, <1>5, <1>6, <1>7, <1>8 DEF Collect

\* The heap and the collector's lists keep their types, whatever the program does.
THEOREM TypeCorrect == Spec => []TypeOK
  <1>1. Init => TypeOK
    BY KindAssumption DEF Init, TypeOK, Value, Color, Nodes, Threads
  <1>2. TypeOK /\ [Next]_vars => TypeOK'
    <2>1. CASE UNCHANGED vars
      BY <2>1 DEF vars, TypeOK, Threads
    <2> QED BY <2>1, ProgramTypes, CollectTypes DEF Next
  <1> QED BY <1>1, <1>2, PTL DEF Spec

-----------------------------------------------------------------------------
(* The inductive invariant.                                                *)

\* Which slots an object has.
SlotKinds ==
  \A o \in Objects :
    /\ key[o] # None => kind[o] \in Weak
    /\ val[o] # None => kind[o] \in Weak \union {"table", "box", "thread"}
    /\ up[o] # None => kind[o] = "closure"

\* An upvalue is open in a thread that is there; one without users has no value.
OpenAllocated == \A u \in UpVals : at[u] = Closed \/ at[u] \in Allocated
UnusedEmpty == \A u \in UpVals : Users(u) = {} => cell[u] = None

\* While marking, the main thread, threads and weak tables are never black, and a
\* gray object is in one list.
GrayNodes ==
  KeepInvariant =>
    /\ color[Main] = "gray"
    /\ \A o \in Nodes : color[o] = "black" => ~StaysGray(o)
    /\ gray \intersect grayagain = {}

HeapInv == NoDangling /\ UpvalThreadsListed /\ SlotKinds /\ OpenAllocated /\ UnusedEmpty
ColorInv == BlackToWhite /\ GrayListed /\ CycleColors /\ GrayNodes
IInv == TypeOK /\ HeapInv /\ ColorInv

\* Marking and barriers change nothing about which objects are live.
SameLive == Live' = Live /\ Allocated' = Allocated

LEMMA MarkLive ==
  ASSUME TypeOK, CycleColors, gcstate # "sweep", NEW V, Mark(V)
  PROVE  SameLive
  BY DEF SameLive, Live, Allocated, TypeOK, CycleColors, Mark, Marked, Whites, Nodes

LEMMA BarrierLive ==
  ASSUME TypeOK, CycleColors, NEW o \in Live, NEW v, Barrier(o, v) \/ UpvalBarrier(v)
  PROVE  SameLive
  <1>1. CASE gcstate # "sweep" /\ Mark({v})
    BY <1>1, MarkLive
  <1>2. CASE color' = [color EXCEPT ![o] = "white"]
    BY <1>2 DEF SameLive, Live, Allocated, TypeOK, Nodes
  <1>3. CASE UNCHANGED color
    BY <1>3 DEF SameLive, Live, Allocated
  <1> QED BY <1>1, <1>2, <1>3 DEF Barrier, UpvalBarrier, KeepInvariant

LEMMA BarrierBackLive ==
  ASSUME TypeOK, NEW o \in Live, NEW V, BarrierBack(o, V)
  PROVE  SameLive
  <1>1. CASE color' = [color EXCEPT ![o] = "gray"]
    BY <1>1 DEF SameLive, Live, Allocated, TypeOK, Nodes
  <1>2. CASE UNCHANGED color
    BY <1>2 DEF SameLive, Live, Allocated
  <1> QED BY <1>1, <1>2 DEF BarrierBack

\* The objects in D are freed and the entries of the tables in C cleared: what
\* stays live keeps a sound heap if it only refers to what stays live.
LEMMA FreedHeap ==
  ASSUME TypeOK, SlotKinds, OpenAllocated, UnusedEmpty, kind' = kind,
         NEW D \in SUBSET Allocated, Allocated' = Allocated \ D,
         NEW C \in SUBSET Objects, C \intersect Threads = {},
         key' = Emptied(key, C \union D), val' = Emptied(val, C \union D),
         up' = Emptied(up, D), Closing(D),
         stack' \union finobj' \union tobefnz' \subseteq Live',
         \A o \in Live' : o \in C \/ {key[o], val[o]} \subseteq Live' \union {None},
         \A o \in Live' : up[o] # None => Read(up[o]) \in Live' \union {None},
         twups' \subseteq Live',
         \A u \in UpVals : at[u] \in Live' => at[u] \in twups'
  PROVE  HeapInv'
  <1>1. Live' \subseteq Objects /\ Live' \intersect D = {}
    BY DEF Live, Allocated
  <1>2. SlotKinds'
    BY DEF SlotKinds, Emptied
  <1>3. OpenAllocated'
    BY DEF OpenAllocated, Closing
  <1>4. \A u \in UpVals : Users(u)' = Users(u) \ D
    BY DEF Users, Emptied, Allocated
  <1>5. UnusedEmpty'
    <2> SUFFICES ASSUME NEW u \in UpVals, Users(u)' = {} PROVE cell'[u] = None
      BY DEF UnusedEmpty
    <2>1. Users(u) \subseteq D
      BY <1>4
    <2> QED BY <2>1 DEF Closing
  <1>6. UpvalThreadsListed'
    BY <1>1 DEF UpvalThreadsListed, Closing
  <1>7. ASSUME NEW o \in Live', up'[o] # None PROVE ReadsLive(up[o])'
    <2>1. o \in Objects /\ o \notin D /\ up'[o] = up[o] /\ up[o] \in UpVals /\ o \in Users(up[o])
      BY <1>1, <1>7 DEF Emptied, TypeOK, Users, Live, Allocated
    <2> DEFINE u == up[o]
    <2>0. Closed \notin D
      BY DEF Allocated
    <2>2. cell'[u] = IF at[u] \in D THEN val[at[u]] ELSE cell[u]
      BY <2>1 DEF Closing
    <2>3. at'[u] = IF at[u] \in D THEN Closed ELSE at[u]
      BY <2>1 DEF Closing
    <2>4. CASE at[u] \in D
      BY <1>7, <2>0, <2>1, <2>2, <2>3, <2>4 DEF ReadsLive, Read
    <2>5. CASE at[u] = Closed
      BY <1>7, <2>0, <2>1, <2>2, <2>3, <2>5 DEF ReadsLive, Read
    <2>6. CASE at[u] \notin D \union {Closed}
      <3>1. at[u] \in Threads /\ at[u] \notin C \union D
        BY <2>1, <2>6 DEF TypeOK
      <3>2. val'[at[u]] = val[at[u]]
        BY <3>1 DEF Emptied, Threads
      <3> QED BY <1>7, <2>1, <2>3, <2>6, <3>2 DEF ReadsLive, Read
    <2> QED BY <2>4, <2>5, <2>6
  <1>8. NoDangling'
    BY <1>1, <1>7 DEF NoDangling, Emptied
  <1> QED BY <1>2, <1>3, <1>5, <1>6, <1>8 DEF HeapInv

\* Sweeping the objects in T frees the dead ones among S.
LEMMA SweepHeap ==
  ASSUME TypeOK, HeapInv, kind' = kind, twups' = twups,
         NEW S \in SUBSET Objects, NEW o \in Live \union S,
         color' = Swept(S \union {o}, color), Free(Freed(S, color)),
         stack' \union finobj' \union tobefnz' \subseteq Live
  PROVE  HeapInv'
  <1> DEFINE D == Freed(S, color)
  <1>1. D \in SUBSET Allocated
    BY DEF Freed, Allocated
  <1>2. Allocated' = Allocated \ D /\ Live' = Live
    BY DEF Allocated, Live, Swept, Freed, TypeOK, Nodes
  <1>3. key' = Emptied(key, {} \union D) /\ val' = Emptied(val, {} \union D)
    BY DEF Free, Emptied
  <1>4. up' = Emptied(up, D) /\ Closing(D)
    BY DEF Free
  <1>5. \A p \in Live' : /\ p \in {} \/ {key[p], val[p]} \subseteq Live' \union {None}
                         /\ up[p] # None => Read(up[p]) \in Live' \union {None}
    BY <1>2 DEF HeapInv, NoDangling, ReadsLive
  <1>6. twups' \subseteq Live' /\ \A u \in UpVals : at[u] \in Live' => at[u] \in twups'
    BY <1>2 DEF HeapInv, UpvalThreadsListed
  <1>7. {} \in SUBSET Objects /\ {} \intersect Threads = {}
    OBVIOUS
  <1>8. SlotKinds /\ OpenAllocated /\ UnusedEmpty
    BY DEF HeapInv
  <1>9. stack' \union finobj' \union tobefnz' \subseteq Live'
    BY <1>2
  <1> HIDE DEF D
  <1> QED BY <1>1, <1>2, <1>3, <1>4, <1>5, <1>6, <1>7, <1>8, <1>9, FreedHeap

LEMMA ProgramHeap ==
  ASSUME IInv, Program
  PROVE  HeapInv'
  <1> USE DEF IInv, HeapInv, ColorInv
  <1>0. stack \subseteq Live /\ Live \subseteq Allocated /\ Allocated \subseteq Objects
    BY DEF NoDangling, Live, Allocated
  <1>1. ASSUME NEW o \in Objects, NewObject(o) PROVE HeapInv'
    <2>1. Live' = Live \union {o} /\ Allocated' = Allocated \union {o}
      BY <1>1 DEF NewObject, Live, Allocated, TypeOK, Nodes
    <2>2. SlotKinds'
      BY <1>1 DEF NewObject, SlotKinds, TypeOK
    <2>3. OpenAllocated' /\ UpvalThreadsListed'
      BY <1>1, <2>1 DEF NewObject, OpenAllocated, UpvalThreadsListed, Allocated, Live
    <2>4. up[o] = None
      BY <1>1 DEF NewObject, SlotKinds
    <2>5. UnusedEmpty'
      BY <1>1, <2>1, <2>4 DEF NewObject, UnusedEmpty, Users
    <2>6. NoDangling'
      BY <1>1, <2>1, <2>4 DEF NewObject, NoDangling, ReadsLive, Read, OpenAllocated, TypeOK
    <2> QED BY <2>2, <2>3, <2>5, <2>6
  <1>2. ASSUME NEW o \in Objects, NEW u \in UpVals, NewClosure(o, u) PROVE HeapInv'
    <2>1. Live' = Live \union {o} /\ Allocated' = Allocated \union {o} /\ o \notin Allocated
      BY <1>2 DEF NewClosure, Live, Allocated, TypeOK, Nodes
    <2>2. /\ \/ /\ u \in Unused \/ \E p \in OfKind({"closure"}) : up[p] = u
                /\ UNCHANGED <<at, touched, twups>>
             \/ \E th \in OfKind({"thread"}) :
                  \/ u \in OpenIn(th) /\ UNCHANGED <<at, touched, twups>>
                  \/ /\ u \in Unused
                     /\ at' = [at EXCEPT ![u] = th]
                     /\ twups' = twups \union {th}
          /\ UNCHANGED <<kind, key, val, cell>>
          /\ up' = [up EXCEPT ![o] = u] /\ stack' = stack \union {o}
          /\ finobj' = finobj /\ tobefnz' = tobefnz /\ kind[o] = "closure"
      BY <1>2 DEF NewClosure
    <2>3. SlotKinds' /\ key[o] = None /\ val[o] = None
      BY <2>2 DEF SlotKinds, TypeOK, Weak
    <2>4. OpenAllocated'
      BY <1>0, <2>1, <2>2 DEF OpenAllocated, TypeOK, OfKind
    <2>5. UpvalThreadsListed'
      <3>1. \A w \in UpVals : at[w] # o
        BY <2>1 DEF OpenAllocated, TypeOK
      <3> QED BY <1>0, <2>1, <2>2, <3>1 DEF UpvalThreadsListed, TypeOK, OfKind
    <2>6. UnusedEmpty'
      BY <2>1, <2>2 DEF UnusedEmpty, Users, TypeOK
    <2>7. ReadsLive(u)'
      <3>1. CASE u \in Unused /\ UNCHANGED at
        BY <2>2, <3>1 DEF Unused, UnusedEmpty, ReadsLive, Read
      <3>2. ASSUME NEW p \in OfKind({"closure"}), up[p] = u, UNCHANGED at PROVE ReadsLive(u)'
        BY <1>0, <2>1, <2>2, <3>2 DEF OfKind, NoDangling, ReadsLive, Read
      <3>3. ASSUME NEW th \in OfKind({"thread"}), at'[u] = th PROVE ReadsLive(u)'
        BY <1>0, <2>1, <2>2, <3>3 DEF OfKind, NoDangling, ReadsLive, Read
      <3> QED BY <2>2, <3>1, <3>2, <3>3 DEF OpenIn, TypeOK
    <2>8. ASSUME NEW p \in Live, up[p] # None PROVE ReadsLive(up[p])'
      <3>1. up[p] \in UpVals /\ p \in Users(up[p])
        BY <1>0, <2>8 DEF TypeOK, Users
      <3>2. at'[up[p]] = at[up[p]]
        BY <2>2, <3>1 DEF Unused, TypeOK
      <3>3. up'[p] = up[p]
        BY <1>0, <2>1, <2>2 DEF TypeOK
      <3> QED BY <2>1, <2>2, <2>8, <3>2, <3>3 DEF NoDangling, ReadsLive, Read
    <2>9. NoDangling'
      BY <1>0, <2>1, <2>2, <2>3, <2>7, <2>8 DEF NoDangling, TypeOK
    <2> QED BY <2>3, <2>4, <2>5, <2>6, <2>9
  <1>3. ASSUME NEW o \in stack, NEW v \in Slots(o), Load(o, v) PROVE HeapInv'
    <2>1. v \in Live
      BY <1>3 DEF Load, NoDangling, ReadsLive, Slots
    <2>2. SameLive
      BY <1>3 DEF Load, SameLive, Live, Allocated
    <2> QED BY <1>3, <2>1, <2>2 DEF Load, SameLive, heap, SlotKinds, OpenAllocated, UpvalThreadsListed,
              UnusedEmpty, Users, NoDangling, ReadsLive, Read
  <1>4. ASSUME NEW o \in stack, Drop(o) PROVE HeapInv'
    <2>1. SameLive
      BY <1>4 DEF Drop, SameLive, Live, Allocated
    <2> QED BY <1>4, <2>1 DEF Drop, SameLive, heap, SlotKinds, OpenAllocated, UpvalThreadsListed,
              UnusedEmpty, Users, NoDangling, ReadsLive, Read
  <1>5. ASSUME NEW o \in stack, NEW S \in SUBSET Unswept, SetFinalizer(o, S) PROVE HeapInv'
    <2>1. S \in SUBSET Objects /\ o \in Live
      BY <1>0 DEF Unswept
    <2>2. finobj' \union tobefnz' \union stack' \subseteq Live
      BY <1>0, <1>5 DEF SetFinalizer, NoDangling
    <2>3. CASE gcstate = "sweep"
      BY <1>5, <2>1, <2>2, <2>3, SweepHeap DEF SetFinalizer
    <2>4. CASE gcstate # "sweep"
      <3>1. SameLive
        BY <1>5, <2>4 DEF SetFinalizer, SameLive, Live, Allocated
      <3> QED BY <1>5, <2>2, <2>4, <3>1 DEF SetFinalizer, SameLive, SlotKinds, OpenAllocated,
                UpvalThreadsListed, UnusedEmpty, Users, NoDangling, ReadsLive, Read
    <2> QED BY <2>3, <2>4
  <1>6. ASSUME NEW o \in stack, NEW k \in stack \union {None}, NEW v \in stack \union {None},
               StoreTable(o, k, v)
        PROVE  HeapInv'
    <2>1. SameLive /\ o \in Live
      BY <1>0, <1>6, BarrierBackLive DEF StoreTable
    <2>2. SlotKinds' /\ OpenAllocated' /\ UpvalThreadsListed' /\ UnusedEmpty'
      BY <1>6, <2>1 DEF StoreTable, SameLive, SlotKinds, OpenAllocated, UpvalThreadsListed,
         UnusedEmpty, Users, TypeOK
    <2>3. NoDangling'
      BY <1>0, <1>6, <2>1 DEF StoreTable, SameLive, NoDangling, ReadsLive, Read, TypeOK
    <2> QED BY <2>2, <2>3
  <1>7. ASSUME NEW o \in stack, NEW v \in stack \union {None},
               StoreBox(o, v) \/ StoreThread(o, v)
        PROVE  HeapInv'
    <2>1. SameLive /\ o \in Live
      <3>1. CASE StoreBox(o, v)
        BY <1>0, <3>1, BarrierLive DEF StoreBox
      <3>2. CASE StoreThread(o, v)
        BY <1>0, <3>2 DEF StoreThread, SameLive, Live, Allocated
      <3> QED BY <1>7, <3>1, <3>2
    <2>2. /\ val' = [val EXCEPT ![o] = v] /\ kind[o] \in {"box", "thread"}
          /\ UNCHANGED <<kind, key, up, at, cell, stack, twups, finobj, tobefnz>>
      BY <1>7 DEF StoreBox, StoreThread
    <2>3. SlotKinds' /\ OpenAllocated' /\ UpvalThreadsListed' /\ UnusedEmpty'
      BY <2>1, <2>2 DEF SameLive, SlotKinds, OpenAllocated, UpvalThreadsListed,
         UnusedEmpty, Users, TypeOK
    <2>4. NoDangling'
      BY <1>0, <2>1, <2>2 DEF SameLive, NoDangling, ReadsLive, Read, TypeOK
    <2> QED BY <2>3, <2>4
  <1>8. ASSUME NEW o \in stack, NEW v \in stack \union {None}, SetUpval(o, v) PROVE HeapInv'
    <2>1. o \in Live /\ up[o] \in UpVals /\ o \in Users(up[o])
      BY <1>0, <1>8 DEF SetUpval, TypeOK, Users
    <2>2. SameLive
      <3>1. CASE UpvalBarrier(v)
        BY <1>0, <3>1, BarrierLive
      <3>2. CASE UNCHANGED color
        BY <3>2 DEF SameLive, Live, Allocated
      <3> QED BY <1>8, <3>1, <3>2 DEF SetUpval
    <2>3. /\ \/ at[up[o]] = Closed /\ cell' = [cell EXCEPT ![up[o]] = v] /\ val' = val
             \/ /\ at[up[o]] \in Threads /\ cell' = cell
                /\ val' = [val EXCEPT ![at[up[o]]] = v]
          /\ UNCHANGED <<kind, key, up, at, stack, twups, finobj, tobefnz>>
      BY <1>8, <2>1 DEF SetUpval, TypeOK
    <2>4. SlotKinds'
      BY <2>3 DEF SlotKinds, Threads, TypeOK
    <2>5. OpenAllocated' /\ UpvalThreadsListed'
      BY <2>2, <2>3 DEF SameLive, OpenAllocated, UpvalThreadsListed
    <2>6. UnusedEmpty'
      BY <2>1, <2>2, <2>3 DEF SameLive, UnusedEmpty, Users, TypeOK
    <2>7. NoDangling'
      BY <1>0, <2>2, <2>3 DEF SameLive, NoDangling, ReadsLive, Read, TypeOK
    <2> QED BY <2>4, <2>5, <2>6, <2>7
  <1>9. ASSUME NEW o \in stack, NEW p \in OfKind({"closure"}), UpvalueJoin(o, p) PROVE HeapInv'
    <2>1. /\ o \in Live /\ p \in Live /\ up[p] \in UpVals
          /\ up[p] = up[o] => Users(up[o]) # {o}
      BY <1>0, <1>9 DEF UpvalueJoin, OfKind, TypeOK
    <2>2. SameLive
      <3>1. CASE UpvalBarrier(cell[up[p]])
        BY <2>1, <3>1, BarrierLive
      <3>2. CASE UNCHANGED color
        BY <3>2 DEF SameLive, Live, Allocated
      <3> QED BY <1>9, <3>1, <3>2 DEF UpvalueJoin
    <2>3. /\ up' = [up EXCEPT ![o] = up[p]] /\ kind[o] = "closure"
          /\ cell' = IF Users(up[o]) = {o} THEN [cell EXCEPT ![up[o]] = None] ELSE cell
          /\ UNCHANGED <<kind, key, val, at, stack, twups, finobj, tobefnz>>
      BY <1>9 DEF UpvalueJoin
    <2>4. SlotKinds' /\ OpenAllocated' /\ UpvalThreadsListed'
      BY <2>2, <2>3 DEF SlotKinds, SameLive, OpenAllocated, UpvalThreadsListed, TypeOK
    <2>5. UnusedEmpty'
      <3> SUFFICES ASSUME NEW w \in UpVals, Users(w)' = {} PROVE cell'[w] = None
        BY DEF UnusedEmpty
      <3>1. Users(w) \ {o} \subseteq Users(w)'
        BY <1>0, <2>2, <2>3 DEF Users, SameLive, TypeOK
      <3>2. CASE o \in Users(w)
        BY <2>3, <3>1, <3>2 DEF Users, TypeOK
      <3>3. CASE o \notin Users(w)
        BY <2>3, <3>1, <3>3 DEF UnusedEmpty, TypeOK
      <3> QED BY <3>2, <3>3
    <2>6. \A q \in Live : up'[q] # None => cell'[up'[q]] = cell[up'[q]]
      <3> SUFFICES ASSUME NEW q \in Live, up'[q] # None PROVE cell'[up'[q]] = cell[up'[q]]
        OBVIOUS
      <3>1. CASE q = o
        BY <1>0, <2>1, <2>3, <3>1 DEF TypeOK
      <3>2. CASE q # o
        BY <1>0, <2>1, <2>3, <3>2 DEF TypeOK, Users
      <3> QED BY <3>1, <3>2
    <2>7. \A q \in Live : up'[q] # None => Read(up'[q]) \in Live \union {None}
      BY <1>0, <2>1, <2>3 DEF NoDangling, ReadsLive, TypeOK
    <2>8. NoDangling'
      BY <2>2, <2>3, <2>6, <2>7 DEF SameLive, NoDangling, ReadsLive, Read
    <2> QED BY <2>4, <2>5, <2>8
  <1>10. ASSUME NEW o \in stack, CloseUpval(o) PROVE HeapInv'
    <2>1. SameLive /\ o \in Live
      <3>1. CASE UpvalBarrier(val[o])
        BY <1>0, <3>1, BarrierLive
      <3>2. CASE UNCHANGED color
        BY <1>0, <3>2 DEF SameLive, Live, Allocated
      <3> QED BY <1>10, <3>1, <3>2 DEF CloseUpval
    <2>2. up[o] = None
      BY <1>0, <1>10 DEF CloseUpval, OpenIn, TypeOK, SlotKinds, Threads
    <2>3. \A u \in UpVals : Users(u) \subseteq {o} <=> Users(u) = {}
      BY <2>2 DEF Users
    <2>4. /\ at' = [u \in UpVals |-> IF at[u] = o THEN Closed ELSE at[u]]
          /\ cell' = [u \in UpVals |-> IF Users(u) = {} THEN None
                                       ELSE IF at[u] = o THEN val[at[u]] ELSE cell[u]]
      BY <1>10, <2>3 DEF CloseUpval, Closing
    <2>5. UNCHANGED <<kind, key, val, up, stack, twups, finobj, tobefnz>>
      BY <1>10 DEF CloseUpval
    <2>6. SlotKinds' /\ OpenAllocated' /\ UpvalThreadsListed' /\ UnusedEmpty'
      BY <1>0, <2>1, <2>4, <2>5 DEF SlotKinds, SameLive, OpenAllocated, UpvalThreadsListed,
         UnusedEmpty, Users
    <2>7. ASSUME NEW q \in Live, up[q] # None PROVE ReadsLive(up[q])'
      <3>1. up[q] \in UpVals /\ Users(up[q]) # {}
        BY <1>0, <2>7 DEF TypeOK, Users
      <3>2. Read(up[q])' = Read(up[q])
        BY <1>0, <2>4, <2>5, <3>1 DEF Read
      <3> QED BY <2>1, <2>7, <3>2 DEF NoDangling, ReadsLive, SameLive
    <2>8. NoDangling'
      BY <2>1, <2>5, <2>7 DEF NoDangling, SameLive
    <2> QED BY <2>6, <2>8
  <1> QED BY <1>1, <1>2, <1>3, <1>4, <1>5, <1>6, <1>7, <1>8, <1>9, <1>10 DEF Program

-----------------------------------------------------------------------------
(* What marking computes.                                                  *)

\* MarkAll is closed: it is the least of the closed sets.
LEMMA MarkAllClosed ==
  ASSUME NEW S \in SUBSET Nodes, NEW T, NEW i \in BOOLEAN
  PROVE  /\ S \subseteq MarkAll(S, T, i) /\ MarkAll(S, T, i) \subseteq Nodes
         /\ IsClosed(MarkAll(S, T, i), S, T, i)
  <1> DEFINE X == MarkAll(S, T, i)
             closed == {M \in SUBSET Nodes : S \subseteq M /\ IsClosed(M, S, T, i)}
  <1>1. X = {o \in Nodes : \A M \in closed : o \in M}
    BY DEF MarkAll
  <1>2. S \subseteq X /\ X \subseteq Nodes
    BY <1>1
  <1>3. \A M \in closed : X \subseteq M
    BY <1>1
  <1>4. ASSUME NEW o \in (X \ S) \union (X \intersect T), NEW v \in Refs(o, X, i),
               NEW M \in closed
        PROVE  v \in M
    <2>1. o \in (M \ S) \union (M \intersect T)
      BY <1>3, <1>4
    <2>2. Refs(o, X, i) \subseteq Refs(o, M, i)
      BY <1>3 DEF Refs
    <2>3. Refs(o, M, i) \subseteq M
      BY <2>1 DEF IsClosed
    <2> QED BY <1>4, <2>2, <2>3
  <1>5. \A o : Refs(o, X, i) \subseteq Nodes
    BY DEF Refs, Nodes
  <1> HIDE DEF X, closed
  <1>6. IsClosed(X, S, T, i)
    BY <1>1, <1>4, <1>5 DEF IsClosed
  <1> QED BY <1>2, <1>6 DEF X

\* MarkAll stays in every set that contains what its members refer to.
LEMMA MarkAllBound ==
  ASSUME NEW B \in SUBSET Nodes, NEW S \in SUBSET B, NEW T, NEW i,
         \A o \in B : Refs(o, B, i) \subseteq B
  PROVE  MarkAll(S, T, i) \subseteq B
  BY DEF MarkAll, IsClosed

\* What a live object, or the stack, refers to is live.
LEMMA RefsLive ==
  ASSUME TypeOK, NoDangling, NEW o \in Live \union {Main}, NEW S, NEW i
  PROVE  Refs(o, S, i) \subseteq Live
  BY DEF Refs, NoDangling, ReadsLive, TypeOK, Live

\* What traversing anything but an ephemeron table marks does not depend on what
\* is marked already.
LEMMA RefsSame ==
  ASSUME NEW o, o = Main \/ kind[o] # "ephemeron", NEW S, NEW S2, NEW i
  PROVE  Refs(o, S, i) = Refs(o, S2, i)
  BY DEF Refs

\* Marking in the atomic step is complete: what the marked objects refer to is
\* marked, however the program and the collector took turns until then.
LEMMA AtomicMarks ==
  ASSUME IInv, gcstate = "atomic", NEW P \in Propagations
  PROVE  LET R == Reached(P)
             F == ToFinalize(R)
             M == Resurrected(R, F)
         IN  /\ R \subseteq M /\ F \subseteq M /\ M \subseteq Live \union {Main}
             /\ stack \subseteq M
             /\ \A o \in M \ {Main} : Refs(o, M, TRUE) \subseteq M
  <1> USE DEF IInv, HeapInv, ColorInv
  <1> DEFINE R == Reached(P)
             F == ToFinalize(R)
             M == Resurrected(R, F)
             Rem == Remarked(P)
             B == Live \union {Main}
             T1 == grayagain \union {o \in Traversed(P) : StaysGray(o)} \union Rem
             T2 == (F \ R) \union {o \in R \ {Main} : kind[o] = "ephemeron"}
  <1>1. Allocated = Live /\ B \subseteq Nodes
    BY DEF CycleColors, Allocated, Live, Nodes
  <1>2. \A o \in B, i \in BOOLEAN : Refs(o, B, i) \subseteq B
    BY RefsLive
  <1>3. NonWhite = {o \in Live \union {Main} : color[o] \in {"gray", "black"}}
    BY DEF NonWhite, Live, Nodes
  <1> HIDE DEF R, F, M
  <1>4. /\ NonWhite \subseteq P /\ P \subseteq B
        /\ \A o \in Traversed(P) \ {Main} :
             kind[o] = "ephemeron" \/ Refs(o, P, FALSE) \subseteq P
    <2>1. NonWhite \in SUBSET B /\ NonWhite \in SUBSET Nodes
      BY <1>1, <1>3
    <2>2. P \subseteq MarkAll(NonWhite, gray, FALSE)
      BY DEF Propagations
    <2> HIDE DEF B
    <2>3. MarkAll(NonWhite, gray, FALSE) \subseteq B
      BY <1>1, <1>2, <2>1, MarkAllBound
    <2> QED BY <2>2, <2>3 DEF Propagations, Traversed
  <1>5. Rem \subseteq B
    <2> SUFFICES ASSUME NEW u \in TouchedBy(P), at[u] \in twups \ P, val[at[u]] # None
                 PROVE  val[at[u]] \in Live
      BY DEF Remarked
    <2> QED BY DEF UpvalThreadsListed, NoDangling
  <1>6. P \union Rem \subseteq R /\ R \subseteq B /\ IsClosed(R, P \union Rem, T1, TRUE)
    <2>1. P \union Rem \in SUBSET B /\ P \union Rem \in SUBSET Nodes
      BY <1>1, <1>4, <1>5
    <2>2. R = MarkAll(P \union Rem, T1, TRUE)
      BY DEF Reached, R
    <2> HIDE DEF Rem, B, T1
    <2>3. P \union Rem \subseteq R /\ IsClosed(R, P \union Rem, T1, TRUE)
      BY <2>1, <2>2, MarkAllClosed
    <2>4. R \subseteq B
      BY <1>1, <1>2, <2>1, <2>2, MarkAllBound
    <2> QED BY <2>3, <2>4
  <1>7. F \subseteq B
    BY DEF ToFinalize, NoDangling, F
  <1>8. R \union F \subseteq M /\ M \subseteq B /\ IsClosed(M, R \union F, T2, TRUE)
    <2> DEFINE S2 == R \union F
    <2>1. S2 \in SUBSET B /\ S2 \in SUBSET Nodes
      BY <1>1, <1>6, <1>7
    <2>2. M = MarkAll(S2, T2, TRUE)
      BY DEF Resurrected, M
    <2> HIDE DEF S2, Rem, B, T1, T2
    <2>3. S2 \subseteq M /\ IsClosed(M, S2, T2, TRUE)
      BY <2>1, <2>2, MarkAllClosed
    <2>4. M \subseteq B
      BY <1>1, <1>2, <2>1, <2>2, MarkAllBound
    <2> QED BY <2>3, <2>4 DEF S2
  <1>9. KeepInvariant
    BY DEF KeepInvariant
  <1>10. Main \in R /\ Main \in T1
    <2>1. Main \in NonWhite /\ Main \in gray \union grayagain
      BY <1>9 DEF GrayNodes, GrayListed, NonWhite, Nodes
    <2> QED BY <1>4, <1>6, <2>1 DEF Traversed, StaysGray
  <1>11. stack \subseteq R
    <2>1. stack \subseteq Refs(Main, R, TRUE)
      BY DEF Refs, TypeOK
    <2> QED BY <1>6, <1>10, <2>1 DEF IsClosed
  <1>12. ASSUME NEW o \in P \ {Main}, o \notin T1, kind[o] # "ephemeron"
         PROVE  Refs(o, R, TRUE) \subseteq R
    <2>1. o \in Objects /\ o \in Live
      BY <1>4, <1>12 DEF Live
    <2>2. CASE kind[o] = "allweak"
      BY <2>2, <1>12 DEF Refs
    <2>3. CASE kind[o] # "allweak"
      <3>1. Refs(o, P, FALSE) \subseteq P /\ OpenOf({o}) \subseteq TouchedBy(P)
        <4>1. CASE o \in Traversed(P)
          BY <1>4, <1>12, <4>1 DEF TouchedBy, OpenOf
        <4>2. CASE o \notin Traversed(P)
          <5>1. o \in NonWhite /\ o \notin gray /\ o \notin grayagain
            BY <1>12, <4>2 DEF Traversed
          <5>2. color[o] = "black"
            BY <1>9, <2>1, <2>3, <5>1 DEF GrayListed, NonWhite, Nodes
          <5>3. Whites(Refs(o, Nodes, FALSE)) = {} /\ OpenOf({o}) \subseteq touched
            BY <1>9, <2>1, <5>2 DEF BlackToWhite
          <5>4. Refs(o, Nodes, FALSE) \subseteq Live
            BY <2>1, RefsLive
          <5>5. Refs(o, Nodes, FALSE) \subseteq NonWhite
            BY <5>3, <5>4 DEF Whites, NonWhite, Live, Nodes, TypeOK, Color
          <5>6. Refs(o, P, FALSE) = Refs(o, Nodes, FALSE)
            BY <1>12, RefsSame
          <5> QED BY <1>4, <5>3, <5>5, <5>6 DEF TouchedBy
        <4> QED BY <4>1, <4>2
      <3> SUFFICES ASSUME NEW v \in Refs(o, R, TRUE), v \notin Refs(o, P, FALSE)
                   PROVE  v \in R
        BY <1>6, <3>1
      <3> DEFINE u == up[o]
                 th == at[u]
      <3>2. /\ kind[o] = "closure" /\ u # None /\ th # Closed
            /\ v = val[th] /\ v \in Objects
        BY <1>12 DEF Refs, Read
      <3>3. u \in TouchedBy(P) /\ u \in UpVals
        BY <2>1, <3>1, <3>2, <1>12 DEF OpenOf, TypeOK
      <3>4. th \in Live /\ th \in twups /\ kind[th] = "thread" /\ th # Main
        BY <1>1, <3>2, <3>3 DEF OpenAllocated, UpvalThreadsListed, TypeOK, Threads
      <3>5. CASE th \notin P
        <4>1. v \in Rem \union P
          BY <3>2, <3>3, <3>4, <3>5 DEF Remarked
        <4> QED BY <1>6, <4>1
      <3>6. CASE th \in P
        <4>1. th \in T1
          <5>1. StaysGray(th)
            BY <3>4 DEF StaysGray
          <5>2. CASE th \in Traversed(P)
            BY <5>1, <5>2
          <5>3. CASE th \notin Traversed(P)
            <6>1. th \in NonWhite /\ th \notin gray
              BY <3>6, <5>3 DEF Traversed
            <6>2. color[th] = "gray"
              BY <1>9, <5>1, <6>1 DEF GrayNodes, NonWhite
            <6> QED BY <1>9, <3>4, <6>1, <6>2 DEF GrayListed, NonWhite
          <5> QED BY <5>2, <5>3
        <4>2. v \in Refs(th, R, TRUE)
          BY <3>2, <3>4 DEF Refs
        <4> QED BY <1>6, <3>6, <4>1, <4>2 DEF IsClosed
      <3> QED BY <3>5, <3>6
    <2> QED BY <2>2, <2>3
  <1>13. ASSUME NEW o \in M \ {Main} PROVE Refs(o, M, TRUE) \subseteq M
    <2>1. CASE o \notin R \/ kind[o] = "ephemeron"
      <3>1. o \in (M \ (R \union F)) \union (M \intersect T2)
        BY <1>13, <2>1
      <3> HIDE DEF T2
      <3> QED BY <1>8, <3>1 DEF IsClosed
    <2>2. CASE o \in R /\ kind[o] # "ephemeron"
      <3>1. Refs(o, R, TRUE) \subseteq R
        <4>1. CASE o \in P /\ o \notin T1
          BY <1>12, <1>13, <2>2, <4>1
        <4>2. CASE o \notin P \union Rem \/ o \in T1
          BY <1>6, <2>2, <4>2 DEF IsClosed
        <4> QED BY <4>1, <4>2
      <3> QED BY <1>8, <2>2, <3>1, RefsSame
    <2> QED BY <2>1, <2>2
  <1> QED BY <1>8, <1>11, <1>13 DEF R, F, M

-----------------------------------------------------------------------------
(* The collector keeps the heap sound.                                     *)

LEMMA AtomicHeap ==
  ASSUME IInv, Atomic
  PROVE  HeapInv'
  <1> USE DEF IInv, HeapInv, ColorInv
  <1>0. PICK P \in Propagations : \E S \in AtMostOne :
          EndAtomic(P, Reached(P), ToFinalize(Reached(P)),
                    Resurrected(Reached(P), ToFinalize(Reached(P))), S)
    BY DEF Atomic
  <1> DEFINE R == Reached(P)
             F == ToFinalize(R)
             M == Resurrected(R, F)
  <1>1. PICK S \in AtMostOne : EndAtomic(P, R, F, M, S)
    BY <1>0
  <1> DEFINE D == Freed(S, Flipped(M))
             C == Cleared(R, M) \intersect Objects
  <1>3. gcstate = "atomic" /\ UNCHANGED <<kind, stack>>
    BY DEF Atomic
  <1>4. /\ R \subseteq M /\ F \subseteq M /\ M \subseteq Live \union {Main}
        /\ stack \subseteq M
        /\ \A o \in M \ {Main} : Refs(o, M, TRUE) \subseteq M
    <2> HIDE DEF IInv
    <2> QED BY <1>3, AtomicMarks
  <1> HIDE DEF R, F, M
  <1>5. S \subseteq Objects
    BY DEF AtMostOne
  <1>6. color' = Swept(S, Flipped(M))
    BY <1>1 DEF EndAtomic
  <1>7. Live' = M \intersect Objects
    BY <1>4, <1>5, <1>6 DEF Live, Swept, Flipped, Nodes, TypeOK
  <1>8. Allocated' = Allocated \ D /\ D \in SUBSET Allocated
    BY <1>5, <1>6 DEF Allocated, Freed, Swept, Flipped, Nodes, TypeOK
  <1>9. C \in SUBSET Objects /\ C \intersect Threads = {} /\ Cleared(R, M) = C
    BY <1>4 DEF Cleared, Threads, Live
  <1>10. /\ key' = Emptied(key, C \union D) /\ val' = Emptied(val, C \union D)
         /\ up' = Emptied(up, D) /\ Closing(D)
    BY <1>1, <1>9 DEF EndAtomic
  <1>11. stack' \union finobj' \union tobefnz' \subseteq Live'
    <2>1. stack \subseteq Live'
      BY <1>4, <1>7 DEF TypeOK
    <2>2. finobj' \subseteq Live' /\ tobefnz' \subseteq Live'
      BY <1>1, <1>4, <1>7 DEF EndAtomic, TypeOK, ToFinalize, F
    <2> QED BY <1>3, <2>1, <2>2
  <1>12. ASSUME NEW o \in Live'
         PROVE  /\ o \in C \/ {key[o], val[o]} \subseteq Live' \union {None}
                /\ up[o] # None => Read(up[o]) \in Live' \union {None}
    <2>1. o \in M /\ o \in Objects /\ o # Main /\ Refs(o, M, TRUE) \subseteq Live'
      BY <1>4, <1>7, <1>12 DEF Refs
    <2>2. up[o] # None => Read(up[o]) \in Live' \union {None}
      <3> SUFFICES ASSUME up[o] # None, Read(up[o]) # None PROVE Read(up[o]) \in Refs(o, M, TRUE)
        BY <2>1
      <3>1. Read(up[o]) \in Objects
        BY <2>1 DEF Read, TypeOK, Value, Threads
      <3> QED BY <2>1, <3>1 DEF Refs, SlotKinds
    <2>3. CASE kind[o] \in {"table", "box", "thread"}
      BY <2>1, <2>3 DEF Refs, SlotKinds, TypeOK, Value, Weak
    <2>4. CASE kind[o] \in {"closure", "userdata", None}
      BY <2>1, <2>2, <2>4 DEF SlotKinds, Weak, Kind
    <2>5. CASE kind[o] = "weakv"
      <3>1. key[o] \in Live' \union {None}
        BY <2>1, <2>5 DEF Refs, TypeOK, Value
      <3>2. o \in C \/ val[o] \in Live' \union {None}
        BY <1>4, <1>7, <2>1, <2>5 DEF Cleared, TypeOK, Value
      <3> QED BY <2>2, <3>1, <3>2
    <2>6. CASE kind[o] = "ephemeron"
      <3>1. o \in C \/ key[o] \in (M \intersect Objects) \union {None}
        BY <2>1, <2>6 DEF Cleared, TypeOK, Value
      <3>2. key[o] \in M \union {None} => val[o] \in Live' \union {None}
        BY <2>1, <2>6 DEF Refs, TypeOK, Value
      <3> QED BY <1>7, <2>2, <3>1, <3>2
    <2>7. CASE kind[o] = "allweak"
      BY <1>4, <1>7, <2>1, <2>2, <2>7 DEF Cleared, TypeOK, Value
    <2>8. kind[o] \in Kind \union {None}
      BY <2>1 DEF TypeOK
    <2> QED BY <2>3, <2>4, <2>5, <2>6, <2>7, <2>8 DEF Kind
  <1>13. /\ \A o \in Live' : o \in C \/ {key[o], val[o]} \subseteq Live' \union {None}
         /\ \A o \in Live' : up[o] # None => Read(up[o]) \in Live' \union {None}
    BY <1>12
  <1>14. twups' \subseteq Live' /\ \A u \in UpVals : at[u] \in Live' => at[u] \in twups'
    BY <1>1, <1>7 DEF EndAtomic, KeptThreads, OpenIn, TypeOK, Threads
  <1>15. kind' = kind /\ TypeOK /\ SlotKinds /\ OpenAllocated /\ UnusedEmpty
    BY <1>3
  <1> HIDE DEF C, D, IInv, HeapInv, ColorInv
  <1> QED BY <1>8, <1>9, <1>10, <1>11, <1>13, <1>14, <1>15, FreedHeap

LEMMA CollectHeap ==
  ASSUME IInv, Collect
  PROVE  HeapInv'
  <1> USE DEF IInv, HeapInv, ColorInv
  <1>1. ASSUME SameLive, stack' \subseteq Live, finobj' = finobj, tobefnz' \subseteq tobefnz,
               UNCHANGED <<heap, twups>>
        PROVE  HeapInv'
    BY <1>1 DEF SameLive, heap, SlotKinds, OpenAllocated, UpvalThreadsListed, UnusedEmpty,
       Users, NoDangling, ReadsLive, Read
  <1>2. stack \subseteq Live /\ tobefnz \subseteq Live
    BY DEF NoDangling
  <1>3. CASE Restart
    <2>1. SameLive
      BY <1>3 DEF Restart, SameLive, Live, Allocated, Marked, Whites, TypeOK, CycleColors, Nodes
    <2> QED BY <1>1, <1>2, <1>3, <2>1 DEF Restart
  <1>4. ASSUME NEW o \in gray, Propagate(o) PROVE HeapInv'
    <2> DEFINE V == Whites(Refs(o, NonWhite, FALSE))
    <2>1. o \in Nodes /\ color[o] = "gray" /\ \A p \in Objects : color[p] # "dead"
      BY <1>4 DEF Propagate, KeepInvariant, GrayListed, CycleColors, TypeOK
    <2>2. color' = [Marked(V) EXCEPT ![o] = IF StaysGray(o) THEN "gray" ELSE "black"]
      BY <1>4 DEF Propagate
    <2> HIDE DEF V
    <2>3. SameLive
      BY <2>1, <2>2 DEF SameLive, Live, Allocated, Marked, Whites, TypeOK, Nodes
    <2> QED BY <1>1, <1>2, <1>4, <2>3 DEF Propagate
  <1>5. CASE Atomic
    BY <1>5, AtomicHeap
  <1>6. CASE Abandon
    <2>1. \A o \in Objects : color[o] # "dead"
      BY <1>6 DEF Abandon, KeepInvariant, CycleColors
    <2>2. SameLive
      BY <1>6, <2>1 DEF Abandon, SameLive, Live, Allocated, Swept, Nodes, TypeOK
    <2> QED BY <1>1, <1>2, <1>6, <2>2 DEF Abandon
  <1>7. ASSUME NEW S \in (SUBSET Unswept) \ {{}}, Sweep(S) PROVE HeapInv'
    <2>1. PICK o \in S : TRUE
      OBVIOUS
    <2>2. S \in SUBSET Objects /\ S = S \union {o}
      BY <2>1 DEF Unswept
    <2>3. stack' \union finobj' \union tobefnz' \subseteq Live
      BY <1>7 DEF Sweep, NoDangling
    <2>4. /\ color' = Swept(S \union {o}, color) /\ Free(Freed(S, color))
          /\ kind' = kind /\ twups' = twups
      BY <1>7, <2>2 DEF Sweep
    <2>5. TypeOK /\ HeapInv
      OBVIOUS
    <2> HIDE DEF HeapInv, IInv
    <2> QED BY <2>1, <2>2, <2>3, <2>4, <2>5, SweepHeap
  <1>8. CASE SweepEnd
    <2>1. SameLive
      BY <1>8 DEF SweepEnd, SameLive, Live, Allocated, TypeOK, Nodes
    <2> QED BY <1>1, <1>2, <1>8, <2>1 DEF SweepEnd
  <1>9. CASE CycleEnd
    <2>1. SameLive
      BY <1>9 DEF CycleEnd, SameLive, Live, Allocated
    <2> QED BY <1>1, <1>2, <1>9, <2>1 DEF CycleEnd
  <1>10. ASSUME NEW o \in tobefnz, CallFinalizer(o) PROVE HeapInv'
    <2>1. SameLive
      BY <1>2, <1>10 DEF CallFinalizer, SameLive, Live, Allocated, TypeOK, Nodes
    <2> QED BY <1>1, <1>2, <1>10, <2>1 DEF CallFinalizer
  <1> QED BY <1>3, <1>4, <1>5, <1>6, <1>7, <1>8, <1>9, <1>10 DEF Collect

-----------------------------------------------------------------------------
(* Colors.                                                                 *)

IsWhite(v) == v \in Objects /\ color[v] \in {"white", "dead"}

\* BlackToWhite, slot by slot: only tables, boxes, closures and userdata get black.
BlackSlots ==
  KeepInvariant =>
    \A q \in Objects : color[q] = "black" =>
      /\ kind[q] \in {"table", "box"} => ~IsWhite(val[q])
      /\ kind[q] = "closure" /\ up[q] # None =>
           IF at[up[q]] = Closed THEN ~IsWhite(cell[up[q]]) ELSE up[q] \in touched

LEMMA SlotsOfBlack ==
  ASSUME TypeOK, BlackToWhite
  PROVE  BlackSlots
  BY DEF TypeOK, BlackToWhite, BlackSlots, Whites, IsWhite, Refs, Read, OpenOf

LEMMA BlackOfSlots ==
  ASSUME TypeOK', GrayNodes', BlackSlots'
  PROVE  BlackToWhite'
  <1> SUFFICES ASSUME KeepInvariant', NEW q \in Objects, color'[q] = "black"
               PROVE  Whites(Refs(q, Nodes, FALSE))' = {} /\ (OpenOf({q}) \subseteq touched)'
    BY DEF BlackToWhite
  <1>1. q # Main /\ kind'[q] \notin Weak \union {"thread"}
    BY DEF GrayNodes, StaysGray, Nodes
  <1>2. Whites(Refs(q, Nodes, FALSE))' = {}
    BY <1>1 DEF Whites, Refs, Read, BlackSlots, IsWhite, Weak
  <1>3. (OpenOf({q}) \subseteq touched)'
    BY <1>1 DEF OpenOf, BlackSlots
  <1> QED BY <1>2, <1>3

\* What a step that only marks leaves behind.
ListsKept == GrayListed' /\ CycleColors' /\ GrayNodes'
ColorsKept ==
  /\ \A o \in Objects : color'[o] = "black" => color[o] = "black" \/ kind[o] = "userdata"
  /\ \A v : IsWhite(v)' => IsWhite(v)

LEMMA SameColors ==
  ASSUME IInv, UNCHANGED <<kind, color, gray, grayagain, gcstate>>
  PROVE  ListsKept /\ ColorsKept
  BY DEF IInv, ColorInv, ListsKept, ColorsKept, GrayListed, CycleColors, GrayNodes, StaysGray,
     KeepInvariant, IsWhite, Allocated

LEMMA MarkColors ==
  ASSUME IInv, KeepInvariant, NEW V, Mark(V), UNCHANGED <<kind, grayagain, gcstate>>
  PROVE  ListsKept /\ ColorsKept /\ \A v \in V : ~IsWhite(v)'
  <1> USE DEF IInv, ColorInv
  <1>1. /\ \A o \in Nodes : color'[o] = IF o \in Whites(V)
                                        THEN IF kind[o] = "userdata" THEN "black" ELSE "gray"
                                        ELSE color[o]
        /\ gray' = gray \union ToVisit(V) /\ Whites(V) \subseteq Objects
    BY DEF Mark, Marked, Whites
  <1>2. ColorsKept /\ \A v \in V : ~IsWhite(v)'
    BY <1>1 DEF ColorsKept, IsWhite, Whites, Nodes
  <1>3. GrayListed'
    BY <1>1 DEF GrayListed, KeepInvariant, ToVisit, Whites, Nodes
  <1>4. CycleColors'
    BY <1>1 DEF CycleColors, KeepInvariant, Nodes
  <1>5. GrayNodes'
    <2>1. color'[Main] = "gray"
      BY <1>1 DEF GrayNodes, KeepInvariant, Nodes, Whites
    <2>2. \A o \in Nodes : color'[o] = "black" => ~StaysGray(o)'
      BY <1>1 DEF GrayNodes, KeepInvariant, StaysGray, Weak, Whites
    <2>3. gray' \intersect grayagain' = {}
      BY <1>1 DEF GrayNodes, GrayListed, KeepInvariant, ToVisit, Whites
    <2> QED BY <2>1, <2>2, <2>3 DEF GrayNodes
  <1> QED BY <1>2, <1>3, <1>4, <1>5 DEF ListsKept

LEMMA BarrierColors ==
  ASSUME IInv, NEW o \in Live, NEW v, UNCHANGED <<kind, grayagain, gcstate>>,
         Barrier(o, v) \/ UpvalBarrier(v)
  PROVE  /\ ListsKept
         /\ KeepInvariant =>
              /\ ColorsKept
              /\ IsWhite(v)' => Barrier(o, v) /\ color'[o] # "black"
  <1>0. o \in Objects
    BY DEF Live
  <1>1. CASE KeepInvariant /\ Mark({v})
    <2>1. ListsKept /\ ColorsKept /\ \A w \in {v} : ~IsWhite(w)'
      BY <1>1, MarkColors
    <2> QED BY <2>1
  <1>2. CASE ~KeepInvariant /\ color' = [color EXCEPT ![o] = "white"] /\ gray' = gray
    BY <1>0, <1>2 DEF IInv, ColorInv, TypeOK, ListsKept, GrayListed, CycleColors, GrayNodes,
       KeepInvariant, Allocated, Nodes
  <1>3. CASE UNCHANGED <<color, gray>> /\ (Barrier(o, v) \/ ~KeepInvariant)
    <2>1. ListsKept /\ ColorsKept
      BY <1>3, SameColors
    <2>2. KeepInvariant /\ IsWhite(v) => Barrier(o, v) /\ color[o] # "black"
      <3> SUFFICES ASSUME KeepInvariant, IsWhite(v), Barrier(o, v), color[o] = "black" PROVE FALSE
        BY <1>3
      <3>1. Whites({v}) # {} /\ Mark({v})
        BY DEF Whites, IsWhite, Barrier
      <3>2. ~IsWhite(v)'
        <4>1. \A w \in {v} : ~IsWhite(w)'
          BY <3>1, MarkColors
        <4> QED BY <4>1
      <3> QED BY <1>3, <3>2 DEF IsWhite
    <2> QED BY <1>3, <2>1, <2>2 DEF IsWhite
  <1>4. CASE Barrier(o, v)
    BY <1>1, <1>2, <1>3, <1>4 DEF Barrier
  <1>5. CASE UpvalBarrier(v)
    BY <1>1, <1>3, <1>5 DEF UpvalBarrier
  <1> QED BY <1>4, <1>5

LEMMA BarrierBackColors ==
  ASSUME IInv, NEW o \in Live, NEW V, UNCHANGED <<kind, gray, gcstate>>,
         kind[o] \in Weak \union {"table"}, BarrierBack(o, V)
  PROVE  /\ ListsKept
         /\ KeepInvariant => ColorsKept /\ (color'[o] = "black" => \A v \in V : ~IsWhite(v)')
  <1>0. o \in Objects
    BY DEF Live
  <1>1. CASE color[o] = "black" /\ Whites(V) # {}
    <2>1. color' = [color EXCEPT ![o] = "gray"]
      BY <1>1 DEF BarrierBack
    <2>2. grayagain' = IF KeepInvariant THEN grayagain \union {o} ELSE grayagain
      BY <1>1 DEF BarrierBack
    <2>3. GrayListed' /\ CycleColors'
      BY <1>0, <1>1, <2>1, <2>2 DEF IInv, ColorInv, TypeOK, GrayListed, CycleColors,
         KeepInvariant, Allocated, Nodes
    <2>4. GrayNodes'
      BY <1>0, <1>1, <2>1, <2>2 DEF IInv, ColorInv, TypeOK, GrayNodes, GrayListed, StaysGray,
         KeepInvariant, Nodes
    <2>5. ColorsKept /\ color'[o] # "black"
      BY <1>0, <2>1 DEF IInv, TypeOK, ColorsKept, IsWhite, Nodes
    <2> QED BY <2>3, <2>4, <2>5 DEF ListsKept
  <1>2. CASE UNCHANGED <<color, grayagain>> /\ ~(color[o] = "black" /\ Whites(V) # {})
    <2>1. ListsKept /\ ColorsKept
      BY <1>2, SameColors
    <2> QED BY <1>2, <2>1 DEF IsWhite, Whites
  <1> QED BY <1>1, <1>2 DEF BarrierBack

LEMMA ProgramColors ==
  ASSUME IInv, Program, TypeOK'
  PROVE  ColorInv'
  <1>0. /\ TypeOK /\ NoDangling /\ SlotKinds /\ OpenAllocated /\ BlackSlots
        /\ stack \subseteq Live /\ Live \subseteq Objects
    BY SlotsOfBlack DEF IInv, HeapInv, ColorInv, NoDangling, Live
  <1>1. ASSUME ListsKept, BlackSlots' PROVE ColorInv'
    BY <1>1, BlackOfSlots DEF ListsKept, ColorInv
  <1>2. ASSUME NEW o \in Objects, NewObject(o) \/ \E u \in UpVals : NewClosure(o, u)
        PROVE  ColorInv'
    <2>1. /\ color[o] = "free" /\ color' = [color EXCEPT ![o] = "white"]
          /\ UNCHANGED <<kind, gray, grayagain, gcstate>>
      BY <1>2 DEF NewObject, NewClosure
    <2>2. ListsKept
      BY <2>1 DEF IInv, ColorInv, TypeOK, ListsKept, GrayListed, CycleColors, GrayNodes, StaysGray,
         KeepInvariant, Allocated, Nodes
    <2>3. ASSUME KeepInvariant, NEW q \in Objects, color'[q] = "black"
          PROVE  /\ q \in Live /\ q # o /\ color[q] = "black"
                 /\ \A v \in Live \union {None} : IsWhite(v)' => IsWhite(v)
      BY <2>1, <2>3 DEF Live, IsWhite, IInv, TypeOK, Nodes
    <2>4. CASE NewObject(o)
      <3>1. UNCHANGED <<kind, up, at, cell, touched, gcstate>> /\ val' = [val EXCEPT ![o] = None]
        BY <2>4 DEF NewObject
      <3>2. BlackSlots'
        BY <1>0, <2>3, <3>1 DEF BlackSlots, NoDangling, ReadsLive, Read, KeepInvariant, TypeOK
      <3> QED BY <1>1, <2>2, <3>2
    <2>5. ASSUME NEW u \in UpVals, NewClosure(o, u) PROVE ColorInv'
      <3>1. /\ UNCHANGED <<kind, val, cell, gcstate>> /\ up' = [up EXCEPT ![o] = u]
            /\ touched \subseteq touched'
            /\ at' = at \/ (u \in Unused /\ u \in touched')
            /\ \A w \in UpVals \ {u} : at'[w] = at[w]
        BY <1>0, <2>5 DEF NewClosure, TypeOK
      <3>2. ASSUME KeepInvariant, NEW q \in Objects, color'[q] = "black"
            PROVE  up'[q] = up[q] /\ (up[q] # None => at'[up[q]] = at[up[q]])
        <4>1. q \in Users(up[q]) /\ up'[q] = up[q] /\ up[q] \in UpVals \union {None}
          BY <1>0, <2>3, <3>1, <3>2 DEF Users, Allocated, TypeOK
        <4> QED BY <3>1, <4>1 DEF Unused
      <3>3. BlackSlots'
        BY <1>0, <2>3, <3>1, <3>2 DEF BlackSlots, NoDangling, ReadsLive, Read, KeepInvariant
      <3> QED BY <1>1, <2>2, <3>3
    <2> QED BY <1>2, <2>4, <2>5
  <1>3. ASSUME NEW o \in stack, (\E v \in Slots(o) : Load(o, v)) \/ Drop(o) PROVE ColorInv'
    <2>1. UNCHANGED <<kind, val, up, at, cell, color, gray, grayagain, touched, gcstate>>
      BY <1>3 DEF Load, Drop, heap
    <2> QED BY <1>0, <1>1, <2>1, SameColors DEF BlackSlots, IsWhite, KeepInvariant
  <1>4. ASSUME NEW o \in stack, NEW S \in SUBSET Unswept, SetFinalizer(o, S) PROVE ColorInv'
    <2>1. CASE gcstate = "sweep"
      <3>1. ~KeepInvariant' /\ gcstate' = "sweep"
        BY <1>4, <2>1 DEF SetFinalizer, KeepInvariant
      <3> QED BY <3>1 DEF ColorInv, BlackToWhite, GrayListed, CycleColors, GrayNodes
    <2>2. CASE gcstate # "sweep"
      <3>1. UNCHANGED <<kind, val, up, at, cell, color, gray, grayagain, touched, gcstate>>
        BY <1>4, <2>2 DEF SetFinalizer
      <3> QED BY <1>0, <1>1, <3>1, SameColors DEF BlackSlots, IsWhite, KeepInvariant
    <2> QED BY <2>1, <2>2
  <1>5. ASSUME NEW o \in stack, NEW k \in stack \union {None}, NEW v \in stack \union {None},
               StoreTable(o, k, v)
        PROVE  ColorInv'
    <2>1. /\ val' = [val EXCEPT ![o] = v] /\ BarrierBack(o, {k, v})
          /\ kind[o] \in Weak \union {"table"}
          /\ UNCHANGED <<kind, up, at, cell, gray, touched, gcstate>>
      BY <1>5 DEF StoreTable
    <2>2. ListsKept /\ (KeepInvariant =>
             ColorsKept /\ (color'[o] = "black" => \A w \in {k, v} : ~IsWhite(w)'))
      BY <1>0, <2>1, BarrierBackColors
    <2>3. BlackSlots'
      BY <1>0, <2>1, <2>2 DEF BlackSlots, ColorsKept, KeepInvariant, TypeOK
    <2> QED BY <1>1, <2>2, <2>3
  <1>6. ASSUME NEW o \in stack, NEW v \in stack \union {None}, StoreBox(o, v) PROVE ColorInv'
    <2>1. /\ val' = [val EXCEPT ![o] = v] /\ Barrier(o, v) /\ kind[o] = "box"
          /\ UNCHANGED <<kind, up, at, cell, grayagain, touched, gcstate>>
      BY <1>6 DEF StoreBox
    <2>2. ListsKept /\ (KeepInvariant => ColorsKept /\ (IsWhite(v)' => color'[o] # "black"))
      BY <1>0, <2>1, BarrierColors
    <2>3. BlackSlots'
      BY <1>0, <2>1, <2>2 DEF BlackSlots, ColorsKept, KeepInvariant, TypeOK
    <2> QED BY <1>1, <2>2, <2>3
  <1>7. ASSUME NEW o \in stack, NEW v \in stack \union {None}, StoreThread(o, v) PROVE ColorInv'
    <2>1. /\ val' = [val EXCEPT ![o] = v] /\ kind[o] = "thread"
          /\ UNCHANGED <<kind, up, at, cell, color, gray, grayagain, touched, gcstate>>
      BY <1>7 DEF StoreThread
    <2>2. ListsKept
      BY <2>1, SameColors
    <2>3. BlackSlots'
      BY <1>0, <2>1 DEF BlackSlots, IsWhite, KeepInvariant, TypeOK
    <2> QED BY <1>1, <2>2, <2>3
  <1>8. ASSUME NEW o \in stack, NEW v \in stack \union {None}, SetUpval(o, v) PROVE ColorInv'
    <2>1. UNCHANGED <<kind, up, at, grayagain, touched, gcstate>> /\ up[o] \in UpVals
      BY <1>0, <1>8 DEF SetUpval, TypeOK
    <2>2. CASE at[up[o]] = Closed
      <3>1. UNCHANGED val /\ cell' = [cell EXCEPT ![up[o]] = v] /\ UpvalBarrier(v)
        BY <1>8, <2>2 DEF SetUpval
      <3>2. CASE KeepInvariant
        <4>1. ListsKept /\ ColorsKept /\ \A w \in {v} : ~IsWhite(w)'
          BY <2>1, <3>1, <3>2, MarkColors DEF UpvalBarrier
        <4>2. BlackSlots'
          BY <1>0, <2>1, <3>1, <3>2, <4>1 DEF BlackSlots, ColorsKept, KeepInvariant, TypeOK
        <4> QED BY <1>1, <4>1, <4>2
      <3>3. CASE ~KeepInvariant
        <4>1. ListsKept
          BY <2>1, <3>1, <3>3, SameColors DEF UpvalBarrier
        <4>2. BlackSlots'
          BY <2>1, <3>3 DEF BlackSlots, KeepInvariant
        <4> QED BY <1>1, <4>1, <4>2
      <3> QED BY <3>2, <3>3
    <2>3. CASE at[up[o]] # Closed
      <3>1. val' = [val EXCEPT ![at[up[o]]] = v] /\ UNCHANGED <<cell, color, gray>>
        BY <1>8, <2>3 DEF SetUpval
      <3>2. kind[at[up[o]]] = "thread"
        BY <1>0, <2>1, <2>3 DEF TypeOK, Threads
      <3>3. ListsKept
        BY <2>1, <3>1, SameColors
      <3>4. BlackSlots'
        BY <1>0, <2>1, <3>1, <3>2 DEF BlackSlots, IsWhite, KeepInvariant, TypeOK
      <3> QED BY <1>1, <3>3, <3>4
    <2> QED BY <2>2, <2>3
  <1>9. ASSUME NEW o \in stack, NEW p \in OfKind({"closure"}), UpvalueJoin(o, p) PROVE ColorInv'
    <2>1. /\ UNCHANGED <<kind, val, at, grayagain, gcstate>>
          /\ up' = [up EXCEPT ![o] = up[p]] /\ up[p] \in UpVals /\ kind[o] = "closure"
          /\ cell' = cell \/ cell' = [cell EXCEPT ![up[o]] = None]
          /\ touched \subseteq touched'
      BY <1>0, <1>9 DEF UpvalueJoin, TypeOK, OfKind
    <2>2. \A u \in UpVals : cell'[u] \in {cell[u], None}
      BY <1>0, <2>1 DEF TypeOK
    <2>3. CASE at[up[p]] = Closed /\ KeepInvariant
      <3>1. ListsKept /\ ColorsKept /\ \A w \in {cell[up[p]]} : ~IsWhite(w)'
        BY <1>9, <2>1, <2>3, MarkColors DEF UpvalueJoin, UpvalBarrier
      <3>2. ~IsWhite(None)'
        BY DEF IsWhite
      <3>3. BlackSlots'
        BY <1>0, <2>1, <2>2, <2>3, <3>1, <3>2 DEF BlackSlots, ColorsKept, KeepInvariant, TypeOK
      <3> QED BY <1>1, <3>1, <3>3
    <2>4. CASE at[up[p]] # Closed \/ ~KeepInvariant
      <3>1. UNCHANGED <<color, gray>> /\ (at[up[p]] # Closed => up[p] \in touched')
        BY <1>9, <2>4 DEF UpvalueJoin, UpvalBarrier
      <3>2. ListsKept
        BY <2>1, <3>1, SameColors
      <3>3. ~IsWhite(None)'
        BY DEF IsWhite
      <3>4. BlackSlots'
        BY <1>0, <2>1, <2>2, <2>4, <3>1, <3>3 DEF BlackSlots, IsWhite, KeepInvariant, TypeOK
      <3> QED BY <1>1, <3>2, <3>4
    <2> QED BY <2>3, <2>4
  <1>10. ASSUME NEW o \in stack, CloseUpval(o) PROVE ColorInv'
    <2>1. /\ UNCHANGED <<kind, val, up, grayagain, gcstate>>
          /\ touched' = touched \ OpenIn(o)
          /\ at' = [u \in UpVals |-> IF at[u] = o THEN Closed ELSE at[u]]
          /\ \A u \in UpVals : cell'[u] = None \/ cell'[u] = IF at[u] = o THEN val[o] ELSE cell[u]
      BY <1>10 DEF CloseUpval, Closing
    <2>2. o # Closed /\ ~IsWhite(None)'
      BY <1>0 DEF IsWhite
    <2>3. CASE UpvalBarrier(val[o]) /\ KeepInvariant
      <3>1. ListsKept /\ ColorsKept /\ \A w \in {val[o]} : ~IsWhite(w)'
        BY <2>1, <2>3, MarkColors DEF UpvalBarrier
      <3>2. BlackSlots'
        BY <1>0, <2>1, <2>2, <2>3, <3>1 DEF BlackSlots, ColorsKept, KeepInvariant, TypeOK, OpenIn
      <3> QED BY <1>1, <3>1, <3>2
    <2>4. CASE UNCHANGED <<color, gray>>
               /\ (~KeepInvariant \/ \A u \in OpenIn(o) : Users(u) = {})
      <3>1. ListsKept
        BY <2>1, <2>4, SameColors
      <3>2. ASSUME KeepInvariant, NEW q \in Live, up[q] # None PROVE at[up[q]] # o
        <4>1. up[q] \in UpVals /\ q \in Users(up[q])
          BY <1>0, <3>2 DEF TypeOK, Users, Live, Allocated
        <4> QED BY <2>4, <3>2, <4>1 DEF OpenIn
      <3>3. BlackSlots'
        <4> SUFFICES ASSUME KeepInvariant, NEW q \in Objects, color[q] = "black",
                            kind[q] = "closure", up[q] # None
                     PROVE  IF at'[up[q]] = Closed THEN ~IsWhite(cell[up[q]])'
                                                   ELSE up[q] \in touched'
          BY <1>0, <2>1, <2>4 DEF BlackSlots, IsWhite, KeepInvariant
        <4>1. q \in Live /\ up[q] \in UpVals
          BY <1>0 DEF Live, TypeOK
        <4> QED BY <1>0, <2>1, <2>2, <2>4, <3>2, <4>1 DEF BlackSlots, IsWhite, OpenIn
      <3> QED BY <1>1, <3>1, <3>3
    <2> QED BY <1>10, <2>3, <2>4 DEF CloseUpval, UpvalBarrier
  <1> QED BY <1>2, <1>3, <1>4, <1>5, <1>6, <1>7, <1>8, <1>9, <1>10 DEF Program

LEMMA CollectColors ==
  ASSUME IInv, Collect, TypeOK'
  PROVE  ColorInv'
  <1>0. TypeOK /\ SlotKinds /\ BlackSlots
    BY SlotsOfBlack DEF IInv, HeapInv, ColorInv
  <1>1. ASSUME ListsKept, BlackSlots' PROVE ColorInv'
    BY <1>1, BlackOfSlots DEF ListsKept, ColorInv
  <1>2. ASSUME gcstate' = "sweep" PROVE ColorInv'
    BY <1>2 DEF ColorInv, KeepInvariant, BlackToWhite, GrayListed, CycleColors, GrayNodes
  <1>3. CASE Restart
    <2>1. gcstate = "pause" /\ gcstate' = "propagate" /\ kind' = kind
      BY <1>3 DEF Restart, heap
    <2>2. \A o \in Objects : color[o] \in {"white", "free"}
      BY <2>1 DEF IInv, ColorInv, CycleColors, Allocated
    <2>3. /\ \A o \in Objects : color'[o] = IF o \in Whites(tobefnz)
                                            THEN IF kind[o] = "userdata" THEN "black" ELSE "gray"
                                            ELSE color[o]
          /\ color'[Main] = "gray"
          /\ gray' = ToVisit(tobefnz) \union {Main} /\ grayagain' = {}
      BY <1>0, <1>3 DEF Restart, Marked, Nodes, TypeOK, Color
    <2>4. GrayListed' /\ CycleColors'
      BY <2>1, <2>2, <2>3 DEF GrayListed, CycleColors, ToVisit, Whites, Nodes
    <2>5. GrayNodes'
      BY <2>1, <2>2, <2>3 DEF GrayNodes, StaysGray, Weak, Nodes
    <2>6. BlackSlots'
      BY <2>1, <2>2, <2>3 DEF BlackSlots
    <2> QED BY <1>1, <2>4, <2>5, <2>6 DEF ListsKept
  <1>4. ASSUME NEW o \in gray, Propagate(o) PROVE ColorInv'
    <2> DEFINE V == Whites(Refs(o, NonWhite, FALSE))
    <2>1. /\ KeepInvariant /\ gcstate' \in {"propagate", "atomic"}
          /\ UNCHANGED <<kind, val, up, at, cell>>
          /\ touched' = touched \union OpenOf({o})
      BY <1>4 DEF Propagate, KeepInvariant, heap
    <2>2. /\ color' = [Marked(V) EXCEPT ![o] = IF StaysGray(o) THEN "gray" ELSE "black"]
          /\ gray' = (gray \ {o}) \union ToVisit(V)
          /\ grayagain' = IF VisitAgain(o) THEN grayagain \union {o} ELSE grayagain
          /\ VisitAgain(o) => StaysGray(o)
          /\ StaysGray(o) /\ ~VisitAgain(o) => o # Main /\ kind[o] = "allweak"
      BY <1>4 DEF Propagate, VisitAgain
    <2>3. o \in Nodes /\ color[o] = "gray" /\ o \notin grayagain /\ V \subseteq Objects
      BY <1>0, <1>4, <2>1 DEF IInv, ColorInv, GrayListed, GrayNodes, TypeOK, Whites
    <2>4. V \subseteq Refs(o, NonWhite, FALSE) /\ \A v \in Refs(o, NonWhite, FALSE) : IsWhite(v) => v \in V
      BY DEF Whites, IsWhite
    <2> HIDE DEF V
    <2>5. /\ color'[o] = IF StaysGray(o) THEN "gray" ELSE "black"
          /\ \A p \in Nodes \ {o} : color'[p] = IF p \in Whites(V)
                                                THEN IF kind[p] = "userdata" THEN "black" ELSE "gray"
                                                ELSE color[p]
      BY <2>2, <2>3 DEF Marked
    <2>6. Whites(V) \subseteq Objects /\ o \notin Whites(V)
          /\ \A p \in Whites(V) : p \in V /\ color[p] \in {"white", "dead"}
      BY <2>3 DEF Whites
    <2>7. GrayListed'
      BY <2>1, <2>2, <2>3, <2>5, <2>6 DEF IInv, ColorInv, GrayListed, GrayNodes, ToVisit, Nodes
    <2>8. CycleColors'
      BY <2>1, <2>3, <2>5, <2>6 DEF IInv, ColorInv, CycleColors, KeepInvariant, Nodes
    <2>9. GrayNodes'
      <3>1. color'[Main] = "gray"
        BY <2>1, <2>5, <2>6 DEF IInv, ColorInv, GrayNodes, StaysGray, Nodes
      <3>2. \A p \in Nodes : color'[p] = "black" => ~StaysGray(p)'
        BY <2>1, <2>5, <2>6 DEF IInv, ColorInv, GrayNodes, StaysGray, Weak
      <3>3. gray' \intersect grayagain' = {}
        BY <2>1, <2>2, <2>3, <2>6 DEF IInv, ColorInv, GrayNodes, GrayListed, ToVisit
      <3> QED BY <3>1, <3>2, <3>3 DEF GrayNodes
    <2>10. \A v : IsWhite(v)' => IsWhite(v) /\ v \notin V
      BY <2>3, <2>5, <2>6 DEF IsWhite, Nodes, Whites
    <2>11. BlackSlots'
      <3> SUFFICES ASSUME NEW q \in Objects, color'[q] = "black"
                   PROVE  /\ kind[q] \in {"table", "box"} => ~IsWhite(val[q])'
                          /\ kind[q] = "closure" /\ up[q] # None =>
                               IF at[up[q]] = Closed THEN ~IsWhite(cell[up[q]])'
                               ELSE up[q] \in touched'
        BY <2>1 DEF BlackSlots
      <3>1. CASE q = o
        <4>1. kind[q] \in {"table", "box"} /\ val[q] \in Objects => val[q] \in Refs(o, NonWhite, FALSE)
          BY <3>1 DEF Refs
        <4>2. kind[q] = "closure" /\ up[q] # None /\ at[up[q]] = Closed /\ cell[up[q]] \in Objects
                => cell[up[q]] \in Refs(o, NonWhite, FALSE)
          BY <3>1 DEF Refs, Read
        <4>3. kind[q] = "closure" /\ up[q] # None /\ at[up[q]] # Closed => up[q] \in OpenOf({o})
          BY <1>0, <3>1 DEF OpenOf, TypeOK
        <4> QED BY <2>1, <2>4, <2>10, <4>1, <4>2, <4>3 DEF IsWhite
      <3>2. CASE q # o /\ color[q] = "black"
        BY <1>0, <2>1, <2>10, <3>2 DEF BlackSlots
      <3>3. CASE q # o /\ kind[q] = "userdata"
        BY <3>3
      <3> QED BY <2>5, <3>1, <3>2, <3>3 DEF Nodes
    <2> QED BY <1>1, <2>7, <2>8, <2>9, <2>11 DEF ListsKept
  <1>5. CASE Atomic
    BY <1>2, <1>5 DEF Atomic
  <1>6. CASE Abandon
    BY <1>2, <1>6 DEF Abandon
  <1>7. ASSUME NEW S \in SUBSET Unswept, Sweep(S) PROVE ColorInv'
    BY <1>2, <1>7 DEF Sweep
  <1>8. CASE SweepEnd
    <2>1. /\ gcstate' = "callfin" /\ \A o \in Objects : color[o] \in {"free", "white"}
          /\ color' = [color EXCEPT ![Main] = "white"]
      BY <1>8 DEF SweepEnd, Allocated
    <2> QED BY <1>0, <2>1 DEF TypeOK, ColorInv, KeepInvariant, BlackToWhite, GrayListed, CycleColors,
              GrayNodes, Allocated, Nodes
  <1>9. CASE CycleEnd
    <2>1. gcstate = "callfin" /\ gcstate' = "pause" /\ color' = color
      BY <1>9 DEF CycleEnd
    <2> QED BY <2>1 DEF IInv, ColorInv, KeepInvariant, BlackToWhite, GrayListed, CycleColors,
              GrayNodes, Allocated
  <1>10. ASSUME NEW o \in tobefnz, CallFinalizer(o) PROVE ColorInv'
    <2>1. UNCHANGED <<kind, val, up, at, cell, gray, grayagain, touched, gcstate>>
      BY <1>10 DEF CallFinalizer, heap
    <2>2. CASE gcstate = "sweep"
      BY <1>2, <2>1, <2>2
    <2>3. CASE gcstate # "sweep"
      <3>1. color' = color
        BY <1>10, <2>3 DEF CallFinalizer
      <3> QED BY <1>0, <1>1, <2>1, <3>1, SameColors DEF BlackSlots, IsWhite, KeepInvariant
    <2> QED BY <2>2, <2>3
  <1> QED BY <1>3, <1>4, <1>5, <1>6, <1>7, <1>8, <1>9, <1>10 DEF Collect

-----------------------------------------------------------------------------
(* The theorems.                                                           *)

LEMMA InvStart ==
  ASSUME Init
  PROVE  IInv
  <1>1. TypeOK
    BY KindAssumption DEF Init, TypeOK, Value, Color, Nodes, Threads
  <1>2. HeapInv
    BY DEF Init, HeapInv, NoDangling, UpvalThreadsListed, SlotKinds, OpenAllocated, UnusedEmpty,
       Live
  <1>3. ColorInv
    BY DEF Init, ColorInv, KeepInvariant, BlackToWhite, GrayListed, CycleColors, GrayNodes,
       Allocated, Nodes
  <1> QED BY <1>1, <1>2, <1>3 DEF IInv

LEMMA InvStep ==
  ASSUME IInv, [Next]_vars
  PROVE  IInv'
  <1>1. CASE Program
    <2>1. TypeOK'
      BY <1>1, ProgramTypes DEF IInv
    <2> QED BY <1>1, <2>1, ProgramHeap, ProgramColors DEF IInv
  <1>2. CASE Collect
    <2>1. TypeOK'
      BY <1>2, CollectTypes DEF IInv
    <2> QED BY <1>2, <2>1, CollectHeap, CollectColors DEF IInv
  <1>3. CASE UNCHANGED vars
    <2>1. TypeOK'
      BY <1>3 DEF vars, IInv, TypeOK, Threads
    <2>2. HeapInv'
      BY <1>3 DEF vars, IInv, HeapInv, NoDangling, ReadsLive, Read, UpvalThreadsListed, SlotKinds,
         OpenAllocated, UnusedEmpty, Users, Live, Allocated
    <2>3. ColorInv'
      <3>1. BlackToWhite'
        BY <1>3 DEF vars, IInv, ColorInv, BlackToWhite, KeepInvariant, Whites, Refs, Read, OpenOf
      <3>2. GrayListed' /\ CycleColors' /\ GrayNodes'
        BY <1>3 DEF vars, IInv, ColorInv, GrayListed, CycleColors, GrayNodes, StaysGray,
           KeepInvariant, Allocated
      <3> QED BY <3>1, <3>2 DEF ColorInv
    <2> QED BY <2>1, <2>2, <2>3 DEF IInv
  <1> QED BY <1>1, <1>2, <1>3 DEF Next

LEMMA Inductive == Spec => []IInv
  BY InvStart, InvStep, PTL DEF Spec

\* Nothing the program can still reach is freed or about to be: not through a weak
\* table, a finalizer, or an upvalue of a coroutine the collector did not mark.
THEOREM NeverDangling == Spec => []NoDangling
  <1>1. IInv => NoDangling
    BY DEF IInv, HeapInv
  <1> QED BY <1>1, Inductive, PTL

\* The main invariant of lgc.h: between any two steps of the collector, no black
\* object points to a white one, but through an upvalue that is looked at again.
THEOREM TricolourInvariant == Spec => []BlackToWhite
  <1>1. IInv => BlackToWhite
    BY DEF IInv, ColorInv
  <1> QED BY <1>1, Inductive, PTL

\* Every gray object is in a gray list, so the atomic step traverses it.
THEOREM GrayIsListed == Spec => []GrayListed
  <1>1. IInv => GrayListed
    BY DEF IInv, ColorInv
  <1> QED BY <1>1, Inductive, PTL

\* Nothing is dead but while sweeping, everything is white when a cycle has ended.
THEOREM ColorsOfCycle == Spec => []CycleColors
  <1>1. IInv => CycleColors
    BY DEF IInv, ColorInv
  <1> QED BY <1>1, Inductive, PTL

\* The list of threads with open upvalues has every live one and no freed one.
THEOREM ThreadsListed == Spec => []UpvalThreadsListed
  <1>1. IInv => UpvalThreadsListed
    BY DEF IInv, HeapInv
  <1> QED BY <1>1, Inductive, PTL
=============================================================================
