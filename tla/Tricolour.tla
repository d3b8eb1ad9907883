----------------------------- MODULE Tricolour -----------------------------
(***************************************************************************)
(* What the incremental garbage collector of the enclave's Lua VM promises *)
(* (src/Enclave/lgc.cpp, lgc.h, lfunc.cpp and the barriers in lapi.cpp,    *)
(* lvm.cpp and ltable.cpp): the program runs between any two steps of the  *)
(* collector, and nothing it can still reach is ever freed.                *)
(*                                                                         *)
(* The heap is a graph.  An object has one slot of each sort: a table one  *)
(* entry, a C closure or prototype (kind "box") and a coroutine one value, *)
(* a Lua closure one upvalue, a userdata none.  None stands for everything *)
(* that is not collected by reference: nil, numbers, strings.  The lists   *)
(* of gray objects are sets, and so are the lists swept; module Collector  *)
(* has the lists themselves.                                               *)
(***************************************************************************)
EXTENDS Naturals, FiniteSets

CONSTANTS
  Objects,      \* what can be allocated
  Main,         \* the main thread
  UpVals,       \* upvalues
  None,         \* a value that is not an object; no upvalue
  Closed,       \* where the value of a closed upvalue is: in the upvalue
  MaxFin,       \* bound on objects with a finalizer at a time
  KindChoices   \* which objects may be of which kind, a set of functions

Kind == {"table", "weakv", "ephemeron", "allweak", "box", "closure", "thread",
         "userdata"}
Weak == {"weakv", "ephemeron", "allweak"}
Nodes == Objects \union {Main}

ASSUME ObjectsAssumption == /\ None \notin Objects /\ Main \notin Objects
                            /\ None \notin Kind
ASSUME UpValsAssumption == None \notin UpVals
ASSUME ClosedAssumption == Closed \notin Objects
ASSUME KindAssumption == KindChoices \subseteq [Objects -> Kind \union {None}]

VARIABLES
  kind,       \* of every object, while it is allocated; None if it never is
  key, val,   \* the entry of a table, the value of a box or of a thread's slot
  up,         \* the upvalue of a closure
  at, cell,   \* of an upvalue: the thread it is open in or Closed, and its own value
  stack,      \* what the stack of the main thread holds
  color,      \* "dead" is the other white, of what the last marking did not reach
  gray,       \* objects to traverse
  grayagain,  \* objects to traverse again in the atomic step
  touched,    \* open upvalues whose closure was traversed, or that are new
  twups,      \* the list of threads with open upvalues
  gcstate,
  finobj,     \* objects with a finalizer
  tobefnz     \* objects whose finalizer is to be called

heap == <<kind, key, val, up, at, cell>>
vars == <<kind, key, val, up, at, cell, stack, color, gray, grayagain, touched,
          twups, gcstate, finobj, tobefnz>>

Value == Objects \union {None}
Color == {"free", "white", "gray", "black", "dead"}
Allocated == {o \in Objects : color[o] # "free"}
Live == {o \in Objects : color[o] \notin {"free", "dead"}}
Threads == {o \in Objects : kind[o] = "thread"}
OfKind(K) == {o \in stack : kind[o] \in K}

KeepInvariant == gcstate \in {"propagate", "atomic"}

TypeOK ==
  /\ kind \in [Objects -> Kind \union {None}]
  /\ key \in [Objects -> Value] /\ val \in [Objects -> Value]
  /\ up \in [Objects -> UpVals \union {None}]
  /\ at \in [UpVals -> Objects \union {Closed}] /\ cell \in [UpVals -> Value]
  /\ stack \subseteq Objects
  /\ color \in [Nodes -> Color]
  /\ gray \subseteq Nodes /\ grayagain \subseteq Nodes
  /\ touched \subseteq UpVals /\ twups \subseteq Threads
  /\ gcstate \in {"propagate", "atomic", "sweep", "callfin", "pause"}
  /\ finobj \subseteq Objects /\ tobefnz \subseteq Objects
  /\ \A u \in UpVals : at[u] = Closed \/ at[u] \in Threads

Init ==
  /\ kind \in KindChoices
  /\ key = [o \in Objects |-> None] /\ val = [o \in Objects |-> None]
  /\ up = [o \in Objects |-> None]
  /\ at = [u \in UpVals |-> Closed] /\ cell = [u \in UpVals |-> None]
  /\ stack = {}
  /\ color = [o \in Nodes |-> IF o = Main THEN "white" ELSE "free"]
  /\ gray = {} /\ grayagain = {} /\ touched = {} /\ twups = {}
  /\ gcstate = "pause"
  /\ finobj = {} /\ tobefnz = {}

-----------------------------------------------------------------------------
(* Marks and barriers.                                                     *)

Whites(V) == {o \in V \intersect Objects : color[o] \in {"white", "dead"}}

\* reallymarkobject on the white ones among V: a userdata has nothing to traverse.
Marked(V) ==
  [o \in Nodes |-> IF o \in Whites(V)
                   THEN IF kind[o] = "userdata" THEN "black" ELSE "gray"
                   ELSE color[o]]
ToVisit(V) == {o \in Whites(V) : kind[o] # "userdata"}
Mark(V) == color' = Marked(V) /\ gray' = gray \union ToVisit(V)

\* luaC_barrier: forwards while marking, otherwise the owner is swept.
Barrier(o, v) ==
  IF color[o] = "black" /\ Whites({v}) # {}
  THEN IF KeepInvariant
       THEN Mark({v})
       ELSE color' = [color EXCEPT ![o] = "white"] /\ gray' = gray
  ELSE UNCHANGED <<color, gray>>

\* Mutant: the object is not listed.
BarrierBackUnlisted(o, V) ==
  IF color[o] = "black" /\ Whites(V) # {}
  THEN color' = [color EXCEPT ![o] = "gray"] /\ UNCHANGED grayagain
  ELSE UNCHANGED <<color, grayagain>>

\* luaC_barrierback.  The lists have no meaning while nothing is marked.
BarrierBack(o, V) ==
  IF color[o] = "black" /\ Whites(V) # {}
  THEN /\ color' = [color EXCEPT ![o] = "gray"]
       /\ grayagain' = IF KeepInvariant THEN grayagain \union {o} ELSE grayagain
  ELSE UNCHANGED <<color, grayagain>>

\* Mutants: no barrier; a barrier that does not ask whether anything is marked.
UpvalBarrierMissing(v) == UNCHANGED <<color, gray>>
UpvalBarrierAlways(v) == Mark({v})

\* luaC_upvalbarrier, for the value v of a closed upvalue.
UpvalBarrier(v) == IF KeepInvariant THEN Mark({v}) ELSE UNCHANGED <<color, gray>>

\* Where an upvalue's value is.
Read(u) == IF at[u] = Closed THEN cell[u] ELSE val[at[u]]

-----------------------------------------------------------------------------
(* The program.  It handles what its stack holds.                          *)

\* luaC_newobj of anything but a Lua closure.
NewObject(o) ==
  /\ color[o] = "free" /\ kind[o] \in Kind \ {"closure"}
  /\ color' = [color EXCEPT ![o] = "white"]
  /\ key' = [key EXCEPT ![o] = None]
  /\ val' = [val EXCEPT ![o] = None]
  /\ stack' = stack \union {o}
  /\ UNCHANGED <<kind, up, at, cell, gray, grayagain, touched, twups, gcstate,
                 finobj, tobefnz>>

\* The closures that use an upvalue (its refcount), upvalues nobody uses.
Users(u) == {o \in Allocated : up[o] = u}
Unused == {u \in UpVals : at[u] = Closed /\ Users(u) = {}}
OpenIn(th) == {u \in UpVals : at[u] = th}

\* Mutant: the closure is listed in its thread's place.
NewClosureListed(o, u) ==
  /\ color[o] = "free" /\ kind[o] = "closure"
  /\ u \in Unused
  /\ \E th \in OfKind({"thread"}) : at' = [at EXCEPT ![u] = th]
  /\ touched' = touched \union {u}
  /\ twups' = twups \union {o}
  /\ color' = [color EXCEPT ![o] = "white"]
  /\ up' = [up EXCEPT ![o] = u]
  /\ stack' = stack \union {o}
  /\ UNCHANGED <<kind, key, val, cell, gray, grayagain, gcstate, finobj, tobefnz>>

\* pushclosure with luaF_findupval: the closure takes the open upvalue of the
\* thread's slot, or a new one, or one of its parent's; f_parser with
\* luaF_initupvals: it takes a new closed one.  No barrier: the closure is new.
NewClosure(o, u) ==
  /\ color[o] = "free" /\ kind[o] = "closure"
  /\ \/ /\ u \in Unused \/ \E p \in OfKind({"closure"}) : up[p] = u
        /\ UNCHANGED <<at, touched, twups>>
     \/ \E th \in OfKind({"thread"}) :
          IF OpenIn(th) # {}
          THEN u \in OpenIn(th) /\ UNCHANGED <<at, touched, twups>>
          ELSE /\ u \in Unused
               /\ at' = [at EXCEPT ![u] = th]
               /\ touched' = touched \union {u}
               /\ twups' = twups \union {th}
  /\ color' = [color EXCEPT ![o] = "white"]
  /\ up' = [up EXCEPT ![o] = u]
  /\ stack' = stack \union {o}
  /\ UNCHANGED <<kind, key, val, cell, gray, grayagain, gcstate, finobj, tobefnz>>

\* The program reads a slot of o: no barrier, the stack is scanned again.
Slots(o) == {key[o], val[o]} \union {Read(u) : u \in {up[o]} \ {None}}
Load(o, v) ==
  /\ v \in (Slots(o) \ {None}) \ stack
  /\ stack' = stack \union {v}
  /\ UNCHANGED <<heap, color, gray, grayagain, touched, twups, gcstate, finobj, tobefnz>>

Drop(o) ==
  /\ stack' = stack \ {o}
  /\ UNCHANGED <<heap, color, gray, grayagain, touched, twups, gcstate, finobj, tobefnz>>

\* lua_rawset, OP_SETTABLE, luaH_newkey.  A v of None is a value that is no object
\* (a number); to assign nil is to have no entry, k and v both None: what is left
\* is a dead key, which nothing marks (removeentry).
StoreTable(o, k, v) ==
  /\ kind[o] \in Weak \union {"table"}
  /\ k # None => kind[o] \in Weak
  /\ key' = [key EXCEPT ![o] = k]
  /\ val' = [val EXCEPT ![o] = v]
  /\ BarrierBack(o, {k, v})
  /\ UNCHANGED <<kind, up, at, cell, stack, gray, touched, twups, gcstate, finobj, tobefnz>>

\* lua_setupvalue of a C closure, the constants of a prototype.
StoreBox(o, v) ==
  /\ kind[o] = "box"
  /\ val' = [val EXCEPT ![o] = v]
  /\ Barrier(o, v)
  /\ UNCHANGED <<kind, key, up, at, cell, stack, grayagain, touched, twups, gcstate,
                 finobj, tobefnz>>

\* A value passed to a coroutine or assigned to a local of it: no barrier.
StoreThread(o, v) ==
  /\ kind[o] = "thread"
  /\ val' = [val EXCEPT ![o] = v]
  /\ UNCHANGED <<kind, key, up, at, cell, stack, color, gray, grayagain, touched,
                 twups, gcstate, finobj, tobefnz>>

\* OP_SETUPVAL: an open upvalue is the thread's slot.
SetUpval(o, v) ==
  /\ kind[o] = "closure" /\ up[o] # None
  /\ IF at[up[o]] = Closed
     THEN /\ cell' = [cell EXCEPT ![up[o]] = v]
          /\ UpvalBarrier(v)
          /\ UNCHANGED val
     ELSE /\ val' = [val EXCEPT ![at[up[o]]] = v]
          /\ UNCHANGED <<cell, color, gray>>
  /\ UNCHANGED <<kind, key, up, at, stack, grayagain, touched, twups, gcstate, finobj, tobefnz>>

\* lua_upvaluejoin: o shares the upvalue of p.  It gives up its own first, so that
\* joining an upvalue with itself is undefined unless another closure uses it.
UpvalueJoin(o, p) ==
  /\ kind[o] = "closure" /\ up[p] # None
  /\ up[p] = up[o] => Users(up[o]) # {o}
  /\ up' = [up EXCEPT ![o] = up[p]]
  /\ cell' = IF Users(up[o]) = {o} THEN [cell EXCEPT ![up[o]] = None] ELSE cell
  /\ IF at[up[p]] = Closed
     THEN UpvalBarrier(cell[up[p]]) /\ UNCHANGED touched
     ELSE touched' = touched \union {up[p]} /\ UNCHANGED <<color, gray>>
  /\ UNCHANGED <<kind, key, val, at, stack, grayagain, twups, gcstate, finobj,
                 tobefnz>>

\* Upvalues open in D become closed, their values move into them (luaF_close);
\* closed ones that only closures in D use are freed (luaC_upvdeccount).
Closing(D) ==
  /\ at' = [u \in UpVals |-> IF at[u] \in D THEN Closed ELSE at[u]]
  /\ cell' = [u \in UpVals |-> IF Users(u) \subseteq D THEN None
                               ELSE IF at[u] \in D THEN val[at[u]] ELSE cell[u]]

\* luaF_close when the block of the coroutine's local ends.
CloseUpval(th) ==
  /\ OpenIn(th) # {}
  /\ Closing({th})
  /\ touched' = touched \ OpenIn(th)
  /\ IF \E u \in OpenIn(th) : Users(u) # {}
     THEN UpvalBarrier(val[th]) ELSE UNCHANGED <<color, gray>>
  /\ UNCHANGED <<kind, key, val, up, stack, grayagain, twups, gcstate, finobj, tobefnz>>

-----------------------------------------------------------------------------
(* The collector, while it marks.                                          *)

\* What traversing o marks when the objects in S are marked: in the atomic step
\* also what open upvalues point to.
Refs(o, S, inside) ==
  {v \in Objects :
     \/ o = Main /\ v \in stack
     \/ /\ o # Main
        /\ \/ kind[o] \in {"table", "box", "thread"} /\ v = val[o]
           \/ kind[o] = "weakv" /\ v = key[o]
           \/ kind[o] = "ephemeron" /\ v = val[o] /\ key[o] \in S \union {None}
           \/ /\ kind[o] = "closure" /\ up[o] # None
              /\ inside \/ at[up[o]] = Closed
              /\ v = Read(up[o]) }

NonWhite == {o \in Nodes : color[o] \in {"gray", "black"}}
OpenOf(C) == {u \in UpVals : at[u] # Closed /\ \E c \in C \ {Main} :
                               kind[c] = "closure" /\ up[c] = u}

\* restartcollection.
Restart ==
  /\ gcstate = "pause"
  /\ color' = [Marked(tobefnz) EXCEPT ![Main] = "gray"]
  /\ gray' = ToVisit(tobefnz) \union {Main}
  /\ grayagain' = {}
  /\ gcstate' = "propagate"
  /\ UNCHANGED <<heap, stack, touched, twups, finobj, tobefnz>>

\* propagatemark: threads and weak tables stay gray, to be traversed again; there is
\* nothing to traverse in an all-weak one, which goes to the allweak list.
StaysGray(o) == o = Main \/ kind[o] \in Weak \union {"thread"}
VisitAgain(o) == StaysGray(o) /\ (o = Main \/ kind[o] # "allweak")
Propagate(o) ==
  LET V == Whites(Refs(o, NonWhite, FALSE))
  IN  /\ gcstate = "propagate"
      /\ o \in gray
      /\ color' = [Marked(V) EXCEPT ![o] = IF StaysGray(o) THEN "gray" ELSE "black"]
      /\ gray' = (gray \ {o}) \union ToVisit(V)
      /\ grayagain' = IF VisitAgain(o) THEN grayagain \union {o} ELSE grayagain
      /\ touched' = touched \union OpenOf({o})
      /\ gcstate' = IF gray' = {} THEN "atomic" ELSE "propagate"
      /\ UNCHANGED <<heap, stack, twups, finobj, tobefnz>>

\* The least set that contains S and what its members in T, or newly in it, mark.
IsClosed(M, S, T, inside) ==
  \A o \in (M \ S) \union (M \intersect T) : Refs(o, M, inside) \subseteq M
MarkAll(S, T, inside) ==
  LET closed == {M \in SUBSET Nodes : S \subseteq M /\ IsClosed(M, S, T, inside)}
  IN  {o \in Nodes : \A M \in closed : o \in M}

\* propagateall; P is what is marked then.  An ephemeron table that is traversed
\* before its key is marked waits, with what only it refers to.
Propagations ==
  {P \in SUBSET MarkAll(NonWhite, gray, FALSE) :
     /\ NonWhite \subseteq P
     /\ \A o \in gray \union (P \ NonWhite) :
          (o # Main /\ kind[o] = "ephemeron") \/ Refs(o, P, FALSE) \subseteq P}
Traversed(P) == gray \union (P \ NonWhite)
TouchedBy(P) == touched \union OpenOf(Traversed(P))

\* Mutant: upvalues of threads that are not marked are forgotten.
RemarkedNone(P) == {}

\* remarkupvals: the values of touched upvalues of threads that are not marked.
Remarked(P) ==
  {val[at[u]] : u \in {w \in TouchedBy(P) : at[w] \in twups \ P}} \ ({None} \union P)

\* propagateall with grayagain, convergeephemerons: R is what is reachable without
\* going through an object to be finalized.
Reached(P) ==
  MarkAll(P \union Remarked(P),
          grayagain \union {o \in Traversed(P) : StaysGray(o)} \union Remarked(P), TRUE)

\* separatetobefnz, markbeingfnz, propagateall, convergeephemerons: M is what is
\* marked once the objects F to be finalized are.
ToFinalize(R) == tobefnz \union (finobj \ R)
Resurrected(R, F) ==
  MarkAll(R \union F, (F \ R) \union {o \in R \ {Main} : kind[o] = "ephemeron"}, TRUE)

\* clearvalues, clearkeys: entries of weak tables that lose their value or key.
\* A key that is to be finalized keeps its entry, a value does not.
Cleared(R, M) ==
  {o \in M \ {Main} :
     \/ /\ kind[o] \in {"weakv", "allweak"}
        /\ val[o] \notin {None} \union (IF o \in R THEN R ELSE M)
     \/ /\ kind[o] \in {"ephemeron", "allweak"}
        /\ key[o] \notin {None} \union M}

-----------------------------------------------------------------------------
(* The collector, while it sweeps.                                         *)

\* sweeplist over the objects in S, when the colors are c: the dead are freed, the
\* others turn white.
Swept(S, c) ==
  [o \in Nodes |-> IF o \in S /\ c[o] # "free"
                   THEN IF c[o] = "dead" THEN "free" ELSE "white"
                   ELSE c[o]]
Unswept == {o \in Objects : color[o] \in {"gray", "black", "dead"}}
Freed(S, c) == {o \in S : c[o] = "dead"}

\* freeobj of the objects in D, of a thread also its open upvalues.
Emptied(f, D) == [o \in Objects |-> IF o \in D THEN None ELSE f[o]]
Free(D) ==
  /\ key' = Emptied(key, D) /\ val' = Emptied(val, D) /\ up' = Emptied(up, D)
  /\ Closing(D)
  /\ touched' = {u \in touched : at[u] \notin D}

\* What is not marked is dead from now on: the current white changes.
Flipped(M) ==
  [o \in Nodes |-> IF color[o] = "free" THEN "free"
                   ELSE IF o \notin M THEN "dead"
                   ELSE IF StaysGray(o) THEN "gray" ELSE "black"]

\* Mutant: a thread that is marked late is not linked again.
KeptThreadsLate(M) == {th \in twups \intersect NonWhite : OpenIn(th) # {}}
\* remarkupvals, traversethread: marked threads with open upvalues stay listed.
KeptThreads(M) == {th \in Threads \intersect M : OpenIn(th) # {}}

\* atomic, then entersweep, which sweeps at most one object: those in S.
EndAtomic(P, R, F, M, S) ==
  LET D == Freed(S, Flipped(M))
  IN  /\ tobefnz' = F
      /\ finobj' = finobj \intersect R
      /\ twups' = KeptThreads(M)
      /\ color' = Swept(S, Flipped(M))
      /\ key' = Emptied(key, Cleared(R, M) \union D)
      /\ val' = Emptied(val, Cleared(R, M) \union D)
      /\ up' = Emptied(up, D)
      /\ Closing(D)
      /\ touched' = {u \in TouchedBy(P) : at[u] \notin (twups \ P) \union D}
AtMostOne == {{}} \union {{o} : o \in Objects}
Atomic ==
  /\ gcstate = "atomic"
  /\ \E P \in Propagations : \E R \in {Reached(P)} : \E F \in {ToFinalize(R)} :
     \E M \in {Resurrected(R, F)}, S \in AtMostOne : EndAtomic(P, R, F, M, S)
  /\ gray' = {} /\ grayagain' = {}
  /\ gcstate' = "sweep"
  /\ UNCHANGED <<kind, stack>>

\* luaC_fullgc while marking: sweep everything white, nothing is dead.
Abandon ==
  /\ KeepInvariant
  /\ \E S \in AtMostOne : color' = Swept(S, color)
  /\ gray' = {} /\ grayagain' = {}
  /\ gcstate' = "sweep"
  /\ UNCHANGED <<heap, stack, touched, twups, finobj, tobefnz>>

\* sweepstep.
Sweep(S) ==
  /\ gcstate = "sweep"
  /\ color' = Swept(S, color)
  /\ Free(Freed(S, color))
  /\ UNCHANGED <<kind, stack, gray, grayagain, twups, gcstate, finobj, tobefnz>>

\* GCSswpend: all lists are swept, the main thread turns white.
SweepEnd ==
  /\ gcstate = "sweep"
  /\ \A o \in Allocated : color[o] = "white"
  /\ color' = [color EXCEPT ![Main] = "white"]
  /\ gcstate' = "callfin"
  /\ UNCHANGED <<heap, stack, gray, grayagain, touched, twups, finobj, tobefnz>>

CycleEnd ==
  /\ gcstate = "callfin"
  /\ gcstate' = "pause"
  /\ UNCHANGED <<heap, stack, color, gray, grayagain, touched, twups, finobj, tobefnz>>

\* luaC_checkfinalizer: while sweeping the object turns white, and the sweep may
\* have to go on to the next object that is not freed.
SetFinalizer(o, S) ==
  /\ kind[o] \in Weak \union {"table", "userdata"}
  /\ o \notin finobj \union tobefnz
  /\ Cardinality(finobj \union tobefnz) < MaxFin
  /\ gcstate # "sweep" => S = {}
  /\ finobj' = finobj \union {o}
  /\ IF gcstate = "sweep"
     THEN color' = Swept(S \union {o}, color) /\ Free(Freed(S, color))
     ELSE UNCHANGED <<color, key, val, up, at, cell, touched>>
  /\ UNCHANGED <<kind, stack, gray, grayagain, twups, gcstate, tobefnz>>

\* GCTM: the object is normal again, and the argument of its finalizer.
CallFinalizer(o) ==
  /\ gcstate # "pause"
  /\ o \in tobefnz
  /\ tobefnz' = tobefnz \ {o}
  /\ stack' = stack \union {o}
  /\ color' = IF gcstate = "sweep" THEN [color EXCEPT ![o] = "white"] ELSE color
  /\ UNCHANGED <<heap, gray, grayagain, touched, twups, gcstate, finobj>>

-----------------------------------------------------------------------------
Program ==
  \/ \E o \in Objects : NewObject(o)
  \/ \E o \in Objects, u \in UpVals : NewClosure(o, u)
  \/ \E o \in stack : \/ \E v \in Slots(o) : Load(o, v)
                      \/ Drop(o)
                      \/ \E S \in SUBSET Unswept : SetFinalizer(o, S)
                      \/ \E k, v \in stack \union {None} : StoreTable(o, k, v)
                      \/ \E v \in stack \union {None} :
                           StoreBox(o, v) \/ StoreThread(o, v) \/ SetUpval(o, v)
                      \/ \E p \in OfKind({"closure"}) : UpvalueJoin(o, p)
                      \/ CloseUpval(o)

Collect ==
  \/ Restart
  \/ \E o \in gray : Propagate(o)
  \/ Atomic
  \/ Abandon
  \/ \E S \in (SUBSET Unswept) \ {{}} : Sweep(S)
  \/ SweepEnd
  \/ CycleEnd
  \/ \E o \in tobefnz : CallFinalizer(o)

Next == Program \/ Collect
Spec == Init /\ [][Next]_vars

-----------------------------------------------------------------------------
\* Nothing the program can reach, now or through a finalizer, is freed or about to
\* be: not even through a weak table, or an upvalue of a dead coroutine.
ReadsLive(u) == Read(u) \in Live \union {None}
NoDangling ==
  /\ stack \union finobj \union tobefnz \subseteq Live
  /\ \A o \in Live :
       /\ key[o] \in Live \union {None}
       /\ val[o] \in Live \union {None}
       /\ up[o] # None => ReadsLive(up[o])

\* lgc.h, "The main invariant of the garbage collector, while marking objects, is
\* that a black object can never point to a white one" - except that what an
\* open upvalue points to is looked up again when it is touched.
BlackToWhite ==
  KeepInvariant =>
    \A o \in Objects : color[o] = "black" =>
      /\ Whites(Refs(o, Nodes, FALSE)) = {}
      /\ OpenOf({o}) \subseteq touched

\* lgc.h, "any gray object must be in a gray list so that it can be visited again
\* before finishing the collection cycle", and only gray ones are.
GrayListed ==
  KeepInvariant =>
    /\ gray \union grayagain \subseteq {o \in Nodes : color[o] = "gray"}
    /\ \A o \in Nodes : color[o] = "gray" =>
         o \in gray \union grayagain \/ (o # Main /\ kind[o] = "allweak")

\* Nothing is dead but while sweeping, and everything is white between the end of
\* a sweep and the next restart.
CycleColors ==
  /\ gcstate # "sweep" => \A o \in Objects : color[o] # "dead"
  /\ gcstate \in {"callfin", "pause"} => \A o \in Allocated : color[o] = "white"

\* The list of threads with open upvalues has no thread that is freed, and every
\* live thread with an open upvalue (lua_assert of luaF_findupval, traversethread).
UpvalThreadsListed ==
  /\ twups \subseteq Live
  /\ \A u \in UpVals : at[u] \in Live => at[u] \in twups
=============================================================================
