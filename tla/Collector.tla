----------------------------- MODULE Collector -----------------------------
(***************************************************************************)
(* The garbage collector of the enclave's Lua VM as lgc.cpp has it: the    *)
(* objects are in three lists that are swept a few at a time, sweepgc      *)
(* points into one of them while the program, finalizers and emergency     *)
(* collections change them, and the atomic step is a sequence of loops     *)
(* over work lists.  Program steps are those of Tricolour, which it        *)
(* implements.                                                             *)
(***************************************************************************)
EXTENDS Integers, SequencesExt

CONSTANTS Objects, Main, UpVals, None, Closed, KindChoices, MaxFin,
  SweepMax      \* GCSWEEPMAX, objects swept in a step

ListNames == {"allgc", "finobj", "tobefnz"}

ASSUME SweepMaxAssumption == SweepMax \in Nat \ {0}
ASSUME NamesAssumption == Objects \intersect (ListNames \union {"NULL"}) = {}
ASSUME ObjectsFinite == IsFiniteSet(Objects)

VARIABLES kind, key, val, up, at, cell, stack, color, gray, grayagain, touched,
  twups, gcstate,
  allweak,      \* tables with weak keys and values that were traversed
  list,         \* the lists of objects by name, their first object first
  sweepgc,      \* the object whose next field comes next, a list's name, or NULL
  full          \* in an emergency collection: "finish" the cycle, then do a "cycle"

heap == <<kind, key, val, up, at, cell>>
vars == <<kind, key, val, up, at, cell, stack, color, gray, grayagain, touched,
          twups, gcstate, allweak, list, sweepgc, full>>

Sweeping == gcstate \in {"swpallgc", "swpfinobj", "swptobefnz", "swpend"}

Marks == INSTANCE Tricolour WITH
  gcstate <- IF Sweeping THEN "sweep" ELSE gcstate,
  finobj  <- ToSet(list["finobj"]),
  tobefnz <- ToSet(list["tobefnz"])

ASSUME ObjectsAssumption == /\ None \notin Objects /\ Main \notin Objects
                            /\ None \notin Marks!Kind
ASSUME UpValsAssumption == None \notin UpVals
ASSUME ClosedAssumption == Closed \notin Objects
ASSUME KindAssumption == KindChoices \subseteq [Objects -> Marks!Kind \union {None}]

Nodes == Objects \union {Main}

Init ==
  /\ kind \in KindChoices
  /\ key = [o \in Objects |-> None] /\ val = [o \in Objects |-> None]
  /\ up = [o \in Objects |-> None]
  /\ at = [u \in UpVals |-> Closed] /\ cell = [u \in UpVals |-> None]
  /\ stack = {}
  /\ color = [o \in Nodes |-> IF o = Main THEN "white" ELSE "free"]
  /\ gray = {} /\ grayagain = {} /\ touched = {} /\ twups = {} /\ allweak = {}
  /\ gcstate = "pause"
  /\ list = [l \in ListNames |-> <<>>]
  /\ sweepgc = "NULL"
  /\ full = "no"

-----------------------------------------------------------------------------
(* Sweeping.  A place in a list is its name, for the header, or an object, *)
(* for its next field, which is in whatever list the object is in.         *)

State == [list |-> list, color |-> color]
ListOf(s, p) == IF p \in ListNames THEN p
                ELSE CHOOSE l \in ListNames : p \in ToSet(s.list[l])
Place(s, p) == IF p \in ListNames THEN 0
               ELSE LET q == s.list[ListOf(s, p)] IN CHOOSE i \in DOMAIN q : q[i] = p

\* What is left of q when the objects in D leave it.
Without(q, D) ==
  LET left[n \in 0..Len(q)] ==
        IF n = 0 THEN <<>>
        ELSE IF q[n] \in D THEN left[n - 1] ELSE Append(left[n - 1], q[n])
  IN  left[Len(q)]

Smaller(a, b) == IF a < b THEN a ELSE b

\* sweeplist: at most n objects from place p; the result's p is where to go on.
SweepList(s, p, n) ==
  LET l == ListOf(s, p)
      i == Place(s, p)
      q == s.list[l]
      j == Smaller(i + n, Len(q))
      seen == SubSeq(q, i + 1, j)
      dead == {o \in ToSet(seen) : s.color[o] = "dead"}
      kept == Without(seen, dead)
  IN  [swept |->
         [list |-> [s.list EXCEPT ![l] = SubSeq(q, 1, i) \o kept \o SubSeq(q, j + 1, Len(q))],
          color |-> [o \in Nodes |-> IF o \in dead THEN "free"
                                     ELSE IF o \in ToSet(seen) THEN "white" ELSE s.color[o]]],
       p |-> IF j = Len(q) THEN "NULL" ELSE IF kept = <<>> THEN p ELSE Last(kept)]

\* sweeptolive, one object after the other until the place changes: a live object
\* or the end of the list has been passed.
SweepToLive(s, p) ==
  LET moves == {n \in 1..Len(s.list[ListOf(s, p)]) : SweepList(s, p, n).p # p}
  IN  SweepList(s, p, Min(moves))

\* The collector's state becomes s; threads that were freed close their upvalues.
Become(s) == list' = s.list /\ color' = s.color
FreedIn(s) == {o \in Objects : s.color[o] = "free" /\ color[o] # "free"}

\* entersweep.
EnterSweep(s) ==
  LET r == SweepList(s, "allgc", 1)
  IN  /\ Become(r.swept)
      /\ sweepgc' = r.p
      /\ gcstate' = "swpallgc"

\* sweepstep.
SweepStep(this, next, place) ==
  /\ gcstate = this
  /\ \E r \in {IF sweepgc = "NULL" THEN [swept |-> State, p |-> "NULL"]
               ELSE SweepList(State, sweepgc, SweepMax)} :
       /\ Become(r.swept)
       /\ Marks!Free(FreedIn(r.swept))
       /\ IF r.p # "NULL" THEN sweepgc' = r.p /\ UNCHANGED gcstate
          ELSE sweepgc' = place /\ gcstate' = next
  /\ UNCHANGED <<kind, stack, gray, grayagain, twups, allweak, full>>

\* GCSswpend.
SweepEnd ==
  /\ gcstate = "swpend"
  /\ color' = [color EXCEPT ![Main] = "white"]
  /\ gcstate' = "callfin"
  /\ UNCHANGED <<heap, stack, gray, grayagain, touched, twups, allweak, list, sweepgc, full>>

-----------------------------------------------------------------------------
(* The atomic step, on a record of what it changes.  It goes through its   *)
(* first gray objects in GCSatomic, then through others inside of atomic.  *)

IsWhite(h, v) == v # None /\ h.color[v] = "white"
MarkIn(h, V) ==
  LET W == {v \in V : IsWhite(h, v)}
  IN  [h EXCEPT
        !.color = [o \in Nodes |-> IF o \notin W THEN @[o]
                                   ELSE IF kind[o] = "userdata" THEN "black" ELSE "gray"],
        !.gray = @ \union {v \in W : kind[v] # "userdata"}]

\* traverseweakvalue.
TraverseWeakValue(h, o) ==
  LET m == MarkIn(h, {h.key[o]})
  IN  IF IsWhite(m, h.val[o]) THEN [m EXCEPT !.weak = @ \union {o}] ELSE m

\* traverseephemeron.
TraverseEphemeron(h, o) ==
  IF ~IsWhite(h, h.key[o]) THEN MarkIn(h, {h.val[o]})
  ELSE IF IsWhite(h, h.val[o]) THEN [h EXCEPT !.ephemeron = @ \union {o}]
  ELSE [h EXCEPT !.allweak = @ \union {o}]

\* traverseLclosure.
TraverseClosure(h, o, inside) ==
  IF up[o] = None THEN h
  ELSE IF at[up[o]] # Closed /\ ~inside THEN [h EXCEPT !.touched = @ \union {up[o]}]
  ELSE MarkIn(h, {IF at[up[o]] = Closed THEN cell[up[o]] ELSE h.val[at[up[o]]]})

\* traversethread.
TraverseThread(h, o, inside) ==
  LET m == [MarkIn(h, {h.val[o]}) EXCEPT !.grayagain = @ \union {o}]
  IN  IF inside /\ \E u \in UpVals : at[u] = o
      THEN [m EXCEPT !.twups = @ \union {o}] ELSE m

\* propagatemark.
PropagateMark(h0, o, inside) ==
  LET h == [h0 EXCEPT !.gray = @ \ {o}]
      black == [h EXCEPT !.color[o] = "black"]
  IN  IF o = Main THEN [MarkIn(h, stack) EXCEPT !.grayagain = @ \union {o}]
      ELSE CASE kind[o] \in {"table", "box"} -> MarkIn(black, {h.val[o]})
             [] kind[o] = "closure" -> TraverseClosure(black, o, inside)
             [] kind[o] = "thread" -> TraverseThread(h, o, inside)
             [] kind[o] = "weakv" -> TraverseWeakValue(h, o)
             [] kind[o] = "ephemeron" -> TraverseEphemeron(h, o)
             [] OTHER -> [h EXCEPT !.allweak = @ \union {o}]

\* propagateall: while there is a gray object.  Each turns gray once at most.
PropagateAll(h, inside) ==
  LET after[n \in Nat] ==
        IF n = 0 THEN h
        ELSE LET g == after[n - 1]
             IN  IF g.gray = {} THEN g
                 ELSE PropagateMark(g, CHOOSE o \in g.gray : TRUE, inside)
  IN  after[Cardinality(Nodes)]

\* convergeephemerons: passes over the ephemeron list, whose rest is next, until one
\* marks nothing.
ConvergeStep(h) ==
  IF h.next # {}
  THEN LET o == CHOOSE o \in h.next : TRUE
           t == TraverseEphemeron([h EXCEPT !.next = @ \ {o}], o)
       IN  IF t.color = h.color THEN t ELSE [PropagateAll(t, TRUE) EXCEPT !.changed = TRUE]
  ELSE IF h.changed THEN [h EXCEPT !.next = h.ephemeron, !.ephemeron = {}, !.changed = FALSE]
  ELSE h
\* As many passes as a node can turn gray in, and one, of a step for each node.
ConvergeSteps == (Cardinality(Nodes) + 1) * (Cardinality(Nodes) + 1)
ConvergeEphemerons(h) ==
  LET after[n \in Nat] ==
        IF n = 0 THEN [h EXCEPT !.changed = TRUE] ELSE ConvergeStep(after[n - 1])
  IN  after[ConvergeSteps]

\* clearvalues, clearkeys: the entries of the tables in T are removed.
RemoveEntries(h, T) ==
  [h EXCEPT !.key = [o \in Objects |-> IF o \in T THEN None ELSE @[o]],
            !.val = [o \in Objects |-> IF o \in T THEN None ELSE @[o]]]
ClearValues(h, T) == RemoveEntries(h, {o \in T : IsWhite(h, h.val[o])})
ClearKeys(h, T) == RemoveEntries(h, {o \in T : IsWhite(h, h.key[o])})

\* remarkupvals.
RemarkUpvals(h) ==
  LET marked == {th \in h.twups : ~IsWhite(h, th) /\ \E u \in UpVals : at[u] = th}
      again == {u \in h.touched : at[u] \in h.twups \ marked}
  IN  [MarkIn(h, {h.val[at[u]] : u \in again}) EXCEPT
        !.twups = marked, !.touched = @ \ again]

\* atomic up to the finalizers, after the propagateall of GCSatomic.
MarkReachable ==
  LET h == PropagateAll([color |-> color, key |-> key, val |-> val, gray |-> gray,
             grayagain |-> grayagain, weak |-> {}, ephemeron |-> {}, allweak |-> allweak,
             touched |-> touched, twups |-> twups, next |-> {}, changed |-> FALSE], FALSE)
      m == PropagateAll(RemarkUpvals(h), TRUE)
      n == ConvergeEphemerons(PropagateAll([m EXCEPT !.gray = h.grayagain], TRUE))
  IN  ClearValues(n, n.weak \union n.allweak)

\* The rest of atomic, with r the objects to be finalized marked.
MarkResurrected(h, toFinalize) ==
  LET n == ConvergeEphemerons(PropagateAll(MarkIn(h, toFinalize), TRUE))
  IN  ClearValues(ClearKeys(n, n.ephemeron \union n.allweak),
                  (n.weak \ h.weak) \union (n.allweak \ h.allweak))

\* Mutant: it does not.
FlipWhiteNot(c) == c
\* The current white changes: what is not marked is dead.
FlipWhite(c) == [o \in Nodes |-> IF c[o] = "white" THEN "dead" ELSE c[o]]

\* atomic and entersweep.
Atomic ==
  /\ gcstate = "atomic"
  /\ \E h \in {MarkReachable} :
     LET white == {o \in Objects : IsWhite(h, o)}
         tofin == list["tobefnz"] \o Without(list["finobj"], Objects \ white) IN
     \E m \in {MarkResurrected(h, ToSet(tofin))} :
       LET s == [list |-> [list EXCEPT !["finobj"] = Without(@, white), !["tobefnz"] = tofin],
                 color |-> FlipWhite(m.color)]
           freed == FreedIn(SweepList(s, "allgc", 1).swept)
       IN  /\ EnterSweep(s)
           /\ key' = Marks!Emptied(m.key, freed) /\ val' = Marks!Emptied(m.val, freed)
           /\ up' = Marks!Emptied(up, freed)
           /\ Marks!Closing(freed)
           /\ touched' = {u \in m.touched : at[u] \notin freed}
           /\ twups' = m.twups
  /\ gray' = {} /\ grayagain' = {} /\ allweak' = {}
  /\ UNCHANGED <<kind, stack, full>>

-----------------------------------------------------------------------------
(* The other steps of the collector.                                       *)

\* GCSpause; full collections start theirs here.
Restart ==
  /\ gcstate' = "propagate" /\ allweak' = {}
  /\ UNCHANGED <<list, sweepgc, full>>
  /\ Marks!Restart

\* GCSpropagate.
Propagate(o) ==
  /\ gcstate = "propagate"
  /\ allweak' = IF o # Main /\ kind[o] = "allweak" THEN allweak \union {o} ELSE allweak
  /\ gcstate' = IF (gray \ {o}) \union Marks!ToVisit(Marks!Refs(o, Marks!NonWhite, FALSE)) = {}
                THEN "atomic" ELSE "propagate"
  /\ UNCHANGED <<list, sweepgc, full>>
  /\ Marks!Propagate(o)

\* Mutants: before the finalizers are called; the collection never ends.
CycleEndEarly ==
  /\ gcstate = "callfin"
  /\ gcstate' = "pause"
  /\ full' = IF full = "finish" THEN "cycle" ELSE "no"
  /\ UNCHANGED <<heap, stack, color, gray, grayagain, touched, twups, allweak, list, sweepgc>>
CycleEndNever ==
  /\ gcstate = "callfin"
  /\ list["tobefnz"] = <<>> \/ full # "no"
  /\ gcstate' = "pause"
  /\ full' = IF full = "finish" THEN "cycle" ELSE full
  /\ UNCHANGED <<heap, stack, color, gray, grayagain, touched, twups, allweak, list, sweepgc>>

\* GCScallfin without more finalizers, or in an emergency collection.
CycleEnd ==
  /\ gcstate = "callfin"
  /\ list["tobefnz"] = <<>> \/ full # "no"
  /\ gcstate' = "pause"
  /\ full' = IF full = "finish" THEN "cycle" ELSE "no"
  /\ UNCHANGED <<heap, stack, color, gray, grayagain, touched, twups, allweak, list, sweepgc>>

\* Mutant: the object is not linked into allgc.
CallFinalizerLost ==
  /\ gcstate # "pause" /\ full = "no"
  /\ list["tobefnz"] # <<>>
  /\ LET o == Head(list["tobefnz"])
     IN  /\ list' = [list EXCEPT !["tobefnz"] = Tail(@)]
         /\ stack' = stack \union {o}
         /\ color' = IF Sweeping THEN [color EXCEPT ![o] = "white"] ELSE color
  /\ UNCHANGED <<heap, gray, grayagain, touched, twups, gcstate, allweak, sweepgc, full>>

\* GCTM, from runafewfinalizers: at the end of any step, or in GCScallfin.
CallFinalizer ==
  /\ gcstate # "pause" /\ full = "no"
  /\ list["tobefnz"] # <<>>
  /\ LET o == Head(list["tobefnz"])
     IN  /\ list' = [list EXCEPT !["tobefnz"] = Tail(@), !["allgc"] = <<o>> \o @]
         /\ stack' = stack \union {o}
         /\ color' = IF Sweeping THEN [color EXCEPT ![o] = "white"] ELSE color
  /\ UNCHANGED <<heap, gray, grayagain, touched, twups, gcstate, allweak, sweepgc, full>>

\* luaC_fullgc from luaM_realloc_, up to its first step: the program waits for it.
FullGC ==
  /\ full = "no"
  /\ full' = IF gcstate = "pause" THEN "cycle" ELSE "finish"
  /\ IF gcstate \in {"propagate", "atomic"}
     THEN EnterSweep(State) /\ gray' = {} /\ grayagain' = {} /\ allweak' = {}
     ELSE UNCHANGED <<color, gray, grayagain, allweak, list, gcstate, sweepgc>>
  /\ UNCHANGED <<heap, stack, touched, twups>>

-----------------------------------------------------------------------------
(* The program.                                                            *)

\* Steps that leave the lists alone.
Access ==
  /\ UNCHANGED <<gcstate, allweak, list, sweepgc, full>>
  /\ \E o \in stack :
       \/ \E v \in Marks!Slots(o) : Marks!Load(o, v)
       \/ Marks!Drop(o)
       \/ \E k, v \in stack \union {None} : Marks!StoreTable(o, k, v)
       \/ \E v \in stack \union {None} :
            Marks!StoreBox(o, v) \/ Marks!StoreThread(o, v) \/ Marks!SetUpval(o, v)
       \/ \E p \in Marks!OfKind({"closure"}) : Marks!UpvalueJoin(o, p)
       \/ Marks!CloseUpval(o)

\* luaC_newobj.
NewObject(o) ==
  /\ UNCHANGED <<gcstate, allweak, sweepgc, full>>
  /\ list' = [list EXCEPT !["allgc"] = <<o>> \o @]
  /\ Marks!NewObject(o) \/ \E u \in UpVals : Marks!NewClosure(o, u)

\* The object moves from allgc to finobj.
ToFinobj(q, o) == [q EXCEPT !["allgc"] = Without(@, {o}), !["finobj"] = <<o>> \o @]
MayFinalize(o) ==
  /\ kind[o] \in Marks!Weak \union {"table", "userdata"}
  /\ o \notin ToSet(list["finobj"] \o list["tobefnz"])
  /\ Len(list["finobj"]) + Len(list["tobefnz"]) < MaxFin

\* Mutant: sweepgc goes along to the other list.
CheckFinalizerAstray(o) ==
  /\ MayFinalize(o)
  /\ list' = ToFinobj(list, o)
  /\ color' = IF Sweeping THEN [color EXCEPT ![o] = "white"] ELSE color
  /\ UNCHANGED <<heap, stack, gray, grayagain, touched, twups, gcstate, allweak, sweepgc,
                 full>>

\* luaC_checkfinalizer.
CheckFinalizer(o) ==
  /\ MayFinalize(o)
  /\ LET white == IF Sweeping THEN [State EXCEPT !.color[o] = "white"] ELSE State IN
     \E r \in {IF Sweeping /\ sweepgc = o THEN SweepToLive(white, o)
               ELSE [swept |-> white, p |-> sweepgc]} :
       /\ Become([r.swept EXCEPT !.list = ToFinobj(@, o)])
       /\ sweepgc' = r.p
       /\ Marks!Free(FreedIn(r.swept))
  /\ UNCHANGED <<kind, stack, gray, grayagain, twups, gcstate, allweak, full>>

Program ==
  /\ full = "no"
  /\ \/ Access
     \/ \E o \in Objects : NewObject(o)
     \/ \E o \in stack : CheckFinalizer(o)

Step ==
  \/ Restart
  \/ \E o \in gray : Propagate(o)
  \/ Atomic
  \/ SweepStep("swpallgc", "swpfinobj", "finobj")
  \/ SweepStep("swpfinobj", "swptobefnz", "tobefnz")
  \/ SweepStep("swptobefnz", "swpend", "NULL")
  \/ SweepEnd
  \/ CycleEnd

Next == Program \/ Step \/ CallFinalizer \/ FullGC
Spec == Init /\ [][Next]_vars

\* The program allocates for ever, and pays for each allocation with steps of the
\* collector (luaC_checkGC); an emergency collection waits for nothing.  One of
\* these is always enabled, so this is their weak fairness.
CollectorStep == Step \/ (gcstate = "callfin" /\ CallFinalizer)
FairSpec == Spec /\ []<><<CollectorStep>>_vars

-----------------------------------------------------------------------------
\* What the program can get at from the objects in R.
From(R) ==
  LET reach[n \in Nat] ==
        IF n = 0 THEN R
        ELSE LET m == reach[n - 1] IN m \union (UNION {Marks!Slots(o) : o \in m} \ {None})
  IN  reach[Cardinality(Objects)]

\* The lists, the loops and the emergency collections implement the collector of
\* Tricolour: what is swept one list at a time, with finalizers called and set
\* between, is what is swept in any order, and every object is.
MarksSpec == Marks!Spec

\* Every object is in one of the lists, once (luaC_newobj, luaC_checkfinalizer,
\* udata2finalize, separatetobefnz, sweeplist): an object in none is never freed, one
\* in two is freed twice.
Lists == list["allgc"] \o list["finobj"] \o list["tobefnz"]
OneList ==
  /\ IsInjective(Lists)
  /\ ToSet(Lists) = Marks!Allocated

\* Garbage is freed in the end: what neither the program nor a finalizer can get at
\* any more does not stay, however the program and emergency collections go on.
GarbageFreed ==
  \A o \in Objects :
    []<>(color[o] # "free" => o \in From(stack \union ToSet(list["finobj"] \o list["tobefnz"])))

\* Unless the VM is for ever short of memory, the finalizer of an object that the
\* program cannot get at any more is called.
FinalizersCalled ==
  \A o \in Objects :
    []<>(full # "no" \/ o \notin ToSet(list["finobj"] \o list["tobefnz"]) \/ o \in From(stack))

\* An emergency collection, which the allocation waits for, ends.
EmergencyEnds == []<>(full = "no")

\* lobject.h, checkliveness of every value that is moved: it is not dead.
ValuesLive == \A o \in stack : color[o] \notin {"dead", "free"}
=============================================================================
