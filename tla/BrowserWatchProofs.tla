------------------------- MODULE BrowserWatchProofs -------------------------
(***************************************************************************)
(* Theorems about BrowserWatch, for any ids, pages and invokes, and both   *)
(* invokers.                                                               *)
(***************************************************************************)
EXTENDS BrowserWatch, FiniteSetTheorems, TLAPS

-----------------------------------------------------------------------------
(* Types *)

Maps == {m \in [anon : SUBSET Keys, decl : SUBSET DeclaredIds] :
           m.anon \intersect m.decl = {}}

Places == {"asleep", "iterating", "removing", "restarting", "dead", "idle",
           "starting", "putting"}

\* A thread that took the map takes it with one class for each key.
Typed ==
  /\ TypeOK
  /\ pc \in [Threads -> Places]
  /\ seen \in [Threads -> Maps]
  /\ request # None => request.old \in Maps

\* An update gives each key one class and leaves a time-out only with a browser.
LEMMA UpdateTypes ==
  ASSUME TypeOK, NEW key \in Keys, NEW newAnon, NEW newDecl, NEW newLate,
         NEW old \in Maps,
         newAnon \subseteq {key}, newDecl \subseteq {key} \intersect DeclaredIds,
         newAnon \intersect newDecl = {},
         newLate \subseteq newAnon \union newDecl,
         Update(key, newAnon, newDecl, newLate, old)
  PROVE  /\ anon' \subseteq Keys /\ decl' \subseteq DeclaredIds
         /\ anon' \intersect decl' = {} /\ late' \subseteq anon' \union decl'
<1> DEFINE was == old.anon \union old.decl
<1>1. PICK undone \in SUBSET (((Present \ was) \union (was \ Present)) \ {key}) :
        LET back == undone \ Present
            stays == Present \ (undone \union {key})
        IN /\ anon' = (anon \intersect stays)
                        \union (old.anon \intersect back) \union newAnon
           /\ decl' = (decl \intersect stays)
                        \union (old.decl \intersect back) \union newDecl
           /\ late' = (late \intersect stays) \union (back \ heard)
                        \union newLate
  BY DEF Update
<1> DEFINE back == undone \ Present
           stays == Present \ (undone \union {key})
<1>2. /\ anon' = (anon \intersect stays) \union (old.anon \intersect back) \union newAnon
      /\ decl' = (decl \intersect stays) \union (old.decl \intersect back) \union newDecl
      /\ late' = (late \intersect stays) \union (back \ heard) \union newLate
  BY <1>1
<1>3. /\ old.anon \subseteq Keys /\ old.decl \subseteq DeclaredIds
      /\ old.anon \intersect old.decl = {}
  BY DEF Maps
<1>4. /\ anon \subseteq Keys /\ decl \subseteq DeclaredIds
      /\ anon \intersect decl = {} /\ late \subseteq anon \union decl
  BY DEF TypeOK, Present
<1>5. /\ back \intersect stays = {} /\ key \notin back /\ key \notin stays
      /\ back \subseteq old.anon \union old.decl /\ stays \subseteq anon \union decl
  BY DEF Present
<1> HIDE DEF back, stays
<1>6. anon' \subseteq Keys /\ decl' \subseteq DeclaredIds
  BY <1>2, <1>3, <1>4
<1>7. anon' \intersect decl' = {}
  BY <1>2, <1>3, <1>4, <1>5
<1>8. late' \subseteq anon' \union decl'
  BY <1>2, <1>3, <1>4, <1>5
<1> QED BY <1>6, <1>7, <1>8

LEMMA MapTyped == ASSUME TypeOK PROVE Map \in Maps /\ NoMap \in Maps
BY DEF TypeOK, Map, NoMap, Maps

LEMMA InitTypes == Init => Typed
<1> SUFFICES ASSUME Init PROVE Typed
  OBVIOUS
<1>1. NoMap \in Maps /\ NoMap.anon = {} /\ NoMap.decl = {}
  BY DEF NoMap, Maps
<1>2. pc \in [Threads -> Places] /\ seen \in [Threads -> Maps]
  BY <1>1 DEF Init, Places
<1>3. /\ procs \in [DeclaredIds -> 0..2] /\ idOf \in [Pages -> Keys]
      /\ left \in [Threads -> SUBSET Keys] /\ at \in Keys
  BY DEF Init, Keys
<1>4. /\ pc[Watch] = "asleep" /\ \A i \in Invokers : pc[i] = "idle"
      /\ \A t \in Threads : pc[t] # "iterating" /\ seen[t] = NoMap
  BY ThreadsAssumption DEF Init, Threads
<1> QED BY <1>1, <1>2, <1>3, <1>4 DEF Init, Typed, TypeOK, Present

LEMMA RegisterTypes ==
  ASSUME Typed,
         \/ \E p \in Pages : PageAsks(p)
         \/ \E d \in DeclaredIds : ProcessAsks(d)
         \/ RequestLeaves
  PROVE  Typed'
<1> USE DEF Typed
<1>1. ASSUME NEW page, NEW key \in Keys, key = None => page \in Pages,
             RequestEnters(page, key)
      PROVE  Typed'
  <2>1. /\ request'.key = key /\ (key = None => request'.page = page)
        /\ request'.found = Found(key) /\ request'.old \in {Map, NoMap}
    BY <1>1 DEF RequestEnters
  <2>2. Found(key) \in {None, "anonymous", "declared"}
    BY DEF Found
  <2>3. request'.old \in Maps
    BY <2>1, MapTyped
  <2>4. UNCHANGED <<registry, declared, procs, idOf, threads, histories>>
    BY <1>1 DEF RequestEnters
  <2> QED BY <1>1, <2>1, <2>2, <2>3, <2>4
          DEF TypeOK, registry, threads, histories, Present, Iterating
<1>2. CASE \E p \in Pages : PageAsks(p)
  BY <1>1, <1>2 DEF PageAsks, TypeOK
<1>3. CASE \E d \in DeclaredIds : ProcessAsks(d)
  BY <1>1, <1>3, IdsAssumption DEF ProcessAsks, Keys
<1>4. CASE RequestLeaves
  <2>1. /\ request # None /\ request' = None
        /\ UNCHANGED <<declared, procs, pc, left, at, seen, abandoned>>
        /\ changed' = Invalidate /\ NoteLoss /\ fresh' = FALSE
        /\ heard' = heard \union {request.key}
    BY <1>4 DEF RequestLeaves
  <2>2. /\ anon' \subseteq Keys /\ decl' \subseteq DeclaredIds
        /\ anon' \intersect decl' = {} /\ late' \subseteq anon' \union decl'
    <3>1. CASE request.found = None
      BY <1>4, <3>1, UpdateTypes DEF RequestLeaves, TypeOK
    <3>2. CASE request.found # None
      BY <1>4, <3>2 DEF RequestLeaves, TypeOK, Present
    <3> QED BY <3>1, <3>2
  <2>3. idOf' \in [Pages -> Keys]
    BY <1>4 DEF RequestLeaves, TypeOK, Keys
  <2>4. changed' \subseteq Iterating'
    BY <2>1 DEF TypeOK, Invalidate, Iterating
  <2>5. heard' \subseteq Keys /\ excused' \in BOOLEAN
    BY <2>1 DEF TypeOK, NoteLoss
  <2> QED BY <2>1, <2>2, <2>3, <2>4, <2>5 DEF TypeOK, Present
<1> QED BY <1>2, <1>3, <1>4

LEMMA InvokeTypes ==
  ASSUME Typed, NEW i \in Invokers, InvokeBegins(i) \/ Invoke(i)
  PROVE  Typed'
<1> USE ThreadsAssumption DEF Typed, registry, histories
<1>1. CASE InvokeBegins(i)
  <2>1. Present \subseteq Keys
    BY IdsAssumption DEF TypeOK, Present, Keys
  <2>2. pc' \in [Threads -> Places] /\ left' \in [Threads -> SUBSET Keys]
    BY <1>1, <2>1 DEF InvokeBegins, TypeOK, Threads, Places
  <2>3. changed' \subseteq Iterating'
    BY <1>1 DEF InvokeBegins, TypeOK, Threads, Iterating
  <2>4. \A t \in Threads : pc'[t] = "iterating" => left'[t] # {}
    BY <1>1 DEF InvokeBegins, TypeOK, Threads
  <2>5. excused' \in BOOLEAN
    BY <1>1 DEF InvokeBegins, TypeOK
  <2> QED BY <1>1, <2>2, <2>3, <2>4, <2>5 DEF InvokeBegins, TypeOK, Threads, Present
<1>2. CASE InvokeLooks(i)
  BY <1>2 DEF InvokeLooks, InvokeEnds, TypeOK, Threads, Iterating, Places, Present
<1>3. CASE InvokeStarts(i)
  <2>1. procs' \in [DeclaredIds -> 0..2]
    BY <1>3 DEF InvokeStarts, More, TypeOK
  <2> QED BY <1>3, <2>1, MapTyped
          DEF InvokeStarts, TypeOK, Threads, Iterating, Places, Present, Maps
<1>4. CASE InvokeFails(i)
  BY <1>4 DEF InvokeFails, InvokeEnds, TypeOK, Threads, Iterating, Places, Present
<1>5. CASE InvokePuts(i)
  <2>1. /\ anon' \subseteq Keys /\ decl' \subseteq DeclaredIds
        /\ anon' \intersect decl' = {} /\ late' \subseteq anon' \union decl'
    <3>1. seen[i] \in Maps /\ declared \in Keys /\ declared \in DeclaredIds
      BY IdsAssumption DEF TypeOK, Threads, Keys
    <3> QED BY <1>5, <3>1, UpdateTypes DEF InvokePuts
  <2>2. changed' \subseteq Iterating'
    BY <1>5 DEF InvokePuts, InvokeEnds, Invalidate, TypeOK, Iterating, Threads
  <2>3. seen' \in [Threads -> Maps]
    BY <1>5, MapTyped DEF InvokePuts, Threads
  <2>4. pc' \in [Threads -> Places] /\ left' \in [Threads -> SUBSET Keys]
    BY <1>5 DEF InvokePuts, InvokeEnds, TypeOK, Threads, Places
  <2>5. excused' \in BOOLEAN
    BY <1>5 DEF InvokePuts, NoteLoss, TypeOK
  <2> QED BY <1>5, <2>1, <2>2, <2>3, <2>4, <2>5
          DEF InvokePuts, InvokeEnds, TypeOK, Threads, Present, Maps
<1> QED BY <1>1, <1>2, <1>3, <1>4, <1>5 DEF Invoke

LEMMA StopTypes ==
  ASSUME TypeOK, NEW stop \in Stopped(procs)
  PROVE  stop.procs \in [DeclaredIds -> 0..2] /\ stop.thrown \in BOOLEAN
<1>1. \A q \in Fewer(procs) : q \in [DeclaredIds -> 0..2]
  BY DEF Fewer, Running, TypeOK
<1>2. procs \in [DeclaredIds -> 0..2] /\ [d \in DeclaredIds |-> 0] \in [DeclaredIds -> 0..2]
  BY DEF TypeOK
<1>3. CASE Staf
  <2>1. PICK q \in Fewer(procs) \union {procs} : stop = [procs |-> q, thrown |-> FALSE]
    BY <1>3 DEF Stopped
  <2> QED BY <1>1, <1>2, <2>1
<1>4. CASE ~ Staf
  <2> DEFINE none == [d \in DeclaredIds |-> 0]
  <2>1. \/ stop = [procs |-> none, thrown |-> FALSE]
        \/ stop = [procs |-> procs, thrown |-> FALSE]
        \/ stop = [procs |-> procs, thrown |-> TRUE]
    BY <1>4 DEF Stopped
  <2>2. none \in [DeclaredIds -> 0..2]
    BY <1>2
  <2> HIDE DEF none
  <2>3. CASE stop = [procs |-> none, thrown |-> FALSE]
    BY <2>2, <2>3
  <2>4. CASE stop = [procs |-> procs, thrown |-> FALSE]
    BY <1>2, <2>4
  <2>5. CASE stop = [procs |-> procs, thrown |-> TRUE]
    BY <1>2, <2>5
  <2> QED BY <2>1, <2>3, <2>4, <2>5
<1> QED BY <1>3, <1>4

LEMMA CheckTypes == ASSUME Typed, Check PROVE Typed'
<1> USE ThreadsAssumption DEF Typed, registry, histories
<1>1. CASE CheckBegins
  <2>1. Present \subseteq Keys /\ None \in Keys /\ NoMap \in Maps
    BY IdsAssumption, MapTyped DEF TypeOK, Present, Keys
  <2>2. changed' \subseteq Iterating'
    BY <1>1 DEF CheckBegins, WatchGoesOn, WatchAt, TypeOK, Threads, Iterating
  <2>3. pc' \in [Threads -> Places] /\ left' \in [Threads -> SUBSET Keys]
    BY <1>1, <2>1 DEF CheckBegins, WatchGoesOn, WatchAt, TypeOK, Threads, Places
  <2>4. seen' \in [Threads -> Maps] /\ at' \in Keys
    BY <1>1, <2>1 DEF CheckBegins, WatchGoesOn, WatchAt, Threads
  <2> QED BY <1>1, <2>2, <2>3, <2>4
          DEF CheckBegins, WatchGoesOn, WatchAt, TypeOK, Threads, Present, Maps
<1>2. CASE CheckLooks
  BY <1>2, MapTyped
     DEF CheckLooks, WatchGoesOn, WatchDies, WatchAt, TypeOK, Threads, Iterating,
         Places, Present, Keys, Maps
<1>3. CASE CheckRemoves
  <2>1. ASSUME Watch \in changed, WatchDies, UNCHANGED <<registry, excused>>
        PROVE  Typed'
    BY <1>3, <2>1, MapTyped
       DEF CheckRemoves, WatchDies, WatchAt, TypeOK, Threads, Iterating, Places,
           Present, Keys, Maps
  <2>2. ASSUME Update(at, {}, {}, {}, seen[Watch]), changed' = Invalidate \ {Watch},
               NoteLoss, WatchGoesOn(left[Watch])
        PROVE  Typed'
    <3>1. /\ anon' \subseteq Keys /\ decl' \subseteq DeclaredIds
          /\ anon' \intersect decl' = {} /\ late' \subseteq anon' \union decl'
      <4>1. seen[Watch] \in Maps /\ at \in Keys
        BY DEF TypeOK, Threads
      <4> QED BY <2>2, <4>1, UpdateTypes
    <3>2. changed' \subseteq Iterating'
      BY <2>2 DEF Invalidate, WatchGoesOn, WatchAt, TypeOK, Iterating, Threads
    <3> QED BY <1>3, <2>2, <3>1, <3>2, MapTyped
            DEF CheckRemoves, NoteLoss, WatchGoesOn, WatchAt, TypeOK, Threads, Places,
                Present, Keys, Maps
  <2> QED BY <1>3, <2>1, <2>2 DEF CheckRemoves
<1>4. CASE CheckRestarts
  <2>1. PICK stop \in Stopped(procs) :
          /\ procs' = More(stop.procs, declared)
          /\ excused' = (excused \/ Running(stop.procs) # {})
          /\ abandoned' = stop.thrown
          /\ WatchGoesOn(IF stop.thrown THEN {} ELSE left[Watch])
          /\ changed' = IF pc'[Watch] = "asleep" THEN changed \ {Watch}
                        ELSE changed
    BY <1>4 DEF CheckRestarts
  <2>2. procs' \in [DeclaredIds -> 0..2]
    BY <2>1, StopTypes DEF More, TypeOK
  <2>3. abandoned' \in BOOLEAN /\ excused' \in BOOLEAN
    BY <2>1, StopTypes DEF TypeOK
  <2> QED BY <1>4, <2>1, <2>2, <2>3, MapTyped
          DEF CheckRestarts, WatchGoesOn, WatchAt, TypeOK, Threads, Iterating, Places,
              Present, Keys, Maps
<1>5. CASE CheckRestartFails
  <2>1. procs' \in [DeclaredIds -> 0..2]
    BY <1>5, StopTypes DEF CheckRestartFails, TypeOK
  <2> QED BY <1>5, <2>1, MapTyped
          DEF CheckRestartFails, WatchGoesOn, WatchAt, TypeOK, Threads, Iterating,
              Places, Present, Keys, Maps
<1> QED BY <1>1, <1>2, <1>3, <1>4, <1>5 DEF Check

LEMMA NextTypes == Typed /\ [Next]_vars => Typed'
<1> SUFFICES ASSUME Typed, [Next]_vars PROVE Typed'
  OBVIOUS
<1>1. CASE ProcessDies
  BY <1>1 DEF ProcessDies, Fewer, Running, Typed, TypeOK, registry, threads, histories,
              Present, Iterating
<1>2. ASSUME NEW key \in Keys, Expire(key) PROVE Typed'
  BY <1>2 DEF Expire, Typed, TypeOK, threads, Present, Iterating
<1>3. CASE Reconfigure
  BY <1>3 DEF Reconfigure, Typed, TypeOK, registry, threads, histories, Present,
              Iterating
<1>4. CASE UNCHANGED vars
  BY <1>4 DEF vars, registry, threads, histories, Typed, TypeOK, Present, Iterating
<1> QED BY <1>1, <1>2, <1>3, <1>4, RegisterTypes, InvokeTypes, CheckTypes DEF Next

\* BrowserHolderImpl: the registry and the places of its threads keep their
\* types; each key has one class, and iterators that are not in use do not fail.
THEOREM TypeCorrect == Safety => []TypeOK
<1>1. Typed => TypeOK
  BY DEF Typed
<1> QED BY <1>1, InitTypes, NextTypes, PTL DEF Safety

-----------------------------------------------------------------------------
(***************************************************************************)
(* The declared browsers.  What a thread inside the monitor saw in the map *)
(* is there until it leaves: only invokes write meanwhile, and all they do *)
(* to declared browsers is to put the one of the configuration, which does *)
(* not change while they run.  So an invoke that has seen no declared      *)
(* browser finds none but that one.                                        *)
(***************************************************************************)
Inside ==
  /\ request # None => ~ WatchInside
  /\ \A t \in Threads : pc[t] \notin {"removing", "putting"} => seen[t] = NoMap

SeenStays ==
  /\ seen[Watch].decl \subseteq decl
  /\ request # None =>
       /\ request.old.decl \subseteq decl
       /\ request.found = "declared" /\ request.found # None => request.key \in decl
  /\ \A i \in Invokers : seen[i].decl \subseteq {declared}

Looked ==
  \A i \in Invokers :
    /\ pc[i] = "iterating" => decl \subseteq left[i] \union {declared}
    /\ pc[i] \in {"starting", "putting"} => decl \subseteq {declared}

DeclInv == Inside /\ SeenStays /\ Looked /\ OneDeclared

\* An update brings back only what its thread saw.
LEMMA UpdateDecl ==
  ASSUME NEW key, NEW newAnon, NEW newDecl, NEW newLate, NEW old,
         Update(key, newAnon, newDecl, newLate, old)
  PROVE  /\ decl' \subseteq decl \union old.decl \union newDecl
         /\ newDecl \subseteq decl'
BY DEF Update

LEMMA InitDecl == Init => DeclInv
BY ThreadsAssumption
   DEF Init, DeclInv, Inside, SeenStays, Looked, OneDeclared, NoMap, Threads,
       WatchInside

LEMMA RegisterDecl ==
  ASSUME Typed, DeclInv,
         \/ \E p \in Pages : PageAsks(p)
         \/ \E d \in DeclaredIds : ProcessAsks(d)
         \/ RequestLeaves
  PROVE  DeclInv' /\ decl' \subseteq decl
<1> USE ThreadsAssumption DEF DeclInv
<1>1. ASSUME NEW page, NEW key, RequestEnters(page, key)
      PROVE  DeclInv' /\ decl' \subseteq decl
  <2>1. /\ request'.key = key /\ request'.found = Found(key)
        /\ request'.old \in {Map, NoMap}
    BY <1>1 DEF RequestEnters
  <2>2. request'.old.decl \subseteq decl
    BY <2>1 DEF Map, NoMap
  <2>3. Found(key) = "declared" /\ Found(key) # None => key \in decl
    BY DEF Found
  <2>4. /\ ~ WatchInside
        /\ UNCHANGED <<decl, declared, pc, left, seen>>
    BY <1>1 DEF RequestEnters, MonitorFree, registry, threads
  <2>5. Inside' /\ Looked' /\ OneDeclared'
    BY <2>4 DEF Inside, WatchInside, Looked, OneDeclared, NoMap
  <2>6. SeenStays'
    BY <2>1, <2>2, <2>3, <2>4 DEF SeenStays
  <2> QED BY <2>4, <2>5, <2>6
<1>2. CASE RequestLeaves
  <2>1. /\ request # None /\ request' = None
        /\ UNCHANGED <<declared, procs, pc, left, at, seen, abandoned>>
    BY <1>2 DEF RequestLeaves
  <2>2. decl' \subseteq decl
    <3>1. CASE request.found = None
      BY <1>2, <2>1, <3>1, UpdateDecl DEF RequestLeaves, SeenStays
    <3>2. CASE request.found # None
      BY <1>2, <3>2 DEF RequestLeaves
    <3> QED BY <3>1, <3>2
  <2>3. seen[Watch].decl = {}
    BY <2>1 DEF Inside, WatchInside, Threads, Typed, TypeOK, NoMap
  <2> QED BY <2>1, <2>2, <2>3
          DEF Inside, SeenStays, Looked, OneDeclared, WatchInside
<1> QED BY <1>1, <1>2 DEF PageAsks, ProcessAsks

LEMMA InvokeDecl ==
  ASSUME Typed, DeclInv, NEW i \in Invokers, InvokeBegins(i) \/ Invoke(i)
  PROVE  DeclInv'
<1> USE ThreadsAssumption DEF DeclInv, registry, histories
<1>0. /\ pc \in [Threads -> Places] /\ left \in [Threads -> SUBSET Keys]
      /\ seen \in [Threads -> Maps] /\ i \in Threads /\ i # Watch
      /\ Watch \in Threads /\ Invokers \subseteq Threads
  BY DEF Typed, TypeOK, Threads
<1>1. CASE InvokeBegins(i)
  BY <1>0, <1>1
     DEF InvokeBegins, Inside, SeenStays, Looked, OneDeclared, WatchInside, Present
<1>2. CASE InvokeLooks(i)
  BY <1>0, <1>2
     DEF InvokeLooks, InvokeEnds, Inside, SeenStays, Looked, OneDeclared, WatchInside
<1>3. CASE InvokeStarts(i)
  BY <1>0, <1>3
     DEF InvokeStarts, Inside, SeenStays, Looked, OneDeclared, WatchInside, Map
<1>4. CASE InvokeFails(i)
  BY <1>0, <1>4
     DEF InvokeFails, InvokeEnds, Inside, SeenStays, Looked, OneDeclared, WatchInside
<1>5. CASE InvokePuts(i)
  <2>1. decl \subseteq {declared} /\ seen[i].decl \subseteq {declared}
    BY <1>5 DEF InvokePuts, Looked, SeenStays
  <2>2. decl' = {declared}
    BY <1>5, <2>1, UpdateDecl DEF InvokePuts
  <2> QED BY <1>0, <1>5, <2>1, <2>2
          DEF InvokePuts, InvokeEnds, Inside, SeenStays, Looked, OneDeclared,
              WatchInside, NoMap
<1> QED BY <1>1, <1>2, <1>3, <1>4, <1>5 DEF Invoke

LEMMA CheckDecl ==
  ASSUME Typed, DeclInv, Check PROVE DeclInv' /\ decl' \subseteq decl
<1> USE ThreadsAssumption DEF DeclInv, registry, histories, WatchGoesOn, WatchAt
<1>0. /\ pc \in [Threads -> Places] /\ left \in [Threads -> SUBSET Keys]
      /\ seen \in [Threads -> Maps]
      /\ Watch \in Threads /\ Invokers \subseteq Threads
  BY DEF Typed, TypeOK, Threads
<1>1. CASE CheckBegins
  BY <1>0, <1>1
     DEF CheckBegins, MonitorFree, Inside, SeenStays, Looked, OneDeclared,
         WatchInside, NoMap
<1>2. CASE CheckLooks
  <2>1. request = None
    BY <1>2 DEF CheckLooks, Inside, WatchInside
  <2>2. /\ UNCHANGED <<declared, request, decl>>
        /\ \A i \in Invokers :
             pc'[i] = pc[i] /\ left'[i] = left[i] /\ seen'[i] = seen[i]
    BY <1>0, <1>2 DEF CheckLooks, WatchDies
  <2>3. \/ seen'[Watch] = NoMap
        \/ seen'[Watch] = Map /\ pc'[Watch] = "removing"
    BY <1>0, <1>2 DEF CheckLooks, WatchDies
  <2>4. seen'[Watch].decl \subseteq decl
    BY <2>3 DEF Map, NoMap
  <2>5. Inside' /\ SeenStays' /\ Looked' /\ OneDeclared'
    BY <1>0, <2>1, <2>2, <2>3, <2>4
       DEF Inside, SeenStays, Looked, OneDeclared, WatchInside, Threads, NoMap
  <2> QED BY <2>2, <2>5
<1>3. CASE CheckRemoves
  <2>1. request = None
    BY <1>3 DEF CheckRemoves, Inside, WatchInside
  <2>2. decl' \subseteq decl
    BY <1>3, UpdateDecl DEF CheckRemoves, SeenStays
  <2>3. /\ UNCHANGED <<declared, request>>
        /\ \A i \in Invokers :
             pc'[i] = pc[i] /\ left'[i] = left[i] /\ seen'[i] = seen[i]
        /\ seen'[Watch] = NoMap
        /\ pc'[Watch] \in {"asleep", "iterating", "dead"}
    BY <1>0, <1>3 DEF CheckRemoves, WatchDies
  <2> QED BY <1>0, <2>1, <2>2, <2>3
          DEF Inside, SeenStays, Looked, OneDeclared, WatchInside, NoMap, Threads
<1>4. CASE CheckRestarts \/ CheckRestartFails
  <2>1. request = None
    BY <1>4 DEF CheckRestarts, CheckRestartFails, Inside, WatchInside
  <2>2. /\ UNCHANGED <<declared, request, decl>>
        /\ \A i \in Invokers :
             pc'[i] = pc[i] /\ left'[i] = left[i] /\ seen'[i] = seen[i]
        /\ seen'[Watch] = NoMap
        /\ pc'[Watch] \in {"asleep", "iterating"}
    BY <1>0, <1>4 DEF CheckRestarts, CheckRestartFails
  <2> QED BY <1>0, <2>1, <2>2
          DEF Inside, SeenStays, Looked, OneDeclared, WatchInside, NoMap, Threads
<1> QED BY <1>1, <1>2, <1>3, <1>4 DEF Check

LEMMA NextDecl == Typed /\ DeclInv /\ [Next]_vars => DeclInv'
<1> SUFFICES ASSUME Typed, DeclInv, [Next]_vars PROVE DeclInv'
  OBVIOUS
<1> USE DEF DeclInv, Inside, SeenStays, Looked, OneDeclared, WatchInside, registry,
            threads
<1>1. CASE ProcessDies
  BY <1>1 DEF ProcessDies
<1>2. ASSUME NEW key \in Keys, Expire(key) PROVE DeclInv'
  BY <1>2 DEF Expire
<1>3. CASE Reconfigure
  BY <1>3, ThreadsAssumption DEF Reconfigure, Threads, NoMap
<1>4. CASE UNCHANGED vars
  BY <1>4 DEF vars
<1> QED BY <1>1, <1>2, <1>3, <1>4, RegisterDecl, InvokeDecl, CheckDecl DEF Next

\* BrowserHolderImpl.invoke: the registry never holds the declared browsers of
\* two configurations, whatever invokes, notices and the watch do to it.
THEOREM OneDeclaredCorrect == Safety => []OneDeclared
<1>1. DeclInv => OneDeclared
  BY DEF DeclInv
<1> QED BY <1>1, InitTypes, NextTypes, InitDecl, NextDecl, PTL DEF Safety

-----------------------------------------------------------------------------
(***************************************************************************)
(* What the watch removes.  An anonymous browser that has timed out was    *)
(* not noticed since, and nobody notices it while the watch is inside.     *)
(***************************************************************************)
Silence == /\ (late \ decl) \intersect heard = {}
           /\ pc[Watch] = "removing" => at \notin heard

\* A browser that an update brings back is timed out only if it was silent.
LEMMA UpdateSilence ==
  ASSUME Typed, Silence, NEW key, NEW newAnon, NEW newDecl, NEW newLate, NEW old,
         newLate \subseteq newDecl,
         Update(key, newAnon, newDecl, newLate, old)
  PROVE  /\ (late' \ decl') \intersect heard = {}
         /\ key \notin late' \ decl'
<1> DEFINE was == old.anon \union old.decl
<1>1. PICK undone \in SUBSET (((Present \ was) \union (was \ Present)) \ {key}) :
        LET back == undone \ Present
            stays == Present \ (undone \union {key})
        IN /\ decl' = (decl \intersect stays)
                        \union (old.decl \intersect back) \union newDecl
           /\ late' = (late \intersect stays) \union (back \ heard)
                        \union newLate
  BY DEF Update
<1> DEFINE back == undone \ Present
           stays == Present \ (undone \union {key})
<1>2. /\ decl' = (decl \intersect stays) \union (old.decl \intersect back) \union newDecl
      /\ late' = (late \intersect stays) \union (back \ heard) \union newLate
  BY <1>1
<1>3. key \notin back /\ key \notin stays
  OBVIOUS
<1> HIDE DEF back, stays
<1> QED BY <1>2, <1>3 DEF Silence

LEMMA InitSilence == Init => Silence
BY ThreadsAssumption DEF Init, Silence, Threads

LEMMA NextSilence == Typed /\ DeclInv /\ Silence /\ [Next]_vars => Silence'
<1> SUFFICES ASSUME Typed, DeclInv, Silence, [Next]_vars PROVE Silence'
  OBVIOUS
<1> USE ThreadsAssumption DEF registry, threads, histories
<1>0. /\ pc \in [Threads -> Places] /\ Watch \in Threads
      /\ Invokers \subseteq Threads /\ Watch \notin Invokers
  BY DEF Typed, Threads
<1>1. ASSUME NEW page, NEW key, RequestEnters(page, key) PROVE Silence'
  BY <1>1 DEF RequestEnters, Silence
<1>2. CASE RequestLeaves
  <2>1. /\ pc'[Watch] # "removing" /\ heard' = heard \union {request.key}
    BY <1>2 DEF RequestLeaves, DeclInv, Inside, WatchInside
  <2>2. CASE request.found = None
    BY <1>2, <2>1, <2>2, UpdateSilence DEF RequestLeaves, Silence
  <2>3. CASE request.found # None
    <3>1. /\ decl' = decl
          /\ late' = IF Found(request.key) = request.found THEN late \ {request.key}
                     ELSE late
      BY <1>2, <2>3 DEF RequestLeaves
    <3>2. request.key \notin late' \ decl
      <4>1. CASE Found(request.key) = request.found
        BY <3>1, <4>1
      <4>2. CASE request.key \in decl
        BY <4>2
      <4>3. CASE Found(request.key) # request.found /\ request.key \notin decl
        <5>1. request.found = "anonymous"
          BY <1>2, <2>3, <4>3 DEF RequestLeaves, Typed, TypeOK, DeclInv, SeenStays
        <5>2. request.key \notin anon
          BY <4>3, <5>1 DEF Found
        <5> QED BY <3>1, <4>3, <5>2 DEF Typed, TypeOK, Present
      <4> QED BY <4>1, <4>2, <4>3
    <3> QED BY <2>1, <3>1, <3>2 DEF Silence
  <2> QED BY <2>2, <2>3
<1>3. CASE ProcessDies
  BY <1>3 DEF ProcessDies, Silence
<1>4. ASSUME NEW i \in Invokers, InvokeBegins(i) \/ Invoke(i) PROVE Silence'
  <2>1. pc'[Watch] = pc[Watch] /\ at' = at /\ heard' = heard
    BY <1>0, <1>4
       DEF InvokeBegins, Invoke, InvokeLooks, InvokeStarts, InvokeFails, InvokePuts,
           InvokeEnds
  <2>2. CASE InvokePuts(i)
    BY <2>1, <2>2, UpdateSilence DEF InvokePuts, Silence
  <2>3. CASE ~ InvokePuts(i)
    BY <1>4, <2>1, <2>3
       DEF InvokeBegins, Invoke, InvokeLooks, InvokeStarts, InvokeFails, Silence
  <2> QED BY <2>2, <2>3
<1>5. CASE Check
  <2> USE DEF WatchGoesOn, WatchAt
  <2>1. CASE CheckLooks
    BY <1>0, <2>1 DEF CheckLooks, WatchDies, Silence
  <2>2. CASE CheckRemoves
    <3>1. pc'[Watch] # "removing" /\ heard' = heard
      BY <1>0, <2>2 DEF CheckRemoves, WatchDies
    <3>2. (late' \ decl') \intersect heard = {}
      <4>1. CASE UNCHANGED registry
        BY <4>1 DEF Silence
      <4>2. CASE Update(at, {}, {}, {}, seen[Watch])
        BY <4>2, UpdateSilence
      <4> QED BY <2>2, <4>1, <4>2 DEF CheckRemoves
    <3> QED BY <3>1, <3>2 DEF Silence
  <2>3. CASE CheckBegins \/ CheckRestarts \/ CheckRestartFails
    <3>1. pc'[Watch] # "removing"
      BY <1>0, <2>3 DEF CheckBegins, CheckRestarts, CheckRestartFails
    <3> QED BY <2>3, <3>1 DEF CheckBegins, CheckRestarts, CheckRestartFails, Silence
  <2> QED BY <1>5, <2>1, <2>2, <2>3 DEF Check
<1>6. ASSUME NEW key \in Keys, Expire(key) PROVE Silence'
  BY <1>6 DEF Expire, Silence
<1>7. CASE Reconfigure
  BY <1>7 DEF Reconfigure, Silence
<1>8. CASE UNCHANGED vars
  BY <1>8 DEF vars, Silence
<1> QED BY <1>1, <1>2, <1>3, <1>4, <1>5, <1>6, <1>7, <1>8
        DEF Next, PageAsks, ProcessAsks

\* BrowserHolderImpl.check: the watch removes no browser that was noticed since
\* it last expired, though it looks first and removes later.
THEOREM RemovalCorrect == Safety => RemovesOnlySilent
<1>1. Silence /\ [Next]_vars
        => [pc[Watch] = "removing" /\ pc'[Watch] \in {"asleep", "iterating"}
              => at \notin heard]_vars
  BY DEF Silence
<1> QED BY <1>1, InitTypes, NextTypes, InitDecl, NextDecl, InitSilence, NextSilence,
           PTL DEF Safety, RemovesOnlySilent

-----------------------------------------------------------------------------
(***************************************************************************)
(* Processes.  As long as nothing is excused one invoke runs at a time and *)
(* no declared browser is lost.  Then a process has its browser in the     *)
(* registry, or an invoke is about to put it, and an invoke that has found *)
(* none there finds none until it puts its own.                            *)
(***************************************************************************)
Lone(p) == \A d, e \in DeclaredIds : p[d] > 0 /\ p[e] > 0 => d = e /\ p[d] = 1

InTurn == \A i, j \in Invokers : pc[i] # "idle" /\ pc[j] # "idle" => i = j

NothingFound ==
  \A i \in Invokers : /\ pc[i] = "iterating" => decl \subseteq left[i]
                      /\ pc[i] \in {"starting", "putting"} => decl = {}

Known ==
  Running(procs) # {} => decl # {} \/ \E i \in Invokers : pc[i] = "putting"

ProcInv == \/ excused
           \/ /\ Lone(procs) /\ InTurn /\ NothingFound /\ Known
              /\ pc[Watch] = "restarting" => decl # {}

LEMMA LoneFew == ASSUME NEW p \in [DeclaredIds -> 0..2], Lone(p) PROVE ~ Several(p)
<1>1. \A d \in DeclaredIds : p[d] # 2
  BY DEF Lone
<1>2. CASE Running(p) = {}
  BY <1>1, <1>2, FS_EmptySet DEF Several
<1>3. CASE Running(p) # {}
  <2>1. PICK d \in DeclaredIds : p[d] > 0
    BY <1>3 DEF Running
  <2>2. Running(p) = {d}
    BY <2>1 DEF Running, Lone
  <2>3. Cardinality({d}) = 1
    BY FS_Singleton
  <2> HIDE DEF Running
  <2> QED BY <1>1, <2>2, <2>3 DEF Several
<1> QED BY <1>2, <1>3

\* Starting a browser that is the only one, and stopping one, leave it so.
LEMMA LoneMore ==
  ASSUME NEW p \in [DeclaredIds -> 0..2], Running(p) = {}, NEW d \in DeclaredIds
  PROVE  Lone(More(p, d))
BY DEF Running, Lone, More

LEMMA LoneFewer ==
  ASSUME NEW p \in [DeclaredIds -> 0..2], Lone(p), NEW q \in Fewer(p)
  PROVE  Lone(q) /\ Running(q) \subseteq Running(p)
BY DEF Running, Lone, Fewer

LEMMA LoneStopped ==
  ASSUME Typed, Lone(procs), NEW stop \in Stopped(procs)
  PROVE  Lone(stop.procs) /\ Running(stop.procs) \subseteq Running(procs)
<1> DEFINE none == [d \in DeclaredIds |-> 0]
<1>1. procs \in [DeclaredIds -> 0..2]
  BY DEF Typed, TypeOK
<1>2. stop.procs \in Fewer(procs) \union {procs, none}
  <2>1. CASE Staf
    BY <2>1 DEF Stopped
  <2>2. CASE ~ Staf
    <3> HIDE DEF none
    <3>1. \/ stop = [procs |-> none, thrown |-> FALSE]
          \/ stop = [procs |-> procs, thrown |-> FALSE]
          \/ stop = [procs |-> procs, thrown |-> TRUE]
      BY <2>2 DEF Stopped, none
    <3>2. stop.procs = none \/ stop.procs = procs
      BY <3>1
    <3> QED BY <3>2
  <2> QED BY <2>1, <2>2
<1>3. Lone(none) /\ Running(none) = {}
  BY DEF Lone, Running
<1> HIDE DEF none
<1> QED BY <1>1, <1>2, <1>3, LoneFewer

LEMMA InitProc == Init => ProcInv
BY ThreadsAssumption
   DEF Init, ProcInv, Lone, InTurn, NothingFound, Known, Running, Threads

\* A step that starts no process, and only takes from the registry, is excused
\* or takes no declared browser.
LEMMA Undisturbed ==
  ASSUME Typed, ProcInv, decl' \subseteq decl,
         NoteLoss \/ (decl' = decl /\ excused' = excused),
         pc' = pc \/ pc'[Watch] # "restarting",
         \A i \in Invokers : pc'[i] = pc[i] /\ left'[i] = left[i],
         procs' = procs \/ (~ excused => Lone(procs')
                              /\ Running(procs') \subseteq Running(procs))
  PROVE  ProcInv'
<1> SUFFICES ASSUME ~ excused' PROVE ProcInv'
  BY DEF ProcInv
<1>1. ~ excused /\ decl' = decl
  <2>1. CASE NoteLoss
    <3>1. ~ excused /\ decl \subseteq decl'
      BY <2>1, Zenon DEF NoteLoss
    <3> QED BY <3>1
  <2>2. CASE decl' = decl /\ excused' = excused
    BY <2>2, Zenon
  <2> QED BY <2>1, <2>2
<1>2. Lone(procs') /\ Running(procs') \subseteq Running(procs)
  BY <1>1 DEF ProcInv
<1>3. InTurn' /\ NothingFound'
  BY <1>1 DEF ProcInv, InTurn, NothingFound
<1>4. Known'
  BY <1>1, <1>2 DEF ProcInv, Known
<1> QED BY <1>1, <1>2, <1>3, <1>4 DEF ProcInv, Lone

LEMMA InvokeProc ==
  ASSUME Typed, DeclInv, ProcInv, NEW i \in Invokers, InvokeBegins(i) \/ Invoke(i)
  PROVE  ProcInv'
<1> SUFFICES ASSUME ~ excused' PROVE ProcInv'
  BY DEF ProcInv
<1> USE ThreadsAssumption DEF registry, histories
<1>0. /\ pc \in [Threads -> Places] /\ left \in [Threads -> SUBSET Keys]
      /\ i \in Threads /\ i # Watch /\ Watch \in Threads
      /\ Invokers \subseteq Threads
      /\ procs \in [DeclaredIds -> 0..2] /\ declared \in DeclaredIds
  BY DEF Typed, TypeOK, Threads
<1>1. ~ excused
  BY DEF InvokeBegins, Invoke, InvokeLooks, InvokeStarts, InvokeFails, InvokePuts,
         NoteLoss
<1>2. /\ Lone(procs) /\ InTurn /\ NothingFound /\ Known
      /\ pc[Watch] = "restarting" => decl # {}
  BY <1>1 DEF ProcInv
<1>3. CASE InvokeBegins(i)
  <2>1. \A j \in Invokers \ {i} : pc[j] = "idle"
    BY <1>3 DEF InvokeBegins
  <2> QED BY <1>0, <1>2, <1>3, <2>1
          DEF InvokeBegins, ProcInv, Lone, InTurn, NothingFound, Known, Present
<1>4. CASE InvokeLooks(i) \/ InvokeFails(i)
  BY <1>0, <1>2, <1>4
     DEF InvokeLooks, InvokeFails, InvokeEnds, ProcInv, Lone, InTurn, NothingFound,
         Known
<1>5. CASE InvokeStarts(i)
  <2>1. decl = {} /\ \A j \in Invokers : pc[j] # "putting"
    BY <1>2, <1>5 DEF InvokeStarts, NothingFound, InTurn
  <2>2. Running(procs) = {}
    BY <1>2, <2>1 DEF Known
  <2>3. Lone(procs')
    BY <1>0, <1>5, <2>2, LoneMore DEF InvokeStarts
  <2> QED BY <1>0, <1>2, <1>5, <2>1, <2>3
          DEF InvokeStarts, ProcInv, Lone, InTurn, NothingFound, Known
<1>6. CASE InvokePuts(i)
  <2>1. declared \in decl'
    BY <1>6, UpdateDecl DEF InvokePuts
  <2>2. \A j \in Invokers \ {i} : pc[j] = "idle"
    BY <1>2, <1>6 DEF InvokePuts, InTurn
  <2> QED BY <1>0, <1>2, <1>6, <2>1, <2>2
          DEF InvokePuts, InvokeEnds, ProcInv, Lone, InTurn, NothingFound, Known
<1> QED BY <1>3, <1>4, <1>5, <1>6 DEF Invoke

LEMMA RestartProc ==
  ASSUME Typed, ProcInv, CheckRestarts \/ CheckRestartFails
  PROVE  ProcInv'
<1> USE ThreadsAssumption DEF registry, WatchGoesOn, WatchAt
<1>0. /\ pc \in [Threads -> Places] /\ left \in [Threads -> SUBSET Keys]
      /\ Watch \in Threads /\ Invokers \subseteq Threads
      /\ procs \in [DeclaredIds -> 0..2] /\ declared \in DeclaredIds
  BY DEF Typed, TypeOK, Threads
<1>1. /\ pc'[Watch] # "restarting" /\ decl' = decl
      /\ \A i \in Invokers : pc'[i] = pc[i] /\ left'[i] = left[i]
  BY <1>0 DEF CheckRestarts, CheckRestartFails
<1>2. CASE CheckRestartFails
  <2>1. excused' = excused
    BY <1>2 DEF CheckRestartFails
  <2>2. ~ excused => Lone(procs') /\ Running(procs') \subseteq Running(procs)
    BY <1>2, LoneStopped DEF CheckRestartFails, ProcInv
  <2> QED BY <1>1, <2>1, <2>2, Undisturbed
<1>3. CASE CheckRestarts
  <2> SUFFICES ASSUME ~ excused' PROVE ProcInv'
    BY DEF ProcInv
  <2>1. PICK stop \in Stopped(procs) :
          /\ procs' = More(stop.procs, declared)
          /\ excused' = (excused \/ Running(stop.procs) # {})
    BY <1>3 DEF CheckRestarts
  <2>2. ~ excused /\ Running(stop.procs) = {}
    BY <2>1
  <2>3. Lone(procs')
    BY <1>0, <2>1, <2>2, LoneMore, StopTypes DEF Typed
  <2>4. decl # {} /\ InTurn /\ NothingFound
    BY <1>3, <2>2 DEF CheckRestarts, ProcInv
  <2> QED BY <1>1, <2>3, <2>4 DEF ProcInv, Lone, InTurn, NothingFound, Known
<1> QED BY <1>2, <1>3

LEMMA CheckProc == ASSUME Typed, DeclInv, ProcInv, Check PROVE ProcInv'
<1> USE ThreadsAssumption DEF registry, histories, WatchGoesOn, WatchAt
<1>0. /\ pc \in [Threads -> Places] /\ left \in [Threads -> SUBSET Keys]
      /\ Watch \in Threads /\ Invokers \subseteq Threads
  BY DEF Typed, TypeOK, Threads
<1>1. ASSUME CheckBegins \/ CheckLooks \/ CheckRemoves
      PROVE  /\ procs' = procs
             /\ \A i \in Invokers : pc'[i] = pc[i] /\ left'[i] = left[i]
  BY <1>0, <1>1 DEF CheckBegins, CheckLooks, CheckRemoves, WatchDies
<1>2. CASE CheckBegins
  <2>1. pc'[Watch] # "restarting" /\ decl' = decl /\ excused' = excused
    BY <1>0, <1>2 DEF CheckBegins
  <2> QED BY <1>1, <1>2, <2>1, Undisturbed
<1>3. CASE CheckLooks
  <2>1. pc'[Watch] = "restarting" => decl # {}
    BY <1>0, <1>3 DEF CheckLooks, WatchDies
  <2> QED BY <1>1, <1>3, <2>1
          DEF CheckLooks, ProcInv, Lone, InTurn, NothingFound, Known
<1>4. CASE CheckRemoves
  <2>1. pc'[Watch] # "restarting"
    BY <1>0, <1>4 DEF CheckRemoves, WatchDies
  <2>2. NoteLoss \/ (decl' = decl /\ excused' = excused)
    BY <1>4 DEF CheckRemoves
  <2>3. decl' \subseteq decl
    BY <1>4, CheckDecl DEF Check
  <2> QED BY <1>1, <1>4, <2>1, <2>2, <2>3, Undisturbed
<1> QED BY <1>2, <1>3, <1>4, RestartProc DEF Check

LEMMA NextProc == Typed /\ DeclInv /\ ProcInv /\ [Next]_vars => ProcInv'
<1> SUFFICES ASSUME Typed, DeclInv, ProcInv, [Next]_vars PROVE ProcInv'
  OBVIOUS
<1> USE DEF registry, threads, histories
<1>1. ASSUME NEW page, NEW key, RequestEnters(page, key) PROVE ProcInv'
  BY <1>1, Undisturbed DEF RequestEnters
<1>2. CASE RequestLeaves
  <2>1. NoteLoss /\ UNCHANGED <<procs, pc, left>>
    BY <1>2 DEF RequestLeaves
  <2>2. decl' \subseteq decl
    BY <1>2, RegisterDecl
  <2> QED BY <2>1, <2>2, Undisturbed
<1>3. CASE ProcessDies
  <2>1. UNCHANGED <<decl, excused, pc, left>>
    BY <1>3 DEF ProcessDies
  <2>2. ~ excused => Lone(procs') /\ Running(procs') \subseteq Running(procs)
    BY <1>3, LoneFewer DEF ProcessDies, ProcInv, Typed, TypeOK
  <2> QED BY <2>1, <2>2, Undisturbed
<1>4. ASSUME NEW key \in Keys, Expire(key) PROVE ProcInv'
  BY <1>4, Undisturbed DEF Expire
<1>5. CASE Reconfigure
  BY <1>5, Undisturbed DEF Reconfigure
<1>6. CASE UNCHANGED vars
  BY <1>6, Undisturbed DEF vars
<1> QED BY <1>1, <1>2, <1>3, <1>4, <1>5, <1>6, InvokeProc, CheckProc
        DEF Next, PageAsks, ProcessAsks

\* BrowserHolderImpl.invoke, check and the invokers: the browser of a holder
\* runs once, unless invokes overlapped, an update lost a declared browser, or a
\* restart started one process beside another that it had failed to stop.
THEOREM OneProcessCorrect == Safety => []OneProcess
<1>1. Typed /\ ProcInv => OneProcess
  BY LoneFew DEF Typed, TypeOK, ProcInv, OneProcess
<1> QED BY <1>1, InitTypes, NextTypes, InitDecl, NextDecl, InitProc, NextProc,
           PTL DEF Safety
=============================================================================
