---------------------------- MODULE BrowserWatch ----------------------------
(***************************************************************************)
(* One BrowserHolderImpl and its registry of browser instances: register   *)
(* (by itself and at the start of notice), invoke, check, the watch thread *)
(* TimeOutThread, the invokers that start and stop the browser's process,  *)
(* and what RestartHandler does to the holder.                             *)
(*                                                                         *)
(* register and check hold the holder's monitor; invoke holds nothing.     *)
(* What notice does after register is TaskDispatch's, and so is addTask.   *)
(* instanceMap is a HashMap: an iterator fails once another thread has     *)
(* added or removed a key, and an update may undo what other threads did   *)
(* while it was under way.  A step is what a thread does between two       *)
(* points where another thread can see or change the registry.             *)
(*                                                                         *)
(* There is no clock: that 3 * step milliseconds went by since a browser   *)
(* was last noticed is an event, Expire.                                   *)
(***************************************************************************)
EXTENDS Naturals, FiniteSets

CONSTANTS
  Ids,         \* what String.valueOf((int) (Math.random() * 10000)) can be
  DeclaredIds, \* the ids of the DeclaredBrowser objects of the configurations
  Pages,       \* capture pages that people open, at first without an id
  Invokers,    \* server threads that run addTask
  Watch,       \* the thread of TimeOutThread
  Staf,        \* is the holder's invoker a STAFInvoker (else a BatchInvoker)?
  None         \* null, also as a key

ASSUME IdsAssumption ==
  DeclaredIds \subseteq Ids /\ DeclaredIds # {} /\ None \notin Ids
ASSUME ThreadsAssumption ==
  Watch \notin Invokers /\ None \notin Pages /\ Staf \in BOOLEAN

Keys == Ids \union {None}
Threads == Invokers \union {Watch}

VARIABLES
  anon,      \* keys of instanceMap that hold an AnonymousBrowser
  decl,      \* keys of instanceMap that hold a DeclaredBrowser
  late,      \* those of both whose browser answers isTimeOut with true
  declared,  \* the id of declaredBrowser
  procs,     \* declared id -> processes started for it; 2 is two or more
  idOf,      \* page -> the id in its address
  request,   \* the register call inside the monitor, None if there is none
  pc,        \* thread -> where it is
  left,      \* thread -> the keys its iterator has still to visit
  at,        \* the key whose browser the watch found timed out
  changed,   \* the threads whose iterator is no longer valid
  seen,      \* thread -> the map when its update of the map began
  heard,     \* history: keys noticed since they last expired
  fresh,     \* history: a process was started and nothing expired or was
             \* noticed since
  excused,   \* history: invokes overlapped, an update lost a declared
             \* browser, or a restart started one process beside another
  abandoned  \* history: the watch's last round ended early

registry == <<anon, decl, late>>
threads == <<pc, left, at, changed, seen>>
histories == <<heard, fresh, excused, abandoned>>
vars == <<registry, declared, procs, idOf, request, threads, histories>>

-----------------------------------------------------------------------------
(* instanceMap. *)

Present == anon \union decl
Map == [anon |-> anon, decl |-> decl]
NoMap == [anon |-> {}, decl |-> {}]

\* The threads that are between two uses of an iterator.
Iterating ==
  {t \in Threads : pc[t] \in {"iterating", "removing", "restarting"}}

\* The map after a thread that began with map `old` has set `key`: to a browser
\* of one of the two classes, or to nothing.  Of the keys that others added or
\* removed meanwhile any may be undone; a browser that comes back is the object
\* it was.
Update(key, newAnon, newDecl, newLate, old) ==
  LET was == old.anon \union old.decl
  IN \E undone \in SUBSET (((Present \ was) \union (was \ Present)) \ {key}) :
       LET back == undone \ Present
           stays == Present \ (undone \union {key})
       IN /\ anon' = (anon \intersect stays)
                       \union (old.anon \intersect back) \union newAnon
          /\ decl' = (decl \intersect stays)
                       \union (old.decl \intersect back) \union newDecl
          /\ late' = (late \intersect stays) \union (back \ heard)
                       \union newLate

\* Iterators fail after a change of the set of keys; a declared browser that
\* goes is noted.
Invalidate == IF anon' \union decl' = Present THEN changed
              ELSE changed \union Iterating
NoteLoss == excused' = (excused \/ ~ decl \subseteq decl')

-----------------------------------------------------------------------------
(***************************************************************************)
(* register, with the monitor held from RequestEnters to RequestLeaves.    *)
(* The client is a page, or a process of the declared browser, whose page  *)
(* has the declared id in its address (TargetURL.getURL).                  *)
(***************************************************************************)
WatchInside == pc[Watch] \in {"iterating", "removing", "restarting"}

\* Mutant: register is not synchronized with check.
RegisterFree == request = None

MonitorFree == request = None /\ ~ WatchInside

\* instanceMap.get(notice.getBrowserId()): the browser's class, or null.
Found(key) == IF key \in decl THEN "declared"
              ELSE IF key \in anon THEN "anonymous" ELSE None

RequestEnters(page, key) ==
  /\ MonitorFree
  /\ request' = [page |-> IF key = None THEN page ELSE None, key |-> key,
                 found |-> Found(key),
                 old |-> IF Found(key) = None THEN Map ELSE NoMap]
  /\ UNCHANGED <<registry, declared, procs, idOf, threads, histories>>

PageAsks(p) == RequestEnters(p, idOf[p])
ProcessAsks(d) == procs[d] > 0 /\ RequestEnters(None, d)

\* The browser is put if it was not found, and noticed.  One that was found
\* may have been replaced in the map; the notice then reaches the old object.
\* A page without an id gets that of the browser under the key null, a random
\* number that others may have too, unless the answer is lost.
RequestLeaves ==
  /\ request # None
  /\ LET key == request.key
     IN /\ IF request.found = None
           THEN Update(key, {key}, {}, {}, request.old)
           ELSE /\ late' = IF Found(key) = request.found THEN late \ {key}
                           ELSE late
                /\ UNCHANGED <<anon, decl>>
        /\ heard' = heard \union {key}
        /\ IF key = None
           THEN \E id \in Ids \union {None} :
                  idOf' = [idOf EXCEPT ![request.page] = id]
           ELSE UNCHANGED idOf
  /\ changed' = Invalidate
  /\ NoteLoss
  /\ fresh' = FALSE
  /\ request' = None
  /\ UNCHANGED <<declared, procs, pc, left, at, seen, abandoned>>

-----------------------------------------------------------------------------
(* The invokers' processes. *)

Running(p) == {d \in DeclaredIds : p[d] > 0}
Several(p) == Cardinality(Running(p)) > 1 \/ \E d \in DeclaredIds : p[d] = 2

More(p, d) == [p EXCEPT ![d] = IF @ = 2 THEN 2 ELSE @ + 1]
Fewer(p) == {[p EXCEPT ![d] = @ - 1] : d \in Running(p)}

\* What stop may leave, and whether it throws out of restart.  STAFInvoker
\* stops the first process of the browser's path that STAF lists, if any, and
\* restart swallows its errors.  TASKKILL takes them all or fails, and only an
\* error in starting TASKKILL is thrown.
Stopped(p) ==
  IF Staf THEN {[procs |-> q, thrown |-> FALSE] : q \in Fewer(p) \union {p}}
  ELSE {[procs |-> [d \in DeclaredIds |-> 0], thrown |-> FALSE],
        [procs |-> p, thrown |-> FALSE], [procs |-> p, thrown |-> TRUE]}

\* A process may die, or a person may close it.
ProcessDies ==
  /\ procs' \in Fewer(procs)
  /\ UNCHANGED <<registry, declared, idOf, request, threads, histories>>

-----------------------------------------------------------------------------
(* invoke, without the monitor. *)

InvokeBegins(i) ==
  /\ pc[i] = "idle"
  /\ pc' = [pc EXCEPT ![i] = IF Present = {} THEN "starting" ELSE "iterating"]
  /\ left' = [left EXCEPT ![i] = Present]
  /\ excused' = (excused \/ \E j \in Invokers \ {i} : pc[j] # "idle")
  /\ UNCHANGED <<registry, declared, procs, idOf, request, at, changed, seen,
                 heard, fresh, abandoned>>

\* An invoke is over; so is its iterator.
InvokeEnds(i) == /\ pc' = [pc EXCEPT ![i] = "idle"]
                 /\ left' = [left EXCEPT ![i] = {}]

\* Mutant: only the first key is looked at.
InvokeLooksOnce(i) ==
  /\ pc[i] = "iterating"
  /\ \/ i \in changed /\ InvokeEnds(i)
     \/ /\ i \notin changed
        /\ \E key \in left[i] :
             IF key \in decl THEN InvokeEnds(i)
             ELSE /\ left' = [left EXCEPT ![i] = {}]
                  /\ pc' = [pc EXCEPT ![i] = "starting"]
  /\ changed' = changed \ {i}
  /\ UNCHANGED <<registry, declared, procs, idOf, request, at, seen,
                 histories>>

\* Mutant: only the declaredBrowser of now ends the search.
InvokeLooksForThis(i) ==
  /\ pc[i] = "iterating"
  /\ \/ i \in changed /\ InvokeEnds(i)
     \/ /\ i \notin changed
        /\ \E key \in left[i] :
             IF key = declared /\ key \in decl THEN InvokeEnds(i)
             ELSE /\ left' = [left EXCEPT ![i] = @ \ {key}]
                  /\ pc' = [pc EXCEPT ![i] = IF left'[i] = {} THEN "starting"
                                             ELSE "iterating"]
  /\ changed' = changed \ {i}
  /\ UNCHANGED <<registry, declared, procs, idOf, request, at, seen,
                 histories>>

\* The iterator fails with an exception, or it gives a key.  A declared browser
\* ends the search: the browser was started before.
InvokeLooks(i) ==
  /\ pc[i] = "iterating"
  /\ \/ /\ i \in changed
        /\ InvokeEnds(i)
     \/ /\ i \notin changed
        /\ \E key \in left[i] :
             IF key \in decl THEN InvokeEnds(i)
             ELSE /\ left' = [left EXCEPT ![i] = @ \ {key}]
                  /\ pc' = [pc EXCEPT ![i] = IF left'[i] = {} THEN "starting"
                                             ELSE "iterating"]
  /\ changed' = changed \ {i}
  /\ UNCHANGED <<registry, declared, procs, idOf, request, at, seen,
                 histories>>

\* The process is started with the declared id in its URL.
InvokeStarts(i) ==
  /\ pc[i] = "starting"
  /\ pc' = [pc EXCEPT ![i] = "putting"]
  /\ procs' = More(procs, declared)
  /\ seen' = [seen EXCEPT ![i] = Map]
  /\ fresh' = TRUE
  /\ UNCHANGED <<registry, declared, idOf, request, left, at, changed, heard,
                 excused, abandoned>>

\* newInstance or invoke throws; TaskHandler prints it and goes on.
InvokeFails(i) ==
  /\ pc[i] = "starting"
  /\ InvokeEnds(i)
  /\ UNCHANGED <<registry, declared, procs, idOf, request, at, changed, seen,
                 histories>>

\* The declared browser is put.  One that was never noticed has lastNotice -1
\* and step 0: it has timed out already.
InvokePuts(i) ==
  /\ pc[i] = "putting"
  /\ Update(declared, {}, {declared},
            IF declared \in decl THEN late \intersect {declared}
            ELSE {declared}, seen[i])
  /\ changed' = Invalidate
  /\ NoteLoss
  /\ InvokeEnds(i)
  /\ seen' = [seen EXCEPT ![i] = NoMap]
  /\ UNCHANGED <<declared, procs, idOf, request, at, heard, fresh, abandoned>>

-----------------------------------------------------------------------------
(***************************************************************************)
(* check, run by the watch thread every ten seconds, under the monitor.    *)
(* TimeOutThread.run catches TestException only: any other exception ends  *)
(* the thread.                                                             *)
(***************************************************************************)
WatchAt(where, key, keys, map) ==
  /\ pc' = [pc EXCEPT ![Watch] = where]
  /\ at' = key
  /\ left' = [left EXCEPT ![Watch] = keys]
  /\ seen' = [seen EXCEPT ![Watch] = map]

\* Mutant: hasNext is not asked.
WatchNever(keys) == WatchAt("iterating", None, keys, NoMap)

\* The next key, or the end of the round.
WatchGoesOn(keys) ==
  WatchAt(IF keys = {} THEN "asleep" ELSE "iterating", None, keys, NoMap)

WatchDies == /\ WatchAt("dead", None, {}, NoMap)
             /\ changed' = changed \ {Watch}

CheckBegins ==
  /\ pc[Watch] = "asleep" /\ MonitorFree
  /\ WatchGoesOn(Present)
  /\ abandoned' = FALSE
  /\ UNCHANGED <<registry, declared, procs, idOf, request, changed, heard,
                 fresh, excused>>

\* Mutant: the two branches are swapped.
CheckLooksSwapped ==
  /\ pc[Watch] = "iterating"
  /\ \/ Watch \in changed /\ WatchDies
     \/ /\ Watch \notin changed
        /\ \E key \in left[Watch] :
             LET rest == left[Watch] \ {key}
             IN \/ key \notin late /\ WatchGoesOn(rest)
                \/ /\ key \in late \ decl
                   /\ WatchAt("restarting", key, rest, NoMap)
                \/ /\ key \in late \intersect decl
                   /\ WatchAt("removing", key, rest, Map)
        /\ UNCHANGED changed
  /\ UNCHANGED <<registry, declared, procs, idOf, request, histories>>

CheckLooks ==
  /\ pc[Watch] = "iterating"
  /\ \/ Watch \in changed /\ WatchDies
     \/ /\ Watch \notin changed
        /\ \E key \in left[Watch] :
             LET rest == left[Watch] \ {key}
             IN \/ key \notin late /\ WatchGoesOn(rest)
                \/ /\ key \in late \intersect decl
                   /\ WatchAt("restarting", key, rest, NoMap)
                \/ /\ key \in late \ decl
                   /\ WatchAt("removing", key, rest, Map)
        /\ UNCHANGED changed
  /\ UNCHANGED <<registry, declared, procs, idOf, request, histories>>

\* iterator.remove fails after a change of the keys, unless the change came
\* after its own look at modCount; it removes whatever the key holds.
CheckRemoves ==
  /\ pc[Watch] = "removing"
  /\ \/ /\ Watch \in changed
        /\ WatchDies
        /\ UNCHANGED <<registry, excused>>
     \/ /\ Update(at, {}, {}, {}, seen[Watch])
        /\ changed' = Invalidate \ {Watch}
        /\ NoteLoss
        /\ WatchGoesOn(left[Watch])
  /\ UNCHANGED <<declared, procs, idOf, request, heard, fresh, abandoned>>

\* Mutant: the old process is stopped after the new one was started.
StartThenStop ==
  /\ pc[Watch] = "restarting"
  /\ \E stop \in Stopped(More(procs, declared)) :
       /\ procs' = stop.procs
       /\ excused' = (excused \/ Running(stop.procs) # {})
       /\ abandoned' = stop.thrown
       /\ WatchGoesOn(IF stop.thrown THEN {} ELSE left[Watch])
       /\ changed' = IF pc'[Watch] = "asleep" THEN changed \ {Watch}
                     ELSE changed
  /\ fresh' = TRUE
  /\ UNCHANGED <<registry, declared, idOf, request, heard>>

\* The browser is stopped and started, with the id of the declaredBrowser of
\* now.  An exception of invoke, of BatchInvoker.stop or of the constructor of
\* STAFInvoker ends the round before the other keys are looked at.
CheckRestarts ==
  /\ pc[Watch] = "restarting"
  /\ \E stop \in Stopped(procs) :
       /\ procs' = More(stop.procs, declared)
       /\ excused' = (excused \/ Running(stop.procs) # {})
       /\ abandoned' = stop.thrown
       /\ WatchGoesOn(IF stop.thrown THEN {} ELSE left[Watch])
       /\ changed' = IF pc'[Watch] = "asleep" THEN changed \ {Watch}
                     ELSE changed
  /\ fresh' = TRUE
  /\ UNCHANGED <<registry, declared, idOf, request, heard>>

CheckRestartFails ==
  /\ pc[Watch] = "restarting"
  /\ procs' \in {procs} \union {stop.procs : stop \in Stopped(procs)}
  /\ abandoned' = TRUE
  /\ WatchGoesOn({})
  /\ changed' = changed \ {Watch}
  /\ UNCHANGED <<registry, declared, idOf, request, heard, fresh, excused>>

-----------------------------------------------------------------------------
(* The rest of the world. *)

\* No notice with this key for 3 * step milliseconds.
Expire(key) ==
  /\ key \in Present \union heard
  /\ late' = late \union ({key} \intersect Present)
  /\ heard' = heard \ {key}
  /\ fresh' = FALSE
  /\ UNCHANGED <<anon, decl, declared, procs, idOf, request, threads,
                 excused, abandoned>>

\* RestartHandler reads the configuration again, with the server stopped: the
\* holder is the same and keeps its registry, its declaredBrowser is a new
\* object with a new id.
Reconfigure ==
  /\ request = None /\ \A i \in Invokers : pc[i] = "idle"
  /\ declared' \in DeclaredIds \ {declared}
  /\ UNCHANGED <<registry, procs, idOf, request, threads, histories>>

Init == /\ anon = {} /\ decl = {} /\ late = {}
        /\ declared \in DeclaredIds
        /\ procs = [d \in DeclaredIds |-> 0]
        /\ idOf = [p \in Pages |-> None]
        /\ request = None
        /\ pc = [t \in Threads |-> IF t = Watch THEN "asleep" ELSE "idle"]
        /\ left = [t \in Threads |-> {}]
        /\ at = None
        /\ changed = {}
        /\ seen = [t \in Threads |-> NoMap]
        /\ heard = {}
        /\ fresh = FALSE /\ excused = FALSE /\ abandoned = FALSE

Check == \/ CheckBegins \/ CheckLooks
         \/ CheckRemoves \/ CheckRestarts \/ CheckRestartFails

Invoke(i) ==
  InvokeLooks(i) \/ InvokeStarts(i) \/ InvokeFails(i) \/ InvokePuts(i)

Next == \/ \E p \in Pages : PageAsks(p)
        \/ \E d \in DeclaredIds : ProcessAsks(d)
        \/ RequestLeaves
        \/ ProcessDies
        \/ \E i \in Invokers : InvokeBegins(i) \/ Invoke(i)
        \/ Check
        \/ \E key \in Keys : Expire(key)
        \/ Reconfigure
-----------------------------------------------------------------------------
Safety == Init /\ [][Next]_vars

\* Server threads and the watch run; time passes for a browser that is not
\* noticed; the watch gets the monitor in the end, for clients leave it free
\* between their beats.  Nobody has to ask or to invoke.
Fairness == /\ WF_vars(RequestLeaves)
            /\ \A i \in Invokers : WF_vars(Invoke(i))
            /\ WF_vars(Check) /\ SF_vars(CheckBegins)
            /\ \A key \in Keys : WF_vars(Expire(key))

Spec == Safety /\ Fairness

-----------------------------------------------------------------------------
(* Properties *)

\* Types; a browser has one class, time-outs are of registered browsers, an
\* iterator in use has a key to give, and iterators not in use are not invalid.
TypeOK ==
  /\ anon \subseteq Keys /\ decl \subseteq DeclaredIds
  /\ anon \intersect decl = {} /\ late \subseteq Present
  /\ declared \in DeclaredIds
  /\ procs \in [DeclaredIds -> 0..2]
  /\ idOf \in [Pages -> Keys]
  /\ request # None =>
       /\ request.key \in Keys
       /\ request.key = None => request.page \in Pages
       /\ request.found \in {None, "anonymous", "declared"}
  /\ pc[Watch] \in {"asleep", "iterating", "removing", "restarting", "dead"}
  /\ \A i \in Invokers : pc[i] \in {"idle", "iterating", "starting", "putting"}
  /\ left \in [Threads -> SUBSET Keys]
  /\ \A t \in Threads : pc[t] = "iterating" => left[t] # {}
  /\ at \in Keys /\ heard \subseteq Keys
  /\ changed \subseteq Iterating
  /\ \A t \in Threads :
       seen[t].anon \subseteq Keys /\ seen[t].decl \subseteq DeclaredIds
  /\ {fresh, excused, abandoned} \subseteq BOOLEAN

\* The watch takes no browser off the registry that was noticed less than
\* 3 * step ago, though it decides first and removes later
\* (BrowserHolderImpl.check), and though entries change under it.
RemovesOnlySilent ==
  [][pc[Watch] = "removing" /\ pc'[Watch] \in {"asleep", "iterating"}
       => at \notin heard]_vars

\* The holder's browser runs once (BrowserHolderImpl.invoke looks for a
\* declared browser before it starts one, restart stops the old process).
\* There are three ways to two processes and no other: invokes that overlap, a
\* declared browser that an overlapping update threw out of the registry, and
\* a restart that did not get the old process stopped.
OneProcess == Several(procs) => excused

\* The registry never holds the declared browsers of two configurations, though
\* nothing takes the old one out when the configuration is read again: as long
\* as it is there invoke starts nothing (and the new one comes in when an
\* overlapping update has lost the old one).
OneDeclared == \A d, e \in decl : d = e

Dead == pc[Watch] = "dead"

\* From some time on no notice comes with this key, and the watch gets through
\* the registry.
Silent(key) == <>[](request = None \/ request.key # key)
WatchWorks == <>[](~ Dead /\ ~ abandoned)

\* An anonymous browser that is silent is taken off the registry, as long as
\* the watch lives and restarts of the declared browser do not end its rounds
\* early again and again.  (Not for good: an invoke that overlaps the removal
\* may undo it, and the watch has to remove it again.)
SilentForgotten ==
  \A key \in Keys : WatchWorks /\ Silent(key) => []<>(key \notin anon)

\* A declared browser that is silent has a process again and again, as long as
\* the watch lives and the starts do not fail.  (That nobody notices with its
\* id is needed: ids are random numbers, and a page may have the same.)
DeclaredRevived ==
  \A d \in DeclaredIds : WatchWorks /\ Silent(d)
    => []<>(d \notin decl \/ Running(procs) # {})

\* The watch keeps up with what falls silent: pages that nobody declared are
\* forgotten, the declared browser is started again.
WatchKeepsUp == SilentForgotten /\ DeclaredRevived

\* TimeOutThread.java:26 ("while (true)") and Main.java:239 ("enable the watch
\* over the states of the browsers"): the watch thread goes on for ever.
WatchLives == ~ Dead

\* BrowserHolderImpl.java:178 ("if the browser has timed out"): a browser is
\* not restarted when nothing has timed out since its process was started.
RestartOnlyTimedOut ==
  [][pc[Watch] = "restarting" /\ pc'[Watch] # "restarting" => ~ fresh]_vars
=============================================================================
