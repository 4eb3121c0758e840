--------------------------- MODULE HolderFactory ----------------------------
(***************************************************************************)
(* BrowserHolderFactory: one static HashMap from browser names to holders, *)
(* used without a lock by every server thread.  Each call asks containsKey *)
(* first, puts a new holder if the answer was no, and gets.  The browsers  *)
(* of the configuration have their holders before the server starts.       *)
(*                                                                         *)
(* As in BrowserWatch, a put may undo the puts of other keys that came     *)
(* since its thread last looked.  That a map of more than twelve names is  *)
(* resized, which may lose any of them, is left out.                       *)
(***************************************************************************)
EXTENDS FiniteSets

CONSTANTS
  Browsers,   \* names that clients and tasks may ask for
  Configured, \* those of the configuration
  Calls,      \* the calls of getBrowserHolderInstance
  None        \* null

ASSUME FactoryAssumption == /\ Configured \subseteq Browsers
                            /\ None \notin Calls \union Browsers
                            /\ Calls \intersect Browsers = {}

\* A call makes at most one holder, which goes by the call's name; the holder
\* of a configured browser goes by the browser's.
Holders == Calls \union Configured

VARIABLES
  map,    \* name -> its holder, None if it has none
  pc,     \* call -> where it is
  arg,    \* call -> the name it asks for
  seen,   \* call -> the names in the map when it looked
  answer  \* call -> what it returned

vars == <<map, pc, arg, seen, answer>>

Mapped == {b \in Browsers : map[b] # None}

Move(c, to) == pc' = [pc EXCEPT ![c] = to]

\* Mutant: a name that is in the map is put again.
PutsAlways(b) == "putting"

\* Mutant: only browsers of the configuration are looked for.
PutsUnlessConfigured(b) == IF b \in Configured THEN "getting" ELSE "putting"

\* Mutant: no holder is made for a name that is not in the map.
NeverPuts(b) == "getting"

AfterContains(b) == IF map[b] = None THEN "putting" ELSE "getting"

ContainsKey(c, b) ==
  /\ pc[c] = "new"
  /\ Move(c, AfterContains(b))
  /\ arg' = [arg EXCEPT ![c] = b]
  /\ seen' = [seen EXCEPT ![c] = Mapped]
  /\ UNCHANGED <<map, answer>>

Put(c) ==
  /\ pc[c] = "putting"
  /\ \E undone \in SUBSET (Mapped \ (seen[c] \union {arg[c]})) :
       map' = [b \in Browsers |-> IF b = arg[c] THEN c
                                  ELSE IF b \in undone THEN None ELSE map[b]]
  /\ Move(c, "getting")
  /\ UNCHANGED <<arg, seen, answer>>

Get(c) ==
  /\ pc[c] = "getting"
  /\ answer' = [answer EXCEPT ![c] = map[arg[c]]]
  /\ Move(c, "done")
  /\ UNCHANGED <<map, arg, seen>>

Init == /\ map = [b \in Browsers |-> IF b \in Configured THEN b ELSE None]
        /\ pc = [c \in Calls |-> "new"]
        /\ arg = [c \in Calls |-> None]
        /\ seen = [c \in Calls |-> {}]
        /\ answer = [c \in Calls |-> None]

\* All calls have returned.
Over == (\A c \in Calls : pc[c] = "done") /\ UNCHANGED vars

Next == \/ \E c \in Calls : \/ \E b \in Browsers : ContainsKey(c, b)
                            \/ Put(c) \/ Get(c)
        \/ Over

Safety == Init /\ [][Next]_vars

-----------------------------------------------------------------------------
(* Properties *)

\* The call asks for another name, and b was not in the map when it looked.
Missed(d, b) == pc[d] # "new" /\ arg[d] # b /\ b \notin seen[d]

Asked(b) == {c \in Calls : arg[c] = b /\ pc[c] = "done"}

\* A browser of the configuration has one holder for good, whatever the calls
\* for other browsers do to the map.
ConfiguredOnce ==
  \A b \in Configured : map[b] = b /\ \A c \in Asked(b) : answer[c] = b

\* For any browser: a holder in the map that no call under way has missed is
\* the one every later call gets, so that the holders of one browser can only
\* part while first calls for it overlap.
StaysOnceSeen ==
  [][\A b \in Mapped :
       (\A c \in Calls : pc[c] = "putting" => b \in seen[c])
         => map'[b] = map[b]]_vars

\* The factory returns null only to calls that overlap (CaptureHandler and
\* TaskProcessor use the answer without a look): the puts of two calls that
\* missed each other.
NullNeedsOverlap ==
  \A c \in Calls : pc[c] = "done" /\ answer[c] = None
    => \E d \in Calls \ {c} : Missed(d, arg[c])

\* What the factory answers is right where callers rely on it: always for the
\* browsers of the configuration, and for others unless first calls overlap.
AnswersRight == ConfiguredOnce /\ NullNeedsOverlap
=============================================================================
