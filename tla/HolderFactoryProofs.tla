------------------------ MODULE HolderFactoryProofs -------------------------
(* Theorems about HolderFactory, for any names and any number of calls. *)
EXTENDS HolderFactory, TLAPS

USE FactoryAssumption

Phases == {"new", "putting", "getting", "done"}

Typed ==
  /\ map \in [Browsers -> Holders \union {None}]
  /\ pc \in [Calls -> Phases]
  /\ arg \in [Calls -> Browsers \union {None}]
  /\ seen \in [Calls -> SUBSET Browsers]
  /\ answer \in [Calls -> Holders \union {None}]
  /\ \A c \in Calls : arg[c] = None <=> pc[c] = "new"

\* A call that puts has missed its name; no call misses a configured one.
Misses == \A c \in Calls : pc[c] = "putting" => arg[c] \notin seen[c]

Kept == /\ \A b \in Configured : map[b] = b
        /\ \A c \in Calls : pc[c] # "new" => Configured \subseteq seen[c]

\* A holder that a call has seen or put is lost only to a call that missed it.
Overlapped ==
  \A c \in Calls : pc[c] = "getting" /\ map[arg[c]] = None
    => \E d \in Calls \ {c} : Missed(d, arg[c])

IInv == Typed /\ Misses /\ Kept /\ ConfiguredOnce /\ Overlapped
          /\ NullNeedsOverlap

LEMMA Initially == Init => IInv
BY DEF Init, IInv, Typed, Phases, Misses, Kept, ConfiguredOnce, Asked, Holders,
       Overlapped, NullNeedsOverlap

\* Each step keeps the invariant.
LEMMA Stepwise == IInv /\ [Next]_vars => IInv'
<1> SUFFICES ASSUME IInv, [Next]_vars PROVE IInv'
  OBVIOUS
<1> USE DEF IInv, Phases, Holders, Mapped, Move, Asked, Missed
<1>1. ASSUME NEW c \in Calls, NEW b \in Browsers, ContainsKey(c, b)
      PROVE  IInv'
  <2>1. Typed'
    BY <1>1 DEF ContainsKey, AfterContains, Typed
  <2>2. Misses'
    BY <1>1 DEF ContainsKey, AfterContains, Typed, Misses
  <2>3. Kept'
    BY <1>1 DEF ContainsKey, AfterContains, Typed, Kept
  <2>4. ConfiguredOnce'
    BY <1>1 DEF ContainsKey, AfterContains, Typed, ConfiguredOnce
  <2>5. \A d \in Calls, n \in Browsers : Missed(d, n) => Missed(d, n)'
    BY <1>1 DEF ContainsKey, AfterContains, Typed
  <2>6. Overlapped'
    BY <1>1, <2>5 DEF ContainsKey, AfterContains, Typed, Overlapped
  <2>7. NullNeedsOverlap'
    BY <1>1, <2>5 DEF ContainsKey, AfterContains, Typed, NullNeedsOverlap
  <2> QED BY <2>1, <2>2, <2>3, <2>4, <2>6, <2>7
<1>2. ASSUME NEW c \in Calls, Put(c)
      PROVE  IInv'
  <2>0. PICK undone \in SUBSET (Mapped \ (seen[c] \union {arg[c]})) :
          map' = [b \in Browsers |-> IF b = arg[c] THEN c
                                     ELSE IF b \in undone THEN None ELSE map[b]]
    BY <1>2 DEF Put
  <2>1. Typed'
    BY <1>2, <2>0 DEF Put, Typed
  <2>2. Misses'
    BY <1>2 DEF Put, Typed, Misses
  <2>3. Kept'
    BY <1>2, <2>0 DEF Put, Typed, Misses, Kept
  <2>4. ConfiguredOnce'
    BY <1>2, <2>3 DEF Put, Typed, ConfiguredOnce, Kept
  <2>5. \A d \in Calls, n \in Browsers : Missed(d, n) => Missed(d, n)'
    BY <1>2 DEF Put, Typed
  <2>6. ASSUME NEW e \in Calls, pc'[e] = "getting", map'[arg'[e]] = None
        PROVE  \E d \in Calls \ {e} : Missed(d, arg[e])'
    <3>1. e # c /\ pc[e] = "getting" /\ arg'[e] = arg[e] /\ arg[e] \in Browsers
      BY <1>2, <2>0, <2>6 DEF Put, Typed
    <3>2. CASE map[arg[e]] = None
      BY <1>2, <2>5, <3>1, <3>2 DEF Put, Overlapped
    <3>3. CASE map[arg[e]] # None
      <4>1. arg[e] \in undone /\ arg[e] # arg[c]
        BY <2>0, <2>6, <3>1, <3>3 DEF Typed
      <4>2. Missed(c, arg[e])
        BY <1>2, <4>1 DEF Put
      <4> QED BY <2>5, <3>1, <4>2
    <3> QED BY <3>2, <3>3
  <2>7. NullNeedsOverlap'
    BY <1>2, <2>5 DEF Put, Typed, NullNeedsOverlap
  <2> QED BY <2>1, <2>2, <2>3, <2>4, <2>6, <2>7 DEF Overlapped
<1>3. ASSUME NEW c \in Calls, Get(c)
      PROVE  IInv'
  <2>1. Typed'
    BY <1>3 DEF Get, Typed
  <2>2. Misses' /\ Kept'
    BY <1>3 DEF Get, Typed, Misses, Kept
  <2>3. ConfiguredOnce'
    BY <1>3 DEF Get, Typed, Kept, ConfiguredOnce
  <2>4. \A d \in Calls, n \in Browsers : Missed(d, n) => Missed(d, n)'
    BY <1>3 DEF Get, Typed
  <2>5. Overlapped'
    BY <1>3, <2>4 DEF Get, Typed, Overlapped
  <2>6. NullNeedsOverlap'
    BY <1>3, <2>4 DEF Get, Typed, Overlapped, NullNeedsOverlap
  <2> QED BY <2>1, <2>2, <2>3, <2>5, <2>6
<1>4. CASE UNCHANGED vars
  BY <1>4 DEF vars, Typed, Misses, Kept, ConfiguredOnce, Overlapped,
              NullNeedsOverlap
<1> QED BY <1>1, <1>2, <1>3, <1>4 DEF Next, Over

\* BrowserHolderFactory.getBrowserHolderInstance: a browser of the
\* configuration has one holder for good, however the calls race, and null is
\* answered only to a call that another one, which missed its name, overlapped.
THEOREM AnswersCorrect == Safety => []AnswersRight
<1>1. IInv => AnswersRight
  BY DEF IInv, AnswersRight
<1> QED BY Initially, Stepwise, <1>1, PTL DEF Safety

\* BrowserHolderFactory.getBrowserHolderInstance: a holder in the map that no
\* call under way has missed is never replaced or lost.
THEOREM SeenStays == Safety => StaysOnceSeen
<1> DEFINE Stays == \A b \in Mapped :
              (\A c \in Calls : pc[c] = "putting" => b \in seen[c])
                => map'[b] = map[b]
<1>1. IInv /\ [Next]_vars => [Stays]_vars
  <2> SUFFICES ASSUME IInv, Next, NEW b \in Mapped,
                      \A c \in Calls : pc[c] = "putting" => b \in seen[c]
               PROVE  map'[b] = map[b]
    OBVIOUS
  <2>1. ASSUME NEW c \in Calls, Put(c) PROVE map'[b] = map[b]
    BY <2>1 DEF Put, IInv, Typed, Misses, Mapped
  <2> QED BY <2>1 DEF Next, ContainsKey, Get, Over, vars
<1> QED BY Initially, Stepwise, <1>1, PTL DEF Safety, StaysOnceSeen
=============================================================================
