------------------------- MODULE TaskDispatchProofs -------------------------
(***************************************************************************)
(* Proofs about task dispatch, for every set of clients, browsers and      *)
(* tasks and every assignment of browsers to tasks.                        *)
(*                                                                         *)
(* Only six actions touch the queue or a processor.  The others are        *)
(* treated together wherever they leave a conjunct's variables alone.      *)
(***************************************************************************)
EXTENDS TaskDispatch, SequenceTheorems, TLAPS

-----------------------------------------------------------------------------
(* Types *)

\* TypeOK is inductive with the tie between `adder` and what it has to do.
TypeInv == TypeOK /\ (adder = None <=> todo[Adder] = {})

LEMMA InitTypes == Init => TypeInv
<1> SUFFICES ASSUME Init PROVE TypeInv
  OBVIOUS
<1>1. <<>> \in Seq(Tasks)
  BY EmptySeq
<1> QED BY <1>1 DEF Init, TypeInv, TypeOK, PCs, Maybe, Adder

LEMMA AddTaskTypes ==
  ASSUME TypeInv, NEW t \in Tasks, AddTask(t)
  PROVE  TypeInv'
<1>1. /\ Append(queue, t) \in Seq(Tasks) /\ Append(submitted, t) \in Seq(Tasks)
      /\ Append(queue, t) # <<>>
      /\ Head(Append(queue, t)) \in Tasks
      /\ Tail(Append(queue, t)) \in Seq(Tasks)
  <2>1. queue \in Seq(Tasks) /\ submitted \in Seq(Tasks)
    BY DEF TypeInv, TypeOK
  <2>2. /\ Append(queue, t) \in Seq(Tasks)
        /\ Append(submitted, t) \in Seq(Tasks)
        /\ Append(queue, t) # <<>>
    BY <2>1, AppendProperties
  <2> QED BY <2>2, HeadTailProperties
<1>2. queue' \in Seq(Tasks) /\ submitted' \in Seq(Tasks)
  BY <1>1 DEF AddTask, Remaining
<1>3. current' \in Maybe(Tasks) /\ adder' \in Maybe(Tasks)
  BY <1>1 DEF AddTask, Polled, Maybe, TypeInv, TypeOK
<1>4. /\ todo' \in [Clients \union {Adder} -> SUBSET Browsers]
      /\ adder' = None <=> todo'[Adder] = {}
  <2>1. CASE current = None
    <3>1. PICK u \in Tasks :
            /\ adder' = IF HoldersOf(u) = {} THEN None ELSE u
            /\ todo' = [todo EXCEPT ![Adder] = HoldersOf(u)]
      BY <1>1, <2>1 DEF AddTask, Polled
    <3>2. HoldersOf(u) \subseteq Browsers
      BY BrowserListAssumption DEF HoldersOf
    <3> QED BY <3>1, <3>2, TasksAssumption DEF TypeInv, TypeOK
  <2>2. CASE current # None
    BY <2>2 DEF AddTask, TypeInv, TypeOK
  <2> QED BY <2>1, <2>2
<1> QED BY <1>2, <1>3, <1>4
        DEF AddTask, tableVars, TypeInv, TypeOK

LEMMA GetTaskTypes ==
  ASSUME TypeInv, NEW c \in Clients, GetTask(c)
  PROVE  TypeInv'
<1>1. CASE queue = <<>>
  BY <1>1 DEF GetTask, Polled, Remaining, tableVars, TypeInv, TypeOK, PCs, Maybe
<1>2. CASE queue # <<>>
  <2>1. Head(queue) \in Tasks /\ Tail(queue) \in Seq(Tasks)
    BY <1>2 DEF TypeInv, TypeOK
  <2>2. HoldersOf(Head(queue)) \subseteq Browsers
    BY <2>1, BrowserListAssumption DEF HoldersOf
  <2>3. /\ todo' \in [Clients \union {Adder} -> SUBSET Browsers]
        /\ todo'[Adder] = todo[Adder]
    BY <1>2, <2>2, ClientsAssumption DEF GetTask, TypeInv, TypeOK, Adder
  <2>4. CASE HoldersOf(Head(queue)) # {}
    <3>1. /\ pc' = [pc EXCEPT ![c] = "registering"] /\ pc[c] = "pulling"
          /\ pulled' = [pulled EXCEPT ![c] = Head(queue)]
      BY <1>2, <2>4 DEF GetTask
    <3>2. /\ pc' \in [Clients -> PCs]
          /\ pulled' \in [Clients -> Maybe(Tasks)]
          /\ \A k \in Clients : /\ pulled'[k] # None <=> pc'[k] = "registering"
                                /\ named[k] # None <=> pc'[k] = "named"
      BY <2>1, <3>1, TasksAssumption DEF TypeInv, TypeOK, PCs, Maybe
    <3>3. current' \in Maybe(Tasks) /\ queue' \in Seq(Tasks)
      BY <1>2, <2>1 DEF GetTask, Polled, Remaining, Maybe
    <3> QED BY <1>2, <2>3, <2>4, <3>2, <3>3
            DEF GetTask, tableVars, TypeInv, TypeOK
  <2>5. CASE HoldersOf(Head(queue)) = {}
    BY <1>2, <2>1, <2>5, BrowserOfAssumption
       DEF GetTask, Leave, Polled, Remaining, tableVars, TypeInv, TypeOK, PCs,
           Maybe
  <2> QED BY <2>4, <2>5
<1> QED BY <1>1, <1>2

LEMMA RegisterTypes ==
  ASSUME TypeInv, NEW b \in Browsers,
         AdderRegisters(b) \/ \E c \in Clients : NoticeRegisters(c, b)
  PROVE  TypeInv'
<1>1. CASE AdderRegisters(b)
  BY <1>1, TasksAssumption
     DEF AdderRegisters, SetProcessor, queueVars, tableVars, TypeInv, TypeOK,
         PCs, Maybe
<1>2. ASSUME NEW c \in Clients, NoticeRegisters(c, b)
      PROVE  TypeInv'
  <2>1. /\ todo' \in [Clients \union {Adder} -> SUBSET Browsers]
        /\ todo'[Adder] = todo[Adder]
    BY <1>2, ClientsAssumption DEF NoticeRegisters, TypeInv, TypeOK, Adder
  <2>2. processor' \in [Browsers -> Maybe(Tasks)] /\ overwritten' \in BOOLEAN
    BY <1>2 DEF NoticeRegisters, SetProcessor, TypeInv, TypeOK, Maybe
  <2>3. /\ pc' \in [Clients -> PCs]
        /\ pulled' \in [Clients -> Maybe(Tasks)]
        /\ \A k \in Clients : /\ pulled'[k] # None <=> pc'[k] = "registering"
                              /\ named[k] # None <=> pc'[k] = "named"
    <3>1. \/ /\ pc' = [pc EXCEPT ![c] = "away"]
             /\ pulled' = [pulled EXCEPT ![c] = None]
          \/ pc' = pc /\ pulled' = pulled
      BY <1>2 DEF NoticeRegisters, Leave
    <3>2. pc[c] = "registering"
      BY <1>2 DEF NoticeRegisters
    <3> QED BY <3>1, <3>2 DEF TypeInv, TypeOK, PCs, Maybe
  <2>4. lock' \in [Browsers -> Maybe(Clients)]
    BY <1>2, BrowserOfAssumption
       DEF NoticeRegisters, Leave, TypeInv, TypeOK, Maybe
  <2> QED BY <1>2, <2>1, <2>2, <2>3, <2>4
          DEF NoticeRegisters, queueVars, tableVars, TypeInv, TypeOK
<1> QED BY <1>1, <1>2

LEMMA AskTypes ==
  ASSUME TypeInv, NEW c \in Clients, Ask(c)
  PROVE  TypeInv'
<1> DEFINE b == BrowserOf[c]
           t == processor[b]
<1>1. b \in Browsers /\ t \in Tasks
  BY BrowserOfAssumption DEF Ask, TypeInv, TypeOK, Maybe
<1>2. /\ Size(t) \in Nat
      /\ \A p \in (given[t][b] + 1)..Size(t) :
           p \in Nat /\ KissList[t][p] \in Names \ {None}
  <2>1. KissList[t] \in Seq(Names) /\ given[t][b] \in Nat
    BY <1>1, NamesAssumption DEF TypeInv, TypeOK
  <2> HIDE DEF b, t
  <2>2. Size(t) \in Nat
    BY <2>1 DEF Size
  <2>3. \A p \in (given[t][b] + 1)..Size(t) : p \in Nat /\ p \in 1..Len(KissList[t])
    BY <2>1 DEF Size
  <2>4. \A p \in 1..Len(KissList[t]) : KissList[t][p] \in Names
    BY <2>1
  <2> QED BY <2>2, <2>3, <2>4, NamesAssumption
<1>3. /\ given' \in [Tasks -> [Browsers -> Nat]]
      /\ dead' \in [Tasks -> BOOLEAN]
      /\ lock' \in [Browsers -> Maybe(Clients)]
  <2>1. \E n \in Nat : given' = [given EXCEPT ![t][b] = n]
    BY <1>2 DEF Ask
  <2>2. \E d \in BOOLEAN : dead' = [dead EXCEPT ![t] = d]
    BY DEF Ask
  <2>3. lock' = lock \/ lock' = [lock EXCEPT ![b] = c]
    BY DEF Ask
  <2> HIDE DEF b, t
  <2> QED BY <1>1, <2>1, <2>2, <2>3 DEF TypeInv, TypeOK, Maybe
<1>4. /\ pc' \in [Clients -> PCs]
      /\ named' \in [Clients -> Maybe(Names)]
      /\ running' \in [Clients -> Maybe(Names)]
      /\ \A k \in Clients : /\ pulled[k] # None <=> pc'[k] = "registering"
                            /\ named'[k] # None <=> pc'[k] = "named"
  <2>1. running' = [running EXCEPT ![c] = None] /\ pc[c] = "away"
    BY DEF Ask
  <2>2. \/ /\ pc' = [pc EXCEPT ![c] = "named"]
           /\ \E k \in Names \ {None} : named' = [named EXCEPT ![c] = k]
        \/ /\ pc' = [pc EXCEPT ![c] = "exhausted"]
           /\ named' = named
    BY <1>2 DEF Ask
  <2> HIDE DEF b, t
  <2> QED BY <2>1, <2>2 DEF TypeInv, TypeOK, PCs, Maybe
<1> QED BY <1>3, <1>4 DEF Ask, queueVars, registerVars, TypeInv, TypeOK

LEMMA NextTypes == TypeInv /\ [Next]_vars => TypeInv'
<1> SUFFICES ASSUME TypeInv, [Next]_vars PROVE TypeInv'
  OBVIOUS
<1>1. ASSUME NEW t \in Tasks, AddTask(t) PROVE TypeInv'
  BY <1>1, AddTaskTypes
<1>2. ASSUME NEW t \in Tasks, Expire(t) PROVE TypeInv'
  BY <1>2 DEF Expire, queueVars, registerVars, TypeInv, TypeOK
<1>3. ASSUME NEW b \in Browsers, AdderRegisters(b) PROVE TypeInv'
  BY <1>3, RegisterTypes
<1>4. ASSUME NEW c \in Clients, Request(c) PROVE TypeInv'
  <2>1. CASE AskIdle(c) \/ AskUnknown(c)
    BY <2>1 DEF AskIdle, AskUnknown, queueVars, registerVars, tableVars,
                TypeInv, TypeOK, Maybe
  <2>2. CASE Ask(c)
    BY <2>2, AskTypes
  <2> QED BY <1>4, <2>1, <2>2 DEF Request
<1>5. ASSUME NEW c \in Clients, Serve(c) PROVE TypeInv'
  <2>1. CASE CheckDead(c)
    BY <2>1, BrowserOfAssumption
       DEF CheckDead, Leave, queueVars, registerVars, tableVars, TypeInv, TypeOK,
           PCs, Maybe
  <2>2. CASE GetTask(c)
    BY <2>2, GetTaskTypes
  <2>3. CASE \E b \in Browsers : NoticeRegisters(c, b)
    BY <2>3, RegisterTypes
  <2>4. CASE DropProcessor(c)
    BY <2>4, BrowserOfAssumption
       DEF DropProcessor, Leave, queueVars, tableVars, TypeInv, TypeOK, PCs, Maybe
  <2>5. CASE Resolve(c)
    BY <2>5 DEF Resolve, queueVars, registerVars, tableVars, TypeInv, TypeOK,
                PCs, Maybe
  <2> QED BY <1>5, <2>1, <2>2, <2>3, <2>4, <2>5 DEF Serve
<1>6. CASE UNCHANGED vars
  BY <1>6 DEF vars, TypeInv, TypeOK
<1> QED BY <1>1, <1>2, <1>3, <1>4, <1>5, <1>6 DEF Next

\* The variables of the dispatcher keep their types, and a request has the
\* locals that belong to the point where it is.
THEOREM TypeCorrect == Safety => []TypeOK
<1>1. TypeInv => TypeOK
  BY DEF TypeInv
<1> QED BY <1>1, InitTypes, NextTypes, PTL DEF Safety

-----------------------------------------------------------------------------
(* The queue *)

QueueInv == TakenInOrder /\ IdleQueueEmpty

LEMMA QueueLengths ==
  ASSUME TypeInv
  PROVE  /\ queue \in Seq(Tasks) /\ submitted \in Seq(Tasks)
         /\ Len(queue) \in Nat /\ Len(submitted) \in Nat
         /\ StartedCount \in Int
  BY LenProperties DEF TypeInv, TypeOK, StartedCount

LEMMA AddTaskQueue ==
  ASSUME TypeInv, QueueInv, NEW t \in Tasks, AddTask(t)
  PROVE  /\ QueueInv'
         /\ StartedCount <= StartedCount' /\ StartedCount' \in Int
         /\ \A i \in 1..StartedCount : submitted'[i] = submitted[i]
<1>1. /\ Len(submitted') = Len(submitted) + 1
      /\ \A i \in 1..Len(submitted) : submitted'[i] = submitted[i]
      /\ submitted'[Len(submitted) + 1] = t
  BY QueueLengths, AppendProperties DEF AddTask
<1>2. CASE current = None
  <2>1. queue = <<>> /\ Len(queue) = 0
    BY <1>2, EmptySeq DEF QueueInv, IdleQueueEmpty
  <2>2. /\ Append(queue, t) # <<>>
        /\ Head(Append(queue, t)) = t
        /\ Tail(Append(queue, t)) = <<>>
    BY <2>1, QueueLengths, AppendProperties, HeadTailAppend
  <2>3. queue' = <<>> /\ current' = t /\ Len(queue') = 0
    BY <1>2, <2>2, EmptySeq DEF AddTask, Polled, Remaining
  <2> QED BY <1>1, <2>1, <2>3, QueueLengths
          DEF QueueInv, TakenInOrder, IdleQueueEmpty, StartedCount
<1>3. CASE current # None
  <2>1. queue' = Append(queue, t) /\ current' = current
    BY <1>3 DEF AddTask
  <2>2. /\ Len(queue') = Len(queue) + 1
        /\ \A i \in 1..Len(queue) : queue'[i] = queue[i]
        /\ queue'[Len(queue) + 1] = t
    BY <2>1, QueueLengths, AppendProperties
  <2>3. StartedCount' = StartedCount /\ StartedCount \in Nat
    BY <1>1, <2>2, QueueLengths DEF StartedCount, QueueInv, TakenInOrder
  <2>4. \A i \in 1..Len(queue') : queue'[i] = submitted'[StartedCount' + i]
    <3> TAKE i \in 1..Len(queue')
    <3>1. CASE i \in 1..Len(queue)
      <4>1. StartedCount + i \in 1..Len(submitted)
        BY <2>3, <3>1, QueueLengths DEF StartedCount
      <4> QED BY <1>1, <2>2, <2>3, <3>1, <4>1 DEF QueueInv, TakenInOrder
    <3>2. CASE i = Len(queue) + 1
      <4>1. StartedCount + i = Len(submitted) + 1
        BY <2>3, <3>2, QueueLengths DEF StartedCount
      <4> QED BY <1>1, <2>2, <2>3, <3>2, <4>1
    <3> QED BY <2>2, <3>1, <3>2, QueueLengths
  <2>5. StartedCount > 0 /\ current = submitted'[StartedCount]
    <3>1. StartedCount > 0 /\ current = submitted[StartedCount]
      BY <1>3 DEF QueueInv, TakenInOrder
    <3>2. StartedCount \in 1..Len(submitted)
      BY <2>3, <3>1, QueueLengths DEF StartedCount
    <3> QED BY <1>1, <3>1, <3>2
  <2> QED BY <1>1, <1>3, <2>1, <2>2, <2>3, <2>4, <2>5, QueueLengths
          DEF QueueInv, TakenInOrder, IdleQueueEmpty, StartedCount
<1> QED BY <1>2, <1>3

LEMMA GetTaskQueue ==
  ASSUME TypeInv, QueueInv, NEW c \in Clients, GetTask(c)
  PROVE  /\ QueueInv'
         /\ StartedCount <= StartedCount'
         /\ StartedCount' \in Int
         /\ \A t \in Tasks : queue # <<>> /\ t = Head(queue) => Started(t)'
<1>1. CASE queue = <<>>
  <2>1. queue' = queue /\ current' = None /\ submitted' = submitted
    BY <1>1 DEF GetTask, Polled, Remaining
  <2> QED BY <1>1, <2>1, QueueLengths
          DEF QueueInv, TakenInOrder, IdleQueueEmpty, StartedCount
<1>2. CASE queue # <<>>
  <2>1. queue' = Tail(queue) /\ current' = Head(queue) /\ submitted' = submitted
    BY <1>2 DEF GetTask, Polled, Remaining
  <2>2. /\ Len(queue) > 0 /\ Len(queue') = Len(queue) - 1
        /\ \A i \in 1..Len(queue') : queue'[i] = queue[i + 1]
    BY <1>2, <2>1, QueueLengths, HeadTailProperties, EmptySeq
  <2>3. StartedCount' = StartedCount + 1 /\ StartedCount \in Nat
    <3>1. Len(submitted') = Len(submitted) /\ Len(queue) <= Len(submitted)
      BY <2>1 DEF QueueInv, TakenInOrder
    <3> QED BY <2>2, <3>1, QueueLengths DEF StartedCount
  <2>4. Head(queue) = submitted[StartedCount + 1]
    <3>1. Head(queue) = queue[1]
      BY <1>2, QueueLengths
    <3> QED BY <2>2, <3>1, QueueLengths DEF QueueInv, TakenInOrder
  <2>5. \A i \in 1..Len(queue') : queue'[i] = submitted'[StartedCount' + i]
    <3> TAKE i \in 1..Len(queue')
    <3>1. i + 1 \in 1..Len(queue) /\ StartedCount + (i + 1) = StartedCount' + i
      BY <2>2, <2>3, QueueLengths
    <3> QED BY <2>1, <2>2, <3>1 DEF QueueInv, TakenInOrder
  <2>6. current' # None
    BY <1>2, <2>1, QueueLengths, HeadTailProperties, TasksAssumption
  <2>7. Len(queue') <= Len(submitted')
    BY <2>1, <2>2, QueueLengths DEF QueueInv, TakenInOrder
  <2>8. QueueInv'
    BY <2>1, <2>3, <2>4, <2>5, <2>6, <2>7
       DEF QueueInv, TakenInOrder, IdleQueueEmpty
  <2>9. \A t \in Tasks : t = Head(queue) => Started(t)'
    <3>1. StartedCount + 1 \in 1..StartedCount' /\ StartedCount' \in Int
      BY <2>3
    <3> QED BY <2>1, <2>4, <3>1 DEF Started
  <2> QED BY <2>3, <2>8, <2>9
<1> QED BY <1>1, <1>2

\* Every other step leaves the queue alone.
LEMMA OtherSteps ==
  ASSUME [Next]_vars,
         ~ \E t \in Tasks : AddTask(t), ~ \E c \in Clients : GetTask(c)
  PROVE  UNCHANGED queueVars
  BY DEF Next, Request, Serve, AskIdle, AskUnknown, Ask, CheckDead,
         NoticeRegisters, DropProcessor, Resolve, Expire, AdderRegisters,
         queueVars, vars

\* A started task stays started.
LEMMA QueueKept ==
  ASSUME TypeInv, QueueInv, [Next]_vars
  PROVE  QueueInv' /\ \A t \in Tasks : Started(t) => Started(t)'
<1>1. ASSUME NEW t \in Tasks, AddTask(t) PROVE QueueInv'
                        /\ \A u \in Tasks : Started(u) => Started(u)'
  BY <1>1, AddTaskQueue, QueueLengths DEF Started
<1>2. ASSUME NEW c \in Clients, GetTask(c) PROVE QueueInv'
                        /\ \A u \in Tasks : Started(u) => Started(u)'
  <2>1. submitted' = submitted
    BY <1>2 DEF GetTask
  <2> QED BY <1>2, <2>1, GetTaskQueue, QueueLengths DEF Started
<1>3. CASE UNCHANGED queueVars
  BY <1>3 DEF queueVars, QueueInv, TakenInOrder, IdleQueueEmpty, StartedCount,
              Started
<1> QED BY <1>1, <1>2, <1>3, OtherSteps

\* The two need each other: the task that is started is the next of the
\* submissions because the queue is empty when nothing is current.
LEMMA QueueInvariant == Safety => [](TakenInOrder /\ IdleQueueEmpty)
<1>1. Init => QueueInv
  <2> SUFFICES ASSUME Init PROVE QueueInv
    OBVIOUS
  <2>1. queue = <<>> /\ submitted = <<>> /\ Len(<<>>) = 0 /\ current = None
    BY EmptySeq DEF Init
  <2> QED BY <2>1 DEF QueueInv, TakenInOrder, IdleQueueEmpty
<1>2. TypeInv /\ QueueInv /\ [Next]_vars => QueueInv'
  BY QueueKept
<1>3. QueueInv => TakenInOrder /\ IdleQueueEmpty
  BY DEF QueueInv
<1> QED BY <1>1, <1>2, <1>3, InitTypes, NextTypes, PTL DEF Safety

\* Tasks are taken in the order of addTask, each once and none lost, and none
\* waits in the queue while none is current (TaskQueue).
THEOREM QueueCorrect == Safety => []QueueRight
<1>1. TakenInOrder /\ IdleQueueEmpty => QueueRight
  BY DEF QueueRight
<1> QED BY <1>1, QueueInvariant, PTL

-----------------------------------------------------------------------------
(* The holders *)

\* What thread x still has to register.
Registering(x, t) == todo[x] \subseteq BrowserList[t] /\ Started(t)

\* Threads register only started tasks, with browsers of their lists.
RegisterInv ==
  /\ adder # None => Registering(Adder, adder)
  /\ \A c \in Clients : pc[c] = "registering" => Registering(c, pulled[c])

\* A thread inside notice owns its holder, whose processor stays set.
OwnerInv ==
  \A c \in Clients : pc[c] \in Inside
    => lock[BrowserOf[c]] = c /\ processor[BrowserOf[c]] # None

HolderInv == RegisterInv /\ OwnerInv /\ OnlyListedBrowsers

\* An invariant of steps that leave holders and registrations alone.
LEMMA HolderFrame ==
  ASSUME TypeInv, HolderInv,
         \A t \in Tasks : Started(t) => Started(t)',
         UNCHANGED <<processor, adder, todo, pulled>>,
         \A c \in Clients : pc'[c] = "registering" => pc[c] = "registering",
         OwnerInv'
  PROVE  HolderInv'
<1>1. /\ adder # None => adder \in Tasks
      /\ \A c \in Clients : pc[c] = "registering" => pulled[c] \in Tasks
      /\ \A b \in Browsers : processor[b] # None => processor[b] \in Tasks
  BY DEF TypeInv, TypeOK, Maybe
<1>2. RegisterInv'
  BY <1>1 DEF HolderInv, RegisterInv, Registering, Adder
<1>3. OnlyListedBrowsers'
  BY <1>1 DEF HolderInv, OnlyListedBrowsers
<1> QED BY <1>2, <1>3 DEF HolderInv

\* What setProcessor leaves of the holders' invariants: the task was started
\* and lists the browser.
LEMMA SetProcessorKeeps ==
  ASSUME TypeInv, HolderInv, NEW b \in Browsers, NEW t \in Tasks,
         b \in BrowserList[t], Started(t),
         UNCHANGED <<queue, submitted>>, SetProcessor(b, t)
  PROVE  /\ OnlyListedBrowsers'
         /\ \A a \in Browsers : processor[a] # None => processor'[a] # None
<1>1. processor' \in [Browsers -> Maybe(Tasks)]
  BY DEF SetProcessor, TypeInv, TypeOK, Maybe
<1>2. \A u \in Tasks : Started(u) <=> Started(u)'
  BY DEF Started, StartedCount
<1>3. \A a \in Browsers : processor'[a] = IF a = b THEN t ELSE processor[a]
  BY DEF SetProcessor, TypeInv, TypeOK
<1> QED BY <1>1, <1>2, <1>3, TasksAssumption
        DEF HolderInv, OnlyListedBrowsers, Maybe

LEMMA AdderHolders ==
  ASSUME TypeInv, HolderInv, NEW b \in Browsers, AdderRegisters(b)
  PROVE  HolderInv'
<1>1. adder \in Tasks /\ adder # None
  BY DEF AdderRegisters, TypeInv, TypeOK, Maybe
<1>2. b \in BrowserList[adder] /\ Started(adder) /\ SetProcessor(b, adder)
  BY <1>1 DEF AdderRegisters, HolderInv, RegisterInv, Registering
<1>3. UNCHANGED <<queue, submitted, pc, lock, pulled>>
  BY DEF AdderRegisters, queueVars
<1>4. /\ OnlyListedBrowsers'
      /\ \A a \in Browsers : processor[a] # None => processor'[a] # None
  BY <1>1, <1>2, <1>3, SetProcessorKeeps
<1>5. OwnerInv'
  BY <1>3, <1>4, BrowserOfAssumption DEF HolderInv, OwnerInv
<1>6. RegisterInv'
  <2>1. \A u \in Tasks : Started(u) => Started(u)'
    BY <1>3 DEF Started, StartedCount
  <2>2. /\ todo'[Adder] \subseteq todo[Adder]
        /\ adder' # None => adder' = adder
        /\ \A c \in Clients : todo'[c] = todo[c]
    BY ClientsAssumption DEF AdderRegisters, TypeInv, TypeOK, Adder
  <2>3. \A c \in Clients : pc[c] = "registering" => pulled[c] \in Tasks
    BY DEF TypeInv, TypeOK, Maybe
  <2> QED BY <1>1, <1>3, <2>1, <2>2, <2>3 DEF HolderInv, RegisterInv, Registering
<1> QED BY <1>4, <1>5, <1>6 DEF HolderInv

LEMMA NoticeHolders ==
  ASSUME TypeInv, HolderInv, NEW c \in Clients, NEW b \in Browsers,
         NoticeRegisters(c, b)
  PROVE  HolderInv'
<1>1. pc[c] = "registering" /\ pulled[c] \in Tasks
  BY DEF NoticeRegisters, TypeInv, TypeOK, Maybe
<1>2. b \in BrowserList[pulled[c]] /\ Started(pulled[c])
      /\ SetProcessor(b, pulled[c])
  BY <1>1 DEF NoticeRegisters, HolderInv, RegisterInv, Registering
<1>3. UNCHANGED <<queue, submitted, adder>>
  BY DEF NoticeRegisters, queueVars
<1>4. /\ OnlyListedBrowsers'
      /\ \A a \in Browsers : processor[a] # None => processor'[a] # None
  BY <1>1, <1>2, <1>3, SetProcessorKeeps
<1>5. \/ UNCHANGED <<pc, lock, pulled>>
      \/ /\ pc' = [pc EXCEPT ![c] = "away"]
         /\ lock' = [lock EXCEPT ![BrowserOf[c]] = None]
         /\ pulled' = [pulled EXCEPT ![c] = None]
  BY DEF NoticeRegisters, Leave
<1>6. OwnerInv'
  <2>1. CASE UNCHANGED <<pc, lock, pulled>>
    BY <1>4, <2>1, BrowserOfAssumption DEF HolderInv, OwnerInv
  <2>2. CASE /\ pc' = [pc EXCEPT ![c] = "away"]
             /\ lock' = [lock EXCEPT ![BrowserOf[c]] = None]
    <3> SUFFICES ASSUME NEW k \in Clients, pc'[k] \in Inside
                 PROVE  lock'[BrowserOf[k]] = k /\ processor'[BrowserOf[k]] # None
      BY DEF OwnerInv
    <3>1. k # c /\ pc'[k] = pc[k]
      BY <2>2 DEF TypeInv, TypeOK, Inside
    <3>2. lock[BrowserOf[c]] = c /\ lock[BrowserOf[k]] = k
          /\ processor[BrowserOf[k]] # None
      BY <1>1, <3>1 DEF HolderInv, OwnerInv, Inside
    <3> QED BY <1>4, <2>2, <3>1, <3>2, BrowserOfAssumption DEF TypeInv, TypeOK
  <2> QED BY <1>5, <2>1, <2>2
<1>7. RegisterInv'
  <2>1. \A u \in Tasks : Started(u) => Started(u)'
    BY <1>3 DEF Started, StartedCount
  <2>2. /\ \A x \in Clients \union {Adder} : todo'[x] \subseteq todo[x]
        /\ \A k \in Clients : pc'[k] = "registering"
             => /\ pc[k] = "registering" /\ pulled'[k] = pulled[k]
                /\ pulled[k] \in Tasks
    <3>1. todo' = [todo EXCEPT ![c] = @ \ {b}]
      BY DEF NoticeRegisters
    <3> QED BY <1>5, <3>1 DEF TypeInv, TypeOK, Maybe
  <2>3. adder # None => adder \in Tasks
    BY DEF TypeInv, TypeOK, Maybe
  <2> QED BY <1>3, <2>1, <2>2, <2>3 DEF HolderInv, RegisterInv, Registering
<1> QED BY <1>4, <1>6, <1>7 DEF HolderInv

LEMMA AddTaskHolders ==
  ASSUME TypeInv, HolderInv, QueueInv, NEW t \in Tasks, AddTask(t)
  PROVE  HolderInv'
<1>1. \A u \in Tasks : Started(u) => Started(u)'
  BY AddTaskQueue, QueueLengths DEF Started
<1>2. UNCHANGED <<processor, pulled, lock, pc>>
  BY DEF AddTask
<1>3. OwnerInv'
  BY <1>2 DEF HolderInv, OwnerInv
<1>4. CASE current = None
  <2> queue = <<>>
    BY <1>4 DEF QueueInv, IdleQueueEmpty
  <2>1. Append(queue, t) # <<>> /\ Head(Append(queue, t)) = t
    BY QueueLengths, AppendProperties, HeadTailAppend
  <2>2. /\ adder' \in {t, None} /\ current' = t
        /\ todo' = [todo EXCEPT ![Adder] = BrowserList[t]]
    BY <1>4, <2>1 DEF AddTask, Polled, HoldersOf
  <2>3. StartedCount' > 0 /\ t = submitted'[StartedCount']
    BY <2>2, AddTaskQueue, TasksAssumption DEF QueueInv, TakenInOrder
  <2>4. Started(t)'
    BY <2>3, AddTaskQueue DEF Started
  <2>5. todo'[Adder] = BrowserList[t] /\ \A c \in Clients : todo'[c] = todo[c]
    BY <2>2, ClientsAssumption DEF TypeInv, TypeOK, Adder
  <2>6. /\ \A c \in Clients : pc[c] = "registering" => pulled[c] \in Tasks
        /\ \A b \in Browsers : processor[b] # None => processor[b] \in Tasks
    BY DEF TypeInv, TypeOK, Maybe
  <2>7. RegisterInv'
    BY <1>1, <1>2, <2>2, <2>4, <2>5, <2>6
       DEF HolderInv, RegisterInv, Registering
  <2>8. OnlyListedBrowsers'
    BY <1>1, <1>2, <2>6 DEF HolderInv, OnlyListedBrowsers
  <2> QED BY <1>3, <2>7, <2>8 DEF HolderInv
<1>5. CASE current # None
  <2>1. UNCHANGED <<adder, todo>>
    BY <1>5 DEF AddTask
  <2> QED BY <1>1, <1>2, <1>3, <2>1, HolderFrame
<1> QED BY <1>4, <1>5

LEMMA GetTaskHolders ==
  ASSUME TypeInv, HolderInv, QueueInv, NEW c \in Clients, GetTask(c)
  PROVE  HolderInv'
<1>1. \A u \in Tasks : Started(u) => Started(u)'
  <2>1. submitted' = submitted
    BY DEF GetTask
  <2> QED BY <2>1, GetTaskQueue, QueueLengths DEF Started
<1>2. UNCHANGED <<processor, adder>> /\ pc[c] = "pulling"
  BY DEF GetTask
<1>3. \/ /\ lock' = lock
         /\ \E p \in Inside : pc' = [pc EXCEPT ![c] = p]
      \/ /\ pc' = [pc EXCEPT ![c] = "away"]
         /\ lock' = [lock EXCEPT ![BrowserOf[c]] = None]
  BY DEF GetTask, Leave, Inside
<1>4. OwnerInv'
  <2> SUFFICES ASSUME NEW k \in Clients, pc'[k] \in Inside
               PROVE  lock'[BrowserOf[k]] = k /\ processor[BrowserOf[k]] # None
    BY <1>2 DEF OwnerInv
  <2>1. /\ lock[BrowserOf[k]] = k /\ processor[BrowserOf[k]] # None
        /\ lock[BrowserOf[c]] = c
    BY <1>2, <1>3 DEF HolderInv, OwnerInv, Inside, TypeInv, TypeOK
  <2>2. lock' = lock \/ (lock' = [lock EXCEPT ![BrowserOf[c]] = None] /\ k # c)
    BY <1>3 DEF Inside, TypeInv, TypeOK
  <2> QED BY <2>1, <2>2, BrowserOfAssumption DEF TypeInv, TypeOK
<1>5. CASE queue = <<>>
  <2>1. pc' = [pc EXCEPT ![c] = "dropping"] /\ UNCHANGED <<pulled, todo>>
    BY <1>5 DEF GetTask
  <2>2. \A k \in Clients : pc'[k] = "registering" => pc[k] = "registering"
    BY <2>1 DEF TypeInv, TypeOK
  <2> QED BY <1>1, <1>2, <1>4, <2>1, <2>2, HolderFrame
<1>6. CASE queue # <<>> /\ HoldersOf(Head(queue)) # {}
  <2>1. PICK t \in Tasks : t = Head(queue)
    BY <1>6, QueueLengths, HeadTailProperties
  <2>2. /\ pc' = [pc EXCEPT ![c] = "registering"]
        /\ pulled' = [pulled EXCEPT ![c] = t]
        /\ todo' = [todo EXCEPT ![c] = BrowserList[t]]
    BY <1>6, <2>1 DEF GetTask, HoldersOf
  <2>3. Started(t)'
    BY <1>6, <2>1, GetTaskQueue
  <2>4. /\ todo'[c] = BrowserList[t] /\ pulled'[c] = t
        /\ todo'[Adder] = todo[Adder]
        /\ \A k \in Clients \ {c} : /\ todo'[k] = todo[k] /\ pc'[k] = pc[k]
                                    /\ pulled'[k] = pulled[k]
    BY <2>2, ClientsAssumption DEF TypeInv, TypeOK, Adder
  <2>5. /\ \A k \in Clients : pc[k] = "registering" => pulled[k] \in Tasks
        /\ adder # None => adder \in Tasks
        /\ \A b \in Browsers : processor[b] # None => processor[b] \in Tasks
    BY DEF TypeInv, TypeOK, Maybe
  <2>6. RegisterInv'
    <3>1. (adder # None => Registering(Adder, adder))'
      BY <1>1, <1>2, <2>4, <2>5 DEF HolderInv, RegisterInv, Registering, Adder
    <3>2. ASSUME NEW k \in Clients, pc'[k] = "registering"
          PROVE  todo'[k] \subseteq BrowserList[pulled'[k]] /\ Started(pulled[k])'
      <4>1. CASE k = c
        BY <2>3, <2>4, <4>1
      <4>2. CASE k # c
        BY <1>1, <2>4, <2>5, <3>2, <4>2 DEF HolderInv, RegisterInv, Registering
      <4> QED BY <4>1, <4>2
    <3> QED BY <3>1, <3>2 DEF RegisterInv, Registering
  <2>7. OnlyListedBrowsers'
    BY <1>1, <1>2, <2>5 DEF HolderInv, OnlyListedBrowsers
  <2> QED BY <1>4, <2>6, <2>7 DEF HolderInv
<1>7. CASE queue # <<>> /\ HoldersOf(Head(queue)) = {}
  <2>1. pc' = [pc EXCEPT ![c] = "away"] /\ UNCHANGED <<pulled, todo>>
    BY <1>7 DEF GetTask, Leave
  <2>2. \A k \in Clients : pc'[k] = "registering" => pc[k] = "registering"
    BY <2>1 DEF TypeInv, TypeOK
  <2> QED BY <1>1, <1>2, <1>4, <2>1, <2>2, HolderFrame
<1> QED BY <1>5, <1>6, <1>7

\* The thread inside drops the processor of the holder it owns, so no other
\* thread is inside that holder.
LEMMA DropHolders ==
  ASSUME TypeInv, HolderInv, NEW c \in Clients, DropProcessor(c)
  PROVE  HolderInv'
<1> DEFINE b == BrowserOf[c]
<1>1. /\ pc[c] = "dropping" /\ pc' = [pc EXCEPT ![c] = "away"]
      /\ lock' = [lock EXCEPT ![b] = None]
      /\ processor' = [processor EXCEPT ![b] = None]
      /\ UNCHANGED <<queue, submitted, adder, todo, pulled>>
  BY DEF DropProcessor, Leave, queueVars
<1>2. b \in Browsers /\ lock[b] = c
  BY <1>1, BrowserOfAssumption DEF HolderInv, OwnerInv, Inside
<1>3. \A u : Started(u) <=> Started(u)'
  BY <1>1 DEF Started, StartedCount
<1>4. \A k \in Clients : pc'[k] # "away" => k # c /\ pc'[k] = pc[k]
  BY <1>1 DEF TypeInv, TypeOK
<1>5. OwnerInv'
  <2> SUFFICES ASSUME NEW k \in Clients, pc'[k] \in Inside
               PROVE  lock'[BrowserOf[k]] = k /\ processor'[BrowserOf[k]] # None
    BY DEF OwnerInv
  <2>1. k # c /\ pc'[k] = pc[k]
    BY <1>4 DEF Inside
  <2>2. lock[BrowserOf[k]] = k /\ processor[BrowserOf[k]] # None
    BY <2>1 DEF HolderInv, OwnerInv
  <2> QED BY <1>1, <1>2, <2>1, <2>2, BrowserOfAssumption DEF TypeInv, TypeOK
<1>6. RegisterInv'
  BY <1>1, <1>3, <1>4 DEF HolderInv, RegisterInv, Registering
<1>7. OnlyListedBrowsers'
  BY <1>1, <1>3 DEF HolderInv, OnlyListedBrowsers, TypeInv, TypeOK
<1> QED BY <1>5, <1>6, <1>7 DEF HolderInv

\* A notice enters a free holder that has a processor.
LEMMA AskHolders ==
  ASSUME TypeInv, HolderInv, NEW c \in Clients, Ask(c)
  PROVE  HolderInv'
<1> DEFINE b == BrowserOf[c]
<1>1. /\ b \in Browsers /\ processor[b] # None /\ lock[b] = None
      /\ UNCHANGED <<queueVars, registerVars>>
  BY BrowserOfAssumption DEF Ask, HolderFree
<1>2. \/ pc' = [pc EXCEPT ![c] = "named"] /\ lock' = lock
      \/ pc' = [pc EXCEPT ![c] = "exhausted"] /\ lock' = [lock EXCEPT ![b] = c]
  BY DEF Ask
<1>3. \A t \in Tasks : Started(t) => Started(t)'
  BY <1>1 DEF Started, StartedCount, queueVars
<1>4. \A k \in Clients : pc'[k] = "registering" => pc[k] = "registering"
  BY <1>2 DEF TypeInv, TypeOK
<1>5. OwnerInv'
  <2> SUFFICES ASSUME NEW k \in Clients, pc'[k] \in Inside
               PROVE  lock'[BrowserOf[k]] = k /\ processor'[BrowserOf[k]] # None
    BY DEF OwnerInv
  <2>1. CASE k = c
    <3>1. lock' = [lock EXCEPT ![b] = c]
      BY <1>2, <2>1 DEF TypeInv, TypeOK, Inside
    <3> QED BY <1>1, <2>1, <3>1 DEF registerVars, TypeInv, TypeOK
  <2>2. CASE k # c
    <3>1. pc'[k] = pc[k]
      BY <1>2, <2>2 DEF TypeInv, TypeOK
    <3>2. lock[BrowserOf[k]] = k /\ processor[BrowserOf[k]] # None
      BY <3>1 DEF HolderInv, OwnerInv
    <3>3. BrowserOf[k] # b
      BY <1>1, <3>2, ClientsAssumption
    <3> QED BY <1>1, <1>2, <3>2, <3>3, BrowserOfAssumption
            DEF registerVars, TypeInv, TypeOK
  <2> QED BY <2>1, <2>2
<1> QED BY <1>1, <1>3, <1>4, <1>5, HolderFrame DEF registerVars

\* "Not dead": the notice leaves the holder it owns.
LEMMA CheckHolders ==
  ASSUME TypeInv, HolderInv, NEW c \in Clients, CheckDead(c)
  PROVE  HolderInv'
<1> DEFINE b == BrowserOf[c]
<1>1. /\ pc[c] = "exhausted" /\ UNCHANGED <<queueVars, registerVars>>
      /\ \/ pc' = [pc EXCEPT ![c] = "pulling"] /\ lock' = lock
         \/ pc' = [pc EXCEPT ![c] = "away"] /\ lock' = [lock EXCEPT ![b] = None]
  BY DEF CheckDead, Leave
<1>2. lock[b] = c
  BY <1>1 DEF HolderInv, OwnerInv, Inside
<1>3. \A t \in Tasks : Started(t) => Started(t)'
  BY <1>1 DEF Started, StartedCount, queueVars
<1>4. \A k \in Clients : pc'[k] = "registering" => pc[k] = "registering"
  BY <1>1 DEF TypeInv, TypeOK
<1>5. OwnerInv'
  <2> SUFFICES ASSUME NEW k \in Clients, pc'[k] \in Inside
               PROVE  lock'[BrowserOf[k]] = k /\ processor'[BrowserOf[k]] # None
    BY DEF OwnerInv
  <2>1. lock[BrowserOf[k]] = k /\ processor[BrowserOf[k]] # None
    BY <1>1 DEF HolderInv, OwnerInv, Inside, TypeInv, TypeOK
  <2>2. lock' = lock \/ (lock' = [lock EXCEPT ![b] = None] /\ k # c)
    BY <1>1 DEF Inside, TypeInv, TypeOK
  <2> QED BY <1>1, <1>2, <2>1, <2>2, BrowserOfAssumption
          DEF registerVars, TypeInv, TypeOK
<1> QED BY <1>1, <1>3, <1>4, <1>5, HolderFrame DEF registerVars

LEMMA OtherHolders ==
  ASSUME TypeInv, HolderInv,
         \/ UNCHANGED vars
         \/ \E t \in Tasks : Expire(t)
         \/ \E c \in Clients : AskIdle(c) \/ AskUnknown(c) \/ Resolve(c)
  PROVE  HolderInv'
<1>1. UNCHANGED <<queue, submitted, processor, adder, todo, pulled, lock>>
  BY DEF vars, Expire, AskIdle, AskUnknown, Resolve, queueVars, registerVars
<1>2. \A k \in Clients : pc'[k] \in Inside => pc'[k] = pc[k]
  BY DEF vars, Expire, AskIdle, AskUnknown, Resolve, Inside, TypeInv, TypeOK
<1>3. OwnerInv'
  BY <1>1, <1>2 DEF HolderInv, OwnerInv
<1>4. \A t \in Tasks : Started(t) => Started(t)'
  BY <1>1 DEF Started, StartedCount
<1>5. \A k \in Clients : pc'[k] = "registering" => pc[k] = "registering"
  BY <1>2 DEF Inside
<1> QED BY <1>1, <1>3, <1>4, <1>5, HolderFrame

\* The two facts about holders, from one strengthening.
LEMMA HoldersInvariant == Safety => [](OnlyListedBrowsers /\ NoNullReread)
<1>1. Init => QueueInv /\ HolderInv
  <2> SUFFICES ASSUME Init PROVE QueueInv /\ HolderInv
    OBVIOUS
  <2>1. queue = <<>> /\ submitted = <<>> /\ Len(<<>>) = 0 /\ current = None
    BY EmptySeq DEF Init
  <2>2. QueueInv
    BY <2>1 DEF QueueInv, TakenInOrder, IdleQueueEmpty
  <2>3. HolderInv
    BY DEF Init, HolderInv, RegisterInv, OwnerInv, OnlyListedBrowsers, Inside
  <2> QED BY <2>2, <2>3
<1>2. TypeInv /\ QueueInv /\ HolderInv /\ [Next]_vars => QueueInv' /\ HolderInv'
  <2> SUFFICES ASSUME TypeInv, QueueInv, HolderInv, [Next]_vars PROVE HolderInv'
    BY QueueKept
  <2>1. ASSUME NEW t \in Tasks, AddTask(t) PROVE HolderInv'
    BY <2>1, AddTaskHolders
  <2>2. ASSUME NEW b \in Browsers, AdderRegisters(b) PROVE HolderInv'
    BY <2>2, AdderHolders
  <2>3. ASSUME NEW c \in Clients, Request(c) PROVE HolderInv'
    BY <2>3, AskHolders, OtherHolders DEF Request
  <2>4. ASSUME NEW c \in Clients, Serve(c) PROVE HolderInv'
    BY <2>4, CheckHolders, GetTaskHolders, NoticeHolders, DropHolders,
       OtherHolders DEF Serve
  <2>5. CASE UNCHANGED vars \/ \E t \in Tasks : Expire(t)
    BY <2>5, OtherHolders
  <2> QED BY <2>1, <2>2, <2>3, <2>4, <2>5 DEF Next
<1>3. HolderInv => OnlyListedBrowsers /\ NoNullReread
  BY DEF HolderInv, OwnerInv, NoNullReread, Inside
<1> QED BY <1>1, <1>2, <1>3, InitTypes, NextTypes, PTL DEF Safety

\* A holder only serves a started task that lists its browser, and when notice
\* reads its processor again after the table's null answer it is still set,
\* however notices, registrations and addTask interleave (TaskProcessor.process,
\* setProcessor).
THEOREM HoldersCorrect == Safety => []HoldersRight
<1>1. OnlyListedBrowsers /\ NoNullReread => HoldersRight
  BY DEF HoldersRight
<1> QED BY <1>1, HoldersInvariant, PTL
=============================================================================
