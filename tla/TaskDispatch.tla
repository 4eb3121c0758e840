---------------------------- MODULE TaskDispatch ----------------------------
(***************************************************************************)
(* How tasks reach browsers: TaskQueue, TaskProcessor.process,             *)
(* BrowserHolderImpl.notice, CaptureHandler.probe and the end of           *)
(* TaskHandler (addTask).                                                  *)
(*                                                                         *)
(* Threads are server threads.  The thread that serves a client's notice   *)
(* holds the monitor of the client's BrowserHolder; TaskQueue has a        *)
(* monitor of its own; setProcessor and TaskQueue.current() take none.  A  *)
(* step of this module is what a thread does between two points where      *)
(* another thread can see or change something it uses.                     *)
(*                                                                         *)
(* Every task has one processor and one result table, so all three go by   *)
(* the task's name.  Of its table only what TableContract promises is      *)
(* used: who has been given which kisses, and whether isDead answers true. *)
(***************************************************************************)
EXTENDS Naturals, Sequences, FiniteSets

CONSTANTS
  Tasks,        \* the tasks that may be submitted
  Browsers,     \* browser names, each with its holder
  Clients,      \* browser instances that poll the server
  BrowserOf,    \* client -> its browser name
  BrowserList,  \* task -> the browsers it is to run in, perhaps none
  Live,         \* the clients that never stop polling
  Names,        \* the kiss names
  KissList,     \* task -> the names of its kisses, in order
  None          \* null

ASSUME TasksAssumption == None \notin Tasks
ASSUME BrowserOfAssumption == BrowserOf \in [Clients -> Browsers]
ASSUME BrowserListAssumption == BrowserList \in [Tasks -> SUBSET Browsers]
ASSUME NamesAssumption ==
  None \notin Names /\ KissList \in [Tasks -> Seq(Names)]
ASSUME ClientsAssumption == None \notin Clients /\ Live \subseteq Clients

Size(t) == Len(KissList[t])

HasKiss(t, name) == \E i \in 1..Size(t) : KissList[t][i] = name

VARIABLES
  queue,      \* TaskQueue.queue
  current,    \* TaskQueue.current
  processor,  \* holder -> the task whose table it serves
  given,      \* task -> browser -> kisses behind it in the task's table
  dead,       \* task -> does its table answer isDead with true?
  lock,       \* holder -> the client whose notice is inside, None if free
  pc,         \* client -> where its request is
  named,      \* client -> the kiss name that notice returned
  pulled,     \* client -> the task its thread took from the queue
  adder,      \* the task addTask is registering, None if it holds no lock
  todo,       \* registering thread -> holders it has not reached yet
  running,    \* client -> name of the kiss it runs in its frame
  submitted,  \* history: the tasks in the order of addTask
  overwritten \* history: did a holder get the current task between its
              \* getTask and its `this.processor = null`?

vars == <<queue, current, processor, given, dead, lock, pc, named, pulled,
          adder, todo, running, submitted, overwritten>>

\* The thread of addTask; TaskQueue's monitor lets one in at a time.
Adder == None

queueVars == <<queue, current, submitted>>
registerVars == <<processor, adder, todo, pulled, overwritten>>
tableVars == <<given, dead>>

-----------------------------------------------------------------------------
(***************************************************************************)
(* TaskQueue.  getTask and addTask are synchronized; addTask registers the *)
(* task it starts while it holds the monitor, so nobody else takes a task  *)
(* before the registration is complete.                                    *)
(***************************************************************************)
QueueFree == adder = None

\* Mutant: an empty queue leaves `current` as it is.
PolledOrKept(q) == IF q = <<>> THEN current ELSE Head(q)

\* queue.poll(): null, and so an empty `current`, when nothing waits.
Polled(q) == IF q = <<>> THEN None ELSE Head(q)
Remaining(q) == IF q = <<>> THEN <<>> ELSE Tail(q)

\* The holders a task is registered with.
AllHolders(t) == Browsers   \* Mutant: every holder.
HoldersOf(t) == BrowserList[t]

\* Mutant: the task waits even if nothing runs.
AddTaskOnly(t) ==
  /\ QueueFree
  /\ \A i \in 1..Len(submitted) : submitted[i] # t
  /\ submitted' = Append(submitted, t)
  /\ queue' = Append(queue, t)
  /\ UNCHANGED <<current, registerVars, tableVars, lock, pc, named, running>>

\* Mutant: a task that cannot start at once is forgotten.
AddTaskIfIdle(t) ==
  /\ QueueFree
  /\ \A i \in 1..Len(submitted) : submitted[i] # t
  /\ submitted' = Append(submitted, t)
  /\ IF current = None
     THEN /\ current' = t
          /\ adder' = IF HoldersOf(t) = {} THEN None ELSE t
          /\ todo' = [todo EXCEPT ![Adder] = HoldersOf(t)]
     ELSE UNCHANGED <<current, adder, todo>>
  /\ UNCHANGED <<queue, processor, pulled, overwritten, tableVars, lock, pc,
                 named, running>>

AddTask(t) ==
  /\ QueueFree
  /\ \A i \in 1..Len(submitted) : submitted[i] # t
  /\ submitted' = Append(submitted, t)
  /\ IF current = None
     THEN LET all == Append(queue, t)
              holders == HoldersOf(Polled(all))
          IN /\ current' = Polled(all)
             /\ queue' = Remaining(all)
             /\ adder' = IF holders = {} THEN None ELSE Polled(all)
             /\ todo' = [todo EXCEPT ![Adder] = holders]
     ELSE /\ queue' = Append(queue, t)
          /\ UNCHANGED <<current, adder, todo>>
  /\ UNCHANGED <<processor, pulled, overwritten, tableVars, lock, pc, named,
                 running>>

-----------------------------------------------------------------------------
(***************************************************************************)
(* TaskProcessor.process: setProcessor on one holder after the other.  It  *)
(* takes no holder's monitor, and may change the processor of a holder     *)
(* that is in the middle of a notice.                                      *)
(***************************************************************************)
Dropping(b) == \E c \in Clients : BrowserOf[c] = b /\ pc[c] = "dropping"

\* Mutant: setProcessor is synchronized; the thread that registers a task it
\* took itself is inside its own holder already.
SetProcessorLocked(b, t) ==
  /\ lock[b] # None => pulled[lock[b]] = t
  /\ processor' = [processor EXCEPT ![b] = t]
  /\ UNCHANGED overwritten

SetProcessor(b, t) ==
  /\ processor' = [processor EXCEPT ![b] = t]
  /\ overwritten' = (overwritten \/ (t = current /\ Dropping(b)))

AdderRegisters(b) ==
  /\ b \in todo[Adder]
  /\ SetProcessor(b, adder)
  /\ todo' = [todo EXCEPT ![Adder] = @ \ {b}]
  /\ adder' = IF todo'[Adder] = {} THEN None ELSE adder
  /\ UNCHANGED <<queueVars, tableVars, lock, pc, named, pulled, running>>

\* notice returns null and leaves the holder.
Leave(c) == /\ pc' = [pc EXCEPT ![c] = "away"]
            /\ lock' = [lock EXCEPT ![BrowserOf[c]] = None]

\* The same loop run by a notice that took a task; its last step leaves the
\* holder.
NoticeRegisters(c, b) ==
  /\ pc[c] = "registering"
  /\ b \in todo[c]
  /\ SetProcessor(b, pulled[c])
  /\ todo' = [todo EXCEPT ![c] = @ \ {b}]
  /\ IF todo'[c] = {}
     THEN /\ Leave(c)
          /\ pulled' = [pulled EXCEPT ![c] = None]
     ELSE UNCHANGED <<pc, lock, pulled>>
  /\ UNCHANGED <<queueVars, tableVars, adder, named, running>>

-----------------------------------------------------------------------------
(***************************************************************************)
(* BrowserHolderImpl.notice.                                               *)
(***************************************************************************)
Unguarded(c) == TRUE   \* Mutant: notice is not synchronized.

HolderFree(c) == lock[BrowserOf[c]] = None

\* No processor: the request returns "" and a result it carried is dropped.
AskIdle(c) ==
  /\ pc[c] = "away" /\ HolderFree(c)
  /\ processor[BrowserOf[c]] = None
  /\ running' = [running EXCEPT ![c] = None]
  /\ UNCHANGED <<queueVars, registerVars, tableVars, lock, pc, named>>

\* A result of a kiss that the holder's table does not know: the index is -1,
\* store throws, and the request ends with an empty answer.
AskUnknown(c) ==
  /\ pc[c] = "away" /\ HolderFree(c)
  /\ processor[BrowserOf[c]] # None
  /\ running[c] # None
  /\ ~ HasKiss(processor[BrowserOf[c]], running[c])
  /\ running' = [running EXCEPT ![c] = None]
  /\ UNCHANGED <<queueVars, registerVars, tableVars, lock, pc, named>>

\* The table stores the result, if there is one, and answers with a later
\* kiss (those in between have lost their case files), or with null when none
\* is left.  Storing and skipping count as progress and may move the deadline
\* or complete the table.  With a name, notice returns and the holder is free.
Ask(c) ==
  LET b == BrowserOf[c]
      t == processor[b]
  IN /\ pc[c] = "away" /\ HolderFree(c)
     /\ t # None
     /\ running[c] = None \/ HasKiss(t, running[c])
     /\ \/ \E p \in (given[t][b] + 1)..Size(t) :
             /\ given' = [given EXCEPT ![t][b] = p]
             /\ named' = [named EXCEPT ![c] = KissList[t][p]]
             /\ pc' = [pc EXCEPT ![c] = "named"]
             /\ \E d \in BOOLEAN :
                  /\ d = dead[t] \/ running[c] # None \/ p > given[t][b] + 1
                  /\ dead' = [dead EXCEPT ![t] = d]
             /\ UNCHANGED lock
        \/ /\ given' = [given EXCEPT ![t][b] = Size(t)]
           /\ pc' = [pc EXCEPT ![c] = "exhausted"]
           /\ \E d \in BOOLEAN :
                /\ d = dead[t] \/ running[c] # None \/ Size(t) > given[t][b]
                /\ dead' = [dead EXCEPT ![t] = d]
           /\ lock' = [lock EXCEPT ![b] = c]
           /\ UNCHANGED named
     /\ running' = [running EXCEPT ![c] = None]
     /\ UNCHANGED <<queueVars, registerVars>>

\* next == null: isDead is asked of the processor the holder has NOW.
CheckDead(c) ==
  /\ pc[c] = "exhausted"
  /\ IF dead[processor[BrowserOf[c]]]
     THEN /\ pc' = [pc EXCEPT ![c] = "pulling"]
          /\ UNCHANGED lock
     ELSE Leave(c)
  /\ UNCHANGED <<queueVars, registerVars, tableVars, named, running>>

\* TaskQueue.getTask: nothing waits, or the task has holders to be registered
\* with, or it has none.
GetTask(c) ==
  /\ pc[c] = "pulling"
  /\ QueueFree
  /\ current' = Polled(queue)
  /\ queue' = Remaining(queue)
  /\ \/ /\ queue = <<>>
        /\ pc' = [pc EXCEPT ![c] = "dropping"]
        /\ UNCHANGED <<pulled, todo, lock>>
     \/ /\ queue # <<>> /\ HoldersOf(Head(queue)) # {}
        /\ pc' = [pc EXCEPT ![c] = "registering"]
        /\ pulled' = [pulled EXCEPT ![c] = Head(queue)]
        /\ todo' = [todo EXCEPT ![c] = HoldersOf(Head(queue))]
        /\ UNCHANGED lock
     \/ /\ queue # <<>> /\ HoldersOf(Head(queue)) = {}
        /\ Leave(c)
        /\ UNCHANGED <<pulled, todo>>
  /\ UNCHANGED <<submitted, processor, adder, tableVars, named, running,
                 overwritten>>

\* this.processor = null, some time after getTask returned null.
DropProcessor(c) ==
  LET b == BrowserOf[c]
  IN /\ pc[c] = "dropping"
     /\ processor' = [processor EXCEPT ![b] = None]
     /\ Leave(c)
     /\ UNCHANGED <<queueVars, tableVars, named, pulled, adder, todo, running,
                    overwritten>>

-----------------------------------------------------------------------------
(***************************************************************************)
(* CaptureHandler.probe after notice: the name is looked up in the task    *)
(* that is current NOW.  Without one the answer is empty; a name the task  *)
(* does not have throws.  In both cases, and when the response is lost,    *)
(* the client runs nothing.                                                *)
(***************************************************************************)
\* Mutant: the name is not cleared.
ResolveKeepsName(c) ==
  /\ pc[c] = "named"
  /\ pc' = [pc EXCEPT ![c] = "away"]
  /\ UNCHANGED <<queueVars, registerVars, tableVars, lock, named, running>>

Resolve(c) ==
  /\ pc[c] = "named"
  /\ \E kiss \in {None, named[c]} :
       /\ kiss # None => current # None /\ HasKiss(current, named[c])
       /\ running' = [running EXCEPT ![c] = kiss]
  /\ named' = [named EXCEPT ![c] = None]
  /\ pc' = [pc EXCEPT ![c] = "away"]
  /\ UNCHANGED <<queueVars, registerVars, tableVars, lock>>

\* Time runs out for the table of a task that was started.
Expire(t) ==
  /\ \E i \in 1..(Len(submitted) - Len(queue)) : submitted[i] = t
  /\ ~ dead[t]
  /\ dead' = [dead EXCEPT ![t] = TRUE]
  /\ UNCHANGED <<queueVars, registerVars, given, lock, pc, named, running>>

Init == /\ queue = <<>>
        /\ current = None
        /\ processor = [b \in Browsers |-> None]
        /\ given = [t \in Tasks |-> [b \in Browsers |-> 0]]
        /\ dead = [t \in Tasks |-> FALSE]
        /\ lock = [b \in Browsers |-> None]
        /\ pc = [c \in Clients |-> "away"]
        /\ named = [c \in Clients |-> None]
        /\ pulled = [c \in Clients |-> None]
        /\ adder = None
        /\ todo = [x \in Clients \union {Adder} |-> {}]
        /\ running = [c \in Clients |-> None]
        /\ submitted = <<>>
        /\ overwritten = FALSE

\* What the server does for client c once its request is in, and the request.
Serve(c) == \/ CheckDead(c)
            \/ GetTask(c)
            \/ \E b \in Browsers : NoticeRegisters(c, b)
            \/ DropProcessor(c)
            \/ Resolve(c)

Request(c) == AskIdle(c) \/ AskUnknown(c) \/ Ask(c)

Next == \/ \E t \in Tasks : AddTask(t) \/ Expire(t)
        \/ \E b \in Browsers : AdderRegisters(b)
        \/ \E c \in Clients : Request(c) \/ Serve(c)

\* Server threads are scheduled, live clients poll, and time passes.  Nobody
\* has to submit a task, and a client that is not live may hang or be closed.
Fairness == /\ \A c \in Clients : WF_vars(Serve(c))
            /\ \A c \in Live : WF_vars(Request(c))
            /\ WF_vars(\E b \in Browsers : AdderRegisters(b))
            /\ \A t \in Tasks : WF_vars(Expire(t))

Safety == Init /\ [][Next]_vars

Spec == Safety /\ Fairness

-----------------------------------------------------------------------------
(* Properties *)

PCs == {"away", "named", "exhausted", "pulling", "registering", "dropping"}

\* The program counters inside notice, where the holder's monitor is held.
Inside == {"exhausted", "pulling", "registering", "dropping"}

Maybe(S) == S \union {None}

\* Types, and which locals of a request are set at which of its points.
TypeOK ==
  /\ queue \in Seq(Tasks) /\ submitted \in Seq(Tasks)
  /\ current \in Maybe(Tasks)
  /\ processor \in [Browsers -> Maybe(Tasks)]
  /\ given \in [Tasks -> [Browsers -> Nat]]
  /\ dead \in [Tasks -> BOOLEAN]
  /\ lock \in [Browsers -> Maybe(Clients)]
  /\ pc \in [Clients -> PCs]
  /\ named \in [Clients -> Maybe(Names)]
  /\ running \in [Clients -> Maybe(Names)]
  /\ pulled \in [Clients -> Maybe(Tasks)]
  /\ adder \in Maybe(Tasks)
  /\ todo \in [Clients \union {Adder} -> SUBSET Browsers]
  /\ overwritten \in BOOLEAN
  /\ \A c \in Clients : /\ pulled[c] # None <=> pc[c] = "registering"
                        /\ named[c] # None <=> pc[c] = "named"

StartedCount == Len(submitted) - Len(queue)

Started(t) == \E i \in 1..StartedCount : submitted[i] = t

\* When nothing is current nothing waits, so addTask is right to start the
\* head of the queue at once (TaskQueue.addTask looks at `current` only, and
\* `current` is cleared by holders polling an empty queue).
IdleQueueEmpty == current = None => queue = <<>>

\* Tasks are taken in the order of addTask, each once and none lost, whichever
\* holders take them and whenever: the queue is the end of the submissions and
\* the current task is the one before it.
TakenInOrder ==
  /\ Len(queue) <= Len(submitted)
  /\ \A i \in 1..Len(queue) : queue[i] = submitted[StartedCount + i]
  /\ current # None => StartedCount > 0 /\ current = submitted[StartedCount]

\* The queue is right: tasks leave it in order, and none waits in it while the
\* dispatcher is idle (nobody would take it out).
QueueRight == TakenInOrder /\ IdleQueueEmpty

\* A holder only ever serves a task that was started and that lists its
\* browser, so the tables' arrays are never indexed with -1 for a browser
\* (ResultTableImpl.getNextExcutableKiss), though registrations of several
\* tasks may run at the same time.
OnlyListedBrowsers ==
  \A b \in Browsers : processor[b] # None
    => b \in BrowserList[processor[b]] /\ Started(processor[b])

\* notice reads its processor again after the table's null answer: it may be
\* another one by then, but never null.
NoNullReread ==
  \A c \in Clients : pc[c] = "exhausted" => processor[BrowserOf[c]] # None

\* The holders' processors are right, whoever sets and clears them meanwhile:
\* those of started tasks for their browser, and not null where notice relies
\* on it.
HoldersRight == OnlyListedBrowsers /\ NoNullReread

\* Every request is answered: no thread waits for a monitor for ever, though
\* holders and the queue lock and call each other both ways (notice holds a
\* holder and enters the queue, addTask holds the queue and calls holders).
CallsReturn == \A c \in Clients : pc[c] # "away" ~> pc[c] = "away"

\* A task whose browsers no live client polls for (addTask checks neither that
\* its list of browsers is empty nor that anybody polls): the deadline of its
\* table passes, but nobody asks.
Unattended(t) == \A c \in Live : BrowserOf[c] \notin BrowserList[t]

\* A submitted task starts in the end, but for two ways to strand the queue
\* and no other: some holder was handed the current task between its getTask
\* and its `this.processor = null`, or a task that nobody polls for was started
\* before it.
StartsUnlessStranded ==
  \A t \in Tasks : (\E i \in 1..Len(submitted) : submitted[i] = t)
    ~> \/ Started(t) \/ overwritten
       \/ \E i \in 1..StartedCount : Unattended(submitted[i])

\* No registration is under way.
Quiet == /\ QueueFree
         /\ \A c \in Clients : pc[c] \notin {"registering", "dropping"}

\* BrowserHolderImpl.java:100 ("if there is a task to process"): a holder
\* without a processor has nothing to do, so when no registration is under way
\* the current task has no untouched work for its browser.
IdleHolderHasNoWork ==
  Quiet => \A b \in Browsers :
    processor[b] = None /\ current # None /\ b \in BrowserList[current]
      => given[current][b] > 0
=============================================================================
