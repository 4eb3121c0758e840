-------------------------- MODULE ProjectStructure --------------------------
(***************************************************************************)
(* The structure of a project: the list of its suites, which every task    *)
(* and every request for an unknown kiss builds anew (ProjectParser.parse) *)
(* while other requests look kisses up in it, without any lock.            *)
(*                                                                         *)
(* Project.suites is a java.util.ArrayList: an array, and a size of its    *)
(* own.  add(0, s) works on them in the steps modelled here, so that adds  *)
(* of two threads may lose elements or leave a null behind; an iterator    *)
(* fails at the next element if the list has been modified meanwhile.      *)
(*                                                                         *)
(* All kisses are directly under the project here.  A suite in the list    *)
(* that is not filled yet is, to a lookup, like one that is not there yet. *)
(***************************************************************************)
EXTENDS Naturals, Sequences, FiniteSets, SequencesExt

CONSTANTS
  Pages,      \* the requests of run.do
  TaskAdds,   \* the requests of addTask
  Crowds,     \* the sets of requests that may come together
  NameOf,     \* the kiss each page asks for
  Files,      \* the source files of the project in the order of listFiles
  Written,    \* how many of them there are at the start; the rest come later
  Capacity    \* the length of the arrays; their growth is not modelled

Threads == Pages \union TaskAdds
Names == Range(Files)

ASSUME FilesAssumption ==
  /\ Files \in Seq(STRING \ {"null"}) /\ IsInjective(Files)
  /\ Written \in 0..Len(Files) /\ Capacity \in Nat /\ Len(Files) < Capacity
  /\ NameOf \in [Pages -> Names]
  /\ Pages \intersect TaskAdds = {} /\ Crowds \subseteq SUBSET Threads

\* The list that the server starts with, and one for each parse.
CONSTANT Main
ASSUME MainAssumption == Main \notin Threads
Lists == Threads \union {Main}

VARIABLES
  disk,       \* how many of the files there are
  suites,     \* Project.suites
  data,       \* the array of each list
  size,       \* its size
  pc,         \* where each thread is
  todo,       \* the files its parse has still to add
  target,     \* the list that its add works on
  read,       \* the size that its add has read
  at,         \* the list it iterates
  cursor,     \* where
  stale,      \* the threads whose list was modified since they began
  found,      \* the kiss that getKiss returned, or null
  task,       \* the kisses a task takes up (kissList and noKissList)
  listed,     \* history: the files each parse found
  overlapped, \* history: the lists that two parses worked on, or might have
  disturbed   \* history: the threads that read while another one parsed

listVars == <<suites, data, size>>
parseVars == <<todo, target, read>>
lookVars == <<at, cursor, stale, found>>
structureVars == <<disk, listVars, pc, parseVars, lookVars, task, listed,
                   overlapped, disturbed>>

\* The kiss that a parse made for a file; null in an array.
Kiss(by, name) == [by |-> by, name |-> name]
Null == Kiss(Main, "null")
Kisses == [by : Lists, name : Names]

Places == 0..Capacity

\* The files in the order of the structure: each is added at the front.
Parsed(by, files) ==
  [i \in Places |-> IF i < Len(files) THEN Kiss(by, files[Len(files) - i])
                                      ELSE Null]

OnDisk == SubSeq(Files, 1, disk)

Becomes(t, where) == pc' = [pc EXCEPT ![t] = where]

Parsing == {t \in Threads : pc[t] \in {"shift", "put", "grow"}}

\* Threads that read the structure at the moment.
Reading == {t \in Threads : pc[t] \in {"look", "lookAgain", "flatten"}}

-----------------------------------------------------------------------------
(* ProjectParser.parse *)

\* Mutant: initStructure keeps the list.
ListKept(t) == suites

ListAfterInit(t) == t

\* initStructure, and the listing of the source directory.
ParseBegins(t) ==
  /\ pc[t] = "parse"
  /\ suites' = ListAfterInit(t)
  /\ todo' = [todo EXCEPT ![t] = OnDisk]
  /\ listed' = [listed EXCEPT ![t] = disk]
  /\ overlapped' = overlapped \union
       (IF Parsing = {} THEN {} ELSE {t} \union Parsing)
  /\ disturbed' = disturbed \union (Reading \ {t})
  /\ Becomes(t, "shift")
  /\ UNCHANGED <<disk, data, size, target, read, lookVars, task>>

\* add(0, s) moves the elements up ...
Shift(t) ==
  LET l == suites
  IN /\ pc[t] = "shift" /\ todo[t] # <<>> /\ size[l] < Capacity
     /\ target' = [target EXCEPT ![t] = l]
     /\ stale' = stale \union {u \in Reading : at[u] = l}
     /\ data' = [data EXCEPT ![l] =
          [i \in Places |-> IF i \in 1..size[l] THEN data[l][i - 1]
                                                ELSE data[l][i]]]
     /\ Becomes(t, "put")
     /\ UNCHANGED <<disk, suites, size, todo, read, at, cursor, found, task,
                    listed, overlapped, disturbed>>

\* ... writes the new one, and reads the size ...
Put(t) ==
  /\ pc[t] = "put" /\ size[target[t]] < Capacity
  /\ data' = [data EXCEPT ![target[t]][0] = Kiss(t, Head(todo[t]))]
  /\ read' = [read EXCEPT ![t] = size[target[t]]]
  /\ Becomes(t, "grow")
  /\ UNCHANGED <<disk, suites, size, todo, target, lookVars, task, listed,
                 overlapped, disturbed>>

\* ... and writes the size.
Grow(t) ==
  /\ pc[t] = "grow"
  /\ size' = [size EXCEPT ![target[t]] = read[t] + 1]
  /\ todo' = [todo EXCEPT ![t] = Tail(@)]
  /\ Becomes(t, "shift")
  /\ read' = [read EXCEPT ![t] = 0]
  /\ UNCHANGED <<disk, suites, data, target, lookVars, task, listed, overlapped,
                 disturbed>>

\* Mutant: the second lookup is in the list that the first one had.
ListBefore(t) == at[t]

ListAfterParse(t) == suites

\* Mutant: an iteration that leaves out the first element.
SecondElement == 1

FirstElement == 0

\* The parse is over; a page looks again, a task takes what there is.
ParseEnds(t) ==
  /\ pc[t] = "shift" /\ todo[t] = <<>>
  /\ Becomes(t, IF t \in Pages THEN "lookAgain" ELSE "flatten")
  /\ at' = [at EXCEPT ![t] = ListAfterParse(t)]
  /\ cursor' = [cursor EXCEPT ![t] = FirstElement]
  /\ stale' = stale \ {t}
  /\ disturbed' = disturbed \union (IF Parsing = {t} THEN {} ELSE {t})
  /\ UNCHANGED <<disk, listVars, parseVars, found, task, listed, overlapped>>

-----------------------------------------------------------------------------
(* Iteration: getKiss of a page, adapte of a task.  Both fail if the list has
   been modified since the iterator was made, is too short, or has a null. *)

Exhausted(t) == cursor[t] = size[at[t]]

Element(t) == data[at[t]][cursor[t]]

\* A size that an add has set back may be behind the cursor.
Fails(t) == /\ ~ Exhausted(t)
            /\ \/ t \in stale \/ cursor[t] > size[at[t]]
               \/ Element(t) = Null

\* The iterator of the first lookup.
LookBegins(t) ==
  /\ pc[t] = "new" /\ t \in Pages
  /\ at' = [at EXCEPT ![t] = suites]
  /\ cursor' = [cursor EXCEPT ![t] = FirstElement]
  /\ stale' = stale \ {t}
  /\ disturbed' = disturbed \union (IF Parsing = {} THEN {} ELSE {t})
  /\ Becomes(t, "look")
  /\ UNCHANGED <<disk, listVars, parseVars, found, task, listed, overlapped>>

\* A task is parsed for at once.
TaskBegins(t) ==
  /\ pc[t] = "new" /\ t \in TaskAdds
  /\ Becomes(t, "parse")
  /\ UNCHANGED <<disk, listVars, parseVars, lookVars, task, listed, overlapped,
                 disturbed>>

\* An unchecked exception ends the request.
IterationFails(t) ==
  /\ t \in Reading /\ Fails(t)
  /\ Becomes(t, "failed")
  /\ UNCHANGED <<disk, listVars, parseVars, lookVars, task, listed, overlapped,
                 disturbed>>

\* The next element: a page takes it if it is the one, a task takes them all.
IterationGoesOn(t) ==
  /\ t \in Reading /\ ~ Exhausted(t) /\ ~ Fails(t)
  /\ IF t \in Pages /\ Element(t).name = NameOf[t]
     THEN /\ found' = [found EXCEPT ![t] = Element(t)]
          /\ cursor' = [cursor EXCEPT ![t] = 0]
          /\ Becomes(t, "found")
          /\ UNCHANGED task
     ELSE /\ cursor' = [cursor EXCEPT ![t] = @ + 1]
          /\ task' = IF t \in TaskAdds
                     THEN [task EXCEPT ![t] = Append(@, Element(t).name)]
                     ELSE task
          /\ UNCHANGED <<found, pc>>
  /\ UNCHANGED <<disk, listVars, parseVars, at, stale, listed, overlapped,
                 disturbed>>

\* Mutant: the second answer of getKiss is not looked at.
AfterEndUnchecked(where) == CASE where = "look" -> "parse"
                              [] where = "lookAgain" -> "found"
                              [] where = "flatten" -> "done"

AfterEnd(where) == CASE where = "look" -> "parse"
                     [] where = "lookAgain" -> "blank"
                     [] where = "flatten" -> "done"

\* The end of the list: a page parses once, and gives up the second time.
IterationEnds(t) ==
  /\ t \in Reading /\ Exhausted(t)
  /\ Becomes(t, AfterEnd(pc[t]))
  /\ UNCHANGED <<disk, listVars, parseVars, lookVars, task, listed, overlapped,
                 disturbed>>

\* The author adds a source file.
WriteFile ==
  /\ disk < Len(Files)
  /\ disk' = disk + 1
  /\ UNCHANGED <<listVars, pc, parseVars, lookVars, task, listed, overlapped,
                 disturbed>>

StructureInit ==
  /\ disk = Written
  /\ suites = Main
  /\ data = [l \in Lists |-> IF l = Main THEN Parsed(Main, OnDisk)
                                         ELSE Parsed(Main, <<>>)]
  /\ size = [l \in Lists |-> IF l = Main THEN Written ELSE 0]
  /\ \E crowd \in Crowds :
       pc = [t \in Threads |-> IF t \in crowd THEN "new" ELSE "absent"]
  /\ todo = [t \in Threads |-> <<>>]
  /\ target = [t \in Threads |-> Main]
  /\ read = [t \in Threads |-> 0]
  /\ at = [t \in Threads |-> Main]
  /\ cursor = [t \in Threads |-> 0]
  /\ stale = {}
  /\ found = [t \in Threads |-> Null]
  /\ task = [t \in Threads |-> <<>>]
  /\ listed = [l \in Lists |-> IF l = Main THEN Written ELSE 0]
  /\ overlapped = {}
  /\ disturbed = {}

ThreadStep(t) ==
  \/ LookBegins(t) \/ TaskBegins(t)
  \/ ParseBegins(t) \/ Shift(t) \/ Put(t) \/ Grow(t) \/ ParseEnds(t)
  \/ IterationFails(t) \/ IterationGoesOn(t) \/ IterationEnds(t)

StructureNext == WriteFile \/ \E t \in Threads : ThreadStep(t)

-----------------------------------------------------------------------------
(* Properties *)

StructureTypeOK ==
  /\ disk \in 0..Len(Files)
  /\ suites \in Lists
  /\ data \in [Lists -> [Places -> Kisses \union {Null}]]
  /\ size \in [Lists -> Places]
  /\ todo \in [Threads -> Seq(Names)] /\ task \in [Threads -> Seq(Names)]
  /\ target \in [Threads -> Lists] /\ read \in [Threads -> 0..(Capacity - 1)]
  /\ at \in [Threads -> Lists] /\ cursor \in [Threads -> Places]
  /\ stale \subseteq Threads
  /\ found \in [Threads -> Kisses \union {Null}]

\* The list has each of the files its parse found once, and no null.
Whole(l) ==
  /\ size[l] = listed[l]
  /\ \A n \in Range(SubSeq(Files, 1, listed[l])) :
       \E i \in 0..(size[l] - 1) : data[l][i].name = n

\* A structure is whole as soon as its parse is over, unless two parses
\* overlapped (ProjectParser.parse has no lock and works on Project.suites).
WholeAfterParse ==
  suites \notin Parsing \union overlapped => Whole(suites)

\* A request fails, or finds no kiss for a file that was there when it parsed,
\* only if another request parses while it reads or two parses overlapped.
Excused(t) == t \in disturbed \/ at[t] \in overlapped

FailsOnlyByParse ==
  \A t \in Threads :
    /\ pc[t] = "failed" => Excused(t)
    /\ pc[t] = "blank" /\ NameOf[t] \in Range(SubSeq(Files, 1, listed[t]))
         => Excused(t)

\* A task has each kiss of the structure it was made from once, on the same
\* condition (a kiss that is twice in a task is run twice and counted twice).
TaskWhole ==
  \A t \in TaskAdds :
    pc[t] = "done" /\ ~ Excused(t)
      => /\ Len(task[t]) = listed[at[t]]
         /\ Range(task[t]) = Range(SubSeq(Files, 1, listed[at[t]]))

\* A structure, and the tasks made from it, are whole but for overlapping
\* parses.
StructureWhole == WholeAfterParse /\ TaskWhole
=============================================================================
