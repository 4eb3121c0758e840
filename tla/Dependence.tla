----------------------------- MODULE Dependence -----------------------------
(***************************************************************************)
(* The files that the page of a kiss loads (TangramDependStrategy and      *)
(* getResource): its source file last, and before it the files it imports, *)
(* the files those import, and so on.  The code goes down from file to     *)
(* file by recursion; here a sequence of work says what is still to do:    *)
(* look at an import, or list a file when all of its imports are done.     *)
(***************************************************************************)
EXTENDS Naturals, Sequences, FiniteSets

CONSTANTS
  Sources,  \* the names of source files, of the project and those it depends on
  Imports   \* the imports of each, in the order of its text

ASSUME ImportsAssumption ==
  IsFiniteSet(Sources) /\ Imports \in [Sources -> Seq(Sources)]

See(name) == [op |-> "see", name |-> name]
List(name) == [op |-> "list", name |-> name]
Work == [op : {"see", "list"}, name : Sources]

SeeImports(name) == [i \in 1..Len(Imports[name]) |-> See(Imports[name][i])]

\* Mutant: a file is listed before what it imports.
ListThenSee(name, rest) == <<List(name)>> \o SeeImports(name) \o rest

SeeThenList(name, rest) == SeeImports(name) \o <<List(name)>> \o rest

\* Files that are being parsed are in `matched`, those that are through in the list.
IsNew(name, there, list, matched) ==
  /\ name \in there /\ name \notin matched
  /\ \A i \in 1..Len(list) : list[i] # name

\* A point in the recursion: what is still to do, what is listed, what is matched.
Visits == [work : Seq(Work), list : Seq(Sources), matched : SUBSET Sources]

Visit(work, list, matched) == [work |-> work, list |-> list, matched |-> matched]

After(visit, there) ==
  LET name == Head(visit.work).name
      rest == Tail(visit.work)
  IN IF Head(visit.work).op = "list"
     THEN Visit(rest, Append(visit.list, name), visit.matched)
     ELSE IF IsNew(name, there, visit.list, visit.matched)
     THEN Visit(SeeThenList(name, rest), visit.list, visit.matched \union {name})
     ELSE Visit(rest, visit.list, visit.matched)

\* getDepends, if `there` are the files that exist.
getDepends(path, there) ==
  LET parse[visit \in Visits] ==
        IF visit.work = <<>> THEN visit.list ELSE parse[After(visit, there)]
  IN parse[Visit(SeeImports(path), <<>>, {})]

\* getResource of a plain kiss: the file itself comes at the end.
getResource(path, there) == Append(getDepends(path, there), path)

-----------------------------------------------------------------------------
(* What a page needs, without the algorithm. *)

ImportsOf(name, there) ==
  {Imports[name][i] : i \in 1..Len(Imports[name])} \intersect there

Closed(files, there) == \A m \in files : ImportsOf(m, there) \subseteq files

\* What `name` imports, and what that imports, and so on.
Needs(name, there) ==
  {m \in there : \A files \in SUBSET there :
     ImportsOf(name, there) \subseteq files /\ Closed(files, there) => m \in files}

PlaceOf(list, name) == CHOOSE i \in 1..Len(list) : /\ list[i] = name
                                                   /\ \A j \in 1..(i - 1) : list[j] # name

\* Everything the page needs is there and nothing else; a file comes after
\* what it imports, unless that imports it in turn.  Only the page's own file
\* may come twice (the recursion does not mark it), if it needs itself.
Serves(list, name, there) ==
  LET needed == Needs(name, there) \union {name}
  IN /\ {list[i] : i \in 1..Len(list)} = needed
     /\ \A m \in needed : \A n \in ImportsOf(m, there) :
          PlaceOf(list, n) < PlaceOf(list, m) \/ m \in Needs(n, there)
     /\ \A i, j \in 1..Len(list) : list[i] = list[j] /\ i # j
          => list[i] = name /\ name \in Needs(name, there)
=============================================================================
