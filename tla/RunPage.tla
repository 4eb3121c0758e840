------------------------------ MODULE RunPage ------------------------------
(***************************************************************************)
(* What run.do does (RunServlet) once a kiss is found in the structure:    *)
(* the response is stored in a field of the kiss and the one executor of   *)
(* the server, whose execute is synchronized, writes the page to it.  The  *)
(* kiss of a plain page is the object in the structure, which all requests *)
(* for it share; a release or coverage page wraps it in an object of its   *)
(* own.  The template takes time: between taking the response from the     *)
(* kiss and writing to it, it works out the resources of the page.         *)
(***************************************************************************)
EXTENDS ProjectStructure, Dependence

CONSTANTS
  ModeOf,     \* "plain", "release" or "coverage", for each page
  NoCase,     \* the names that have no test file
  NoCovDir    \* the coverage pages whose project names no coverage directory

ASSUME ModeAssumption == ModeOf \in [Pages -> {"plain", "release", "coverage"}]
ASSUME CoverageAssumption ==
  NoCovDir \subseteq {t \in Pages : ModeOf[t] = "coverage"}
ASSUME CaseAssumption == NoCase \subseteq Names /\ Names \subseteq Sources

VARIABLES
  response,   \* ClientKiss.response of each kiss in the structure
  wrapped,    \* ... and of the object each page wraps around it
  executor,   \* ClientExecutor.response
  lock,       \* the thread in execute, or Main
  pages       \* the pages written: to which response, of which page, the files
              \* it loads

pageVars == <<response, wrapped, executor, lock, pages>>

vars == <<structureVars, pageVars>>

\* Mutant: CoverageKiss hands setResponse on to the kiss it wraps.
SharedByCoverage(t) == ModeOf[t] # "release"

Shared(t) == ModeOf[t] = "plain"

\* setResponse.
SetResponse(t) ==
  /\ pc[t] = "found"
  /\ IF Shared(t)
     THEN response' = [response EXCEPT ![found[t]] = t] /\ UNCHANGED wrapped
     ELSE wrapped' = [wrapped EXCEPT ![t] = t] /\ UNCHANGED response
  /\ Becomes(t, "test")
  /\ UNCHANGED <<disk, listVars, parseVars, lookVars, task, listed, overlapped,
                 disturbed, executor, lock, pages>>

\* Mutant: CoverageKiss.test sets the executor's response as ReleaseKiss does.
SetsBothKinds(t) == ModeOf[t] \in {"release", "coverage"}

\* ReleaseKiss.test sets the executor's response itself, outside the monitor.
SetsExecutor(t) == ModeOf[t] = "release"

Test(t) ==
  /\ pc[t] = "test"
  /\ executor' = IF SetsExecutor(t) THEN wrapped[t] ELSE executor
  /\ Becomes(t, "execute")
  /\ UNCHANGED <<disk, listVars, parseVars, lookVars, task, listed, overlapped,
                 disturbed, response, wrapped, lock, pages>>

\* execute takes the response of the kiss ...
Execute(t) ==
  /\ pc[t] = "execute" /\ lock = Main
  /\ lock' = t
  /\ executor' = IF Shared(t) THEN response[found[t]] ELSE wrapped[t]
  /\ Becomes(t, "render")
  /\ UNCHANGED <<disk, listVars, parseVars, lookVars, task, listed, overlapped,
                 disturbed, response, wrapped, pages>>

\* CoverageKiss.haveCase is always true.
HaveCase(t) == NameOf[t] \notin NoCase \/ ModeOf[t] = "coverage"

\* The project's own files on the disk, and those of the projects it depends on.
There(written) ==
  {Files[i] : i \in 1..written} \union (Sources \ Names)

ResourcesOf == [of \in Names \X (0..Len(Files)) |->
                  getResource(of[1], There(of[2]))]

\* CoverageKiss.getResource gives null, at which the template stops: the page
\* ends before it loads a file.
BreaksOff(t) == t \in NoCovDir

\* A release page loads the release file only.
Resources(t) == IF ModeOf[t] = "release" \/ BreaksOff(t) THEN <<>>
                ELSE ResourcesOf[<<NameOf[t], disk>>]

Page(to, of, files) == [to |-> to, of |-> of, files |-> files]

\* ... and, when the files of the page are worked out, writes it to its field.
Render(t) ==
  /\ pc[t] = "render"
  /\ pages' = pages \union (IF HaveCase(t)
                           THEN {Page(executor, t, Resources(t))} ELSE {})
  /\ lock' = Main
  /\ Becomes(t, "done")
  /\ UNCHANGED <<disk, listVars, parseVars, lookVars, task, listed, overlapped,
                 disturbed, response, wrapped, executor>>

Init ==
  /\ StructureInit
  /\ response = [k \in Kisses |-> Main]
  /\ wrapped = [t \in Pages |-> Main]
  /\ executor = Main
  /\ lock = Main
  /\ pages = {}

Next == \/ StructureNext /\ UNCHANGED pageVars
        \/ \E t \in Pages : SetResponse(t) \/ Test(t) \/ Execute(t) \/ Render(t)

Spec == Init /\ [][Next]_vars

-----------------------------------------------------------------------------
(* Properties *)

States == {"absent", "new", "look", "parse", "shift", "put", "grow", "lookAgain",
           "flatten", "found", "test", "execute", "render", "blank", "failed",
           "done"}

TypeOK ==
  /\ StructureTypeOK
  /\ pc \in [Threads -> States]
  /\ \A t \in Threads :
       pc[t] \in {"found", "test", "execute", "render"} => found[t] # Null
  /\ response \in [Kisses -> Pages \union {Main}]
  /\ wrapped \in [Pages -> Pages \union {Main}]
  /\ executor \in Pages \union {Main} /\ lock \in Pages \union {Main}
  /\ \A page \in pages : page.to \in Pages /\ page.of \in Pages

\* A page is written to the response of its own request, unless both are plain
\* requests for kisses of one name (two browsers run the same list), or the
\* other is a release request (which takes over the executor's field while the
\* page is being worked out).
Conflict(t, u) == \/ /\ ModeOf[t] = "plain" /\ ModeOf[u] = "plain"
                     /\ NameOf[t] = NameOf[u]
                  \/ ModeOf[u] = "release"

OwnPage == \A page \in pages : page.to # page.of => Conflict(page.of, page.to)

\* A request that meets no such other gets its page, and nobody else does.
ServedAlone ==
  \A t \in Pages :
    /\ pc[t] = "done" /\ HaveCase(t)
    /\ \A u \in Pages \ {t} : pc[u] # "absent" => ~ Conflict(t, u)
    => /\ \E page \in pages : page.of = t /\ page.to = t
       /\ \A page \in pages : page.of = t => page.to = t

\* Who asks for a page gets it, and it is the one asked for, but for the
\* conflicts named above.
ServedRight == OwnPage /\ ServedAlone

\* A page loads everything that it needs of what is there when it is worked out,
\* in an order in which it can be loaded, unless it is a coverage page of a
\* project that has no coverage directory.
PageLoads ==
  [][\A page \in pages' \ pages :
       ModeOf[page.of] # "release" /\ ~ BreaksOff(page.of)
         => Serves(page.files, NameOf[page.of], There(disk))]_vars
=============================================================================
