--------------------------- MODULE RunPageProofs ---------------------------
(***************************************************************************)
(* Theorems about RunPage, for any requests, files, modes and imports.     *)
(***************************************************************************)
EXTENDS RunPage, SequenceTheorems, FiniteSetTheorems, WellFoundedInduction, TLAPS

-----------------------------------------------------------------------------
(* Files, kisses and the arrays that hold them. *)

LEMMA FileFacts ==
  /\ Len(Files) \in Nat /\ Capacity \in Nat /\ Len(Files) < Capacity
  /\ Written \in 0..Len(Files)
  /\ \A i \in 1..Len(Files) : Files[i] \in Names
  /\ \A n \in 0..Len(Files) : SubSeq(Files, 1, n) \in Seq(Names)
  /\ \A n \in 0..Len(Files) : Len(SubSeq(Files, 1, n)) = n
  /\ \A n \in 0..Len(Files) : \A i \in 1..n : SubSeq(Files, 1, n)[i] = Files[i]
<1>1. Len(Files) \in Nat /\ DOMAIN Files = 1..Len(Files)
  BY FilesAssumption
<1>2. \A i \in 1..Len(Files) : Files[i] \in Names
  BY <1>1 DEF Names, Range
<1>3. ASSUME NEW n \in 0..Len(Files)
      PROVE  /\ SubSeq(Files, 1, n) \in Seq(Names)
             /\ Len(SubSeq(Files, 1, n)) = n
             /\ \A i \in 1..n : SubSeq(Files, 1, n)[i] = Files[i]
  BY <1>1, <1>2, SubSeqProperties
<1> QED BY <1>1, <1>2, <1>3, FilesAssumption

LEMMA KissFacts ==
  /\ Null \notin Kisses
  /\ \A l \in Lists, n \in Names : Kiss(l, n) \in Kisses
  /\ \A k \in Kisses : k.name \in Names
  /\ \A t \in Pages : NameOf[t] \in Names
  /\ 0 \in Places /\ \A i \in Places : i \in Nat /\ i <= Capacity
<1>1. "null" \notin Names
  BY FilesAssumption DEF Names, Range
<1> QED BY <1>1, FilesAssumption DEF Null, Kisses, Kiss, Places

-----------------------------------------------------------------------------
(* Types. *)

\* A thread in the middle of an add still has the file that it adds.
Adding == \A t \in Threads : pc[t] \in {"put", "grow"} => todo[t] # <<>>

Typed == TypeOK /\ Adding

LEMMA InitTypes == Init => Typed
<1> SUFFICES ASSUME Init PROVE Typed
  OBVIOUS
<1> USE DEF Init, StructureInit
<1>1. disk \in 0..Len(Files) /\ suites \in Lists /\ stale \subseteq Threads
  BY FileFacts DEF Lists
<1>2. \A i \in Places : /\ Parsed(Main, OnDisk)[i] \in Kisses \union {Null}
                        /\ Parsed(Main, <<>>)[i] \in Kisses \union {Null}
  <2> SUFFICES ASSUME NEW i \in Places
               PROVE  /\ Parsed(Main, OnDisk)[i] \in Kisses \union {Null}
                      /\ Parsed(Main, <<>>)[i] \in Kisses \union {Null}
    OBVIOUS
  <2>1. Parsed(Main, <<>>)[i] = Null
    BY KissFacts DEF Parsed
  <2>2. OnDisk \in Seq(Names) /\ Len(OnDisk) \in Nat
    BY <1>1, FileFacts DEF OnDisk
  <2>3. i < Len(OnDisk) => OnDisk[Len(OnDisk) - i] \in Names
    <3> SUFFICES ASSUME i < Len(OnDisk) PROVE OnDisk[Len(OnDisk) - i] \in Names
      OBVIOUS
    <3>1. Len(OnDisk) - i \in 1..Len(OnDisk)
      BY <2>2, KissFacts
    <3> QED BY <2>2, <3>1, ElementOfSeq
  <2>4. Parsed(Main, OnDisk)[i] =
          IF i < Len(OnDisk) THEN Kiss(Main, OnDisk[Len(OnDisk) - i]) ELSE Null
    BY DEF Parsed
  <2>5. Null \in Kisses \union {Null} /\ Main \in Lists
    BY DEF Lists
  <2>6. i < Len(OnDisk) => Kiss(Main, OnDisk[Len(OnDisk) - i]) \in Kisses
    BY <2>3, <2>5, KissFacts
  <2>7. Parsed(Main, OnDisk)[i] \in Kisses \union {Null}
    BY <2>4, <2>5, <2>6
  <2> QED BY <2>1, <2>5, <2>7
<1>3. data \in [Lists -> [Places -> Kisses \union {Null}]]
  <2>1. /\ Parsed(Main, OnDisk) \in [Places -> Kisses \union {Null}]
        /\ Parsed(Main, <<>>) \in [Places -> Kisses \union {Null}]
    BY <1>2 DEF Parsed
  <2> QED BY <2>1
<1>4. /\ size \in [Lists -> Places] /\ target \in [Threads -> Lists]
      /\ read \in [Threads -> 0..(Capacity - 1)]
      /\ at \in [Threads -> Lists] /\ cursor \in [Threads -> Places]
      /\ found \in [Threads -> Kisses \union {Null}]
  BY FileFacts DEF Places, Lists
<1>5. todo \in [Threads -> Seq(Names)] /\ task \in [Threads -> Seq(Names)]
  BY EmptySeq
<1>6. pc \in [Threads -> States]
      /\ \A t \in Threads : pc[t] \notin {"found", "test", "execute", "render",
                                         "put", "grow"}
  BY DEF States
<1> QED BY <1>1, <1>3, <1>4, <1>5, <1>6 DEF Typed, Adding, TypeOK, StructureTypeOK

\* The typing that a step of the structure must keep.
LEMMA StructureTypes ==
  ASSUME Typed, NEW t \in Threads, ThreadStep(t), UNCHANGED pageVars
  PROVE  Typed'
<1> USE DEF Typed, Adding, TypeOK, StructureTypeOK, pageVars, listVars, parseVars, lookVars, Becomes,
            States
<1>1. CASE LookBegins(t)
  BY <1>1, KissFacts DEF LookBegins, FirstElement
<1>2. CASE TaskBegins(t)
  BY <1>2 DEF TaskBegins
<1>3. CASE ParseBegins(t)
  <2>1. OnDisk \in Seq(Names)
    BY FileFacts DEF OnDisk
  <2>2. ListAfterInit(t) \in Lists
    BY DEF ListAfterInit, Lists
  <2>3. todo' \in [Threads -> Seq(Names)]
    BY <1>3, <2>1 DEF ParseBegins
  <2> QED BY <1>3, <2>2, <2>3 DEF ParseBegins
<1>4. CASE Shift(t)
  <2>1. data' \in [Lists -> [Places -> Kisses \union {Null}]]
    <3> DEFINE shifted == [i \in Places |-> IF i \in 1..size[suites]
                                            THEN data[suites][i - 1]
                                            ELSE data[suites][i]]
    <3>1. size[suites] \in Places /\ data[suites] \in [Places -> Kisses \union {Null}]
      OBVIOUS
    <3>2. \A i \in Places : i \in 1..size[suites] => i - 1 \in Places
      BY FileFacts DEF Places
    <3>3. shifted \in [Places -> Kisses \union {Null}]
      BY <3>1, <3>2
    <3>4. data' = [data EXCEPT ![suites] = shifted]
      BY <1>4 DEF Shift
    <3> HIDE DEF shifted
    <3> QED BY <3>3, <3>4
  <2>2. target' \in [Threads -> Lists] /\ stale' \subseteq Threads
    BY <1>4 DEF Shift, Reading
  <2> QED BY <1>4, <2>1, <2>2 DEF Shift
<1>5. CASE Put(t)
  <2>1. target[t] \in Lists /\ size[target[t]] \in Places /\ 0 \in Places
    BY KissFacts
  <2>2. size[target[t]] \in 0..(Capacity - 1)
    BY <1>5, <2>1, FileFacts DEF Put, Places
  <2>3. Head(todo[t]) \in Names
    BY <1>5, HeadTailProperties DEF Put
  <2>4. PICK kiss \in Kisses \union {Null} : data' = [data EXCEPT ![target[t]][0] = kiss]
    BY <1>5, <2>3, KissFacts DEF Put, Lists
  <2>5. data' \in [Lists -> [Places -> Kisses \union {Null}]]
    BY <2>1, <2>4
  <2>6. read' \in [Threads -> 0..(Capacity - 1)]
    BY <1>5, <2>2 DEF Put
  <2> QED BY <1>5, <2>5, <2>6 DEF Put
<1>6. CASE Grow(t)
  <2>1. read[t] + 1 \in Places /\ 0 \in 0..(Capacity - 1)
    BY FileFacts DEF Places
  <2>2. Tail(todo[t]) \in Seq(Names)
    BY <1>6, HeadTailProperties DEF Grow
  <2> QED BY <1>6, <2>1, <2>2 DEF Grow
<1>7. CASE ParseEnds(t)
  BY <1>7, KissFacts DEF ParseEnds, FirstElement, ListAfterParse
<1>8. CASE IterationFails(t)
  BY <1>8 DEF IterationFails
<1>9. CASE IterationGoesOn(t)
  <2>1. /\ at[t] \in Lists /\ size[at[t]] \in Places /\ cursor[t] \in Places
        /\ Element(t) \in Kisses \union {Null}
    BY DEF Element
  <2>2. /\ cursor[t] # size[at[t]] /\ ~ (cursor[t] > size[at[t]])
        /\ Element(t) # Null
    BY <1>9 DEF IterationGoesOn, Fails, Exhausted
  <2>3. cursor[t] + 1 \in Places /\ 0 \in Places
    BY <2>1, <2>2, FileFacts DEF Places
  <2>4. Element(t) \in Kisses /\ Element(t).name \in Names
    BY <2>1, <2>2, KissFacts
  <2>5. CASE t \in Pages /\ Element(t).name = NameOf[t]
    BY <1>9, <2>2, <2>3, <2>4, <2>5 DEF IterationGoesOn
  <2>6. CASE ~ (t \in Pages /\ Element(t).name = NameOf[t])
    <3>1. Append(task[t], Element(t).name) \in Seq(Names)
      BY <2>4, AppendProperties
    <3>2. task' \in [Threads -> Seq(Names)]
      BY <1>9, <2>6, <3>1 DEF IterationGoesOn
    <3> QED BY <1>9, <2>3, <2>6, <3>2 DEF IterationGoesOn
  <2> QED BY <2>5, <2>6
<1>10. CASE IterationEnds(t)
  BY <1>10 DEF IterationEnds, AfterEnd, Reading
<1> QED BY <1>1, <1>2, <1>3, <1>4, <1>5, <1>6, <1>7, <1>8, <1>9, <1>10 DEF ThreadStep

PageStep(t) == SetResponse(t) \/ Test(t) \/ Execute(t) \/ Render(t)

\* While a page is made, the server keeps the responses of its requests, and
\* only the thread in execute writes.
Kept ==
  /\ \A t \in Pages :
       /\ pc[t] \in {"found", "test", "execute", "render"}
            => found[t] \in Kisses /\ found[t].name = NameOf[t]
       /\ pc[t] \in {"test", "execute"}
            => IF Shared(t) THEN response[found[t]] # Main ELSE wrapped[t] = t
  /\ \A k \in Kisses : response[k] # Main
       => /\ ModeOf[response[k]] = "plain" /\ NameOf[response[k]] = k.name
          /\ pc[response[k]] # "absent"

\* The page of t may go to u's response: to its own, or to one in conflict.
Right(t, u) == u \in Pages /\ pc[u] # "absent" /\ (u # t => Conflict(t, u))

Rendering == \A t \in Pages : pc[t] = "render" => lock = t /\ Right(t, executor)

HasPage(t) == \E page \in pages : page.of = t

Delivered ==
  /\ \A page \in pages : Right(page.of, page.to)
  /\ \A t \in Pages : /\ pc[t] # "flatten"
                      /\ pc[t] = "done" /\ HaveCase(t) => HasPage(t)

PageInv == Kept /\ Rendering /\ Delivered

LEMMA PageTypes ==
  ASSUME Typed, PageInv, NEW t \in Pages, PageStep(t)
  PROVE  Typed'
<1> t \in Threads
  BY DEF Threads
<1>1. CASE SetResponse(t)
  <2>1. found[t] \in Kisses
    BY <1>1 DEF SetResponse, PageInv, Kept
  <2> QED BY <1>1, <2>1 DEF SetResponse, Typed, Adding, TypeOK, StructureTypeOK,
             listVars, parseVars, lookVars, Becomes, States
<1>2. CASE Test(t)
  BY <1>2 DEF Test, Typed, Adding, TypeOK, StructureTypeOK,
              listVars, parseVars, lookVars, Becomes, States
<1>3. CASE Execute(t)
  <2>1. found[t] \in Kisses
    BY <1>3 DEF Execute, PageInv, Kept
  <2> QED BY <1>3, <2>1 DEF Execute, Typed, Adding, TypeOK, StructureTypeOK,
             listVars, parseVars, lookVars, Becomes, States
<1>4. CASE Render(t)
  <2>1. executor \in Pages
    BY <1>4 DEF Render, PageInv, Rendering, Right
  <2>2. \A page \in pages' : page.to \in Pages /\ page.of \in Pages
    BY <1>4, <2>1 DEF Render, Page, Typed, TypeOK
  <2> QED BY <1>4, <2>2 DEF Render, Typed, Adding, TypeOK, StructureTypeOK,
             listVars, parseVars, lookVars, Becomes, States
<1> QED BY <1>1, <1>2, <1>3, <1>4 DEF PageStep

\* What a step of the structure does that matters to the pages.
LEMMA StructureFrame ==
  ASSUME Typed, NEW t \in Threads, ThreadStep(t)
  PROVE  /\ \A u \in Threads \ {t} : pc'[u] = pc[u] /\ found'[u] = found[u]
         /\ pc[t] # "absent"
         /\ pc'[t] \notin {"absent", "test", "execute", "render"}
         /\ pc'[t] = "found" /\ pc[t] # "found"
              => found'[t] \in Kisses /\ found'[t].name = NameOf[t]
         /\ pc[t] # "found"
         /\ t \in Pages /\ pc[t] # "flatten" => pc'[t] \notin {"flatten", "done"}
<1> USE DEF Typed, TypeOK, StructureTypeOK, Becomes, listVars, parseVars, lookVars
<1>1. CASE LookBegins(t)
  BY <1>1 DEF LookBegins
<1>2. CASE TaskBegins(t)
  BY <1>2, FilesAssumption DEF TaskBegins
<1>3. CASE ParseBegins(t)
  BY <1>3 DEF ParseBegins
<1>4. CASE Shift(t)
  BY <1>4 DEF Shift
<1>5. CASE Put(t)
  BY <1>5 DEF Put
<1>6. CASE Grow(t)
  BY <1>6 DEF Grow
<1>7. CASE ParseEnds(t)
  BY <1>7 DEF ParseEnds
<1>8. CASE IterationFails(t)
  BY <1>8 DEF IterationFails, Reading
<1>9. CASE IterationGoesOn(t)
  <2>1. /\ at[t] \in Lists /\ size[at[t]] \in Places /\ cursor[t] \in Places
        /\ Element(t) \in Kisses \union {Null}
    BY DEF Element
  <2>2. Element(t) \in Kisses
    BY <1>9, <2>1 DEF IterationGoesOn, Fails, Exhausted
  <2> QED BY <1>9, <2>2 DEF IterationGoesOn, Reading
<1>10. CASE IterationEnds(t)
  BY <1>10 DEF IterationEnds, AfterEnd, Reading
<1> QED BY <1>1, <1>2, <1>3, <1>4, <1>5, <1>6, <1>7, <1>8, <1>9, <1>10 DEF ThreadStep

LEMMA StructureKeeps ==
  ASSUME Typed, PageInv, NEW t \in Threads, ThreadStep(t), UNCHANGED pageVars
  PROVE  PageInv'
<1>1. /\ \A u \in Threads \ {t} : pc'[u] = pc[u] /\ found'[u] = found[u]
      /\ pc[t] # "absent"
      /\ pc'[t] \notin {"absent", "test", "execute", "render"}
      /\ pc'[t] = "found" => found'[t] \in Kisses /\ found'[t].name = NameOf[t]
      /\ t \in Pages /\ pc[t] # "flatten" => pc'[t] \notin {"flatten", "done"}
  BY StructureFrame
<1>2. /\ \A u \in Pages : pc[u] # "absent" => pc'[u] # "absent"
      /\ \A u \in Pages : u \in Threads
      /\ response \in [Kisses -> Pages \union {Main}]
  BY <1>1 DEF Threads, Typed, TypeOK
<1>3. /\ response' = response /\ wrapped' = wrapped /\ executor' = executor
      /\ lock' = lock /\ pages' = pages
  BY DEF pageVars
<1>4. Kept'
  BY <1>1, <1>2, <1>3 DEF PageInv, Kept, Shared
<1>5. Rendering' /\ Delivered'
  BY <1>1, <1>2, <1>3
     DEF PageInv, Rendering, Delivered, Right, Conflict, HaveCase, HasPage
<1> QED BY <1>4, <1>5 DEF PageInv

LEMMA PageKeeps ==
  ASSUME Typed, PageInv, NEW t \in Pages, PageStep(t)
  PROVE  PageInv'
<1>1. /\ \A u \in Pages : u \in Threads
      /\ Main \notin Pages
      /\ response \in [Kisses -> Pages \union {Main}]
      /\ wrapped \in [Pages -> Pages \union {Main}]
      /\ pc \in [Threads -> States]
  BY MainAssumption DEF Threads, Typed, TypeOK
<1> USE <1>1 DEF Becomes, listVars, parseVars, lookVars
<1>2. CASE SetResponse(t)
  <2>1. found[t] \in Kisses /\ found[t].name = NameOf[t] /\ found' = found
    BY <1>2 DEF SetResponse, PageInv, Kept
  <2>2. Kept'
    BY <1>2, <2>1 DEF SetResponse, PageInv, Kept, Shared
  <2>3. Rendering' /\ Delivered'
    BY <1>2 DEF SetResponse, PageInv, Rendering, Delivered, Right, Conflict,
                HaveCase, HasPage
  <2> QED BY <2>2, <2>3 DEF PageInv
<1>3. CASE Test(t)
  <2>1. Kept'
    BY <1>3 DEF Test, PageInv, Kept, Shared
  <2>2. SetsExecutor(t) => executor' = t /\ ModeOf[t] = "release"
    BY <1>3 DEF Test, SetsExecutor, PageInv, Kept, Shared
  <2>3. Rendering'
    BY <1>3, <2>2 DEF Test, PageInv, Rendering, Right, Conflict
  <2>4. Delivered'
    BY <1>3 DEF Test, PageInv, Delivered, Right, Conflict, HaveCase, HasPage
  <2> QED BY <2>1, <2>3, <2>4 DEF PageInv
<1>4. CASE Execute(t)
  <2>1. Kept'
    BY <1>4 DEF Execute, PageInv, Kept, Shared
  <2>2. Right(t, executor')
    BY <1>4 DEF Execute, PageInv, Kept, Shared, Right, Conflict
  <2>3. \A u \in Pages : pc[u] # "render"
    BY <1>4 DEF Execute, PageInv, Rendering
  <2>4. Rendering'
    BY <1>4, <2>2, <2>3 DEF Execute, Rendering, Right, Conflict
  <2>5. Delivered'
    BY <1>4 DEF Execute, PageInv, Delivered, Right, Conflict, HaveCase, HasPage
  <2> QED BY <2>1, <2>4, <2>5 DEF PageInv
<1>5. CASE Render(t)
  <2>1. Kept'
    BY <1>5 DEF Render, PageInv, Kept, Shared
  <2>2. Right(t, executor) /\ lock = t
    BY <1>5 DEF Render, PageInv, Rendering
  <2>3. Rendering'
    BY <1>5, <2>2 DEF Render, PageInv, Rendering, Right, Conflict
  <2>4. HaveCase(t) => \E page \in pages' : page.of = t /\ page.to = executor
    <3>1. Page(executor, t, Resources(t)).of = t
          /\ Page(executor, t, Resources(t)).to = executor
      BY DEF Page
    <3> QED BY <1>5, <3>1 DEF Render
  <2>5. \A page \in pages' : page \in pages \/ (page.of = t /\ page.to = executor)
    BY <1>5 DEF Render, Page
  <2>6. pages \subseteq pages'
    BY <1>5 DEF Render
  <2>7. Delivered'
    BY <1>5, <2>2, <2>4, <2>5, <2>6
       DEF Render, PageInv, Delivered, Right, Conflict, HaveCase, HasPage
  <2> QED BY <2>1, <2>3, <2>7 DEF PageInv
<1> QED BY <1>2, <1>3, <1>4, <1>5 DEF PageStep

LEMMA WriteFileKeeps ==
  ASSUME Typed, PageInv, WriteFile, UNCHANGED pageVars
  PROVE  Typed' /\ PageInv'
<1>1. disk' \in 0..Len(Files)
  BY FileFacts DEF WriteFile, Typed, TypeOK, StructureTypeOK
<1>2. Typed'
  BY <1>1 DEF WriteFile, Typed, Adding, TypeOK, StructureTypeOK, pageVars, listVars,
              parseVars, lookVars
<1>3. PageInv'
  BY DEF WriteFile, PageInv, Kept, Rendering, Delivered, Right, Conflict, Shared,
         HaveCase, HasPage, pageVars, lookVars
<1> QED BY <1>2, <1>3

LEMMA InitPages == Init => PageInv
<1> SUFFICES ASSUME Init PROVE PageInv
  OBVIOUS
<1>1. \A t \in Pages : pc[t] \in {"new", "absent"}
  BY DEF Init, StructureInit, Threads
<1>2. \A k \in Kisses : response[k] = Main
  BY DEF Init
<1>3. pages = {}
  BY DEF Init
<1> QED BY <1>1, <1>2, <1>3 DEF PageInv, Kept, Rendering, Delivered

-----------------------------------------------------------------------------
(* The theorems. *)

LEMMA Invariance == Spec => [](Typed /\ PageInv)
<1>1. Init => Typed /\ PageInv
  BY InitTypes, InitPages
<1>2. Typed /\ PageInv /\ [Next]_vars => (Typed /\ PageInv)'
  <2> SUFFICES ASSUME Typed, PageInv, [Next]_vars
               PROVE  Typed' /\ PageInv'
    OBVIOUS
  <2>1. CASE WriteFile /\ UNCHANGED pageVars
    BY <2>1, WriteFileKeeps
  <2>2. CASE \E t \in Threads : ThreadStep(t) /\ UNCHANGED pageVars
    BY <2>2, StructureTypes, StructureKeeps
  <2>3. CASE \E t \in Pages : PageStep(t)
    BY <2>3, PageTypes, PageKeeps
  <2>4. CASE UNCHANGED vars
    <3>1. Typed'
      BY <2>4 DEF vars, structureVars, Typed, Adding, TypeOK, StructureTypeOK,
                  pageVars, listVars, parseVars, lookVars
    <3>2. PageInv'
      BY <2>4 DEF vars, structureVars, PageInv, Kept, Rendering, Delivered, Right,
                  Conflict, Shared, HaveCase, HasPage, pageVars, lookVars
    <3> QED BY <3>1, <3>2
  <2> QED BY <2>1, <2>2, <2>3, <2>4 DEF Next, StructureNext, PageStep
<1> QED BY <1>1, <1>2, PTL DEF Spec

\* The types, and with them: a page that sets a response has found a kiss to set
\* it in, an iteration that is not broken off gives kisses only, and a page is
\* never written before a response was set (ProjectParser, RunServlet).
THEOREM TypeCorrect == Spec => []TypeOK
<1>1. Typed => TypeOK
  BY DEF Typed
<1> QED BY <1>1, Invariance, PTL

\* A page goes to the response of its own request, or to that of a request in
\* conflict with it: response and executor are shared without more ado, and
\* this is all that can come of it (RunServlet, ClientKiss, ReleaseKiss,
\* ClientExecutor.execute).
LEMMA OwnPageCorrect == Spec => []OwnPage
<1>1. PageInv => OwnPage
  BY DEF PageInv, Delivered, Right, OwnPage
<1> QED BY <1>1, Invariance, PTL

\* A request that no request in conflict with it meets has its page written when
\* it is done, and to no other response.
LEMMA ServedAloneCorrect == Spec => []ServedAlone
<1>1. PageInv => ServedAlone
  <2> SUFFICES ASSUME PageInv, NEW t \in Pages, pc[t] = "done", HaveCase(t),
                      \A u \in Pages \ {t} : pc[u] # "absent" => ~ Conflict(t, u)
               PROVE  /\ \E page \in pages : page.of = t /\ page.to = t
                      /\ \A page \in pages : page.of = t => page.to = t
    BY DEF ServedAlone
  <2>1. \A page \in pages : page.of = t => page.to = t
    BY DEF PageInv, Delivered, Right
  <2> QED BY <2>1 DEF PageInv, Delivered, HasPage
<1> QED BY <1>1, Invariance, PTL

\* Both together: who asks for a page gets it, and it is the one asked for, but
\* for requests in conflict (RunServlet, ClientExecutor).
THEOREM ServedCorrect == Spec => []ServedRight
<1>1. OwnPage /\ ServedAlone => ServedRight
  BY DEF ServedRight
<1> QED BY <1>1, OwnPageCorrect, ServedAloneCorrect, PTL

-----------------------------------------------------------------------------
(***************************************************************************)
(* The structure.  A parse that meets no other has the list it began with  *)
(* for itself, and fills it in the order of the files; who reads while no  *)
(* parse is on has a list that stays as it is.                             *)
(***************************************************************************)
Early == {"absent", "new", "look", "parse"}

\* Who works on which list.
Order ==
  /\ listed \in [Lists -> 0..Len(Files)] /\ overlapped \subseteq Threads
  /\ suites \notin overlapped => Parsing \subseteq {suites}
  /\ \A t \in Parsing \ overlapped : suites = t
  /\ \A t \in Threads :
       /\ pc[t] \in Early => t \notin overlapped /\ listed[t] = 0
       /\ pc[t] \in {"put", "grow"}
            => IF t \in overlapped THEN target[t] \in overlapped ELSE target[t] = t

LEMMA OrderNext ==
  ASSUME Typed, Order, NEW t \in Threads, ThreadStep(t)
  PROVE  Order'
<1>1. /\ pc \in [Threads -> States] /\ target \in [Threads -> Lists]
      /\ listed \in [Lists -> 0..Len(Files)] /\ disk \in 0..Len(Files)
      /\ Threads \subseteq Lists
  BY DEF Typed, TypeOK, StructureTypeOK, Order, Lists
<1>a. /\ \A u : u \in Parsing <=> u \in Threads /\ pc[u] \in {"shift", "put", "grow"}
      /\ \A u : u \in Parsing' <=> u \in Threads /\ pc'[u] \in {"shift", "put", "grow"}
  BY DEF Parsing
<1> USE DEF Becomes, listVars, parseVars, lookVars
<1>2. CASE ParseBegins(t)
  <2>1. /\ suites' = t /\ target' = target
        /\ pc' = [pc EXCEPT ![t] = "shift"]
        /\ \A u \in Threads \ {t} : listed'[u] = listed[u]
        /\ overlapped' = overlapped \union
             (IF Parsing = {} THEN {} ELSE {t} \union Parsing)
        /\ pc[t] = "parse" /\ listed' \in [Lists -> 0..Len(Files)]
    BY <1>1, <1>2 DEF ParseBegins, ListAfterInit
  <2>2. \A u : u \in Parsing' <=> u \in Parsing \/ u = t
    BY <1>1, <1>a, <2>1
  <2>3. /\ overlapped' \subseteq Threads
        /\ suites' \notin overlapped' => Parsing' \subseteq {suites'}
        /\ \A u \in Parsing' \ overlapped' : suites' = u
    <3>1. overlapped' \subseteq Threads
      BY <1>a, <2>1 DEF Order
    <3>2. CASE Parsing = {}
      <4>1. \A u \in Parsing' : u = t
        BY <2>2, <3>2
      <4> QED BY <2>1, <3>1, <4>1
    <3>3. CASE Parsing # {}
      <4>1. overlapped' = overlapped \union {t} \union Parsing
        BY <2>1, <3>3
      <4>2. \A u \in Parsing' : u \in overlapped'
        BY <2>2, <4>1
      <4> QED BY <2>1, <3>1, <4>1, <4>2
    <3> QED BY <3>1, <3>2, <3>3
  <2>4. ASSUME NEW u \in Threads
        PROVE  /\ pc'[u] \in Early => u \notin overlapped' /\ listed'[u] = 0
               /\ pc'[u] \in {"put", "grow"}
                    => IF u \in overlapped' THEN target'[u] \in overlapped'
                       ELSE target'[u] = u
    <3>1. CASE u = t
      BY <1>1, <2>1, <3>1 DEF Early
    <3>2. CASE u # t
      <4>1. pc'[u] = pc[u] /\ listed'[u] = listed[u] /\ target'[u] = target[u]
        BY <1>1, <2>1, <3>2
      <4>2. CASE pc[u] \in Early
        <5>1. u \notin overlapped /\ u \notin Parsing /\ listed[u] = 0
          BY <1>a, <4>2 DEF Order, Early
        <5> QED BY <2>1, <3>2, <4>1, <4>2, <5>1 DEF Early
      <4>3. CASE pc[u] \in {"put", "grow"}
        <5>1. u \in Parsing
          BY <1>a, <4>3
        <5>2. overlapped' = overlapped \union {t} \union Parsing
          BY <2>1, <5>1
        <5> QED BY <4>1, <4>3, <5>1, <5>2 DEF Order, Early
      <4> QED BY <4>1, <4>2, <4>3
    <3> QED BY <3>1, <3>2
  <2> QED BY <2>1, <2>3, <2>4 DEF Order
<1>3. CASE Shift(t)
  <2>1. /\ pc[t] = "shift" /\ pc' = [pc EXCEPT ![t] = "put"]
        /\ target' = [target EXCEPT ![t] = suites]
        /\ UNCHANGED <<suites, listed, overlapped>>
    BY <1>3 DEF Shift
  <2>2. t \in Parsing /\ \A u : u \in Parsing' <=> u \in Parsing
    BY <1>1, <1>a, <2>1
  <2>3. IF t \in overlapped THEN suites \in overlapped ELSE suites = t
    BY <2>2 DEF Order
  <2>4. ASSUME NEW u \in Threads
        PROVE  /\ pc'[u] \in Early => u \notin overlapped' /\ listed'[u] = 0
               /\ pc'[u] \in {"put", "grow"}
                    => IF u \in overlapped' THEN target'[u] \in overlapped'
                       ELSE target'[u] = u
    <3>1. CASE u = t
      BY <1>1, <2>1, <2>3, <3>1 DEF Early
    <3>2. CASE u # t
      BY <1>1, <2>1, <3>2 DEF Order
    <3> QED BY <3>1, <3>2
  <2>5. /\ suites' \notin overlapped' => Parsing' \subseteq {suites'}
        /\ \A u \in Parsing' \ overlapped' : suites' = u
    BY <2>1, <2>2 DEF Order
  <2> QED BY <2>1, <2>4, <2>5 DEF Order
<1>4. CASE ~ ParseBegins(t) /\ ~ Shift(t)
  <2>1. /\ UNCHANGED <<suites, listed, overlapped, target>>
        /\ \A u \in Threads \ {t} : pc'[u] = pc[u]
        /\ pc'[t] \in Early => pc[t] \in Early
        /\ pc'[t] \in {"shift", "put", "grow"} => pc[t] \in {"shift", "put", "grow"}
        /\ pc'[t] \in {"put", "grow"} => pc[t] \in {"put", "grow"}
    <3> USE DEF Early
    <3>1. CASE LookBegins(t) \/ TaskBegins(t)
      BY <1>1, <3>1 DEF LookBegins, TaskBegins
    <3>2. CASE Put(t) \/ Grow(t) \/ ParseEnds(t)
      BY <1>1, <3>2 DEF Put, Grow, ParseEnds
    <3>3. CASE IterationFails(t) \/ IterationGoesOn(t)
      BY <1>1, <3>3 DEF IterationFails, IterationGoesOn, Reading
    <3>4. CASE IterationEnds(t)
      BY <1>1, <3>4 DEF IterationEnds, AfterEnd, Reading
    <3> QED BY <1>4, <3>1, <3>2, <3>3, <3>4 DEF ThreadStep
  <2>2. Parsing' \subseteq Parsing
    BY <1>a, <2>1
  <2> QED BY <2>1, <2>2 DEF Order
<1> QED BY <1>2, <1>3, <1>4

FilledTo(l, n) == \A i \in 0..(n - 1) : data[l][i].name = Files[n - i]

\* How far the list l, or the parse of the thread l, has come.
Come(l) ==
  IF l \notin Parsing
  THEN size[l] = listed[l] /\ FilledTo(l, size[l])
  ELSE /\ size[l] + Len(todo[l]) = listed[l]
       /\ \A i \in 1..Len(todo[l]) : todo[l][i] = Files[size[l] + i]
       /\ pc[l] = "shift" => FilledTo(l, size[l])
       /\ pc[l] = "put"
            => \A i \in 1..size[l] : data[l][i].name = Files[size[l] + 1 - i]
       /\ pc[l] = "grow" => read[l] = size[l] /\ FilledTo(l, size[l] + 1)

ListInv == \A l \in Lists \ overlapped : Come(l)

\* A list that no two parses worked on is changed by its own only.
LEMMA OthersKeep ==
  ASSUME Typed, Order, ListInv, NEW t \in Threads, ThreadStep(t),
         NEW l \in Lists \ overlapped', l # t
  PROVE  Come(l)'
<1>1. /\ pc \in [Threads -> States] /\ target \in [Threads -> Lists]
      /\ data = [m \in Lists |-> data[m]] /\ size = [m \in Lists |-> size[m]]
      /\ todo = [u \in Threads |-> todo[u]] /\ read = [u \in Threads |-> read[u]]
      /\ listed = [m \in Lists |-> listed[m]]
      /\ t \in Lists /\ suites \in Lists
  BY DEF Typed, TypeOK, StructureTypeOK, Order, Lists
<1> USE DEF Becomes, listVars, parseVars, lookVars, Parsing
<1>2. l \notin overlapped /\ overlapped \subseteq overlapped'
  BY DEF ThreadStep, LookBegins, TaskBegins, ParseBegins,
         Shift, Put, Grow, ParseEnds, IterationFails, IterationGoesOn, IterationEnds
<1>3. /\ pc[t] = "shift" => suites # l
      /\ pc[t] \in {"put", "grow"} => target[t] # l
  <2>1. pc[t] = "shift" => t \in Parsing
    OBVIOUS
  <2> HIDE DEF Parsing
  <2>2. t \in Parsing => suites # l
    BY <1>2 DEF Order
  <2>3. pc[t] \in {"put", "grow"} => target[t] # l
    BY <1>2 DEF Order
  <2> QED BY <2>1, <2>2, <2>3
<1>4. /\ data'[l] = data[l] /\ size'[l] = size[l] /\ listed'[l] = listed[l]
      /\ l \in Threads => todo'[l] = todo[l] /\ read'[l] = read[l] /\ pc'[l] = pc[l]
  <2>1. CASE ParseBegins(t)
    BY <1>1, <2>1 DEF ParseBegins
  <2>2. CASE Shift(t)
    BY <1>1, <1>3, <2>2 DEF Shift
  <2>3. CASE Put(t)
    BY <1>1, <1>3, <2>3 DEF Put
  <2>4. CASE Grow(t)
    BY <1>1, <1>3, <2>4 DEF Grow
  <2>5. CASE ~ (ParseBegins(t) \/ Shift(t) \/ Put(t) \/ Grow(t))
    BY <1>1, <2>5 DEF ThreadStep, LookBegins, TaskBegins, ParseEnds,
         IterationFails, IterationGoesOn, IterationEnds
  <2> QED BY <2>1, <2>2, <2>3, <2>4, <2>5
<1>5. Come(l)
  BY <1>2 DEF ListInv
<1>6. l \in Parsing' <=> l \in Parsing
  BY <1>4
<1>7. l \in Parsing => l \in Threads
  OBVIOUS
<1> HIDE DEF Parsing
<1> QED BY <1>4, <1>5, <1>6, <1>7 DEF Come, FilledTo

\* A parse that has the list for itself.
LEMMA OwnerFills ==
  ASSUME Typed, Order, ListInv, NEW t \in Threads, ThreadStep(t), t \notin overlapped'
  PROVE  Come(t)'
<1>1. /\ pc \in [Threads -> States] /\ target \in [Threads -> Lists]
      /\ data \in [Lists -> [Places -> Kisses \union {Null}]]
      /\ size \in [Lists -> Places] /\ todo \in [Threads -> Seq(Names)]
      /\ read = [u \in Threads |-> read[u]]
      /\ listed \in [Lists -> 0..Len(Files)]
      /\ t \in Lists /\ suites \in Lists
      /\ size[t] \in Nat /\ Len(todo[t]) \in Nat /\ listed[t] \in Nat
      /\ size[t] <= Capacity /\ Capacity \in Nat
  <2>1. /\ listed \in [Lists -> 0..Len(Files)] /\ t \in Lists
        /\ todo \in [Threads -> Seq(Names)] /\ size \in [Lists -> Places]
    BY DEF Typed, TypeOK, StructureTypeOK, Order, Lists
  <2>2. listed[t] \in 0..Len(Files) /\ todo[t] \in Seq(Names) /\ size[t] \in Places
    BY <2>1
  <2>3. size[t] \in Nat /\ listed[t] \in Nat /\ size[t] <= Capacity /\ Capacity \in Nat
    BY <2>2, FileFacts DEF Places
  <2> QED BY <2>1, <2>2, <2>3 DEF Typed, TypeOK, StructureTypeOK
<1> USE DEF Becomes, listVars, parseVars, lookVars
<1>2. t \notin overlapped
  BY DEF ThreadStep, LookBegins, TaskBegins, ParseBegins,
         Shift, Put, Grow, ParseEnds, IterationFails, IterationGoesOn, IterationEnds
<1>3. Come(t)
  BY <1>1, <1>2 DEF ListInv
<1>4. /\ pc[t] = "shift" => suites = t
      /\ pc[t] \in {"put", "grow"} => target[t] = t
  BY <1>2 DEF Order, Parsing
<1>5. /\ t \in Parsing <=> pc[t] \in {"shift", "put", "grow"}
      /\ t \in Parsing' <=> pc'[t] \in {"shift", "put", "grow"}
  BY DEF Parsing
<1>6. CASE ParseBegins(t)
  <2>1. /\ pc[t] = "parse" /\ pc'[t] = "shift" /\ UNCHANGED <<data, size>>
        /\ todo'[t] = OnDisk /\ listed'[t] = disk
    BY <1>1, <1>6 DEF ParseBegins
  <2>2. size[t] = 0
    BY <1>3, <1>5, <2>1 DEF Order, Early, Come
  <2>3. /\ Len(OnDisk) = disk /\ disk \in Nat
        /\ \A i \in 1..Len(OnDisk) : OnDisk[i] = Files[i]
    BY FileFacts DEF OnDisk, Typed, TypeOK, StructureTypeOK
  <2>4. size'[t] + Len(todo'[t]) = listed'[t]
    BY <2>1, <2>2, <2>3
  <2>5. \A i \in 1..Len(todo'[t]) : todo'[t][i] = Files[size'[t] + i]
    BY <2>1, <2>2, <2>3
  <2>6. FilledTo(t, size[t])'
    BY <2>1, <2>2 DEF FilledTo
  <2> QED BY <1>5, <2>1, <2>4, <2>5, <2>6 DEF Come
<1>7. CASE Shift(t)
  <2>1. /\ pc[t] = "shift" /\ pc'[t] = "put" /\ UNCHANGED <<size, todo, listed>>
        /\ suites = t
        /\ data'[t] = [i \in Places |-> IF i \in 1..size[t] THEN data[t][i - 1]
                                                            ELSE data[t][i]]
    BY <1>1, <1>4, <1>7 DEF Shift
  <2>2. ASSUME NEW i \in 1..size[t]
        PROVE  data'[t][i].name = Files[size[t] + 1 - i]
    <3>1. i \in Places /\ i - 1 \in 0..(size[t] - 1)
      BY <1>1 DEF Places
    <3>2. data'[t][i] = data[t][i - 1]
      BY <2>1, <3>1
    <3>3. data[t][i - 1].name = Files[size[t] - (i - 1)]
      BY <1>3, <1>5, <2>1, <3>1 DEF Come, FilledTo
    <3>4. size[t] - (i - 1) = size[t] + 1 - i
      BY <1>1
    <3> QED BY <3>2, <3>3, <3>4
  <2> QED BY <1>3, <1>5, <2>1, <2>2 DEF Come
<1>8. CASE Put(t)
  <2>1. /\ pc[t] = "put" /\ pc'[t] = "grow" /\ UNCHANGED <<size, todo, listed>>
        /\ target[t] = t /\ read'[t] = size[t]
        /\ data'[t] = [data[t] EXCEPT ![0] = Kiss(t, Head(todo[t]))]
    BY <1>1, <1>4, <1>8 DEF Put
  <2>2. todo[t] # <<>> /\ Head(todo[t]) = todo[t][1] /\ 1 \in 1..Len(todo[t])
    BY <1>1, <2>1, HeadTailProperties DEF Typed, Adding
  <2>3. Head(todo[t]) = Files[size[t] + 1]
    BY <1>3, <1>5, <2>1, <2>2 DEF Come
  <2>4. ASSUME NEW i \in 0..size[t]
        PROVE  data'[t][i].name = Files[size[t] + 1 - i]
    <3>1. i \in Places
      BY <1>1 DEF Places
    <3>2. CASE i = 0
      BY <1>1, <2>1, <2>3, <3>1, <3>2 DEF Kiss
    <3>3. CASE i # 0
      <4>1. data'[t][i] = data[t][i] /\ i \in 1..size[t]
        BY <1>1, <2>1, <3>1, <3>3
      <4> QED BY <1>3, <1>5, <2>1, <4>1 DEF Come
    <3> QED BY <3>2, <3>3
  <2>5. FilledTo(t, size[t] + 1)'
    BY <1>1, <2>1, <2>4 DEF FilledTo
  <2> QED BY <1>3, <1>5, <2>1, <2>5 DEF Come
<1>9. CASE Grow(t)
  <2>1. /\ pc[t] = "grow" /\ pc'[t] = "shift" /\ UNCHANGED <<data, listed>>
        /\ todo'[t] = Tail(todo[t]) /\ target[t] = t
        /\ read[t] = size[t] /\ FilledTo(t, size[t] + 1)
    BY <1>1, <1>3, <1>4, <1>5, <1>9 DEF Grow, Come
  <2>2. size'[t] = size[t] + 1
    BY <1>1, <1>9, <2>1 DEF Grow
  <2>3. todo[t] # <<>> /\ Len(Tail(todo[t])) = Len(todo[t]) - 1
        /\ \A i \in 1..Len(Tail(todo[t])) : Tail(todo[t])[i] = todo[t][i + 1]
    BY <1>1, <2>1, HeadTailProperties DEF Typed, Adding
  <2>4. size'[t] + Len(todo'[t]) = listed'[t]
    BY <1>1, <1>3, <1>5, <2>1, <2>2, <2>3 DEF Come
  <2>5. ASSUME NEW i \in 1..Len(todo'[t])
        PROVE  todo'[t][i] = Files[size'[t] + i]
    <3>1. i + 1 \in 1..Len(todo[t]) /\ size[t] + (i + 1) = size'[t] + i
      <4>1. Len(todo[t]) >= 1 /\ todo'[t] = Tail(todo[t])
        BY <1>1, <2>1, <2>3
      <4>2. i \in 1..(Len(todo[t]) - 1)
        BY <2>3, <4>1
      <4>3. i + 1 \in 1..Len(todo[t])
        BY <1>1, <4>2
      <4>4. size[t] + (i + 1) = size'[t] + i
        BY <1>1, <2>2, <4>2
      <4> QED BY <4>3, <4>4
    <3>2. todo[t][i + 1] = Files[size[t] + (i + 1)]
      BY <1>3, <1>5, <2>1, <3>1 DEF Come
    <3> QED BY <2>1, <2>3, <3>1, <3>2
  <2>6. FilledTo(t, size[t])'
    BY <2>1, <2>2 DEF FilledTo
  <2> QED BY <1>5, <2>1, <2>4, <2>5, <2>6 DEF Come
<1>10. CASE ParseEnds(t)
  <2>1. /\ pc[t] = "shift" /\ pc'[t] \in {"lookAgain", "flatten"}
        /\ todo[t] = <<>> /\ UNCHANGED <<data, size, listed>>
    BY <1>1, <1>10 DEF ParseEnds
  <2>2. size[t] = listed[t] /\ FilledTo(t, size[t])
    BY <1>1, <1>3, <1>5, <2>1 DEF Come
  <2> QED BY <1>5, <2>1, <2>2 DEF Come, FilledTo
<1>11. CASE ~ (ParseBegins(t) \/ Shift(t) \/ Put(t) \/ Grow(t) \/ ParseEnds(t))
  <2>1. /\ pc[t] \notin {"shift", "put", "grow"} /\ pc'[t] \notin {"shift", "put", "grow"}
        /\ UNCHANGED <<data, size, listed>>
    BY <1>1, <1>11 DEF ThreadStep, LookBegins, TaskBegins,
         IterationFails, IterationGoesOn, IterationEnds, AfterEnd, Reading
  <2> QED BY <1>3, <1>5, <2>1 DEF Come, FilledTo
<1> QED BY <1>6, <1>7, <1>8, <1>9, <1>10, <1>11

LEMMA ListNext ==
  ASSUME Typed, Order, ListInv, NEW t \in Threads, ThreadStep(t)
  PROVE  ListInv'
BY OthersKeep, OwnerFills DEF ListInv

-----------------------------------------------------------------------------
(* Those who read a list. *)

\* Who reads while nobody parses has a list that does not change.
Undisturbed(t) ==
  t \in Reading \ disturbed
    => /\ Parsing = {} /\ t \notin stale
       /\ cursor[t] <= size[at[t]]
       /\ t \in Pages => \A i \in 0..(cursor[t] - 1) : data[at[t]][i].name # NameOf[t]

\* A page looks, a task takes; after its own parse each does so in the list of
\* that parse.
Reads(t) ==
  /\ pc[t] \in {"look", "lookAgain", "blank"} => t \in Pages
  /\ pc[t] = "flatten" => t \in TaskAdds
  /\ pc[t] \in {"lookAgain", "flatten"} \/ (pc[t] = "done" /\ t \in TaskAdds)
       => Excused(t) \/ at[t] = t

\* The n kisses that a task has taken are those at the front.
Took(t, n) == /\ Len(task[t]) = n /\ n <= listed[t]
              /\ \A i \in 1..n : task[t][i] = Files[listed[t] + 1 - i]

Takes(t) ==
  t \in TaskAdds
    => /\ pc[t] \notin {"flatten", "done", "failed"} => task[t] = <<>>
       /\ pc[t] = "flatten" => Excused(t) \/ Took(t, cursor[t])
       /\ pc[t] = "done" => Excused(t) \/ Took(t, listed[t])

Fares(t) ==
  /\ pc[t] = "failed" => Excused(t)
  /\ pc[t] = "blank" /\ NameOf[t] \in Range(SubSeq(Files, 1, listed[t]))
       => Excused(t)

ReadInv == \A t \in Threads : Undisturbed(t) /\ Reads(t) /\ Takes(t) /\ Fares(t)

LEMMA Histories ==
  ASSUME NEW t \in Threads, ThreadStep(t)
  PROVE  overlapped \subseteq overlapped' /\ disturbed \subseteq disturbed'
BY DEF ThreadStep, LookBegins, TaskBegins, ParseBegins,
       Shift, Put, Grow, ParseEnds, IterationFails, IterationGoesOn, IterationEnds

\* While nobody parses, only the begin of a parse matters to those who read.
LEMMA ListStays ==
  ASSUME Typed, Parsing = {}, NEW t \in Threads, ThreadStep(t), ~ ParseBegins(t)
  PROVE  /\ UNCHANGED <<data, size, overlapped, listed>> /\ Parsing' = {}
         /\ stale' \subseteq stale
<1>1. pc[t] \notin {"shift", "put", "grow"} /\ pc \in [Threads -> States]
  BY DEF Parsing, Typed, TypeOK
<1>2. /\ UNCHANGED <<data, size, overlapped, listed>> /\ stale' \subseteq stale
      /\ \A u \in Threads \ {t} : pc'[u] = pc[u]
      /\ pc'[t] \notin {"shift", "put", "grow"}
  BY <1>1 DEF ThreadStep, LookBegins, TaskBegins, Shift, Put, Grow, ParseEnds,
       IterationFails, IterationGoesOn, IterationEnds, AfterEnd, Reading,
       Becomes, listVars, parseVars, lookVars
<1> QED BY <1>2 DEF Parsing

LEMMA OthersRead ==
  ASSUME Typed, Order, ReadInv, NEW t \in Threads, ThreadStep(t),
         NEW u \in Threads, u # t
  PROVE  Undisturbed(u)' /\ Reads(u)' /\ Takes(u)' /\ Fares(u)'
<1>1. /\ pc \in [Threads -> States] /\ at \in [Threads -> Lists]
      /\ cursor \in [Threads -> Places] /\ task \in [Threads -> Seq(Names)]
      /\ listed \in [Lists -> 0..Len(Files)] /\ u \in Lists
  BY DEF Typed, TypeOK, StructureTypeOK, Order, Lists
<1>2. /\ pc'[u] = pc[u] /\ at'[u] = at[u] /\ cursor'[u] = cursor[u]
      /\ task'[u] = task[u] /\ listed'[u] = listed[u]
  BY <1>1 DEF ThreadStep, LookBegins, TaskBegins, ParseBegins, Shift, Put, Grow,
       ParseEnds, IterationFails, IterationGoesOn, IterationEnds,
       Becomes, listVars, parseVars, lookVars
<1>3. Excused(u) => Excused(u)'
  BY <1>2, Histories DEF Excused
<1>4. Undisturbed(u) /\ Reads(u) /\ Takes(u) /\ Fares(u)
  BY DEF ReadInv
<1>5. Reads(u)' /\ Takes(u)' /\ Fares(u)'
  BY <1>2, <1>3, <1>4 DEF Reads, Takes, Took, Fares
<1>6. Undisturbed(u)'
  <2> SUFFICES ASSUME u \in Reading' \ disturbed' PROVE Undisturbed(u)'
    BY DEF Undisturbed
  <2>1. u \in Reading \ disturbed
    BY <1>2, Histories DEF Reading
  <2>2. ~ ParseBegins(t)
    BY <2>1 DEF ParseBegins
  <2>3. Parsing = {}
    BY <1>4, <2>1 DEF Undisturbed
  <2> QED BY <1>2, <1>4, <2>1, <2>2, <2>3, ListStays DEF Undisturbed
<1> QED BY <1>5, <1>6

\* An iteration that is not disturbed, in a list that no two parses worked on.
LEMMA NextElement ==
  ASSUME Typed, Order, ListInv, ReadInv, NEW t \in Reading \ disturbed,
         at[t] \notin overlapped
  PROVE  /\ ~ Fails(t)
         /\ size[at[t]] = listed[at[t]] /\ FilledTo(at[t], size[at[t]])
         /\ ~ Exhausted(t)
              => Element(t).name = Files[listed[at[t]] - cursor[t]]
<1>1. /\ at[t] \in Lists /\ cursor[t] \in Nat /\ listed[at[t]] \in 0..Len(Files)
      /\ Parsing = {} /\ t \notin stale /\ cursor[t] <= size[at[t]]
  BY KissFacts
     DEF Typed, TypeOK, StructureTypeOK, Order, Reading, ReadInv, Undisturbed
<1>2. size[at[t]] = listed[at[t]] /\ FilledTo(at[t], size[at[t]])
  BY <1>1 DEF ListInv, Come
<1>3. ASSUME ~ Exhausted(t)
      PROVE  Element(t).name = Files[listed[at[t]] - cursor[t]] /\ Element(t) # Null
  <2>1. cursor[t] \in 0..(size[at[t]] - 1)
    BY <1>1, <1>2, <1>3, FileFacts DEF Exhausted
  <2>2. Element(t).name = Files[listed[at[t]] - cursor[t]]
    BY <1>2, <2>1 DEF FilledTo, Element
  <2>3. listed[at[t]] - cursor[t] \in 1..Len(Files)
    BY <1>1, <1>2, <2>1, FileFacts
  <2>4. Files[listed[at[t]] - cursor[t]] \in STRING \ {"null"}
    BY <2>3, FilesAssumption
  <2>5. Null.name = "null"
    BY DEF Null, Kiss
  <2> QED BY <2>2, <2>4, <2>5
<1>4. size[at[t]] \in Nat
  BY <1>1, <1>2, FileFacts
<1> QED BY <1>1, <1>2, <1>3, <1>4 DEF Fails

LEMMA OwnReads ==
  ASSUME Typed, Order, ListInv, ReadInv, NEW t \in Threads, ThreadStep(t)
  PROVE  Undisturbed(t)' /\ Reads(t)' /\ Takes(t)' /\ Fares(t)'
<1>1. /\ pc \in [Threads -> States] /\ at \in [Threads -> Lists]
      /\ cursor \in [Threads -> Places] /\ task \in [Threads -> Seq(Names)]
      /\ listed \in [Lists -> 0..Len(Files)] /\ size \in [Lists -> Places]
      /\ suites \in Lists /\ t \in Lists /\ stale \subseteq Threads
      /\ (t \in Pages <=> t \notin TaskAdds)
  BY FilesAssumption DEF Typed, TypeOK, StructureTypeOK, Order, Lists, Threads
<1>2. Undisturbed(t) /\ Reads(t) /\ Takes(t) /\ Fares(t)
  BY DEF ReadInv
<1> USE DEF Becomes, listVars, parseVars, lookVars
\* A thread that neither reads nor has read.
<1>3. ASSUME pc[t] \in {"new", "parse", "shift", "put", "grow"},
             pc'[t] \in {"parse", "shift", "put", "grow"}, task' = task
      PROVE  Undisturbed(t)' /\ Reads(t)' /\ Takes(t)' /\ Fares(t)'
  <2>1. t \notin Reading'
    BY <1>3 DEF Reading
  <2>2. t \in TaskAdds => task'[t] = <<>>
    BY <1>2, <1>3 DEF Takes
  <2> QED BY <1>3, <2>1, <2>2 DEF Undisturbed, Reads, Takes, Fares
<1>4. CASE LookBegins(t)
  <2>1. /\ pc'[t] = "look" /\ t \in Pages /\ cursor'[t] = 0 /\ at'[t] = suites
        /\ stale' = stale \ {t} /\ UNCHANGED <<data, size>>
        /\ Parsing # {} => t \in disturbed'
    BY <1>1, <1>4 DEF LookBegins, FirstElement
  <2>2. Parsing' \subseteq Parsing
    BY <1>1, <1>4 DEF LookBegins, Parsing
  <2>3. Undisturbed(t)'
    <3>1. size[suites] \in Nat
      BY <1>1, KissFacts
    <3> QED BY <2>1, <2>2, <3>1 DEF Undisturbed
  <2> QED BY <1>1, <2>1, <2>3 DEF Reads, Takes, Fares
<1>5. CASE TaskBegins(t) \/ ParseBegins(t) \/ Shift(t) \/ Put(t) \/ Grow(t)
  BY <1>1, <1>3, <1>5 DEF TaskBegins, ParseBegins, Shift, Put, Grow
<1>6. CASE ParseEnds(t)
  <2>1. /\ pc[t] = "shift" /\ pc'[t] = IF t \in Pages THEN "lookAgain" ELSE "flatten"
        /\ cursor'[t] = 0 /\ at'[t] = suites /\ stale' = stale \ {t}
        /\ UNCHANGED <<data, size, overlapped, listed, task>>
        /\ Parsing # {t} => t \in disturbed'
        /\ t \in Parsing
    BY <1>1, <1>6 DEF ParseEnds, FirstElement, ListAfterParse, Parsing
  <2>2. Parsing = {t} => Parsing' = {}
    BY <1>1, <1>6, <2>1 DEF ParseEnds, Parsing
  <2>3. Undisturbed(t)'
    <3>1. size[suites] \in Nat
      BY <1>1, KissFacts
    <3> QED BY <2>1, <2>2, <3>1 DEF Undisturbed
  <2>4. Excused(t)' \/ at'[t] = t
    <3>1. suites \notin overlapped => suites = t
      BY <2>1 DEF Order
    <3> QED BY <2>1, <3>1 DEF Excused
  <2>5. Reads(t)'
    BY <1>1, <2>1, <2>4 DEF Reads
  <2>6. Takes(t)' /\ Fares(t)'
    <3>1. listed[t] \in Nat
      BY <1>1, FileFacts
    <3>2. t \in TaskAdds => task'[t] = <<>>
      BY <1>2, <2>1 DEF Takes
    <3> QED BY <1>1, <2>1, <3>1, <3>2 DEF Takes, Took, Fares
  <2> QED BY <2>3, <2>5, <2>6
<1>7. CASE IterationFails(t)
  <2>1. /\ t \in Reading /\ Fails(t) /\ pc'[t] = "failed"
        /\ UNCHANGED <<at, overlapped, disturbed>>
    BY <1>1, <1>7 DEF IterationFails
  <2>2. Excused(t)'
    BY <2>1, NextElement DEF Excused
  <2> QED BY <2>1, <2>2 DEF Undisturbed, Reading, Reads, Takes, Fares
<1>8. CASE IterationGoesOn(t)
  <2>1. /\ t \in Reading /\ ~ Exhausted(t) /\ ~ Fails(t)
        /\ UNCHANGED <<data, size, at, stale, listed, overlapped, disturbed>>
    BY <1>8 DEF IterationGoesOn
  <2>2. CASE t \in Pages /\ Element(t).name = NameOf[t]
    <3>1. pc'[t] = "found"
      BY <1>1, <1>8, <2>2 DEF IterationGoesOn
    <3> QED BY <1>1, <2>2, <3>1 DEF Undisturbed, Reading, Reads, Takes, Fares
  <2>3. CASE ~ (t \in Pages /\ Element(t).name = NameOf[t])
    <3>1. /\ pc' = pc /\ cursor'[t] = cursor[t] + 1
          /\ t \in TaskAdds => task'[t] = Append(task[t], Element(t).name)
          /\ t \notin TaskAdds => task'[t] = task[t]
      BY <1>1, <1>8, <2>3 DEF IterationGoesOn
    <3>2. Excused(t)' <=> Excused(t)
      BY <2>1 DEF Excused
    <3>3. /\ cursor[t] \in Nat /\ size[at[t]] \in Nat
          /\ listed[t] \in Nat /\ listed[t] <= Len(Files)
      BY <1>1, KissFacts, FileFacts
    <3>4. Undisturbed(t)'
      <4> SUFFICES ASSUME t \notin disturbed PROVE Undisturbed(t)'
        BY <2>1 DEF Undisturbed
      <4>1. /\ Parsing = {} /\ t \notin stale /\ cursor[t] <= size[at[t]]
            /\ t \in Pages
                 => \A i \in 0..(cursor[t] - 1) : data[at[t]][i].name # NameOf[t]
        BY <1>2, <2>1 DEF Undisturbed
      <4>2. cursor[t] + 1 <= size[at[t]]
        BY <2>1, <3>3, <4>1 DEF Exhausted
      <4>3. t \in Pages
              => \A i \in 0..cursor[t] : data[at[t]][i].name # NameOf[t]
        BY <2>3, <3>3, <4>1 DEF Element
      <4>4. Parsing' = {}
        BY <3>1, <4>1 DEF Parsing
      <4> QED BY <2>1, <3>1, <3>3, <4>1, <4>2, <4>3, <4>4 DEF Undisturbed
    <3>5. Reads(t)'
      BY <1>2, <2>1, <3>1, <3>2 DEF Reads
    <3>6. Takes(t)'
      <4> SUFFICES ASSUME t \in TaskAdds PROVE Takes(t)'
        BY DEF Takes
      <4>1. pc[t] = "flatten"
        BY <1>1, <1>2, <2>1 DEF Reads, Reading
      <4>2. ASSUME ~ Excused(t) PROVE Took(t, cursor[t])'
        <5>1. /\ at[t] = t /\ Took(t, cursor[t])
              /\ t \in Reading \ disturbed /\ at[t] \notin overlapped
          BY <1>2, <2>1, <4>1, <4>2 DEF Reads, Takes, Excused
        <5>2. /\ size[t] = listed[t]
              /\ Element(t).name = Files[listed[t] - cursor[t]]
          BY <2>1, <5>1, NextElement
        <5>3. cursor[t] # listed[t]
          BY <2>1, <5>1, <5>2 DEF Exhausted
        <5>4. task[t] \in Seq(Names) /\ Len(task[t]) = cursor[t]
          BY <1>1, <5>1 DEF Took
        <5> DEFINE longer == Append(task[t], Element(t).name)
        <5>5. /\ Len(longer) = cursor[t] + 1
              /\ \A i \in 1..cursor[t] : longer[i] = task[t][i]
              /\ longer[cursor[t] + 1] = Element(t).name
          <6>1. Len(longer) = Len(task[t]) + 1
            BY <5>4
          <6>2. \A i \in 1..Len(task[t]) : longer[i] = task[t][i]
            BY <5>4
          <6>3. longer[Len(task[t]) + 1] = Element(t).name
            BY <5>4
          <6> QED BY <5>4, <6>1, <6>2, <6>3
        <5>6. task'[t] = longer
          BY <3>1
        <5> HIDE DEF longer
        <5>7. ASSUME NEW i \in 1..(cursor[t] + 1)
              PROVE  longer[i] = Files[listed[t] + 1 - i]
          <6>1. CASE i = cursor[t] + 1
            <7>1. listed[t] + 1 - i = listed[t] - cursor[t]
              BY <3>3, <6>1
            <7> QED BY <5>2, <5>5, <6>1, <7>1
          <6>2. CASE i # cursor[t] + 1
            <7>1. i \in 1..cursor[t]
              BY <3>3, <6>2
            <7> QED BY <5>1, <5>5, <7>1 DEF Took
          <6> QED BY <6>1, <6>2
        <5>8. cursor[t] + 1 <= listed[t]
          BY <3>3, <5>1, <5>3 DEF Took
        <5> QED BY <2>1, <3>1, <5>5, <5>6, <5>7, <5>8 DEF Took
      <4> QED BY <3>1, <3>2, <4>1, <4>2 DEF Takes
    <3>7. Fares(t)'
      BY <2>1, <3>1 DEF Fares, Reading
    <3> QED BY <3>4, <3>5, <3>6, <3>7
  <2> QED BY <2>2, <2>3
<1>9. CASE IterationEnds(t)
  <2>1. /\ t \in Reading /\ Exhausted(t) /\ pc'[t] = AfterEnd(pc[t])
        /\ UNCHANGED <<data, size, at, cursor, listed, overlapped, disturbed, task>>
    BY <1>1, <1>9 DEF IterationEnds
  <2>2. Excused(t)' <=> Excused(t)
    BY <2>1 DEF Excused
  <2>3. Undisturbed(t)'
    BY <2>1 DEF Undisturbed, Reading, AfterEnd
  <2>4. CASE pc[t] = "look"
    <3>1. pc'[t] = "parse" /\ t \in Pages
      BY <1>2, <2>1, <2>4 DEF AfterEnd, Reads
    <3> QED BY <1>1, <2>3, <3>1 DEF Reads, Takes, Fares
  <2>5. CASE pc[t] = "lookAgain"
    <3>1. pc'[t] = "blank" /\ t \in Pages
      BY <1>2, <2>1, <2>5 DEF AfterEnd, Reads
    <3>2. ASSUME NameOf[t] \in Range(SubSeq(Files, 1, listed[t])), ~ Excused(t)
          PROVE  FALSE
      <4>1. /\ at[t] = t /\ t \in Reading \ disturbed /\ t \notin overlapped
        BY <1>2, <2>1, <2>5, <3>2 DEF Reads, Excused
      <4>2. size[t] = listed[t] /\ FilledTo(t, size[t]) /\ cursor[t] = size[t]
        BY <2>1, <4>1, NextElement DEF Exhausted
      <4>3. PICK j \in 1..listed[t] : NameOf[t] = Files[j]
        BY <1>1, <3>2, FileFacts DEF Range
      <4>4. listed[t] - j \in 0..(listed[t] - 1) /\ listed[t] - (listed[t] - j) = j
        BY <1>1, FileFacts
      <4>5. data[t][listed[t] - j].name = Files[j]
        BY <4>2, <4>4 DEF FilledTo
      <4> QED BY <1>2, <3>1, <4>1, <4>2, <4>3, <4>4, <4>5 DEF Undisturbed
    <3> QED BY <1>1, <2>1, <2>2, <2>3, <3>1, <3>2 DEF Reads, Takes, Fares
  <2>6. CASE pc[t] = "flatten"
    <3>1. pc'[t] = "done" /\ t \in TaskAdds
      BY <1>2, <2>1, <2>6 DEF AfterEnd, Reads
    <3>2. Excused(t) \/ at[t] = t
      BY <1>2, <2>6 DEF Reads
    <3>3. ASSUME ~ Excused(t) PROVE Took(t, listed[t])
      <4>1. /\ at[t] = t /\ t \in Reading \ disturbed /\ at[t] \notin overlapped
            /\ Took(t, cursor[t])
        BY <1>2, <2>1, <2>6, <3>1, <3>2, <3>3 DEF Takes, Excused
      <4>2. cursor[t] = listed[t]
        BY <2>1, <4>1, NextElement DEF Exhausted
      <4> QED BY <4>1, <4>2
    <3>4. Took(t, listed[t])' <=> Took(t, listed[t])
      BY <2>1 DEF Took
    <3> QED BY <2>1, <2>2, <2>3, <3>1, <3>2, <3>3, <3>4 DEF Reads, Takes, Fares
  <2> QED BY <2>1, <2>4, <2>5, <2>6 DEF Reading
<1> QED BY <1>4, <1>5, <1>6, <1>7, <1>8, <1>9 DEF ThreadStep

StructureInv == Order /\ ListInv /\ ReadInv

\* The author's writing and the making of pages do not touch the structure.
LEMMA OutsideKeeps ==
  ASSUME Typed, StructureInv,
         UNCHANGED <<listVars, parseVars, at, cursor, stale, task, listed,
                     overlapped, disturbed>>,
         \A u \in Threads :
           \/ pc'[u] = pc[u]
           \/ /\ u \in Pages /\ pc[u] \in {"found", "test", "execute", "render"}
              /\ pc'[u] \in {"test", "execute", "render", "done"}
  PROVE  StructureInv'
<1> USE DEF listVars, parseVars
<1>1. Parsing' = Parsing /\ Reading' = Reading
  BY DEF Parsing, Reading
<1>2. \A u \in Pages : u \notin TaskAdds
  BY FilesAssumption
<1>3. Order'
  BY <1>1 DEF StructureInv, Order, Early
<1>4. ListInv'
  <2> SUFFICES ASSUME NEW l \in Lists \ overlapped PROVE Come(l)'
    BY DEF ListInv
  <2>1. Come(l) /\ (l \in Parsing => l \in Threads /\ pc'[l] = pc[l])
    BY DEF StructureInv, ListInv, Parsing
  <2> QED BY <1>1, <2>1 DEF Come, FilledTo
<1>5. ReadInv'
  <2> SUFFICES ASSUME NEW t \in Threads
               PROVE  Undisturbed(t)' /\ Reads(t)' /\ Takes(t)' /\ Fares(t)'
    BY DEF ReadInv
  <2>1. Undisturbed(t) /\ Reads(t) /\ Takes(t) /\ Fares(t)
    BY DEF StructureInv, ReadInv
  <2>2. Excused(t)' <=> Excused(t)
    BY DEF Excused
  <2>3. Undisturbed(t)'
    BY <1>1, <2>1 DEF Undisturbed
  <2> QED BY <1>2, <2>1, <2>2, <2>3 DEF Reads, Takes, Took, Fares
<1> QED BY <1>3, <1>4, <1>5 DEF StructureInv

LEMMA InitStructure == Init => StructureInv
<1> SUFFICES ASSUME Init PROVE StructureInv
  OBVIOUS
<1> USE DEF Init, StructureInit
<1>1. /\ \A t \in Threads : pc[t] \in {"new", "absent"} /\ t # Main
      /\ Parsing = {} /\ Reading = {} /\ overlapped = {}
  BY MainAssumption DEF Parsing, Reading
<1>2. /\ listed \in [Lists -> 0..Len(Files)]
      /\ \A l \in Lists : listed[l] = IF l = Main THEN Written ELSE 0
      /\ size = listed
  BY FileFacts
<1>3. Order
  BY <1>1, <1>2 DEF Order, Early, Lists
<1>4. ListInv
  <2> SUFFICES ASSUME NEW l \in Lists PROVE FilledTo(l, size[l])
    BY <1>1, <1>2 DEF ListInv, Come
  <2>1. CASE l # Main
    BY <1>2, <2>1 DEF FilledTo
  <2>2. CASE l = Main
    <3>1. data[l] = Parsed(Main, OnDisk) /\ size[l] = Written
      BY <1>2, <2>2
    <3>2. /\ Len(OnDisk) = Written /\ Written \in Nat /\ Written < Capacity
          /\ \A i \in 1..Written : OnDisk[i] = Files[i]
      BY FileFacts DEF OnDisk
    <3>3. ASSUME NEW i \in 0..(Written - 1)
          PROVE  data[l][i].name = Files[Written - i]
      <4>1. i \in Places /\ i < Written /\ Written - i \in 1..Written
        BY <3>2, FileFacts DEF Places
      <4>2. data[l][i] = Kiss(Main, OnDisk[Written - i])
        BY <3>1, <3>2, <4>1 DEF Parsed
      <4> QED BY <3>2, <4>1, <4>2 DEF Kiss
    <3> QED BY <3>1, <3>3 DEF FilledTo
  <2> QED BY <2>1, <2>2
<1>5. ReadInv
  BY <1>1 DEF ReadInv, Undisturbed, Reads, Takes, Fares
<1> QED BY <1>3, <1>4, <1>5 DEF StructureInv

LEMMA StructureInvariance == Spec => []StructureInv
<1>1. Typed /\ StructureInv /\ [Next]_vars => StructureInv'
  <2> SUFFICES ASSUME Typed, StructureInv, [Next]_vars PROVE StructureInv'
    OBVIOUS
  <2> USE DEF listVars, parseVars, lookVars
  <2>1. CASE WriteFile
    BY <2>1, OutsideKeeps DEF WriteFile
  <2>2. ASSUME NEW t \in Threads, ThreadStep(t) PROVE StructureInv'
    BY <2>2, OrderNext, ListNext, OthersRead, OwnReads DEF StructureInv, ReadInv
  <2>3. ASSUME NEW t \in Pages, PageStep(t) PROVE StructureInv'
    <3>1. pc \in [Threads -> States]
      BY DEF Typed, TypeOK
    <3>2. /\ UNCHANGED <<listVars, parseVars, at, cursor, stale, task, listed,
                         overlapped, disturbed>>
          /\ \E where \in {"test", "execute", "render", "done"} :
               pc' = [pc EXCEPT ![t] = where]
          /\ pc[t] \in {"found", "test", "execute", "render"}
      BY <2>3 DEF PageStep, SetResponse, Test, Execute, Render, Becomes
    <3> QED BY <3>1, <3>2, OutsideKeeps
  <2>4. CASE UNCHANGED vars
    BY <2>4, OutsideKeeps DEF vars, structureVars
  <2> QED BY <2>1, <2>2, <2>3, <2>4 DEF Next, StructureNext, PageStep
<1> QED BY <1>1, InitStructure, Invariance, PTL DEF Spec

LEMMA FilesUpTo ==
  ASSUME NEW n \in 0..Len(Files)
  PROVE  Range(SubSeq(Files, 1, n)) = {Files[j] : j \in 1..n}
<1> DEFINE s == SubSeq(Files, 1, n)
<1>1. /\ s \in Seq(Names) /\ Len(s) = n
      /\ \A j \in 1..n : s[j] = Files[j]
  BY FileFacts
<1>2. DOMAIN s = 1..n
  BY <1>1
<1> HIDE DEF s
<1>3. Range(s) = {Files[j] : j \in 1..n}
  BY <1>1, <1>2 DEF Range
<1> QED BY <1>3 DEF s

\* ProjectParser.parse, adapte: when no parse is on, the structure has each file
\* that the last parse found once; and so has a task made from it.  Only
\* parses that overlap, or one that meets the request, spoil this.
THEOREM WholeCorrect == Spec => []StructureWhole
<1>1. ASSUME Typed, StructureInv PROVE WholeAfterParse
  <2> SUFFICES ASSUME suites \notin Parsing \union overlapped PROVE Whole(suites)
    BY DEF WholeAfterParse
  <2>1. suites \in Lists /\ listed[suites] \in 0..Len(Files)
    BY <1>1 DEF Typed, TypeOK, StructureTypeOK, StructureInv, Order
  <2>2. size[suites] = listed[suites] /\ FilledTo(suites, size[suites])
    BY <1>1, <2>1 DEF StructureInv, ListInv, Come
  <2>3. ASSUME NEW j \in 1..listed[suites]
        PROVE  \E i \in 0..(size[suites] - 1) : data[suites][i].name = Files[j]
    <3>1. /\ listed[suites] - j \in 0..(size[suites] - 1)
          /\ listed[suites] - (listed[suites] - j) = j
      BY <2>1, <2>2, FileFacts
    <3> QED BY <2>2, <3>1 DEF FilledTo
  <2>4. Range(SubSeq(Files, 1, listed[suites])) = {Files[j] : j \in 1..listed[suites]}
    BY <2>1, FilesUpTo
  <2> QED BY <2>2, <2>3, <2>4 DEF Whole
<1>2. ASSUME Typed, StructureInv PROVE TaskWhole
  <2> SUFFICES ASSUME NEW t \in TaskAdds, pc[t] = "done", ~ Excused(t)
               PROVE  /\ Len(task[t]) = listed[at[t]]
                      /\ Range(task[t]) = Range(SubSeq(Files, 1, listed[at[t]]))
    BY DEF TaskWhole
  <2>1. /\ at[t] = t /\ Took(t, listed[t]) /\ listed[t] \in 0..Len(Files)
        /\ task[t] \in Seq(Names)
    BY <1>2 DEF StructureInv, ReadInv, Reads, Takes, Order, Threads, Lists, Typed,
                TypeOK, StructureTypeOK
  <2> DEFINE n == listed[t]
  <2>2. DOMAIN task[t] = 1..n /\ \A i \in 1..n : task[t][i] = Files[n + 1 - i]
    <3>1. Len(task[t]) = n /\ \A i \in 1..n : task[t][i] = Files[n + 1 - i]
      BY <2>1 DEF Took
    <3>2. DOMAIN task[t] = 1..Len(task[t])
      BY <2>1
    <3> QED BY <3>1, <3>2
  <2>3. \A i \in 1..n : n + 1 - i \in 1..n /\ n + 1 - (n + 1 - i) = i
    BY <2>1, FileFacts
  <2> HIDE DEF n
  <2>4. Range(task[t]) = {Files[j] : j \in 1..n}
    <3>1. \A i \in 1..n : task[t][i] \in {Files[j] : j \in 1..n}
      BY <2>2, <2>3
    <3>2. \A j \in 1..n : \E i \in 1..n : task[t][i] = Files[j]
      BY <2>2, <2>3
    <3> QED BY <2>2, <3>1, <3>2 DEF Range
  <2> QED BY <2>1, <2>4, FilesUpTo DEF Took, n
<1> QED BY <1>1, <1>2, Invariance, StructureInvariance, PTL DEF StructureWhole

\* getKiss, adapte: a request fails, or finds nothing where there is something,
\* only if a parse was on while it read or its list is of parses that overlapped.
THEOREM FailsCorrect == Spec => []FailsOnlyByParse
<1>1. StructureInv => FailsOnlyByParse
  BY DEF StructureInv, ReadInv, Fares, FailsOnlyByParse
<1> QED BY <1>1, StructureInvariance, PTL

-----------------------------------------------------------------------------
(* The files of a page.  tlapm knows no induction over the numbers but that *)
(* a set of them that is not empty has a least element.                     *)

LessThan == {pair \in Nat \X Nat : pair[1] < pair[2]}

\* The order of the natural numbers, as a set of pairs, is well founded.
LEMMA LessThanWellFounded == IsWellFoundedOn(LessThan, Nat)
  BY NatLessThanWellFounded DEF LessThan, OpToRel

\* A set of numbers that is not empty has a least one.
LEMMA Least ==
  ASSUME NEW T \in SUBSET Nat, T # {}
  PROVE  \E least \in T : \A n \in T : least <= n
<1>1. PICK least \in T : \A n \in T : ~ (<<n, least>> \in LessThan)
  BY LessThanWellFounded, WFMin
<1>2. ASSUME NEW n \in T PROVE least <= n
  <2>1. n \in Nat /\ least \in Nat /\ ~ (n < least)
    BY <1>1 DEF LessThan
  <2> QED BY <2>1
<1> QED BY <1>2

\* Induction over a set of numbers.
LEMMA NatSet ==
  ASSUME NEW T, 0 \in T, \A n \in Nat : n \in T => n + 1 \in T
  PROVE  Nat \subseteq T
<1> SUFFICES ASSUME Nat \ T # {} PROVE FALSE
  OBVIOUS
<1>1. PICK least \in Nat \ T : \A n \in Nat \ T : least <= n
  <2> DEFINE U == Nat \ T
  <2>1. U \in SUBSET Nat /\ U # {}
    OBVIOUS
  <2> HIDE DEF U
  <2>2. PICK least \in U : \A n \in U : least <= n
    BY <2>1, Least
  <2> QED BY <2>2 DEF U
<1>2. least - 1 \in Nat /\ ~ (least <= least - 1)
  OBVIOUS
<1>3. least - 1 \in T
  BY <1>1, <1>2
<1> QED BY <1>1, <1>2, <1>3

-----------------------------------------------------------------------------
(* A recursion whose last step is the call of itself, if each call is about *)
(* something smaller.                                                        *)

\* f says what the recursion gives for what is smaller than n.
Unfolds(f, n, X, stop, next, out, measure) ==
  f = [x \in {x \in X : measure[x] < n} |-> IF x \in stop THEN out[x] ELSE f[next[x]]]

Decreases(X, stop, next, measure) ==
  /\ stop \subseteq X /\ next \in [X -> X] /\ measure \in [X -> Nat]
  /\ \A x \in X \ stop : measure[next[x]] < measure[x]

LEMMA UnfoldsSome ==
  ASSUME NEW X, NEW stop, NEW next, NEW out, NEW measure,
         Decreases(X, stop, next, measure), NEW n \in Nat
  PROVE  \E f : Unfolds(f, n, X, stop, next, out, measure)
<1> DEFINE T == {k \in Nat : \E f : Unfolds(f, k, X, stop, next, out, measure)}
<1>1. 0 \in T
  <2> DEFINE f == [x \in {} |-> 0]
             Small == {x \in X : measure[x] < 0}
             g == [x \in Small |-> IF x \in stop THEN out[x] ELSE f[next[x]]]
  <2>1. Small = {}
    BY DEF Decreases
  <2>2. f = g
    <3> HIDE DEF Small
    <3> QED BY <2>1
  <2>3. Unfolds(f, 0, X, stop, next, out, measure)
    BY <2>2, Zenon DEF Unfolds
  <2> QED BY <2>3
<1>2. ASSUME NEW k \in Nat, k \in T PROVE k + 1 \in T
  <2>1. PICK f : Unfolds(f, k, X, stop, next, out, measure)
    BY <1>2
  <2> DEFINE Small == {x \in X : measure[x] < k}
             More == {x \in X : measure[x] < k + 1}
             g == [x \in More |-> IF x \in stop THEN out[x] ELSE f[next[x]]]
  <2>2. f = [x \in Small |-> IF x \in stop THEN out[x] ELSE f[next[x]]]
    BY <2>1, Zenon DEF Unfolds
  <2>3. \A x \in Small : f[x] = IF x \in stop THEN out[x] ELSE f[next[x]]
    <3> HIDE DEF Small
    <3> QED BY <2>2
  <2>4. Small \subseteq More /\ \A x \in More \ stop : next[x] \in Small
    BY DEF Decreases
  <2>5. \A x \in More : g[x] = IF x \in stop THEN out[x] ELSE f[next[x]]
    <3> HIDE DEF More, Small
    <3> QED OBVIOUS
  <2> DEFINE h == [x \in More |-> IF x \in stop THEN out[x] ELSE g[next[x]]]
  <2>6. \A x \in More \ stop : g[next[x]] = f[next[x]]
    <3> HIDE DEF More, Small, g
    <3> QED BY <2>3, <2>4, <2>5
  <2>7. g = h
    <3>1. \A x \in More : (IF x \in stop THEN out[x] ELSE f[next[x]])
                          = (IF x \in stop THEN out[x] ELSE g[next[x]])
      <4> HIDE DEF More, Small, g
      <4> QED BY <2>6
    <3>2. DOMAIN g = More /\ DOMAIN h = More /\ \A x \in More : g[x] = h[x]
      <4> DEFINE G == g
      <4> HIDE DEF More, Small
      <4> QED BY <3>1
    <3> HIDE DEF More, Small
    <3> QED BY <3>1, Zenon
  <2>8. Unfolds(g, k + 1, X, stop, next, out, measure)
    <3> HIDE DEF g
    <3> QED BY <2>7, Zenon DEF Unfolds
  <2> QED BY <2>8
<1> HIDE DEF T
<1>3. n \in T
  BY <1>1, <1>2, NatSet
<1> QED BY <1>3 DEF T

\* Two that unfold it say the same of what is small enough for both.
LEMMA UnfoldsAgree ==
  ASSUME NEW X, NEW stop, NEW next, NEW out, NEW measure,
         Decreases(X, stop, next, measure), NEW m \in Nat, NEW n \in Nat, m <= n,
         NEW f, Unfolds(f, m, X, stop, next, out, measure),
         NEW g, Unfolds(g, n, X, stop, next, out, measure)
  PROVE  \A x \in X : measure[x] < m => f[x] = g[x]
<1> DEFINE T == {k \in Nat : k <= m => \A x \in X : measure[x] < k => f[x] = g[x]}
           Fewer == {x \in X : measure[x] < m}
           More == {x \in X : measure[x] < n}
<1>0. /\ f = [x \in Fewer |-> IF x \in stop THEN out[x] ELSE f[next[x]]]
      /\ g = [x \in More |-> IF x \in stop THEN out[x] ELSE g[next[x]]]
  BY Zenon DEF Unfolds
<1>1. \A x \in Fewer : f[x] = IF x \in stop THEN out[x] ELSE f[next[x]]
  <2> HIDE DEF Fewer, More
  <2> QED BY <1>0
<1>2. \A x \in More : g[x] = IF x \in stop THEN out[x] ELSE g[next[x]]
  <2> HIDE DEF Fewer, More
  <2> QED BY <1>0
<1>3. Fewer \subseteq More
  BY DEF Decreases
<1>4. 0 \in T
  BY DEF Decreases
<1>5. ASSUME NEW k \in Nat, k \in T PROVE k + 1 \in T
  <2> SUFFICES ASSUME k + 1 <= m, NEW x \in X, measure[x] < k + 1 PROVE f[x] = g[x]
    OBVIOUS
  <2>1. \A y \in X : measure[y] < k => f[y] = g[y]
    BY <1>5
  <2>2. x \in Fewer
    BY DEF Decreases
  <2>3. x \notin stop => next[x] \in X /\ measure[next[x]] < k
    BY DEF Decreases
  <2> HIDE DEF T, Fewer, More
  <2> QED BY <1>1, <1>2, <1>3, <2>1, <2>2, <2>3
<1>6. m \in T
  <2> HIDE DEF T
  <2> QED BY <1>4, <1>5, NatSet
<1> QED BY <1>6

\* So there is a function that is what the recursion says.
LEMMA TailRecursion ==
  ASSUME NEW X, NEW stop, NEW next, NEW out, NEW measure,
         Decreases(X, stop, next, measure)
  PROVE  \E f : f = [x \in X |-> IF x \in stop THEN out[x] ELSE f[next[x]]]
<1> DEFINE Upto(n) == CHOOSE f : Unfolds(f, n, X, stop, next, out, measure)
           h == [x \in X |-> Upto(measure[x] + 1)[x]]
           k == [x \in X |-> IF x \in stop THEN out[x] ELSE h[next[x]]]
<1>1. \A n \in Nat : Unfolds(Upto(n), n, X, stop, next, out, measure)
  <2> TAKE n \in Nat
  <2>1. \E f : Unfolds(f, n, X, stop, next, out, measure)
    BY UnfoldsSome
  <2> QED BY <2>1, Zenon
<1>2. ASSUME NEW n \in Nat, NEW x \in X, measure[x] < n
      PROVE  Upto(n)[x] = IF x \in stop THEN out[x] ELSE Upto(n)[next[x]]
  <2> DEFINE Small == {y \in X : measure[y] < n}
             f == Upto(n)
  <2>1. Unfolds(f, n, X, stop, next, out, measure)
    BY <1>1
  <2> HIDE DEF f
  <2>2. f = [y \in Small |-> IF y \in stop THEN out[y] ELSE f[next[y]]]
    BY <2>1, Zenon DEF Unfolds
  <2>3. x \in Small
    BY <1>2
  <2> HIDE DEF Small
  <2>4. f[x] = IF x \in stop THEN out[x] ELSE f[next[x]]
    BY <2>2, <2>3
  <2> QED BY <2>4 DEF f
<1>3. \A x \in X : measure[x] + 1 \in Nat /\ measure[x] < measure[x] + 1
  BY DEF Decreases
<1>4. ASSUME NEW x \in X, x \notin stop
      PROVE  Upto(measure[x] + 1)[next[x]] = h[next[x]]
  <2> DEFINE y == next[x]
             m == measure[y] + 1
             n == measure[x] + 1
             f == Upto(m)
             g == Upto(n)
  <2>1. y \in X /\ m \in Nat /\ n \in Nat /\ m <= n /\ measure[y] < m
    BY <1>4 DEF Decreases
  <2>2. /\ Unfolds(f, m, X, stop, next, out, measure)
        /\ Unfolds(g, n, X, stop, next, out, measure)
    BY <1>1, <2>1
  <2>3. h[y] = f[y]
    BY <2>1
  <2> HIDE DEF f, g, y, m, n
  <2>4. f[y] = g[y]
    BY <2>1, <2>2, UnfoldsAgree
  <2> QED BY <2>3, <2>4 DEF f, g, y, m, n
<1>5. ASSUME NEW x \in X PROVE h[x] = IF x \in stop THEN out[x] ELSE h[next[x]]
  <2>1. h[x] = Upto(measure[x] + 1)[x]
    OBVIOUS
  <2>2. Upto(measure[x] + 1)[x] = IF x \in stop THEN out[x] ELSE Upto(measure[x] + 1)[next[x]]
    BY <1>2, <1>3
  <2> HIDE DEF Upto, h
  <2> QED BY <1>4, <2>1, <2>2
<1>6. h = k
  <2> HIDE DEF Upto
  <2>1. \A x \in X : Upto(measure[x] + 1)[x] = IF x \in stop THEN out[x] ELSE h[next[x]]
    BY <1>5
  <2>2. h = [x \in X |-> h[x]]
    OBVIOUS
  <2> HIDE DEF h
  <2> QED BY <1>5, <2>2
<1> HIDE DEF h
<1> QED BY <1>6, Zenon

\* What each step keeps and the recursion starts with, it ends with.
LEMMA TailInduction ==
  ASSUME NEW X, NEW stop, NEW next, NEW out, NEW measure,
         Decreases(X, stop, next, measure),
         NEW f, \A x \in X : f[x] = IF x \in stop THEN out[x] ELSE f[next[x]],
         NEW Held \in SUBSET X, \A x \in Held \ stop : next[x] \in Held
  PROVE  \A x \in Held : \E y \in Held \intersect stop : f[x] = out[y]
<1> DEFINE T == {k \in Nat : \A x \in Held : measure[x] < k
                   => \E y \in Held \intersect stop : f[x] = out[y]}
<1>2. 0 \in T
  BY DEF Decreases
<1>3. ASSUME NEW k \in Nat, k \in T PROVE k + 1 \in T
  <2> SUFFICES ASSUME NEW x \in Held, measure[x] < k + 1
               PROVE  \E y \in Held \intersect stop : f[x] = out[y]
    OBVIOUS
  <2>1. CASE x \in stop
    BY <2>1
  <2>2. CASE x \notin stop
    <3>1. next[x] \in Held /\ measure[next[x]] < k
      BY <2>2 DEF Decreases
    <3>2. f[x] = f[next[x]]
      BY <2>2
    <3>3. PICK y \in Held \intersect stop : f[next[x]] = out[y]
      BY <1>3, <3>1
    <3> QED BY <3>2, <3>3
  <2> QED BY <2>1, <2>2
<1> HIDE DEF T
<1>4. \A x \in Held : measure[x] + 1 \in T /\ measure[x] < measure[x] + 1
  BY <1>2, <1>3, NatSet DEF Decreases
<1> QED BY <1>4 DEF T

-----------------------------------------------------------------------------
(* The recursion of getDepends: it comes to an end.                        *)

LEMMA WorkFacts ==
  /\ \A n \in Sources : See(n) \in Work /\ List(n) \in Work
  /\ \A n : See(n).op = "see" /\ See(n).name = n
  /\ \A n : List(n).op = "list" /\ List(n).name = n
  /\ \A m, n : See(m) # List(n)
  /\ \A x \in Work : /\ x.name \in Sources
                     /\ x.op = "see" => x = See(x.name)
                     /\ x.op # "see" => x.op = "list" /\ x = List(x.name)
BY DEF Work, See, List

LEMMA ImportsFacts ==
  ASSUME NEW n \in Sources
  PROVE  /\ Imports[n] \in Seq(Sources) /\ Len(Imports[n]) \in Nat
         /\ \A i \in 1..Len(Imports[n]) : Imports[n][i] \in Sources
         /\ SeeImports(n) \in Seq(Work) /\ Len(SeeImports(n)) = Len(Imports[n])
         /\ \A i \in 1..Len(Imports[n]) : SeeImports(n)[i] = See(Imports[n][i])
<1>1. Imports[n] \in Seq(Sources)
  BY ImportsAssumption
<1> DEFINE k == Len(Imports[n])
<1>2. k \in Nat /\ \A i \in 1..k : Imports[n][i] \in Sources
  BY <1>1
<1>3. \A i \in 1..k : See(Imports[n][i]) \in Work
  BY <1>2, WorkFacts
<1> HIDE DEF k
<1>4. SeeImports(n) = [i \in 1..k |-> See(Imports[n][i])]
  BY DEF SeeImports, k
<1>5. SeeImports(n) \in Seq(Work) /\ Len(SeeImports(n)) = k
  BY <1>2, <1>3, <1>4
<1>6. \A i \in 1..k : SeeImports(n)[i] = See(Imports[n][i])
  BY <1>4
<1> QED BY <1>1, <1>2, <1>5, <1>6 DEF k

LEMMA RestFacts ==
  ASSUME NEW w \in Seq(Work), w # <<>>
  PROVE  /\ Len(w) \in Nat \ {0} /\ Head(w) = w[1] /\ w[1] \in Work
         /\ Tail(w) \in Seq(Work) /\ Len(Tail(w)) = Len(w) - 1
         /\ \A i \in 1..Len(w) - 1 : Tail(w)[i] = w[i + 1]
BY HeadTailProperties, EmptySeq

LEMMA GrownFacts ==
  ASSUME NEW n \in Sources, NEW rest \in Seq(Work)
  PROVE  LET more == Len(Imports[n])
             new == SeeThenList(n, rest)
         IN /\ new \in Seq(Work) /\ Len(new) = more + 1 + Len(rest)
            /\ \A i \in 1..more : new[i] = See(Imports[n][i])
            /\ new[more + 1] = List(n)
            /\ \A i \in 1..Len(rest) : new[more + 1 + i] = rest[i]
<1> DEFINE sees == SeeImports(n)
           one == <<List(n)>>
           more == Len(Imports[n])
           both == sees \o one
<1>1. /\ sees \in Seq(Work) /\ Len(sees) = more /\ more \in Nat
      /\ \A i \in 1..more : sees[i] = See(Imports[n][i])
  BY ImportsFacts
<1>2. one \in Seq(Work) /\ Len(one) = 1 /\ one[1] = List(n)
  BY WorkFacts
<1> HIDE DEF sees, one, more
<1>3. /\ both \in Seq(Work) /\ Len(both) = more + 1
      /\ \A i \in 1..more : both[i] = sees[i]
      /\ both[more + 1] = List(n)
  BY <1>1, <1>2, ConcatProperties
<1> HIDE DEF both
<1>4. Len(rest) \in Nat
  OBVIOUS
<1> DEFINE new == both \o rest
<1>5. /\ new \in Seq(Work) /\ Len(new) = Len(both) + Len(rest)
      /\ \A i \in 1..(Len(both) + Len(rest)) :
           new[i] = IF i <= Len(both) THEN both[i] ELSE rest[i - Len(both)]
  BY <1>3, ConcatProperties
<1>6. SeeThenList(n, rest) = new
  <2>1. \A a, b, c \in Seq(Work) : a \o b \o c = (a \o b) \o c
    OBVIOUS
  <2> QED BY <2>1, <1>1, <1>2 DEF SeeThenList, both, sees, one
<1> HIDE DEF new
<1>7. Len(new) = more + 1 + Len(rest)
  BY <1>1, <1>3, <1>4, <1>5
<1>8. ASSUME NEW i \in 1..(more + 1) PROVE new[i] = both[i]
  BY <1>1, <1>3, <1>4, <1>5
<1>9. ASSUME NEW i \in 1..Len(rest) PROVE new[more + 1 + i] = rest[i]
  <2> DEFINE j == more + 1 + i
  <2>1. /\ j \in 1..(Len(both) + Len(rest)) /\ ~ (j <= Len(both))
        /\ j - Len(both) = i
    BY <1>1, <1>3, <1>4
  <2> HIDE DEF j
  <2>2. new[j] = rest[j - Len(both)]
    BY <1>5, <2>1
  <2> QED BY <2>1, <2>2 DEF j
<1>10. /\ \A i \in 1..more : new[i] = See(Imports[n][i])
       /\ new[more + 1] = List(n)
  BY <1>1, <1>3, <1>8
<1> QED BY <1>5, <1>6, <1>7, <1>9, <1>10 DEF more

LEMMA AfterType ==
  ASSUME NEW there, NEW visit \in Visits, visit.work # <<>>
  PROVE  After(visit, there) \in Visits
<1> DEFINE name == Head(visit.work).name
           rest == Tail(visit.work)
<1>1. /\ visit.work \in Seq(Work) /\ visit.list \in Seq(Sources) /\ visit.matched \subseteq Sources
  BY DEF Visits
<1>2. rest \in Seq(Work) /\ name \in Sources
  BY <1>1, RestFacts, WorkFacts
<1> HIDE DEF name, rest
<1>3. Append(visit.list, name) \in Seq(Sources) /\ SeeThenList(name, rest) \in Seq(Work)
  <2>1. SeeThenList(name, rest) \in Seq(Work)
    BY <1>2, GrownFacts
  <2> QED BY <1>1, <1>2, <2>1
<1>4. \A w \in Seq(Work), l \in Seq(Sources), m \in SUBSET Sources : Visit(w, l, m) \in Visits
  BY DEF Visit, Visits
<1>5. /\ Visit(rest, Append(visit.list, name), visit.matched) \in Visits
      /\ Visit(SeeThenList(name, rest), visit.list, visit.matched \union {name}) \in Visits
      /\ Visit(rest, visit.list, visit.matched) \in Visits
  BY <1>1, <1>2, <1>3, <1>4
<1> QED BY <1>5 DEF After, name, rest

\* No file imports more than so many.
LEMMA ImportsBound == \E bound \in Nat : \A n \in Sources : Len(Imports[n]) <= bound
<1> DEFINE Bounded(S) == \E bound \in Nat : \A n \in S : Len(Imports[n]) <= bound
           T == {k \in Nat : \A S \in SUBSET Sources : Cardinality(S) = k => Bounded(S)}
<1>0. \A S \in SUBSET Sources : IsFiniteSet(S) /\ Cardinality(S) \in Nat
  BY ImportsAssumption, FS_Subset, FS_CardinalityType
<1>1. 0 \in T
  BY <1>0, FS_EmptySet
<1>2. ASSUME NEW k \in Nat, k \in T PROVE k + 1 \in T
  <2> SUFFICES ASSUME NEW S \in SUBSET Sources, Cardinality(S) = k + 1 PROVE Bounded(S)
    OBVIOUS
  <2>1. S # {}
    BY <1>0, FS_EmptySet
  <2>2. PICK x \in S : TRUE
    BY <2>1
  <2>3. Cardinality(S \ {x}) = k
    BY <1>0, <2>2, FS_RemoveElement
  <2>4. S \ {x} \in SUBSET Sources
    OBVIOUS
  <2>5. PICK b \in Nat : \A n \in S \ {x} : Len(Imports[n]) <= b
    BY <1>2, <2>3, <2>4
  <2>6. \A n \in S : Len(Imports[n]) \in Nat
    BY ImportsFacts
  <2>7. CASE Len(Imports[x]) <= b
    BY <2>5, <2>7
  <2>8. CASE ~ (Len(Imports[x]) <= b)
    <3>1. \A n \in S : Len(Imports[n]) <= Len(Imports[x])
      BY <2>2, <2>5, <2>6, <2>8
    <3> QED BY <3>1, <2>6, <2>2
  <2> QED BY <2>7, <2>8
<1> HIDE DEF T
<1>3. Cardinality(Sources) \in T
  BY <1>0, <1>1, <1>2, NatSet
<1> QED BY <1>3 DEF T

\* What is left to do: each file that is not matched yet adds its imports, and
\* itself, to the work.
Left(visit, bound) == Cardinality(Sources \ visit.matched) * (bound + 2) + Len(visit.work)

LEMMA LeftFalls ==
  ASSUME NEW there, NEW bound \in Nat, \A n \in Sources : Len(Imports[n]) <= bound,
         NEW visit \in Visits, visit.work # <<>>
  PROVE  Left(visit, bound) \in Nat /\ Left(After(visit, there), bound) < Left(visit, bound)
<1> DEFINE name == Head(visit.work).name
           rest == Tail(visit.work)
           some == Cardinality(Sources \ visit.matched)
           fewer == Cardinality(Sources \ (visit.matched \union {name}))
<1>1. /\ visit.work \in Seq(Work) /\ visit.list \in Seq(Sources) /\ visit.matched \subseteq Sources
  BY DEF Visits
<1>2. rest \in Seq(Work) /\ name \in Sources /\ Len(rest) = Len(visit.work) - 1
      /\ Len(visit.work) \in Nat
  BY <1>1, RestFacts, WorkFacts
<1>3. some \in Nat
  BY ImportsAssumption, FS_Difference, FS_CardinalityType
<1>4. Left(visit, bound) = some * (bound + 2) + Len(visit.work)
  BY DEF Left
<1>5. some * (bound + 2) \in Nat
  BY <1>3
<1>6. \A l : Left(Visit(rest, l, visit.matched), bound) = some * (bound + 2) + Len(rest)
  BY DEF Left, Visit
<1>7. CASE Head(visit.work).op # "list" /\ IsNew(name, there, visit.list, visit.matched)
  <2>1. name \in Sources \ visit.matched
    BY <1>2, <1>7 DEF IsNew
  <2>2. Sources \ (visit.matched \union {name}) = (Sources \ visit.matched) \ {name}
    OBVIOUS
  <2>3. IsFiniteSet(Sources \ visit.matched)
    BY ImportsAssumption, FS_Difference
  <2>4. fewer = some - 1
    <3> DEFINE S == Sources \ visit.matched
    <3>1. name \in S /\ IsFiniteSet(S)
      BY <2>1, <2>3
    <3> HIDE DEF S, name
    <3>2. Cardinality(S \ {name}) = Cardinality(S) - 1
      BY <3>1, FS_RemoveElement
    <3> QED BY <2>2, <3>2 DEF S
  <2>5. fewer * (bound + 2) = some * (bound + 2) - (bound + 2)
    <3> HIDE DEF fewer, some
    <3> QED BY <1>3, <2>4
  <2>6. Len(SeeThenList(name, rest)) = Len(Imports[name]) + 1 + Len(rest)
    BY <1>2, GrownFacts
  <2>7. Len(Imports[name]) \in Nat /\ Len(Imports[name]) <= bound
    BY <1>2, ImportsFacts
  <2>8. After(visit, there) = Visit(SeeThenList(name, rest), visit.list, visit.matched \union {name})
    BY <1>7 DEF After
  <2>9. Left(After(visit, there), bound) = fewer * (bound + 2) + Len(SeeThenList(name, rest))
    BY <2>8 DEF Left, Visit
  <2> DEFINE product == some * (bound + 2)
             all == Len(SeeThenList(name, rest))
  <2>10. Left(After(visit, there), bound) = product - (bound + 2) + all
    BY <2>5, <2>9
  <2>11. Left(visit, bound) = product + Len(visit.work) /\ product \in Nat
    BY <1>4, <1>5
  <2>12. all = Len(Imports[name]) + 1 + (Len(visit.work) - 1)
    BY <1>2, <2>6
  <2> DEFINE before == Left(visit, bound)
             after == Left(After(visit, there), bound)
             undone == Len(visit.work)
             imports == Len(Imports[name])
  <2>13. /\ before = product + undone /\ after = product - (bound + 2) + all
         /\ all = imports + 1 + (undone - 1) /\ product \in Nat /\ undone \in Nat
         /\ imports \in Nat /\ imports <= bound
    BY <1>2, <2>7, <2>10, <2>11, <2>12
  <2> HIDE DEF product, all, before, after, undone, imports
  <2>14. before \in Nat /\ after < before
    BY <2>13
  <2> QED BY <2>14 DEF before, after
<1>8. CASE ~ (Head(visit.work).op # "list" /\ IsNew(name, there, visit.list, visit.matched))
  <2>1. \E l : After(visit, there) = Visit(rest, l, visit.matched)
    BY <1>8 DEF After
  <2>2. Left(After(visit, there), bound) = some * (bound + 2) + Len(rest)
    <3> HIDE DEF some, rest
    <3> QED BY <2>1, <1>6
  <2> HIDE DEF some, rest
  <2> QED BY <1>2, <1>4, <1>5, <2>2
<1> QED BY <1>7, <1>8

\* The function that the recursion is.
ParseOf(there) ==
  CHOOSE parse : parse = [visit \in Visits |->
                            IF visit.work = <<>> THEN visit.list ELSE parse[After(visit, there)]]

LEMMA DependsIsParse ==
  ASSUME NEW path, NEW there
  PROVE  getDepends(path, there) = ParseOf(there)[Visit(SeeImports(path), <<>>, {})]
BY DEF getDepends, ParseOf

\* What is true at the start, and stays so, is true of the list at the end.
LEMMA ParseInduction ==
  ASSUME NEW there, NEW Held \in SUBSET Visits,
         \A visit \in Held : visit.work # <<>> => After(visit, there) \in Held,
         NEW start \in Held
  PROVE  \E visit \in Held : visit.work = <<>> /\ ParseOf(there)[start] = visit.list
<1>1. PICK bound \in Nat : \A n \in Sources : Len(Imports[n]) <= bound
  BY ImportsBound
<1> DEFINE stop == {visit \in Visits : visit.work = <<>>}
           step == [visit \in Visits |-> IF visit.work = <<>> THEN visit ELSE After(visit, there)]
           out == [visit \in Visits |-> visit.list]
           measure == [visit \in Visits |-> Left(visit, bound)]
           parse == ParseOf(there)
<1>2. \A visit \in Visits : Left(visit, bound) \in Nat
  <2> SUFFICES ASSUME NEW visit \in Visits PROVE Left(visit, bound) \in Nat
    OBVIOUS
  <2>1. Cardinality(Sources \ visit.matched) \in Nat
    BY ImportsAssumption, FS_Difference, FS_CardinalityType
  <2>2. Len(visit.work) \in Nat
    BY DEF Visits
  <2> DEFINE some == Cardinality(Sources \ visit.matched)
  <2>3. some * (bound + 2) \in Nat
    <3> HIDE DEF some
    <3> QED BY <2>1 DEF some
  <2> QED BY <2>2, <2>3 DEF Left
<1>3. Decreases(Visits, stop, step, measure)
  <2>1. step \in [Visits -> Visits]
    BY AfterType
  <2>2. measure \in [Visits -> Nat]
    BY <1>2
  <2>3. \A visit \in Visits \ stop : measure[step[visit]] < measure[visit]
    <3> SUFFICES ASSUME NEW visit \in Visits, visit.work # <<>>
                 PROVE  measure[step[visit]] < measure[visit]
      OBVIOUS
    <3>1. step[visit] = After(visit, there) /\ After(visit, there) \in Visits
      BY AfterType
    <3>2. measure[After(visit, there)] = Left(After(visit, there), bound) /\ measure[visit] = Left(visit, bound)
      BY <3>1
    <3> QED BY <1>1, <3>1, <3>2, LeftFalls
  <2> QED BY <2>1, <2>2, <2>3 DEF Decreases
<1>4. \E f : f = [visit \in Visits |-> IF visit \in stop THEN out[visit] ELSE f[step[visit]]]
  <2> HIDE DEF stop, step, out, measure
  <2> QED BY <1>3, TailRecursion
<1>5. PICK f : f = [visit \in Visits |-> IF visit \in stop THEN out[visit] ELSE f[step[visit]]]
  BY <1>4
<1>6. f = [visit \in Visits |-> IF visit.work = <<>> THEN visit.list ELSE f[After(visit, there)]]
  <2>1. \A visit \in Visits : (IF visit \in stop THEN out[visit] ELSE f[step[visit]])
                           = IF visit.work = <<>> THEN visit.list ELSE f[After(visit, there)]
    OBVIOUS
  <2> HIDE DEF stop, step, out
  <2> QED BY <1>5, <2>1
<1>7. parse = [visit \in Visits |-> IF visit.work = <<>> THEN visit.list ELSE parse[After(visit, there)]]
  <2>1. \E g : g = [visit \in Visits |-> IF visit.work = <<>> THEN visit.list ELSE g[After(visit, there)]]
    BY <1>6
  <2> QED BY <2>1, Zenon DEF ParseOf
<1> HIDE DEF parse
<1>8. \A visit \in Visits : parse[visit] = IF visit \in stop THEN out[visit] ELSE parse[step[visit]]
  <2>1. \A visit \in Visits : (IF visit \in stop THEN out[visit] ELSE parse[step[visit]])
                           = IF visit.work = <<>> THEN visit.list ELSE parse[After(visit, there)]
    OBVIOUS
  <2> HIDE DEF stop, step, out
  <2> QED BY <1>7, <2>1
<1>9. \A visit \in Held \ stop : step[visit] \in Held
  OBVIOUS
<1>10. \E visit \in Held \intersect stop : parse[start] = out[visit]
  <2> HIDE DEF stop, step, out, measure
  <2>1. \A x \in Held : \E y \in Held \intersect stop : parse[x] = out[y]
    BY <1>3, <1>8, <1>9, TailInduction
  <2> QED BY <2>1
<1> QED BY <1>10 DEF parse

-----------------------------------------------------------------------------
(* What is true at each point of the recursion: of the work w, the list l  *)
(* and the matched files M, for the page of `path` if `there` is there.    *)

LEMMA NeedsFacts ==
  ASSUME NEW name, NEW there
  PROVE  /\ Needs(name, there) \subseteq there
         /\ ImportsOf(name, there) \subseteq Needs(name, there)
         /\ \A m \in Needs(name, there) : ImportsOf(m, there) \subseteq Needs(name, there)
         /\ \A files \in SUBSET there :
              ImportsOf(name, there) \subseteq files /\ Closed(files, there)
                => Needs(name, there) \subseteq files
<1>1. \A m : ImportsOf(m, there) \subseteq there
  BY DEF ImportsOf
<1>2. \A m \in Needs(name, there) : ImportsOf(m, there) \subseteq Needs(name, there)
  <2> SUFFICES ASSUME NEW m \in Needs(name, there), NEW n \in ImportsOf(m, there),
                      NEW files \in SUBSET there,
                      ImportsOf(name, there) \subseteq files, Closed(files, there)
               PROVE  n \in files
    BY <1>1 DEF Needs
  <2>1. m \in files
    BY DEF Needs
  <2> QED BY <2>1 DEF Closed
<1> QED BY <1>1, <1>2 DEF Needs

\* What is matched is needed, and so is what is still to be seen, if it is there.
OnlyNeeded(w, M, path, there) ==
  /\ M \subseteq Needs(path, there)
  /\ \A i \in 1..Len(w) : w[i].op = "see" /\ w[i].name \in there
       => w[i].name \in Needs(path, there)

\* What is matched is in the list or is still to be listed, once.
OnceEach(w, l, M) ==
  /\ \A i \in 1..Len(l) : l[i] \in M
  /\ \A i \in 1..Len(w) : w[i].op = "list" => w[i].name \in M
  /\ \A n \in M : \/ \E i \in 1..Len(l) : l[i] = n
                  \/ \E i \in 1..Len(w) : w[i] = List(n)
  /\ \A i, j \in 1..Len(l) : l[i] = l[j] => i = j
  /\ \A i, j \in 1..Len(w) : w[i].op = "list" /\ w[i] = w[j] => i = j
  /\ \A i \in 1..Len(w), j \in 1..Len(l) : w[i].op = "list" => w[i].name # l[j]

\* What comes in the work before a file is listed, the file needs.
NeededBefore(w, there) ==
  \A i, j \in 1..Len(w) :
    i < j /\ w[j].op = "list" /\ w[i].name \in there
      => w[i].name \in Needs(w[j].name, there)

\* What a file imports is matched when the file is listed.
NothingMissed(w, l, M, path, there) ==
  /\ \A i \in 1..Len(l) : ImportsOf(l[i], there) \subseteq M
  /\ \A j \in 1..Len(w) : w[j].op = "list"
       => \A n \in ImportsOf(w[j].name, there) :
            n \in M \/ \E i \in 1..Len(w) : i < j /\ w[i] = See(n)
  /\ \A n \in ImportsOf(path, there) : n \in M \/ \E i \in 1..Len(w) : w[i] = See(n)

\* What a file imports is in the list before it, or needs it.
InOrder(l, there) ==
  \A i \in 1..Len(l) : \A n \in ImportsOf(l[i], there) :
    l[i] \in Needs(n, there) \/ \E j \in 1..Len(l) : j < i /\ l[j] = n

AllRight(w, l, M, path, there) ==
  /\ OnlyNeeded(w, M, path, there)
  /\ OnceEach(w, l, M)
  /\ NeededBefore(w, there)
  /\ NothingMissed(w, l, M, path, there)
  /\ InOrder(l, there)

-----------------------------------------------------------------------------
(* The three kinds of step. *)

RestOf(v, w) == /\ v \in Seq(Work) /\ Len(v) = Len(w) - 1
                /\ \A i \in 1..(Len(w) - 1) : v[i] = w[i + 1]

GrownFrom(v, w, n) ==
  LET more == Len(Imports[n])
  IN /\ v \in Seq(Work) /\ Len(v) = more + Len(w)
     /\ \A i \in 1..more : v[i] = See(Imports[n][i])
     /\ v[more + 1] = List(n)
     /\ \A i \in 2..Len(w) : v[more + i] = w[i]

\* A file is listed.
LEMMA ListStep ==
  ASSUME NEW path \in Sources, NEW there \in SUBSET Sources,
         NEW w \in Seq(Work), w # <<>>, NEW l \in Seq(Sources), NEW M \in SUBSET Sources,
         AllRight(w, l, M, path, there),
         NEW v, RestOf(v, w), NEW y \in Sources, w[1] = List(y)
  PROVE  AllRight(v, Append(l, y), M, path, there)
<1> DEFINE k == Append(l, y)
<1>1. /\ Len(w) \in Nat /\ 1 <= Len(w) /\ Len(l) \in Nat /\ Len(v) = Len(w) - 1
      /\ \A i \in 1..Len(v) : v[i] = w[i + 1] /\ i + 1 \in 1..Len(w)
  BY RestFacts DEF RestOf
<1>2. /\ Len(k) = Len(l) + 1 /\ k[Len(l) + 1] = y
      /\ \A i \in 1..Len(l) : k[i] = l[i]
  OBVIOUS
<1>3. 1 \in 1..Len(w) /\ w[1].op = "list" /\ w[1].name = y
  BY <1>1, WorkFacts
<1> HIDE DEF k
<1>4. OnlyNeeded(v, M, path, there)
  BY <1>1 DEF AllRight, OnlyNeeded
<1>5. OnceEach(v, k, M)
  <2> USE DEF AllRight, OnceEach
  <2>1. \A i \in 1..Len(k) : k[i] \in M
    BY <1>1, <1>2, <1>3
  <2>2. \A i \in 1..Len(v) : v[i].op = "list" => v[i].name \in M
    BY <1>1
  <2>3. ASSUME NEW n \in M
        PROVE  (\E i \in 1..Len(k) : k[i] = n) \/ (\E i \in 1..Len(v) : v[i] = List(n))
    <3>1. CASE \E i \in 1..Len(l) : l[i] = n
      BY <1>1, <1>2, <3>1
    <3>2. CASE n = y
      <4>1. Len(l) + 1 \in 1..Len(k) /\ k[Len(l) + 1] = n
        BY <1>1, <1>2, <3>2
      <4> QED BY <4>1
    <3>3. CASE n # y /\ \E i \in 1..Len(w) : w[i] = List(n)
      <4>1. PICK i \in 1..Len(w) : w[i] = List(n)
        BY <3>3
      <4>2. i # 1
        BY <1>3, <3>3, <4>1, WorkFacts
      <4>3. i - 1 \in 1..Len(v) /\ v[i - 1] = w[i]
        BY <1>1, <4>1, <4>2
      <4> QED BY <4>1, <4>3
    <3> QED BY <3>1, <3>2, <3>3
  <2>4. \A j \in 1..Len(l) : l[j] # y
    BY <1>3
  <2>5. \A i, j \in 1..Len(k) : k[i] = k[j] => i = j
    BY <1>1, <1>2, <2>4
  <2>6. ASSUME NEW i \in 1..Len(v), NEW j \in 1..Len(v), v[i].op = "list", v[i] = v[j]
        PROVE  i = j
    <3>1. i + 1 \in 1..Len(w) /\ j + 1 \in 1..Len(w) /\ v[i] = w[i + 1] /\ v[j] = w[j + 1]
      BY <1>1
    <3>2. i + 1 = j + 1
      BY <2>6, <3>1
    <3> QED BY <3>2
  <2>7. ASSUME NEW i \in 1..Len(v), NEW j \in 1..Len(k), v[i].op = "list"
        PROVE  v[i].name # k[j]
    <3>1. i + 1 \in 1..Len(w) /\ v[i] = w[i + 1]
      BY <1>1
    <3>2. v[i].name # y
      <4> SUFFICES ASSUME v[i].name = y PROVE FALSE
        OBVIOUS
      <4>1. w[i + 1] \in Work /\ w[i + 1].op = "list"
        BY <2>7, <3>1
      <4>2. w[i + 1] = List(w[i + 1].name) /\ w[i + 1].name = y
        BY <3>1, <4>1, WorkFacts
      <4>3. w[i + 1] = w[1]
        BY <4>2
      <4>4. i + 1 = 1
        BY <1>3, <3>1, <4>1, <4>3
      <4> QED BY <1>1, <4>4
    <3>3. CASE j \in 1..Len(l)
      BY <1>2, <2>7, <3>1, <3>3
    <3>4. CASE j = Len(l) + 1
      BY <1>2, <3>2, <3>4
    <3>5. j \in 1..Len(l) \/ j = Len(l) + 1
      BY <1>1, <1>2
    <3> QED BY <3>3, <3>4, <3>5
  <2> QED BY <2>1, <2>2, <2>3, <2>5, <2>6, <2>7
<1>6. NeededBefore(v, there)
  <2> SUFFICES ASSUME NEW i \in 1..Len(v), NEW j \in 1..Len(v), i < j, v[j].op = "list",
                      v[i].name \in there
               PROVE  v[i].name \in Needs(v[j].name, there)
    BY DEF NeededBefore
  <2>1. /\ i + 1 \in 1..Len(w) /\ j + 1 \in 1..Len(w) /\ i + 1 < j + 1
        /\ v[i] = w[i + 1] /\ v[j] = w[j + 1]
    BY <1>1
  <2> QED BY <2>1 DEF AllRight, NeededBefore
<1>7. \A n \in ImportsOf(y, there) : n \in M
  <2> SUFFICES ASSUME NEW n \in ImportsOf(y, there), n \notin M PROVE FALSE
    OBVIOUS
  <2>1. \E i \in 1..Len(w) : i < 1 /\ w[i] = See(n)
    BY <1>3 DEF AllRight, NothingMissed
  <2> QED BY <2>1
<1>8. NothingMissed(v, k, M, path, there)
  <2> USE DEF AllRight, NothingMissed
  <2>1. \A i \in 1..Len(k) : ImportsOf(k[i], there) \subseteq M
    BY <1>1, <1>2, <1>7
  <2>2. ASSUME NEW n, NEW i \in 1..Len(w), w[i] = See(n)
        PROVE  i - 1 \in 1..Len(v) /\ v[i - 1] = See(n)
    <3>1. i # 1
      BY <2>2, WorkFacts
    <3> QED BY <1>1, <2>2, <3>1
  <2>3. ASSUME NEW j \in 1..Len(v), v[j].op = "list", NEW n \in ImportsOf(v[j].name, there),
               n \notin M
        PROVE  \E i \in 1..Len(v) : i < j /\ v[i] = See(n)
    <3>1. j + 1 \in 1..Len(w) /\ v[j] = w[j + 1]
      BY <1>1
    <3>2. PICK i \in 1..Len(w) : i < j + 1 /\ w[i] = See(n)
      BY <2>3, <3>1
    <3>3. i - 1 \in 1..Len(v) /\ v[i - 1] = See(n) /\ i - 1 < j
      BY <2>2, <3>2
    <3> QED BY <3>3
  <2>4. ASSUME NEW n \in ImportsOf(path, there), n \notin M
        PROVE  \E i \in 1..Len(v) : v[i] = See(n)
    <3>1. PICK i \in 1..Len(w) : w[i] = See(n)
      BY <2>4
    <3> QED BY <2>2, <3>1
  <2> QED BY <2>1, <2>3, <2>4
<1>9. InOrder(k, there)
  <2> SUFFICES ASSUME NEW i \in 1..Len(k), NEW n \in ImportsOf(k[i], there)
               PROVE  k[i] \in Needs(n, there) \/ \E j \in 1..Len(k) : j < i /\ k[j] = n
    BY DEF InOrder
  <2>1. CASE i \in 1..Len(l)
    <3>1. k[i] = l[i]
      BY <1>2, <2>1
    <3>2. CASE l[i] \in Needs(n, there)
      BY <3>1, <3>2
    <3>3. CASE \E j \in 1..Len(l) : j < i /\ l[j] = n
      BY <1>1, <1>2, <3>3
    <3> QED BY <2>1, <3>1, <3>2, <3>3 DEF AllRight, InOrder
  <2>2. CASE i = Len(l) + 1
    <3>1. k[i] = y /\ n \in M
      BY <1>2, <1>7, <2>2
    <3>2. CASE \E j \in 1..Len(l) : l[j] = n
      BY <1>1, <1>2, <2>2, <3>2
    <3>3. CASE n = y
      BY <3>1, <3>3, NeedsFacts
    <3>4. CASE n # y /\ \E j \in 1..Len(w) : w[j] = List(n)
      <4>1. PICK j \in 1..Len(w) : w[j] = List(n)
        BY <3>4
      <4>2. j # 1 /\ w[j].op = "list" /\ w[j].name = n
        BY <1>3, <3>4, <4>1, WorkFacts
      <4>3. y \in there
        <5>1. y \in M
          BY <1>3 DEF AllRight, OnceEach
        <5>2. M \subseteq Needs(path, there)
          BY DEF AllRight, OnlyNeeded
        <5> QED BY <5>1, <5>2, NeedsFacts
      <4>4. w[1].name \in Needs(w[j].name, there)
        <5>1. 1 < j
          BY <4>1, <4>2
        <5> QED BY <1>3, <4>2, <4>3, <5>1 DEF AllRight, NeededBefore
      <4> QED BY <1>3, <3>1, <4>2, <4>4
    <3> QED BY <3>1, <3>2, <3>3, <3>4 DEF AllRight, OnceEach
  <2> QED BY <1>1, <1>2, <2>1, <2>2
<1> QED BY <1>4, <1>5, <1>6, <1>8, <1>9 DEF AllRight, k

\* An import is seen that is not there, or is matched already.
LEMMA OldStep ==
  ASSUME NEW path \in Sources, NEW there \in SUBSET Sources,
         NEW w \in Seq(Work), w # <<>>, NEW l \in Seq(Sources), NEW M \in SUBSET Sources,
         AllRight(w, l, M, path, there),
         NEW v, RestOf(v, w), NEW x, w[1] = See(x), x \in there => x \in M
  PROVE  AllRight(v, l, M, path, there)
<1>1. /\ Len(w) \in Nat /\ 1 <= Len(w) /\ Len(l) \in Nat /\ Len(v) = Len(w) - 1
      /\ \A i \in 1..Len(v) : v[i] = w[i + 1] /\ i + 1 \in 1..Len(w)
  BY RestFacts DEF RestOf
<1>2. \A i \in 1..Len(w) : i # 1 => i - 1 \in 1..Len(v) /\ v[i - 1] = w[i]
  BY <1>1
<1>3. OnlyNeeded(v, M, path, there)
  BY <1>1 DEF AllRight, OnlyNeeded
<1>4. OnceEach(v, l, M)
  <2> USE DEF AllRight, OnceEach
  <2>1. \A i \in 1..Len(v) : v[i].op = "list" => v[i].name \in M
    BY <1>1
  <2>2. ASSUME NEW n \in M
        PROVE  (\E i \in 1..Len(l) : l[i] = n) \/ (\E i \in 1..Len(v) : v[i] = List(n))
    <3>1. CASE \E i \in 1..Len(w) : w[i] = List(n)
      <4>1. PICK i \in 1..Len(w) : w[i] = List(n)
        BY <3>1
      <4>2. i # 1
        BY <4>1, WorkFacts
      <4> QED BY <1>2, <4>1, <4>2
    <3> QED BY <3>1
  <2>3. ASSUME NEW i \in 1..Len(v), NEW j \in 1..Len(v), v[i].op = "list", v[i] = v[j]
        PROVE  i = j
    <3>1. i + 1 \in 1..Len(w) /\ j + 1 \in 1..Len(w) /\ v[i] = w[i + 1] /\ v[j] = w[j + 1]
      BY <1>1
    <3>2. i + 1 = j + 1
      BY <2>3, <3>1
    <3> QED BY <3>2
  <2>4. ASSUME NEW i \in 1..Len(v), NEW j \in 1..Len(l), v[i].op = "list"
        PROVE  v[i].name # l[j]
    BY <1>1, <2>4
  <2> QED BY <2>1, <2>2, <2>3, <2>4
<1>5. NeededBefore(v, there)
  <2> SUFFICES ASSUME NEW i \in 1..Len(v), NEW j \in 1..Len(v), i < j, v[j].op = "list",
                      v[i].name \in there
               PROVE  v[i].name \in Needs(v[j].name, there)
    BY DEF NeededBefore
  <2>1. /\ i + 1 \in 1..Len(w) /\ j + 1 \in 1..Len(w) /\ i + 1 < j + 1
        /\ v[i] = w[i + 1] /\ v[j] = w[j + 1]
    BY <1>1
  <2> QED BY <2>1 DEF AllRight, NeededBefore
<1>6. NothingMissed(v, l, M, path, there)
  <2> USE DEF AllRight, NothingMissed
  <2>1. ASSUME NEW n \in there, n \notin M, NEW i \in 1..Len(w), w[i] = See(n)
        PROVE  i - 1 \in 1..Len(v) /\ v[i - 1] = See(n)
    <3>1. i # 1
      BY <2>1, WorkFacts
    <3> QED BY <1>2, <2>1, <3>1
  <2>2. ASSUME NEW j \in 1..Len(v), v[j].op = "list", NEW n \in ImportsOf(v[j].name, there),
               n \notin M
        PROVE  \E i \in 1..Len(v) : i < j /\ v[i] = See(n)
    <3>1. j + 1 \in 1..Len(w) /\ v[j] = w[j + 1]
      BY <1>1
    <3>2. PICK i \in 1..Len(w) : i < j + 1 /\ w[i] = See(n)
      BY <2>2, <3>1
    <3>3. n \in there
      BY DEF ImportsOf
    <3>4. i - 1 \in 1..Len(v) /\ v[i - 1] = See(n) /\ i - 1 < j
      BY <2>1, <2>2, <3>2, <3>3
    <3> QED BY <3>4
  <2>3. ASSUME NEW n \in ImportsOf(path, there), n \notin M
        PROVE  \E i \in 1..Len(v) : v[i] = See(n)
    <3>1. PICK i \in 1..Len(w) : w[i] = See(n)
      BY <2>3
    <3>2. n \in there
      BY DEF ImportsOf
    <3> QED BY <2>1, <2>3, <3>1, <3>2
  <2> QED BY <2>2, <2>3
<1> QED BY <1>3, <1>4, <1>5, <1>6 DEF AllRight

\* An import is seen for the first time.
LEMMA NewStep ==
  ASSUME NEW path \in Sources, NEW there \in SUBSET Sources,
         NEW w \in Seq(Work), w # <<>>, NEW l \in Seq(Sources), NEW M \in SUBSET Sources,
         AllRight(w, l, M, path, there),
         NEW x \in there, w[1] = See(x), x \notin M, NEW v, GrownFrom(v, w, x)
  PROVE  AllRight(v, l, M \union {x}, path, there)
<1> DEFINE more == Len(Imports[x])
           N == M \union {x}
<1>1. /\ Len(w) \in Nat /\ 1 <= Len(w) /\ Len(l) \in Nat /\ more \in Nat
      /\ w[1].op = "see" /\ w[1].name = x /\ 1 \in 1..Len(w)
  BY RestFacts, ImportsFacts, WorkFacts
<1>2. /\ Len(v) = more + Len(w)
      /\ \A i \in 1..more : v[i] = See(Imports[x][i])
      /\ v[more + 1] = List(x)
      /\ \A i \in 2..Len(w) : v[more + i] = w[i]
  BY DEF GrownFrom
<1>3. \A i \in 1..more : Imports[x][i] \in there => Imports[x][i] \in ImportsOf(x, there)
  BY DEF ImportsOf
<1>4. \A n \in ImportsOf(x, there) : \E i \in 1..more : n = Imports[x][i]
  BY DEF ImportsOf
<1> HIDE DEF more, N
\* Where each piece of the new work is from.
<1>5. \A j \in 1..Len(v) : \/ j \in 1..more
                           \/ j = more + 1
                           \/ j - more \in 2..Len(w) /\ v[j] = w[j - more]
  <2> SUFFICES ASSUME NEW j \in 1..Len(v), j \notin 1..more, j # more + 1
               PROVE  j - more \in 2..Len(w) /\ v[j] = w[j - more]
    OBVIOUS
  <2> DEFINE i == j - more
  <2>1. i \in 2..Len(w) /\ j = more + i
    BY <1>1, <1>2
  <2> HIDE DEF i
  <2>2. v[j] = w[i]
    BY <1>2, <2>1
  <2> QED BY <2>1, <2>2 DEF i
<1>6. \A i \in 2..Len(w) : i \in 1..Len(w) /\ more + i \in 1..Len(v)
  BY <1>1, <1>2
<1>7. \A j \in 1..Len(v) : v[j].op = "list"
        => \/ j = more + 1 /\ v[j] = List(x)
           \/ /\ j - more \in 2..Len(w) /\ v[j] = w[j - more]
              /\ j - more \in 1..Len(w) /\ w[j - more].op = "list"
  <2> SUFFICES ASSUME NEW j \in 1..Len(v), v[j].op = "list", j # more + 1
               PROVE  /\ j - more \in 2..Len(w) /\ v[j] = w[j - more]
                      /\ j - more \in 1..Len(w) /\ w[j - more].op = "list"
    BY <1>2
  <2>1. j \notin 1..more
    BY <1>2, WorkFacts
  <2>2. j - more \in 2..Len(w) /\ v[j] = w[j - more]
    BY <1>5, <2>1
  <2> QED BY <1>6, <2>2
<1>8. x \in Needs(path, there)
  BY <1>1 DEF AllRight, OnlyNeeded
<1>9. OnlyNeeded(v, N, path, there)
  <2>1. N \subseteq Needs(path, there)
    BY <1>8 DEF AllRight, OnlyNeeded, N
  <2>2. ASSUME NEW j \in 1..Len(v), v[j].op = "see", v[j].name \in there
        PROVE  v[j].name \in Needs(path, there)
    <3>1. CASE j \in 1..more
      <4>1. v[j].name \in ImportsOf(x, there)
        BY <1>2, <1>3, <2>2, <3>1, WorkFacts
      <4> QED BY <1>8, <4>1, NeedsFacts
    <3>2. CASE j = more + 1
      BY <1>2, <2>2, <3>2, WorkFacts
    <3>3. CASE j - more \in 2..Len(w) /\ v[j] = w[j - more]
      BY <1>6, <2>2, <3>3 DEF AllRight, OnlyNeeded
    <3> QED BY <1>5, <3>1, <3>2, <3>3
  <2> QED BY <2>1, <2>2 DEF OnlyNeeded
<1>10. OnceEach(v, l, N)
  <2> USE DEF AllRight, OnceEach
  <2>1. /\ \A i \in 1..Len(l) : l[i] \in N /\ l[i] # x
        /\ \A i, j \in 1..Len(l) : l[i] = l[j] => i = j
    BY DEF N
  <2>2. ASSUME NEW j \in 1..Len(v), v[j].op = "list"
        PROVE  v[j].name \in N /\ \A i \in 1..Len(l) : v[j].name # l[i]
    <3>1. CASE j = more + 1
      BY <1>2, <2>1, <3>1, WorkFacts DEF N
    <3>2. CASE j # more + 1
      <4>1. j - more \in 1..Len(w) /\ v[j] = w[j - more] /\ w[j - more].op = "list"
        BY <1>7, <2>2, <3>2
      <4> QED BY <4>1 DEF N
    <3> QED BY <3>1, <3>2
  <2>3. ASSUME NEW n \in N
        PROVE  (\E i \in 1..Len(l) : l[i] = n) \/ (\E i \in 1..Len(v) : v[i] = List(n))
    <3>1. CASE n = x
      <4>1. more + 1 \in 1..Len(v) /\ v[more + 1] = List(n)
        BY <1>1, <1>2, <3>1
      <4> QED BY <4>1
    <3>2. CASE n \in M /\ \E i \in 1..Len(w) : w[i] = List(n)
      <4>1. PICK i \in 1..Len(w) : w[i] = List(n)
        BY <3>2
      <4>2. i # 1
        BY <4>1, WorkFacts
      <4>3. i \in 2..Len(w)
        BY <1>1, <4>1, <4>2
      <4>4. more + i \in 1..Len(v) /\ v[more + i] = List(n)
        BY <1>2, <1>6, <4>1, <4>3
      <4> QED BY <4>4
    <3> QED BY <3>1, <3>2 DEF N
  <2>4. ASSUME NEW i \in 1..Len(v), NEW j \in 1..Len(v), v[i].op = "list", v[i] = v[j]
        PROVE  i = j
    <3>0. \A a \in 1..Len(w) : w[a].op = "list" => w[a] # List(x)
      BY WorkFacts
    <3>1. \A a \in 1..Len(v) : v[a] = List(x) => a = more + 1
      <4> SUFFICES ASSUME NEW a \in 1..Len(v), v[a] = List(x), a # more + 1 PROVE FALSE
        OBVIOUS
      <4>1. v[a].op = "list"
        BY WorkFacts
      <4>2. a - more \in 1..Len(w) /\ w[a - more].op = "list" /\ w[a - more] = List(x)
        BY <1>7, <4>1
      <4> QED BY <3>0, <4>2
    <3>2. CASE i = more + 1 \/ j = more + 1
      <4>1. v[i] = List(x) /\ v[j] = List(x)
        BY <1>2, <2>4, <3>2
      <4> QED BY <3>1, <4>1
    <3>3. CASE i # more + 1 /\ j # more + 1
      <4>1. /\ i - more \in 1..Len(w) /\ v[i] = w[i - more] /\ w[i - more].op = "list"
            /\ j - more \in 1..Len(w) /\ v[j] = w[j - more]
        BY <1>7, <2>4, <3>3
      <4>2. i - more = j - more
        BY <2>4, <4>1
      <4> QED BY <1>1, <4>2
    <3> QED BY <3>2, <3>3
  <2> QED BY <2>1, <2>2, <2>3, <2>4
<1>11. NeededBefore(v, there)
  <2> SUFFICES ASSUME NEW i \in 1..Len(v), NEW j \in 1..Len(v), i < j, v[j].op = "list",
                      v[i].name \in there
               PROVE  v[i].name \in Needs(v[j].name, there)
    BY DEF NeededBefore
  <2>1. ASSUME i \in 1..more PROVE v[i].name \in ImportsOf(x, there)
    <3>1. v[i].name = Imports[x][i]
      BY <1>2, <2>1, WorkFacts
    <3> QED BY <1>3, <2>1, <3>1
  <2>2. CASE j = more + 1
    <3>1. i \in 1..more /\ v[j].name = x
      BY <1>1, <1>2, <2>2, WorkFacts
    <3> QED BY <2>1, <3>1, NeedsFacts
  <2>3. CASE j # more + 1
    <3> DEFINE b == j - more
               y == v[j].name
    <3>1. b \in 2..Len(w) /\ b \in 1..Len(w) /\ v[j] = w[b] /\ w[b].op = "list"
      BY <1>7, <2>3
    <3>2. x \in Needs(y, there)
      <4>1. 1 < b
        BY <3>1
      <4> HIDE DEF b
      <4> QED BY <1>1, <3>1, <4>1 DEF AllRight, NeededBefore
    <3>3. CASE i \in 1..more
      BY <2>1, <3>2, <3>3, NeedsFacts
    <3>4. CASE i = more + 1
      BY <1>2, <3>2, <3>4, WorkFacts
    <3>5. CASE i - more \in 2..Len(w) /\ v[i] = w[i - more]
      <4>1. i - more \in 1..Len(w) /\ i - more < b
        BY <1>1, <1>6, <3>5
      <4> DEFINE a == i - more
      <4>2. a \in 1..Len(w) /\ a < b /\ v[i] = w[a]
        BY <3>5, <4>1
      <4> HIDE DEF a, b
      <4> QED BY <3>1, <4>2 DEF AllRight, NeededBefore
    <3> QED BY <1>5, <3>3, <3>4, <3>5
  <2> QED BY <2>2, <2>3
<1>12. NothingMissed(v, l, N, path, there)
  <2> USE DEF AllRight, NothingMissed
  <2>1. \A i \in 1..Len(l) : ImportsOf(l[i], there) \subseteq N
    BY DEF N
  <2>2. ASSUME NEW n, n \notin N, NEW i \in 1..Len(w), w[i] = See(n)
        PROVE  i \in 2..Len(w) /\ more + i \in 1..Len(v) /\ v[more + i] = See(n)
    <3>1. i # 1
      BY <1>1, <2>2, WorkFacts DEF N
    <3>2. i \in 2..Len(w)
      BY <1>1, <3>1
    <3> QED BY <1>2, <1>6, <2>2, <3>2
  <2>3. ASSUME NEW j \in 1..Len(v), v[j].op = "list", NEW n \in ImportsOf(v[j].name, there),
               n \notin N
        PROVE  \E i \in 1..Len(v) : i < j /\ v[i] = See(n)
    <3>1. CASE j = more + 1
      <4>1. n \in ImportsOf(x, there)
        BY <1>2, <2>3, <3>1, WorkFacts
      <4>2. PICK i \in 1..more : n = Imports[x][i]
        BY <1>4, <4>1
      <4>3. i \in 1..Len(v) /\ i < j /\ v[i] = See(n)
        BY <1>1, <1>2, <3>1, <4>2
      <4> QED BY <4>3
    <3>2. CASE j # more + 1
      <4> DEFINE b == j - more
      <4>1. b \in 1..Len(w) /\ v[j] = w[b] /\ w[b].op = "list"
        BY <1>7, <2>3, <3>2
      <4> HIDE DEF b
      <4>2. PICK i \in 1..Len(w) : i < b /\ w[i] = See(n)
        BY <2>3, <4>1 DEF N
      <4>3. more + i \in 1..Len(v) /\ v[more + i] = See(n)
        BY <2>2, <2>3, <4>2
      <4>4. more + i < j
        BY <1>1, <4>2 DEF b
      <4> QED BY <4>3, <4>4
    <3> QED BY <3>1, <3>2
  <2>4. ASSUME NEW n \in ImportsOf(path, there), n \notin N
        PROVE  \E i \in 1..Len(v) : v[i] = See(n)
    <3>1. PICK i \in 1..Len(w) : w[i] = See(n)
      BY <2>4 DEF N
    <3>2. more + i \in 1..Len(v) /\ v[more + i] = See(n)
      BY <2>2, <2>4, <3>1
    <3> QED BY <3>2
  <2> QED BY <2>1, <2>3, <2>4
<1> QED BY <1>9, <1>10, <1>11, <1>12 DEF AllRight, N

-----------------------------------------------------------------------------
(* The start, each step and the end. *)

LEMMA StartRight ==
  ASSUME NEW path \in Sources, NEW there \in SUBSET Sources
  PROVE  AllRight(SeeImports(path), <<>>, {}, path, there)
<1> DEFINE w == SeeImports(path)
<1>1. /\ Len(w) = Len(Imports[path]) /\ Len(w) \in Nat
      /\ \A i \in 1..Len(w) : w[i] = See(Imports[path][i])
  BY ImportsFacts
<1>2. \A i \in 1..Len(w) : w[i].op = "see" /\ w[i].op # "list" /\ w[i].name = Imports[path][i]
  BY <1>1, WorkFacts
<1>3. /\ \A i \in 1..Len(w) : Imports[path][i] \in there
           => Imports[path][i] \in ImportsOf(path, there)
      /\ \A n \in ImportsOf(path, there) : \E i \in 1..Len(w) : n = Imports[path][i]
  BY <1>1 DEF ImportsOf
<1>4. Len(<<>>) = 0
  OBVIOUS
<1> HIDE DEF w
<1>5. OnlyNeeded(w, {}, path, there)
  BY <1>2, <1>3, NeedsFacts DEF OnlyNeeded
<1>6. OnceEach(w, <<>>, {})
  BY <1>2, <1>4 DEF OnceEach
<1>7. NeededBefore(w, there)
  BY <1>2 DEF NeededBefore
<1>8. NothingMissed(w, <<>>, {}, path, there)
  BY <1>1, <1>2, <1>3, <1>4 DEF NothingMissed
<1>9. InOrder(<<>>, there)
  BY <1>4 DEF InOrder
<1> QED BY <1>5, <1>6, <1>7, <1>8, <1>9 DEF AllRight, w

LEMMA StepRight ==
  ASSUME NEW path \in Sources, NEW there \in SUBSET Sources,
         NEW visit \in Visits, visit.work # <<>>,
         AllRight(visit.work, visit.list, visit.matched, path, there),
         NEW to, to = After(visit, there)
  PROVE  AllRight(to.work, to.list, to.matched, path, there)
<1> DEFINE w == visit.work
           l == visit.list
           M == visit.matched
           name == Head(w).name
           rest == Tail(w)
<1>1. w \in Seq(Work) /\ w # <<>> /\ l \in Seq(Sources) /\ M \in SUBSET Sources
  BY DEF Visits
<1>2. /\ Len(w) \in Nat \ {0} /\ Head(w) = w[1] /\ w[1] \in Work /\ RestOf(rest, w)
      /\ name \in Sources
  <2> HIDE DEF w
  <2> QED BY <1>1, RestFacts, WorkFacts DEF RestOf
<1>3. \A v, k, N : LET here == Visit(v, k, N)
                   IN here.work = v /\ here.list = k /\ here.matched = N
  BY DEF Visit
<1>4. AllRight(w, l, M, path, there)
  OBVIOUS
<1>5. CASE Head(w).op = "list"
  <2>1. w[1] = List(name)
    BY <1>2, <1>5, WorkFacts
  <2>2. to = Visit(rest, Append(l, name), M)
    BY <1>5 DEF After
  <2> HIDE DEF w, l, M, name, rest
  <2>3. AllRight(rest, Append(l, name), M, path, there)
    BY <1>1, <1>2, <1>4, <2>1, ListStep
  <2> QED BY <1>3, <2>2, <2>3
<1>6. CASE Head(w).op # "list" /\ ~ IsNew(name, there, l, M)
  <2>1. w[1] = See(name)
    BY <1>2, <1>6, WorkFacts DEF Work
  <2>2. to = Visit(rest, l, M)
    BY <1>6 DEF After
  <2> HIDE DEF w, l, M, name, rest
  <2>3. \A i \in 1..Len(l) : l[i] \in M
    BY <1>4 DEF AllRight, OnceEach
  <2>4. name \in there => name \in M
    BY <1>6, <2>3 DEF IsNew
  <2>5. AllRight(rest, l, M, path, there)
    BY <1>1, <1>2, <1>4, <2>1, <2>4, OldStep
  <2> QED BY <1>3, <2>2, <2>5
<1>7. CASE Head(w).op # "list" /\ IsNew(name, there, l, M)
  <2> DEFINE v == SeeThenList(name, rest)
  <2>1. w[1] = See(name)
    BY <1>2, <1>7, WorkFacts DEF Work
  <2>2. to = Visit(v, l, M \union {name})
    BY <1>7 DEF After
  <2> HIDE DEF w, l, M, name, rest
  <2>3. name \in there /\ name \notin M
    BY <1>7 DEF IsNew
  <2>4. GrownFrom(v, w, name)
    <3> DEFINE more == Len(Imports[name])
    <3>1. /\ rest \in Seq(Work) /\ Len(rest) = Len(w) - 1 /\ more \in Nat
          /\ \A i \in 1..(Len(w) - 1) : rest[i] = w[i + 1]
      BY <1>2, ImportsFacts DEF RestOf
    <3>2. /\ v \in Seq(Work) /\ Len(v) = more + 1 + Len(rest)
          /\ \A i \in 1..more : v[i] = See(Imports[name][i])
          /\ v[more + 1] = List(name)
          /\ \A i \in 1..Len(rest) : v[more + 1 + i] = rest[i]
      BY <1>2, <3>1, GrownFacts
    <3> HIDE DEF v, more
    <3>3. Len(v) = more + Len(w)
      BY <1>2, <3>1, <3>2
    <3>4. ASSUME NEW i \in 2..Len(w) PROVE v[more + i] = w[i]
      <4> DEFINE j == i - 1
             measure == Len(w)
      <4>0. measure \in Nat /\ Len(rest) = measure - 1 /\ i \in 2..measure
        BY <1>2, <3>1, <3>4
      <4>1. j \in 1..Len(rest) /\ j \in 1..(Len(w) - 1) /\ j + 1 = i /\ more + 1 + j = more + i
        <5> HIDE DEF measure
        <5>1. j \in 1..(measure - 1) /\ j + 1 = i /\ more + 1 + j = more + i
          BY <3>1, <4>0
        <5> QED BY <4>0, <5>1 DEF measure
      <4> HIDE DEF j
      <4>2. v[more + 1 + j] = rest[j] /\ rest[j] = w[j + 1]
        BY <3>1, <3>2, <4>1
      <4> QED BY <4>1, <4>2
    <3> QED BY <3>2, <3>3, <3>4 DEF GrownFrom, more
  <2> HIDE DEF v
  <2>5. AllRight(v, l, M \union {name}, path, there)
    BY <1>1, <1>4, <2>1, <2>3, <2>4, NewStep
  <2> QED BY <1>3, <2>2, <2>5
<1> QED BY <1>5, <1>6, <1>7

\* PlaceOf is the first place.
LEMMA FirstPlace ==
  ASSUME NEW list, Len(list) \in Nat, NEW i \in 1..Len(list)
  PROVE  LET place == PlaceOf(list, list[i])
         IN place \in 1..Len(list) /\ place <= i /\ list[place] = list[i]
<1> DEFINE name == list[i]
           T == {j \in 1..Len(list) : list[j] = name}
<1>1. T \in SUBSET Nat /\ i \in T
  OBVIOUS
<1>2. \E least \in T : \A n \in T : least <= n
  <2> HIDE DEF T
  <2> QED BY <1>1, Least
<1>3. PICK least \in T : \A n \in T : least <= n
  BY <1>2
<1>4. \A j \in 1..(least - 1) : list[j] # name
  BY <1>3
<1>5. \E j \in 1..Len(list) : list[j] = name /\ \A k \in 1..(j - 1) : list[k] # name
  BY <1>3, <1>4
<1>6. /\ PlaceOf(list, name) \in 1..Len(list) /\ list[PlaceOf(list, name)] = name
      /\ \A k \in 1..(PlaceOf(list, name) - 1) : list[k] # name
  <2> HIDE DEF name
  <2> QED BY <1>5 DEF PlaceOf
<1>7. PlaceOf(list, name) <= i
  BY <1>6
<1> QED BY <1>6, <1>7

LEMMA EndRight ==
  ASSUME NEW path \in Sources, NEW there \in SUBSET Sources,
         NEW l \in Seq(Sources), NEW M \in SUBSET Sources,
         AllRight(<<>>, l, M, path, there)
  PROVE  Serves(Append(l, path), path, there)
<1> DEFINE k == Append(l, path)
           needs == Needs(path, there)
<1>0. Len(<<>>) = 0
  OBVIOUS
<1>1. /\ Len(k) = Len(l) + 1 /\ k[Len(l) + 1] = path /\ Len(l) \in Nat
      /\ \A i \in 1..Len(l) : k[i] = l[i]
  OBVIOUS
<1> HIDE DEF k, needs
<1>2. /\ \A i \in 1..Len(l) : l[i] \in M
      /\ \A n \in M : \E i \in 1..Len(l) : l[i] = n
      /\ \A i, j \in 1..Len(l) : l[i] = l[j] => i = j
  BY <1>0 DEF AllRight, OnceEach
<1>3. M = needs
  <2>1. M \subseteq needs /\ needs \subseteq there
    BY NeedsFacts DEF AllRight, OnlyNeeded, needs
  <2>2. ImportsOf(path, there) \subseteq M
    BY <1>0 DEF AllRight, NothingMissed
  <2>3. \A m \in M : ImportsOf(m, there) \subseteq M
    BY <1>2 DEF AllRight, NothingMissed
  <2>4. Closed(M, there)
    BY <2>3 DEF Closed
  <2>5. needs \subseteq M
    BY <2>1, <2>2, <2>4, NeedsFacts DEF needs
  <2> QED BY <2>1, <2>5
<1>4. \A i \in 1..Len(k) : i \in 1..Len(l) \/ i = Len(l) + 1
  BY <1>1
<1>5. {k[i] : i \in 1..Len(k)} = needs \union {path}
  <2>1. \A i \in 1..Len(k) : k[i] \in needs \union {path}
    BY <1>1, <1>2, <1>3, <1>4
  <2>2. \A n \in needs \union {path} : \E i \in 1..Len(k) : k[i] = n
    <3>1. \A n \in needs : \E i \in 1..Len(k) : k[i] = n
      BY <1>1, <1>2, <1>3
    <3>2. Len(l) + 1 \in 1..Len(k) /\ k[Len(l) + 1] = path
      BY <1>1
    <3> QED BY <3>1, <3>2
  <2> QED BY <2>1, <2>2
<1>6. ASSUME NEW i \in 1..Len(l) PROVE PlaceOf(k, l[i]) \in Nat /\ PlaceOf(k, l[i]) = i
  <2> DEFINE p == PlaceOf(k, k[i])
  <2>0. i \in 1..Len(k) /\ Len(k) \in Nat
    BY <1>1
  <2>1. p \in 1..Len(k) /\ p <= i /\ k[p] = k[i]
    BY <2>0, FirstPlace
  <2> HIDE DEF p
  <2>2. p \in 1..Len(l) /\ l[p] = l[i]
    BY <1>1, <2>1
  <2>3. p = i
    BY <1>2, <2>2
  <2> QED BY <1>1, <2>3 DEF p
<1>7. ASSUME NEW m \in needs \union {path}, NEW n \in ImportsOf(m, there)
      PROVE  PlaceOf(k, n) < PlaceOf(k, m) \/ m \in Needs(n, there)
  <2>1. CASE m \in needs
    <3>1. PICK i \in 1..Len(l) : l[i] = m
      BY <1>2, <1>3, <2>1
    <3>2. CASE \E j \in 1..Len(l) : j < i /\ l[j] = n
      <4>1. PICK j \in 1..Len(l) : j < i /\ l[j] = n
        BY <3>2
      <4>2. PlaceOf(k, n) = j /\ PlaceOf(k, m) = i
        BY <1>6, <3>1, <4>1
      <4> QED BY <4>1, <4>2
    <3> QED BY <1>7, <3>1, <3>2 DEF AllRight, InOrder
  <2>2. CASE m = path /\ path \notin needs
    <3>1. n \in M
      BY <1>0, <2>2 DEF AllRight, NothingMissed
    <3>2. PICK j \in 1..Len(l) : l[j] = n
      BY <1>2, <3>1
    <3>3. PlaceOf(k, n) = j
      BY <1>6, <3>2
    <3> DEFINE e == Len(l) + 1
               p == PlaceOf(k, k[e])
    <3>4. e \in 1..Len(k) /\ Len(k) \in Nat /\ k[e] = path
      BY <1>1
    <3>5. p \in 1..Len(k) /\ k[p] = path
      <4> HIDE DEF e
      <4> QED BY <3>4, FirstPlace
    <3>6. p \notin 1..Len(l)
      <4> HIDE DEF p
      <4> QED BY <1>1, <1>2, <1>3, <2>2, <3>5
    <3>7. p = Len(l) + 1
      <4> HIDE DEF p
      <4> QED BY <1>4, <3>5, <3>6
    <3>8. PlaceOf(k, m) = Len(l) + 1
      BY <2>2, <3>4, <3>7
    <3> QED BY <1>1, <3>3, <3>8
  <2> QED BY <2>1, <2>2
<1>8. ASSUME NEW i \in 1..Len(k), NEW j \in 1..Len(k), k[i] = k[j], i # j
      PROVE  k[i] = path /\ path \in needs
  <2>1. CASE i \in 1..Len(l) /\ j \in 1..Len(l)
    BY <1>1, <1>2, <1>8, <2>1
  <2>2. CASE i = Len(l) + 1 /\ j \in 1..Len(l)
    BY <1>1, <1>2, <1>3, <1>8, <2>2
  <2>3. CASE j = Len(l) + 1 /\ i \in 1..Len(l)
    BY <1>1, <1>2, <1>3, <1>8, <2>3
  <2> QED BY <1>4, <1>8, <2>1, <2>2, <2>3
<1> QED BY <1>5, <1>7, <1>8 DEF Serves, k, needs

\* getResource gives what the page needs, in order, whatever the imports are.
LEMMA ResourceServes ==
  ASSUME NEW path \in Sources, NEW there \in SUBSET Sources
  PROVE  Serves(getResource(path, there), path, there)
<1> DEFINE Held == {visit \in Visits : AllRight(visit.work, visit.list, visit.matched, path, there)}
           start == Visit(SeeImports(path), <<>>, {})
<1>1. start \in Held
  <2>1. start.work = SeeImports(path) /\ start.list = <<>> /\ start.matched = {}
    BY DEF Visit
  <2>2. start \in Visits
    BY ImportsFacts DEF Visit, Visits
  <2> HIDE DEF start
  <2> QED BY <2>1, <2>2, StartRight
<1>2. \A visit \in Held : visit.work # <<>> => After(visit, there) \in Held
  BY AfterType, StepRight
<1>3. PICK visit \in Held : visit.work = <<>> /\ ParseOf(there)[start] = visit.list
  <2> HIDE DEF Held, start
  <2>1. Held \in SUBSET Visits
    BY DEF Held
  <2> QED BY <1>1, <1>2, <2>1, ParseInduction
<1>4. getDepends(path, there) = visit.list
  BY <1>3, DependsIsParse
<1>5. /\ visit.list \in Seq(Sources) /\ visit.matched \in SUBSET Sources
      /\ AllRight(<<>>, visit.list, visit.matched, path, there)
  <2>1. AllRight(visit.work, visit.list, visit.matched, path, there) /\ visit.work = <<>>
    BY <1>3
  <2> QED BY <2>1 DEF Visits
<1>6. Serves(Append(visit.list, path), path, there)
  BY <1>5, EndRight
<1> QED BY <1>4, <1>6 DEF getResource

-----------------------------------------------------------------------------
(* RunServlet, ResourcesServlet: a page is written with its files.         *)

\* getResource: every page that is written, but a release page and one that breaks
\* off, loads all that it needs of what is there, each file after those it imports.
THEOREM PagesCorrect == Spec => PageLoads
<1> DEFINE Loads == \A page \in pages' \ pages :
                      ModeOf[page.of] # "release" /\ ~ BreaksOff(page.of)
                        => Serves(page.files, NameOf[page.of], There(disk))
<1>1. ASSUME Typed, NEW t \in Pages, Render(t) PROVE Loads
  <2> SUFFICES ASSUME NEW page \in pages' \ pages, ModeOf[page.of] # "release",
                      ~ BreaksOff(page.of)
               PROVE  Serves(page.files, NameOf[page.of], There(disk))
    OBVIOUS
  <2>1. page = Page(executor, t, Resources(t))
    BY <1>1 DEF Render
  <2>2. page.of = t /\ page.files = Resources(t)
    BY <2>1 DEF Page
  <2> DEFINE path == NameOf[t]
             there == There(disk)
             both == <<path, disk>>
  <2>3. path \in Names /\ path \in Sources /\ disk \in 0..Len(Files)
    BY <1>1, KissFacts, CaseAssumption DEF Typed, TypeOK, StructureTypeOK
  <2>4. there \in SUBSET Sources
    <3>1. \A i \in 1..disk : Files[i] \in Sources
      BY <2>3, FileFacts, CaseAssumption
    <3> QED BY <3>1 DEF There
  <2>5. Resources(t) = getResource(path, there)
    <3>1. both \in Names \X (0..Len(Files)) /\ both[1] = path /\ both[2] = disk
      BY <2>3
    <3>2. Resources(t) = ResourcesOf[both]
      BY <2>2 DEF Resources
    <3>3. ResourcesOf[both] = getResource(both[1], There(both[2]))
      <4> HIDE DEF both
      <4> QED BY <3>1 DEF ResourcesOf
    <3> QED BY <3>1, <3>2, <3>3
  <2> HIDE DEF path, there
  <2>6. Serves(getResource(path, there), path, there)
    BY <2>3, <2>4, ResourceServes
  <2> QED BY <2>2, <2>5, <2>6 DEF path, there
<1>2. ASSUME Typed, [Next]_vars PROVE Loads \/ UNCHANGED vars
  <2>1. ASSUME NEW t \in Pages, SetResponse(t) \/ Test(t) \/ Execute(t) PROVE pages' = pages
    BY <2>1 DEF SetResponse, Test, Execute
  <2>2. CASE UNCHANGED pageVars
    BY <2>2 DEF pageVars
  <2>3. pages' = pages => Loads
    OBVIOUS
  <2> QED BY <1>1, <1>2, <2>1, <2>2, <2>3 DEF Next
<1>3. Typed /\ [Next]_vars => [Loads]_vars
  BY <1>2
<1> QED BY <1>3, Invariance, PTL DEF Spec, PageLoads
=============================================================================
