----------------------------- MODULE MCRunPage -----------------------------
(* A small instance of RunPage for TLC. *)
EXTENDS RunPage, TLC

CONSTANTS q1, q2, q3, r1, c1, c2, a1, a2

\* Plain pages of one kiss and of another, whose file is written late, a release
\* and two coverage pages, one of a project without a coverage directory.
MCNameOf == (q1 :> "a") @@ (q2 :> "a") @@ (q3 :> "b") @@ (r1 :> "a") @@ (c1 :> "b")
              @@ (c2 :> "a")
MCModeOf == (r1 :> "release") @@ (c1 :> "coverage") @@ (c2 :> "coverage")
              @@ [q \in Pages |-> "plain"]
MCFiles == <<"a", "b">>

\* a and b import each other, and files of another project that import each other.
MCImports == ("a" :> <<"b", "c">>) @@ ("b" :> <<"a", "d">>) @@ ("c" :> <<"d", "e">>)
               @@ ("d" :> <<"e">>) @@ ("e" :> <<"d">>)

\* Any two requests, and three of those that find their kiss.  The project has a
\* coverage directory or it has none.
MCCrowds == ({{t, u} : t, u \in Threads} \ {{c1, c2}}) \union {{q1, q2, r1}}
=============================================================================
