----------------------------- MODULE MCPipeline -----------------------------
(***************************************************************************)
(* Instances of Pipeline for TLC: a seed that is renamed and may get a     *)
(* child, a page that loses its link to the third page, and that page.     *)
(***************************************************************************)
EXTENDS Pipeline, TLC

CONSTANTS s, a, b, t1, t2

Version(t, ls) == [title |-> t, links |-> ls]

SmallWiki == (s :> <<Version(t1, {a}), Version(t2, {a})>>)
             @@ (a :> <<Version(t1, {b}), Version(t1, {s})>>)
             @@ (b :> <<Version(t1, {s})>>)

\* A page is edited and then renamed, the others stay as they are.
RenamedWiki == (s :> <<Version(t1, {a})>>)
               @@ (a :> <<Version(t1, {b}), Version(t1, {s}), Version(t2, {b})>>)
               @@ (b :> <<Version(t1, {s})>>)

\* One version of every page.
StillWiki == (s :> <<Version(t1, {a})>>) @@ (a :> <<Version(t1, {b})>>) @@ (b :> <<Version(t1, {s})>>)

SmallChildren == (s :> {{}, {b}}) @@ (a :> {{}}) @@ (b :> {{}})
FixedChildren == (s :> {{}}) @@ (a :> {{}}) @@ (b :> {{}})
=============================================================================
