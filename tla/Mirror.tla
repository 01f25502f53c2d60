------------------------------- MODULE Mirror -------------------------------
(***************************************************************************)
(* What metadata.json promises to whoever reads it between runs: a mirror  *)
(* of the wiki that a run replaces in one step or not at all.  Nothing is  *)
(* said of how a run gets there; Pipeline implements it.                   *)
(***************************************************************************)
EXTENDS Naturals

CONSTANTS Pages,   \* page keys
          Seeds,   \* the configured seed pages
          Modes    \* the modes that runs are started in

VARIABLES
  version, live,   \* the wiki: a page's version, and whether it exists
  seen,            \* during a run: the states each page has had since it started
  stage, mode,     \* "idle", "open" or "done", and the mode of the run
  kept, certified  \* the mirror: versions of the pages, and the successful checkpoint

vars == <<version, live, seen, stage, mode, kept, certified>>

Nothing == [p \in {} |-> p]
NoState == [p \in Pages |-> {}]

\* A page that is trashed or removed has no version.
Gone     == 0
State(p) == IF live[p] THEN version[p] ELSE Gone

Init ==
  /\ version = [p \in Pages |-> 1] /\ live = [p \in Pages |-> TRUE]
  /\ seen = NoState
  /\ stage = "idle" /\ mode = "none"
  /\ kept = Nothing /\ certified = FALSE

\* A page is edited, or removed or restored.
Change(p) ==
  /\ \/ version' = [version EXCEPT ![p] = @ + 1] /\ UNCHANGED live
     \/ live' = [live EXCEPT ![p] = ~@] /\ UNCHANGED version
  /\ seen' = IF stage = "idle" THEN seen ELSE [seen EXCEPT ![p] = @ \cup {State(p)'}]
  /\ UNCHANGED <<stage, mode, kept, certified>>

Begin(m) ==
  /\ stage = "idle"
  /\ stage' = "open" /\ mode' = m
  /\ seen' = [p \in Pages |-> {State(p)}]
  /\ UNCHANGED <<version, live, kept, certified>>

\* A full run forgets the mirror before it makes a new one.  An updates run never does.
Forgets ==
  /\ mode = "full"
  /\ kept' = Nothing /\ certified' = FALSE

Forget ==
  /\ stage = "open"
  /\ Forgets
  /\ UNCHANGED <<version, live, seen, stage, mode>>

\* The whole mirror is replaced.  A page in it was there in that version at some moment of
\* this run, or could not be read and keeps its old version, which costs the run its
\* certificate.  No page goes back to an earlier version, and a certified mirror has all
\* seeds that existed throughout the run.
Commit ==
  /\ stage = "open" /\ stage' = "done"
  /\ \A p \in DOMAIN kept' :
       \/ p \in Pages /\ kept'[p] \in seen[p] \ {Gone}
       \/ ~certified' /\ p \in DOMAIN kept /\ kept'[p] = kept[p]
  /\ \A p \in DOMAIN kept \cap DOMAIN kept' : kept[p] <= kept'[p]
  /\ certified' => \A p \in Seeds : p \in DOMAIN kept' \/ Gone \in seen[p]
  /\ UNCHANGED <<version, live, seen, mode>>

\* The run returns, with or without an error, or is killed: the mirror is what it was,
\* unless a full run was just clearing it.
End ==
  /\ stage # "idle"
  /\ stage' = "idle" /\ mode' = "none" /\ seen' = NoState
  /\ UNCHANGED <<kept, certified>> \/ (stage = "open" /\ Forgets)
  /\ UNCHANGED <<version, live>>

Next ==
  \/ \E p \in Pages : Change(p)
  \/ \E m \in Modes : Begin(m)
  \/ Forget \/ Commit \/ End

Spec == Init /\ [][Next]_vars
=============================================================================
