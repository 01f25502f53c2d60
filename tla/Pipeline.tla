------------------------------ MODULE Pipeline ------------------------------
(***************************************************************************)
(* Successive runs of the crawler over one output directory (cmd/crawler,  *)
(* internal/store): what a run loads, writes, rewrites and deletes, and    *)
(* what it leaves behind for the next one, while people edit the wiki and  *)
(* runs fail or are killed at any point.                                   *)
(*                                                                         *)
(* The traversal (module Crawl) is reduced to what it hands over: a result *)
(* for every page that is reached, in any order.  A version of a page has  *)
(* one title and one set of links; its child pages, which the crawler also *)
(* follows but which its text does not name, change without a version.  No *)
(* page is beyond max_depth; attachments, dry runs and the post-crawl hook *)
(* are left out.                                                           *)
(***************************************************************************)
EXTENDS Naturals, FiniteSets, Sequences, Functions, Measures

CONSTANTS Pages,      \* page keys
          Seeds,      \* the configured seed pages
          Titles,     \* page titles (their slugs)
          Revisions,  \* Revisions[p][v]: title and links of version v of page p
          Children,   \* Children[p]: the sets of child pages p may have
          Modes,      \* the modes that runs are started in
          MaxEvents   \* bound: changes of the wiki that make no new version, and faults:
                      \* failed requests and writes, killed runs, lost files

ASSUME PipelineAssumption ==
  /\ Seeds \subseteq Pages
  /\ Revisions \in [Pages -> Seq([title : Titles, links : SUBSET Pages])]
  /\ \A p \in Pages : Len(Revisions[p]) > 0
  /\ Children \in [Pages -> SUBSET SUBSET Pages] /\ \A p \in Pages : Children[p] # {}
  /\ Modes \subseteq {"full", "updates"}
  /\ MaxEvents \in Nat

VARIABLES
  version, live, children,  \* the wiki: current version, not trashed or removed, children
  removed,                  \* seeds that are gone for good: their URLs answer 404
  files, meta, index,       \* the directory: page files, metadata.json, index.md
  phase, mode,              \* the run: where it is, its mode
  previous, pages,          \* records as loaded, records as being updated
  results,                  \* what the traversal found
  todo, failed,             \* pages left in the current pass, errorCount > 0
  clean, seen,              \* history: no stray file possible, states of the pages in this run
  edits, faults             \* counters of the bounded events

wikiVars == <<version, live, children, removed>>
diskVars == <<files, meta, index>>
runVars  == <<phase, mode, previous, pages, results, todo, failed>>
histVars == <<clean, seen, edits, faults>>
vars == <<wikiVars, diskVars, runVars, histVars>>

Empty == [x \in {} |-> x]
Put(f, x, y) == [z \in DOMAIN f \cup {x} |-> IF z = x THEN y ELSE f[z]]

Links(p, v) == Revisions[p][v].links

\* The file of a page: slug of the title and flattened key.
File(p, v) == <<p, Revisions[p][v].title>>
Files      == Pages \X Titles

\* A page's Markdown: the version it renders, the pages its links lead to and, for each
\* link that was made local, the file it points to.  The others are absolute URLs.
Rendered(p, v) == [version |-> v, links |-> Links(p, v), local |-> Empty]

\* What a write that is cut off leaves of a text: no version, some of its links.
Cut == 0
Prefixes(c) ==
  {[version |-> Cut, links |-> s, local |-> Restrict(c.local, s \cap DOMAIN c.local)] :
     s \in SUBSET c.links}

\* A page record: version (and title), outgoing_links and storage_format.
Record(v, out, stored) == [version |-> v, out |-> out, stored |-> stored]

\* The state of a page: its version, or gone; and that of no page.
Gone     == 0
State(p) == IF live[p] THEN version[p] ELSE Gone
NoState  == [p \in Pages |-> {}]

NoMeta == [pages |-> Empty, successful |-> FALSE]

\* Traversal results.  "dirty" is a page whose full processing is still to come.
Result(k, v, out) == [kind |-> k, version |-> v, out |-> out]
Dirty   == Result("dirty", 0, {})
Deleted == Result("deleted", 0, {})
Error   == Result("error", 0, {})

Kind(p) == results[p].kind

Init ==
  /\ version = [p \in Pages |-> 1] /\ live = [p \in Pages |-> TRUE]
  /\ children \in [Pages -> SUBSET Pages] /\ \A p \in Pages : children[p] \in Children[p]
  /\ removed = {}
  /\ files = Empty /\ meta = NoMeta /\ index = {}
  /\ phase = "idle" /\ mode = "none"
  /\ previous = Empty /\ pages = Empty /\ results = Empty
  /\ todo = {} /\ failed = FALSE
  /\ clean = TRUE /\ seen = NoState /\ edits = 0 /\ faults = 0

-----------------------------------------------------------------------------
(* The wiki.  What happens to it after a traversal is first seen by the    *)
(* next run, so it changes only between runs and during traversals.        *)

Bounded == edits + faults < MaxEvents

Wiki(p) ==
  /\ phase \in {"idle", "crawl"}
  /\ seen' = IF phase = "idle" THEN seen ELSE [seen EXCEPT ![p] = @ \cup {State(p)'}]
  /\ UNCHANGED <<diskVars, runVars, clean, faults>>

Edit(p) ==
  /\ version[p] < Len(Revisions[p])
  /\ version' = [version EXCEPT ![p] = @ + 1]
  /\ UNCHANGED <<live, children, removed, edits>>
  /\ Wiki(p)

\* A page is trashed, or restored.
Toggle(p) ==
  /\ p \notin removed
  /\ Bounded /\ edits' = edits + 1
  /\ live' = [live EXCEPT ![p] = ~@]
  /\ UNCHANGED <<version, children, removed>>
  /\ Wiki(p)

\* A seed is removed for good.  For any other page this is the same as being trashed and
\* never restored: the traversal treats both alike.
Purge(p) ==
  /\ p \in Seeds \ removed
  /\ Bounded /\ edits' = edits + 1
  /\ live' = [live EXCEPT ![p] = FALSE]
  /\ removed' = removed \cup {p}
  /\ UNCHANGED <<version, children>>
  /\ Wiki(p)

\* A child page is created, moved or removed.
Rearrange(p) ==
  /\ Bounded /\ edits' = edits + 1
  /\ \E s \in Children[p] \ {children[p]} : children' = [children EXCEPT ![p] = s]
  /\ UNCHANGED <<version, live, removed>>
  /\ Wiki(p)

-----------------------------------------------------------------------------
(* Faults. *)

Fault == Bounded /\ faults' = faults + 1

\* Somebody removes a page file.
LoseFile(f) ==
  /\ phase = "idle" /\ f \in DOMAIN files
  /\ Fault
  /\ files' = Restrict(files, DOMAIN files \ {f})
  /\ UNCHANGED <<wikiVars, meta, index, runVars, clean, seen, edits>>

\* The run ends and its memory is gone.
Ended ==
  /\ phase' = "idle" /\ mode' = "none"
  /\ previous' = Empty /\ pages' = Empty /\ results' = Empty
  /\ todo' = {} /\ failed' = FALSE /\ seen' = NoState

-----------------------------------------------------------------------------
(* bootstrapRun: credentials are probed with a seed of every site (module  *)
(* Auth) and all seeds are resolved before anything is touched.  Then a    *)
(* full run clears the directory, and both modes load metadata.json.       *)

\* Every seed URL is answered, also by a page in the trash.
SeedsResolve == Seeds \cap removed = {}

\* An attempt that fails before changes nothing.
BootstrapFails ==
  /\ phase = "idle" /\ ~SeedsResolve
  /\ UNCHANGED vars

Start(m) ==
  /\ phase = "idle" /\ SeedsResolve
  /\ phase' = IF m = "full" THEN "clear" ELSE "crawl"
  /\ mode' = m
  /\ previous' = IF m = "full" THEN Empty ELSE meta.pages
  /\ pages' = previous'
  /\ seen' = [p \in Pages |-> {State(p)}]
  /\ UNCHANGED <<wikiVars, diskVars, results, todo, failed, clean, edits, faults>>

KeepFiles == files                             \* Mutant of Cleared
Cleared == Empty

Clear ==
  /\ phase = "clear"
  /\ files' = Cleared /\ meta' = NoMeta /\ index' = {}
  /\ phase' = "crawl"
  /\ clean' = TRUE
  /\ UNCHANGED <<wikiVars, mode, previous, pages, results, todo, failed, seen, edits, faults>>

\* The directory is cleared entry by entry: a run that fails or is killed there
\* leaves some entries behind.
ClearFails ==
  /\ phase = "clear"
  /\ Fault
  /\ \E s \in SUBSET DOMAIN files : files' = Restrict(files, s)
  /\ meta' \in {meta, NoMeta} /\ index' \in {index, {}}
  /\ clean' = FALSE
  /\ Ended
  /\ UNCHANGED <<wikiVars, edits>>

-----------------------------------------------------------------------------
(* The traversal: a page is visited if it is a seed or a good page leads   *)
(* to it.                                                                  *)

Good(p) == Kind(p) \in {"page", "reused"}
Found == Seeds \cup UNION {results[q].out : q \in {r \in DOMAIN results : Good(r)}}
Unvisited(p) == p \in Found /\ p \notin DOMAIN results

SetResult(p, r) ==
  /\ results' = Put(results, p, r)
  /\ UNCHANGED <<wikiVars, diskVars, phase, mode, previous, pages, todo, failed, clean, seen,
                 edits>>

\* A title change is a new version, so the version decides.
NeverDirty(p) == p \notin DOMAIN previous       \* Mutant of IsDirty
IsDirty(p) == p \notin DOMAIN previous \/ previous[p].version # version[p]

\* updates mode asks for the state of a page first.
Classify(p) ==
  /\ phase = "crawl" /\ mode = "updates" /\ Unvisited(p)
  /\ SetResult(p, IF ~live[p] THEN Deleted
                  ELSE IF IsDirty(p) THEN Dirty
                  ELSE Result("reused", previous[p].version, previous[p].out))
  /\ UNCHANGED faults

\* A failed state request makes the page dirty.
ClassifyFails(p) ==
  /\ phase = "crawl" /\ mode = "updates" /\ Unvisited(p)
  /\ Fault
  /\ SetResult(p, Dirty)

\* Full processing is due: at once in full mode, of a dirty page in updates mode.
Due(p) == IF mode = "full" THEN Unvisited(p) ELSE p \in DOMAIN results /\ results[p] = Dirty

Fetch(p) ==
  /\ phase = "crawl" /\ Due(p)
  /\ SetResult(p, IF ~live[p] THEN Deleted
                  ELSE Result("page", version[p], Links(p, version[p]) \cup children[p]))
  /\ UNCHANGED faults

\* The request for the child pages fails: not an error.
FetchPartly(p) ==
  /\ phase = "crawl" /\ Due(p) /\ live[p]
  /\ Fault
  /\ SetResult(p, Result("page", version[p], Links(p, version[p])))

FetchFails(p) ==
  /\ phase = "crawl" /\ Due(p)
  /\ Fault
  /\ SetResult(p, Error)

KeepDeleted(r) == r                            \* Mutant of Pruned
Pruned(r) == [r EXCEPT !.out = {q \in @ : ~(q \in DOMAIN results /\ results[q] = Deleted)}]

\* The traversal returns no error; links to deleted pages are taken out of its results.
Traversed ==
  /\ phase = "crawl"
  /\ \A p \in Pages : ~Unvisited(p) /\ ~Due(p)
  /\ results' = [p \in DOMAIN results |-> Pruned(results[p])]
  /\ todo' = DOMAIN results
  /\ phase' = "process"
  /\ UNCHANGED <<wikiVars, diskVars, mode, previous, pages, failed, histVars>>

-----------------------------------------------------------------------------
(* processTraversalResults: one page after the other, in any order.        *)

NextPage(p) ==
  /\ phase = "process" /\ p \in todo
  /\ todo' = todo \ {p}
  /\ UNCHANGED <<wikiVars, meta, index, phase, mode, previous, results, seen, edits>>

PassDeleted(p) ==
  /\ NextPage(p) /\ Kind(p) = "deleted"
  /\ UNCHANGED <<files, pages, failed, clean, faults>>

\* A page that could not be fetched counts as an error and keeps what it has.
PassError(p) ==
  /\ NextPage(p) /\ Kind(p) = "error"
  /\ failed' = TRUE
  /\ UNCHANGED <<files, pages, clean, faults>>

OldFile(p) == File(p, previous[p].version)

\* A clean page keeps its file, or gets it back from the stored Markdown.
NoSelfHealing(p) == files                      \* Mutant of SelfHealed
SelfHealed(p) ==
  IF OldFile(p) \in DOMAIN files THEN files ELSE Put(files, OldFile(p), previous[p].stored)

Reuse(p) ==
  /\ NextPage(p) /\ Kind(p) = "reused"
  /\ files' = SelfHealed(p)
  /\ pages' = Put(pages, p, [previous[p] EXCEPT !.out = results[p].out])
  /\ UNCHANGED <<failed, clean, faults>>

\* Mutant of Written: a file that is there is kept.
KeptIfPresent(p, v) ==
  IF File(p, v) \in DOMAIN files THEN files ELSE Put(files, File(p, v), Rendered(p, v))
Written(p, v) == Put(files, File(p, v), Rendered(p, v))

Render(p) ==
  /\ NextPage(p) /\ Kind(p) = "page"
  /\ LET v == results[p].version
     IN  /\ files' = Written(p, v)
         /\ pages' = Put(pages, p, Record(v, results[p].out, Rendered(p, v)))
  /\ UNCHANGED <<failed, clean, faults>>

\* The file that processing p writes, if any, and its text.
Target(p) ==
  IF Kind(p) = "page" THEN {File(p, results[p].version)}
  ELSE IF Kind(p) = "reused" THEN {OldFile(p)} \ DOMAIN files
  ELSE {}
Text(p) == IF Kind(p) = "page" THEN Rendered(p, results[p].version) ELSE previous[p].stored

\* The directories that a write of text c to file f leaves when it is cut off.
Torn(f, c) == {Put(files, f, t) : t \in Prefixes(c)}

\* A write that fails is an error of the page; it may have truncated the file.
WriteFails(p) ==
  /\ NextPage(p)
  /\ Fault
  /\ \E f \in Target(p) : files' \in {files} \cup Torn(f, Text(p))
  /\ failed' = TRUE /\ clean' = FALSE
  /\ UNCHANGED pages

-----------------------------------------------------------------------------
(* finalizeRun. *)

DropFailed(p) == Kind(p) \notin {"deleted", "error"}   \* Mutant of Survives
Survives(p) == Kind(p) # "deleted"

\* Only the records of pages that this crawl reached stay.
Prune ==
  /\ phase = "process" /\ todo = {}
  /\ pages' = Restrict(pages, {p \in DOMAIN pages \cap DOMAIN results : Survives(p)})
  /\ todo' = DOMAIN pages'
  /\ phase' = "rewrite"
  /\ UNCHANGED <<wikiVars, diskVars, mode, previous, results, failed, histVars>>

FileOf(p) == File(p, pages[p].version)

\* The links of a text that are still URLs of recorded pages.
Open(c) == (c.links \cap DOMAIN pages) \ DOMAIN c.local

LocalizedFresh(p, c) ==                        \* Mutant of Localized
  IF Kind(p) # "page" THEN c
  ELSE [c EXCEPT !.local = [q \in Open(c) |-> FileOf(q)]]
Localized(p, c) ==
  [c EXCEPT !.local = [q \in Open(c) \cup DOMAIN @ |-> IF q \in Open(c) THEN FileOf(q) ELSE @[q]]]

\* RewriteCrawledPageLinks, one page at a time, in any order.  A file that was cut off is
\* rewritten like any other, and becomes the stored Markdown.
Rewrite(p) ==
  /\ phase = "rewrite" /\ p \in todo
  /\ FileOf(p) \in DOMAIN files
  /\ LET c == Localized(p, files[FileOf(p)])
     IN  IF c = files[FileOf(p)] THEN UNCHANGED <<files, pages>>
         ELSE /\ files' = Put(files, FileOf(p), c)
              /\ pages' = [pages EXCEPT ![p].stored = c]
  /\ todo' = todo \ {p}
  /\ UNCHANGED <<wikiVars, meta, index, phase, mode, previous, results, failed, histVars>>

\* The file of a record is missing: the run fails.
RewriteFails(p) ==
  /\ phase = "rewrite" /\ p \in todo
  /\ FileOf(p) \notin DOMAIN files
  /\ Ended
  /\ clean' = FALSE
  /\ UNCHANGED <<wikiVars, diskVars, edits, faults>>

Rewritten ==
  /\ phase = "rewrite" /\ todo = {}
  /\ phase' = "reconcile"
  /\ UNCHANGED <<wikiVars, diskVars, mode, previous, pages, results, todo, failed, histVars>>

\* Files of the records that were loaded, except those of the records that stay.
\* Mutants of Stale.
StaleIgnoringRenames == {OldFile(p) : p \in DOMAIN previous \ DOMAIN pages}
StaleByPage == {OldFile(p) : p \in {q \in DOMAIN previous \cap DOMAIN pages : Kind(q) = "page"}}
Stale == {OldFile(p) : p \in DOMAIN previous} \ {FileOf(p) : p \in DOMAIN pages}

Remove(f) ==
  /\ phase = "reconcile" /\ f \in Stale \cap DOMAIN files
  /\ files' = Restrict(files, DOMAIN files \ {f})
  /\ UNCHANGED <<wikiVars, meta, index, runVars, histVars>>

AlwaysSuccessful == TRUE                       \* Mutant of Successful
Successful == ~failed

\* The metadata with the checkpoints advanced: the last completed one, and the last
\* successful one only without page errors.
Checkpointed == [pages |-> pages, successful |-> Successful]

\* metadata.json is replaced in one step.
Save ==
  /\ phase = "reconcile" /\ Stale \cap DOMAIN files = {}
  /\ meta' = Checkpointed
  /\ phase' = "saved"
  /\ UNCHANGED <<wikiVars, files, index, mode, previous, pages, results, todo, failed, histVars>>

SeedFile(p) == FileOf(p)

\* The index links the seeds that have a record; the run is over.
WriteIndex ==
  /\ phase = "saved"
  /\ index' = {SeedFile(p) : p \in Seeds \cap DOMAIN pages}
  /\ Ended
  /\ UNCHANGED <<wikiVars, files, meta, clean, edits, faults>>

\* The directories that the run may leave in the middle of a write.
HalfWritten ==
  IF phase = "process" THEN UNION {UNION {Torn(f, Text(p)) : f \in Target(p)} : p \in todo}
  ELSE IF phase = "rewrite"
  THEN UNION {Torn(FileOf(p), Localized(p, files[FileOf(p)])) :
                p \in {q \in todo : FileOf(q) \in DOMAIN files /\ Open(files[FileOf(q)]) # {}}}
  ELSE {}

\* The run returns an error or is killed, maybe in the middle of a write.
Abort ==
  /\ phase \notin {"idle", "clear"}
  /\ Fault
  /\ files' \in {files} \cup HalfWritten
  /\ clean' = (clean /\ phase \in {"crawl", "saved"})
  /\ index' \in {index} \cup (IF phase = "saved" THEN {{}} ELSE {})
  /\ Ended
  /\ UNCHANGED <<wikiVars, meta, edits>>

-----------------------------------------------------------------------------
WikiStep == \E p \in Pages : Edit(p) \/ Toggle(p) \/ Purge(p) \/ Rearrange(p)

FaultStep ==
  \/ \E f \in Files : LoseFile(f)
  \/ ClearFails \/ Abort
  \/ \E p \in Pages : ClassifyFails(p) \/ FetchPartly(p) \/ FetchFails(p) \/ WriteFails(p)

\* What a run does when nothing fails.
RunStep ==
  \/ Clear \/ Traversed \/ Prune \/ Rewritten \/ Save \/ WriteIndex
  \/ \E p \in Pages :
       \/ Classify(p) \/ Fetch(p)
       \/ PassDeleted(p) \/ PassError(p) \/ Reuse(p) \/ Render(p)
       \/ Rewrite(p) \/ RewriteFails(p)
  \/ \E f \in Files : Remove(f)

StartStep == \E m \in Modes : Start(m)

Next == WikiStep \/ FaultStep \/ RunStep \/ StartStep \/ BootstrapFails

Spec == Init /\ [][Next]_vars

\* A run goes on unless it fails, and runs, of whatever mode, are started again
\* and again, as long as their seeds are found.
Fairness == WF_vars(RunStep) /\ WF_vars(StartStep)

FairSpec == Spec /\ Fairness
-----------------------------------------------------------------------------
(* What a run promises.  Most of it is about the moment when metadata.json *)
(* has just been saved: the files, the records and the traversal results   *)
(* can then be compared.                                                   *)

Saved == phase = "saved"

Content(c) ==
  /\ c.version \in Nat
  /\ c.links \subseteq Pages /\ DOMAIN c.local \subseteq c.links
  /\ \A q \in DOMAIN c.local : c.local[q] \in Files

Recorded(f) ==
  /\ DOMAIN f \subseteq Pages
  /\ \A p \in DOMAIN f :
       /\ f[p].version \in 1..Len(Revisions[p]) /\ f[p].out \subseteq Pages
       /\ Content(f[p].stored)

\* Every variable has its type.
TypeOK ==
  /\ \A p \in Pages : version[p] \in 1..Len(Revisions[p])
  /\ live \in [Pages -> BOOLEAN] /\ removed \subseteq Seeds
  /\ \A p \in Pages : children[p] \in Children[p]
  /\ DOMAIN files \subseteq Files /\ \A f \in DOMAIN files : Content(files[f])
  /\ index \subseteq Files /\ Recorded(meta.pages) /\ meta.successful \in BOOLEAN
  /\ phase \in {"idle", "clear", "crawl", "process", "rewrite", "reconcile", "saved"}
  /\ mode \in Modes \cup {"none"}
  /\ Recorded(previous) /\ Recorded(pages)
  /\ DOMAIN results \subseteq Pages
  /\ \A p \in DOMAIN results :
       /\ Kind(p) \in {"page", "reused", "deleted", "error", "dirty"}
       /\ results[p].version \in Nat /\ results[p].out \subseteq Pages
  /\ todo \subseteq Pages /\ failed \in BOOLEAN
  /\ clean \in BOOLEAN /\ seen \in [Pages -> SUBSET Nat]
  /\ edits \in Nat /\ faults \in Nat /\ edits + faults <= MaxEvents

\* When the records are saved, each of them has its file: no run deletes, or
\* fails to restore, the file of a page that it keeps.
EveryRecordHasFile == Saved => \A p \in DOMAIN pages : FileOf(p) \in DOMAIN files

\* Nothing else is left, the old file of a renamed page and those of deleted or
\* unreachable pages included, unless a run was cut off or a write failed since
\* the directory was last cleared.
NoStrayFiles == Saved /\ clean => DOMAIN files \subseteq {FileOf(p) : p \in DOMAIN pages}

\* A record never runs ahead of its file, at any time, also when runs are killed:
\* otherwise updates runs would take an outdated file for clean for ever.
RecordsNeverAhead ==
  \A p \in DOMAIN meta.pages :
    LET f == File(p, meta.pages[p].version)
    IN  f \in DOMAIN files /\ files[f].version # Cut
          => files[f].version >= meta.pages[p].version

\* The successful checkpoint certifies that every record is of a version that the page
\* had, being live, at some moment of the run (the current one, if nobody touched it
\* meanwhile), and that its file and its stored Markdown render this version and no
\* other.  A text that was cut off may be certified too: updates runs only look whether
\* a file is there, and make what is left of it the stored Markdown.  But this takes a
\* write that was cut off since the directory was last cleared.
SuccessIsFresh ==
  Saved /\ meta.successful =>
    \A p \in DOMAIN pages :
      /\ pages[p].version \in seen[p] \ {Gone}
      /\ \A c \in {files[FileOf(p)], pages[p].stored} :
           c.version = pages[p].version \/ (c.version = Cut /\ ~clean)

\* The pages that this run found deleted.
FoundDeleted == {q \in DOMAIN results : results[q] = Deleted}

\* A page that could not be fetched keeps its record: its version, and its links to all
\* pages that were not found deleted.
ErrorKeepsRecord ==
  Saved => \A p \in DOMAIN previous \cap DOMAIN results :
             Kind(p) = "error" =>
               /\ p \in DOMAIN pages /\ pages[p].version = previous[p].version
               /\ pages[p].out \cup FoundDeleted = previous[p].out \cup FoundDeleted

\* The stored links of all surviving pages are free of the pages that this run found
\* deleted, so that no later run finds these again.
DeletedPruned == Saved => \A p \in DOMAIN pages : pages[p].out \cap FoundDeleted = {}

\* After a successful run that max_depth did not cut off, the stored link graph
\* is closed: the seeds that exist and the targets of all stored links have
\* records.
GraphClosed ==
  Saved /\ meta.successful =>
    /\ \A p \in Seeds : p \in DOMAIN pages \/ results[p] = Deleted
    /\ \A p \in DOMAIN pages : pages[p].out \subseteq DOMAIN pages

\* A link to a page of the crawl is local in every page file, also in the files
\* of clean pages whose targets were crawled only now.
LinksLocal ==
  Saved => \A p \in DOMAIN pages : Open(files[FileOf(p)]) = {}

\* A successful full run leaves exactly the crawl's files, complete and with
\* live local links, whatever earlier runs, kills or losses left.
FullRunExact ==
  Saved /\ mode = "full" /\ meta.successful =>
    /\ DOMAIN files = {FileOf(p) : p \in DOMAIN pages}
    /\ \A p \in DOMAIN pages :
         LET c == files[FileOf(p)]
         IN  /\ c.version = pages[p].version
             /\ c.local = [q \in Links(p, c.version) \cap DOMAIN pages |-> FileOf(q)]

\* Once the wiki and the faults come to rest, and unless a seed was removed for good,
\* further runs bring every record to the page's current version, drop the pages that
\* are gone, and find again the pages that were lost because the only page that leads to
\* them could not be fetched.
Fresh ==
  /\ \A p \in Seeds : live[p] => p \in DOMAIN meta.pages
  /\ \A p \in DOMAIN meta.pages :
       /\ live[p] /\ meta.pages[p].version = version[p]
       /\ meta.pages[p].out \subseteq DOMAIN meta.pages
Converges == <>[](phase = "idle" /\ SeedsResolve => Fresh)

\* Sooner or later the record of a page that was removed is dropped.
RemovalsLand == <>[](phase = "idle" => removed \cap DOMAIN meta.pages = {})

\* A page of this run could not be fetched or written.
Bad == failed \/ \E p \in DOMAIN results : Kind(p) = "error"

\* Nobody has edited, removed or restored a page since the run was started.
Calm == \A p \in Pages : seen[p] = {State(p)}

\* What a run has left to do, most significant first: phases, pages or files of the
\* phase, dirty pages.
PhasesLeft ==
  [clear |-> 6, crawl |-> 5, process |-> 4, rewrite |-> 3, reconcile |-> 2, saved |-> 1,
   idle |-> 0][phase]
PhaseLeft ==
  Cardinality(IF phase = "crawl" THEN Pages \ DOMAIN results
              ELSE IF phase = "reconcile" THEN Stale \cap DOMAIN files
              ELSE todo)
DirtyLeft == Cardinality({p \in DOMAIN results : Kind(p) = "dirty"})
Left == <<PhasesLeft, PhaseLeft, DirtyLeft>>

\* What Converges rests on.  Only a fault of the run itself, and nothing that earlier
\* runs, kills or losses left in the directory, makes a run go wrong or stops it before
\* it has saved its metadata; every step of a run, failed or not, brings it nearer to its
\* end, whatever people do in the wiki meanwhile; and if nothing goes wrong
\* while nobody touches the wiki, its metadata is certified and current: one such run
\* repairs everything.
RunsSucceed ==
  /\ [][~Bad /\ faults' = faults
           => ~Bad' /\ (phase' = "idle" => phase \in {"idle", "saved"})]_vars
  /\ [][phase # "idle" => IF WikiStep THEN Left' = Left ELSE Smaller(Left', Left)]_vars
  /\ [](Saved /\ ~Bad /\ Calm => meta.successful /\ Fresh)

\* Every local link of a recorded page leads to a file.
LocalLinksResolve ==
  Saved => \A p \in DOMAIN pages :
             LET c == files[FileOf(p)]
             IN  \A q \in DOMAIN c.local : c.local[q] \in DOMAIN files

\* The metadata as its readers see it between runs: the recorded versions.
Stage    == IF phase = "idle" THEN "idle" ELSE IF phase = "saved" THEN "done" ELSE "open"
Mirrored == [p \in DOMAIN meta.pages |-> meta.pages[p].version]

M == INSTANCE Mirror WITH stage <- Stage, kept <- Mirrored, certified <- meta.successful

\* The pipeline implements Mirror: whatever happens in a run takes effect in
\* metadata.json at once or not at all, and every version recorded there is one that the
\* page had during the run, or had before if the run is not successful.
MirrorSpec == M!Spec
=============================================================================
