--------------------------- MODULE PipelineProofs ---------------------------
(***************************************************************************)
(* Theorems about successive runs over one output directory, for every     *)
(* wiki, all seeds, and any number of edits and faults.                    *)
(***************************************************************************)
EXTENDS Pipeline, FiniteSetTheorems, TLAPS

-----------------------------------------------------------------------------
(* The inductive invariant.                                                *)

\* What the types leave open: contents, records and results are records of their
\* fields.
Shaped(c) ==
  /\ c = [version |-> c.version, links |-> c.links, local |-> c.local]
  /\ c.local = [q \in DOMAIN c.local |-> c.local[q]]

Records(f) ==
  \A p \in DOMAIN f :
    f[p] = Record(f[p].version, f[p].out, f[p].stored) /\ Shaped(f[p].stored)

\* What the variables of a run hold, phase by phase.
Course ==
  /\ phase \in {"idle", "clear"} => results = Empty
  /\ phase \in {"idle", "clear", "crawl"} => todo = {} /\ ~failed
  /\ phase = "clear" => previous = Empty /\ mode = "full"
  /\ phase \in {"clear", "crawl"} => pages = previous
  /\ phase \notin {"idle", "clear", "saved"} => previous = meta.pages
  /\ phase # "idle" => mode \in {"full", "updates"}
  /\ phase # "idle" /\ mode = "full" => previous = Empty
  /\ phase = "process" => todo \subseteq DOMAIN results
  /\ phase = "rewrite" => todo \subseteq DOMAIN pages
  /\ phase = "saved" => meta = Checkpointed

\* Every result is what the wiki was at some moment of the run.
Truth(p) ==
  /\ Kind(p) = "deleted" => results[p] = Deleted /\ Gone \in seen[p]
  /\ Kind(p) = "dirty" => results[p] = Dirty
  /\ Kind(p) = "reused" => p \in DOMAIN previous /\ results[p].version = previous[p].version
  /\ mode = "full" => Kind(p) \notin {"reused", "dirty"}
  /\ Kind(p) = "page" =>
       /\ results[p].version <= version[p]
       /\ p \in DOMAIN previous => previous[p].version <= results[p].version
  /\ Good(p) => results[p].version \in seen[p] \ {Gone}

Truthful == \A p \in DOMAIN results : Truth(p)

\* The states seen in a run include the current one, and none is older than what the
\* run loaded.
Watched ==
  /\ phase # "idle" => \A p \in Pages : State(p) \in seen[p]
  /\ \A p \in DOMAIN previous : \A v \in seen[p] : v = Gone \/ previous[p].version <= v

\* A record has the version that was loaded or the one that was found.
Sourced ==
  \A p \in DOMAIN pages :
    \/ p \in DOMAIN previous /\ pages[p].version = previous[p].version
    \/ p \in DOMAIN results /\ Good(p) /\ pages[p].version = results[p].version

\* After the traversal no page is left dirty, and what good pages lead to is found.
Complete ==
  phase \notin {"idle", "clear", "crawl"} =>
    /\ Seeds \subseteq DOMAIN results
    /\ \A p \in DOMAIN results :
         /\ Kind(p) # "dirty"
         /\ Good(p) => \A q \in results[p].out : q \in DOMAIN results /\ results[q] # Deleted

\* A text is complete, and of version v or later, or cut off.
Late(c, v) == c.version = Cut \/ c.version >= v

\* A record's Markdown is not older than the record, and neither is newer than the page.
Dated(f) ==
  \A p \in DOMAIN f :
    /\ Late(f[p].stored, f[p].version)
    /\ f[p].version <= version[p] /\ f[p].stored.version <= version[p]

\* The files g are not behind the records f.
NotAhead(g, f) ==
  \A p \in DOMAIN f :
    File(p, f[p].version) \in DOMAIN g => Late(g[File(p, f[p].version)], f[p].version)

Past(g) == \A n \in DOMAIN g : g[n].version <= version[n[1]]

\* The records and the files of the pages found clean are of the same version.
ReuseExact ==
  phase \in {"crawl", "process"} =>
    \A p \in DOMAIN results : Kind(p) = "reused" =>
      /\ previous[p].stored.version \in {previous[p].version, Cut}
      /\ OldFile(p) \in DOMAIN files =>
           files[OldFile(p)].version \in {previous[p].version, Cut}

Versions ==
  /\ Dated(meta.pages) /\ Dated(previous) /\ Dated(pages)
  /\ NotAhead(files, meta.pages) /\ NotAhead(files, pages) /\ Past(files)
  /\ ReuseExact

\* An erroneous page keeps its record.
Kept(p) ==
  Kind(p) = "error" =>
    /\ p \in DOMAIN pages
    /\ pages[p].version = previous[p].version /\ pages[p].out = previous[p].out

\* The record and the file of a good page are of the version that was found.
Done(p) ==
  /\ p \in DOMAIN pages
  /\ pages[p].version = results[p].version /\ pages[p].out = results[p].out
  /\ pages[p].stored.version \in {pages[p].version, Cut}
  /\ FileOf(p) \in DOMAIN files
  /\ files[FileOf(p)].version \in {pages[p].version, Cut}

Processed == DOMAIN results \ todo

Processing ==
  phase = "process" =>
    /\ DOMAIN previous \subseteq DOMAIN pages
    /\ \A p \in DOMAIN pages \ Processed : p \in DOMAIN previous /\ pages[p] = previous[p]
    /\ \A p \in DOMAIN previous \cap DOMAIN results : Kept(p)
    /\ ~failed =>
         \A p \in Processed :
           /\ Kind(p) # "error"
           /\ Good(p) => Done(p) /\ (mode = "full" => files[FileOf(p)] = Rendered(p, pages[p].version))

\* A page file with all its local links, and no others.
Exact(p) ==
  LET c == files[FileOf(p)]
  IN  /\ c.version = pages[p].version
      /\ c.local = [q \in Links(p, c.version) \cap DOMAIN pages |-> FileOf(q)]

InEnd == phase \in {"rewrite", "reconcile", "saved"}

\* What is asked of a page of a run without errors.
Fine(p) ==
  /\ Kind(p) # "error"
  /\ Good(p) =>
       /\ Done(p)
       /\ mode = "full" =>
            IF phase = "rewrite" /\ p \in todo
            THEN files[FileOf(p)] = Rendered(p, pages[p].version)
            ELSE Exact(p)

Finishing ==
  InEnd =>
    /\ \A p \in DOMAIN pages : p \in DOMAIN results /\ Survives(p)
    /\ \A p \in DOMAIN previous \cap DOMAIN results : Kept(p)
    /\ ~failed => \A p \in DOMAIN results : Fine(p)

\* The pass over the links leaves no open link, and every file in place.
Linked ==
  phase \in {"rewrite", "reconcile", "saved"} =>
    \A p \in DOMAIN pages : ~(phase = "rewrite" /\ p \in todo) =>
      FileOf(p) \in DOMAIN files /\ Open(files[FileOf(p)]) = {}

\* Where the files of a clean directory come from.
FilesOf(f) == {File(p, f[p].version) : p \in DOMAIN f}

Origin ==
  /\ phase \in {"idle", "clear", "crawl"} /\ clean => DOMAIN files \subseteq FilesOf(meta.pages)
  /\ phase = "process" /\ clean =>
       DOMAIN files \subseteq
         FilesOf(previous)
           \cup {FileOf(p) : p \in {q \in Processed \cap DOMAIN pages : Survives(q)}}
  /\ phase \in {"rewrite", "reconcile"} /\ clean =>
       DOMAIN files \subseteq FilesOf(previous) \cup FilesOf(pages)
  /\ phase = "saved" /\ clean => DOMAIN files \subseteq FilesOf(pages)
  /\ phase \notin {"idle", "clear"} /\ mode = "full" /\ ~failed => clean

\* In a directory where no write was cut off all texts are complete, those of the
\* records included.
Whole(f) == \A p \in DOMAIN f : f[p].stored.version # Cut

Untorn ==
  clean => /\ \A n \in DOMAIN files : files[n].version # Cut
           /\ Whole(meta.pages) /\ Whole(previous) /\ Whole(pages)

\* Every step that changes anything.
Moves == WikiStep \/ FaultStep \/ RunStep \/ StartStep

-----------------------------------------------------------------------------
(* Constants, contents and records. *)

LEMMA Entries ==
  ASSUME NEW T, NEW s \in Seq(T)
  PROVE  Len(s) \in Nat /\ \A i \in 1..Len(s) : s[i] \in T
OBVIOUS

LEMMA Wikis ==
  ASSUME NEW p \in Pages
  PROVE  /\ Len(Revisions[p]) \in Nat /\ Len(Revisions[p]) > 0
         /\ \A v \in 1..Len(Revisions[p]) :
              /\ Links(p, v) \subseteq Pages
              /\ File(p, v) \in Files
         /\ \A s \in Children[p] : s \subseteq Pages
<1>1. Revisions[p] \in Seq([title : Titles, links : SUBSET Pages]) /\ Len(Revisions[p]) > 0
  BY PipelineAssumption
<1>2. Children[p] \subseteq SUBSET Pages
  BY PipelineAssumption
<1>3. \A v \in 1..Len(Revisions[p]) : Revisions[p][v] \in [title : Titles, links : SUBSET Pages]
  BY <1>1, Entries
<1>4. \A v \in 1..Len(Revisions[p]) : Revisions[p][v].title \in Titles /\ Links(p, v) \subseteq Pages
  BY <1>3 DEF Links
<1>5. \A v \in 1..Len(Revisions[p]) : File(p, v) \in Files
  BY <1>4 DEF File, Files
<1>6. Len(Revisions[p]) \in Nat
  BY <1>1, Entries
<1> QED
  BY <1>1, <1>2, <1>4, <1>5, <1>6

LEMMA Bounds == MaxEvents \in Nat /\ Seeds \subseteq Pages
BY PipelineAssumption

LEMMA ModesAre == Modes \subseteq {"full", "updates"}
BY PipelineAssumption

Counted == edits \in Nat /\ faults \in Nat /\ edits + faults <= MaxEvents

LEMMA Counters ==
  ASSUME Counted
  PROVE  /\ Bounded /\ edits' = edits + 1 /\ UNCHANGED faults => Counted'
         /\ Fault /\ UNCHANGED edits => Counted'
         /\ UNCHANGED <<edits, faults>> => Counted'
BY Bounds DEF Counted, Bounded, Fault

\* Files of different pages are different.
LEMMA FilesDiffer ==
  ASSUME NEW p, NEW q, NEW v, NEW w, File(p, v) = File(q, w)
  PROVE  p = q
BY DEF File

LEMMA FileKey ==
  ASSUME NEW p, NEW v
  PROVE  File(p, v)[1] = p
BY DEF File

Solid(c) == Content(c) /\ Shaped(c)
SolidFiles(f) == DOMAIN f \subseteq Files /\ \A n \in DOMAIN f : Solid(f[n])
SolidRecords(f) == Recorded(f) /\ Records(f)

LEMMA SolidText ==
  ASSUME NEW p \in Pages, NEW v \in 1..Len(Revisions[p])
  PROVE  Solid(Rendered(p, v))
<1>1. Links(p, v) \subseteq Pages /\ v \in Nat
  BY Wikis
<1> QED
  BY <1>1 DEF Solid, Content, Shaped, Rendered, Empty

\* What is left of a text whose write was cut off.
LEMMA SolidPrefix ==
  ASSUME NEW c, Solid(c), NEW t \in Prefixes(c)
  PROVE  Solid(t) /\ t.version = Cut
<1>1. PICK s \in SUBSET c.links :
        t = [version |-> Cut, links |-> s, local |-> Restrict(c.local, s \cap DOMAIN c.local)]
  BY DEF Prefixes
<1> DEFINE l == [q \in s \cap DOMAIN c.local |-> c.local[q]]
<1>2. t = [version |-> Cut, links |-> s, local |-> l]
  BY <1>1 DEF Restrict
<1>3. DOMAIN l \subseteq s /\ s \subseteq Pages /\ \A q \in DOMAIN l : l[q] \in Files
  BY DEF Solid, Content
<1>4. l = [q \in DOMAIN l |-> l[q]]
  OBVIOUS
<1> HIDE DEF l
<1> QED
  BY <1>2, <1>3, <1>4 DEF Solid, Content, Shaped, Cut

LEMMA SolidEmpty == SolidFiles(Empty) /\ SolidRecords(Empty) /\ DOMAIN Empty = {}
BY DEF SolidFiles, SolidRecords, Recorded, Records, Empty

LEMMA SolidPut ==
  ASSUME NEW f, SolidFiles(f), NEW n \in Files, NEW c, Solid(c)
  PROVE  SolidFiles(Put(f, n, c))
BY DEF SolidFiles, Put

LEMMA SolidRestrict ==
  ASSUME NEW f, NEW S, S \subseteq DOMAIN f
  PROVE  /\ SolidFiles(f) => SolidFiles(Restrict(f, S))
         /\ SolidRecords(f) => SolidRecords(Restrict(f, S))
BY DEF SolidFiles, SolidRecords, Recorded, Records, Restrict

LEMMA SolidRecord ==
  ASSUME NEW f, SolidRecords(f), NEW p \in Pages, NEW v \in 1..Len(Revisions[p]),
         NEW out \in SUBSET Pages, NEW c, Solid(c)
  PROVE  SolidRecords(Put(f, p, Record(v, out, c)))
<1> DEFINE g == Put(f, p, Record(v, out, c))
<1>1. /\ Record(v, out, c).version = v /\ Record(v, out, c).out = out
      /\ Record(v, out, c).stored = c
  BY DEF Record
<1>2. /\ DOMAIN g = DOMAIN f \cup {p} /\ g[p] = Record(v, out, c)
      /\ \A q \in DOMAIN f : q # p => g[q] = f[q]
  BY DEF Put
<1> HIDE DEF g
<1>3. Recorded(g)
  BY <1>1, <1>2 DEF SolidRecords, Recorded, Solid
<1>4. Records(g)
  <2>1. Records(f)
    BY DEF SolidRecords
  <2> QED
    BY <1>1, <1>2, <2>1 DEF Records, Solid
<1> QED
  BY <1>3, <1>4 DEF SolidRecords, g

\* A record of which a field is replaced.
LEMMA Replaced ==
  ASSUME NEW r, r = Record(r.version, r.out, r.stored), NEW x
  PROVE  /\ [r EXCEPT !.out = x] = Record(r.version, x, r.stored)
         /\ [r EXCEPT !.stored = x] = Record(r.version, r.out, x)
<1>1. DOMAIN r = {"version", "out", "stored"}
  BY DEF Record
<1> QED
  BY <1>1 DEF Record

-----------------------------------------------------------------------------
(* Types. *)

WikiTyped ==
  /\ DOMAIN version = Pages /\ \A p \in Pages : version[p] \in 1..Len(Revisions[p])
  /\ live \in [Pages -> BOOLEAN] /\ removed \subseteq Seeds
  /\ DOMAIN children = Pages /\ \A p \in Pages : children[p] \in Children[p]

DiskTyped ==
  /\ SolidFiles(files) /\ index \subseteq Files
  /\ SolidRecords(meta.pages) /\ meta.successful \in BOOLEAN

SolidResult(p, r) ==
  /\ r = Result(r.kind, r.version, r.out)
  /\ r.kind \in {"page", "reused", "deleted", "error", "dirty"}
  /\ r.version \in Nat /\ r.out \subseteq Pages
  /\ r.kind = "page" => r.version \in 1..Len(Revisions[p])

ResultsTyped ==
  /\ DOMAIN results \subseteq Pages
  /\ \A p \in DOMAIN results : SolidResult(p, results[p])

RunTyped ==
  /\ phase \in {"idle", "clear", "crawl", "process", "rewrite", "reconcile", "saved"}
  /\ mode \in Modes \cup {"none"}
  /\ SolidRecords(previous) /\ SolidRecords(pages)
  /\ ResultsTyped
  /\ todo \subseteq Pages /\ failed \in BOOLEAN

CountTyped ==
  clean \in BOOLEAN /\ seen \in [Pages -> SUBSET Nat] /\ Counted

Typed == WikiTyped /\ DiskTyped /\ RunTyped /\ CountTyped

LEMMA TypedIs == Typed => TypeOK
BY DEF Typed, WikiTyped, DiskTyped, RunTyped, ResultsTyped, SolidResult, CountTyped, SolidFiles,
       SolidRecords, Solid, TypeOK, Kind, Counted

LEMMA TypeInit == Init => Typed
<1> SUFFICES ASSUME Init
             PROVE  Typed
  OBVIOUS
<1>1. WikiTyped
  BY Wikis DEF Init, WikiTyped
<1>2. DiskTyped
  BY SolidEmpty DEF Init, DiskTyped, NoMeta
<1>3. RunTyped
  BY SolidEmpty DEF Init, RunTyped, ResultsTyped
<1>4. CountTyped
  BY Bounds DEF Init, NoState, CountTyped, Counted
<1> QED
  BY <1>1, <1>2, <1>3, <1>4 DEF Typed

\* Steps that change none of the four parts need not be looked at again.
LEMMA TypeFrame ==
  ASSUME Typed
  PROVE  /\ UNCHANGED wikiVars => WikiTyped'
         /\ UNCHANGED diskVars => DiskTyped'
         /\ UNCHANGED runVars => RunTyped'
         /\ UNCHANGED histVars => CountTyped'
<1>1. UNCHANGED wikiVars => WikiTyped'
  BY DEF Typed, WikiTyped, wikiVars
<1>2. UNCHANGED diskVars => DiskTyped'
  BY DEF Typed, DiskTyped, diskVars
<1>3. UNCHANGED runVars => RunTyped'
  BY DEF Typed, RunTyped, ResultsTyped, runVars
<1>4. UNCHANGED histVars => CountTyped'
  BY DEF Typed, CountTyped, Counted, histVars
<1> QED
  BY <1>1, <1>2, <1>3, <1>4

LEMMA EndedTyped == Ended => RunTyped' /\ seen' \in [Pages -> SUBSET Nat]
BY SolidEmpty DEF Ended, NoState, RunTyped, ResultsTyped

\* The files that the crawler writes.
LEMMA Names ==
  ASSUME Typed
  PROVE  /\ \A p \in DOMAIN pages : p \in Pages /\ FileOf(p) \in Files
         /\ \A p \in DOMAIN previous : p \in Pages /\ OldFile(p) \in Files
         /\ \A p \in DOMAIN results : Kind(p) = "page" => File(p, results[p].version) \in Files
BY Wikis
DEF Typed, RunTyped, SolidRecords, Recorded, FileOf, OldFile, ResultsTyped, SolidResult, Kind

\* A directory with a file that was cut off.
Broken(g) == \E n \in Files : \E t : Solid(t) /\ t.version = Cut /\ g = Put(files, n, t)

LEMMA Torns ==
  ASSUME NEW n \in Files, NEW c, Solid(c), NEW g \in Torn(n, c)
  PROVE  Broken(g)
BY SolidPrefix DEF Torn, Broken

LEMMA BrokenSolid ==
  ASSUME Typed, NEW g, Broken(g)
  PROVE  SolidFiles(g)
BY SolidPut DEF Broken, Typed, DiskTyped

\* What processing a page writes.
LEMMA Targets ==
  ASSUME Typed, Truthful, NEW p \in DOMAIN results, NEW n \in Target(p)
  PROVE  n \in Files /\ n[1] = p /\ Solid(Text(p))
<1>1. CASE Kind(p) = "page"
  <2>1. p \in Pages /\ results[p].version \in 1..Len(Revisions[p])
    BY <1>1 DEF Typed, RunTyped, ResultsTyped, SolidResult, Kind
  <2> QED
    BY <1>1, <2>1, Names, SolidText, FileKey DEF Target, Text
<1>2. CASE Kind(p) = "reused"
  <2>1. p \in DOMAIN previous
    BY <1>2 DEF Truthful, Truth
  <2>2. Solid(previous[p].stored)
    BY <2>1 DEF Typed, RunTyped, SolidRecords, Recorded, Records, Solid
  <2> QED
    BY <1>2, <2>1, <2>2, Names, FileKey DEF Target, Text, OldFile
<1> QED
  BY <1>1, <1>2 DEF Target

LEMMA PrunedResult ==
  ASSUME NEW r, r = Result(r.kind, r.version, r.out)
  PROVE  Pruned(r) = Result(r.kind, r.version,
                            {q \in r.out : ~(q \in DOMAIN results /\ results[q] = Deleted)})
<1>1. DOMAIN r = {"kind", "version", "out"}
  BY DEF Result
<1> QED
  BY <1>1 DEF Pruned, Result

LEMMA ResultTyped ==
  ASSUME Typed, NEW p \in Pages, NEW r, SetResult(p, r), SolidResult(p, r), CountTyped'
  PROVE  Typed'
<1>1. ResultsTyped'
  BY DEF SetResult, Put, Typed, RunTyped, ResultsTyped
<1>2. RunTyped'
  BY <1>1 DEF SetResult, Typed, RunTyped
<1> QED
  BY <1>2, TypeFrame DEF SetResult, Typed

LEMMA CrawlTyped ==
  ASSUME Typed, Course, NEW p \in Pages,
         Classify(p) \/ ClassifyFails(p) \/ Fetch(p) \/ FetchPartly(p) \/ FetchFails(p)
  PROVE  Typed'
<1>1. /\ SolidResult(p, Dirty) /\ SolidResult(p, Deleted) /\ SolidResult(p, Error)
  BY DEF SolidResult, Dirty, Deleted, Error, Result
<1>2. CountTyped'
  BY Counters
  DEF Classify, ClassifyFails, Fetch, FetchPartly, FetchFails, SetResult, Typed, CountTyped
<1>3. CASE Classify(p)
  <2>1. ASSUME p \in DOMAIN previous
        PROVE  SolidResult(p, Result("reused", previous[p].version, previous[p].out))
    <3>1. previous[p].version \in Nat /\ previous[p].out \subseteq Pages
      BY <2>1, Wikis DEF Typed, RunTyped, SolidRecords, Recorded
    <3> QED
      BY <3>1 DEF SolidResult, Result
  <2> QED
    BY <1>1, <1>2, <1>3, <2>1, ResultTyped DEF Classify, IsDirty
<1>4. CASE ClassifyFails(p) \/ FetchFails(p)
  BY <1>1, <1>2, <1>4, ResultTyped DEF ClassifyFails, FetchFails
<1>5. ASSUME NEW s \in SUBSET Pages
      PROVE  SolidResult(p, Result("page", version[p], Links(p, version[p]) \cup s))
  <2>1. /\ version[p] \in 1..Len(Revisions[p]) /\ version[p] \in Nat
        /\ Links(p, version[p]) \subseteq Pages
    BY Wikis DEF Typed, WikiTyped
  <2> QED
    BY <2>1 DEF SolidResult, Result
<1>6. CASE Fetch(p)
  <2>1. children[p] \subseteq Pages
    BY Wikis DEF Typed, WikiTyped
  <2> QED
    BY <1>1, <1>2, <1>5, <1>6, <2>1, ResultTyped DEF Fetch
<1>7. CASE FetchPartly(p)
  <2>1. Links(p, version[p]) \cup {} = Links(p, version[p])
    OBVIOUS
  <2> QED
    BY <1>2, <1>5, <1>7, <2>1, ResultTyped DEF FetchPartly
<1> QED
  BY <1>3, <1>4, <1>6, <1>7

LEMMA ProcessTyped ==
  ASSUME Typed, Course, Truthful, NEW p \in Pages,
         PassDeleted(p) \/ PassError(p) \/ Reuse(p) \/ Render(p) \/ WriteFails(p)
  PROVE  Typed'
<1> USE DEF Typed
<1>1. /\ UNCHANGED <<wikiVars, meta, index, phase, mode, previous, results>>
      /\ todo' \subseteq Pages /\ p \in DOMAIN results
  BY DEF PassDeleted, PassError, Reuse, Render, WriteFails, NextPage, Course, RunTyped
<1>2. CountTyped'
  BY Counters
  DEF PassDeleted, PassError, Reuse, Render, WriteFails, NextPage, CountTyped
<1>3. failed' \in BOOLEAN
  BY DEF PassDeleted, PassError, Reuse, Render, WriteFails, RunTyped
<1>4. SolidFiles(files') /\ SolidRecords(pages') => Typed'
  BY <1>1, <1>2, <1>3, TypeFrame DEF DiskTyped, RunTyped, ResultsTyped
<1>5. CASE PassDeleted(p) \/ PassError(p)
  BY <1>4, <1>5 DEF PassDeleted, PassError, DiskTyped, RunTyped
<1>6. CASE Reuse(p)
  <2>1. p \in DOMAIN previous
    BY <1>1, <1>6 DEF Reuse, Truthful, Truth
  <2>2. /\ previous[p] = Record(previous[p].version, previous[p].out, previous[p].stored)
        /\ previous[p].version \in 1..Len(Revisions[p]) /\ Solid(previous[p].stored)
    BY <2>1 DEF RunTyped, SolidRecords, Recorded, Records, Solid
  <2>3. SolidFiles(files')
    BY <1>6, <2>1, <2>2, Names, SolidPut DEF Reuse, SelfHealed, DiskTyped
  <2>4. results[p].out \subseteq Pages
    BY <1>1 DEF RunTyped, ResultsTyped, SolidResult
  <2>5. [previous[p] EXCEPT !.out = results[p].out]
          = Record(previous[p].version, results[p].out, previous[p].stored)
    BY <2>2, Replaced
  <2>6. SolidRecords(pages')
    BY <1>6, <2>2, <2>4, <2>5, SolidRecord DEF Reuse, RunTyped
  <2> QED
    BY <1>4, <2>3, <2>6
<1>7. CASE Render(p)
  <2>1. /\ results[p].version \in 1..Len(Revisions[p]) /\ results[p].version \in Nat
        /\ results[p].out \in SUBSET Pages
    BY <1>1, <1>7 DEF Render, RunTyped, ResultsTyped, SolidResult, Kind
  <2>2. Solid(Rendered(p, results[p].version)) /\ File(p, results[p].version) \in Files
    BY <2>1, SolidText, Wikis
  <2>3. SolidFiles(files')
    BY <1>7, <2>2, SolidPut DEF Render, Written, DiskTyped
  <2>4. SolidRecords(pages')
    BY <1>7, <2>1, <2>2, SolidRecord DEF Render, RunTyped
  <2> QED
    BY <1>4, <2>3, <2>4
<1>8. CASE WriteFails(p)
  <2>1. files' = files \/ Broken(files')
    BY <1>1, <1>8, Targets, Torns DEF WriteFails
  <2>2. SolidFiles(files')
    BY <2>1, BrokenSolid DEF DiskTyped
  <2> QED
    BY <1>4, <1>8, <2>2 DEF WriteFails, RunTyped
<1> QED
  BY <1>5, <1>6, <1>7, <1>8

\* What the pass over the links makes of the text of page p.
LEMMA LocalizedText ==
  ASSUME Typed, NEW p \in Pages, NEW c, Solid(c)
  PROVE  /\ Solid(Localized(p, c)) /\ Localized(p, c).version = c.version
         /\ Localized(p, c).links = c.links
         /\ DOMAIN Localized(p, c).local = Open(c) \cup DOMAIN c.local
         /\ Open(c) \subseteq DOMAIN pages
         /\ \A q \in Open(c) : Localized(p, c).local[q] = FileOf(q)
         /\ Open(c) = {} => Localized(p, c) = c
         /\ Open(Localized(p, c)) = {}
<1> DEFINE l == [q \in Open(c) \cup DOMAIN c.local |->
                   IF q \in Open(c) THEN FileOf(q) ELSE c.local[q]]
<1>1. Localized(p, c) = [version |-> c.version, links |-> c.links, local |-> l]
  <2>1. c = [version |-> c.version, links |-> c.links, local |-> c.local]
    BY DEF Solid, Shaped
  <2>2. ASSUME NEW v, NEW k, NEW x, NEW y
        PROVE  [[version |-> v, links |-> k, local |-> x] EXCEPT !.local = y]
                 = [version |-> v, links |-> k, local |-> y]
    OBVIOUS
  <2>3. Localized(p, c) = [c EXCEPT !.local = l]
    BY DEF Localized
  <2> HIDE DEF l
  <2> QED
    BY <2>1, <2>2, <2>3
<1>2. Open(c) \subseteq DOMAIN pages
  BY DEF Open
<1>3. /\ c.links \subseteq Pages /\ DOMAIN l \subseteq c.links
      /\ \A q \in DOMAIN l : l[q] \in Files
  BY <1>2, Names DEF Solid, Content, Open
<1>4. Solid(Localized(p, c))
  <2>1. l = [q \in DOMAIN l |-> l[q]]
    OBVIOUS
  <2> HIDE DEF l
  <2> QED
    BY <1>1, <1>3, <2>1 DEF Solid, Content, Shaped
<1>5. Open(c) = {} => l = c.local
  BY DEF Solid, Shaped
<1>6. Open(c) = {} => Localized(p, c) = c
  BY <1>1, <1>5 DEF Solid, Shaped
<1>7. Open(Localized(p, c)) = {}
  BY <1>1 DEF Open
<1> QED
  BY <1>1, <1>2, <1>4, <1>6, <1>7

\* A step of that pass.
LEMMA RewriteStep ==
  ASSUME Typed, Course, NEW p \in Pages, Rewrite(p),
         NEW c, c = Localized(p, files[FileOf(p)])
  PROVE  /\ p \in DOMAIN pages /\ FileOf(p) \in DOMAIN files /\ FileOf(p) \in Files
         /\ Solid(files[FileOf(p)]) /\ Solid(c) /\ Open(c) = {}
         /\ \/ Open(files[FileOf(p)]) = {} /\ UNCHANGED <<files, pages>>
            \/ /\ Open(files[FileOf(p)]) # {}
               /\ files' = Put(files, FileOf(p), c)
               /\ pages' = Put(pages, p, Record(pages[p].version, pages[p].out, c))
<1>1. p \in DOMAIN pages /\ FileOf(p) \in DOMAIN files /\ FileOf(p) \in Files
  BY Names DEF Rewrite, Course
<1>2. Solid(files[FileOf(p)])
  BY <1>1 DEF Typed, DiskTyped, SolidFiles
<1>3. /\ Solid(c) /\ Open(c) = {}
      /\ Open(files[FileOf(p)]) = {} => c = files[FileOf(p)]
  BY <1>2, LocalizedText
<1>4. IF c = files[FileOf(p)] THEN UNCHANGED <<files, pages>>
      ELSE files' = Put(files, FileOf(p), c) /\ pages' = [pages EXCEPT ![p].stored = c]
  BY DEF Rewrite
<1>5. [pages EXCEPT ![p].stored = c] = Put(pages, p, Record(pages[p].version, pages[p].out, c))
  <2>1. pages[p] = Record(pages[p].version, pages[p].out, pages[p].stored)
    BY <1>1 DEF Typed, RunTyped, SolidRecords, Records
  <2>2. [pages[p] EXCEPT !.stored = c] = Record(pages[p].version, pages[p].out, c)
    BY <2>1, Replaced
  <2> QED
    BY <1>1, <2>2 DEF Put
<1> QED
  BY <1>1, <1>2, <1>3, <1>4, <1>5

LEMMA RewriteTyped ==
  ASSUME Typed, Course, NEW p \in Pages, Rewrite(p)
  PROVE  Typed'
<1>1. PICK c : c = Localized(p, files[FileOf(p)])
  OBVIOUS
<1>2. /\ p \in DOMAIN pages /\ FileOf(p) \in Files /\ Solid(c)
      /\ \/ UNCHANGED <<files, pages>>
         \/ /\ files' = Put(files, FileOf(p), c)
            /\ pages' = Put(pages, p, Record(pages[p].version, pages[p].out, c))
  BY <1>1, RewriteStep
<1>3. pages[p].version \in 1..Len(Revisions[p]) /\ pages[p].out \subseteq Pages
  BY <1>2 DEF Typed, RunTyped, SolidRecords, Recorded
<1>4. DiskTyped'
  BY <1>2, SolidPut DEF Rewrite, Typed, DiskTyped
<1>5. SolidRecords(pages')
  BY <1>2, <1>3, SolidRecord DEF Typed, RunTyped
<1>6. RunTyped'
  BY <1>5 DEF Rewrite, Typed, RunTyped, ResultsTyped
<1> QED
  BY <1>4, <1>6, TypeFrame DEF Rewrite, Typed

\* What a run that is killed leaves.
LEMMA HalfWrittens ==
  ASSUME Typed, Course, Truthful, NEW g \in HalfWritten
  PROVE  Broken(g)
<1>1. CASE phase = "process"
  <2>0. PICK p \in todo : g \in UNION {Torn(n, Text(p)) : n \in Target(p)}
    BY <1>1 DEF HalfWritten
  <2>1. PICK n \in Target(p) : g \in Torn(n, Text(p))
    BY <2>0
  <2>2. p \in DOMAIN results
    BY <1>1 DEF Course
  <2> QED
    BY <2>1, <2>2, Targets, Torns
<1>2. CASE phase = "rewrite"
  <2>1. PICK p \in todo : /\ FileOf(p) \in DOMAIN files
                          /\ g \in Torn(FileOf(p), Localized(p, files[FileOf(p)]))
    BY <1>2 DEF HalfWritten
  <2>2. p \in DOMAIN pages /\ p \in Pages /\ FileOf(p) \in Files /\ Solid(files[FileOf(p)])
    BY <1>2, <2>1, Names DEF Course, Typed, DiskTyped, SolidFiles
  <2>3. Solid(Localized(p, files[FileOf(p)]))
    BY <2>2, LocalizedText
  <2> QED
    BY <2>1, <2>2, <2>3, Torns
<1> QED
  BY <1>1, <1>2 DEF HalfWritten

LEMMA TypeNext ==
  ASSUME Typed, Course, Truthful, Moves
  PROVE  Typed'
<1> USE DEF Typed
<1>1. CASE WikiStep
  <2>1. WikiTyped'
    <3>1. PICK p \in Pages : Edit(p) \/ Toggle(p) \/ Purge(p) \/ Rearrange(p)
      BY <1>1 DEF WikiStep
    <3>2. CASE Edit(p)
      BY <3>2, Wikis DEF Edit, WikiTyped
    <3>3. CASE Toggle(p)
      BY <3>3 DEF Toggle, WikiTyped
    <3>4. CASE Purge(p)
      BY <3>4 DEF Purge, WikiTyped
    <3>5. CASE Rearrange(p)
      BY <3>5 DEF Rearrange, WikiTyped
    <3> QED
      BY <3>1, <3>2, <3>3, <3>4, <3>5
  <2>2. CountTyped'
    <3>1. PICK p \in Pages : Edit(p) \/ Toggle(p) \/ Purge(p) \/ Rearrange(p)
      BY <1>1 DEF WikiStep
    <3>2. State(p)' \in Nat
      BY <2>1, Wikis DEF WikiTyped, State, Gone
    <3>3. seen' \in [Pages -> SUBSET Nat]
      BY <3>1, <3>2 DEF Edit, Toggle, Purge, Rearrange, Wiki, CountTyped
    <3> QED
      BY <3>1, <3>3, Counters DEF Edit, Toggle, Purge, Rearrange, Wiki, CountTyped
  <2> QED
    BY <1>1, <2>1, <2>2, TypeFrame DEF WikiStep, Edit, Toggle, Purge, Rearrange, Wiki
<1>2. ASSUME NEW m \in Modes, Start(m)
      PROVE  Typed'
  <2>1. RunTyped'
    BY <1>2, SolidEmpty DEF Start, diskVars, DiskTyped, RunTyped, ResultsTyped
  <2>2. \A p \in Pages : State(p) \in Nat
    BY Wikis DEF WikiTyped, State, Gone
  <2>3. CountTyped'
    BY <1>2, <2>2, Counters DEF Start, CountTyped
  <2> QED
    BY <1>2, <2>1, <2>3, TypeFrame DEF Start
<1>3. ASSUME NEW f \in Files, LoseFile(f) \/ Remove(f)
      PROVE  Typed'
  <2>1. DiskTyped'
    BY <1>3, SolidRestrict DEF LoseFile, Remove, DiskTyped
  <2>2. CountTyped'
    BY <1>3, Counters DEF LoseFile, Remove, histVars, CountTyped
  <2> QED
    BY <1>3, <2>1, <2>2, TypeFrame DEF LoseFile, Remove
<1>4. CASE Clear
  <2>1. DiskTyped'
    BY <1>4, SolidEmpty DEF Clear, Cleared, NoMeta, DiskTyped
  <2>2. RunTyped' /\ CountTyped'
    BY <1>4, Counters DEF Clear, RunTyped, ResultsTyped, CountTyped
  <2> QED
    BY <1>4, <2>1, <2>2, TypeFrame DEF Clear
<1>5. CASE ClearFails
  <2>1. SolidFiles(files')
    BY <1>5, SolidRestrict DEF ClearFails, DiskTyped
  <2>3. index' \subseteq Files
    BY <1>5 DEF ClearFails, DiskTyped
  <2>4. SolidRecords(meta'.pages) /\ meta'.successful \in BOOLEAN
    <3>1. SolidRecords(NoMeta.pages) /\ NoMeta.successful \in BOOLEAN
      BY SolidEmpty DEF NoMeta
    <3>2. meta' = meta \/ meta' = NoMeta
      BY <1>5 DEF ClearFails
    <3> QED
      BY <3>1, <3>2 DEF DiskTyped
  <2>2. CountTyped'
    BY <1>5, Counters, EndedTyped DEF ClearFails, CountTyped
  <2> QED
    BY <1>5, <2>1, <2>2, <2>3, <2>4, TypeFrame, EndedTyped DEF ClearFails, DiskTyped
<1>6. CASE Abort
  <2>1. files' = files \/ Broken(files')
    BY <1>6, HalfWrittens DEF Abort
  <2>2. SolidFiles(files')
    BY <2>1, BrokenSolid DEF DiskTyped
  <2>3. DiskTyped'
    BY <1>6, <2>2 DEF Abort, DiskTyped
  <2>4. CountTyped'
    BY <1>6, Counters, EndedTyped DEF Abort, CountTyped
  <2> QED
    BY <1>6, <2>3, <2>4, TypeFrame, EndedTyped DEF Abort
<1>7. CASE Traversed
  <2>1. /\ DOMAIN results' = DOMAIN results
        /\ \A p \in DOMAIN results : results'[p] = Pruned(results[p])
    BY <1>7 DEF Traversed
  <2>2. ASSUME NEW p \in DOMAIN results
        PROVE  SolidResult(p, Pruned(results[p]))
    <3> DEFINE r == results[p]
    <3>1. SolidResult(p, r)
      BY <2>2 DEF RunTyped, ResultsTyped
    <3> HIDE DEF r
    <3>2. r = Result(r.kind, r.version, r.out)
      BY <3>1 DEF SolidResult
    <3>3. Pruned(r) = Result(r.kind, r.version,
                             {q \in r.out : ~(q \in DOMAIN results /\ results[q] = Deleted)})
      BY <3>2, PrunedResult
    <3> QED
      BY <3>1, <3>3 DEF SolidResult, Result, r
  <2>3. ResultsTyped'
    BY <2>1, <2>2 DEF RunTyped, ResultsTyped
  <2>4. RunTyped'
    BY <1>7, <2>3 DEF Traversed, RunTyped, ResultsTyped
  <2> QED
    BY <1>7, <2>4, TypeFrame DEF Traversed
<1>8. CASE Prune
  <2>1. SolidRecords(pages') /\ DOMAIN pages' \subseteq Pages
    BY <1>8, SolidRestrict DEF Prune, RunTyped, SolidRecords, Recorded, Restrict
  <2>2. RunTyped'
    BY <1>8, <2>1 DEF Prune, RunTyped, ResultsTyped
  <2> QED
    BY <1>8, <2>2, TypeFrame DEF Prune
<1>9. CASE Rewritten
  BY <1>9, TypeFrame DEF Rewritten, RunTyped, ResultsTyped
<1>10. CASE Save
  <2>1. DiskTyped' /\ RunTyped'
    BY <1>10 DEF Save, Checkpointed, Successful, DiskTyped, RunTyped, ResultsTyped
  <2> QED
    BY <1>10, <2>1, TypeFrame DEF Save
<1>11. CASE WriteIndex
  <2>1. DiskTyped'
    BY <1>11, Names DEF WriteIndex, SeedFile, DiskTyped
  <2>2. CountTyped'
    BY <1>11, Counters, EndedTyped DEF WriteIndex, CountTyped
  <2> QED
    BY <1>11, <2>1, <2>2, TypeFrame, EndedTyped DEF WriteIndex
<1>12. ASSUME NEW p \in Pages, RewriteFails(p)
       PROVE  Typed'
  <2>1. CountTyped'
    BY <1>12, Counters, EndedTyped DEF RewriteFails, CountTyped
  <2> QED
    BY <1>12, <2>1, TypeFrame, EndedTyped DEF RewriteFails
<1>13. CASE FaultStep
  BY <1>3, <1>5, <1>6, <1>13, CrawlTyped, ProcessTyped DEF FaultStep
<1>14. CASE RunStep
  BY <1>3, <1>4, <1>7, <1>8, <1>9, <1>10, <1>11, <1>12, <1>14, CrawlTyped, ProcessTyped,
     RewriteTyped
  DEF RunStep
<1> QED
  BY <1>1, <1>2, <1>13, <1>14 DEF Moves, StartStep

-----------------------------------------------------------------------------
(* The course of a run. *)

LEMMA CourseInit == Init => Course
BY DEF Init, Course

LEMMA CourseNext ==
  ASSUME Typed, Course, Moves
  PROVE  Course'
<1> USE DEF Course
<1>1. CASE WikiStep
  <2>1. phase \in {"idle", "crawl"} /\ UNCHANGED <<meta, runVars>>
    BY <1>1 DEF WikiStep, Edit, Toggle, Purge, Rearrange, Wiki, diskVars
  <2>2. UNCHANGED <<meta, phase, mode, previous, pages, results, todo, failed>>
    BY <2>1 DEF runVars
  <2> QED
    BY <2>1, <2>2
<1>2. ASSUME NEW m \in Modes, Start(m)
      PROVE  Course'
  BY <1>2, ModesAre DEF Start, diskVars, histVars, RunTyped
<1>3. ASSUME NEW f \in Files, LoseFile(f) \/ Remove(f)
      PROVE  Course'
  BY <1>3 DEF LoseFile, Remove, runVars, histVars, Checkpointed, Successful
<1>4. CASE Ended
  BY <1>4 DEF Ended
<1>5. CASE Clear
  BY <1>5 DEF Clear, NoMeta
<1>6. ASSUME NEW p \in Pages, NEW r, phase = "crawl", SetResult(p, r)
      PROVE  Course'
  BY <1>6 DEF SetResult, diskVars
<1>7. CASE Traversed
  BY <1>7 DEF Traversed, diskVars
<1>8. ASSUME NEW p \in Pages, NextPage(p), UNCHANGED meta
      PROVE  Course'
  BY <1>8 DEF NextPage
<1>9. CASE Prune
  BY <1>9 DEF Prune, Restrict, diskVars
<1>10. ASSUME NEW p \in Pages, Rewrite(p)
       PROVE  Course'
  <2>1. DOMAIN pages' = DOMAIN pages
    BY <1>10 DEF Rewrite
  <2> QED
    BY <1>10, <2>1 DEF Rewrite
<1>11. CASE Rewritten \/ Save
  BY <1>11 DEF Rewritten, Save, diskVars, Checkpointed, Successful
<1>12. CASE FaultStep
  BY <1>3, <1>4, <1>6, <1>8, <1>12
  DEF FaultStep, ClearFails, Abort, ClassifyFails, FetchPartly, FetchFails, WriteFails, NextPage
<1>13. CASE RunStep
  BY <1>3, <1>4, <1>5, <1>6, <1>7, <1>8, <1>9, <1>10, <1>11, <1>13
  DEF RunStep, WriteIndex, Classify, Fetch, PassDeleted, PassError, Reuse, Render, NextPage,
      RewriteFails
<1> QED
  BY <1>1, <1>2, <1>12, <1>13 DEF Moves, StartStep

-----------------------------------------------------------------------------
(* The results of the traversal. *)

LEMMA Results ==
  /\ Dirty.kind = "dirty" /\ Deleted.kind = "deleted" /\ Error.kind = "error"
  /\ Dirty.out = {} /\ Deleted.out = {} /\ Error.out = {}
BY DEF Dirty, Deleted, Error, Result

LEMMA ResultFields ==
  ASSUME NEW k, NEW v, NEW o
  PROVE  /\ Result(k, v, o).kind = k /\ Result(k, v, o).version = v
         /\ Result(k, v, o).out = o
BY DEF Result

LEMMA PrunedFields ==
  ASSUME Typed, NEW p \in DOMAIN results
  PROVE  /\ Pruned(results[p]).kind = results[p].kind
         /\ Pruned(results[p]).version = results[p].version
         /\ Pruned(results[p]).out =
              {q \in results[p].out : ~(q \in DOMAIN results /\ results[q] = Deleted)}
         /\ results[p].out = {} => Pruned(results[p]) = results[p]
<1> DEFINE r == results[p]
<1>1. r = Result(r.kind, r.version, r.out)
  BY DEF Typed, RunTyped, ResultsTyped, SolidResult
<1> DEFINE o == {q \in r.out : ~(q \in DOMAIN results /\ results[q] = Deleted)}
<1> SUFFICES /\ Pruned(r).kind = r.kind /\ Pruned(r).version = r.version /\ Pruned(r).out = o
             /\ r.out = {} => Pruned(r) = r
  OBVIOUS
<1>2. Pruned(r) = Result(r.kind, r.version, o)
  BY <1>1, PrunedResult
<1>3. r.out = {} => o = r.out
  OBVIOUS
<1> HIDE DEF r, o
<1> QED
  BY <1>1, <1>2, <1>3, ResultFields

LEMMA ResultsInit == Init => Truthful /\ Complete
BY SolidEmpty DEF Init, Truthful, Complete

\* A result of the traversal.
LEMMA NewResult ==
  ASSUME Typed, Course, Truthful, Watched, Dated(previous), NEW p \in Pages,
         Classify(p) \/ ClassifyFails(p) \/ Fetch(p) \/ FetchPartly(p) \/ FetchFails(p)
  PROVE  Truthful'
<1>1. PICK r : SetResult(p, r)
  BY DEF Classify, ClassifyFails, Fetch, FetchPartly, FetchFails
<1>2. /\ DOMAIN results' = DOMAIN results \cup {p} /\ results'[p] = r
      /\ \A q \in DOMAIN results : q # p => results'[q] = results[q]
      /\ UNCHANGED <<wikiVars, mode, previous, seen>>
  BY <1>1
  DEF SetResult, Put, Classify, ClassifyFails, Fetch, FetchPartly, FetchFails
<1>3. \A q \in DOMAIN results : q # p => Truth(q)'
  BY <1>2 DEF Truthful, Truth, Kind, Good, wikiVars
<1> SUFFICES Truth(p)'
  BY <1>2, <1>3 DEF Truthful
<1>4. /\ version[p] \in Nat /\ mode \in {"full", "updates"}
      /\ p \in DOMAIN previous => previous[p].version \in Nat /\ previous[p].version <= version[p]
  <2>1. version[p] \in Nat /\ mode \in {"full", "updates"}
    BY Wikis DEF Typed, WikiTyped, Course, Classify, ClassifyFails, Fetch, FetchPartly, FetchFails
  <2>2. ASSUME p \in DOMAIN previous
        PROVE  previous[p].version \in Nat /\ previous[p].version <= version[p]
    <3>1. previous[p].version \in Nat
      BY <2>2, Wikis DEF Typed, RunTyped, SolidRecords, Recorded
    <3> QED
      BY <2>2, <3>1 DEF Dated
  <2> QED
    BY <2>1, <2>2
<1>8. /\ live[p] => version[p] \in seen[p] \ {Gone}
      /\ ~live[p] => Gone \in seen[p]
  <2>1. phase # "idle" /\ version[p] # Gone
    BY Wikis
    DEF Classify, ClassifyFails, Fetch, FetchPartly, FetchFails, Typed, WikiTyped, Gone
  <2>2. State(p) \in seen[p]
    BY <2>1 DEF Watched
  <2> QED
    BY <2>1, <2>2 DEF State
<1>5. CASE Classify(p)
  <2>1. mode = "updates"
    BY <1>5 DEF Classify
  <2>2. CASE r = Dirty \/ (r = Deleted /\ ~live[p])
    BY <1>2, <1>8, <2>1, <2>2, Results DEF Truth, Kind, Good
  <2>3. CASE /\ live[p] /\ p \in DOMAIN previous /\ previous[p].version = version[p]
             /\ r = Result("reused", previous[p].version, previous[p].out)
    <3>1. r.kind = "reused" /\ r.version = previous[p].version
      BY <2>3, ResultFields
    <3> QED
      BY <1>2, <1>8, <2>1, <2>3, <3>1 DEF Truth, Kind, Good, wikiVars
  <2>4. \/ r = Dirty \/ (r = Deleted /\ ~live[p])
        \/ /\ live[p] /\ p \in DOMAIN previous /\ previous[p].version = version[p]
           /\ r = Result("reused", previous[p].version, previous[p].out)
    BY <1>2, <1>5 DEF Classify, SetResult, Put, IsDirty
  <2> QED
    BY <2>2, <2>3, <2>4
<1>6. CASE ClassifyFails(p)
  <2>1. mode = "updates" /\ r = Dirty
    BY <1>2, <1>6 DEF ClassifyFails, SetResult, Put
  <2> QED
    BY <1>2, <2>1, Results DEF Truth, Kind, Good
<1>7. CASE Fetch(p) \/ FetchPartly(p) \/ FetchFails(p)
  <2>1. CASE r = Error \/ (r = Deleted /\ ~live[p])
    BY <1>2, <1>8, <2>1, Results DEF Truth, Kind, Good
  <2>2. ASSUME live[p], NEW o, r = Result("page", version[p], o)
        PROVE  Truth(p)'
    <3>1. r.kind = "page" /\ r.version = version[p]
      BY <2>2, ResultFields
    <3> QED
      BY <1>2, <1>4, <1>8, <2>2, <3>1 DEF Truth, Kind, Good, wikiVars
  <2>3. \/ r = Error \/ (r = Deleted /\ ~live[p])
        \/ live[p] /\ r = Result("page", version[p], Links(p, version[p]) \cup children[p])
        \/ live[p] /\ r = Result("page", version[p], Links(p, version[p]))
    BY <1>2, <1>7 DEF Fetch, FetchPartly, FetchFails, SetResult, Put
  <2> QED
    BY <2>1, <2>2, <2>3
<1> QED
  BY <1>5, <1>6, <1>7

LEMMA TruthfulNext ==
  ASSUME Typed, Course, Truthful, Watched, Dated(previous), Moves
  PROVE  Truthful'
<1>1. ASSUME results' = Empty
      PROVE  Truthful'
  BY <1>1, SolidEmpty DEF Truthful
<1>2. ASSUME UNCHANGED <<wikiVars, mode, previous, results, seen>>
      PROVE  Truthful'
  BY <1>2 DEF Truthful, Truth, Kind, Good, wikiVars
<1>3. CASE WikiStep
  <2>1. CASE phase = "idle"
    BY <1>1, <1>3, <2>1 DEF WikiStep, Edit, Toggle, Purge, Rearrange, Wiki, runVars, Course
  <2>2. CASE phase = "crawl"
    <3>1. /\ UNCHANGED <<mode, previous, results>>
          /\ \A p \in Pages : seen[p] \subseteq seen'[p]
      BY <1>3, <2>2 DEF WikiStep, Edit, Toggle, Purge, Rearrange, Wiki, runVars, Typed, CountTyped
    <3>2. \A p \in Pages : version[p] \in Nat /\ version'[p] \in Nat /\ version[p] <= version'[p]
      BY <1>3, Wikis DEF WikiStep, Edit, Toggle, Purge, Rearrange, Typed, WikiTyped
    <3>3. ASSUME NEW p \in DOMAIN results
          PROVE  Truth(p)'
      <4>1. Truth(p) /\ p \in Pages /\ results[p].version \in Nat
        BY <3>3 DEF Truthful, Typed, RunTyped, ResultsTyped, SolidResult
      <4> QED
        BY <3>1, <3>2, <4>1 DEF Truth, Kind, Good
    <3> QED
      BY <3>1, <3>3 DEF Truthful
  <2> QED
    BY <1>3, <2>1, <2>2 DEF WikiStep, Edit, Toggle, Purge, Rearrange, Wiki
<1>4. CASE Ended
  BY <1>1, <1>4 DEF Ended
<1>5. ASSUME NEW m \in Modes, Start(m)
      PROVE  Truthful'
  BY <1>1, <1>5 DEF Start, Course
<1>6. CASE Clear
  BY <1>1, <1>6 DEF Clear, Course
<1>7. CASE Traversed
  <2>1. /\ DOMAIN results' = DOMAIN results
        /\ \A p \in DOMAIN results : results'[p] = Pruned(results[p])
        /\ UNCHANGED <<wikiVars, mode, previous, seen>>
    BY <1>7 DEF Traversed, histVars
  <2>2. ASSUME NEW p \in DOMAIN results
        PROVE  Truth(p)'
    <3>1. results[p] = Result(results[p].kind, results[p].version, results[p].out) /\ Truth(p)
      BY <2>2 DEF Typed, RunTyped, ResultsTyped, SolidResult, Truthful
    <3>2. results'[p].kind = results[p].kind /\ results'[p].version = results[p].version
      BY <2>1, <2>2, PrunedFields
    <3>3. results[p].out = {} => results'[p] = results[p]
      BY <2>1, <2>2, PrunedFields
    <3>4. results[p] \in {Dirty, Deleted} => results'[p] = results[p]
      BY <3>3, Results
    <3> QED
      BY <2>1, <3>1, <3>2, <3>4 DEF Truth, Kind, Good, wikiVars
  <2> QED
    BY <2>1, <2>2 DEF Truthful
<1>8. CASE FaultStep
  BY <1>2, <1>4, <1>8, NewResult
  DEF FaultStep, LoseFile, ClearFails, Abort, WriteFails, NextPage, runVars
<1>9. CASE RunStep
  BY <1>2, <1>4, <1>6, <1>7, <1>9, NewResult
  DEF RunStep, Prune, Rewritten, Save, WriteIndex, PassDeleted, PassError, Reuse, Render, NextPage,
      Rewrite, RewriteFails, Remove, runVars, histVars
<1> QED
  BY <1>3, <1>5, <1>8, <1>9 DEF Moves, StartStep

LEMMA CompleteNext ==
  ASSUME Typed, Course, Truthful, Complete, Moves
  PROVE  Complete'
<1>1. ASSUME phase' \in {"idle", "clear", "crawl"}
      PROVE  Complete'
  BY <1>1 DEF Complete
<1>2. ASSUME phase \notin {"idle", "clear", "crawl"}, UNCHANGED results
      PROVE  Complete'
  BY <1>2 DEF Complete, Kind, Good
<1>3. CASE Traversed
  <2>1. /\ DOMAIN results' = DOMAIN results
        /\ \A p \in DOMAIN results : results'[p] = Pruned(results[p])
    BY <1>3 DEF Traversed
  <2>2. Found \subseteq DOMAIN results
    BY <1>3, Bounds DEF Traversed, Unvisited, Found, Typed, RunTyped, ResultsTyped, SolidResult
  <2>3. \A p \in DOMAIN results :
          /\ results'[p].kind = results[p].kind
          /\ results'[p].out =
               {q \in results[p].out : ~(q \in DOMAIN results /\ results[q] = Deleted)}
    BY <2>1, PrunedFields
  <2>4. ASSUME NEW p \in DOMAIN results
        PROVE  Kind(p) # "dirty"
    <3>1. p \in Pages /\ ~Due(p) /\ Truth(p)
      BY <1>3 DEF Traversed, Truthful, Typed, RunTyped, ResultsTyped
    <3>2. mode \in {"full", "updates"}
      BY <1>3 DEF Traversed, Course
    <3> QED
      BY <3>1, <3>2 DEF Due, Truth
  <2>5. ASSUME NEW p \in DOMAIN results, Good(p), NEW q \in results'[p].out
        PROVE  q \in DOMAIN results /\ results'[q] # Deleted
    <3>1. q \in Found
      BY <2>3, <2>5 DEF Found
    <3>2. q \in DOMAIN results /\ results[q] # Deleted /\ Truth(q)
      BY <2>2, <2>3, <2>5, <3>1 DEF Truthful
    <3>3. results[q].kind # "deleted"
      BY <3>2 DEF Truth, Kind
    <3> QED
      BY <2>3, <3>2, <3>3, Results
  <2> QED
    BY <1>3, <2>1, <2>2, <2>3, <2>4, <2>5 DEF Complete, Found, Kind, Good, Traversed
<1>4. CASE WikiStep
  BY <1>1, <1>4 DEF WikiStep, Edit, Toggle, Purge, Rearrange, Wiki, runVars
<1>5. CASE FaultStep
  BY <1>1, <1>2, <1>5
  DEF FaultStep, LoseFile, ClearFails, Abort, Ended, ClassifyFails, FetchPartly, FetchFails,
      SetResult, WriteFails, NextPage, runVars
<1>6. CASE RunStep
  BY <1>1, <1>2, <1>3, <1>6
  DEF RunStep, Clear, Prune, Rewritten, Save, WriteIndex, Ended, Classify, Fetch, SetResult,
      PassDeleted, PassError, Reuse, Render, NextPage, Rewrite, RewriteFails, Remove, runVars
<1>7. CASE StartStep
  BY <1>1, <1>7 DEF StartStep, Start
<1> QED
  BY <1>4, <1>5, <1>6, <1>7 DEF Moves

-----------------------------------------------------------------------------
(* The versions of records and files. *)

LEMMA Numbers ==
  ASSUME Typed
  PROVE  /\ \A p \in Pages : version[p] \in Nat
         /\ \A n \in DOMAIN files : files[n].version \in Nat /\ n[1] \in Pages
         /\ \A p \in DOMAIN meta.pages :
              p \in Pages /\ meta.pages[p].version \in Nat /\ meta.pages[p].stored.version \in Nat
         /\ \A p \in DOMAIN previous :
              p \in Pages /\ previous[p].version \in Nat /\ previous[p].stored.version \in Nat
         /\ \A p \in DOMAIN pages :
              p \in Pages /\ pages[p].version \in Nat /\ pages[p].stored.version \in Nat
         /\ \A p \in DOMAIN results : p \in Pages /\ results[p].version \in Nat
<1>1. \A p \in Pages : \A v \in 1..Len(Revisions[p]) : v \in Nat
  BY Wikis
<1>2. \A n \in Files : n[1] \in Pages
  BY DEF Files
<1>3. ASSUME NEW f, SolidRecords(f), NEW p \in DOMAIN f
      PROVE  p \in Pages /\ f[p].version \in Nat /\ f[p].stored.version \in Nat
  BY <1>1, <1>3 DEF SolidRecords, Recorded, Content
<1>4. \A p \in Pages : version[p] \in Nat
  BY <1>1 DEF Typed, WikiTyped
<1>5. \A n \in DOMAIN files : files[n].version \in Nat /\ n[1] \in Pages
  BY <1>2 DEF Typed, DiskTyped, SolidFiles, Solid, Content
<1>6. \A p \in DOMAIN results : p \in Pages /\ results[p].version \in Nat
  BY DEF Typed, RunTyped, ResultsTyped, SolidResult
<1> QED
  BY <1>3, <1>4, <1>5, <1>6 DEF Typed, DiskTyped, RunTyped

LEMMA Texts ==
  /\ Cut = 0
  /\ \A p, v : Rendered(p, v).version = v
BY DEF Cut, Rendered

\* A file is written that is not behind its record.
LEMMA LatePut ==
  ASSUME NEW g, NEW f, NotAhead(g, f), NEW n, NEW c,
         \A p \in DOMAIN f : File(p, f[p].version) = n => Late(c, f[p].version)
  PROVE  NotAhead(Put(g, n, c), f)
BY DEF NotAhead, Put

LEMMA PastPut ==
  ASSUME NEW g, Past(g), NEW n, NEW c, c.version <= version[n[1]]
  PROVE  Past(Put(g, n, c))
BY DEF Past, Put

\* A record is written of which the file is there.
LEMMA LateRecord ==
  ASSUME NEW g, NEW f, NotAhead(g, f), NEW p, NEW r,
         File(p, r.version) \in DOMAIN g => Late(g[File(p, r.version)], r.version)
  PROVE  NotAhead(g, Put(f, p, r))
BY DEF NotAhead, Put

\* Both are written.
LEMMA LateBoth ==
  ASSUME NEW g, NEW f, NotAhead(g, f), NEW p, NEW r, NEW c, Late(c, r.version)
  PROVE  NotAhead(Put(g, File(p, r.version), c), Put(f, p, r))
<1> SUFFICES ASSUME NEW q \in DOMAIN f \cup {p}
             PROVE  LET v == Put(f, p, r)[q].version
                    IN  File(q, v) \in DOMAIN g \cup {File(p, r.version)} =>
                          Late(Put(g, File(p, r.version), c)[File(q, v)], v)
  BY DEF NotAhead, Put
<1>1. CASE q = p
  BY <1>1 DEF Put
<1>2. CASE q # p
  BY <1>2, FilesDiffer DEF Put, NotAhead
<1> QED
  BY <1>1, <1>2

LEMMA LateRestrict ==
  ASSUME NEW g, NEW f
  PROVE  /\ NotAhead(g, Empty)
         /\ \A S \in SUBSET DOMAIN f : NotAhead(g, f) => NotAhead(g, Restrict(f, S))
         /\ \A S \in SUBSET DOMAIN g :
              /\ NotAhead(g, f) => NotAhead(Restrict(g, S), f)
              /\ Past(g) => Past(Restrict(g, S))
BY DEF NotAhead, Past, Restrict, Empty

\* A write that is cut off.
LEMMA LateTorn ==
  ASSUME Typed, Versions, NEW g, Broken(g)
  PROVE  /\ NotAhead(g, meta.pages) /\ NotAhead(g, pages) /\ Past(g)
         /\ DOMAIN files \subseteq DOMAIN g
         /\ \A m \in DOMAIN g : (m \in DOMAIN files /\ g[m] = files[m]) \/ g[m].version = Cut
<1>0. PICK n \in Files : \E t : Solid(t) /\ t.version = Cut /\ g = Put(files, n, t)
  BY DEF Broken
<1>1. PICK t : Solid(t) /\ t.version = Cut /\ g = Put(files, n, t)
  BY <1>0
<1>2. n[1] \in Pages /\ version[n[1]] \in Nat
  BY Numbers DEF Files
<1>3. t.version <= version[n[1]]
  BY <1>1, <1>2, Texts
<1>4. Past(g)
  BY <1>1, <1>3, PastPut DEF Versions
<1>5. NotAhead(g, meta.pages) /\ NotAhead(g, pages)
  BY <1>1, LatePut DEF Versions, Late
<1> QED
  BY <1>1, <1>4, <1>5 DEF Put

LEMMA VersionsInit == Init => Versions
BY SolidEmpty, LateRestrict DEF Init, Versions, Dated, Past, ReuseExact, NoMeta

LEMMA EndedVersions ==
  ASSUME Ended, Dated(meta.pages)', NotAhead(files, meta.pages)', Past(files)'
  PROVE  Versions'
BY SolidEmpty, LateRestrict DEF Ended, Versions, Dated, ReuseExact

\* The traversal: a page is found clean only if its record and its file agree.
LEMMA CrawlVersions ==
  ASSUME Typed, Course, Versions, NEW p \in Pages,
         Classify(p) \/ ClassifyFails(p) \/ Fetch(p) \/ FetchPartly(p) \/ FetchFails(p)
  PROVE  Versions'
<1>1. PICK r : SetResult(p, r)
  BY DEF Classify, ClassifyFails, Fetch, FetchPartly, FetchFails
<1>2. /\ phase = "crawl" /\ results'[p] = r
      /\ DOMAIN results' = DOMAIN results \cup {p}
      /\ \A q \in DOMAIN results : q # p => results'[q] = results[q]
      /\ UNCHANGED <<wikiVars, diskVars, phase, previous, pages>>
  BY <1>1
  DEF SetResult, Put, Classify, ClassifyFails, Fetch, FetchPartly, FetchFails
<1>3. r.kind = "reused" => p \in DOMAIN previous /\ previous[p].version = version[p]
  <2>1. CASE Classify(p)
    <3>1. r \in {Deleted, Dirty} \/ (p \in DOMAIN previous /\ previous[p].version = version[p])
      BY <1>2, <2>1 DEF Classify, SetResult, Put, IsDirty
    <3> QED
      BY <3>1, Results
  <2>2. CASE ClassifyFails(p) \/ FetchFails(p)
    <3>1. r \in {Dirty, Error}
      BY <1>2, <2>2 DEF ClassifyFails, FetchFails, SetResult, Put
    <3> QED
      BY <3>1, Results
  <2>3. CASE Fetch(p) \/ FetchPartly(p)
    <3>1. r = Deleted \/ r.kind = "page"
      <4>1. \/ r = Deleted
            \/ r = Result("page", version[p], Links(p, version[p]) \cup children[p])
            \/ r = Result("page", version[p], Links(p, version[p]))
        BY <1>2, <2>3 DEF Fetch, FetchPartly, SetResult, Put
      <4> QED
        BY <4>1, ResultFields
    <3> QED
      BY <3>1, Results
  <2> QED
    BY <2>1, <2>2, <2>3
<1>4. ASSUME p \in DOMAIN previous, previous[p].version = version[p]
      PROVE  /\ previous[p].stored.version \in {previous[p].version, Cut}
             /\ OldFile(p) \in DOMAIN files =>
                  files[OldFile(p)].version \in {previous[p].version, Cut}
  <2>1. previous[p].stored.version \in {previous[p].version, Cut}
    BY <1>4, Numbers DEF Versions, Dated, Late
  <2>2. ASSUME OldFile(p) \in DOMAIN files
        PROVE  files[OldFile(p)].version \in {previous[p].version, Cut}
    <3>1. pages = previous
      BY <1>2 DEF Course
    <3>2. Late(files[OldFile(p)], previous[p].version)
      BY <1>4, <2>2, <3>1 DEF Versions, NotAhead, OldFile
    <3>3. files[OldFile(p)].version <= previous[p].version
      BY <1>4, <2>2, FileKey DEF Versions, Past, OldFile
    <3>4. files[OldFile(p)].version \in Nat /\ previous[p].version \in Nat
      BY <1>4, <2>2, Numbers
    <3> QED
      BY <3>2, <3>3, <3>4 DEF Late
  <2> QED
    BY <2>1, <2>2
<1>5. ReuseExact'
  BY <1>2, <1>3, <1>4 DEF Versions, ReuseExact, Kind, OldFile, diskVars
<1> QED
  BY <1>2, <1>5 DEF Versions, Dated, Past, diskVars, wikiVars

LEMMA ReuseVersions ==
  ASSUME Typed, Course, Truthful, Versions, NEW p \in Pages, Reuse(p)
  PROVE  Versions'
<1> DEFINE r == Record(previous[p].version, results[p].out, previous[p].stored)
<1>1. /\ phase = "process" /\ phase' = "process" /\ p \in DOMAIN results /\ Kind(p) = "reused"
      /\ UNCHANGED <<wikiVars, meta, previous, results>>
  BY DEF Reuse, NextPage, Course
<1>2. p \in DOMAIN previous /\ previous = meta.pages
  BY <1>1 DEF Truthful, Truth, Course
<1>3. pages' = Put(pages, p, r)
  BY <1>2, Replaced DEF Reuse, Typed, RunTyped, SolidRecords, Records
<1>4. r.version = previous[p].version /\ r.stored = previous[p].stored
  BY DEF Record
<1> HIDE DEF r
<1>5. /\ previous[p].version \in Nat /\ previous[p].stored.version \in Nat
      /\ previous[p].stored.version \in {previous[p].version, Cut}
      /\ Late(previous[p].stored, previous[p].version)
      /\ previous[p].version <= version[p] /\ previous[p].stored.version <= version[p]
  BY <1>1, <1>2, Numbers DEF Versions, ReuseExact, Dated
<1>6. /\ NotAhead(files', meta.pages) /\ NotAhead(files', pages') /\ Past(files')
      /\ \A n \in DOMAIN files' :
           \/ n \in DOMAIN files /\ files'[n] = files[n]
           \/ n = OldFile(p) /\ files'[n] = previous[p].stored
  <2>1. CASE OldFile(p) \in DOMAIN files
    <3>1. files' = files
      BY <2>1 DEF Reuse, SelfHealed
    <3>2. Late(files[File(p, r.version)], r.version)
      BY <1>2, <1>4, <2>1 DEF Versions, NotAhead, OldFile
    <3> QED
      BY <1>3, <3>1, <3>2, LateRecord DEF Versions
  <2>2. CASE OldFile(p) \notin DOMAIN files
    <3>1. files' = Put(files, OldFile(p), previous[p].stored)
      BY <2>2 DEF Reuse, SelfHealed
    <3>2. \A q \in DOMAIN meta.pages :
            File(q, meta.pages[q].version) = OldFile(p)
              => Late(previous[p].stored, meta.pages[q].version)
      BY <1>2, <1>5, FilesDiffer DEF OldFile
    <3>3. NotAhead(files', meta.pages)
      BY <3>1, <3>2, LatePut DEF Versions
    <3>4. NotAhead(files', pages')
      BY <1>3, <1>4, <1>5, <3>1, LateBoth DEF Versions, OldFile
    <3>5. Past(files')
      BY <1>5, <3>1, PastPut, FileKey DEF Versions, OldFile
    <3> QED
      BY <3>1, <3>3, <3>4, <3>5 DEF Put
  <2> QED
    BY <2>1, <2>2
<1>7. Dated(pages)'
  BY <1>1, <1>3, <1>4, <1>5 DEF Versions, Dated, Put, wikiVars
<1>8. ReuseExact'
  <2> SUFFICES ASSUME NEW q \in DOMAIN results, Kind(q) = "reused"
               PROVE  /\ previous[q].stored.version \in {previous[q].version, Cut}
                      /\ OldFile(q) \in DOMAIN files' =>
                           files'[OldFile(q)].version \in {previous[q].version, Cut}
    BY <1>1 DEF ReuseExact, Kind, OldFile
  <2>1. /\ previous[q].stored.version \in {previous[q].version, Cut}
        /\ OldFile(q) \in DOMAIN files =>
             files[OldFile(q)].version \in {previous[q].version, Cut}
    BY <1>1 DEF Versions, ReuseExact
  <2>2. OldFile(q) = OldFile(p) => q = p
    BY FilesDiffer DEF OldFile
  <2> QED
    BY <1>5, <1>6, <2>1, <2>2
<1> QED
  BY <1>1, <1>6, <1>7, <1>8 DEF Versions, Dated, Past, wikiVars

LEMMA RenderVersions ==
  ASSUME Typed, Course, Truthful, Versions, NEW p \in Pages, Render(p)
  PROVE  Versions'
<1> DEFINE v == results[p].version
           r == Record(v, results[p].out, Rendered(p, v))
<1>1. /\ phase = "process" /\ phase' = "process" /\ p \in DOMAIN results /\ Kind(p) = "page"
      /\ UNCHANGED <<wikiVars, meta, previous, results>>
  BY DEF Render, NextPage, Course
<1>2. previous = meta.pages
  BY <1>1 DEF Course
<1>3. pages' = Put(pages, p, r) /\ files' = Put(files, File(p, v), Rendered(p, v))
  BY DEF Render, Written
<1>4. r.version = v /\ r.stored = Rendered(p, v)
  BY DEF Record
<1>5. /\ v \in Nat /\ v <= version[p] /\ Rendered(p, v).version = v
      /\ p \in DOMAIN meta.pages => meta.pages[p].version <= v
  BY <1>1, <1>2, Numbers, Texts DEF Truthful, Truth
<1> HIDE DEF v, r
<1>6. NotAhead(files', meta.pages)
  <2>1. \A q \in DOMAIN meta.pages :
          File(q, meta.pages[q].version) = File(p, v) => Late(Rendered(p, v), meta.pages[q].version)
    BY <1>5, FilesDiffer DEF Late
  <2> QED
    BY <1>3, <2>1, LatePut DEF Versions
<1>7. NotAhead(files', pages')
  BY <1>3, <1>4, <1>5, LateBoth DEF Versions, Late
<1>8. Past(files')
  BY <1>3, <1>5, PastPut, FileKey DEF Versions
<1>9. Dated(pages)'
  BY <1>1, <1>3, <1>4, <1>5 DEF Versions, Dated, Late, Put, wikiVars
<1>10. ReuseExact'
  <2> SUFFICES ASSUME NEW q \in DOMAIN results, Kind(q) = "reused"
               PROVE  /\ previous[q].stored.version \in {previous[q].version, Cut}
                      /\ OldFile(q) \in DOMAIN files' =>
                           files'[OldFile(q)].version \in {previous[q].version, Cut}
    BY <1>1 DEF ReuseExact, Kind, OldFile
  <2>1. OldFile(q) # File(p, v)
    BY <1>1, FilesDiffer DEF OldFile
  <2> QED
    BY <1>1, <1>3, <2>1 DEF Versions, ReuseExact, Put
<1> QED
  BY <1>1, <1>6, <1>7, <1>8, <1>9, <1>10 DEF Versions, Dated, Past, wikiVars

LEMMA RewriteVersions ==
  ASSUME Typed, Course, Versions, NEW p \in Pages, Rewrite(p)
  PROVE  Versions'
<1>1. PICK c : c = Localized(p, files[FileOf(p)])
  OBVIOUS
<1>2. /\ p \in DOMAIN pages /\ FileOf(p) \in DOMAIN files /\ Solid(files[FileOf(p)])
      /\ \/ UNCHANGED <<files, pages>>
         \/ /\ Open(files[FileOf(p)]) # {}
            /\ files' = Put(files, FileOf(p), c)
            /\ pages' = Put(pages, p, Record(pages[p].version, pages[p].out, c))
  BY <1>1, RewriteStep
<1>3. c.version = files[FileOf(p)].version
  BY <1>1, <1>2, LocalizedText
<1>4. phase' = "rewrite" /\ UNCHANGED <<wikiVars, meta, previous>>
  BY DEF Rewrite
<1>5. CASE UNCHANGED <<files, pages>>
  BY <1>4, <1>5 DEF Versions, Dated, Past, ReuseExact, wikiVars
<1>6. CASE /\ Open(files[FileOf(p)]) # {}
           /\ files' = Put(files, FileOf(p), c)
           /\ pages' = Put(pages, p, Record(pages[p].version, pages[p].out, c))
  <2> DEFINE r == Record(pages[p].version, pages[p].out, c)
  <2>1. r.version = pages[p].version /\ r.stored = c
    BY DEF Record
  <2> HIDE DEF r
  <2>3. /\ Late(c, pages[p].version) /\ pages[p].version <= version[p]
        /\ c.version <= version[p]
    BY <1>2, <1>3, FileKey DEF Versions, NotAhead, Dated, Late, FileOf, Past
  <2>4. NotAhead(files', meta.pages)
    <3>1. ASSUME NEW q \in DOMAIN meta.pages, File(q, meta.pages[q].version) = FileOf(p)
          PROVE  Late(c, meta.pages[q].version)
      BY <1>2, <1>3, <3>1 DEF Versions, NotAhead, Late
    <3> QED
      BY <1>6, <3>1, LatePut DEF Versions
  <2>5. NotAhead(files', pages')
    BY <1>6, <2>1, <2>3, LateBoth DEF r, Versions, FileOf
  <2>6. Past(files')
    BY <1>6, <2>3, PastPut, FileKey DEF Versions, FileOf
  <2>7. Dated(pages)'
    BY <1>4, <1>6, <2>1, <2>3 DEF r, Versions, Dated, Put, wikiVars
  <2> QED
    BY <1>4, <2>4, <2>5, <2>6, <2>7 DEF Versions, Dated, Past, ReuseExact, wikiVars
<1> QED
  BY <1>2, <1>5, <1>6

LEMMA VersionsNext ==
  ASSUME Typed, Course, Truthful, Versions, Moves
  PROVE  Versions'
<1>1. ASSUME UNCHANGED <<wikiVars, files, meta, previous, pages>>,
             UNCHANGED results \/ phase' \notin {"crawl", "process"},
             phase' \in {"crawl", "process"} => phase \in {"crawl", "process"}
      PROVE  Versions'
  BY <1>1 DEF Versions, Dated, Past, ReuseExact, Kind, OldFile, wikiVars
<1>2. CASE WikiStep
  <2>1. /\ UNCHANGED <<files, meta, previous, pages, results, phase>>
        /\ \A p \in Pages : version'[p] \in Nat /\ version[p] <= version'[p]
    <3>1. UNCHANGED <<files, meta, previous, pages, results, phase>>
      BY <1>2 DEF WikiStep, Edit, Toggle, Purge, Rearrange, Wiki, diskVars, runVars
    <3>2. PICK q \in Pages : Edit(q) \/ Toggle(q) \/ Purge(q) \/ Rearrange(q)
      BY <1>2 DEF WikiStep
    <3>3. version' = version \/ version' = [version EXCEPT ![q] = @ + 1]
      BY <3>2 DEF Edit, Toggle, Purge, Rearrange
    <3>4. \A p \in Pages : version'[p] \in Nat /\ version[p] <= version'[p]
      BY <3>3, Numbers DEF Typed, WikiTyped
    <3> QED
      BY <3>1, <3>4
  <2>2. Dated(meta.pages)' /\ Dated(previous)' /\ Dated(pages)'
    BY <2>1, Numbers DEF Versions, Dated
  <2>3. Past(files)'
    BY <2>1, Numbers DEF Versions, Past
  <2> QED
    BY <2>1, <2>2, <2>3 DEF Versions, ReuseExact, Kind, OldFile
<1>3. ASSUME NEW m \in Modes, Start(m)
      PROVE  Versions'
  <2>1. pages' = previous' /\ previous' \in {Empty, meta.pages} /\ results = Empty
    BY <1>3 DEF Start, Course
  <2>2. Dated(previous)' /\ NotAhead(files, previous')
    BY <1>3, <2>1, SolidEmpty, LateRestrict DEF Start, Versions, Dated, wikiVars
  <2> QED
    BY <1>3, <2>1, <2>2, SolidEmpty
    DEF Start, Versions, Dated, Past, ReuseExact, wikiVars, diskVars
<1>4. ASSUME NEW f \in Files, LoseFile(f) \/ Remove(f)
      PROVE  Versions'
  <2>1. /\ files' = Restrict(files, DOMAIN files \ {f})
        /\ UNCHANGED <<wikiVars, meta, previous, pages>> /\ phase' \in {"idle", "reconcile"}
    BY <1>4 DEF LoseFile, Remove, runVars
  <2>2. /\ NotAhead(files', meta.pages) /\ NotAhead(files', pages) /\ Past(files')
    BY <2>1, LateRestrict DEF Versions
  <2> QED
    BY <2>1, <2>2 DEF Versions, Dated, Past, ReuseExact, wikiVars
<1>5. CASE Clear
  <2>1. previous = Empty /\ pages = Empty /\ results = Empty
    BY <1>5 DEF Clear, Course
  <2> QED
    BY <1>5, <2>1, SolidEmpty, LateRestrict
    DEF Clear, Cleared, NoMeta, Versions, Dated, Past, ReuseExact, wikiVars
<1>6. CASE ClearFails
  <2>1. PICK S \in SUBSET DOMAIN files : files' = Restrict(files, S)
    BY <1>6 DEF ClearFails
  <2>2. meta' = meta \/ meta'.pages = Empty
    BY <1>6 DEF ClearFails, NoMeta
  <2>3. Dated(meta.pages)' /\ NotAhead(files, meta.pages)' /\ Past(files)'
    BY <1>6, <2>1, <2>2, SolidEmpty, LateRestrict DEF ClearFails, Versions, Dated, Past, wikiVars
  <2> QED
    BY <1>6, <2>3, EndedVersions DEF ClearFails
<1>7. CASE Abort
  <2>1. files' = files \/ Broken(files')
    BY <1>7, HalfWrittens DEF Abort
  <2>2. NotAhead(files', meta.pages) /\ Past(files')
    BY <2>1, LateTorn DEF Versions
  <2> QED
    BY <1>7, <2>2, EndedVersions DEF Abort, Versions, Dated, Past, wikiVars
<1>8. ASSUME NEW p \in Pages, PassDeleted(p) \/ PassError(p)
      PROVE  Versions'
  BY <1>1, <1>8 DEF PassDeleted, PassError, NextPage
<1>9. ASSUME NEW p \in Pages, WriteFails(p)
      PROVE  Versions'
  <2>1. /\ phase = "process" /\ p \in DOMAIN results
        /\ UNCHANGED <<wikiVars, meta, previous, pages, results, phase>>
    BY <1>9 DEF WriteFails, NextPage, Course
  <2>2. files' = files \/ Broken(files')
    BY <1>9, <2>1, Targets, Torns DEF WriteFails
  <2>4. /\ NotAhead(files', meta.pages) /\ NotAhead(files', pages) /\ Past(files')
        /\ \A n \in DOMAIN files' :
             (n \in DOMAIN files /\ files'[n] = files[n]) \/ files'[n].version = Cut
    BY <2>2, LateTorn DEF Versions
  <2>5. ReuseExact'
    BY <2>1, <2>4 DEF Versions, ReuseExact, Kind, OldFile
  <2> QED
    BY <2>1, <2>4, <2>5 DEF Versions, Dated, Past, wikiVars
<1>10. CASE Traversed
  <2>1. /\ DOMAIN results' = DOMAIN results
        /\ \A p \in DOMAIN results : results'[p].kind = results[p].kind
        /\ UNCHANGED <<wikiVars, files, meta, previous, pages>> /\ phase = "crawl"
    BY <1>10, PrunedFields DEF Traversed, diskVars
  <2>2. ReuseExact'
    BY <2>1 DEF Versions, ReuseExact, Kind, OldFile
  <2> QED
    BY <2>1, <2>2 DEF Versions, Dated, Past, wikiVars
<1>11. CASE Prune
  <2>1. /\ DOMAIN pages' \subseteq DOMAIN pages /\ \A p \in DOMAIN pages' : pages'[p] = pages[p]
        /\ UNCHANGED <<wikiVars, files, meta, previous>> /\ phase' = "rewrite"
    BY <1>11 DEF Prune, Restrict, diskVars
  <2> QED
    BY <2>1 DEF Versions, Dated, NotAhead, Past, ReuseExact, wikiVars
<1>12. CASE Rewritten
  BY <1>1, <1>12 DEF Rewritten, diskVars
<1>13. CASE Save
  BY <1>13 DEF Save, Checkpointed, Versions, Dated, Past, ReuseExact, wikiVars
<1>14. CASE WriteIndex
  BY <1>14, EndedVersions DEF WriteIndex, Versions, Dated, Past, wikiVars
<1>15. ASSUME NEW p \in Pages, RewriteFails(p)
       PROVE  Versions'
  BY <1>15, EndedVersions DEF RewriteFails, Versions, Dated, Past, wikiVars, diskVars
<1>16. CASE FaultStep
  BY <1>4, <1>6, <1>7, <1>9, <1>16, CrawlVersions DEF FaultStep
<1>17. CASE RunStep
  BY <1>4, <1>5, <1>8, <1>10, <1>11, <1>12, <1>13, <1>14, <1>15, <1>17, CrawlVersions,
     ReuseVersions, RenderVersions, RewriteVersions
  DEF RunStep
<1> QED
  BY <1>2, <1>3, <1>16, <1>17 DEF Moves, StartStep

-----------------------------------------------------------------------------
(* Processing the results. *)

\* A page is processed: what it does to the other pages.
LEMMA Turn ==
  ASSUME Typed, Course, Processing, NEW p \in Pages, NextPage(p), failed => failed',
         DOMAIN pages \subseteq DOMAIN pages', DOMAIN pages' \subseteq DOMAIN pages \cup {p},
         \A q \in DOMAIN pages : q # p => pages'[q] = pages[q],
         \A n \in DOMAIN files : n[1] # p => n \in DOMAIN files' /\ files'[n] = files[n],
         Kind(p) = "error" => UNCHANGED pages,
         ~failed' => /\ Kind(p) # "error"
                     /\ Good(p) => /\ Done(p)'
                                   /\ mode = "full" => (files[FileOf(p)] = Rendered(p, pages[p].version))'
  PROVE  Processing'
<1>1. /\ phase = "process" /\ phase' = "process" /\ p \in todo /\ todo' = todo \ {p}
      /\ UNCHANGED <<mode, previous, results>> /\ todo \subseteq DOMAIN results
      /\ Processed' = Processed \cup {p} /\ p \notin Processed
  BY DEF NextPage, Course, Processed
<1>2. \A q \in DOMAIN previous \cap DOMAIN results : Kept(q)'
  BY <1>1 DEF Processing, Kept, Kind
<1>3. ASSUME ~failed', NEW q \in Processed, Good(q)
      PROVE  /\ Done(q)'
             /\ mode = "full" => (files[FileOf(q)] = Rendered(q, pages[q].version))'
  <2>1. /\ Done(q) /\ q # p
        /\ mode = "full" => files[FileOf(q)] = Rendered(q, pages[q].version)
    BY <1>1, <1>3 DEF Processing
  <2>2. pages'[q] = pages[q] /\ q \in DOMAIN pages' /\ FileOf(q)' = FileOf(q)
    BY <2>1 DEF Done, FileOf
  <2>3. FileOf(q) \in DOMAIN files' /\ files'[FileOf(q)] = files[FileOf(q)]
    BY <2>1, FileKey DEF Done, FileOf
  <2> QED
    BY <1>1, <2>1, <2>2, <2>3 DEF Done
<1>4. \A q \in DOMAIN pages' \ Processed' : q \in DOMAIN previous /\ pages'[q] = previous[q]
  BY <1>1 DEF Processing
<1> QED
  BY <1>1, <1>2, <1>3, <1>4 DEF Processing, Kind, Good

LEMMA ProcessingNext ==
  ASSUME Typed, Course, Truthful, Versions, Processing, Moves
  PROVE  Processing'
<1>1. ASSUME phase' # "process"
      PROVE  Processing'
  BY <1>1 DEF Processing
<1>2. CASE Traversed
  <2>1. /\ UNCHANGED <<pages, previous>> /\ pages = previous
        /\ Processed' = {}
    BY <1>2 DEF Traversed, Course, Processed
  <2> QED
    BY <2>1 DEF Processing, Kept
<1>3. ASSUME NEW p \in Pages, PassDeleted(p)
      PROVE  Processing'
  BY <1>3, Turn DEF PassDeleted, Good
<1>4. ASSUME NEW p \in Pages, PassError(p)
      PROVE  Processing'
  BY <1>4, Turn DEF PassError
<1>5. ASSUME NEW p \in Pages, WriteFails(p)
      PROVE  Processing'
  <2>1. p \in DOMAIN results
    BY <1>5 DEF WriteFails, NextPage, Course
  <2>2. \A n \in Target(p) : n[1] = p
    BY <2>1, Targets
  <2>3. \A n \in DOMAIN files : n[1] # p => n \in DOMAIN files' /\ files'[n] = files[n]
    BY <1>5, <2>2 DEF WriteFails, Torn, Put
  <2> QED
    BY <1>5, <2>3, Turn DEF WriteFails
<1>6. ASSUME NEW p \in Pages, Reuse(p)
      PROVE  Processing'
  <2>1. /\ p \in DOMAIN results /\ Kind(p) = "reused" /\ phase = "process"
        /\ UNCHANGED <<failed, previous, results, mode>>
    BY <1>6 DEF Reuse, NextPage, Course
  <2>2. /\ p \in DOMAIN previous /\ results[p].version = previous[p].version /\ mode # "full"
        /\ previous[p].stored.version \in {previous[p].version, Cut}
        /\ OldFile(p) \in DOMAIN files =>
             files[OldFile(p)].version \in {previous[p].version, Cut}
    BY <2>1 DEF Truthful, Truth, Versions, ReuseExact
  <2>3. /\ OldFile(p) \in DOMAIN files'
        /\ files'[OldFile(p)].version \in {previous[p].version, Cut}
    BY <1>6, <2>2 DEF Reuse, SelfHealed, Put
  <2>4. \A n \in DOMAIN files : n[1] # p => n \in DOMAIN files' /\ files'[n] = files[n]
    BY <1>6, FileKey DEF Reuse, SelfHealed, Put, OldFile
  <2>5. pages' = Put(pages, p, Record(previous[p].version, results[p].out, previous[p].stored))
    BY <1>6, <2>2, Replaced DEF Reuse, Typed, RunTyped, SolidRecords, Records
  <2>6. /\ p \in DOMAIN pages' /\ pages'[p].version = previous[p].version
        /\ pages'[p].out = results[p].out /\ pages'[p].stored = previous[p].stored
        /\ DOMAIN pages \subseteq DOMAIN pages' /\ DOMAIN pages' \subseteq DOMAIN pages \cup {p}
        /\ \A q \in DOMAIN pages : q # p => pages'[q] = pages[q]
    BY <2>5 DEF Put, Record
  <2>7. Done(p)'
    BY <2>1, <2>2, <2>3, <2>6 DEF Done, FileOf, OldFile
  <2> QED
    BY <1>6, <2>1, <2>2, <2>4, <2>6, <2>7, Turn DEF Reuse
<1>7. ASSUME NEW p \in Pages, Render(p)
      PROVE  Processing'
  <2> DEFINE v == results[p].version
  <2>1. /\ p \in DOMAIN results /\ Kind(p) = "page" /\ UNCHANGED <<failed, previous, results>>
        /\ v \in Nat
    BY <1>7, Numbers DEF Render, NextPage, Course
  <2>2. /\ files' = Put(files, File(p, v), Rendered(p, v))
        /\ pages' = Put(pages, p, Record(v, results[p].out, Rendered(p, v)))
    BY <1>7 DEF Render, Written
  <2>3. /\ File(p, v) \in DOMAIN files' /\ files'[File(p, v)] = Rendered(p, v)
        /\ \A n \in DOMAIN files : n[1] # p => n \in DOMAIN files' /\ files'[n] = files[n]
    BY <2>2, FileKey DEF Put
  <2>4. /\ p \in DOMAIN pages' /\ pages'[p].version = v
        /\ pages'[p].out = results[p].out /\ pages'[p].stored = Rendered(p, v)
        /\ DOMAIN pages \subseteq DOMAIN pages' /\ DOMAIN pages' \subseteq DOMAIN pages \cup {p}
        /\ \A q \in DOMAIN pages : q # p => pages'[q] = pages[q]
    BY <2>2 DEF Put, Record
  <2>5. Done(p)' /\ (files[FileOf(p)] = Rendered(p, pages[p].version))'
    BY <2>1, <2>3, <2>4, Texts DEF Done, FileOf
  <2> QED
    BY <1>7, <2>1, <2>3, <2>4, <2>5, Turn DEF Render
<1>8. CASE WikiStep
  BY <1>1, <1>8 DEF WikiStep, Edit, Toggle, Purge, Rearrange, Wiki, runVars
<1>9. CASE FaultStep
  BY <1>1, <1>5, <1>9
  DEF FaultStep, LoseFile, ClearFails, Abort, Ended, ClassifyFails, FetchPartly, FetchFails,
      SetResult, runVars
<1>10. CASE RunStep
  BY <1>1, <1>2, <1>3, <1>4, <1>6, <1>7, <1>10
  DEF RunStep, Clear, Prune, Rewritten, Save, WriteIndex, Ended, Classify, Fetch, SetResult,
      Rewrite, RewriteFails, Remove, runVars
<1>11. CASE StartStep
  BY <1>1, <1>11 DEF StartStep, Start
<1> QED
  BY <1>8, <1>9, <1>10, <1>11 DEF Moves

-----------------------------------------------------------------------------
(* The end of a run. *)

\* Files that are removed or written are not those of other pages.
LEMMA FineKept ==
  ASSUME NEW p \in DOMAIN results, Fine(p), UNCHANGED <<mode, results>>,
         phase = "rewrite" /\ p \in todo <=> phase' = "rewrite" /\ p \in todo',
         DOMAIN pages' = DOMAIN pages,
         \A q \in DOMAIN pages : pages'[q].version = pages[q].version,
         p \in DOMAIN pages =>
           /\ pages'[p].out = pages[p].out /\ pages'[p].stored = pages[p].stored
           /\ FileOf(p) \in DOMAIN files =>
                FileOf(p) \in DOMAIN files' /\ files'[FileOf(p)] = files[FileOf(p)]
  PROVE  Fine(p)'
<1>1. CASE ~Good(p)
  BY <1>1 DEF Fine, Kind, Good
<1>2. CASE Good(p)
  <2>1. Done(p) /\ p \in DOMAIN pages /\ FileOf(p) \in DOMAIN files
    BY <1>2 DEF Fine, Done
  <2>2. FileOf(p)' = FileOf(p) /\ files'[FileOf(p)] = files[FileOf(p)]
    BY <2>1 DEF FileOf
  <2>3. Done(p)'
    BY <2>1, <2>2 DEF Done
  <2>4. Exact(p) => Exact(p)'
    <3>1. \A q \in DOMAIN pages : FileOf(q)' = FileOf(q)
      BY DEF FileOf
    <3> QED
      BY <2>1, <2>2, <3>1 DEF Exact
  <2> QED
    BY <1>2, <2>1, <2>2, <2>3, <2>4 DEF Fine, Kind, Good
<1> QED
  BY <1>1, <1>2

LEMMA EndRewrite ==
  ASSUME Typed, Course, Truthful, Complete, Finishing, Linked, NEW p \in Pages, Rewrite(p)
  PROVE  Finishing' /\ Linked'
<1> DEFINE old == files[FileOf(p)]
<1> DEFINE c == Localized(p, old)
<1>1. /\ p \in DOMAIN pages /\ FileOf(p) \in DOMAIN files /\ Solid(old) /\ Solid(c)
      /\ Open(c) = {}
      /\ \/ Open(old) = {} /\ UNCHANGED <<files, pages>>
         \/ /\ Open(old) # {}
            /\ files' = Put(files, FileOf(p), c)
            /\ pages' = Put(pages, p, Record(pages[p].version, pages[p].out, c))
  BY RewriteStep
<1>2. /\ c.version = old.version /\ DOMAIN c.local = Open(old) \cup DOMAIN old.local
      /\ \A q \in Open(old) : c.local[q] = FileOf(q)
      /\ Open(old) = {} => c = old
  BY <1>1, LocalizedText
<1>3. /\ phase = "rewrite" /\ phase' = "rewrite" /\ p \in todo /\ todo' = todo \ {p}
      /\ UNCHANGED <<mode, previous, results, failed>>
  BY DEF Rewrite
<1> HIDE DEF c
<1>4. /\ DOMAIN pages' = DOMAIN pages /\ DOMAIN files' = DOMAIN files
      /\ \A q \in DOMAIN pages : q # p => pages'[q] = pages[q]
      /\ pages'[p].version = pages[p].version /\ pages'[p].out = pages[p].out
      /\ \A n \in DOMAIN files : n # FileOf(p) => files'[n] = files[n]
      /\ files'[FileOf(p)] = c
      /\ Open(old) = {} => pages'[p] = pages[p]
      /\ Open(old) # {} => pages'[p].stored = c
  <2>1. CASE Open(old) = {} /\ UNCHANGED <<files, pages>>
    BY <1>1, <1>2, <2>1
  <2>2. CASE /\ Open(old) # {}
             /\ files' = Put(files, FileOf(p), c)
             /\ pages' = Put(pages, p, Record(pages[p].version, pages[p].out, c))
    BY <1>1, <2>2 DEF Put, Record
  <2> QED
    BY <1>1, <2>1, <2>2
<1>5. \A q \in DOMAIN pages : FileOf(q)' = FileOf(q) /\ (q # p => FileOf(q) # FileOf(p))
  BY <1>4, FilesDiffer DEF FileOf
<1>6. \A q, d : Open(d)' = Open(d)
  BY <1>4 DEF Open
<1>7. Linked'
  <2>1. FileOf(p) \in DOMAIN files' /\ Open(files'[FileOf(p)]) = {}
    BY <1>1, <1>4
  <2>2. ASSUME NEW q \in DOMAIN pages, q # p, q \notin todo
        PROVE  FileOf(q) \in DOMAIN files' /\ Open(files'[FileOf(q)]) = {}
    BY <1>3, <1>4, <1>5, <2>2 DEF Linked
  <2> QED
    BY <1>3, <1>4, <1>5, <1>6, <2>1, <2>2 DEF Linked
<1>8. \A q \in DOMAIN previous \cap DOMAIN results : Kept(q)'
  BY <1>3, <1>4 DEF Finishing, InEnd, Kept, Kind
<1>9. ASSUME ~failed, NEW q \in DOMAIN results, q # p
      PROVE  Fine(q)'
  BY <1>3, <1>4, <1>5, <1>9, FineKept DEF Finishing, InEnd
<1>10. ASSUME ~failed
       PROVE  Fine(p)'
  <2>1. Fine(p) /\ p \in DOMAIN results /\ Survives(p)
    BY <1>1, <1>3, <1>10 DEF Finishing, InEnd
  <2>2. Good(p)
    BY <1>3, <2>1
    DEF Fine, Survives, Complete, Good, Typed, RunTyped, ResultsTyped, SolidResult, Kind
  <2>3. Done(p) /\ (mode = "full" => old = Rendered(p, pages[p].version))
    BY <1>3, <2>1, <2>2 DEF Fine
  <2>5. Done(p)'
    BY <1>1, <1>2, <1>3, <1>4, <1>5, <2>3 DEF Done
  <2>6. ASSUME mode = "full"
        PROVE  Exact(p)'
    <3> DEFINE w == pages[p].version
    <3>1. old.version = w /\ old.links = Links(p, w) /\ old.local = Empty
      BY <2>3, <2>6 DEF Rendered
    <3>2. Open(old) = Links(p, w) \cap DOMAIN pages
      BY <2>3, <3>1, SolidEmpty DEF Open
    <3>3. c.local = [q \in DOMAIN c.local |-> c.local[q]]
      BY <1>1 DEF Solid, Shaped
    <3>4. c.local = [q \in Links(p, w) \cap DOMAIN pages |-> FileOf(q)]
      BY <1>2, <3>1, <3>2, <3>3, SolidEmpty
    <3>5. [q \in Links(p, w) \cap DOMAIN pages |-> FileOf(q)]
            = [q \in Links(p, w) \cap DOMAIN pages' |-> FileOf(q)']
      BY <1>4, <1>5
    <3>6. c.version = pages'[p].version /\ c.version = w /\ files'[FileOf(p)'] = c
      BY <1>1, <1>2, <1>4, <1>5, <3>1
    <3> HIDE DEF w
    <3> QED
      BY <3>4, <3>5, <3>6 DEF Exact
  <2> QED
    BY <1>3, <2>1, <2>5, <2>6 DEF Fine, Kind
<1> QED
  BY <1>3, <1>4, <1>7, <1>8, <1>9, <1>10 DEF Finishing, InEnd, Survives, Kind

LEMMA EndInit == Init => Finishing /\ Linked /\ Processing
BY DEF Init, Finishing, InEnd, Linked, Processing

LEMMA EndPrune ==
  ASSUME Typed, Course, Processing, Prune
  PROVE  Finishing' /\ Linked'
<1>1. /\ DOMAIN pages' = {p \in DOMAIN pages \cap DOMAIN results : Survives(p)}
      /\ \A p \in DOMAIN pages' : pages'[p] = pages[p] /\ FileOf(p)' = FileOf(p)
      /\ todo' = DOMAIN pages' /\ phase' = "rewrite" /\ phase = "process"
      /\ Processed = DOMAIN results
      /\ UNCHANGED <<files, mode, previous, results, failed>>
  BY DEF Prune, Restrict, FileOf, Processed, diskVars
<1>2. Linked'
  BY <1>1 DEF Linked
<1>3. \A p \in DOMAIN previous \cap DOMAIN results : Kept(p)'
  BY <1>1 DEF Processing, Kept, Survives, Kind
<1>4. ASSUME ~failed, NEW p \in DOMAIN results
      PROVE  Fine(p)'
  <2>1. /\ Kind(p) # "error"
        /\ Good(p) => Done(p) /\ (mode = "full" => files[FileOf(p)] = Rendered(p, pages[p].version))
    BY <1>1, <1>4 DEF Processing
  <2>2. CASE ~Good(p)
    BY <1>1, <2>1, <2>2 DEF Fine, Kind, Good
  <2>3. CASE Good(p)
    <3>1. p \in DOMAIN pages'
      BY <1>1, <2>1, <2>3 DEF Done, Good, Survives
    <3>2. Done(p)'
      BY <1>1, <2>1, <2>3, <3>1 DEF Done
    <3> QED
      BY <1>1, <2>1, <2>3, <3>1, <3>2 DEF Fine, Kind
  <2> QED
    BY <2>2, <2>3
<1> QED
  BY <1>1, <1>2, <1>3, <1>4 DEF Finishing, Survives, Kind

\* Steps that leave the records alone, and the files of records.
LEMMA EndKept ==
  ASSUME Finishing, Linked, InEnd, UNCHANGED <<mode, previous, pages, results, failed>>,
         phase = "rewrite" => todo = {},
         phase' # "rewrite" \/ todo' = {},
         \A p \in DOMAIN pages : FileOf(p) \in DOMAIN files =>
           FileOf(p) \in DOMAIN files' /\ files'[FileOf(p)] = files[FileOf(p)]
  PROVE  Finishing' /\ Linked'
<1>1. \A p \in DOMAIN pages :
        FileOf(p)' = FileOf(p) /\ \A c : Open(c)' = Open(c)
  BY DEF FileOf, Open
<1>2. Linked'
  <2>1. \A p \in DOMAIN pages : FileOf(p) \in DOMAIN files /\ Open(files[FileOf(p)]) = {}
    BY DEF Linked, InEnd
  <2> QED
    BY <1>1, <2>1 DEF Linked
<1>3. ASSUME NEW p \in DOMAIN results, Fine(p)
      PROVE  Fine(p)'
  BY <1>3, FineKept
<1>4. \A p \in DOMAIN previous \cap DOMAIN results : Kept(p)'
  BY DEF Finishing, Kept, Kind
<1> QED
  BY <1>2, <1>3, <1>4 DEF Finishing, InEnd, Survives, Kind

LEMMA EndNext ==
  ASSUME Typed, Course, Truthful, Complete, Processing, Finishing, Linked, Moves
  PROVE  Finishing' /\ Linked'
<1>1. ASSUME ~InEnd'
      PROVE  Finishing' /\ Linked'
  BY <1>1 DEF Finishing, InEnd, Linked
<1>2. CASE Rewritten \/ Save
  BY <1>2, EndKept DEF Rewritten, Save, InEnd, diskVars
<1>3. ASSUME NEW f \in Files, Remove(f)
      PROVE  Finishing' /\ Linked'
  <2>1. /\ files' = Restrict(files, DOMAIN files \ {f}) /\ f \in Stale
        /\ phase = "reconcile" /\ UNCHANGED <<phase, mode, previous, pages, results, failed>>
    BY <1>3 DEF Remove, runVars
  <2>2. \A p \in DOMAIN pages : FileOf(p) \in DOMAIN files =>
          FileOf(p) \in DOMAIN files' /\ files'[FileOf(p)] = files[FileOf(p)]
    BY <2>1 DEF Restrict, Stale
  <2> QED
    BY <2>1, <2>2, EndKept DEF InEnd
<1>4. CASE WikiStep
  BY <1>1, <1>4 DEF WikiStep, Edit, Toggle, Purge, Rearrange, Wiki, runVars, InEnd
<1>5. CASE FaultStep
  BY <1>1, <1>5
  DEF FaultStep, LoseFile, ClearFails, Abort, Ended, ClassifyFails, FetchPartly, FetchFails,
      SetResult, WriteFails, NextPage, runVars, InEnd
<1>6. CASE StartStep
  BY <1>1, <1>6 DEF StartStep, Start, InEnd
<1>7. CASE RunStep
  BY <1>1, <1>2, <1>3, <1>7, EndPrune, EndRewrite
  DEF RunStep, Clear, Traversed, WriteIndex, Ended, Classify, Fetch, SetResult, PassDeleted,
      PassError, Reuse, Render, NextPage, RewriteFails, InEnd
<1> QED
  BY <1>4, <1>5, <1>6, <1>7 DEF Moves

-----------------------------------------------------------------------------
(* The files of a clean directory. *)

LEMMA OriginInit == Init => Origin
BY SolidEmpty DEF Init, Origin

LEMMA RestrictedDomain ==
  ASSUME NEW f, NEW S, S \subseteq DOMAIN f
  PROVE  DOMAIN Restrict(f, S) \subseteq DOMAIN f
BY DEF Restrict

\* A page is processed, and maybe its file written.
LEMMA OriginTurn ==
  ASSUME Typed, Course, Origin, NEW p \in Pages, NextPage(p), UNCHANGED <<clean, failed>>,
         \A q \in DOMAIN pages : q # p => q \in DOMAIN pages' /\ pages'[q] = pages[q],
         \A n \in DOMAIN files' :
           \/ n \in DOMAIN files
           \/ n \in FilesOf(previous)
           \/ p \in DOMAIN pages' /\ Survives(p) /\ n = FileOf(p)'
  PROVE  Origin'
<1>1. /\ phase = "process" /\ phase' = "process" /\ p \in todo /\ todo' = todo \ {p}
      /\ UNCHANGED <<mode, previous, results>> /\ todo \subseteq DOMAIN results
      /\ Processed' = Processed \cup {p} /\ p \notin Processed
  BY DEF NextPage, Course, Processed
<1>2. ASSUME clean, NEW n \in DOMAIN files'
      PROVE  \/ n \in FilesOf(previous)
             \/ \E q \in Processed' \cap DOMAIN pages' : Survives(q)' /\ n = FileOf(q)'
  <2>1. \A q \in Processed \cap DOMAIN pages : q \in DOMAIN pages' /\ FileOf(q)' = FileOf(q)
    BY <1>1 DEF FileOf
  <2>2. \A q : Survives(q)' <=> Survives(q)
    BY <1>1 DEF Survives, Kind
  <2>3. n \in DOMAIN files =>
          \/ n \in FilesOf(previous)
          \/ \E q \in Processed \cap DOMAIN pages : Survives(q) /\ n = FileOf(q)
    BY <1>1, <1>2 DEF Origin
  <2> QED
    BY <1>1, <1>2, <2>1, <2>2, <2>3
<1>3. clean => DOMAIN files' \subseteq FilesOf(previous)
                 \cup {FileOf(q)' : q \in {r \in Processed' \cap DOMAIN pages' : Survives(r)'}}
  BY <1>2
<1> QED
  BY <1>1, <1>3 DEF Origin

\* The run ends: what metadata.json says is what it said or what was just saved.
LEMMA OriginEnded ==
  ASSUME Course, Origin, Ended, UNCHANGED meta, clean' => clean /\ phase \in {"crawl", "saved"},
         clean' => DOMAIN files' \subseteq DOMAIN files
  PROVE  Origin'
<1>1. phase = "saved" => meta.pages = pages
  BY DEF Course, Checkpointed
<1>2. clean' => DOMAIN files \subseteq FilesOf(meta.pages)
  BY <1>1 DEF Origin
<1> QED
  BY <1>2 DEF Origin, Ended

LEMMA OriginPages ==
  ASSUME Typed, Course, Truthful, Origin, NEW p \in Pages,
         PassDeleted(p) \/ PassError(p) \/ Reuse(p) \/ Render(p) \/ WriteFails(p)
  PROVE  Origin'
<1>1. CASE PassDeleted(p)
  BY <1>1, OriginTurn DEF PassDeleted
<1>2. CASE PassError(p) \/ WriteFails(p)
  <2>1. /\ phase = "process" /\ phase' = "process" /\ UNCHANGED <<mode, previous, results, pages>>
        /\ failed'
    BY <1>2 DEF PassError, WriteFails, NextPage
  <2>2. CASE WriteFails(p)
    BY <2>1, <2>2 DEF WriteFails, Origin
  <2>3. CASE PassError(p)
    <3>1. /\ UNCHANGED <<clean, files>> /\ todo' = todo \ {p} /\ p \in todo
          /\ todo \subseteq DOMAIN results
      BY <2>3 DEF PassError, NextPage, Course
    <3>2. Processed \subseteq Processed'
      BY <2>1, <3>1 DEF Processed
    <3> QED
      BY <2>1, <3>1, <3>2 DEF Origin, FileOf, Survives, Kind
  <2> QED
    BY <1>2, <2>2, <2>3
<1>3. CASE Reuse(p)
  <2>1. p \in DOMAIN results /\ Kind(p) = "reused" /\ p \in DOMAIN previous
    BY <1>3 DEF Reuse, NextPage, Course, Truthful, Truth
  <2>2. \A n \in DOMAIN files' : n \in DOMAIN files \/ n \in FilesOf(previous)
    BY <1>3, <2>1 DEF Reuse, SelfHealed, Put, FilesOf, OldFile
  <2>3. \A q \in DOMAIN pages : q # p => q \in DOMAIN pages' /\ pages'[q] = pages[q]
    BY <1>3 DEF Reuse, Put
  <2> QED
    BY <1>3, <2>2, <2>3, OriginTurn DEF Reuse
<1>4. CASE Render(p)
  <2> DEFINE v == results[p].version
  <2>1. /\ files' = Put(files, File(p, v), Rendered(p, v)) /\ Kind(p) = "page"
        /\ pages' = Put(pages, p, Record(v, results[p].out, Rendered(p, v)))
    BY <1>4 DEF Render, Written
  <2>2. /\ p \in DOMAIN pages' /\ pages'[p].version = v
        /\ \A q \in DOMAIN pages : q # p => q \in DOMAIN pages' /\ pages'[q] = pages[q]
        /\ \A n \in DOMAIN files' : n \in DOMAIN files \/ n = File(p, v)
    BY <2>1 DEF Put, Record
  <2>3. FileOf(p)' = File(p, v) /\ Survives(p)
    BY <2>1, <2>2 DEF FileOf, Survives
  <2> QED
    BY <1>4, <2>2, <2>3, OriginTurn DEF Render
<1> QED
  BY <1>1, <1>2, <1>3, <1>4

LEMMA OriginNext ==
  ASSUME Typed, Course, Truthful, Processing, Linked, Origin, Moves
  PROVE  Origin'
<1>1. CASE WikiStep
  BY <1>1 DEF WikiStep, Edit, Toggle, Purge, Rearrange, Wiki, diskVars, runVars, Origin
<1>2. ASSUME NEW m \in Modes, Start(m)
      PROVE  Origin'
  BY <1>2 DEF Start, diskVars, histVars, Origin
<1>3. ASSUME NEW f \in Files, LoseFile(f)
      PROVE  Origin'
  <2>1. DOMAIN files' \subseteq DOMAIN files
    BY <1>3, RestrictedDomain DEF LoseFile
  <2> QED
    BY <1>3, <2>1 DEF LoseFile, runVars, Origin
<1>4. ASSUME NEW f \in Files, Remove(f)
      PROVE  Origin'
  <2>1. DOMAIN files' \subseteq DOMAIN files
    BY <1>4, RestrictedDomain DEF Remove
  <2> QED
    BY <1>4, <2>1 DEF Remove, runVars, histVars, Origin
<1>5. CASE Clear
  BY <1>5, SolidEmpty DEF Clear, Cleared, Origin
<1>6. CASE ClearFails
  BY <1>6 DEF ClearFails, Ended, Origin
<1>7. CASE Abort
  <2>1. phase \in {"crawl", "saved"} => HalfWritten = {}
    BY DEF HalfWritten
  <2>2. clean' => clean /\ phase \in {"crawl", "saved"}
    BY <1>7 DEF Abort
  <2>3. clean' => files' = files
    BY <1>7, <2>1, <2>2 DEF Abort
  <2> QED
    BY <1>7, <2>2, <2>3, OriginEnded DEF Abort
<1>8. CASE WriteIndex
  BY <1>8, OriginEnded DEF WriteIndex
<1>9. ASSUME NEW p \in Pages, RewriteFails(p)
      PROVE  Origin'
  BY <1>9, OriginEnded DEF RewriteFails, diskVars
<1>10. ASSUME NEW p \in Pages, NEW r, phase = "crawl", SetResult(p, r)
       PROVE  Origin'
  BY <1>10 DEF SetResult, diskVars, Origin
<1>11. CASE Traversed
  BY <1>11 DEF Traversed, diskVars, histVars, Origin, Course
<1>12. CASE Prune
  <2>1. /\ DOMAIN pages' = {p \in DOMAIN pages \cap DOMAIN results : Survives(p)}
        /\ \A p \in DOMAIN pages' : pages'[p] = pages[p]
        /\ Processed \subseteq DOMAIN results /\ phase = "process" /\ phase' = "rewrite"
        /\ UNCHANGED <<files, clean, mode, previous, failed>>
    BY <1>12 DEF Prune, Restrict, Processed, diskVars, histVars
  <2>2. {FileOf(p) : p \in {q \in Processed \cap DOMAIN pages : Survives(q)}} \subseteq FilesOf(pages')
    BY <2>1 DEF FilesOf, FileOf
  <2> QED
    BY <2>1, <2>2 DEF Origin
<1>13. ASSUME NEW p \in Pages, Rewrite(p)
       PROVE  Origin'
  <2>1. PICK c : c = Localized(p, files[FileOf(p)])
    OBVIOUS
  <2>2. /\ p \in DOMAIN pages /\ FileOf(p) \in DOMAIN files
        /\ \/ UNCHANGED <<files, pages>>
           \/ /\ files' = Put(files, FileOf(p), c)
              /\ pages' = Put(pages, p, Record(pages[p].version, pages[p].out, c))
    BY <1>13, <2>1, RewriteStep
  <2>3. DOMAIN files' = DOMAIN files
    BY <2>2 DEF Put
  <2>4. DOMAIN pages' = DOMAIN pages /\ \A q \in DOMAIN pages : pages'[q].version = pages[q].version
    BY <2>2 DEF Put, Record
  <2>5. FilesOf(pages') = FilesOf(pages)
    BY <2>4 DEF FilesOf
  <2> QED
    BY <1>13, <2>3, <2>5 DEF Rewrite, histVars, Origin
<1>14. CASE Rewritten
  BY <1>14 DEF Rewritten, diskVars, histVars, Origin
<1>15. CASE Save
  <2>1. /\ phase = "reconcile" /\ phase' = "saved"
        /\ UNCHANGED <<files, pages, mode, failed, clean>>
    BY <1>15 DEF Save, histVars
  <2>2. clean => DOMAIN files \subseteq FilesOf(previous) \cup FilesOf(pages)
    BY <2>1 DEF Origin
  <2>3. DOMAIN files \cap FilesOf(previous) \subseteq FilesOf(pages)
    BY <1>15 DEF Save, Stale, FilesOf, OldFile, FileOf
  <2> QED
    BY <2>1, <2>2, <2>3 DEF Origin
<1>16. CASE FaultStep
  BY <1>3, <1>6, <1>7, <1>10, <1>16, OriginPages
  DEF FaultStep, ClassifyFails, FetchPartly, FetchFails
<1>17. CASE RunStep
  BY <1>4, <1>5, <1>8, <1>9, <1>10, <1>11, <1>12, <1>13, <1>14, <1>15, <1>17, OriginPages
  DEF RunStep, Classify, Fetch
<1> QED
  BY <1>1, <1>2, <1>16, <1>17 DEF Moves, StartStep

-----------------------------------------------------------------------------
(* The texts of a directory where no write was cut off. *)

LEMMA UntornInit == Init => Untorn
BY SolidEmpty DEF Init, NoMeta, Untorn, Whole

\* A file is written, or none, and a record or none.
LEMMA UntornWrite ==
  ASSUME Untorn, UNCHANGED <<meta, previous, clean>>,
         \/ UNCHANGED files
         \/ \E n, c : files' = Put(files, n, c) /\ (clean => c.version # Cut),
         \/ UNCHANGED pages
         \/ \E p, r : pages' = Put(pages, p, r) /\ (clean => r.stored.version # Cut)
  PROVE  Untorn'
<1>1. clean => \A n \in DOMAIN files' : files'[n].version # Cut
  BY DEF Untorn, Put
<1>2. clean => Whole(pages')
  BY DEF Untorn, Whole, Put
<1> QED
  BY <1>1, <1>2 DEF Untorn

LEMMA UntornNext ==
  ASSUME Typed, Course, Truthful, Untorn, Moves
  PROVE  Untorn'
<1>1. ASSUME UNCHANGED <<files, meta, previous, pages>>, clean' => clean
      PROVE  Untorn'
  BY <1>1 DEF Untorn, Whole
<1>2. ASSUME ~clean'
      PROVE  Untorn'
  BY <1>2 DEF Untorn
<1>3. ASSUME Ended, UNCHANGED meta, clean' => clean /\ UNCHANGED files
      PROVE  Untorn'
  BY <1>3, SolidEmpty DEF Ended, Untorn, Whole
<1>4. CASE WikiStep
  BY <1>1, <1>4 DEF WikiStep, Edit, Toggle, Purge, Rearrange, Wiki, diskVars, runVars
<1>5. ASSUME NEW m \in Modes, Start(m)
      PROVE  Untorn'
  <2>1. /\ previous' \in {Empty, meta.pages} /\ pages' = previous'
        /\ UNCHANGED <<files, meta, clean>>
    BY <1>5 DEF Start, diskVars
  <2> QED
    BY <2>1, SolidEmpty DEF Untorn, Whole
<1>6. ASSUME NEW f \in Files, LoseFile(f) \/ Remove(f)
      PROVE  Untorn'
  BY <1>6 DEF LoseFile, Remove, Restrict, runVars, histVars, Untorn, Whole
<1>7. CASE Clear
  <2>1. previous' = Empty /\ pages' = Empty /\ files' = Empty /\ meta'.pages = Empty
    BY <1>7 DEF Clear, Cleared, NoMeta, Course
  <2> QED
    BY <2>1, SolidEmpty DEF Untorn, Whole
<1>8. CASE Abort
  <2>1. phase \in {"crawl", "saved"} => HalfWritten = {}
    BY DEF HalfWritten
  <2> QED
    BY <1>3, <1>8, <2>1 DEF Abort
<1>9. CASE WriteIndex
  BY <1>3, <1>9 DEF WriteIndex
<1>10. ASSUME NEW p \in Pages, NEW r, SetResult(p, r)
       PROVE  Untorn'
  BY <1>1, <1>10 DEF SetResult, diskVars
<1>11. CASE Traversed \/ Rewritten
  BY <1>1, <1>11 DEF Traversed, Rewritten, diskVars, histVars
<1>12. ASSUME NEW p \in Pages, PassDeleted(p) \/ PassError(p)
       PROVE  Untorn'
  BY <1>1, <1>12 DEF PassDeleted, PassError, NextPage
<1>13. ASSUME NEW p \in Pages, Reuse(p)
       PROVE  Untorn'
  <2>1. p \in DOMAIN previous
    BY <1>13 DEF Reuse, NextPage, Course, Truthful, Truth
  <2>2. pages' = Put(pages, p, Record(previous[p].version, results[p].out, previous[p].stored))
    BY <1>13, <2>1, Replaced DEF Reuse, Typed, RunTyped, SolidRecords, Records
  <2>3. clean => previous[p].stored.version # Cut
    BY <2>1 DEF Untorn, Whole
  <2>4. Record(previous[p].version, results[p].out, previous[p].stored).stored
          = previous[p].stored
    BY DEF Record
  <2>5. files' = files \/ files' = Put(files, OldFile(p), previous[p].stored)
    BY <1>13 DEF Reuse, SelfHealed
  <2> QED
    BY <1>13, <2>2, <2>3, <2>4, <2>5, UntornWrite DEF Reuse, NextPage
<1>14. ASSUME NEW p \in Pages, Render(p)
       PROVE  Untorn'
  <2> DEFINE v == results[p].version
             c == Rendered(p, v)
  <2>1. files' = Put(files, File(p, v), c) /\ pages' = Put(pages, p, Record(v, results[p].out, c))
    BY <1>14 DEF Render, Written
  <2>2. v \in 1..Len(Revisions[p])
    BY <1>14
    DEF Render, NextPage, Course, Typed, RunTyped, ResultsTyped, SolidResult, Kind
  <2>3. c.version # Cut /\ Record(v, results[p].out, c).stored = c
    BY <2>2, Wikis, Texts DEF Record
  <2> QED
    BY <1>14, <2>1, <2>3, UntornWrite DEF Render, NextPage
<1>15. ASSUME NEW p \in Pages, Rewrite(p)
       PROVE  Untorn'
  <2>1. PICK c : c = Localized(p, files[FileOf(p)])
    OBVIOUS
  <2>2. /\ FileOf(p) \in DOMAIN files /\ Solid(files[FileOf(p)])
        /\ \/ UNCHANGED <<files, pages>>
           \/ /\ files' = Put(files, FileOf(p), c)
              /\ pages' = Put(pages, p, Record(pages[p].version, pages[p].out, c))
    BY <1>15, <2>1, RewriteStep
  <2>3. clean => c.version # Cut
    BY <2>1, <2>2, LocalizedText DEF Untorn
  <2>4. Record(pages[p].version, pages[p].out, c).stored = c
    BY DEF Record
  <2> QED
    BY <1>15, <2>2, <2>3, <2>4, UntornWrite DEF Rewrite, histVars
<1>16. CASE Prune
  BY <1>16 DEF Prune, Restrict, diskVars, histVars, Untorn, Whole
<1>17. CASE Save
  BY <1>17 DEF Save, Checkpointed, histVars, Untorn, Whole
<1>18. CASE FaultStep
  BY <1>2, <1>6, <1>8, <1>10, <1>18
  DEF FaultStep, ClearFails, ClassifyFails, FetchPartly, FetchFails, WriteFails
<1>19. CASE RunStep
  BY <1>2, <1>6, <1>7, <1>9, <1>10, <1>11, <1>12, <1>13, <1>14, <1>15, <1>16, <1>17, <1>19
  DEF RunStep, Classify, Fetch, RewriteFails
<1> QED
  BY <1>4, <1>5, <1>18, <1>19 DEF Moves, StartStep

-----------------------------------------------------------------------------
(* The states that are seen during a run, and the versions recorded in it. *)

LEMMA SourcesInit == Init => Watched /\ Sourced
BY SolidEmpty DEF Init, Watched, Sourced

LEMMA WatchedNext ==
  ASSUME Typed, Course, Versions, Watched, Moves
  PROVE  Watched'
<1>1. ASSUME UNCHANGED <<wikiVars, seen, previous>>, phase' # "idle" => phase # "idle"
      PROVE  Watched'
  BY <1>1 DEF Watched, State, wikiVars
<1>2. CASE Ended
  BY <1>2, SolidEmpty DEF Ended, Watched
<1>3. CASE WikiStep
  <2>1. PICK p \in Pages : Edit(p) \/ Toggle(p) \/ Purge(p) \/ Rearrange(p)
    BY <1>3 DEF WikiStep
  <2>2. UNCHANGED <<phase, previous>>
        /\ seen' = IF phase = "idle" THEN seen ELSE [seen EXCEPT ![p] = @ \cup {State(p)'}]
    BY <2>1 DEF Edit, Toggle, Purge, Rearrange, Wiki, runVars
  <2>3. \A q \in Pages : q # p => State(q)' = State(q)
    BY <2>1 DEF Edit, Toggle, Purge, Rearrange, State, Typed, WikiTyped
  <2>4. version[p] \in Nat /\ version'[p] \in Nat /\ version[p] <= version'[p]
    BY <2>1, Numbers DEF Edit, Toggle, Purge, Rearrange, Typed, WikiTyped
  <2>5. ASSUME p \in DOMAIN previous
        PROVE  State(p)' = Gone \/ previous[p].version <= State(p)'
    BY <2>4, <2>5, Numbers DEF Versions, Dated, State
  <2>6. \A q \in Pages : \A v \in seen'[q] : v \in seen[q] \/ (q = p /\ v = State(p)')
    BY <2>2 DEF Typed, CountTyped
  <2>7. phase # "idle" => \A q \in Pages : State(q)' \in seen'[q]
    BY <2>2, <2>3 DEF Watched, Typed, CountTyped
  <2> QED
    BY <2>2, <2>5, <2>6, <2>7, Numbers DEF Watched
<1>4. ASSUME NEW m \in Modes, Start(m)
      PROVE  Watched'
  <2>1. /\ UNCHANGED <<version, live>> /\ previous' \in {Empty, meta.pages}
        /\ \A p \in Pages : seen'[p] = {State(p)}
    BY <1>4 DEF Start, wikiVars
  <2>2. \A p \in DOMAIN meta.pages : meta.pages[p].version <= version[p] /\ p \in Pages
    BY Numbers DEF Versions, Dated
  <2> QED
    BY <2>1, <2>2, SolidEmpty DEF Watched, State
<1>5. CASE FaultStep
  BY <1>1, <1>2, <1>5
  DEF FaultStep, LoseFile, ClearFails, Abort, ClassifyFails, FetchPartly, FetchFails, SetResult,
      WriteFails, NextPage, runVars
<1>6. CASE RunStep
  BY <1>1, <1>2, <1>6
  DEF RunStep, Clear, Traversed, Prune, Rewritten, Save, WriteIndex, Classify, Fetch, SetResult,
      PassDeleted, PassError, Reuse, Render, NextPage, Rewrite, RewriteFails, Remove, runVars,
      histVars
<1> QED
  BY <1>3, <1>4, <1>5, <1>6 DEF Moves, StartStep

LEMMA SourcedNext ==
  ASSUME Typed, Course, Truthful, Sourced, Moves
  PROVE  Sourced'
<1>1. ASSUME pages' = previous'
      PROVE  Sourced'
  BY <1>1 DEF Sourced
<1>2. ASSUME UNCHANGED <<pages, previous, results>>
      PROVE  Sourced'
  BY <1>2 DEF Sourced, Good, Kind
<1>3. CASE Ended
  BY <1>1, <1>3 DEF Ended
<1>4. CASE WikiStep
  BY <1>2, <1>4 DEF WikiStep, Edit, Toggle, Purge, Rearrange, Wiki, runVars
<1>5. ASSUME NEW p \in Pages, NEW r, phase = "crawl", SetResult(p, r)
      PROVE  Sourced'
  BY <1>1, <1>5 DEF SetResult, Course
<1>6. CASE Traversed
  BY <1>1, <1>6 DEF Traversed, Course
<1>7. ASSUME NEW p \in Pages, Reuse(p)
      PROVE  Sourced'
  <2>1. p \in DOMAIN previous /\ p \in DOMAIN results
    BY <1>7 DEF Reuse, NextPage, Truthful, Truth, Course
  <2>2. previous[p] = Record(previous[p].version, previous[p].out, previous[p].stored)
    BY <2>1 DEF Typed, RunTyped, SolidRecords, Records
  <2>3. [previous[p] EXCEPT !.out = results[p].out].version = previous[p].version
    BY <2>2, Replaced DEF Record
  <2>4. /\ pages' = Put(pages, p, [previous[p] EXCEPT !.out = results[p].out])
        /\ UNCHANGED <<previous, results>>
    BY <1>7 DEF Reuse, NextPage
  <2> QED
    BY <2>1, <2>3, <2>4 DEF Sourced, Put, Good, Kind
<1>8. ASSUME NEW p \in Pages, Render(p)
      PROVE  Sourced'
  <2>1. p \in DOMAIN results /\ Good(p)
    BY <1>8 DEF Render, NextPage, Course, Good
  <2>2. PICK c : pages' = Put(pages, p, Record(results[p].version, results[p].out, c))
    BY <1>8 DEF Render
  <2>3. UNCHANGED <<previous, results>>
    BY <1>8 DEF Render, NextPage
  <2> QED
    BY <2>1, <2>2, <2>3 DEF Sourced, Put, Record, Good, Kind
<1>9. CASE Prune
  BY <1>9 DEF Prune, Restrict, Sourced, Good, Kind
<1>10. ASSUME NEW p \in Pages, Rewrite(p)
       PROVE  Sourced'
  <2>1. PICK c : c = Localized(p, files[FileOf(p)])
    OBVIOUS
  <2>2. /\ p \in DOMAIN pages /\ UNCHANGED <<previous, results>>
        /\ \/ UNCHANGED pages
           \/ pages' = Put(pages, p, Record(pages[p].version, pages[p].out, c))
    BY <1>10, <2>1, RewriteStep DEF Rewrite
  <2> QED
    BY <2>2 DEF Sourced, Put, Record, Good, Kind
<1>11. ASSUME NEW m \in Modes, Start(m)
       PROVE  Sourced'
  BY <1>1, <1>11 DEF Start
<1>12. CASE FaultStep
  BY <1>2, <1>3, <1>5, <1>12
  DEF FaultStep, LoseFile, ClearFails, Abort, ClassifyFails, FetchPartly, FetchFails, WriteFails,
      NextPage, runVars
<1>13. CASE RunStep
  BY <1>2, <1>3, <1>5, <1>6, <1>7, <1>8, <1>9, <1>10, <1>13
  DEF RunStep, Clear, Rewritten, Save, WriteIndex, Classify, Fetch, PassDeleted, PassError,
      NextPage, RewriteFails, Remove, runVars
<1> QED
  BY <1>4, <1>11, <1>12, <1>13 DEF Moves, StartStep

-----------------------------------------------------------------------------
(* The invariant is inductive. *)

IInv ==
  /\ Typed /\ Course /\ Truthful /\ Watched /\ Sourced /\ Complete /\ Versions
  /\ Processing /\ Finishing /\ Linked /\ Origin /\ Untorn

\* An attempt that fails before the run begins changes nothing.
LEMMA Steps == [Next]_vars => Moves \/ UNCHANGED vars
BY DEF Next, BootstrapFails, Moves

\* Steps that change nothing.
LEMMA Stutter ==
  ASSUME IInv, UNCHANGED vars
  PROVE  IInv'
<1> USE DEF IInv, vars, wikiVars, diskVars, runVars, histVars
<1>1. Typed'
  BY TypeFrame DEF Typed
<1>2. Course'
  BY DEF Course, Checkpointed, Successful
<1>3. Truthful' /\ Watched' /\ Sourced' /\ Complete'
  BY DEF Truthful, Truth, Watched, State, Sourced, Complete, Good, Kind
<1>4. Versions'
  BY DEF Versions, Dated, Past, ReuseExact, OldFile, Kind
<1>5. Processing'
  BY DEF Processing, Processed, Kept, Done, FileOf, Good, Kind
<1>6. Finishing'
  BY DEF Finishing, InEnd, Fine, Exact, Survives, Kept, Done, FileOf, Good, Kind
<1>7. Linked'
  BY DEF Linked, FileOf, Open
<1>8. Origin' /\ Untorn'
  BY DEF Origin, Processed, FileOf, Survives, Kind, Untorn, Whole
<1> QED
  BY <1>1, <1>2, <1>3, <1>4, <1>5, <1>6, <1>7, <1>8

LEMMA Inductive == Spec => []IInv
<1>1. Init => IInv
  BY TypeInit, CourseInit, ResultsInit, SourcesInit, VersionsInit, EndInit, OriginInit,
     UntornInit
  DEF IInv
<1>2. IInv /\ [Next]_vars => IInv'
  <2> SUFFICES ASSUME IInv, [Next]_vars
               PROVE  IInv'
    OBVIOUS
  <2>1. CASE Moves
    BY <2>1, TypeNext, CourseNext, TruthfulNext, WatchedNext, SourcedNext, CompleteNext,
       VersionsNext, ProcessingNext, EndNext, OriginNext, UntornNext
    DEF IInv, Versions
  <2>2. CASE UNCHANGED vars
    BY <2>2, Stutter
  <2> QED
    BY <2>1, <2>2, Steps
<1> QED
  BY <1>1, <1>2, PTL DEF Spec

\* The successful checkpoint is advanced only without page errors.
LEMMA Certified ==
  ASSUME IInv, Saved, meta.successful
  PROVE  ~failed
<1>1. ASSUME NEW x, NEW y
      PROVE  [pages |-> x, successful |-> y].successful = y
  OBVIOUS
<1>2. meta = [pages |-> pages, successful |-> Successful]
  BY DEF IInv, Course, Saved, Checkpointed
<1> HIDE DEF Successful
<1>3. meta.successful = Successful
  BY <1>1, <1>2
<1>4. Successful
  BY <1>3
<1> QED
  BY <1>4 DEF Successful

\* A page of a run without errors that has a record has been found good.
LEMMA IsFresh == IInv => SuccessIsFresh
<1> SUFFICES ASSUME IInv, Saved, meta.successful, NEW p \in DOMAIN pages
             PROVE  /\ pages[p].version \in seen[p] \ {Gone}
                    /\ \A c \in {files[FileOf(p)], pages[p].stored} :
                         c.version = pages[p].version \/ (c.version = Cut /\ ~clean)
  BY DEF SuccessIsFresh
<1>1. p \in DOMAIN results /\ Fine(p) /\ Survives(p) /\ Kind(p) # "dirty"
  BY Certified DEF IInv, Finishing, InEnd, Saved, Complete
<1>2. Good(p)
  BY <1>1 DEF IInv, Typed, RunTyped, ResultsTyped, SolidResult, Fine, Survives, Good, Kind
<1>3. Done(p) /\ Truth(p)
  BY <1>1, <1>2 DEF IInv, Fine, Truthful
<1>4. clean => files[FileOf(p)].version # Cut /\ pages[p].stored.version # Cut
  BY <1>3 DEF IInv, Untorn, Whole, Done
<1> QED
  BY <1>2, <1>3, <1>4 DEF Done, Truth

LEMMA IsClosed == IInv => GraphClosed
<1> SUFFICES ASSUME IInv, Saved, meta.successful
             PROVE  /\ \A p \in Seeds : p \in DOMAIN pages \/ results[p] = Deleted
                    /\ \A p \in DOMAIN pages : pages[p].out \subseteq DOMAIN pages
  BY DEF GraphClosed
<1>1. /\ \A p \in DOMAIN results : Fine(p) /\ Kind(p) # "dirty"
      /\ Seeds \subseteq DOMAIN results
      /\ \A p \in DOMAIN pages : p \in DOMAIN results /\ Survives(p)
  BY Certified DEF IInv, Finishing, InEnd, Saved, Complete
<1>2. ASSUME NEW p \in DOMAIN results, results[p] # Deleted
      PROVE  Good(p)
  BY <1>1, <1>2
  DEF IInv, Typed, RunTyped, ResultsTyped, SolidResult, Truthful, Truth, Fine, Good, Kind
<1>3. ASSUME NEW p \in DOMAIN results, Good(p)
      PROVE  p \in DOMAIN pages /\ pages[p].out = results[p].out
  BY <1>1, <1>3 DEF Fine, Done
<1>4. ASSUME NEW p \in DOMAIN pages, NEW q \in pages[p].out
      PROVE  q \in DOMAIN pages
  <2>1. p \in DOMAIN results /\ results[p] # Deleted
    BY <1>1, Results DEF Survives, Kind
  <2>2. Good(p) /\ q \in results[p].out
    BY <1>2, <1>3, <1>4, <2>1
  <2>3. q \in DOMAIN results /\ results[q] # Deleted
    BY <2>1, <2>2 DEF IInv, Complete, Saved
  <2> QED
    BY <1>2, <1>3, <2>3
<1> QED
  BY <1>1, <1>2, <1>3, <1>4

-----------------------------------------------------------------------------
(* What the runs of the crawler promise. *)

\* Every variable keeps its type, through runs, edits, kills and failed writes: also
\* records that a run loads from metadata.json (bootstrapRun) are well-formed.
THEOREM TypeCorrect == Spec => []TypeOK
<1>1. IInv => TypeOK
  BY TypedIs DEF IInv
<1> QED
  BY <1>1, Inductive, PTL

\* When finalizeRun saves metadata.json, every record has its page file: pages that
\* are kept clean get a lost file back, and reconciliation deletes no file in use.
THEOREM RecordHasFileCorrect == Spec => []EveryRecordHasFile
<1>1. IInv => EveryRecordHasFile
  BY DEF IInv, EveryRecordHasFile, Saved, Linked
<1> QED
  BY <1>1, Inductive, PTL

\* No file without a record is left when finalizeRun saves, in a directory where no
\* run was cut off: Stale covers renamed, deleted and unreachable pages.
THEOREM NoStrayCorrect == Spec => []NoStrayFiles
<1>1. IInv => NoStrayFiles
  BY DEF IInv, NoStrayFiles, Saved, Origin, FilesOf, FileOf
<1> QED
  BY <1>1, Inductive, PTL

\* No record is ahead of its file, at any moment of any run: files are written before
\* the record that names their version is saved, by processTraversalResults, by the
\* pass over the links and by reconciliation alike.
THEOREM NeverAheadCorrect == Spec => []RecordsNeverAhead
<1>1. IInv => RecordsNeverAhead
  BY DEF IInv, RecordsNeverAhead, Versions, NotAhead, Late
<1> QED
  BY <1>1, Inductive, PTL

\* The successful checkpoint of finalizeRun certifies records of states that the pages had
\* during the run, and files and stored texts of the same version, unless a write was cut
\* off: ensureLocalPageArtifact and the pass over the links take what is left for a text.
THEOREM FreshCorrect == Spec => []SuccessIsFresh
BY IsFresh, Inductive, PTL

\* A page that could not be fetched keeps the record that the run loaded:
\* processTraversalResults skips it, and pruning counts it as reached.
THEOREM ErrorKeepsCorrect == Spec => []ErrorKeepsRecord
<1>1. IInv => ErrorKeepsRecord
  BY DEF IInv, ErrorKeepsRecord, Saved, Finishing, InEnd, Kept
<1> QED
  BY <1>1, Inductive, PTL

\* After a successful run the stored link graph is closed under its links: what the
\* traversal leads to has been recorded, and links to deleted pages are pruned.
THEOREM ClosedCorrect == Spec => []GraphClosed
BY IsClosed, Inductive, PTL

\* RewriteCrawledPageLinks leaves no URL of a recorded page in any page file, those
\* of clean pages included.
THEOREM LinksCorrect == Spec => []LinksLocal
<1>1. IInv => LinksLocal
  BY DEF IInv, LinksLocal, Saved, Linked
<1> QED
  BY <1>1, Inductive, PTL

\* A successful full run leaves the files of its crawl and nothing else, each complete
\* and with exactly the local links to recorded pages, whatever was there before.
THEOREM FullRunCorrect == Spec => []FullRunExact
<1>1. IInv => FullRunExact
  <2> SUFFICES ASSUME IInv, Saved, mode = "full", meta.successful
               PROVE  /\ DOMAIN files = {FileOf(p) : p \in DOMAIN pages}
                      /\ \A p \in DOMAIN pages : Exact(p)
    BY DEF FullRunExact, Exact
  <2>1. ~failed
    BY Certified
  <2>2. DOMAIN files \subseteq {FileOf(p) : p \in DOMAIN pages}
    BY <2>1 DEF IInv, Origin, Saved, FilesOf, FileOf
  <2>3. \A p \in DOMAIN pages : FileOf(p) \in DOMAIN files
    BY DEF IInv, Linked, Saved
  <2>4. ASSUME NEW p \in DOMAIN pages
        PROVE  Exact(p)
    <3>1. p \in DOMAIN results /\ Fine(p) /\ Survives(p) /\ Kind(p) # "dirty"
      BY <2>1 DEF IInv, Finishing, InEnd, Saved, Complete
    <3>2. Good(p)
      BY <3>1 DEF IInv, Typed, RunTyped, ResultsTyped, SolidResult, Fine, Survives, Good, Kind
    <3> QED
      BY <3>1, <3>2 DEF Fine, Saved
  <2> QED
    BY <2>2, <2>3, <2>4
<1> QED
  BY <1>1, Inductive, PTL

-----------------------------------------------------------------------------
(* Runs succeed. *)

\* A page of a run that has not gone wrong has its file in the pass over the links.
LEMMA FileThere ==
  ASSUME IInv, phase = "rewrite", ~failed, NEW p \in DOMAIN pages
  PROVE  FileOf(p) \in DOMAIN files
<1>1. p \in DOMAIN results /\ Fine(p) /\ Survives(p) /\ Kind(p) # "dirty"
  BY DEF IInv, Finishing, InEnd, Complete
<1>2. Good(p)
  BY <1>1 DEF IInv, Typed, RunTyped, ResultsTyped, SolidResult, Fine, Survives, Good, Kind
<1> QED
  BY <1>1, <1>2 DEF Fine, Done

\* Only faults make a run go wrong or stop it.
LEMMA OnlyFaults ==
  ASSUME IInv, Moves, ~Bad, faults' = faults
  PROVE  ~Bad' /\ (phase' = "idle" => phase \in {"idle", "saved"})
<1> USE DEF IInv
<1>1. ~FaultStep
  <2>1. FaultStep => Fault
    BY DEF FaultStep, LoseFile, ClearFails, Abort, ClassifyFails, FetchPartly, FetchFails, WriteFails
  <2>2. faults \in Nat
    BY DEF Typed, CountTyped, Counted
  <2> QED
    BY <2>1, <2>2 DEF Fault
<1>2. ASSUME UNCHANGED <<results, failed>>
      PROVE  ~Bad'
  BY <1>2 DEF Bad, Kind
<1>3. CASE WikiStep
  BY <1>2, <1>3 DEF WikiStep, Edit, Toggle, Purge, Rearrange, Wiki, runVars
<1>4. CASE StartStep
  BY <1>2, <1>4 DEF StartStep, Start
<1>5. CASE Clear \/ Prune \/ Rewritten \/ Save
  BY <1>2, <1>5 DEF Clear, Prune, Rewritten, Save
<1>6. CASE Traversed
  <2>1. /\ DOMAIN results' = DOMAIN results /\ failed' = failed /\ phase' = "process"
        /\ \A p \in DOMAIN results : results'[p] = Pruned(results[p])
    BY <1>6 DEF Traversed
  <2>2. \A p \in DOMAIN results : results'[p].kind = results[p].kind
    BY <2>1, PrunedFields
  <2> QED
    BY <2>1, <2>2 DEF Bad, Kind
<1>7. CASE WriteIndex
  BY <1>7, SolidEmpty DEF WriteIndex, Ended, Bad
<1>8. ASSUME NEW p \in Pages, Classify(p) \/ Fetch(p)
      PROVE  ~Bad' /\ phase' # "idle"
  <2>1. PICK r : SetResult(p, r) /\ r.kind # "error"
    BY <1>8, Results, ResultFields DEF Classify, Fetch
  <2>2. /\ DOMAIN results' = DOMAIN results \cup {p} /\ results'[p] = r
        /\ \A q \in DOMAIN results : q # p => results'[q] = results[q]
        /\ UNCHANGED <<phase, failed>>
    BY <2>1 DEF SetResult, Put
  <2>3. phase' # "idle"
    BY <1>8, <2>2 DEF Classify, Fetch
  <2> QED
    BY <2>1, <2>2, <2>3 DEF Bad, Kind
<1>9. ASSUME NEW p \in Pages, PassDeleted(p) \/ PassError(p) \/ Reuse(p) \/ Render(p)
      PROVE  ~Bad' /\ phase' # "idle"
  <2>1. /\ UNCHANGED <<results, phase>> /\ phase = "process" /\ p \in DOMAIN results
        /\ failed' = failed \/ Kind(p) = "error"
    BY <1>9 DEF PassDeleted, PassError, Reuse, Render, NextPage, Course
  <2> QED
    BY <1>2, <2>1 DEF Bad
<1>10. ASSUME NEW p \in Pages, Rewrite(p)
       PROVE  ~Bad' /\ phase' # "idle"
  BY <1>2, <1>10 DEF Rewrite
<1>11. ASSUME NEW p \in Pages
       PROVE  ~RewriteFails(p)
  BY FileThere DEF RewriteFails, Bad, Course
<1>12. ASSUME NEW f \in Files, Remove(f)
       PROVE  ~Bad' /\ phase' # "idle"
  BY <1>2, <1>12 DEF Remove, runVars
<1>13. CASE RunStep
  BY <1>5, <1>6, <1>7, <1>8, <1>9, <1>10, <1>11, <1>12, <1>13
  DEF RunStep, Clear, Prune, Rewritten, Save, Traversed, WriteIndex
<1> QED
  BY <1>1, <1>3, <1>4, <1>13
  DEF Moves, WikiStep, Edit, Toggle, Purge, Rearrange, Wiki, runVars, StartStep, Start

\* A run that has not gone wrong, in a wiki at rest, leaves everything current.
LEMMA CalmFresh ==
  ASSUME IInv, Saved, ~Bad, Calm
  PROVE  meta.successful /\ Fresh
<1>1. meta.pages = pages /\ meta.successful
  <2>1. ASSUME NEW x, NEW y
        PROVE  /\ [pages |-> x, successful |-> y].pages = x
               /\ [pages |-> x, successful |-> y].successful = y
    OBVIOUS
  <2>2. Successful /\ meta = Checkpointed
    BY DEF Bad, Successful, IInv, Course, Saved
  <2> HIDE DEF Successful
  <2> QED
    BY <2>1, <2>2 DEF Checkpointed
<1>2. SuccessIsFresh /\ GraphClosed
  BY IsFresh, IsClosed
<1>3. \A p \in Pages : version[p] # Gone /\ (live[p] => State(p) # Gone)
  BY Wikis DEF IInv, Typed, WikiTyped, Gone, State
<1>4. ASSUME NEW p \in DOMAIN pages
      PROVE  live[p] /\ pages[p].version = version[p] /\ pages[p].out \subseteq DOMAIN pages
  <2>1. p \in Pages
    BY Names DEF IInv
  <2> QED
    BY <1>1, <1>2, <2>1 DEF SuccessIsFresh, GraphClosed, Calm, State
<1>5. ASSUME NEW p \in Seeds, live[p]
      PROVE  p \in DOMAIN pages
  <2>1. p \in Pages /\ p \in DOMAIN results /\ Truth(p)
    BY Bounds DEF IInv, Complete, Truthful, Saved
  <2>2. results[p] # Deleted
    BY <1>3, <1>5, <2>1, Results DEF Truth, Calm, Kind
  <2> QED
    BY <1>1, <1>2, <2>2 DEF GraphClosed
<1> QED
  BY <1>1, <1>4, <1>5 DEF Fresh

\* The order in which the entries of Left are compared.
LEMMA FirstFalls ==
  ASSUME NEW n \in 1..3, Left'[n] < Left[n], \A m \in 1..(n - 1) : Left'[m] = Left[m]
  PROVE  Smaller(Left', Left)
<1>1. DOMAIN Left = 1..3
  BY DEF Left
<1> QED
  BY <1>1 DEF Smaller

LEMMA Fewer ==
  ASSUME NEW S, IsFiniteSet(S), NEW x \in S
  PROVE  Cardinality(S \ {x}) < Cardinality(S)
<1>1. Cardinality(S) \in Nat
  BY FS_CardinalityType
<1>2. Cardinality(S \ {x}) = Cardinality(S) - 1
  BY FS_RemoveElement
<1> QED
  BY <1>1, <1>2

\* The sets that Left counts.
LEMMA Countable ==
  ASSUME IsFiniteSet(Pages), Typed
  PROVE  /\ IsFiniteSet(Pages \ DOMAIN results) /\ IsFiniteSet(todo)
         /\ IsFiniteSet({p \in DOMAIN results : Kind(p) = "dirty"})
         /\ IsFiniteSet(Stale \cap DOMAIN files)
<1>1. /\ DOMAIN results \subseteq Pages /\ todo \subseteq Pages /\ DOMAIN previous \subseteq Pages
  BY Names DEF Typed, RunTyped, ResultsTyped
<1>2. /\ IsFiniteSet(Pages \ DOMAIN results) /\ IsFiniteSet(todo) /\ IsFiniteSet(DOMAIN previous)
      /\ IsFiniteSet({p \in DOMAIN results : Kind(p) = "dirty"})
  BY <1>1, FS_Subset
<1> DEFINE T == {OldFile(p) : p \in DOMAIN previous}
<1> DEFINE f == [p \in DOMAIN previous |-> OldFile(p)]
<1>3. f \in Surjection(DOMAIN previous, T)
  BY DEF Surjection
<1>4. IsFiniteSet(T)
  BY <1>2, <1>3, FS_Surjection
<1>5. Stale \cap DOMAIN files \subseteq T
  BY DEF Stale
<1> QED
  BY <1>2, <1>4, <1>5, FS_Subset

\* A step that leads on to a later phase.
LEMMA PhaseFalls ==
  ASSUME PhasesLeft' < PhasesLeft
  PROVE  Smaller(Left', Left)
<1>1. Left'[1] < Left[1] /\ \A m \in 1..(1 - 1) : Left'[m] = Left[m]
  BY DEF Left
<1> QED
  BY <1>1, FirstFalls

\* A step within a phase that deals with a page or a file.
LEMMA ItemFalls ==
  ASSUME phase' = phase, PhaseLeft' < PhaseLeft
  PROVE  Smaller(Left', Left)
<1>1. PhasesLeft' = PhasesLeft
  BY DEF PhasesLeft
<1>2. Left'[2] < Left[2] /\ \A m \in 1..(2 - 1) : Left'[m] = Left[m]
  BY <1>1 DEF Left
<1> QED
  BY <1>2, FirstFalls

\* The run gets on with every step, also with one that fails; the wiki does not hold it up.
LEMMA RunAdvances ==
  ASSUME IsFiniteSet(Pages), IInv, Moves, phase # "idle"
  PROVE  IF WikiStep THEN Left' = Left ELSE Smaller(Left', Left)
<1> USE DEF IInv
<1>0. /\ IsFiniteSet(Pages \ DOMAIN results) /\ IsFiniteSet(todo)
      /\ IsFiniteSet({p \in DOMAIN results : Kind(p) = "dirty"})
      /\ IsFiniteSet(Stale \cap DOMAIN files)
  BY Countable
<1>1. ASSUME Clear \/ Traversed \/ Prune \/ Rewritten \/ Save \/ WriteIndex
      PROVE  Smaller(Left', Left)
  BY <1>1, PhaseFalls
  DEF Clear, Traversed, Prune, Rewritten, Save, WriteIndex, Ended, PhasesLeft
<1>2. ASSUME ClearFails \/ Abort \/ \E p \in Pages : RewriteFails(p)
      PROVE  Smaller(Left', Left)
  <2>1. PhasesLeft' = 0
    BY <1>2 DEF ClearFails, Abort, RewriteFails, Ended, PhasesLeft
  <2>2. PhasesLeft > 0
    BY DEF PhasesLeft, Typed, RunTyped
  <2> QED
    BY <2>1, <2>2, PhaseFalls
<1>3. ASSUME NEW p \in Pages,
             NextPage(p) \/ Rewrite(p)
      PROVE  Smaller(Left', Left)
  <2>1. /\ phase \in {"process", "rewrite"} /\ phase' = phase /\ p \in todo /\ todo' = todo \ {p}
    BY <1>3 DEF NextPage, Rewrite
  <2>2. PhaseLeft' = Cardinality(todo \ {p}) /\ PhaseLeft = Cardinality(todo)
    BY <2>1 DEF PhaseLeft
  <2>3. PhaseLeft' < PhaseLeft
    BY <1>0, <2>1, <2>2, Fewer
  <2> QED
    BY <2>1, <2>3, ItemFalls
<1>4. ASSUME NEW f \in Files, Remove(f)
      PROVE  Smaller(Left', Left)
  <2>1. /\ phase = "reconcile" /\ phase' = phase /\ f \in Stale \cap DOMAIN files
        /\ Stale' \cap DOMAIN files' = (Stale \cap DOMAIN files) \ {f}
    BY <1>4 DEF Remove, Restrict, runVars, Stale, OldFile, FileOf
  <2>2. /\ PhaseLeft' = Cardinality((Stale \cap DOMAIN files) \ {f})
        /\ PhaseLeft = Cardinality(Stale \cap DOMAIN files)
    BY <2>1 DEF PhaseLeft
  <2>3. PhaseLeft' < PhaseLeft
    BY <1>0, <2>1, <2>2, Fewer
  <2> QED
    BY <2>1, <2>3, ItemFalls
<1> DEFINE Full(p) == Fetch(p) \/ FetchPartly(p) \/ FetchFails(p)
<1>5. ASSUME NEW p \in Pages, Classify(p) \/ ClassifyFails(p) \/ Full(p)
      PROVE  Smaller(Left', Left)
  <2>1. PICK r : SetResult(p, r) /\ (Full(p) => r.kind # "dirty")
    BY <1>5, Results, ResultFields DEF Classify, ClassifyFails, Fetch, FetchPartly, FetchFails
  <2>2. /\ DOMAIN results' = DOMAIN results \cup {p} /\ results'[p] = r
        /\ \A q \in DOMAIN results : q # p => results'[q] = results[q]
        /\ phase = "crawl" /\ phase' = "crawl"
    BY <1>5, <2>1
    DEF SetResult, Put, Classify, ClassifyFails, Fetch, FetchPartly, FetchFails
  <2>3. CASE p \notin DOMAIN results
    <3>1. Pages \ DOMAIN results' = (Pages \ DOMAIN results) \ {p} /\ p \in Pages \ DOMAIN results
      BY <2>2, <2>3
    <3>2. /\ PhaseLeft' = Cardinality((Pages \ DOMAIN results) \ {p})
          /\ PhaseLeft = Cardinality(Pages \ DOMAIN results)
      BY <2>2, <3>1 DEF PhaseLeft
    <3>3. PhaseLeft' < PhaseLeft
      BY <1>0, <3>1, <3>2, Fewer
    <3> QED
      BY <2>2, <3>3, ItemFalls
  <2>4. CASE p \in DOMAIN results
    <3> DEFINE D == {q \in DOMAIN results : Kind(q) = "dirty"}
    <3>1. Full(p) /\ results[p] = Dirty
      BY <1>5, <2>4
      DEF Classify, ClassifyFails, Fetch, FetchPartly, FetchFails, Due, Unvisited
    <3>2. p \in D /\ D' = D \ {p}
      BY <2>1, <2>2, <2>4, <3>1, Results DEF Kind
    <3>3. DOMAIN results' = DOMAIN results /\ PhaseLeft' = PhaseLeft /\ PhasesLeft' = PhasesLeft
      BY <2>2, <2>4 DEF PhaseLeft, PhasesLeft
    <3>4. DirtyLeft' < DirtyLeft
      <4>1. DirtyLeft = Cardinality(D) /\ DirtyLeft' = Cardinality(D \ {p})
        BY <3>2 DEF DirtyLeft
      <4> QED
        BY <1>0, <3>2, <4>1, Fewer
    <3>5. Left'[3] < Left[3] /\ \A m \in 1..(3 - 1) : Left'[m] = Left[m]
      BY <3>3, <3>4 DEF Left
    <3> QED
      BY <3>5, FirstFalls
  <2> QED
    BY <2>3, <2>4
<1>6. ASSUME RunStep
      PROVE  Smaller(Left', Left)
  BY <1>1, <1>2, <1>3, <1>4, <1>5, <1>6
  DEF RunStep, PassDeleted, PassError, Reuse, Render
<1>7. ASSUME FaultStep
      PROVE  Smaller(Left', Left)
  BY <1>2, <1>3, <1>5, <1>7 DEF FaultStep, LoseFile, WriteFails
<1>8. ASSUME WikiStep
      PROVE  Left' = Left
  <2>1. UNCHANGED <<files, phase, previous, pages, results, todo>>
    BY <1>8 DEF WikiStep, Edit, Toggle, Purge, Rearrange, Wiki, diskVars, runVars
  <2>2. UNCHANGED Stale
    BY <2>1 DEF Stale, OldFile, FileOf
  <2> QED
    BY <2>1, <2>2 DEF Left, PhasesLeft, PhaseLeft, DirtyLeft, Kind
<1>9. ~StartStep
  BY DEF StartStep, Start
<1> QED
  BY <1>6, <1>7, <1>8, <1>9 DEF Moves

\* A run goes wrong, or ends before finalizeRun has saved its metadata, only by a fault of
\* its own: a missing page file (RewriteCrawledPageLinks returns an error then) is never met
\* by a run without page errors, as bootstrapRun and processTraversalResults have restored
\* it, whatever an earlier run, a kill or a user left behind.  With finitely many pages every
\* run ends; and one run without errors in a wiki at rest makes every record current.
THEOREM RunsSucceedCorrect ==
  ASSUME IsFiniteSet(Pages)
  PROVE  Spec => RunsSucceed
<1> DEFINE OnlyFault == ~Bad /\ faults' = faults
                          => ~Bad' /\ (phase' = "idle" => phase \in {"idle", "saved"})
<1>1. IInv /\ [Next]_vars => [OnlyFault]_vars
  BY OnlyFaults, Steps
<1>2. IInv /\ [Next]_vars
        => [phase # "idle" => IF WikiStep THEN Left' = Left ELSE Smaller(Left', Left)]_vars
  BY RunAdvances, Steps
<1>3. IInv => (Saved /\ ~Bad /\ Calm => meta.successful /\ Fresh)
  BY CalmFresh
<1> QED
  BY <1>1, <1>2, <1>3, Inductive, PTL DEF Spec, RunsSucceed

\* What is counted are numbers: with ComesToRest no run goes on for ever.
THEOREM LeftCorrect ==
  ASSUME IsFiniteSet(Pages)
  PROVE  Spec => [](Left \in [1..3 -> Nat])
<1>1. ASSUME IInv
      PROVE  Left \in [1..3 -> Nat]
  <2>1. PhasesLeft \in Nat
    BY <1>1 DEF IInv, Typed, RunTyped, PhasesLeft
  <2>2. PhaseLeft \in Nat /\ DirtyLeft \in Nat
    <3>1. /\ IsFiniteSet(Pages \ DOMAIN results) /\ IsFiniteSet(todo)
          /\ IsFiniteSet({p \in DOMAIN results : Kind(p) = "dirty"})
          /\ IsFiniteSet(Stale \cap DOMAIN files)
      BY <1>1, Countable DEF IInv
    <3> QED
      BY <3>1, FS_CardinalityType DEF PhaseLeft, DirtyLeft
  <2> QED
    BY <2>1, <2>2 DEF Left
<1> QED
  BY <1>1, Inductive, PTL

\* The guards of a run's steps, phase by phase.
Ready ==
  \/ phase \in {"clear", "saved"}
  \/ /\ phase = "crawl"
     /\ \/ \A p \in Pages : ~Unvisited(p) /\ ~Due(p)
        \/ \E p \in Pages : Due(p) \/ (mode = "updates" /\ Unvisited(p))
  \/ /\ phase = "process"
     /\ todo = {} \/ \E p \in Pages \cap todo : Kind(p) \in {"deleted", "error", "reused", "page"}
  \/ /\ phase = "rewrite"
     /\ todo = {} \/ \E p \in Pages \cap todo : FileOf(p) \in DOMAIN files \/ failed
  \/ /\ phase = "reconcile"
     /\ Stale \cap DOMAIN files = {} \/ \E f \in Files : f \in Stale \cap DOMAIN files

\* A run that has been started always has a next step of its own: no page is left
\* unclassified or half processed by the traversal when its results are processed, and
\* unless a page failed, the pass over the links finds the file of every record.
THEOREM NeverStuck == Spec => [](phase # "idle" => Ready)
<1>1. IInv => (phase # "idle" => Ready)
  <2> SUFFICES ASSUME IInv, phase # "idle"
               PROVE  Ready
    OBVIOUS
  <2> USE DEF IInv
  <2>0. todo \subseteq Pages /\ DOMAIN files \subseteq Files
    BY DEF Typed, RunTyped, DiskTyped, SolidFiles
  <2>1. CASE phase = "crawl"
    <3>1. mode \in {"full", "updates"}
      BY <2>1 DEF Course
    <3> QED
      BY <2>1, <3>1 DEF Ready, Due
  <2>2. CASE phase = "process"
    <3>1. ASSUME NEW p \in todo
          PROVE  Kind(p) \in {"deleted", "error", "reused", "page"}
      BY <2>2, <3>1 DEF Course, Complete, Typed, RunTyped, ResultsTyped, SolidResult, Kind
    <3> QED
      BY <2>0, <2>2, <3>1 DEF Ready
  <2>3. CASE phase = "rewrite"
    <3>1. ASSUME NEW p \in todo, ~failed
          PROVE  FileOf(p) \in DOMAIN files
      <4>1. p \in DOMAIN pages
        BY <2>3, <3>1 DEF Course
      <4> QED
        BY <2>3, <3>1, <4>1, FileThere
    <3> QED
      BY <2>0, <2>3, <3>1 DEF Ready
  <2>4. CASE phase = "reconcile"
    BY <2>0, <2>4 DEF Ready
  <2> QED
    BY <2>1, <2>2, <2>3, <2>4 DEF Ready, Typed, RunTyped
<1> QED
  BY <1>1, Inductive, PTL

-----------------------------------------------------------------------------
(* Runs replace the metadata at once or not at all. *)

\* What the variables of Mirror are after a step that leaves the wiki alone.
LEMMA MirrorSame ==
  UNCHANGED <<version, live, seen, mode, meta>> /\ Stage' = Stage => UNCHANGED M!vars
BY DEF Mirrored, M!vars

LEMMA MirrorEnd ==
  ASSUME Typed, Course, phase # "idle", Ended, UNCHANGED <<version, live>>,
         meta' = meta \/ (phase = "clear" /\ meta' = NoMeta)
  PROVE  M!End
<1>1. Stage # "idle" /\ Stage' = "idle"
  BY DEF Stage, Ended
<1>2. mode' = "none" /\ seen' = M!NoState
  BY DEF Ended, NoState, M!NoState
<1>3. CASE meta' = meta
  BY <1>1, <1>2, <1>3 DEF M!End, Mirrored
<1>4. CASE phase = "clear" /\ meta' = NoMeta
  <2>1. Mirrored' = M!Nothing /\ meta'.successful = FALSE
    BY <1>4, SolidEmpty DEF NoMeta, Mirrored, M!Nothing
  <2>2. mode = "full" /\ Stage = "open"
    BY <1>4 DEF Course, Stage
  <2> QED
    BY <1>1, <1>2, <2>1, <2>2 DEF M!End, M!Forgets
<1> QED
  BY <1>3, <1>4

LEMMA MirrorChange ==
  ASSUME Typed, Watched, NEW p \in Pages, Edit(p) \/ Toggle(p) \/ Purge(p) \/ Rearrange(p)
  PROVE  M!Change(p) \/ UNCHANGED M!vars
<1>1. /\ phase \in {"idle", "crawl"} /\ UNCHANGED <<meta, phase, mode>>
      /\ seen' = IF phase = "idle" THEN seen ELSE [seen EXCEPT ![p] = @ \cup {State(p)'}]
  BY DEF Edit, Toggle, Purge, Rearrange, Wiki, diskVars, runVars
<1>2. Stage' = Stage /\ Mirrored' = Mirrored /\ (Stage = "idle" <=> phase = "idle")
  BY <1>1 DEF Stage, Mirrored
<1>3. M!State(p)' = State(p)'
  BY DEF M!State, State, M!Gone, Gone
<1>4. CASE Edit(p) \/ Toggle(p)
  BY <1>1, <1>2, <1>3, <1>4 DEF Edit, Toggle, M!Change
<1>5. CASE Purge(p) /\ live[p]
  <2>1. live' = [live EXCEPT ![p] = ~@] /\ UNCHANGED version
    BY <1>5 DEF Purge
  <2> QED
    BY <1>1, <1>2, <1>3, <2>1 DEF M!Change
<1>6. CASE Rearrange(p) \/ (Purge(p) /\ ~live[p])
  <2>1. UNCHANGED <<version, live>>
    BY <1>6 DEF Rearrange, Purge, Typed, WikiTyped
  <2>2. State(p)' = State(p) /\ (phase # "idle" => State(p) \in seen[p])
    BY <2>1 DEF State, Watched
  <2>3. seen' = seen
    BY <1>1, <2>2 DEF Typed, CountTyped
  <2> QED
    BY <1>1, <1>2, <2>1, <2>3, MirrorSame
<1> QED
  BY <1>4, <1>5, <1>6

\* metadata.json is saved with versions that were seen, none older than before.
LEMMA MirrorCommit ==
  ASSUME IInv, Save
  PROVE  M!Commit
<1> USE DEF IInv
<1>0. /\ phase = "reconcile" /\ phase' = "saved" /\ meta' = Checkpointed
      /\ UNCHANGED <<version, live, seen, mode>> /\ previous = meta.pages
  BY DEF Save, Course, wikiVars, histVars
<1>1. Stage = "open" /\ Stage' = "done"
  BY <1>0 DEF Stage
<1>2. meta'.pages = pages /\ meta'.successful = ~failed
  <2>1. ASSUME NEW x, NEW y
        PROVE  /\ [pages |-> x, successful |-> y].pages = x
               /\ [pages |-> x, successful |-> y].successful = y
    OBVIOUS
  <2> HIDE DEF Successful
  <2>2. meta'.pages = pages /\ meta'.successful = Successful
    BY <1>0, <2>1 DEF Checkpointed
  <2> QED
    BY <2>2 DEF Successful
<1>3. /\ DOMAIN Mirrored' = DOMAIN pages
      /\ \A p \in DOMAIN pages : Mirrored'[p] = pages[p].version
      /\ DOMAIN Mirrored = DOMAIN previous
      /\ \A p \in DOMAIN previous : Mirrored[p] = previous[p].version
  BY <1>0, <1>2 DEF Mirrored
<1>4. ASSUME NEW p \in DOMAIN pages
      PROVE  /\ p \in Pages
             /\ \/ pages[p].version \in seen[p] \ {Gone}
                \/ failed /\ p \in DOMAIN previous /\ pages[p].version = previous[p].version
  <2>1. p \in Pages /\ p \in DOMAIN results /\ Survives(p) /\ Kind(p) # "dirty"
    BY <1>0, Numbers DEF Finishing, InEnd, Complete
  <2>2. CASE failed
    BY <2>1, <2>2 DEF Sourced, Truthful, Truth
  <2>3. CASE ~failed
    <3>1. Fine(p)
      BY <1>0, <2>1, <2>3 DEF Finishing, InEnd
    <3>2. Good(p)
      BY <2>1, <3>1 DEF Typed, RunTyped, ResultsTyped, SolidResult, Fine, Survives, Good, Kind
    <3> QED
      BY <2>1, <3>1, <3>2 DEF Fine, Done, Truthful, Truth
  <2> QED
    BY <2>2, <2>3
<1>5. ASSUME NEW p \in DOMAIN previous \cap DOMAIN pages
      PROVE  previous[p].version <= pages[p].version
  BY <1>4, Numbers DEF Watched
<1>6. ASSUME ~failed, NEW p \in Seeds
      PROVE  p \in DOMAIN pages \/ Gone \in seen[p]
  <2>1. p \in DOMAIN results /\ Fine(p) /\ Kind(p) # "dirty" /\ Truth(p)
    BY <1>0, <1>6 DEF Finishing, InEnd, Complete, Truthful
  <2>2. Good(p) \/ Kind(p) = "deleted"
    BY <2>1 DEF Typed, RunTyped, ResultsTyped, SolidResult, Fine, Good, Kind
  <2> QED
    BY <2>1, <2>2 DEF Fine, Done, Truth
<1>7. \A p \in DOMAIN Mirrored' :
        \/ p \in Pages /\ Mirrored'[p] \in seen[p] \ {M!Gone}
        \/ ~meta'.successful /\ p \in DOMAIN Mirrored /\ Mirrored'[p] = Mirrored[p]
  BY <1>2, <1>3, <1>4 DEF Gone, M!Gone
<1>8. \A p \in DOMAIN Mirrored \cap DOMAIN Mirrored' : Mirrored[p] <= Mirrored'[p]
  BY <1>3, <1>5
<1>9. meta'.successful => \A p \in Seeds : p \in DOMAIN Mirrored' \/ M!Gone \in seen[p]
  BY <1>2, <1>3, <1>6 DEF Gone, M!Gone
<1> QED
  BY <1>0, <1>1, <1>7, <1>8, <1>9 DEF M!Commit

LEMMA MirrorStep ==
  ASSUME IInv, Moves
  PROVE  M!Next \/ UNCHANGED M!vars
<1> USE DEF IInv
<1>1. CASE WikiStep
  BY <1>1, MirrorChange DEF WikiStep, M!Next
<1>2. ASSUME NEW m \in Modes, Start(m)
      PROVE  M!Begin(m)
  <2>1. Stage = "idle" /\ Stage' = "open"
    BY <1>2 DEF Start, Stage
  <2>2. seen' = [p \in Pages |-> {M!State(p)}]
    BY <1>2 DEF Start, State, M!State, Gone, M!Gone
  <2> QED
    BY <1>2, <2>1, <2>2 DEF Start, M!Begin, Mirrored, wikiVars, diskVars
<1>3. CASE Clear
  <2>1. Stage = "open" /\ Stage' = Stage /\ mode = "full"
    BY <1>3 DEF Clear, Stage, Course
  <2>2. Mirrored' = M!Nothing /\ meta'.successful = FALSE
    BY <1>3, SolidEmpty DEF Clear, NoMeta, Mirrored, M!Nothing
  <2>3. M!Forget
    BY <1>3, <2>1, <2>2 DEF Clear, wikiVars, M!Forget, M!Forgets
  <2> QED
    BY <2>3 DEF M!Next
<1>4. CASE Save
  BY <1>4, MirrorCommit DEF M!Next
<1>5. ASSUME ClearFails \/ Abort \/ WriteIndex \/ \E p \in Pages : RewriteFails(p)
      PROVE  M!End
  BY <1>5, MirrorEnd
  DEF ClearFails, Abort, WriteIndex, RewriteFails, wikiVars, diskVars
<1>6. ASSUME UNCHANGED <<wikiVars, seen, mode, meta>>, Stage' = Stage
      PROVE  UNCHANGED M!vars
  BY <1>6, MirrorSame DEF wikiVars
<1>7. ASSUME NEW p \in Pages, NEW r, SetResult(p, r)
      PROVE  UNCHANGED M!vars
  BY <1>6, <1>7 DEF SetResult, diskVars, Stage
<1>8. ASSUME NEW p \in Pages, NextPage(p)
      PROVE  UNCHANGED M!vars
  BY <1>6, <1>8 DEF NextPage, Stage
<1>9. ASSUME Traversed \/ Prune \/ Rewritten \/ \E p \in Pages : Rewrite(p)
      PROVE  UNCHANGED M!vars
  BY <1>6, <1>9 DEF Traversed, Prune, Rewritten, Rewrite, Stage, diskVars, histVars
<1>10. ASSUME NEW f \in Files, LoseFile(f) \/ Remove(f)
       PROVE  UNCHANGED M!vars
  BY <1>6, <1>10 DEF LoseFile, Remove, Stage, runVars, histVars
<1>11. CASE FaultStep
  BY <1>5, <1>7, <1>8, <1>10, <1>11
  DEF FaultStep, ClassifyFails, FetchPartly, FetchFails, WriteFails, M!Next
<1>12. CASE RunStep
  BY <1>3, <1>4, <1>5, <1>7, <1>8, <1>9, <1>10, <1>12
  DEF RunStep, Classify, Fetch, PassDeleted, PassError, Reuse, Render, M!Next
<1> QED
  BY <1>1, <1>2, <1>11, <1>12 DEF Moves, StartStep, M!Next

\* Whatever a run does in the directory, however it is cut off and whatever happens to
\* the wiki meanwhile, metadata.json changes as Mirror says: in one step, when
\* finalizeRun saves it, or when a full run clears the directory.
THEOREM MirrorCorrect == Spec => MirrorSpec
<1>1. Init => M!Init
  <2> SUFFICES ASSUME Init
               PROVE  M!Init
    OBVIOUS
  <2>1. Mirrored = M!Nothing /\ meta.successful = FALSE
    BY SolidEmpty DEF Init, NoMeta, Mirrored, M!Nothing
  <2> QED
    BY <2>1 DEF Init, Stage, NoState, M!Init, M!NoState
<1>2. IInv /\ [Next]_vars => [M!Next]_(M!vars)
  <2> SUFFICES ASSUME IInv, [Next]_vars
               PROVE  M!Next \/ UNCHANGED M!vars
    OBVIOUS
  <2>1. CASE UNCHANGED vars
    BY <2>1, MirrorSame DEF vars, wikiVars, diskVars, runVars, histVars, Stage
  <2> QED
    BY <2>1, MirrorStep, Steps
<1> QED
  BY <1>1, <1>2, Inductive, PTL DEF Spec, MirrorSpec, M!Spec
=============================================================================
