-------------------------- MODULE AttachmentsProofs -------------------------
(***************************************************************************)
(* Theorems about the attachments of a page over successive runs, for      *)
(* every set of attachments with any names and sizes, all configurations   *)
(* and any number of edits and faults.                                     *)
(***************************************************************************)
EXTENDS Attachments, TLAPS

-----------------------------------------------------------------------------
(* The inductive invariant.                                                *)

\* What the types leave open.
Wf ==
  /\ DOMAIN rev = Attachments /\ listing.known \in BOOLEAN
  /\ ~file.present => file.links = {}
  /\ \A f \in DOMAIN disk : disk[f] = Content(disk[f].of, disk[f].rev)

\* Only processing and what follows it has downloads.
Resting ==
  phase \notin {"process", "finish"} =>
    todo = {} /\ current = {} /\ saved = {} /\ touched = {}

\* The run works on the record that metadata.json holds, and keeps it until the end.
Loaded ==
  /\ phase = "clear" => previous = NoRecord
  /\ phase \notin {"idle", "clear"} => previous = meta
  /\ phase \notin {"idle", "finish"} => record = previous

\* Every attachment of the listing is in one place; one is downloaded at a time.
Places ==
  /\ todo \cup current \cup saved \subseteq DOMAIN listing.sizes
  /\ todo \cap current = {} /\ todo \cap saved = {} /\ current \cap saved = {}
  /\ \A a, b \in current : a = b

\* A record names the file of every attachment that its page links.
Named(r) == \A a \in r.links : SavedName[a] \in r.files /\ a \in DOMAIN r.signature.sizes

\* No file is from the future.
Past == \A f \in DOMAIN disk : disk[f].rev <= rev[disk[f].of]

\* The listing shows past revisions.
ListingPast ==
  \A a \in DOMAIN listing.sizes : \E r \in 1..rev[a] : listing.sizes[a] = Sizes[a][r]

\* The file of a is not older than the size that was listed for a.
Since(sizes, a) == \E r \in 1..disk[SavedName[a]].rev : sizes[a] = Sizes[a][r]

\* Except for the files in S, record r describes the directory.
Faithful(r, S) ==
  \A a \in Attachments :
    Alone(a) /\ SavedName[a] \in r.files \ S =>
      Intact(a) /\ (a \in r.links => Since(r.signature.sizes, a))

\* Except for the files in S, the links of the page lead to files.
Leading(S) == \A a \in file.links : Alone(a) /\ SavedName[a] \notin S => Intact(a)

\* While attachments are downloaded, the files changed are those saved so far.
Saving ==
  phase = "process" =>
    /\ touched \cap DOMAIN disk \subseteq {SavedName[a] : a \in saved \cup current}
    /\ \A a \in current : SavedName[a] \in touched \cap DOMAIN disk
    /\ \A a \in saved : Alone(a) => Intact(a) /\ Since(listing.sizes, a)

\* At the end, the new record describes the files that this run changed, and the
\* page's links avoid what is about to be removed.
Finishing ==
  phase = "finish" =>
    /\ touched \cap DOMAIN disk \subseteq record.files
    /\ Faithful(record, suspect \ touched)
    /\ \/ PageStale
       \/ Leading(suspect \ touched) /\ \A a \in file.links : SavedName[a] \notin Stale

-----------------------------------------------------------------------------
(* Constants. *)

LEMMA Revisions ==
  ASSUME NEW a \in Attachments
  PROVE  Len(Sizes[a]) \in Nat /\ Len(Sizes[a]) > 0 /\ DOMAIN Sizes[a] = 1..Len(Sizes[a])
BY AttachmentsAssumption

LEMMA Bounds == MaxEdits \in Nat /\ MaxFaults \in Nat
BY AttachmentsAssumption

LEMMA SavedInFiles == \A a \in Attachments : SavedName[a] \in Files
<1>1. DOMAIN SavedName = Attachments
  BY DEF SavedName
<1> QED
  BY <1>1 DEF Files, Range

-----------------------------------------------------------------------------
(* Types. *)

LEMMA Blanks ==
  /\ Record(NoRecord)
  /\ NoFile \in [present : BOOLEAN, version : Nat, links : SUBSET Attachments]
  /\ TornFile \in [present : BOOLEAN, version : Nat, links : SUBSET Attachments]
  /\ NoFile.links = {} /\ TornFile.links = {}
  /\ Unlisted.known \in BOOLEAN /\ DOMAIN Unlisted.sizes = {} /\ DOMAIN Empty = {}
BY DEF Record, NoRecord, NoFile, TornFile, Unlisted, Empty

LEMMA TypeInit == Init => TypeOK /\ Wf
<1> SUFFICES ASSUME Init
             PROVE  TypeOK /\ Wf
  OBVIOUS
<1>1. \A a \in Attachments : rev[a] \in 1..Len(Sizes[a])
  BY Revisions DEF Init
<1> QED
  BY <1>1, Blanks, Bounds DEF Init, TypeOK, Wf

LEMMA Counters ==
  ASSUME edits \in 0..MaxEdits, faults \in 0..MaxFaults
  PROVE  /\ Counted => edits' \in 0..MaxEdits
         /\ Fault => faults' \in 0..MaxFaults
BY Bounds DEF Counted, Fault

LEMMA EndedType ==
  ASSUME Ended
  PROVE  /\ phase' = "idle" /\ config' = NoConfig
         /\ Record(previous') /\ Record(record')
         /\ fetched' \in Nat /\ DOMAIN listing'.sizes \subseteq Attachments
         /\ listing'.known \in BOOLEAN
         /\ todo' \subseteq Attachments /\ current' \subseteq Attachments
         /\ saved' \subseteq Attachments /\ touched' \subseteq Files
BY Blanks DEF Ended

LEMMA TypeNext ==
  ASSUME TypeOK, Wf, Next
  PROVE  TypeOK' /\ Wf'
<1> USE DEF TypeOK, Wf
<1>1. CASE WikiStep
  <2>1. version' \in Nat /\ attached' \subseteq Attachments /\ edits' \in 0..MaxEdits
    BY <1>1, Counters DEF WikiStep, Edit, Toggle, Attach, Replace, Wiki
  <2>4. live' \in BOOLEAN
    BY <1>1 DEF WikiStep, Edit, Toggle, Attach, Replace
  <2>2. DOMAIN rev' = Attachments /\ \A a \in Attachments : rev'[a] \in 1..Len(Sizes[a])
    BY <1>1, Revisions DEF WikiStep, Edit, Toggle, Attach, Replace
  <2>3. UNCHANGED <<diskVars, runVars, touched, suspect, faults>>
    BY <1>1 DEF WikiStep, Edit, Toggle, Attach, Replace, Wiki
  <2> QED
    BY <2>1, <2>2, <2>3, <2>4 DEF diskVars, runVars, Record
<1>2. CASE FaultStep
  <2> USE Counters, Blanks, EndedType
          DEF wikiVars, diskVars, runVars, GoTo, Go, Process, Torn, Record
  <2>1. ASSUME NEW f \in Files, LoseFile(f)
        PROVE  TypeOK' /\ Wf'
    BY <2>1 DEF LoseFile, Restrict
  <2>2. CASE ClearFails
    BY <2>2 DEF ClearFails, Restrict
  <2>3. CASE StateFails \/ FetchFails \/ ListFails
    BY <2>3 DEF StateFails, FetchFails, ListFails
  <2>4. CASE MkdirFails
    BY <2>4 DEF MkdirFails, Downloading
  <2>5. CASE WriteFails
    BY <2>5 DEF WriteFails
  <2>6. CASE Abort
    BY <2>6 DEF Abort
  <2>7. ASSUME NEW a \in Attachments, CreateFails(a)
        PROVE  TypeOK' /\ Wf'
    BY <2>7 DEF CreateFails, Downloading
  <2> QED
    BY <1>2, <2>1, <2>2, <2>3, <2>4, <2>5, <2>6, <2>7 DEF FaultStep
<1>3. CASE RunStep
  <2> USE Blanks, EndedType
          DEF wikiVars, diskVars, runVars, GoTo, Go, Process, Record
  <2>1. CASE Clear
    BY <2>1 DEF Clear
  <2>2. CASE StateDeleted \/ FetchDeleted
    BY <2>2 DEF StateDeleted, FetchDeleted, Drop
  <2>3. CASE StatePage \/ StateList \/ Fetch
    BY <2>3 DEF StatePage, StateList, Fetch
  <2>4. CASE List
    BY <2>4 DEF List, Listed
  <2>5. CASE Reuse
    BY <2>5 DEF Reuse, Page
  <2>6. CASE Write
    BY <2>6, SavedInFiles DEF Write, Page, Linked, Recorded, Signature
  <2>7. CASE RewriteFails \/ RemovePage \/ Save
    BY <2>7 DEF RewriteFails, RemovePage, Save
  <2>8. ASSUME NEW a \in Attachments, Skip(a)
        PROVE  TypeOK' /\ Wf'
    BY <2>8 DEF Skip, Downloading
  <2>9. ASSUME NEW a \in Attachments, Create(a)
        PROVE  TypeOK' /\ Wf'
    BY <2>9, SavedInFiles DEF Create, Downloading, Put, Content
  <2>10. ASSUME NEW a \in Attachments, Download(a)
         PROVE  TypeOK' /\ Wf'
    BY <2>10, Revisions DEF Download, Content
  <2>11. ASSUME NEW a \in Attachments, DownloadFails(a)
         PROVE  TypeOK' /\ Wf'
    BY <2>11, Counters DEF DownloadFails, Discarded, Restrict
  <2>12. ASSUME NEW f \in Files, Remove(f)
         PROVE  TypeOK' /\ Wf'
    BY <2>12 DEF Remove, Restrict
  <2> QED
    BY <1>3, <2>1, <2>2, <2>3, <2>4, <2>5, <2>6, <2>7, <2>8, <2>9, <2>10, <2>11, <2>12
    DEF RunStep
<1>4. ASSUME NEW c \in Configs, Start(c)
      PROVE  TypeOK' /\ Wf'
  BY <1>4, Blanks DEF Start, wikiVars, diskVars, Record
<1> QED
  BY <1>1, <1>2, <1>3, <1>4 DEF Next

-----------------------------------------------------------------------------
(* The course of a run, and what the past may have been. *)

RunInv == Resting /\ Loaded /\ Places /\ Named(meta) /\ Named(previous) /\ Named(record)

LEMMA RunInit == Init => RunInv
BY Blanks DEF Init, RunInv, Resting, Loaded, Places, Named, NoRecord

LEMMA RunNext ==
  ASSUME TypeOK, Wf, RunInv, Next
  PROVE  RunInv'
<1> USE DEF RunInv, Resting, Loaded, Places, Named
<1>1. ASSUME UNCHANGED <<runVars, touched, meta>>
      PROVE  RunInv'
  BY <1>1 DEF runVars
<1>2. ASSUME Ended, meta' \in {meta, record, NoRecord}
      PROVE  RunInv'
  BY <1>2, Blanks DEF Ended, NoRecord
<1>3. ASSUME NEW c \in Configs, Start(c)
      PROVE  RunInv'
  BY <1>3, Blanks DEF Start, diskVars, NoRecord
<1>4. CASE Clear
  BY <1>4, Blanks DEF Clear, NoRecord
<1>5. CASE StateDeleted \/ FetchDeleted
  BY <1>5, Blanks DEF StateDeleted, FetchDeleted, Drop, GoTo, diskVars, NoRecord
<1>6. CASE StatePage \/ StateList \/ StateFails \/ Fetch \/ FetchFails \/ ListFails
  BY <1>6
  DEF StatePage, StateList, StateFails, Fetch, FetchFails, ListFails, Go, GoTo, diskVars
<1>7. CASE List
  BY <1>7 DEF List, Listed, GoTo, diskVars
<1>8. CASE Reuse \/ WriteFails
  BY <1>8 DEF Reuse, WriteFails, Processed
<1>9. CASE MkdirFails
  BY <1>9 DEF MkdirFails, Downloading, Process
<1>10. ASSUME NEW a \in Attachments,
              Skip(a) \/ CreateFails(a) \/ Create(a) \/ Download(a) \/ DownloadFails(a)
       PROVE  RunInv'
  BY <1>10 DEF Skip, CreateFails, Create, Download, DownloadFails, Downloading, Process
<1>11. CASE Write
  BY <1>11 DEF Write, Processed, Recorded, Linked, Signature
<1>12. ASSUME NEW f \in Files, Remove(f)
       PROVE  RunInv'
  BY <1>12 DEF Remove, runVars
<1>13. CASE WikiStep
  BY <1>1, <1>13 DEF WikiStep, Edit, Toggle, Attach, Replace, Wiki, diskVars
<1>14. CASE FaultStep
  BY <1>1, <1>2, <1>6, <1>8, <1>9, <1>10, <1>14 DEF FaultStep, LoseFile, ClearFails, Abort
<1>15. CASE RunStep
  BY <1>1, <1>2, <1>4, <1>5, <1>6, <1>7, <1>8, <1>10, <1>11, <1>12, <1>15
  DEF RunStep, RewriteFails, RemovePage, Save, diskVars
<1> QED
  BY <1>3, <1>13, <1>14, <1>15 DEF Next

PastInv == Past /\ ListingPast

LEMMA PastInit == Init => PastInv
BY Blanks DEF Init, PastInv, Past, ListingPast

LEMMA PastNext ==
  ASSUME TypeOK, Wf, PastInv, Next
  PROVE  PastInv'
<1> USE DEF PastInv, Past, ListingPast
<1>1. ASSUME UNCHANGED rev, DOMAIN disk' \subseteq DOMAIN disk,
             \A f \in DOMAIN disk' : disk'[f] = disk[f],
             UNCHANGED listing \/ listing' = Unlisted
      PROVE  PastInv'
  BY <1>1, Blanks
<1>2. CASE WikiStep
  <2>1. UNCHANGED <<disk, listing>>
    BY <1>2 DEF WikiStep, Edit, Toggle, Attach, Replace, Wiki, diskVars, runVars
  <2>2. \A a \in Attachments : rev[a] \in Nat /\ rev'[a] \in Nat /\ rev[a] <= rev'[a]
    BY <1>2, Revisions DEF WikiStep, Edit, Toggle, Attach, Replace, TypeOK, Wf
  <2>3. Past'
    BY <2>1, <2>2 DEF TypeOK
  <2>4. \A a \in Attachments : 1..rev[a] \subseteq 1..rev'[a]
    BY <2>2
  <2> QED
    BY <2>1, <2>3, <2>4 DEF TypeOK
<1>3. CASE List
  <2>1. \A a \in Attachments : rev[a] \in 1..rev[a]
    BY Revisions DEF TypeOK
  <2> QED
    BY <1>3, <2>1 DEF List, Listed, GoTo, wikiVars, diskVars, TypeOK
<1>4. ASSUME NEW a \in Attachments, Create(a)
      PROVE  PastInv'
  BY <1>4, Revisions DEF Create, Put, Content, Process, wikiVars, TypeOK
<1>5. ASSUME NEW a \in Attachments, Download(a)
      PROVE  PastInv'
  BY <1>5, Revisions DEF Download, Content, Process, wikiVars, TypeOK
<1>6. ASSUME NEW a \in Attachments, Skip(a) \/ CreateFails(a) \/ DownloadFails(a)
      PROVE  PastInv'
  BY <1>1, <1>6 DEF Skip, CreateFails, DownloadFails, Discarded, Restrict, Process, wikiVars
<1>7. CASE Clear
  BY <1>1, <1>7, Blanks DEF Clear, wikiVars
<1>8. CASE FaultStep
  BY <1>1, <1>6, <1>8
  DEF FaultStep, LoseFile, ClearFails, StateFails, FetchFails, ListFails, MkdirFails, WriteFails,
      Abort, Ended, Restrict, Go, GoTo, Process, wikiVars, diskVars, runVars
<1>9. CASE RunStep
  BY <1>1, <1>3, <1>4, <1>5, <1>6, <1>7, <1>9
  DEF RunStep, StateDeleted, StatePage, StateList, FetchDeleted, Fetch, Reuse, Write,
      RewriteFails, Remove, RemovePage, Save, Ended, Restrict, Drop, Go, GoTo, wikiVars, diskVars,
      runVars
<1>10. ASSUME NEW c \in Configs, Start(c)
       PROVE  PastInv'
  BY <1>1, <1>10 DEF Start, wikiVars, diskVars
<1> QED
  BY <1>2, <1>8, <1>9, <1>10 DEF Next

-----------------------------------------------------------------------------
(* The directory. *)

DirInv ==
  /\ DOMAIN disk \subseteq meta.files \cup suspect \cup touched
  /\ Faithful(meta, suspect \cup touched)
  /\ Leading(suspect \cup touched)
  /\ Saving /\ Finishing

LEMMA DirInit == Init => DirInv
BY Blanks
DEF Init, DirInv, Faithful, Leading, Saving, Finishing, NoRecord, NoFile

\* Steps that leave the directory, and the account of what changed in it, alone.
LEMMA Untouched ==
  ASSUME DirInv, UNCHANGED <<diskVars, touched, suspect>>,
         phase' # "finish", phase' = "process" => saved' = {} /\ current' = {} /\ touched = {}
  PROVE  DirInv'
BY DEF DirInv, Faithful, Leading, Intact, Since, Saving, Finishing, diskVars

LEMMA Unmoved ==
  ASSUME DirInv, UNCHANGED <<diskVars, runVars, touched, suspect>>
  PROVE  DirInv'
BY DEF DirInv, Faithful, Leading, Intact, Since, Saving, Finishing, PageStale, Stale, diskVars,
       runVars

\* The run ends before it saves metadata.json.
LEMMA Broken ==
  ASSUME DirInv, Wf, Ended, UNCHANGED <<disk, meta>>,
         file' \in {file, TornFile}, suspect' = suspect \cup touched
  PROVE  DirInv'
BY Blanks DEF DirInv, Faithful, Leading, Intact, Since, Saving, Finishing, Ended

\* The end of the visit, when the run has not changed the directory's account.
LEMMA Finish ==
  ASSUME TypeOK, Wf, RunInv, DirInv, UNCHANGED <<disk, meta, previous>>, Leading(suspect)',
         DOMAIN disk \subseteq meta.files \cup suspect',
         previous = meta, phase' = "finish", touched' = {},
         suspect' = suspect \cup touched,
         \/ record' = previous
         \/ record' = NoRecord /\ UNCHANGED file
  PROVE  DirInv'
<1> USE DEF DirInv
<1>1. Faithful(meta, suspect)'
  BY DEF Faithful, Intact, Since
<1>2. Faithful(record, suspect)'
  BY <1>1 DEF Faithful, NoRecord
<1>3. (PageStale \/ \A a \in file.links : SavedName[a] \notin Stale)'
  BY DEF PageStale, Stale, NoRecord, Wf
<1> QED
  BY <1>1, <1>2, <1>3 DEF Saving, Finishing

LEMMA DirNext ==
  ASSUME TypeOK, Wf, RunInv, PastInv, DirInv, Next
  PROVE  DirInv'
<1>1. CASE WikiStep
  BY <1>1, Unmoved DEF WikiStep, Edit, Toggle, Attach, Replace, Wiki
<1>2. ASSUME NEW c \in Configs, Start(c)
      PROVE  DirInv'
  <2>1. phase' \in {"clear", "state"}
    BY <1>2 DEF Start
  <2>2. UNCHANGED <<diskVars, touched, suspect>>
    BY <1>2 DEF Start
  <2> QED
    BY <2>1, <2>2, Untouched
<1>3. ASSUME NEW f \in Files, LoseFile(f)
      PROVE  DirInv'
  BY <1>3 DEF LoseFile, DirInv, Faithful, Leading, Intact, Since, Saving, Finishing, Restrict,
     runVars
<1>4. CASE ClearFails
  BY <1>4, Blanks
  DEF ClearFails, Ended, DirInv, Faithful, Leading, Intact, Since, Saving, Finishing, Restrict,
     NoRecord, RunInv, Resting, NoFile
<1>5. CASE Clear
  BY <1>5, Blanks
  DEF Clear, DirInv, Faithful, Leading, Saving, Finishing, NoRecord, NoFile
<1>6. CASE StatePage \/ StateList \/ StateFails \/ Fetch \/ List \/ ListFails
  BY <1>6, Untouched
  DEF StatePage, StateList, StateFails, Fetch, List, ListFails, Go, GoTo, RunInv, Resting
<1>7. CASE StateDeleted \/ FetchDeleted \/ FetchFails
  <2>1. touched = {} /\ previous = meta /\ record = previous
    BY <1>7 DEF StateDeleted, FetchDeleted, FetchFails, RunInv, Resting, Loaded
  <2> QED
    BY <1>7, <2>1, Finish
    DEF StateDeleted, FetchDeleted, FetchFails, Drop, Go, GoTo, DirInv, Leading, Intact, diskVars
<1>8. CASE Reuse
  <2>1. touched = {} /\ previous = meta /\ record = previous
    BY <1>8 DEF Reuse, RunInv, Resting, Loaded
  <2>2. \A a \in meta.links : a \in Attachments /\ SavedName[a] \in meta.files
    BY DEF RunInv, Named, TypeOK, Record
  <2>3. Leading(suspect)'
    BY <1>8, <2>1, <2>2 DEF Reuse, Page, DirInv, Leading, Faithful, Intact
  <2> QED
    BY <1>8, <2>1, <2>3, Finish DEF Reuse, DirInv
<1>9. CASE WriteFails
  <2>1. phase \in {"process", "reuse"}
    BY <1>9 DEF WriteFails, Processed
  <2>2. previous = meta /\ record = previous
    BY <2>1 DEF RunInv, Loaded
  <2>3. Leading(suspect)'
    BY <1>9, Blanks DEF WriteFails, Torn, DirInv, Leading, Intact
  <2> QED
    BY <1>9, <2>1, <2>2, <2>3, Finish DEF WriteFails, DirInv
<1>10. CASE Abort \/ RewriteFails
  BY <1>10, Broken DEF Abort, RewriteFails, Torn, diskVars
<1>11. ASSUME NEW a \in Attachments, Skip(a) \/ CreateFails(a)
       PROVE  DirInv'
  BY <1>11
  DEF Skip, CreateFails, Downloading, Process, DirInv, Faithful, Leading, Intact, Since, Saving,
      Finishing
<1>12. CASE MkdirFails
  BY <1>12
  DEF MkdirFails, Downloading, Process, DirInv, Faithful, Leading, Intact, Since, Saving,
      Finishing
<1>13. ASSUME NEW a \in Attachments, Create(a)
       PROVE  DirInv'
  <2> USE DEF DirInv
  <2>1. phase' = "process" /\ UNCHANGED <<file, meta, suspect, saved, listing>>
    BY <1>13 DEF Create, Downloading, Process
  <2>2. /\ current' = {a} /\ a \notin saved
        /\ DOMAIN disk' = DOMAIN disk \cup {SavedName[a]}
        /\ touched' = touched \cup {SavedName[a]}
        /\ \A n \in DOMAIN disk : n # SavedName[a] => disk'[n] = disk[n]
    BY <1>13 DEF Create, Put, RunInv, Places
  <2>3. (DOMAIN disk \subseteq meta.files \cup suspect \cup touched)'
    BY <2>1, <2>2
  <2>4. Faithful(meta, suspect \cup touched)' /\ Leading(suspect \cup touched)'
    BY <2>1, <2>2 DEF Faithful, Leading, Intact, Since
  <2>5. \A b \in saved : Alone(b) => SavedName[b] # SavedName[a]
    BY <2>2 DEF Alone
  <2>6. Saving'
    BY <1>13, <2>1, <2>2, <2>5 DEF Saving, Create, Downloading, Intact, Since
  <2> QED
    BY <2>1, <2>3, <2>4, <2>6 DEF Finishing
<1>14. ASSUME NEW a \in Attachments, Download(a)
       PROVE  DirInv'
  <2> USE DEF DirInv
  <2>1. phase' = "process" /\ UNCHANGED <<file, meta, suspect, listing, touched>>
    BY <1>14 DEF Download, Process
  <2>2. phase = "process" /\ current = {a} /\ current' = {} /\ saved' = saved \cup {a}
    BY <1>14 DEF Download, RunInv, Places
  <2>3. SavedName[a] \in touched \cap DOMAIN disk
    BY <2>2 DEF Saving
  <2>4. /\ DOMAIN disk' = DOMAIN disk /\ disk'[SavedName[a]] = Content(a, rev[a])
        /\ \A n \in DOMAIN disk : n # SavedName[a] => disk'[n] = disk[n]
    BY <1>14, <2>3 DEF Download
  <2>5. Faithful(meta, suspect \cup touched)' /\ Leading(suspect \cup touched)'
    BY <2>1, <2>3, <2>4 DEF Faithful, Leading, Intact, Since
  <2>6. \A b \in saved : Alone(b) => b = a \/ SavedName[b] # SavedName[a]
    BY DEF Alone
  <2>7. Intact(a)' /\ Since(listing.sizes, a)'
    <3>1. a \in DOMAIN listing.sizes
      BY <2>2 DEF RunInv, Places
    <3>2. \E r \in 1..rev[a] : listing.sizes[a] = Sizes[a][r]
      BY <3>1 DEF PastInv, ListingPast
    <3> QED
      BY <2>1, <2>3, <2>4, <3>2, Revisions DEF Intact, Since, Content, TypeOK
  <2>8. \A b \in saved : Alone(b) => Intact(b)' /\ Since(listing.sizes, b)'
    BY <2>1, <2>2, <2>4, <2>6, <2>7 DEF Saving, Intact, Since
  <2>9. Saving'
    BY <2>1, <2>2, <2>4, <2>7, <2>8 DEF Saving
  <2> QED
    BY <2>1, <2>4, <2>5, <2>9 DEF Finishing
<1>15. ASSUME NEW a \in Attachments, DownloadFails(a)
       PROVE  DirInv'
  <2> USE DEF DirInv
  <2>1. phase' = "process" /\ UNCHANGED <<file, meta, suspect, saved, listing, touched>>
    BY <1>15 DEF DownloadFails, Process
  <2>2. phase = "process" /\ current = {a} /\ current' = {} /\ a \notin saved
    BY <1>15 DEF DownloadFails, RunInv, Places
  <2>3. SavedName[a] \in touched
    BY <2>2 DEF Saving
  <2>4. /\ DOMAIN disk' = DOMAIN disk \ {SavedName[a]}
        /\ \A n \in DOMAIN disk' : disk'[n] = disk[n]
    BY <1>15 DEF DownloadFails, Discarded, Restrict
  <2>5. Faithful(meta, suspect \cup touched)' /\ Leading(suspect \cup touched)'
    BY <2>1, <2>3, <2>4 DEF Faithful, Leading, Intact, Since
  <2>6. \A b \in saved : Alone(b) => SavedName[b] # SavedName[a]
    BY <2>2 DEF Alone
  <2>7. Saving'
    BY <2>1, <2>2, <2>4, <2>6 DEF Saving, Intact, Since
  <2> QED
    BY <2>1, <2>4, <2>5, <2>7 DEF Finishing
<1>16. CASE Write
  <2> USE DEF DirInv
  <2>1. /\ UNCHANGED <<disk, meta, previous, touched, suspect>> /\ phase' = "finish"
        /\ file'.links = saved /\ record'.files = {SavedName[a] : a \in saved}
        /\ record'.signature.sizes = listing.sizes
    BY <1>16 DEF Write, Page, Linked, Recorded, Signature
  <2>2. /\ touched \cap DOMAIN disk \subseteq record'.files
        /\ \A a \in saved : Alone(a) => Intact(a) /\ Since(listing.sizes, a)
    BY <1>16, <2>1 DEF Write, Processed, Saving
  <2>3. \A a \in Attachments : Alone(a) /\ SavedName[a] \in record'.files => a \in saved
    BY <2>1 DEF Alone, TypeOK
  <2>4. Faithful(meta, suspect \cup touched)'
    BY <2>1 DEF Faithful, Intact, Since
  <2>5. Leading(suspect \cup touched)' /\ Leading(suspect \ touched)'
    BY <2>1, <2>2 DEF Leading, Intact
  <2>6. Faithful(record, suspect \ touched)'
    BY <2>1, <2>2, <2>3 DEF Faithful, Intact, Since
  <2>7. (\A a \in file.links : SavedName[a] \notin Stale)'
    BY <2>1 DEF Stale
  <2> QED
    BY <2>1, <2>2, <2>4, <2>5, <2>6, <2>7 DEF Saving, Finishing
<1>17. ASSUME NEW f \in Files, Remove(f)
       PROVE  DirInv'
  <2> USE DEF DirInv
  <2>1. /\ phase = "finish" /\ phase' = "finish" /\ f \in Stale
        /\ UNCHANGED <<file, meta, previous, record, suspect>>
        /\ touched' = touched \cup {f}
        /\ DOMAIN disk' = DOMAIN disk \ {f} /\ \A n \in DOMAIN disk' : disk'[n] = disk[n]
    BY <1>17 DEF Remove, Restrict, runVars
  <2>2. Faithful(meta, suspect \cup touched)' /\ Leading(suspect \cup touched)'
    BY <2>1 DEF Faithful, Leading, Intact, Since
  <2>3. Faithful(record, suspect \ touched)'
    BY <2>1 DEF Finishing, Faithful, Intact, Since, Stale
  <2>4. \/ PageStale'
        \/ Leading(suspect \ touched)' /\ (\A a \in file.links : SavedName[a] \notin Stale)'
    BY <2>1 DEF Finishing, PageStale, Leading, Intact, Stale
  <2>5. (DOMAIN disk \subseteq meta.files \cup suspect \cup touched)'
    BY <2>1
  <2>6. (touched \cap DOMAIN disk \subseteq record.files)'
    BY <2>1 DEF Finishing
  <2> QED
    BY <2>1, <2>2, <2>3, <2>4, <2>5, <2>6 DEF Saving, Finishing
<1>18. CASE RemovePage
  BY <1>18, Blanks
  DEF RemovePage, DirInv, Faithful, Leading, Intact, Since, Saving, Finishing, PageStale, Stale,
      runVars
<1>19. CASE Save
  <2> USE DEF DirInv
  <2>1. /\ phase = "finish" /\ ~PageStale /\ Stale \cap DOMAIN disk = {}
        /\ phase' = "idle" /\ touched' = {} /\ suspect' = suspect \ touched
        /\ UNCHANGED <<disk, file>> /\ meta' = record
    BY <1>19 DEF Save, Ended
  <2>2. previous = meta
    BY <2>1 DEF RunInv, Loaded
  <2>3. (DOMAIN disk \subseteq meta.files \cup suspect \cup touched)'
    BY <2>1, <2>2 DEF Finishing, Stale
  <2>4. Faithful(meta, suspect \cup touched)' /\ Leading(suspect \cup touched)'
    BY <2>1 DEF Finishing, Faithful, Leading, Intact, Since
  <2> QED
    BY <2>1, <2>3, <2>4 DEF Saving, Finishing
<1>20. CASE FaultStep
  BY <1>3, <1>4, <1>6, <1>7, <1>9, <1>10, <1>11, <1>12, <1>20 DEF FaultStep
<1>21. CASE RunStep
  BY <1>5, <1>6, <1>7, <1>8, <1>10, <1>11, <1>13, <1>14, <1>15, <1>16, <1>17, <1>18, <1>19, <1>21
  DEF RunStep
<1> QED
  BY <1>1, <1>2, <1>20, <1>21 DEF Next

-----------------------------------------------------------------------------
(* The theorems. *)

IInv == TypeOK /\ Wf /\ RunInv /\ PastInv /\ DirInv

LEMMA Inductive == Spec => []IInv
<1>1. Init => IInv
  BY TypeInit, RunInit, PastInit, DirInit DEF IInv
<1>2. IInv /\ [Next]_vars => IInv'
  <2> SUFFICES ASSUME IInv, [Next]_vars
               PROVE  IInv'
    OBVIOUS
  <2>1. CASE Next
    BY <2>1, TypeNext, RunNext, PastNext, DirNext DEF IInv
  <2>2. CASE UNCHANGED vars
    <3>1. TypeOK' /\ Wf'
      BY <2>2 DEF IInv, TypeOK, Wf, Record, vars, wikiVars, diskVars, runVars
    <3>2. RunInv' /\ PastInv'
      BY <2>2
      DEF IInv, RunInv, Resting, Loaded, Places, Named, PastInv, Past, ListingPast, vars, wikiVars,
          diskVars, runVars
    <3>3. DirInv'
      BY <2>2, Unmoved DEF IInv, vars
    <3> QED
      BY <3>1, <3>2, <3>3 DEF IInv
  <2> QED
    BY <2>1, <2>2
<1> QED
  BY <1>1, <1>2, PTL DEF Spec

\* Every variable has its type, and the counters stay within their bounds, in the
\* transitions of finalize.go, run_pipeline.go and attachments.go.
THEOREM TypeCorrect == Spec => []TypeOK
<1>1. IInv => TypeOK
  BY DEF IInv
<1> QED
  BY <1>1, Inductive, PTL

\* Between runs, every file name in a record of metadata.json is that of a completely
\* downloaded file of its attachment, unless a run that failed or somebody touched it.
THEOREM RecordedCorrect == Spec => []RecordedExist
<1>1. IInv => RecordedExist
  BY DEF IInv, RecordedExist, Idle, RunInv, Resting, DirInv, Faithful
<1> QED
  BY <1>1, Inductive, PTL

\* Between runs, attachments/ has no other files: finalizeRun removes those that are
\* no longer produced, and a failed download its own.
THEOREM NoOrphansCorrect == Spec => []NoOrphans
<1>1. IInv => NoOrphans
  BY DEF IInv, NoOrphans, Idle, RunInv, Resting, DirInv
<1> QED
  BY <1>1, Inductive, PTL

\* Between runs, the local links of the page file lead to complete files, also when
\* processReusedPage made the file again from the record.
THEOREM LinksCorrect == Spec => []LinksResolve
<1>1. IInv => LinksResolve
  BY DEF IInv, LinksResolve, Idle, RunInv, Resting, DirInv, Leading
<1> QED
  BY <1>1, Inductive, PTL

\* A page that the next run will find clean shows the current revisions, although
\* the signature is of the listing and the file of a later download.
THEOREM CleanCorrect == Spec => []CleanIsCurrent
<1>1. IInv => CleanIsCurrent
  <2> SUFFICES ASSUME IInv, Idle, meta.signature = Signature(Listed), NEW a \in meta.links,
                      SavedName[a] \notin suspect, Alone(a), Distinct(a)
               PROVE  disk[SavedName[a]] = Content(a, rev[a])
    BY DEF CleanIsCurrent
  <2>1. a \in Attachments /\ SavedName[a] \in meta.files /\ a \in DOMAIN meta.signature.sizes
    BY DEF IInv, TypeOK, Record, RunInv, Named
  <2>2. Intact(a) /\ Since(meta.signature.sizes, a)
    BY <2>1 DEF IInv, DirInv, Faithful, RunInv, Resting, Idle
  <2>3. meta.signature.sizes[a] = Sizes[a][rev[a]]
    BY <2>1 DEF Signature, Listed
  <2>4. PICK r \in 1..disk[SavedName[a]].rev : Sizes[a][rev[a]] = Sizes[a][r]
    BY <2>2, <2>3 DEF Since
  <2>5. disk[SavedName[a]].of = a /\ disk[SavedName[a]].rev \in 1..rev[a]
    BY <2>1, <2>2, Revisions DEF Intact, IInv, TypeOK, PastInv, Past
  <2>6. r = rev[a]
    BY <2>1, <2>4, <2>5, Revisions DEF Distinct, IInv, TypeOK
  <2> QED
    BY <2>1, <2>2, <2>4, <2>5, <2>6, Revisions DEF Intact, IInv, TypeOK, Wf
<1> QED
  BY <1>1, Inductive, PTL
=============================================================================
