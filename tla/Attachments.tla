----------------------------- MODULE Attachments ----------------------------
(***************************************************************************)
(* The attachments of a page over successive runs: listing, signature,     *)
(* download, the links of the page's Markdown, the record and the removal  *)
(* of files that are no longer produced, while people edit the page and    *)
(* its attachments, requests and writes fail and runs are killed.          *)
(*                                                                         *)
(* A saved file name starts with the page key, so pages share none, and    *)
(* one page, a seed, is enough.  Its text shows all attachments.  A name   *)
(* is a sequence of words and of the characters that are treated specially *)
(* when it becomes a file name.                                            *)
(***************************************************************************)
EXTENDS Naturals, FiniteSets, Sequences, FiniteSetsExt, Functions

CONSTANTS Attachments,  \* attachment IDs
          Name,         \* Name[a]: its name
          Sizes,        \* Sizes[a][r]: size of revision r of a
          Configs,      \* mode, attachments.download and max_size_mb of the runs
          MaxEdits,     \* bound: edits of the page, attachments added or removed
          MaxFaults     \* bound: failed requests and writes, killed runs, lost files

ASSUME AttachmentsAssumption ==
  /\ Name \in [Attachments -> Seq(STRING)]
  /\ Sizes \in [Attachments -> Seq(Nat \ {0})] /\ \A a \in Attachments : Len(Sizes[a]) > 0
  /\ Configs \subseteq [mode : {"full", "updates"}, download : BOOLEAN, limit : Nat]
  /\ MaxEdits \in Nat /\ MaxFaults \in Nat

(* PageAttachmentFilename, sanitizeAttachmentFilename. *)

Separators == {" ", "/", "\\"}
Dropped == {"control"}                         \* any control character

Replaced(n) == [i \in DOMAIN n |-> IF n[i] \in Separators THEN "_" ELSE n[i]]
Printable(n) == SelectSeq(n, LAMBDA c : c \notin Dropped)

\* Without dots at its ends.
Trimmed(n) ==
  LET kept == {i \in DOMAIN n : n[i] # "."}
  IN  IF kept = {} THEN <<"attachment">> ELSE SubSeq(n, Min(kept), Max(kept))

\* The name a is saved under, less the page key.
SavedName == [a \in Attachments |-> Trimmed(Printable(Replaced(Name[a])))]

Files == Range(SavedName)

VARIABLES
  version, live, attached, rev,  \* the page and its attachments in the wiki
  disk, file, meta,              \* attachments/, the page's file, its record in metadata.json
  phase, config,                 \* the run: where it is, its configuration
  previous, record,              \* the record as loaded, as being updated
  fetched, listing,              \* version and attachments as fetched
  todo, current, saved,          \* downloads to come, going on, done
  touched, suspect,              \* history: files changed since metadata.json was saved,
                                 \* by this run, by runs that did not get that far
  edits, faults                  \* counters of the bounds

wikiVars == <<version, live, attached, rev>>
diskVars == <<disk, file, meta>>
runVars  == <<phase, config, previous, record, fetched, listing, todo, current, saved>>
vars == <<wikiVars, diskVars, runVars, touched, suspect, edits, faults>>

Empty == [x \in {} |-> x]
Put(f, x, y) == [z \in DOMAIN f \cup {x} |-> IF z = x THEN y ELSE f[z]]

\* GetPageAttachments: all attachments with their sizes; a listing that fails on
\* any of its pages yields nothing.
Unlisted == [known |-> FALSE, sizes |-> Empty]
Listed   == [known |-> TRUE, sizes |-> [a \in attached |-> Sizes[a][rev[a]]]]

\* ComputeAttachmentSignature: IDs, names, media types (which belong to the ID)
\* and sizes, in no order; "none" if there are none, empty if not listed.
SizelessSignature(l) ==                        \* Mutant of Signature
  [l EXCEPT !.sizes = [a \in DOMAIN @ |-> 0]]
Signature(l) == l

\* A file in attachments/; revision 0 is an incomplete file.
Content(a, r) == [of |-> a, rev |-> r]

\* The page's file: the version it renders, the attachments whose links are local.
NoFile   == [present |-> FALSE, version |-> 0, links |-> {}]
TornFile == [present |-> TRUE, version |-> 0, links |-> {}]
Page(v, ls) == [present |-> TRUE, version |-> v, links |-> ls]

\* The page's record: version, attachments, attachment_signature, and of
\* storage_format the local links.
NoRecord == [version |-> 0, files |-> {}, signature |-> Unlisted, links |-> {}]

NoConfig == [mode |-> "none", download |-> FALSE, limit |-> 0]

Init ==
  /\ version = 1 /\ live = TRUE
  /\ attached \in SUBSET Attachments /\ rev = [a \in Attachments |-> 1]
  /\ disk = Empty /\ file = NoFile /\ meta = NoRecord
  /\ phase = "idle" /\ config = NoConfig
  /\ previous = NoRecord /\ record = NoRecord
  /\ fetched = 0 /\ listing = Unlisted
  /\ todo = {} /\ current = {} /\ saved = {}
  /\ touched = {} /\ suspect = {} /\ edits = 0 /\ faults = 0

-----------------------------------------------------------------------------
(* The wiki, at any time. *)

Wiki == UNCHANGED <<diskVars, runVars, touched, suspect, faults>>

Counted == edits < MaxEdits /\ edits' = edits + 1

Edit ==
  /\ Wiki /\ Counted
  /\ version' = version + 1
  /\ UNCHANGED <<live, attached, rev>>

\* The page is trashed or restored.
Toggle ==
  /\ Wiki /\ Counted
  /\ live' = ~live
  /\ UNCHANGED <<version, attached, rev>>

\* Attachment a is added, removed or restored; the page's version stays.
Attach(a) ==
  /\ Wiki /\ Counted
  /\ attached' = IF a \in attached THEN attached \ {a} ELSE attached \cup {a}
  /\ UNCHANGED <<version, live, rev>>

\* A new revision of a is uploaded: same ID, name and media type.
Replace(a) ==
  /\ Wiki
  /\ a \in attached /\ rev[a] < Len(Sizes[a])
  /\ rev' = [rev EXCEPT ![a] = @ + 1]
  /\ UNCHANGED <<version, live, attached, edits>>

-----------------------------------------------------------------------------
Fault == faults < MaxFaults /\ faults' = faults + 1

\* The run ends and its memory is gone.
Ended ==
  /\ phase' = "idle" /\ config' = NoConfig
  /\ previous' = NoRecord /\ record' = NoRecord
  /\ fetched' = 0 /\ listing' = Unlisted
  /\ todo' = {} /\ current' = {} /\ saved' = {} /\ touched' = {}

\* Somebody removes an attachment's file.
LoseFile(f) ==
  /\ phase = "idle" /\ f \in DOMAIN disk
  /\ Fault
  /\ disk' = Restrict(disk, DOMAIN disk \ {f})
  /\ suspect' = suspect \cup {f}
  /\ UNCHANGED <<wikiVars, file, meta, runVars, touched, edits>>

\* bootstrapRun.
Start(c) ==
  /\ phase = "idle"
  /\ config' = c
  /\ phase' = IF c.mode = "full" THEN "clear" ELSE "state"
  /\ previous' = IF c.mode = "full" THEN NoRecord ELSE meta
  /\ record' = previous'
  /\ UNCHANGED <<wikiVars, diskVars, fetched, listing, todo, current, saved, touched, suspect,
                 edits, faults>>

Clear ==
  /\ phase = "clear"
  /\ disk' = Empty /\ file' = NoFile /\ meta' = NoRecord
  /\ suspect' = {}
  /\ phase' = "fetch"
  /\ UNCHANGED <<wikiVars, config, previous, record, fetched, listing, todo, current, saved,
                 touched, edits, faults>>

\* A run that fails or is killed while it clears leaves some entries behind.
ClearFails ==
  /\ phase = "clear"
  /\ Fault
  /\ \E s \in SUBSET DOMAIN disk : disk' = Restrict(disk, s)
  /\ file' \in {file, NoFile} /\ meta' \in {meta, NoRecord}
  /\ suspect' = suspect \cup DOMAIN disk
  /\ Ended
  /\ UNCHANGED <<wikiVars, edits>>

-----------------------------------------------------------------------------
(* The traversal's visit to the page. *)

GoTo(p) ==
  /\ phase' = p
  /\ UNCHANGED <<wikiVars, diskVars, config, previous, current, saved, touched, suspect, edits>>

\* The page is found deleted: its record is pruned.
Drop ==
  /\ GoTo("finish")
  /\ record' = NoRecord
  /\ UNCHANGED <<fetched, listing, todo, faults>>

Go(p) == GoTo(p) /\ UNCHANGED <<record, fetched, listing, todo>>

StateDeleted == phase = "state" /\ ~live /\ Drop

\* processUpdatesNode asks for the page first, then for its attachments.
StatePage ==
  /\ phase = "state" /\ live
  /\ UNCHANGED faults
  /\ IF previous.version # version THEN Go("fetch")
     ELSE IF config.download THEN Go("stateList")
     ELSE Go("reuse")

StateList ==
  /\ phase = "stateList"
  /\ UNCHANGED faults
  /\ IF previous.signature # Signature(Listed) THEN Go("fetch") ELSE Go("reuse")

\* A state that could not be read counts as dirty.
StateFails == phase \in {"state", "stateList"} /\ Fault /\ Go("fetch")

FetchDeleted == phase = "fetch" /\ ~live /\ Drop

\* processFullNode: the page, then its attachments.
Fetch ==
  /\ phase = "fetch" /\ live
  /\ GoTo(IF config.download THEN "list" ELSE "process")
  /\ fetched' = version
  /\ UNCHANGED <<record, listing, todo, faults>>

\* A page that could not be fetched keeps its record.
FetchFails == phase = "fetch" /\ Fault /\ Go("finish")

List ==
  /\ phase = "list"
  /\ GoTo("process")
  /\ listing' = Listed /\ todo' = attached
  /\ UNCHANGED <<record, fetched, faults>>

\* Not fatal: the page is processed without attachments and without a signature.
ListFails == phase = "list" /\ Fault /\ Go("process")

-----------------------------------------------------------------------------
(* processReusedPage, processRerenderedPage, DownloadPageAttachments. *)

\* A clean page keeps its record and its file; a missing file is made from the
\* stored Markdown.  Its attachments are not looked at.
Reuse ==
  /\ phase = "reuse"
  /\ file' = IF file.present THEN file ELSE Page(previous.version, previous.links)
  /\ phase' = "finish"
  /\ UNCHANGED <<wikiVars, disk, meta, config, previous, record, fetched, listing, todo, current,
                 saved, touched, suspect, edits, faults>>

Downloading == phase = "process" /\ current = {}

Process ==
  UNCHANGED <<wikiVars, file, meta, phase, config, previous, record, fetched, listing, suspect,
              edits>>

\* ClassifyAttachment.
TooLarge(size) == config.limit > 0 /\ size > config.limit

Skip(a) ==
  /\ Downloading /\ a \in todo /\ TooLarge(listing.sizes[a])
  /\ todo' = todo \ {a}
  /\ Process /\ UNCHANGED <<disk, current, saved, touched, faults>>

\* The directory cannot be made: nothing is downloaded.
MkdirFails ==
  /\ Downloading /\ todo = DOMAIN listing.sizes /\ todo # {}
  /\ Fault
  /\ todo' = {}
  /\ Process /\ UNCHANGED <<disk, current, saved, touched>>

CreateFails(a) ==
  /\ Downloading /\ a \in todo /\ ~TooLarge(listing.sizes[a])
  /\ Fault
  /\ todo' = todo \ {a}
  /\ Process /\ UNCHANGED <<disk, current, saved, touched>>

\* os.Create empties a file that is already there.
Create(a) ==
  /\ Downloading /\ a \in todo /\ ~TooLarge(listing.sizes[a])
  /\ disk' = Put(disk, SavedName[a], Content(a, 0))
  /\ todo' = todo \ {a} /\ current' = {a}
  /\ touched' = touched \cup {SavedName[a]}
  /\ Process /\ UNCHANGED <<saved, faults>>

\* DownloadAttachment reads what is there now, within the limit.
Downloadable(a) == a \in attached /\ ~TooLarge(Sizes[a][rev[a]])

Download(a) ==
  /\ phase = "process" /\ a \in current
  /\ Downloadable(a)
  /\ disk' = [disk EXCEPT ![SavedName[a]] = Content(a, rev[a])]
  /\ saved' = saved \cup {a} /\ current' = {}
  /\ Process /\ UNCHANGED <<todo, touched, faults>>

\* What a failed download leaves: the file is removed.
KeepPartial(f) == disk                         \* Mutant of Discarded
Discarded(f) == Restrict(disk, DOMAIN disk \ {f})

DownloadFails(a) ==
  /\ phase = "process" /\ a \in current
  /\ IF Downloadable(a) THEN Fault ELSE UNCHANGED faults
  /\ disk' = Discarded(SavedName[a])
  /\ current' = {}
  /\ Process /\ UNCHANGED <<todo, saved, touched>>

\* The attachments whose links rewriteAttachmentLinks makes local.
LinkedUnchecked == DOMAIN listing.sizes        \* Mutant of Linked
Linked == saved

\* The file names the record keeps.
RecordedUnchecked == {SavedName[a] : a \in DOMAIN listing.sizes}   \* Mutant of Recorded
Recorded == {SavedName[a] : a \in saved}

Processed == phase = "process" /\ todo = {} /\ current = {}

Write ==
  /\ Processed
  /\ file' = Page(fetched, Linked)
  /\ record' = [version |-> fetched, files |-> Recorded, signature |-> Signature(listing),
                links |-> Linked]
  /\ phase' = "finish"
  /\ UNCHANGED <<wikiVars, disk, meta, config, previous, fetched, listing, todo, current, saved,
                 touched, suspect, edits, faults>>

\* The page file that the run may be writing is left torn, or not.
Torn == IF Processed \/ (phase = "reuse" /\ ~file.present) THEN {file, TornFile} ELSE {file}

\* A page that could not be written keeps its record; its attachments may have
\* changed already.
WriteFails ==
  /\ Processed \/ (phase = "reuse" /\ ~file.present)
  /\ Fault
  /\ file' \in Torn
  /\ phase' = "finish"
  /\ suspect' = suspect \cup touched /\ touched' = {}
  /\ UNCHANGED <<wikiVars, disk, meta, config, previous, record, fetched, listing, todo, current,
                 saved, edits>>

-----------------------------------------------------------------------------
(* finalizeRun. *)

\* Rewriting page links needs the file of every record.
HasFile == record # NoRecord => file.present

RewriteFails ==
  /\ phase = "finish" /\ ~HasFile
  /\ Ended
  /\ suspect' = suspect \cup touched
  /\ UNCHANGED <<wikiVars, diskVars, edits, faults>>

\* Attachments of the record that was loaded that are not in the new one.
NoAttachmentsManaged == {}                     \* Mutants of Stale
AllOldStale == previous.files
Stale == previous.files \ record.files

Remove(f) ==
  /\ phase = "finish" /\ HasFile /\ f \in Stale \cap DOMAIN disk
  /\ disk' = Restrict(disk, DOMAIN disk \ {f})
  /\ touched' = touched \cup {f}
  /\ UNCHANGED <<wikiVars, file, meta, runVars, suspect, edits, faults>>

PageStale == previous # NoRecord /\ record = NoRecord /\ file.present

RemovePage ==
  /\ phase = "finish" /\ PageStale
  /\ file' = NoFile
  /\ UNCHANGED <<wikiVars, disk, meta, runVars, touched, suspect, edits, faults>>

Save ==
  /\ phase = "finish" /\ HasFile /\ ~PageStale /\ Stale \cap DOMAIN disk = {}
  /\ meta' = record
  /\ suspect' = suspect \ touched
  /\ Ended
  /\ UNCHANGED <<wikiVars, disk, file, edits, faults>>

\* The run returns an error or is killed.
Abort ==
  /\ phase \notin {"idle", "clear"}
  /\ Fault
  /\ file' \in Torn
  /\ suspect' = suspect \cup touched
  /\ Ended
  /\ UNCHANGED <<wikiVars, disk, meta, edits>>

-----------------------------------------------------------------------------
WikiStep == Edit \/ Toggle \/ \E a \in Attachments : Attach(a) \/ Replace(a)

FaultStep ==
  \/ \E f \in Files : LoseFile(f)
  \/ ClearFails \/ StateFails \/ FetchFails \/ ListFails \/ MkdirFails \/ WriteFails \/ Abort
  \/ \E a \in Attachments : CreateFails(a)

RunStep ==
  \/ Clear \/ StateDeleted \/ StatePage \/ StateList \/ FetchDeleted \/ Fetch \/ List
  \/ Reuse \/ Write \/ RewriteFails \/ RemovePage \/ Save
  \/ \E a \in Attachments : Skip(a) \/ Create(a) \/ Download(a) \/ DownloadFails(a)
  \/ \E f \in Files : Remove(f)

Next == WikiStep \/ FaultStep \/ RunStep \/ \E c \in Configs : Start(c)

Spec == Init /\ [][Next]_vars

-----------------------------------------------------------------------------
(* Properties.  Between runs, metadata.json describes the directory, except *)
(* for the suspect files: those that a run changed without getting as far  *)
(* as saving metadata.json, or that somebody removed.                      *)

Idle == phase = "idle"

Record(r) ==
  /\ r.version \in Nat /\ r.files \subseteq Files /\ r.links \subseteq Attachments
  /\ r.signature.known \in BOOLEAN /\ DOMAIN r.signature.sizes \subseteq Attachments

\* Every variable has its type.
TypeOK ==
  /\ version \in Nat /\ live \in BOOLEAN /\ attached \subseteq Attachments
  /\ \A a \in Attachments : rev[a] \in 1..Len(Sizes[a])
  /\ DOMAIN disk \subseteq Files
  /\ \A f \in DOMAIN disk : disk[f].of \in Attachments /\ disk[f].rev \in Nat
  /\ file \in [present : BOOLEAN, version : Nat, links : SUBSET Attachments]
  /\ Record(meta) /\ Record(previous) /\ Record(record)
  /\ phase \in {"idle", "clear", "state", "stateList", "fetch", "list", "reuse", "process",
                "finish"}
  /\ config \in Configs \cup {NoConfig}
  /\ fetched \in Nat /\ DOMAIN listing.sizes \subseteq Attachments
  /\ todo \subseteq Attachments /\ current \subseteq Attachments /\ saved \subseteq Attachments
  /\ touched \subseteq Files /\ suspect \subseteq Files
  /\ edits \in 0..MaxEdits /\ faults \in 0..MaxFaults

\* No other attachment is saved under the name of a.
Alone(a) == \A b \in Attachments : SavedName[b] = SavedName[a] => b = a

\* Downloaded completely, and not by another attachment.
Intact(a) ==
  /\ SavedName[a] \in DOMAIN disk
  /\ disk[SavedName[a]].of = a /\ disk[SavedName[a]].rev > 0

\* Every file name of the record is that of a completely downloaded file: failed
\* downloads, failed listings, limits and switched off downloads take the name
\* out of the record together with the file.
RecordedExist ==
  Idle => \A a \in Attachments :
            SavedName[a] \in meta.files \ suspect /\ Alone(a) => Intact(a)

\* There is no other file: those of removed attachments and of a deleted page,
\* and incomplete downloads, are gone.
NoOrphans == Idle => DOMAIN disk \subseteq meta.files \cup suspect

\* A local link of the page leads to the complete file of its attachment, also in
\* a page file that was made again from the record.
LinksResolve ==
  Idle => \A a \in file.links : SavedName[a] \notin suspect /\ Alone(a) => Intact(a)

\* If the next run will find the page clean, its links show the current revisions,
\* whenever attachments were replaced during listing and download.  Revisions
\* of the same size cannot be told apart.
Distinct(a) == \A i, j \in DOMAIN Sizes[a] : Sizes[a][i] = Sizes[a][j] => i = j
CleanIsCurrent ==
  Idle /\ live /\ meta.version = version /\ meta.signature = Signature(Listed) =>
    \A a \in meta.links :
      SavedName[a] \notin suspect /\ Alone(a) /\ Distinct(a)
        => disk[SavedName[a]] = Content(a, rev[a])
=============================================================================
