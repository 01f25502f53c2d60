# Verification of confluence2md

confluence2md is a command-line crawler. One run resolves the configured seed pages of one or more
Confluence tenants, traverses the page graph with a pool of workers, writes one Markdown file per page
into an output directory, rewrites links between crawled pages to local paths, removes files that are no
longer produced, and saves `metadata.json`, which the next run in `updates` mode starts from.

This directory holds the formal models of that program, their model-checking configurations and the proofs
about them. `PROJECT.json` indexes them: components, runs, the source lines behind each definition,
findings, hazards and theorems. Paths below are relative to the repository.

| File | Content |
| --- | --- |
| `Crawl.tla` | the traversal engine, `internal/crawl/full.go`: `Run`, `worker`, `enqueueChildren` |
| `Traversal.tla` | the abstract specification of the engine |
| `MCCrawl.tla`, `Crawl_*.cfg` | its instances for TLC |
| `CrawlProofs.tla` | theorems about the engine, proved for every instance |
| `TraversalProofs.tla` | more of them: depths, coverage, and that `Crawl` implements `Traversal` |
| `Measures.tla` | the lexicographic order in which steps lower what is left to do |
| `Iteration.tla` | lemmas on natural numbers that stand in for induction, and what a measure is good for |
| `Mirror.tla` | the abstract specification of `metadata.json` |
| `Pipeline.tla` | successive runs over one output directory: `cmd/crawler`, `internal/store`, node handlers |
| `MCPipeline.tla`, `Pipeline_*.cfg` | its instances for TLC |
| `PipelineProofs.tla` | theorems about runs, proved for every instance, and that `Pipeline` implements `Mirror` |
| `Attachments.tla` | the attachments of a page over successive runs: `store/attachments.go`, `attachments_client.go` |
| `MCAttachments.tla`, `Attachments_*.cfg` | its instances for TLC |
| `AttachmentsProofs.tla` | theorems about the attachments, proved for every instance |
| `Transport.tla` | retries, token bucket and deadlines of the API client, `retry_transport.go`, `rate_limit_transport.go` |
| `Users.tla` | workers that use the transports and share the cache of display names, `user_client.go` |
| `MCUsers.tla`, `Users_names.cfg` | their instance for TLC |
| `UsersProofs.tla` | theorems about the transports and the cache, proved for every instance |
| `Auth.tla`, `AuthProofs.tla` | how the credentials of every site are found, `authmode.go`, and a theorem about it |
| `Comments.tla`, `Display.tla` | fetching comments, `comments_client.go`, and their display order, `convert/comments.go` |
| `Client.tla`, `MCClient.tla`, `Client_comments.cfg` | `Auth`, then `Comments` and `Display`, as a run uses them; its instance for TLC |
| `ClientProofs.tla` | theorems about fetching and ordering comments, and about the composition |
| `Render.tla` | from a document to Markdown, `internal/convert` |
| `Rewriter.tla` | the scanner of the rewrite pass, `internal/links/rewriter.go` |
| `PageText.tla`, `MCPageText.tla`, `PageText_*.cfg` | the text of a page through all passes, and its instances for TLC |

Commands, in this directory: `tlc -config Crawl_engine.cfg MCCrawl`, `tlc -config Pipeline_runs.cfg MCPipeline`
(likewise for the other configurations), `tlapm CrawlProofs.tla` (likewise `Iteration`,
`TraversalProofs`, `PipelineProofs`, `AttachmentsProofs`, `UsersProofs`, `AuthProofs`, `ClientProofs`).

## Inventory

### Components

**Traversal engine** (`internal/crawl/full.go`). State: the bounded channel `queue`, the maps `visited` and
`results` and the drop counter under the mutex `mu`, the semaphore, the wait group `pendingWork`, the context.
Operations: `Run` enqueues the seeds, waits, closes the queue, joins the workers and gives the verdict; a
`worker` receives an item, takes a slot, calls the node handler, records, gives the slot back and enqueues
children. Correct if every discovered page is handled exactly once or the run reports an error, nothing is
sent on a closed channel, the wait group is exact, the depth limit is respected and `Run` returns.

**Node handlers** (same file: `processFullNode`, `processUpdatesNode`). No state of their own; they read
the tenant and, in updates mode, the records of the previous run, and classify a page as deleted, clean
(reused), dirty (processed fully) or failed. Correct if a clean page really is the page that was written,
and if everything uncertain is treated as dirty.

**Run pipeline** (`cmd/crawler`: `bootstrapRun`, `executeTraversal`, `processTraversalResults`, `finalizeRun`).
State: the run context (mode, previous records, results), the error counter. It calls the engine once, then
works alone. Correct if what it saves agrees with what it wrote and removed, also for later runs.

**Output store** (`internal/store/fs.go`, `frontmatter.go`, `pageref.go`). State on disk: page files,
`metadata.json` (records, stored Markdown, checkpoints), `index.md`. Page files are written in place;
`metadata.json` is replaced by a rename. Correct if a record never claims more than the files hold.

**Attachment store** (`internal/store/attachments.go`). Classifies, names and downloads attachments.
Correct if names do not collide, a failed download does not destroy or hide an earlier one.

**Link extraction and rewriting** (`internal/links`, `cmd/crawler/link_utils.go`). Extracts page references
from documents and rewrites link destinations in Markdown text outside code. Correct if it is idempotent and
touches nothing else.

**HTTP transport** (`internal/confluence/retry_transport.go`, `rate_limit_transport.go`). Retries with
back-off and `Retry-After` around a token bucket per host, inside one 20-second client deadline. Correct if
attempts are bounded, no delay outlives the context and the rate holds.

**Credential resolution** (`authmode.go`, `cloudid.go`, `clientset.go`): for each site, tries classic, then
scoped credentials. State: the clients of the hosts. Correct if only 401/403 falls back, an error blames what was
refused, and each host gets the client of its own tenant.

**Comments** (`comments_client.go`, `internal/convert/comments.go`): breadth-first over replies, pagination,
display order. State: the queue of comments whose replies are to be listed, the visited ones, the result. Correct
if comments that exist all the time are fetched, each is shown once and in its thread, and the fetch ends.

**User names** (`user_client.go`): a cache shared by the workers. **API client** (`client.go`, `models.go`,
`parsing.go`): single requests and cursors. **Markdown conversion** (`internal/convert`): a pure function of
the document, whose text five more passes change. Correct if code comes out as it went in and the later passes find
exactly the document's links. **Configuration** (`internal/config`): validation, whose guarantees (positive
concurrency and queue size) are the models' assumptions.

### Interactions

`main.run` calls bootstrap, traversal, processing and finalisation in this order and stops at the first
error. Inside the traversal the workers share the queue, `mu`, the semaphore and the wait group with `Run`;
they call the node handler, which calls the API client, which goes through the transports and the user
cache. Runs interact with one another only through the output directory, and with the tenants' editors
through the pages they read.

### What is hard

* Interleavings of `Run` and the workers around a bounded channel, a mutex and a wait group; blocking sends.
* The order in which pages are discovered, which decides their depth.
* Runs that end at any point: page files are already changed, `metadata.json` is not.
* Failures of single pages, which must not destroy what earlier runs stored, and must be retried.
* Updates mode, where stored links, stored Markdown and files of earlier runs meet pages that were renamed,
  trashed, restored or linked since.
* Deadlines that cover several attempts; pagination that fails half-way; check-then-act on the user cache.
* Text that is parsed again by every pass: the renderer, the normaliser and the rewriter each have rules of their
  own for fences, code spans and brackets.

The full list, with source lines and the properties that cover each hazard, is under `hazards` in
`PROJECT.json`.

## The models

### Crawl: the traversal engine

One action is one stretch of code between two points at which another goroutine can interfere. `mainPc` says
where `Run` is, `pc[w]` where worker `w` is.

| Code | Actions |
| --- | --- |
| `Run`: seed loop under `mu`, blocking send | `SeedKnown`, `SeedMark`, `SeedSend` |
| `Run`: `pendingWork.Wait`, `close(queue)`, join, verdict | `Wait`, `CloseQueue`, `Return` |
| `worker`: `range queue`, context and depth checks | `Receive`, `Exit`, `Admit`, `Skip` |
| `worker`: semaphore, handler, record under `mu`, release | `Acquire`, `Handle`, `Record`, `Release` |
| `enqueueChildren` (holds `mu` for its loop) | `LockChildren`, `KnownChild`, `SendChild`, `DropChild`, `UnlockChildren` |
| `pendingWork.Done` at the end of a page | `Finish` |
| the context ends | `Cancel` |

The node handler is an input: it may answer with a page (one of a set of link lists), an error, a deletion
or nil. Statistics and drop samples are left out; nothing reads them back.

`Traversal` states what the engine promises without workers, queue and depths: pages are found from seeds and
along links of good pages, each is settled at most once, and a success lost none. `Crawl` implements it under
the mapping at the end of `Crawl.tla` (property `TraversalSpec`).

### Pipeline: runs over one directory

The traversal is reduced to what it hands over, one result per reached page, in any order. A page has a list
of revisions, each with a title and links; its file name depends on the title, as in `generateFilename`. The
content of a file is the version it renders, the pages its links lead to and, per link that was made local, the file
the link points to. A record carries version, outgoing links and the stored Markdown. Child pages change without a
version and are not named in the page's text.

A write that is cut off leaves a prefix of its text: no version any more (`Cut`) and any part of its links, open or
local. The rewrite pass takes such a file for any other: it makes its open links local and stores the result as the
record's Markdown (`rewriter.go:56-71`), from which later runs restore the file if it gets lost.

A run touches nothing before its seeds are resolved. A page in the trash is still answered and is found deleted by the
traversal; a seed that was removed for good (`removed`) is answered with 404, on which every run fails
(`setup.go:131`, `client.go:176`) until somebody changes the configuration. Other failures before that point (probes,
requests for seeds, an unreadable configuration) leave everything as it is: an attempt to start that comes to
nothing.

| Code | Actions |
| --- | --- |
| `bootstrapRun`: `extractSeedPageRefs` | `Start`, `BootstrapFails` |
| `clearDirectoryContents`, `NewWriter` | `Clear`, `ClearFails` |
| `processUpdatesNode`, `isDirtyComparedToPrevious` | `Classify`, `ClassifyFails` |
| `processFullNode` | `Fetch`, `FetchPartly`, `FetchFails` |
| `executeTraversal`, `pruneDeletedOutgoingLinks` | `Traversed` |
| `processTraversalResults`, `processReusedPage`, `ensureLocalPageArtifact` | `PassDeleted`, `PassError`, `Reuse`, `WriteFails` |
| `processRerenderedPage`, `AddPage` | `Render`, `WriteFails` |
| `pruneMetadataToCrawledSet` | `Prune` |
| `RewriteCrawledPageLinks`, `localLinkTarget` | `Rewrite`, `RewriteFails`, `Rewritten` |
| `reconcileManagedArtifacts` | `Remove` |
| checkpoints, `SaveMetadata`, `writeStartIndex` | `Save`, `WriteIndex` |
| a returned error, a killed process | `Abort`; the file being written may be truncated (`HalfWritten`) |

`Edit`, `Toggle` (trash, restore), `Purge` (a seed is removed) and `Rearrange` (child pages) are the tenant; `LoseFile` is somebody who
cleans up the directory by hand. What happens to the tenant after the traversal is first seen by the next
run, so these happen between runs and during traversals. `clean` and `seen` are history variables: no
interrupted run or failed write since the directory was last cleared; the states (a version, or gone) that each page
has had since the run started.

`Mirror` states what `metadata.json` promises to whoever reads it between runs, without files, links and phases: it is
replaced as a whole or not at all; every version in it is one that the page had during the run, or had before in a
run without a successful checkpoint; no page goes back; a successful checkpoint has all seeds that were there
throughout. `Pipeline` implements it under the mapping at the end of `Pipeline.tla` (property `MirrorSpec`): a run is
open until it has saved, and of `metadata.json` the versions and the successful checkpoint are kept.

Left out: dry runs, attachments (see below), front matter, the post-crawl hook, checkpoint times, a depth limit that
cuts the crawl off, and the check of `metadata.json` on loading (the program writes it atomically).

### Attachments: the attachments of one page

Saved names start with the page key, so pages do not share attachment files and one page is enough. Its record
keeps the version, the saved names, the signature and which links are local. A file holds a revision of an
attachment, or is incomplete (revision 0). Names are sequences of words and of the characters that
`sanitizeAttachmentFilename` treats specially, so that which names collide follows from the code.

| Code | Actions |
| --- | --- |
| `bootstrapRun`, `clearDirectoryContents` | `Start`, `Clear`, `ClearFails` |
| `processUpdatesNode`: page state, attachment list, signature | `StatePage`, `StateList`, `StateDeleted`, `StateFails` |
| `processFullNode`: page, attachment list | `Fetch`, `List`, `FetchDeleted`, `FetchFails`, `ListFails` |
| `processReusedPage` | `Reuse`, `WriteFails` |
| `ClassifyAttachment`, `PageAttachmentFilename` | `Skip`, `SavedName` |
| `DownloadPageAttachments`, `DownloadAttachment` | `MkdirFails`, `Create`, `CreateFails`, `Download`, `DownloadFails` |
| `rewriteAttachmentLinks`, the page's record and file | `Write`, `WriteFails` |
| `RewriteCrawledPageLinks`: needs the files of all records | `RewriteFails` |
| `reconcileManagedArtifacts` | `Remove`, `RemovePage` |
| `SaveMetadata` | `Save` |
| a returned error, a killed process | `Abort` |

`Edit`, `Toggle`, `Attach` and `Replace` are people who change the page and its attachments at any time, also
between listing and download; `LoseFile` removes a file. Two histories are kept: `touched`, the files this run has
changed, and `suspect`, the files changed by runs that did not get as far as saving `metadata.json`, or lost.

What the model makes visible and the code intends or accepts: an attachment that fails to download or exceeds the
limit is not tried again while its page stays clean; a replacement of the same size does not change the signature;
an incomplete file stays if the process is killed while downloading.

### Transport and Users: requests in time

Time passes in ticks, and only when no goroutine can run. A request goes through the stages `attempt`, `token`
(it waits for its reservation), `flight`, `backoff` and `done`.

| Code | Actions |
| --- | --- |
| `http.Client.Do`, or `RoundTrip` for the redirect of a download | `Begin`, `End` |
| `rateLimitTransport.RoundTrip`, `Limiter.Wait` | `Reserve`, `Refuse`, `StartTooLate`, `Send` |
| `retryTransport.RoundTrip`, `shouldRetry`, `retryDelay` | `Return`, `BackOff`, `Retry`, `Interrupt` |
| `GetUserDisplayName` | `Miss`, `Answered`, `Failed` |
| other requests of a worker, the file of an attachment included | `Other`, `OtherDone` |

The limiter (`golang.org/x/time/rate`) is not part of the repository; it is modelled from how it is used: a
reservation takes its token at once, though the token may come later; a refused one takes none; one whose wait
is cancelled when its token is due has lost it. The server may answer anything at any time. `redirect` requests go
through the transport without `http.Client` and so have no 20-second deadline, only the run's context. Left out:
jitter (less than a tick), `Retry-After` as a date, the construction of requests, response bodies.

### Auth, Comments and Display: what a run reads first

`Auth` resolves one site after the other. A request is answered with success, with a refusal (401 or 403), or with
anything else; what a refusal is, is the only thing the code looks at.

| Code | Actions |
| --- | --- |
| `resolveSingleHost`, `probeClassic` | `ProbeClassic` |
| `resolveCloudID`, `ResolveCloudID` | `FindCloud` |
| `probeScoped` | `ProbeScoped` |
| `describeProbeFailure`, `ClassifyAuthFailure` | `Blame` |

`refused` is a history variable: the requests for this site that were refused.

`Comments` is one call of `GetPageComments` while people post and delete. Comments are numbered in the order in
which they are posted. The server (external) lists what replies to the page or to a comment, in that order, behind
the last one it gave, and answers 404 if what is listed does not exist any more. It may give fewer than it could, an
empty last answer included.

| Code | Actions |
| --- | --- |
| `fetchV2CommentsFromEndpoint` | `Answer`, `NotFound`, `Fail` |
| `GetPageComments`: the queue and `visited` | `Take`, `Finish` (in `Display`, `Told`) |
| `orderCommentsForDisplay`: `appendThread`, its end, the loop over the roots | `AppendNext`, `EndThread`, `EndThreads` |
| `orderCommentsForDisplay`: the loop over what is left | `AppendRest` |
| people | `Post`, `Delete`, `DeletePage` |

A comment may be deleted without its replies; `lasting` keeps the comments that exist since the fetch began. `Display`
orders what was fetched, one comment at a time; `thread` is the stack of recursive calls. The server may tell parents
that are not the true ones (unknown, later, in a cycle, the comment itself) and any times, some of them missing.
Comments have distinct identifiers, in the order in which they were posted (identifiers break ties of time); two with the same identifier, or without any, are left out. `Client` lets a run
find its credentials and then read comments.

### Render, Rewriter and PageText: the text of a page

A line is a sequence of words and of the characters that some pass treats specially: brackets, parentheses, spaces,
backticks, `#`, `>`. `Render` translates the blocks that decide where code begins and ends (paragraphs, headings,
cards, media, rules, code, lists, tasks and decisions, quotes and panels, expands, layouts), marks, and
`normalizeMarkdown`. `Rewriter` is the scanner of the rewrite pass.

| Code | Actions of `PageText` |
| --- | --- |
| `processFullNode`: `ToMarkdown`, title, related pages | `Convert` |
| `absolutizeConfluenceLinks` | `Absolutize` |
| `enrichURLOnlyLinkLabels` | `Enrich` |
| `rewriteAttachmentLinks` | `Attach` |
| `processRerenderedPage`: `CommentsToMarkdown` | `Comments` |
| `RewriteCrawledPageLinks`, in this and in the next run | `Rewrite`, `RewriteAgain` |

Whether the titles of linked pages can be looked up (all those of a page, or none), and which attachments could be saved, is chosen at the start.
What the text should be is `Expected`: the document with other links, converted once. Tables are left out, as are
the nodes that write plain text only. The patterns of `link_utils.go` are modelled from what they match.

The documents of `page_text` keep to what the code can do: text outside code has balanced brackets, no backtick and
no backslash (nothing is escaped in Markdown, so they would be markup); code holds no link that starts at the root
or repeats its URL (`Absolutize` and `Enrich` do not look for code) and no fence; no list item or quote starts with
code.

## The runs

| Run | Instance | Shows |
| --- | --- | --- |
| `crawl_engine` | 2 workers, 2 seeds, 4 pages, queue of 1, depth 2 | eleven properties of the engine under every interleaving |
| `crawl_hang` | 1 worker, 3 seeds, queue of 1 | violation: `Run` blocks for ever |
| `pipeline_runs` | 3 pages, one with 3 revisions, both modes, 2 other wiki changes or faults | eleven properties of what runs save, and that repeated runs repair what faults left |
| `pipeline_links` | two pages with 2 revisions, 1 other wiki change | violation: dangling local link in a reused page |
| `pipeline_pruned` | the same, 2 other wiki changes or faults | violation: a record that keeps its link to a deleted page |
| `pipeline_removed` | no edits, 1 seed that may be removed | violation: the record of a removed page that no run drops |
| `attachments_runs` | 3 attachments, one grows, two share a name; 4 configurations, 1 edit, 2 faults | `metadata.json` describes the attachment files and the page's links |
| `users_names` | 2 workers, 2 accounts, 3 attempts, 8 ticks, a token in 2 ticks | five properties of the transports and the cache |
| `client_comments` | 3 sites on 2 hosts, 3 styles; 3 comments, 2 in an answer, 6 tellings of parents and 4 of times | credentials, fetching and display of comments, and that they end |
| `auth_claims` | the same sites | violation: what `authmode.go` says of its errors and clients |
| `page_text` | pages of up to 2 of 18 blocks, 3 threads of comments, 2 listings | the passes change exactly the links outside code |
| `text_nested` | a list item that starts with code | violation: the links of the rest of the page are missed |

### Properties of the engine

`PendingExact`: the wait group counts exactly what is queued, in hands or being sent. `ZeroIsFinal`: once the seeds
are in, zero is final, so no `Add` races with `Wait`. `QuietAfterClose`: the queue is closed only when nothing can
send on it. `AtMostOnce`: one handler call per page. `SuccessIsClosed`: a success has handled every discovered page
and discovered every link above the limit. `DepthWitness`: nothing is crawled behind failed or deleted pages.
`TraversalSpec`: refinement. `StuckOnlySeeding`: until `Run` returns somebody can go on, unless `Run` waits for the
queue with its third seed or a later one while it holds `mu`, and every worker waits for `mu`; that is the first
finding, and the only deadlock there is. `Progress`: every step of `Run` and of a worker lowers what is left to do, in
lexicographic order, whatever the pages answer. `Terminates`: `Run` returns. `SuccessCoversReachable` and
`MinimalDepth` hold for one worker and one seed; they are proved, and no run checks them.

### Properties of the pipeline

Most are about the moment when `metadata.json` has just been replaced (`Saved`). `EveryRecordHasFile`: no run deletes
the file of a page it keeps. `NoStrayFiles`: nothing else is left, unless a run was cut off or a write failed since
the last clearing. `RecordsNeverAhead`: at every moment, also after kills, a record claims no newer version than its
file has. `SuccessIsFresh`: after a successful run, every record is of a version that its page had at some moment of
that run, and file and stored Markdown render that version, or what is left of a text that was cut off, which takes a
cut-off write since the last clearing. `ErrorKeepsRecord`: a page that could not be fetched keeps its version and its
links to all pages that were not found deleted (`DeletedPruned`, that it loses the others, is a finding). `GraphClosed`: the stored graph of a successful run is closed. `LinksLocal`: links to crawled pages are
local in all files, reused ones included. `FullRunExact`: a successful full run repairs everything, stray and
truncated files included. `Converges`: when the wiki and the faults come to rest, and no seed was removed
for good (then no run starts any more: `RemovalsLand`, a finding), repeated runs (of updates mode only,
if nobody starts a full one) reach records that are current and complete; it fails if a missing file could stop every
later run, or a page lost behind a failed parent were never found again. `MirrorSpec`: refinement; it fails if an
interrupted or partly failed run could leave a mixture of old and new, or a page that only failed could be certified.
`RunsSucceed` is what `Converges` rests on, without fairness: only a fault of the run itself (a request, a write, a
kill), and nothing that earlier runs or hands have left in the directory, makes a run count an error or end before it
has saved; every step of a run brings it nearer to its end, whatever people do in the wiki meanwhile; and a run
without errors, while the wiki rests, leaves the successful checkpoint and every page current. It fails if a lost file
or an old record could break the next run, or survive it.

Three exceptions are part of the statements because the code has them: truncated files that updates mode reuses and
takes into the records (a full run repairs them, or the next version of the page), stray files after interrupted runs,
and what the findings below say.

### Properties of the attachments

All hold between runs, except for suspect files and for attachments that share a saved name: these overwrite each
other, whatever the runs do (see below), so nothing can be said of them (`Alone`). `RecordedExist`: a
recorded name is that of a completely downloaded file, whichever requests, limits and settings came between.
`NoOrphans`: there is no other file. `LinksResolve`: a local link of the page leads to the complete file of its
attachment, also when the page file was made again from the record. `CleanIsCurrent`: if the next run will find
the page clean, its links show the current revisions, although listing and download are separate requests.

### Properties of the transports and the cache

`RateHolds`: over every interval, at most the bucket's size and one request per refill go to the API host, retries
and redirects included. `EndsInTime`: no wait outlives the deadline. `RetriesHeld`: no request is sent more than
`max_attempts` times, nobody comes back before the time the server asked for, and a transient failure is passed on
only without attempts or time left. `RefusedOnlyIfLate`: the limiter refuses a request (which is not retried) only
if the rest of its deadline is shorter than a queue of all workers; with a rate so low that one token takes longer
than 20 seconds, that is every request beyond the burst. `CacheHonest`: no worker asks again for a name it got, an
empty one included (two workers may ask at the same time), and a failed request does not put an empty name in the
cache.

### Properties of credentials and comments

`ResolutionSound` has three parts: the gateway is asked only if the configuration says so or the site itself refused
the credentials in this run; an error blames the token only if the site refused it, and its scopes only if the gateway
did or, which is a finding, the site refused to tell its cloud ID; and every host has a client, which, if no cloud ID
is configured, leads to its own tenant. `AsDocumented` is what `authmode.go` says beyond that, and fails.
`LastingFetched`: a comment that exists all the time, with all it replies to, is fetched, however
posts and deletions fall between the requests; it would fail if a 404 or a cursor lost more than what is gone.
`ShownInThreads`: each fetched comment is shown exactly once, replies behind what they reply to, with nothing between
that does not belong below it, by time at each level, and what is on or below a cycle last, as it was fetched. The
threads are defined without recursion, as the smallest set that is closed under replies. `FetchEnds`: credentials
fail, or the fetch fails, or all comments are ordered; it does not go on for ever. `FetchAdvances` says why: every step
of the client lowers what it has left to do (sites and attempts, then listings, queue and cursor, then comments to show
and calls to return), posts and deletions do not raise it, and of the comments that wait one always comes first.

### Properties of the text

`Exact`: after the rewrite pass, the text is the one that the document gives when exactly its links are made local,
and a second pass changes nothing. The reference converts another document once; the program changes the text five
times. A link missed behind nested brackets, code, a comment or a late fence breaks it, and so does a link changed
inside code. `CodeKept`: code comes out line by line as it went in, blank lines, rules and headings included.

### Bounds, and why they are enough

*Engine.* Two workers are the least with a race between workers, and `Run` is a third process. A queue of one place
makes full and not-full alternate; link lists of two entries make a drop, a known child and a new child occur in one
call of `enqueueChildren`. Two seeds that share children, and children that link back to the seeds, give every order
of discovery; with depth 2 the limit bites. The situation that `StuckOnlySeeding` excepts needs a third seed;
`crawl_hang` reaches it. The proofs remove these bounds for all properties but `Terminates`.

*Pipeline.* Three pages allow a seed that may get a child, a page that is edited under the same title, loses a
link and is then renamed, and a page reached through it or as a child of the seed; so pages become unreachable, come
back and are linked from clean and dirty pages. The number of runs is not bounded. `MaxEvents = 2` allows trashing and
restoring, a moved child and a deletion, one failure at any point in a wiki that changes, or two failures; only two
together (a lost file, then a failed fetch of its page; a write that is cut off, then the loss of its file) make the
rewrite pass fail a run or bring a cut-off text back. In `pipeline_pruned` an edit, a deletion and a failed write are
needed, in `pipeline_removed` a removal alone. The proofs remove these bounds for all properties but `Converges`, of
which `RunsSucceed` is proved without them.

*Attachments.* One attachment that grows (so that the signature sees its replacement and a limit can bite), and two
whose names become the same, in any subset at the start. One edit allows trashing the page, editing it, or adding
or removing an attachment, together with the replacement; two faults allow a failure during the repair of a
failure. With two edits the run also passes (9.4 million states). The number of runs is not bounded. The proofs
remove all these bounds.

*Transport and Users.* Two workers compete for a bucket of one token. A deadline of 5 ticks, a token every second
tick and back-offs of 1 and 2 ticks let every wait end by its timer and by the deadline; the run's context ends
after 7 ticks, in the middle of later requests. Time is bounded by that; the proofs remove all these bounds.

*Credentials and comments.* The first and the third site have the same host, so that a client is replaced, and
another lies between them. Three comments give every forest up to a chain; with two in an answer, listings have one
or two pages. The tellings hold cycles of one and two comments, one with a comment below, and unknown parents.
The proofs remove these bounds for all properties but `FetchEnds`, of which `FetchAdvances` is proved without them.

*Text.* What a pass does to a block depends on the text so far only through fences and blank lines, which two blocks
in any order exhaust; nesting is in the blocks (a list in a list, code in a list and in an expand, quotes).

### Fairness

*Engine.* Weak fairness of `Run` and of each worker: the Go scheduler runs what can run, and a handler call
returns because each request has a deadline. `Cancel` is never forced. *Pipeline.* A run takes its next step
unless it fails, and somebody starts runs again and again, in any mode, as long as their seeds are found; the wiki and
the faults are bounded and never forced. Without repeated runs nothing would converge, and the code does not claim it. *Client.* Each request is
answered or ends with the deadline of the client, and the fetch goes on; posts and deletions are never forced, and
their number is bounded by `N`. The server's cursors move forward: a server that repeats one would keep the fetch busy
until the run's deadline, and nothing in the code would notice.

## Findings

1. `crawl_hang`, `full.go:172`: `Run` sends a seed on the bounded queue while it holds `mu` and without watching
   the context. If the queue is full, the worker that would drain it waits for `mu`; `Run` never returns, even
   after its context ended (`full.go:184`, `docs/operations.md:101`).
2. `pipeline_links`, `rewriter.go:83`: a reused page keeps local links to files that were deleted or renamed,
   because the rewrite pass only recognises URLs (`docs/operations.md:109` and `:120`,
   `docs/design-decisions.md:114`).
3. `pipeline_pruned`, `run_pipeline.go:187`: links to deleted pages are pruned from the results of the traversal
   only. A page with a failed fetch or write keeps its record, links to deleted pages included
   (`docs/operations.md:146`). In the run, the file of an edited page cannot be written while the page it links is in
   the trash. The link costs nothing but requests: later runs find the deleted page again.
4. `pipeline_removed`, `setup.go:131`: a page that is removed for good is answered with 404, which the traversal takes
   for a deletion, but resolving the seeds for an error. Once a seed is removed, no run starts any more, and its
   record and file stay (`docs/operations.md:144` and `:147`).
5. `auth_claims`, `cloudid.go:75`: the request for the cloud ID carries no credentials; if it is refused, the error
   says that the credentials lack a permission, although `authmode.go:292` lists such failures among those that are
   returned unchanged and `authmode.go:26` says that the credentials authenticated.
6. `auth_claims`, `authmode.go:229`: a configured `cloud_id` is used for every host, so that links across hosts are
   fetched from one tenant, although `authmode.go:134` says that each host has a client of its own for this. TLC stops
   at the first; with `INVARIANT OwnTenant` instead of `AsDocumented` it shows this one, as `CloudFailureUnblamed` shows
   the first.
7. `text_nested`, `markdown.go:32`: a list item that starts with code is rendered as "- ```", which is no fence for
   `normalizeMarkdown`, while the closing one is, and loses its indentation. The rest of the page counts as code, for
   the rewrite pass too, whose links stay absolute; and a link inside that code is changed
   (`docs/markdown-conversion.md:140`, `docs/operations.md:108` and `:113`).

### What the code does besides

Seen while modelling; no run checks the following.

* Traversal: a seed that another seed links to may be visited first as its child, at depth 1 (`full.go:643`), and its
  own children may then be beyond the limit although the crawl succeeds; with several workers, the same happens to a
  page that is found first along a longer path. Updates mode follows the stored links of
  clean pages (`full.go:508`) and so misses children, labelled pages and links in comments that appeared without a
  new version. The warning about a failed attachment
  listing (`run_pipeline.go:289`) needs attachments, which a failed listing never has.
* Attachments: sanitizing maps different names of one page to one file name ("a b.png" and "a_b.png",
  `attachments.go:142`). `os.Create` empties the file of the first for the second, and the links of both lead to it,
  although `docs/attachments-fetching.md:79` says that the Markdown "references the exact file that was persisted". If
  the second download fails, the file is removed although the record names it.
* Comments: a 404 in the middle of a listing is not reported (`comments_client.go:101`). A comment whose document
  renders as nothing is shown as its JSON (`convert/comments.go:48`). If some identifiers come twice, comments
  without identifier are shown twice (`convert/comments.go:155`). Links that start at the root are made absolute
  in the page only, not in comments.
* Text: `absolutizeConfluenceLinks` and `enrichURLOnlyLinkLabels` change links inside code. Code that shows a fence
  ends there for the later passes. Fences inside quotes and panels ("> ```") are none for the rewriter, so links in
  them are changed. An escaped backtick starts a code span (`rewriter.go:188`), and an unpaired bracket inside code
  in a label hides the link (`rewriter.go:234`).

## Proofs

`CrawlProofs.tla` proves nine properties for every finite set of workers, every set of pages, every link structure,
every list of seeds, every depth limit and every queue size, from the only assumption of the model,
`CrawlAssumption` (workers exist and are finite in number; the queue has at least one place; seeds and links
are pages).

*Counting* (`TypeCorrect`, `PendingCorrect`, `QuietCorrect`, `ZeroCorrect`, `SlotCorrect`). The invariant `CountInv`
adds to `TypeOK` and `PendingExact`: who holds `mu` and when (`LockInv`), what a busy worker has in hand
(`HandsInv`), that the semaphore counts the workers between acquiring and releasing (`SlotsInv`), and that
`Run` gets past `Wait` only with all seeds sent and nothing pending (`PhaseInv`). None of them is inductive alone:
that a counter does not go below zero needs `PendingExact`, whose preservation needs to know where `Run` and the
workers are, and that the queue is quiet after closing needs both. The lemmas on how the sets `Busy` and `Slotted`
change when one worker moves turn the counters into cardinalities.

*Deadlock* (`StuckCorrect`, `NeverStuck`). Suppose that nobody can go on. Slots are never waited for
(`SlotAvailable`), and a worker with `mu` can always go on, so `Run` has `mu` or nobody has. If `Run` waits for the
counter or for the workers, `PendingExact` and `PhaseInv` give a worker with something to do. So `Run` is sending, the
queue is full and the workers wait for `mu`. `IdleInv` and `FillInv` say why that needs a third seed: before the first
is sent all workers idle; and while at most one has been sent, a full queue was filled by a worker that is still
enqueuing, finishing its page or back at the queue. With at most two seeds there is no deadlock.

*Termination* (`LeftCorrect`, `ProgressCorrect`), for finitely many pages, which may have any links. `Left` compares,
in this order, where `Run` is, the pages not yet discovered, the length of the queue, how many workers are at each
place, from the first place of an item to the last, and the links still to look at. A worker that moves on leaves one
worker less at its place, and more only at a later one (`PlaceMoves`, `MoveLowers`); receiving shortens the queue; a
new child leaves fewer pages to discover, though it lengthens the queue. `Left` is a tuple of natural numbers, so
there is no infinite descent (`ComesToRest`). Together with `StuckCorrect` these are the two safety halves of
`Terminates`; what joins them is fairness.

*Fate of a page* (`OnceCorrect`, `SuccessCorrect`). `FateInv` follows each page: it waits in at most one place
(`PlaceInv`); what waits is visited and not yet handled, what was handled was handled once (`CallsInv`); depths
stay within the limit (`DepthInv`); seeds that `Run` passed are visited (`SeedsInv`); a visited page is handled
or waits, unless there was a drop or a cancellation (`LossInv`); the links of a good page are visited or a worker
is enqueuing them (`LinksInv`); and a success had neither drops nor a cancellation (`VerdictInv`). With
`QuietAfterClose` nothing waits at the end, which gives `SuccessIsClosed`.

`TraversalProofs.tla` follows the answers, from the same assumption. `AnswerInv`: a page is answered for only once, so
nothing recorded is overwritten (`AnswersStay`).

*Depths* (`WitnessCorrect`). `SourceInv`: what a worker enqueues are links of the good page it has recorded, and what is
recorded there is what the handler answered. Hence every page that is queued, in hand or recorded ends a chain of links
of the right length (`WitnessInv`).

*Refinement* (`ImplementsCorrect`). Under the mapping a page is settled when its handler was called and its answer is
recorded (`Given`), and lost when it is visited, was never handled and waits nowhere (`GivenUp`). `MappedMoves` says
what a step does to the mapped state if it does so page by page. `SeedMark`, `SendChild` and `DropChild` find a page
(`FindMaps`), which needs `SourceInv` to show that it is linked from a settled one; `Record` settles one, `Skip` loses
one, `Return` returns: by then nothing is open, and with success `LossInv` excludes losses. All other steps stutter.

*Breadth first* (`CoverageCorrect`, `MinimalCorrect`), for one worker and one seed (`Serial`; with
two seeds one may be visited first as a child of the other, with two workers a longer path may be the faster one, and
both properties fail). `OrderInv`: depths are in order along what is recorded, in hand and queued, and
what is in hand or queued spans two depths at most. `NearInv`: a link of a good page leads at most one deeper. When the
page is recorded, that follows from the order; later only because its links are all visited before the next page is
taken (`LinksInv`, `SourceInv`). A least level at which something is missing or too deep then contradicts the level
before (`LevelReached`). `Iteration.tla` has the lemmas: a set of numbers has a least one, from the well-founded order of
the library, and a definition by iteration such as `Level` has a solution.

`UsersProofs.tla` proves all properties of `users_names` for every finite set of workers, every set of accounts
and all attempts, delays, deadlines and rates, from `TransportAssumption` (positive limits, a finite number of
workers) and `UsersAssumption`. `StepOfTransport` reduces a step of `Users` to a step of `Transport`.

*Requests* (`TypeCorrect`, `EndsInTimeCorrect`, `RetriesCorrect`). `StageInv` says that a
back-off has an attempt left; `HeldInv` that its timer does not fire before `Retry-After`, and that what follows comes
later.

*Cache* (`CacheCorrect`). `AskingInv`: what a worker got is cached, and what it asks for it has
not got; it asks for one name at a time, because it does nothing else until the answer.

*Queue for tokens* (`RateCorrect`, `RefusedCorrect`). The rate is not inductive: a cap on the bucket forgets time, and a
reservation is a debt. `BudgetInv` bounds the sum of what was sent (less the time since), what is reserved and what the
bucket has. A tick could break it while requests wait for tokens; `SpacedInv` says why not: tokens come at least one
refill apart, so while all are still to come the bucket owes nearly all of them. `OwedInv` is the converse: the bucket
owes nothing but tokens still to come, so an empty queue means no debt, and the longest wait is one token per worker.
Both speak about every future time instead of every request, so that no induction over the queue is needed.

`AuthProofs.tla` proves `ResolutionSound` for every list of sites, every set of cloud IDs and every sequence of answers,
from `SitesAssumption` (there is a site). `AuthInv` adds `Progress`: while a site is resolved, nothing is blamed, the
sites before it have clients, and the cloud ID a scoped probe was made with is the site's own or the configured one.
Without the last part a client could not be shown to lead to its host's tenant; without the first, an error could
keep blame of an earlier site. `ResolvedKeeps` and `FailsKeeps` are the two ways an attempt ends.

`ClientProofs.tla` proves the three invariants of `client_comments` and `FetchAdvances` for every number of
comments, every size of answers, all posts, deletions and failures, and everything the server may tell of parents
and times, from `CommentsAssumption` (an answer may give a comment), `DisplayAssumption` (what parents and times
are; there are times to tell) and `SitesAssumption`.

*Fetching* (`LastingCorrect`). `BatchInv` follows the cursor: what it passed is
in the batch, unless it was posted meanwhile. `ListedInv` says that after a listing, everything under a lasting comment
that has itself lasted was found, and `QueueInv` that what was found is listed or still queued. At the end, the first
missing comment of a lasting thread would reply to one that was found, hence listed: a contradiction. `Iteration`
says that there is a first one.

*Display* (`ThreadsCorrect`). While threads are appended (`ThreadsInv`), the calls under way are a chain of replies;
all that was shown since one of them began is below it; a comment whose call has returned has all its replies shown;
and of comments with one parent, those shown are before those not shown. So when the last root is done, the shown
comments are closed under replies, hence all threads, and what the last loop finds (`RestInv`) is on or below cycles.
`OrderInv` is the promise itself, for what is shown so far: appending a comment keeps it, because what is between an
open call and the new comment is below that call, and a call that has returned gets no more replies. The provers have
no induction over threads; none is needed, since `Below`, the smallest closed set, is used through the two lemmas that
it is closed and that it is the smallest.

*Composition* (`ClientResolution`, `ClientLasting`). A step of `Client` is a step of one part that leaves the others
alone (`ClientStep`), so that all three hold of the client as a whole.

*Termination* (`FetchAdvancesCorrect`, `ClientLeftCorrect`, `ClientNeverStuck`). While sites are resolved, an attempt
either leaves one site less or is the next of at most three for its site (`ResolveAdvances`). In the fetch, `Rounds`
counts the comments not visited and the listing under way: `Take` visits a comment or shortens the queue, an answer
either ends the listing or moves the cursor, and a comment posted meanwhile was counted before (`FetchingAdvances`). In
the display, appending uses up a comment, a call that returns was counted with it, and the last loop moves on
(`ShowAdvances`). That `Less` puts some waiting comment before all others (`FirstExists`) is what sorting by time
needs: without it the display would stand still. `ClientLeftCorrect` says that the measure consists of naturals, for
which the last loop must not run past the comments (`RestBounded`) and no comment may be shown twice (`NotLonger`).

`AttachmentsProofs.tla` proves all properties of `attachments_runs` for every set of attachments with any names and
sizes, all configurations, and any number of edits and faults, from `AttachmentsAssumption` (an attachment has a
revision; sizes are positive). The properties speak of the time between runs; `DirInv` carries them through a run.
What metadata.json and the page say holds but for the files this run has touched (`Faithful(meta, ..)`, `Leading`);
while attachments are downloaded, the touched files are those saved so far and the one in progress (`Saving`); and
at the end the new record describes the touched files, so that saving it may forget that they were touched
(`Finishing`). The last needs that the page links nothing that is about to be removed, unless the page itself is
(`PageStale`). `RunInv` says that the loaded record is the one on disk until the end, and that no attachment is in two
places; `PastInv` that the listing and every file are of past revisions. For `CleanCorrect`, `Since` keeps with each
link that its file is not older than its listing: if the size listed is the current one, the revision listed, the
one downloaded and the current one are the same.

`PipelineProofs.tla` proves all properties of `pipeline_runs` but `Converges` for every wiki
(pages, revisions, titles, links and children), all seeds and any number of edits, faults and runs, from
`PipelineAssumption` (every page has a revision; seeds and links are pages). Most properties speak of the moment after
saving, so that their invariant has to be carried through the phases of a run. `Course` says what the variables of a
run hold in each phase, such as that the loaded records are those on disk until they are saved. `Truthful` relates
each result of the traversal to the wiki: what was found is a state that the page had during the run, and not older
than the record; `Complete` says that the traversal left no page dirty and no target of a good page out. `Versions`
orders record, stored Markdown, file and page by version, cut-off texts aside; `RecordsNeverAhead` follows from it, and
cannot be proved without it, since a reused page writes its stored Markdown back. `Untorn` says that there are no
cut-off texts, in files or records, while the directory is clean, which `SuccessIsFresh` needs for its exception. `Processing` and `Finishing` say of each processed
page that its record and file are of the version found (`Done`), and in full mode also which links are local: none
before the pass over the links has come to it, all after that (`Exact`). `Linked` is the same for open links, errors
or not, and needs no kind of page. `Origin` traces the files of a clean directory to loaded records and processed
pages, which are what `Stale` and the new records cover. Each part has a lemma that a step preserves it
(`CourseNext` to `OriginNext`); `Turn` and `EndKept` say what a step on one page means for the others.

*Refinement* (`MirrorCorrect`). `Watched` says that the states seen in a run include the present one and that none is
older than what the run loaded; `Sourced` that a record has the version that was loaded or the one that was found.
`Start` begins a run of `Mirror`, `Clear` forgets, `Save` commits (`MirrorCommit`), and every way out ends it, also a
kill in the middle of clearing; edits, trashing, restoring and removing change the wiki, a rearrangement of child pages
or the removal of a page from the trash nothing. All other steps stutter, because `metadata.json` and its checkpoint are not touched before `Save`. The commitment
needs `Truthful` for the pages that were found, `Sourced` for those that failed, and `Complete` for the seeds.

*Runs succeed* (`RunsSucceedCorrect`, `LeftCorrect`, `NeverStuck`), for finitely many pages. The only step that fails
without a fault is `RewriteFails`, for which a page file has to be missing; in a run without page errors there is none,
because every page was processed and `Done` says that its file is there (`FileThere`). A step of a run ends a phase,
deals with a page or a file of its phase, or turns a dirty page into a fetched one (`RunAdvances`); the finite sets that
are counted include the stale files, which come from loaded records. If the run is not `Bad` and the wiki rested,
`SuccessIsFresh` and `GraphClosed` hold of versions that are the present ones, and `Complete` and `Truth` say that no
existing seed was taken for deleted (`CalmFresh`). `NeverStuck`: in every phase there is a next step, since the
traversal leaves no page half classified, and the pass over the links misses no file unless a page failed.

*Termination without fairness.* Three theorems of the same form, `ProgressCorrect`, `RunsSucceedCorrect` and
`FetchAdvancesCorrect`, say that steps lower a tuple of naturals, or, if they are other people's, leave it alone.
`ComesToRest` in `Iteration.tla` says what that means: in any sequence of such tuples only finitely many steps lower it,
because the lexicographic order of the library is well-founded. `StuckCorrect` and the two theorems `NeverStuck` and
`ClientNeverStuck` say that before the end the guards of a next step hold. The last link, that weak fairness then forces
that step, needs ENABLED.

*Only model-checked*: liveness itself (`Terminates`, `Converges`, `FetchEnds`), because the prover has no ENABLED and
therefore no fairness; all that they rest on besides is proved; and the texts (`Exact`, `CodeKept`), because what a
recursive definition makes of every document would need induction over data. The type invariants of `Pipeline`,
`Attachments` and `Users` are proved (`TypeCorrect`) and not among the properties of the runs.

## Plan

Done: `Crawl`, `Traversal`, `CrawlProofs`, `Iteration`, `TraversalProofs`, `Mirror`, `Pipeline`, `PipelineProofs`,
`Attachments`, `AttachmentsProofs`, `Transport`, `Users`, `UsersProofs`, `Auth`, `AuthProofs`, `Comments`,
`Display`, `Client`, `ClientProofs`, `Render`, `Rewriter`, `PageText`, `Measures`. Possible next, in order:

1. Tables in `Render`, with documents for them in `MCPageText`.
2. The separate requests of one node handler against a page that changes in between.
3. An abstract specification of the attachment files, as `Mirror` is one of `metadata.json`, implemented by
   `Attachments`.

## Not modelled

* Dry runs and the post-crawl hook: neither changes state that the program reads again. The preview of deletions
  compares stored metadata with a traversal; between it and the real run the wiki may change in any way.
* Front matter, checkpoint times, summaries and statistics: written, not read back.
* Extraction of references from documents, URL patterns, decoding of requests and documents, configuration files:
  sequential code without state that unit tests cover well. What they yield is an input of the models.
* Tables and nodes that write plain text only; what is written for them cannot be a fence, but a table cell may hold
  a link.
