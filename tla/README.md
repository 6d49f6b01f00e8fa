# axis-movies in TLA+

axis-movies is a Radarr-v3-compatible movie manager: an HTTP API over
PostgreSQL that adds movies, searches indexers, hands releases to download
clients and imports finished downloads into a library of root folders. Every
piece of concurrency in it is a request handler (one goroutine per request) or
a search goroutine; every piece of durable state is a row of the database or a
file of the library. This directory models that state, the handlers that change
it, and what may go wrong between two of their steps.

## Inventory

| Component | Code | State | Operations | Hard behaviour | What makes it correct |
|---|---|---|---|---|---|
| Importer | `internal/importer` | library files, partial files, shared inodes | `Import`, `copyFile` | concurrent calls for one destination, crashes and I/O errors between system calls | no whole-looking torn file, downloads untouched, success means placed |
| Import pipeline | `api/v3/import.go` | `movie_file`, `movie.has_file`, `movie.path`, `history` | `runCommand`, `importMovie` | four writes without a transaction, request deadline, retries, restarts | an acknowledged import is recorded, a recorded file exists, paths agree |
| Root folders | `api/v3/resources.go` | `root_folder` | create, delete | change while an import uses the choice | pinned movies stay in their folder |
| Search | `api/v3/search.go` | one slice, a mutex, a WaitGroup | fan-out, sort | goroutines that answer, fail or hang; the table changes | complete, ranked, always answered |
| Quality | `internal/quality` | none | `Weight`, `Name` | order of resolutions and sources | resolution dominates |
| Movies | `api/v3/movie.go`, `internal/tmdb` | `movie` | lookup, add, list | duplicate check, TMDb call and insert are apart; the answer of the insert may be lost | one row per TMDb id, true answers |
| Indexers | `api/v3/indexer.go` | `indexer` | create, update, delete | Prowlarr syncs while searches run | search sees a consistent snapshot |
| Grab, download clients | `api/v3/grab.go`, `downloadclient.go`, `internal/download` | `download_client`, the external queue | grab, CRUD, test | lost answers, retries, a client deleted between choice and use | the best enabled client of the protocol gets the release |
| Torznab client | `internal/torznab` | none | search, decode | timeouts, attributes and links in any combination | numbers and links are those of the item |
| Parser, file names | `internal/parser`, `quality.Name`, `importer.FileName` | none | `Parse`, naming | titles that look like years, dashes, names read again | a name is read as it was meant |
| Server and startup | `internal/server`, `internal/db`, `cmd/axis-movies` | schema version, its dirty flag, the migration lock | migrate, serve, shut down | several releases at once, crashes in a migration, 60 s request context, 15 s shutdown | nothing is served before the schema is there |
| The rest | tags, profiles, status, configuration, logging, version, `internal/jobs` | single rows or none | reads, inserts | none | - |

How they interact: a client of the API adds a movie, searches, grabs a release
(the download client writes the file), and asks for an import. Handlers share
the database and the file system and nothing else; the only in-process sharing
is inside one search. The download client and the user's deletions act on the
file system at any time.

## Modules

```
Importer ---- ImportPipeline ---- MovieLibrary (abstract)
   |               |
   |          MCImportPipeline, ImportPipeline_proof
   |
   +-- Importer_proof
   +-- ImporterHistory ---- AtomicImport (abstract)
            |
       MCImporter, ImporterHistory_proof

Processes ---- Startup ---- Catalog ---- MovieTable (abstract)    Grab
(constants)       |            |                                   |
           Startup_proof  MCCatalog, Catalog_proof        MCGrab, Grab_proof

Quality ---- Search                     Naming ------ ReleaseLife ---- Feeds
   |           |                           |               |
   |    MCSearch, Search_proof         (Quality)     MCReleaseLife, ReleaseLife_proof
```

Operators named in a comment as *Mutant* belong to no specification: each is a
plausible mistake in the definition below it, and the property it is listed
with in `PROJECT.json` is violated when it takes that definition's place.

### Importer

`Import(src, dest)` and `copyFile`, one action per system call: `Prepare`
(MkdirAll and Stat), `Remove`, `Link`, `Open`, `Create`, `CopyChunk`, `Close`,
`Rename`. `Fault` is any of them failing (importer.go's error returns, with the
removal of the partial file where the code has it, which may fail as well);
`Crash` kills the process; `Arrive` and `Vanish` are the download client's.

A file is an inode. `dir` and `partial` are directory entries, `in` and `out`
the descriptors of a copy, `data` the contents: a hard link is a second entry
for one inode, `Create` on an existing partial file truncates the inode others
may be writing, and a renamed file keeps receiving what an open descriptor
writes. This level is needed because the interesting failure is exactly there.
Contents are sequences of chunks tagged with the download they came from, so
truncation and mixture are visible. Directories, permissions and file names are
left out; the largest-file choice of `ScanVideoFiles` is in ImportPipeline.

`suspect` is a history variable: the inodes written by two overlapping copies.

### AtomicImport, ImporterHistory

AtomicImport is what a caller of `Import` may count on: a call may take away
what its destination held, and then either places its source there in one step
and succeeds, or fails and places nothing. Only a call that ran beside another
one to its destination (`met`) may place a torn file. It knows no partial files,
inodes or descriptors.

`KeepsAtomicImport` says that Importer implements it. ImporterHistory adds the
history variable `met` and the mapping: `call` forgets where in `Import` a call
is, `held` is what is seen under the names of the library: the download whose
bytes the file has, `Torn` for a file that overlapping copies wrote, or `None`.

### ImportPipeline

`POST /api/v3/command` with one handler per process: `Request` (GetMovie, the
scan, the root folder), `Import` (an Importer step), `UpsertMovieFile`,
`SetMovieImported`, `CreateHistory`, `Reply`. Each database call (`DbCall`) may
succeed, fail, or be committed with its answer lost; after the context has ended
it fails. `Expire` ends the context at any time (deadline or client gone), but
does not stop a system call: `copyFile` takes no context. `CreateRootFolder` and
`DeleteRootFolder` run against it. The API offers no way to change or delete a
movie, so movies and their `root_folder_path` are constants; `FolderOf` and
`LabelOf` are constants because two movies may share a folder name and two
downloads a quality, which is where imports meet. `LabelOf` is what
import.go:75 reads from the name of any file, one of the library included: that
it reads back the label the name was made with is no part of the model but a
hypothesis, `LabelsReadBack`, where a theorem needs it.

Requests that fail before the import change nothing and are left out. The
history is a set: two equal rows are one.

### MovieLibrary

What the pipeline promises the rest of the program, in three actions: a file is
recorded and only ever replaced, a movie becomes available only when a file is
recorded, history tells of available movies. `KeepsLibrary` says the handlers
implement it (refinement mapping: the three tables themselves), whatever the
interleaving, the faults and the crashes.

### Search, Quality

`GET /api/v3/release`: the snapshot of enabled indexers, one goroutine for each
(`SearchIndexer`, `Lock`, `Read`, `Write`, `Unlock`, `Done`), the handler's
`Spawn`, `EnterWait`, `Wait`, `Sort`, `Reply`, and the 45 s deadline.
Meanwhile Prowlarr changes the table (`CreateIndexer`, `UpdateIndexer`,
`DeleteIndexer`); a row is what `boolOr` makes of `enableInteractiveSearch`, the
one column the search decides by. `append` is split in a read and a write of the slice, so
that the mutex matters. Concurrent searches share nothing but the table, so one
search at a time suffices. `Offers` is what each indexer's feed holds after
parsing; an indexer may also fail, which contributes nothing. `Sort` takes
any result `sort.SliceStable` may give. Quality has the rank tables and
`Weight`.

### Grab

`POST /api/v3/release` with one handler per process. `Grab` decodes the
request, reads the `download_client` table, chooses the first enabled row of the
protocol and builds its client; `Login` and `Add` are qBittorrent's two calls,
`AddUrl` SABnzbd's one; `Reply` answers. The handler keeps a copy of the row
(`chosen`) while `CreateDownloadClient`, `UpdateDownloadClient` and
`DeleteDownloadClient` change the table. A call may be refused, or get no answer
with the release accepted or not; `Crash` forgets the request. `received` is
what each server has accepted so far; that SABnzbd would queue a release twice
is therefore not visible. `Row` applies the defaults of the request body
(`protocolFor`, `priorityOr`, `boolOr`), and a PUT is not validated, as in the
code. Host, credentials and category are abstracted to the server a row points
at, and a wrong one is among the failing calls. What a status means is taken
from the code: below 300, qBittorrent has the release.

### Startup, Processes

The life of a server process: `Start`, `Lock`, `Plan`, `SetDirty`, `Apply`,
`ClearDirty`, `Connect`, `Shutdown`, `Drained`, with `SigTerm` and `Fail` at any
time. Several processes share the database, and `Release[i]` is the number of
migrations embedded in process `i`, so that a rolling upgrade, a rollback and
two copies started at once are all instances. `migrate.Up` is external and
follows golang-migrate's protocol: an advisory lock, the version read once, each
migration between a dirty and a clean mark. Its `ErrNoChange` is no error to
`db.Migrate`; a dirty version is one, and so is a version without a file, and
`run` then returns. `schema` lists the migrations committed, in their order,
beside what the version claims. `Connect` heeds the signal; `Migrate` takes no
context. `Exit` also frees the lock, as PostgreSQL does with the session.

### Catalog, MovieTable

`POST /api/v3/movie` in the processes of Startup: `Add`, `GetMovieByTMDB` (the
check), `GetMovie` (the TMDb client and `tmdbError`), `CreateMovie`, `Reply`,
each a step of its own. A call may fail, and the insert may be committed with
its answer lost (`Disturbed`). `CreateMovie` has the order of PostgreSQL's
checks: the unique index before the foreign key of the quality profile, so that
an unknown profile is answered with 409 or 500; `profileOf` replaces 0.
`CutOff` removes the requests of a process that has exited (main.go:84: after
15 s, whatever they were doing). A row keeps the root folder and the profile,
the parts that two requests for one movie may disagree about; TMDb's metadata
is the same for both.

`MovieTable` is the promise: a movie is entered once and never changed by
another request, and told 201 at most once. `KeepsTable` says that the handlers
implement it (refinement mapping: the table itself, and the history of answers).

### Naming, Feeds, ReleaseLife

`Naming` is the parser, the quality label and the library file name, over
sequences of *lexemes*: words (maximal runs of letters and digits, in lower
case) and single characters between them. The regular expressions work at that
level: each is anchored at word boundaries and ignores case, so `\b(a|b-?c)\b`
is a set of three lexeme sequences. The rules keep the code's order
(`SourceRules`), the year substitutions consume the characters they match
(`SplitBefore`, `SplitAfter`), and a group comes from one of three places
(`extractGroup`). What loops in Go is a recursive function or a selection by
index (`Fields`, `Trim`, `FirstMatch`), never a RECURSIVE operator, so that it
can be proved about. `Feeds` decodes the items of a Torznab document: attributes in
order (`Attr`, applied one by one in `AttrsRead`), links, numbers that fail softly (`atoiSafe`) and those that fail
the document (`Sound`).

`ReleaseLife` puts them in the program's order: a feed is searched, a video file
of one offer is imported under the name of the movie (`Import`), and the file in
the library is imported again (`Reimport`), as often as one likes, each time
read from the name the last import made. The video file is the largest one of
the download (import.go:73): it bears the name of its release or any other
(`Video`). `place` says where the library file lies: one that is its own
destination is removed and nothing is recorded, as in `pipeline_reimport`; one
whose library was moved (`Relocate`) is placed and recorded again. `MCReleaseLife` writes what an uploader means in six styles and compares
what the program reads with what was meant: the reference is the record the name
was made from, not a second parser. Items carry their attributes in every order.

## Runs

| Run | Bounds | Question | Outcome |
|---|---|---|---|
| `importer` | 2 calls, a linked and a copied download, 1 destination, 2 chunks, 1 mishap | which bytes may each path hold, is an import one step? | holds |
| `importer_torn` | 2 copied downloads, no mishap | is a library file always one download? | violated |
| `pipeline_calm` | 2 handlers, 1 movie without a root folder, a linked and a copied download of one quality, 2 chunks, 1 database fault | do recorded files exist, does history explain them, is the work of a request bounded? | holds |
| `pipeline_roots` | 2 handlers, 1 movie with a root folder of its own, 2 root folders that come and go, a linked and a copied download of different quality, 1 chunk, 1 mishap, no database fault | do the stored paths agree, is the label of each file true of its bytes? | holds |
| `pipeline_live` | 2 handlers, 1 mishap or crash, 1 fault | refinement of MovieLibrary and Importer, liveness | holds |
| `pipeline_slow` | 1 handler, a copy over 60 s | does a retry ever succeed? | violated |
| `pipeline_reimport` | 1 handler, requests may name the library | does re-import keep the file? | violated |
| `grab` | 2 handlers, 2 rows out of 5 configurations, 2 mishaps, 1 change | is 201 true, do retries stay put, is a caller served? | holds |
| `grab_kind` | 1 handler, SABnzbd posted without protocol | do torrents go to qBittorrent only? | violated |
| `search` | 3 indexers, 5 releases with ties | complete, ranked, answered? | holds |
| `service` | an old and a new process, 2 migrations, 2 clients, 4 requests, 1 mishap, 1 fault | are migrations run once and before serving, answers true, is the movie entered once, and in the end? | holds |
| `release` | 6 styles, 5 titles, 14 sources, 4 resolutions, 4 codecs; a video file named after its release or in 2 other ways; items with up to 4 attributes in every order, leechers stated as 0 beside peers among them | are names read as meant, the quality of the file's name kept, offers usable, numbers those of the item? | holds |

Bounds. Two handlers are the least that interleave, and every conflict in the
code is between two calls for one destination; two chunks are the least that
distinguish empty, truncated, mixed and whole; six inodes are more than two
calls, two downloads, a partial and a library file use at once. One mishap in `importer` meets
every step of either call; a crash followed by a fault is in the theorems, which
hold for any number. `MaxMishaps` and `MaxFaults` bound events of the environment only, never steps of the code.
Two processes are the least that
contend for the lock, and two migrations the least of which one may be there and
the other not; the initial version ranges over all of them, so a rollback (the
old process on a migrated schema) is included. Requests name downloads only,
except in `pipeline_reimport`; imports of library files between other imports
are too many states for a run, and are left to the theorems that allow them
(`LabelsAreTrue`, `AckIsDurable`, `PinnedRowsAgree`, `ImplementsLibrary`). The
mishap of `pipeline_roots` is a crash, a failed system call or a deleted
download; a database that fails is in `pipeline_calm` and `pipeline_live`. One movie suffices for `service`
because requests for different movies share no row; the second id is one TMDb
does not know. The titles of `release` are an ordinary one, one that is a year,
one that ends in a year, one with a colon and one with a dash; all of them,
with every name they are listed by, satisfy the hypotheses of the theorems about
names (`PlainFeeds`, `PlainReleases`, `PlainFilms`), except for the extension `.ts`. `MaxInt` is 10,
and feeds hold greater numbers. Handlers are interchangeable, so the safety runs use symmetry; the runs with
liveness do not. Three indexers include one whose answer is lost between the
appends of two others.

### Findings

* **Torn library file** (`importer_torn`, importer.go:128). All copies to one
  destination share `dest.axis-partial`. The second `Create` truncates the file
  the first is writing, the first `Rename` publishes it, and the second's writes
  go on into the published file. `TornOnlyByOverlap` shows that this is the only
  way: without overlap neither faults, nor crashes, nor stale partial files do
  it. Two theorems say who is safe: one handler (`OneHandlerWhole`), and a
  library on the filesystem of its downloads (`OneDeviceWhole`).
* **Re-import of the library file deletes it** (`pipeline_reimport`,
  importer.go:108). A request that names the movie's own folder makes source and
  destination one file; `Remove` takes the only name before `Link`.
* **Slow copies are never recorded** (`pipeline_slow`, server.go:40). The copy
  outlives the 60 s context, so the first database call after it fails, for
  every retry.
* **Torrents for SABnzbd** (`grab_kind`, indexer.go:176). Download clients share
  the indexers' rule for a missing protocol, which knows Newznab only. A client
  posted with a protocol of its kind is safe (`StatedKindsKept`).

Other behaviours are known, and either claimed by no document or outside the
properties, which then say so:

* **Paths of movies without a root folder.** Two imports around a change of the
  `root_folder` table may interleave their two writes so that `movie.path` and
  `movie_file.path` name different folders (import.go:117). `PinnedPathsAgree` is
  therefore stated for movies with a root folder.
* **An import may have no history row** although it was answered with 201: the
  error of `CreateHistory` is dropped on purpose (import.go:106).
* **A slow copy replaces a file the history then misnames** (server.go:40): it is
  placed after its request has expired, so no row tells of it. `HistoryTells`
  assumes that no copy outlasts its deadline (`NoneSlow`).
* **An attribute stated twice** in an item counts as often as it is read: the
  last `seeders` wins, and so does the last `leechers` (torznab.go:122).
  `NumbersKept` assumes that an item states each number once.
* **Leechers stated as 0 beside peers** (torznab.go:127-132): `leechers` 0 before
  `peers` 8 makes 8 leechers, and behind it none, because 0 also stands for "not
  stated". `CountsKept` says so: it is the only case in which the order of the
  attributes counts.
* **The quality is that of the file's name** (import.go:75). The name of the
  release is not looked at: a download that holds `movie.mkv` is recorded as
  Unknown, although the search showed its quality. No document promises more.
  `OneQuality` relates the record to the name of the video file, and to the search
  only where that file bears the name of the release.
* **A library file is labelled again by its name** (import.go:75): one whose title
  has a word of quality, as in *Cam*, may get another label and another name when
  it is imported again. `LabelsReadBack` and `PlainFeeds` leave these out.
* **The last word after a dash is the group** (parser.go:132). The list of
  exceptions is short (DL, HD, MA, EX, ES), so a name without a group that ends
  in `DVD-Rip`, `Blu-Ray` or `-1080p` loses that word: `Title-2008-1080p`, the
  example of parser.go:61, is split into title and year but has no resolution.
  `NameRead` leaves these names out (`Written` in MCReleaseLife).
* **Two years glued by dashes** (parser.go:62). The match for the first consumes
  the character before the second dash: `Blade-Runner-2049-2017-1080p-GRP` is
  read as of 2049.
* **A title made of language or edition words only** is stripped to nothing
  (parser.go:293).
* **`.ts` files** (parser.go:33). The extension is not stripped and reads as the
  source TS: such a file without a source becomes TELESYNC at its import, a DVD one too, and
  one of a DVDRip when it is imported again. `OneQuality` excepts them.
* **Two path rules** (movie.go:157, importer.go:92). Until its first import a
  movie with a colon in its title has another `path` than afterwards.
* **A dirty schema stays** (db.go:50): after a crash in the middle of a
  migration every start fails until someone repairs the table.
  `EventuallyAdded` excepts it.
* **An indexer may be stored twice** (indexer.go:87) when Prowlarr's POST is
  committed without an answer and sent again; there is no unique name.
* **One bad number loses a feed** (torznab.go:112): `encoding/xml` rejects the
  document, and the indexer counts as failed.

### Fairness

Safety runs assume none. `LiveSpec` of ImportPipeline: weak fairness of each
handler's own steps (goroutines are scheduled, system calls return), of a client
that asks again while its movie has no file, and of a download client that
finishes what it lost. Faults, crashes, deletions and changes of root folders
owe nothing, and are finitely many by their bounds. `LiveSpec` of Search: weak
fairness of the handler and of each goroutine; an HTTP request ends at the latest
with the client's own timeout (torznab.go:37), so `SearchIndexer` is among the
fair steps. Without that timeout the property would be lost, as the code waits
for all goroutines. `LiveSpec` of Grab: weak fairness of each handler's steps
(both HTTP clients time out after 30 s) and strong fairness of a caller without
its release, because the program accepts every request at once and only the
model limits the handlers; failures are finitely many. The property assumes that
the client with the best priority eventually stays the same and can take the
release. `LiveSpec` of Catalog: weak fairness of each handler's steps and of each
process (`Boot`: the steps of `run`, and an operator or orchestrator who starts
it again when it has exited, an assumption about the deployment); strong
fairness of `Lock`, because PostgreSQL queues those who wait for an advisory
lock; strong fairness of a client whose movie is not there, because a process
may be down when it asks. Signals, crashes and faults owe nothing.

## Proofs

For every value of the constants that satisfies the named assumptions
(`ConstantsAssumption`, `TornAssumption`, `PipelineAssumption`,
`SearchAssumption`, `GrabAssumption`, `ProcessesAssumption`,
`CatalogAssumption`, `FeedsAssumption`, `FeedAssumption`).

* **Importer_proof.** The safety properties follow from `IInv`, checked as an
  invariant of run `importer` and proved inductive: a partial file has no other
  name and no reader (`PartialsApart`), a named inode is whole unless suspect
  (`NamesSound`), a copy reads a whole source (`SourcesSound`), and an
  undisturbed writer owns its partial file and has copied exactly the chunks up
  to its offset (`CopiesFaithful`). The last is the heart: that a rename
  publishes a whole file needs to know that whoever else opened the partial file
  made it suspect. From it: `DownloadsIntact`, `TornOnlyByOverlap`,
  `NoLeftovers` and the action property `SuccessPlacesSource`. The type invariant
  is the first part of `IInv`. `DestWhole`, which
  `importer_torn` refutes, is proved where it is true: `OneHandlerWhole` and
  `OneDeviceWhole`.
* **ImporterHistory_proof.** `ImplementsAtomicImport`: each system call maps to a
  step of AtomicImport or to a stutter. `Link` and `Rename` place, `Remove`
  takes, every failed call gives up (`FailGivesUp`), and the others are not seen
  (`Unseen`). That a rename by a call that met no other places its source whole
  needs `MetInv`: only calls that met write to a suspect partial file. The
  mapping needs two downloads to differ in some chunk (`WholeApart`), which they
  do as contents carry the name of their download.
* **ImportPipeline_proof.** `PipelineInv` (the order of the three writes, and
  the root folder every trace of a pinned movie names) gives `AckedIsRecorded`
  and `PinnedPathsAgree`. Each step of the pipeline is a step of Importer or
  leaves it alone (`UsesImporter`), so Importer's theorems carry over to the
  composed program (`FilesStaySound`); each step implements MovieLibrary
  (`KeepsLibrary`). `RecordedPresent` needs `Refilled`: a recorded path names a
  file or some call is past its `Remove` and bound to fill it; it is proved
  under `DownloadsOnly`, no request names a library file, without which
  `pipeline_reimport` refutes it. `HistoryExplains` speaks of a quiet system; its
  invariant is `FilesTraced`: what an untorn file holds is told by a row, or was
  placed by a call that is on its way to the history (`Telling`). It is inductive
  because a call that places a file has succeeded and can no longer fail, and a
  later call to the same path places its own file with its own trace. It is
  proved under `DownloadsOnly` and `NoneSlow`.
  `LabelsAreTrue` needs neither: the quality in the name of a library file, which
  is the one recorded, is that of the download whose bytes it holds, also when
  library files are imported again and calls fail, unless copies overlapped. It
  is proved under `LabelsReadBack`: the label of a library file is read back from
  its name. That is a fact about the parser, not about the handlers; `LabelReadBack`
  and `ReimportSame` of ReleaseLife_proof prove it for the films of `PlainFeeds`,
  and it is false of others (see above). Its
  invariant `LabelsTraced` adds that a call is bound for a path with the label of
  its source (`CallsLabelled`) and reads an inode with that label: what a name of
  the file system holds has the label of the name (`NamesLabelled`), a download's
  by itself and a library file's by the invariant. Steps of Importer are reduced
  to three facts: which names keep their inode (`NamedKept`), which calls keep
  their source (`SourceKept`), and what success places (`SuccessCopies`).
  `WorkIsBounded` is the safety half of liveness: each step of a handler brings
  its request nearer to its end (`CallsLeft`), and no step of another handler, of
  a client or of the surroundings takes it back, so that a request makes at most
  `Chunks + 11` calls whatever interferes with it.
* **Search_proof.** `SearchInv` (the WaitGroup counts the running goroutines,
  the mutex admits one, what is collected is what the finished ones found) gives
  `NothingLost`; `ResolutionDominates` (arithmetic of `Weight`) gives
  `BestFirst` for every feed. `SearchCannotStall` is the safety half of
  `EventuallyAnswered`: while the handler waits, some goroutine can take its next
  step, since whoever holds the mutex needs no other lock; and each step of a
  goroutine leads to the next of its seven stages. That `Release` holds only
  sources and resolutions of the rank tables is an assumption of Search;
  `QualityKnown` of ReleaseLife_proof proves it of whatever `Parse` returns.
* **Grab_proof.** `GrabInv`: types, `AckedIsReceived` (inductive by itself) and
  `OnTarget`, that as long as the table is unchanged every server that has or is
  about to get a release is the one the table makes best. With `NoTies` there is
  one such server (`OneTarget`), which gives `OneServer`.
  `StatedKindsKept` proves `SentToItsKind`, which `grab_kind` refutes, under
  `KindStated`: every body gives its implementation a protocol of its kind.
* **Startup_proof.** `StartupInv`: whoever migrates holds the lock; the version
  of a clean schema is the number of its migrations, and that of a dirty one
  exceeds it by at most the one migration that may not be committed; a process
  about to set a mark, run a migration or clear a mark is at exactly that
  migration (`LockSound`). `NeverOutOfDate` needs it: that a process which finds
  nothing to do may serve depends on a clean version never running ahead of the
  schema. From it: `NeverOutOfDate` and `MigratedOnce`.
* **Catalog_proof.** Every step of the service is a step of Startup or leaves it
  alone (`ImplementsStartup`), so Startup's theorems carry over. `CatalogInv`
  adds what a handler may conclude from its place (`Verdict`): rows are never
  removed, so a 409 stays true, and what TMDb does not know is never inserted,
  so a 404 does. `AnswersTrue` and the refinement `KeepsTable` follow.

* **ReleaseLife_proof.** Two subjects, items and names, both of any length.
  *Items.* `EveryOfferUsable` and `NumbersKept` hold for feeds of
  any length, with any number of attributes in any order. The item after each
  attribute is a recursive function (`AttrsReadDef` proves it is defined), and
  the induction over its argument is a least counterexample in a set of numbers
  (`UpTo`). `AttrsCounted` is the invariant of the loop: the numbers after each attribute are
  those that the attributes so far state (`Counted`). In one case their order
  decides, and the invariant says how: peers count for leechers only if no leechers
  are stated before them but 0, and none behind them (`StandingIn`).
  *Names.* `QualityKnown`: whatever the name, `Parse` returns a source and a
  resolution that quality.go ranks. `OneQualityKept`: whatever the video file of a
  download is called, the quality of that name is the one recorded, by its import
  and by every import of the library file; if it bears the name of the release,
  search and import agree as well (`DownloadRead`). The argument follows the words
  of a name: `Trim`, `Fields` and `JoinFields` keep exactly the words that are no
  separators (`TrimKeeps`, `FieldsWords`, `JoinWords`, `NormalizeWords`), a rule
  finds nothing where none of its words is (`RuleQuiet`), so that among the words
  that may tell a quality (`Telling`) those of the label alone decide
  (`LabelRead`, by the order of `SourceRules`), and `LibraryRest` says that
  neither the extension nor the search for a group takes a word from the label.
  `ReimportKeepsName`: an import of the library file finds the label and makes the
  name it already has, so that one that lies at its own destination is removed and
  any other is placed as it was.
  `LibraryNameKept`: title and year are read back as well. Here positions count:
  `BareSpaced` lays out the characters of a library name, `FieldsSplit` cuts its
  tokens at a space, `LibraryTokens` finds those of the title, then the year,
  then at most one for the label, and `TitleRead` shows that `titleAndYear`
  divides them there.
  The hypotheses are about the data, and each has its reason in the code.
  `PlainYears`: a word that reads as a year is none of the quality words, which
  the regular expressions make so. `PlainFeeds`: the extension is one that
  parser.go:33 strips (`.ts` is not, see above); the title of the film has a
  word, and none of the words a source or resolution is told by (a film called
  *Cam* or *Web* is read as that source); the video file may have any name.
  `PlainReleases`, for `OneQualityKept` only: the release is listed by a name
  that does not begin with a space or end in an extension. `PlainFilms`, for
  `LibraryNameKept` only: the film has a year; its title has no dot, underscore
  or bracket, which the parser makes spaces, no dash beside a word that reads as
  a year, no word of `QualityToken`, and does not end in a word of an edition or
  a language. Titles outside the hypotheses are where the code may misread its
  own names. Every feed of run `release` satisfies them, the extension `.ts`
  apart.

Only model-checked:

* liveness (`EventuallyImported`, `EventuallyAnswered`, `EventuallyReceived`,
  `EventuallyAdded`), which is out of the prover's reach; `WorkIsBounded` and
  `SearchCannotStall` are what is proved in its direction;
* `NameRead`: what an uploader meant exists only in MCReleaseLife, as the record
  that a name was rendered from. No hypothesis about arbitrary names says which
  reading is the right one, so TLC compares the two for each name.

## Not modelled

Authentication (one comparison of a key), configuration, logging, tags, profiles
and status (single-row reads and inserts, without interplay with other state),
background jobs (an interface without an implementation), the generated store
code beyond the statements a handler issues, JSON encodings, and the wording of
queries and slugs (`SearchURL`, `slugify`). PostgreSQL statements are atomic. The
null that an empty search is encoded as is left out with the other encodings. Of
the parser, the fields the code calls best-effort (audio, HDR, edition,
languages) are left out: nothing reads them.

## Plan

1. *Done:* the state machines of the inventory, with liveness, refinements and
   the parser checked; every safety property of a passing run proved, except
   `NameRead`, for which there is no statement beyond the rendered names.
2. Runs that would show known behaviours as violations: a name whose last word
   is taken for the group, an indexer stored twice.
3. Proofs: which requests `RecordedPresent` tolerates beyond `DownloadsOnly` (a
   library file imported to another movie's path).
4. Composition: the labels and folders of ImportPipeline (`LabelOf`,
   `FolderOf`) computed by Naming from the names of the files, which would turn
   the hypothesis `LabelsReadBack` into one about titles.
