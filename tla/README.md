# TLA+ model of hvax

hvax stores photographs, finds the faces in them, searches faces by embedding
and groups faces into people. `hvaxd` serves this over HTTP from one data
directory; a command-line client and a browser extension feed it. This
directory models all of them where they keep state: the gallery with its people
and its clustering job, the files under it and what a kill leaves in them, the
engine and its locks, the daemon from start to signal, the client, the
extension, and the search and clustering algorithms. TLC checks the models on
small instances; TLAPS proves nearly every safety property of them, two
refinements among them, for all instances. Paths below are relative to the repository root.

## The system

| Part | State it keeps | Operations | Hard behaviour |
|---|---|---|---|
| Gallery store, `src/store/gallery.cpp` | slot files of photos, faces, embeddings; hash map, face list per photo, flag cache; master files | insert, upgrade, remove_image, reindex, flush, load at start | mirrors kept by hand; an upgrade that throws half way; kills between two files |
| Identities, `src/store/identity.cpp` | identity slots (live, pinned, hidden, size), member lists, hidden mask and count | join at ingest, merge, split, rename, dissolve, assign, hide, unhide | lists mirror the face rows; dead ids keep flags |
| Clustering job, `Gallery::recluster` | a snapshot, groups, labels | snapshot, name, apply | minutes between snapshot and apply with every handler running |
| HNSW wrapper, `src/index/hnsw_index.cpp` | keys in memory, `index.usearch` | add, update, remove, save, rebuild | file written only at a clean stop, never when empty; `add` of a present key throws |
| Slot files, `include/hvax/util/mmap_slots.hpp` | mapped records, count, capacity | append, grow, sync | several files per logical append; a failed grow |
| Engine, `src/engine.cpp` | `ingest_mu_`, inference permits, cluster thread | ingest, delete, recluster, crops, queries | dedup then insert; delete beside ingest; stopping the thread |
| Daemon, `src/main.cpp` | lock file, modes | reindex, cluster, serve | flush from a signal handler |
| HTTP, `src/http/server.cpp` | keys | routes | hidden is checked under one lock and used under another |
| Search, `gallery.cpp`, `src/index/exact_scan.cpp` | none | search, template search, people search | stale keys and hidden faces eat the candidates |
| Clustering algorithms, `src/identity/cluster.cpp` | none | Chinese Whispers, union-find, compaction | order of labels |
| Inference, hashes, processed payloads | models | detect, embed, align | numeric |
| Client, `src/client.cpp` | processing cache, worker pool | upload, local ingest | stale cache, failing worker |
| Extension, `extension/src/` | slot semaphore, queue, job flag | ingest url, ingest bytes | lost releases, stale refresh, lost posts |

How they meet: HTTP calls the engine; the engine serialises ingests with
`ingest_mu_` and calls the gallery; the gallery runs every changing handler
under the exclusive lock `mu_` and every query under a shared one. Only
`recluster` releases the lock half way: snapshot, neighbours, centroids and the
number of identities each under a shared lock, apply under the exclusive one.

What makes each part correct:

* store: a photo is found by its hash and no other, has its master, and its
  faces are listed and die with it; the index holds every face above the gate;
* identities: row, list, liveness and size of an identity always agree; hidden
  people stay hidden, whoever joins them; a dead id is never handed out again;
* job: pinned people keep their faces, faces ingested meanwhile keep their
  identity, ids are stable;
* slot files: after a kill at any write the next start is possible, keeps what
  was acknowledged and repairs what handlers left half done;
* engine: equal bytes are stored once; a deletion beside an ingest leaves no
  wrong answer; a permit and the ingest lock are always returned;
* daemon: one process has the directory open; commands end; the background
  thread can be joined wherever it is; a signal ends the process;
* search: the best faces the caller may see, hidden and stale ones left out,
  whichever way they were found;
* client: a cache answers for the server and the model it was filled for; exit
  code 0 means every file is done;
* extension: no slot is lost or given twice, an image is posted once.

## Modules

| Module | Models | State and actions |
|---|---|---|
| `Clustering` | the decisions of `recluster`: groups, names, `min_size` | no state; `Groupings`, `Orders`, `NamedBy`, `Labels` |
| `Gallery` | `gallery.cpp`, the changing half of `identity.cpp`, the key set of the HNSW | one action per handler: `Insert`, `Upgrade`, `UpgradeThrows`, `RemoveImage`, `Hide`, `Unhide`, `Merge`, `Split`, `Rename`, `Dissolve`, `AssignFace`, `UnassignFace`, `ClusterOnce`, `Restart`, `Reindex` |
| `Recluster` | the job beside the running server; extends `Gallery` | `Begin`, `Name`, `Apply` between any of the handlers and `Stop` |
| `Durability` | `mmap_slots.hpp` under the gallery's handlers | a handler is the sequence `todo` of its writes; `Write` makes one, `Kill` may come before any, a start is a handler too |
| `PhotoStore` | what the store promises: numbers, contents, replacement | abstract: `Add`, `Replace`, `Delete` over `count` and `held` |
| `Engine` | `engine.cpp` under the HTTP workers | one step per call into the gallery or per lock: `LookUp`, `AcquirePermit`, `Infer`, `Enter`, `Recheck`, `Compare`, `Confirm`, `Decide`, `Fill`, `Upgrade`, `Store`, `Check...`, `Find`, `RemoveFound` |
| `Daemon` | `main.cpp`, the background thread of `engine.cpp`, the sections of `mu_` | a place per process and thread; lock, open, modes, serving, job, stop, join, signal handler |
| `Client` | `client.cpp` | a place per thread; `CheckStop`, `Claim`, `Post`, `Look`, `Preflight`, `Payload`, `Upload`; two caches that outlive `Kill` |
| `Extension` | `background.ts` and `content.ts` | what runs between two awaits is one action; slots, waiters, the limit and its refresh |
| `Ranking` | ranked lists, the heap of the k best, pages | operators |
| `Search` | scan, 8-bit scan, HNSW candidates, ranges, groups, templates | operators |
| `People` | listings, timeline, co-occurrence, search for people | operators |
| `Communities` | `cluster.cpp`: k-NN graph, Chinese Whispers, union-find, compaction | operators |
| `Queries` | one input of `Search`, `People` or `Communities` at a time | `input`; `PickSearch`, `PickPeople`, `PickGraph`, `PickUnions` |
| `GalleryProofs` | theorems about `Gallery`: types, photos, index, the abstract store; identities, pins, hiding | |
| `ReclusterProofs`, `DurabilityProofs`, `EngineProofs`, `DaemonProofs`, `ClientProofs`, `ExtensionProofs`, `QueriesProofs` | theorems about the module of that name | |
| `MCGallery`, `MCRecluster`, `MCDurability`, `MCEngine`, `MCClient`, `MCExtension`, `MCQueries` | instances for TLC | `Daemon` needs none |

How they compose: `Recluster` runs the clustering job among the actions of
`Gallery`. `Engine` sees the gallery as `PhotoStore` describes it, and
`GalleryProofs` proves that `Gallery` is such a store, so the two halves meet in
one abstract specification. `Daemon` keeps of the gallery only who is in which
section of its lock. `Client` and `Extension` see of the server only its
answers, all of them possible at any time. `Queries` takes as inputs what the
other modules say of a gallery, for example that faces above the gate are in
the index.

### Gallery

A flag word is the set of slots that carry the flag (`liveFaces`, `lowQuality`,
`pinned`, `hidden`). An identity is named by what a face row stores for it,
`identity_id + 1`, so 0 is "nobody". `members`, `imageFaces`, `shaIndex`,
`hiddenMask`, `hiddenCount` are the in-memory mirrors `members_`,
`image_faces_`, `sha_to_idx_`, `hidden_`, `hidden_count_`; `indexFile` and
`masters` are files. `flags_cache_` always equals the flags of the rows and has
no variable of its own.

Embeddings are gone: which identity a face is close enough to join, which old
face matches a new one, and whether a face passes the gate are inputs of the
action, as wide as the code allows. The centroid merge may end with any
grouping in which the rows of a pinned identity stay together and no group
holds two pinned identities. Left out: names, centroids, timestamps, perceptual
hashes, and the display flag `kImageRepeatIdentity`.

Two details came from the code and not from its documents:

* `UpgradeThrows`. `HnswIndex::add` discards the result of usearch's `add`; the
  discarded error throws from its destructor when the key is already there. An
  upgrade that promotes a face whose stale key came back from `index.usearch`
  ends at that point, with the new hash set and the old master still on disk.
* `Saved`. `HnswIndex::save` returns before writing when the index is empty.

### The other modules

* `Durability`: the slot files are shared mappings, so a SIGKILL keeps every
  write made before it. The memory of the process is a function of the files,
  with one exception: member lists are rebuilt over the rows that have an
  embedding, so a face behind them is in no list, whatever it refers to
  (`unlisted`), until `assign_face` or an upgrade gives it an identity again. An
  embedding is named by the row it was computed for, so misalignment shows.
  Which identity a new or changed face is close enough to join, and whether it
  passes the gate, are inputs.
* `Engine`: a content is an upload's SHA-256 and its decoded picture at once;
  likeness, pixels and faces are constants. A PDF is a request of several
  tasks. `disturbed` is a history variable: a deletion ran during the task.
* `Daemon`: a thread is at a step, wants a section of `mu_`, or is in it. The
  signal handler runs on top of an arbitrary thread, which stops meanwhile. The
  job takes `mu_` five times, for its snapshot, the neighbours (chunk by chunk),
  the centroids, the next id and the labels (`Following`); the chunks are one
  section that may be entered or not.
* `Client`: the server may answer "known" for any content, a request or an
  answer may be lost, a write to a cache may fail in silence.
* `Search`: the 8-bit score falls short of the real one by less than
  `I8Margin`; the HNSW finds the true nearest of its keys.
* `Communities`: the labels of pinned rows start above all rows (`StartLabels`)
  and they and the rows that take no part do not move (`FixedNodes`), as in the
  job; weights are natural numbers, sums of weights exact.
* `Extension`: `Message` to `End` follow one message; `WorkerEnds` is the
  browser stopping the service worker, which loses everything in memory. The
  popup's get-status message, which refreshes the limit as a task does, is left
  out.

## Runs

| Run | Module | Shows |
|---|---|---|
| `gallery` | `MCGallery` | photos, people, index and hidden flags agree while every handler runs undisturbed |
| `recluster` | `MCRecluster` | what remains true when the job overlaps other handlers and another job |
| `durability` | `MCDurability` | starts after kills are possible, repair, and keep what was acknowledged |
| `engine` | `MCEngine` | every interleaving of uploads and deletions is one of the abstract store; answers hold; requests end |
| `daemon` | `Daemon` | one process per directory; commands, jobs and processes come to their end |
| `client` | `MCClient` | caches, exit code, summary and end of `hvax ingest` and `hvax serve` |
| `uploads` | `MCExtension` | slots, limit, duplicates and ends of the extension's tasks |
| `algorithms` | `MCQueries` | search, people and clustering against reference definitions |
| `index_gate`, `stable_ids`, `pinned_race`, `rows_aligned` | | four sentences of the documentation the code does not keep |

`gallery` checks `TypeOK` and

* `MembershipMirrorsRefs`: an identity lists exactly the indexable faces that
  refer to it; nobody refers to a dead identity;
* `IdentitiesMatchMembers`: live means has faces; the stored size is right,
  which is all a start looks at before deciding to recompute;
* `PhotosConsistent`: hash map, master files, face lists, no orphan face;
* `IndexCoversFaces`: no face above the gate is missing from the HNSW;
* `HiddenFacesSuppressed`: `row_hidden_locked` answers yes for exactly the
  faces of live hidden identities, although the count may include dead ones;
* `AutomationKeepsPinnedFaces`: only an operator moves a face that stays
  indexable out of a pinned identity;
* `DeadIdsStayDead`: ids of dissolved, merged or emptied identities are not
  revived.

In `recluster` some of these are false: a row that fell below the gate after
the snapshot is given an identity that does not list it, and a dead identity
can come back. What it checks instead:

* `ListedFacesReferBack`: a listed face is live and refers to its lister, so
  no face is listed twice;
* `IdentitiesMatchMembers`: still true;
* `HiddenNeverSurface`: a face that refers to a live hidden identity is
  suppressed (the converse fails for identities the job revived);
* `PinnedRowsAreFixed`: a face the snapshot saw in a pinned identity is there
  again when the job ends, even if an operator moved it meanwhile;
* `IngestMeanwhileSurvives`: a face appended since the snapshot keeps its
  identity, and that identity survives the job.

`durability`: `ReopenAccepts` (no header announces more than the file holds),
`LivePhotosHaveMasters` (at every moment), `AcknowledgedSurvive` (a photo whose
ingest was answered keeps its content and its faces), `StartRepairs` (while
requests are served the refs of listed faces, the sizes of lists and the lengths
of derived files are right, and a face can be missing from the lists only where
embeddings are short of rows).

`engine`: `ImplementsPhotoStore`, `AnswersHold` (the photo named in an answer
holds these bytes or a resembling copy at least as large, unless a photo was
deleted meanwhile; an undisturbed upload is told of an error only when it was an
upgrade that threw after its bytes were stored), `RequestsAnswered`.

`daemon`: `DirectoryHasOneWriter`, `CommandsEnd`, `SignalEndsTheProcess`,
`ClusteringComesFree`. The last three except one situation by name: `Stuck`, a
signal on a thread that holds `mu_` or waits for it as a writer.

`client`: `MarkersAreTrue`, `CleanExitMeansDone`, `SummaryAddsUp`, `RunEnds`.

`uploads`: `NoIdleSlots`, `SlotsFollowLimit`, `PostedOnce`, `EveryTaskEnds`.

`algorithms`: `SearchFindsWhatCounts` (what a search leaves out was crowded out
by more faces than the slack of the candidates is for), `PeopleViewsAgree`,
`ClusteringLabels`. What they had to say was found by proving them:

* The 8-bit scan asks for a pool of `I8Pool` rows and cannot tell a face from
  those within the margin of its score; when so many stand near it, a better
  face is missed (`Blurred`).
* With or without the key, a search grouped by person loses people once there
  are more matches than it fetches: hits are cut before they are grouped
  (`Crowded`).
* Chinese Whispers need not settle within `max_iters`. What holds is that a pass
  that changes something makes the labels agree more: `Agreement`, the weight of
  the edges within a label counted from both ends, grows by 2 at least. As it is
  bounded by the weight of all edges, enough passes settle; that is the sentence
  of `cluster.cpp` that "in-place updates converge".

### Bounds

* `gallery`, `recluster`: three faces over two photos are enough for a photo
  with two faces to be upgraded while a third face shares an identity with one
  of them, for a merge, a split, and a group of two next to a group of one
  (`MinSize = 2`). A split needs a second identity slot, a third slot in
  `recluster` lets a split and the job take the same new id. `CountMax` is the
  largest value of `hidden_count_`; it equals `MaxIds`, so a count one off
  would wrap and show. `MaxRuns` and `MaxHandled` bound the steps of
  `recluster`: two jobs, four handlers or restarts.
* `durability`: a new file has room for one record (1024 in the code), so every
  file grows within two appends. Two photos, rows and identities, and two kills:
  the second can hit the start after the first, or a handler that works on the
  shifted rows the first left. The two contents are interchangeable
  (`ContentSymmetry`): no definition tells one from the other.
* `engine`: two workers, one permit, two requests each, three photo numbers. Of
  the five contents one is a larger copy of another, one only roughly alike and
  larger still, one has no face and one does not decode; among the requests are
  two PDFs, a check, a query and deletions.
* `daemon`: two processes over one directory, one of them started with `--once`
  only, one HTTP thread each beside the main and the background thread, two
  requests, one timeout of the interval, two signals, so that the second can
  come while the first is handled.
* `client`: two threads, two files, two posts, two servers, two models, of
  which one misses a face; two runs, for the second to read the caches the
  first left.
* `uploads`: four messages, two of them of one image as a URL and as bytes;
  servers that allow one and three uploads, so the limit can fall while slots
  are taken; one change of the settings, one end of the worker.
* `algorithms`: galleries of four faces in every combination of dead, below
  the gate, free and in one of two people, four orders of scores, pools and
  slack small enough to be exhausted; four-face censuses; every graph of four
  nodes over four kinds of edge, with and without pinned rows and rows that take
  no part; every sequence of three unions.

Deadlock is not checked where the system stops: a full gallery, no request
left, all processes ended. `algorithms` has no such state and checks it.

### Fairness

The gallery's, the files' and the algorithms' runs are safety only. The others
assume weak fairness and nothing stronger:

* `Engine`: `WF` of each worker's steps. A mutex and a semaphore promise no
  order, so strong fairness is not assumed; requests are finite (`MaxRequests`),
  without which one worker could be overtaken for ever.
* `Daemon`: `WF` of each thread's steps, and of the handler while no thread that
  stopped for it holds what it needs. Tools are waited for with a deadline of
  60 seconds (`run_pdf_tool`). Starting, requests, timeouts and signals are not
  fair, so no property relies on them.
* `Client`: `WF` of each thread's steps and of the join. Requests end because
  `configure_client` sets timeouts. Kills and new runs are not fair.
* `Extension`: `WF` of the event loop. Every fetch ends, with an answer or an
  error; both ways are in the model. `background.ts` sets no timeout of its own
  on the fetch of an image and on the POST, so this rests on the browser's.
  Changes of settings and ends of the worker are not fair.

### Where documents and code disagree

Each of these has a run that ends in a counterexample:

* `pinned_race`: "a pinned identity is never dissolved by the job" (README.md).
  The job reads pins once. An identity renamed, hidden or split off after that
  is overwritten by the labels and can end tombstoned while pinned.
* `stable_ids`: "Existing identity ids are kept for the cluster that overlaps
  them most" (README.md). Clusters choose in order of size, then label; a
  cluster that overlaps an identity less takes its id when it comes first.
* `index_gate`: faces below the gate "are not added to the HNSW" (README.md).
  Raise the gate above every face and reindex: the empty index is not saved,
  and the next start loads the old file.
* `rows_aligned`: "`face_id` equals embedding row" (README.md). A kill between
  two appends of `append_face_locked` leaves the embeddings one row short; the
  constructor's warning says "truncating to min" and nothing is truncated, so
  every later face has its embedding under the row before.

These were met while modelling and have no run:

* extension/README.md says the concurrency falls back to 2 if `jobs` is absent;
  `fetchJobs` then leaves the limit where it was (`Answer`).
* A refresh of the limit that runs for the old server is joined by a task for
  the new one (`EnsureJobs`), whose answer an older generation then drops. And
  the second test of `release` cannot succeed after the first one failed.
* The loop that widens a search in `gallery.cpp` has its bound equal to its
  start and never runs twice; a range search leaves no slack for hidden faces.
  `SearchFindsWhatCounts` says exactly what remains true.
* README.md says that for a caller without the key "a hidden person does not
  exist"; `total` of the identity listing counts hidden people.
* `compact_labels` is to "renumber labels to 0..C-1 in order of first appearance"
  (`cluster.hpp:40`). It numbers them by value, so a pinned first row, whose
  label lies above all rows, is numbered last. `ClusteringLabels` asks of the
  numbers only that equal labels get the same one, different labels different
  ones, and that none is left out.
* README.md says that `hvax.lock` enforces a single writer. `main.cpp` goes on
  without it when it cannot be opened, and a PDF tool that outlives a killed
  daemon inherits it and keeps the next start out (`LockFree`).

## Proofs

Every theorem holds for all values of the constants that satisfy the named
assumptions of its module:

| Assumption | Says | Because |
|---|---|---|
| `MinSizeAssumption`, `BoundsAssumption`, `RunBoundsAssumption` | bounds are natural numbers, `NoSha` is no hash, `hidden_count_` can hold `MaxIds` | the count is a `uint64_t` and ids fit the address space |
| `DurabilityBounds` | bounds are natural numbers, a new file has room for a record | `SlotFile::open` starts at 1024 |
| `EngineBounds`, `NamesAreNames`, `RequestsAreTasks` | bounds, at least one permit; no content or worker has the name of "none"; a request has a task | the engine is configured with one permit or more; a worker without a task is idle |
| `DaemonBounds` | bounds; the main and the background thread are not HTTP threads | three different threads of `main.cpp` and `engine.cpp` |
| `ClientBounds`, `SomeWork` | bounds; at least one thread and one file | `parse_options` and `main` see to it |
| `SearchBounds`, `PeopleBounds`, `IterationBound` | pools, slack, limits and passes are natural numbers; the margin of the 8-bit score, the width of a bucket and the passes are not 0 | constants of `gallery.cpp`; `timeline` answers nothing for a width of 0; `ClusterParams::max_iters` |
| `InputsAssumption` | a gallery has finitely many rows, its index holds every face above the gate; a search asks for one hit or more; a census is smaller than `Everyone`; an edge has a weight; a pinned row takes part; unions are of nodes | `IndexCoversFaces`; `search_locked` raises `k` to 1, `search_template` answers nothing below it; `recluster` pins eligible rows only |
| `ExtensionBounds` | bounds; every limit is at least 1 | `parseJobs` refuses less, `DEFAULT_JOBS` is 2 |

| Theorem | States |
|---|---|
| `GalleryProofs!TypeCorrect`, `PhotosCorrect`, `IndexCorrect` | `TypeOK`, `PhotosConsistent`, `IndexCoversFaces` |
| `GalleryProofs!GalleryIsAPhotoStore` | `Gallery` implements `PhotoStore` |
| `GalleryProofs!MembershipCorrect`, `IdentitiesCorrect`, `HiddenCorrect` | `MembershipMirrorsRefs`, `IdentitiesMatchMembers`, `HiddenFacesSuppressed` |
| `GalleryProofs!DeadStayDead`, `PinnedFacesKept` | the action properties `DeadIdsStayDead`, `AutomationKeepsPinnedFaces` |
| `ReclusterProofs!ListsReferBack`, `JobKeepsIdentities`, `HiddenStayHidden` | `ListedFacesReferBack`, `IdentitiesMatchMembers`, `HiddenNeverSurface` of `JobSpec` |
| `ReclusterProofs!PinnedRowsKept`, `IngestSurvivesJob` | the action properties `PinnedRowsAreFixed`, `IngestMeanwhileSurvives` |
| `ReclusterProofs!AloneIsGallery` | a job that no other handler overlaps is the step `ClusterOnce` of `Gallery` |
| `DurabilityProofs!EveryStartOpens`, `MastersAreThere`, `AnswersSurviveKills`, `StartsRepair` | `ReopenAccepts`, `LivePhotosHaveMasters`, `AcknowledgedSurvive`, `StartRepairs` |
| `EngineProofs!EngineIsAPhotoStore`, `AnswersAreReliable` | `Engine` implements `PhotoStore`; `AnswersHold` |
| `DaemonProofs!OneWriter` | `DirectoryHasOneWriter` |
| `ClientProofs!MarkersCorrect`, `CleanExitCorrect`, `SummaryCorrect` | `MarkersAreTrue`, `CleanExitMeansDone`, `SummaryAddsUp` |
| `ExtensionProofs!NoSlotIdle`, `LimitRespected`, `NeverPostedTwice` | `NoIdleSlots`, `SlotsFollowLimit`, `PostedOnce` |
| `QueriesProofs!SearchCorrect`, `PeopleCorrect`, `ClusteringCorrect` | `SearchFindsWhatCounts`, `PeopleViewsAgree`, `ClusteringLabels` |

### The gallery undisturbed

The argument goes in layers, each invariant used by the next.

1. `PhotosInv` adds to `PhotosConsistent` that no slot beyond the end of the
   file carries the low-quality flag: a row appended later would inherit it.
2. `MembershipInv` adds the two statements about identities. Neither is
   inductive alone: a row may join because the identity is live, and the
   identity is live because its list is not empty. `RecomputeKeepsMembership`
   says what `recompute_identity_locked` establishes from lists that mirror the
   refs; `ReassignKeepsMembership` does the same for `assign_locked` and
   `unassign_locked`, and each handler is reduced to one of the two. At a start
   only identities whose size is wrong are recomputed; that suffices because
   repairing refs can only shorten a list, and a subset of equal size is equal.
3. `HiddenInv`: `hidden_count_` is the number of set entries of `hidden_`, the
   mask and the flag agree on live identities, and no id beyond the end of the
   file is flagged. Dead identities may keep all three, which is why
   `RevivesNone` (no handler makes a dead id live) is needed first. For
   clustering it rests on `NamesAreLiveOrFresh`.
4. `PinnedFacesKept` uses that a group holds at most one pinned identity.
5. `GalleryIsAPhotoStore` maps a tombstoned slot to an empty number. That an
   unknown hash is really held by no photo is `MapIsExact`, which follows from
   `PhotosConsistent`.

### The job among the other handlers

`MembershipInv` is false here, so `JobInv` starts from what is left of it: a
list names only faces that refer back, and only a live face refers to anybody
(`ListsInv`). `HiddenNeverSurface` needs more, because the job revives dead
identities: an identity flagged hidden on disk that was dead when the process
started is missing in the mirror, and if it came back its faces would be shown.
`NobodyRefersToForgotten` says that no row, snapshot or label names such an
identity, so nothing can revive it. `PinnedLabelled` relates the labels, once
written, to the pins the snapshot saw.

`AloneIsGallery` is the other side: in `AloneSpec` handlers run only while no
job does, and then the snapshot still is what the gallery holds when the labels
are applied (`AloneInv`), so the three steps of the job are a stutter, a
stutter and `ClusterOnce`. Whatever differs between the two specifications is
owed to overlap.

### Kills

A kill may come between any two writes, so `DurableInv` speaks of the writes
still to make. `ImagesFirst`: the one write to the photos comes first or right
behind the write of its master, and at most one live photo has a content.
`UnlinksLate`: a master is unlinked only after the photos that need it were
overwritten. `AckedUntouched`: no write to come touches an answered photo or
its faces. `AnswersLast`: an answer is the last write, behind what it
announces. Each handler is shown to consist of those few writes and others that
are `Quiet`. The loops of the handlers are `FlattenSeq`, a recursive function of
the library; `FlattenIn` (whatever holds of all sequences to be joined and is
kept by joining two of them holds of the result) is proved from the well-founded
order of the natural numbers in the form of a set, `CountingUp`, which avoids
the operator parameter of the induction theorems.

`StartRepairs` says nothing while a handler or a start is under way, so it is
nowhere near inductive; `RepairInv` says what is owed meanwhile.
`NewRefsRedone`, `OldRefsRedone`: behind every write of a ref the identity that
wins the face and the one that loses it are still to be recomputed, unless the
loser is dead and stays dead. `TombsFree`: a face is tombstoned when it refers
to nobody. `Align`: the writes to come are a `Path` from the lengths the files
have to lengths in which files that mirror others are as long as those, on which
no file ever overtakes the one it follows, no face is given an identity that is
not there yet, and the embeddings stay short while a face is unlisted (`Gap`).
`WrongsRighted`: an identity whose stored size is not the length of its list, or
a listed face that refers to a dead one, is still to be written. `WriteRepairs`
shows that every single write keeps this. A handler has to establish it for what
it is about to write from a state where nothing is wrong (`Settled`), a start
from any state a kill can leave (`StartsRepairing`): `AlignFiles`,
`ClearDangling` and `Recount` in this order are enough. What a handler writes for
one face after the other is in `FineAt`, the sequences that redo whatever they
move away, and joining two of them for different faces gives another.

### The engine

`EngineIsAPhotoStore` rests on `EngineInv`, four facts about each worker. The
first look-up of a hash takes no lock, so it says nothing; between the second
one and the insert the worker holds `ingest_mu_` (`HoldsLock`), and as only its
holder stores or replaces anything, the upload is still unknown (`StillNew`). A
deletion takes no lock, but it only empties a number: the photo found to
resemble the upload is either gone or still resembles it and is smaller
(`StillAlike`), so an upgrade is one the abstract store allows.
`AnswersAreReliable` adds what a worker relies on when it is about to answer
with a photo it found (`Relies`): the number is empty only if the task was
disturbed by a deletion, and otherwise holds what it held, for whoever relies on
a photo holds `ingest_mu_`, without which nothing is stored or replaced. The
one error an undisturbed upload can meet is the exception of `hnsw_.add` in the
middle of `Gallery::upgrade`, which leaves its bytes stored.

### The daemon

One process is past the lock because `flock` gives it to one, except that a
spawned tool inherits it. `LockInv` therefore says that the tools that run
belong to whoever holds the lock, and, as an HTTP thread spawns them, that no
thread but `main` is anywhere before its process has opened the engine: a
process still waiting for the lock has no tools that could hold it.

### The client

`ClientInv` has two halves. `CachesRight`: a marker is written in the same
namespace, the run's server, whose answer it records, and a payload in that of
its model; changing either, or being killed, moves no entry. `TakenAccounted`:
while no error was counted, every file below `next` is on the server, has no
face, or is in the hands of a worker; together with `LeavesLate` (a thread of an
ingest run only leaves when the files are taken or the pool stops) and
`StopsCounted` (a pool that stops has counted an error) this gives
`CleanExitMeansDone` when nobody works any more. `SummaryCorrect` counts:
the files completed and the threads with a file in hand are together the files
taken (`EveryFileCounted`), and every completed file was put under one heading.

### The extension

`SlotInv`: `active` is the number of tasks that hold a slot, the queue lists
each waiting task once, and it is empty unless every slot is taken. The last
part is what a release has to keep true when the limit fell or rose in between.
`ClaimInv`: a task past its claim keeps its URL in `inFlight` and is alone with
it, and a URL in `posted` is claimed by nobody but the task that just posted it.

### Search, people, clustering

The answers are recursive functions over lists and sets, and no induction
theorem of the library can be cited here, as each takes an operator. Two forms
replace them. `CountingUp`: a set that holds 0 and with every number the next is
the set of natural numbers; what is to be shown of all numbers is put in a set.
`StepsExist` and `IteratesExist`: the function a recursive definition chooses
exists, and is computed step by step. Folds and sums are unfolded to such
functions.

* Ranking. `Before` is a total order, so every place of a ranked list is taken
  once (`RanksAreTaken`). `HeapIsBest`: after each row the heap is the k best of
  the rows so far. The rows are listed by rank rather than sorted by
  `SortSeq`, which the provers do not look into.
* `SearchCorrect`. `Candidates` is split by how they are found; each way gives
  ranked matches from which only a crowded face is missing. Hiding, cutting and
  grouping keep that: grouping is an induction over the hits, with what each
  group has seen.
* `PeopleCorrect`. Every list is the ranked list of a set that is easy to
  describe. Co-occurrence is mutual because both sides count the same photos;
  the timeline adds up because its buckets divide the faces (`SumOfParts`).
* `ClusteringCorrect`. A sum of weights is the size of a set of units
  (`SumIsCount`), so sums are changed by moving units. `MovingCounts`: a node
  that goes from one label to another changes the agreement by twice the
  difference of their weights around it, and it goes only where the weight is
  greater (`MoveIs`). `Traced` says that each label started in the component of
  its node. For union-find, parents are never above their children (`Forest`),
  so n steps up reach a root; two trees are joined at their roots (`Hung`), and
  a parent is connected to its children (`Grows`).

### Only model-checked

* All liveness (`RequestsAnswered`, `CommandsEnd`, `SignalEndsTheProcess`,
  `ClusteringComesFree`, `RunEnds`, `EveryTaskEnds`): fairness is defined by
  `ENABLED`, which is out of the provers' reach.

## Not modelled

* Inference (SCRFD, ArcFace, alignment, ONNX Runtime), hashes, codecs and
  processed payloads: numeric or formatting code whose results the models take
  as inputs; a face, its quality and its likeness to others are chosen freely.
* JSON, the pages, keys and cookies, statistics, benchmarks, and the wiring of
  settings: no state beyond what the models keep.
* Loss of power, a failing `ftruncate` or `mmap`, a kill inside the very first
  open of a file, and what a kill leaves of `index.usearch`: `Durability` is
  about SIGKILL.
* The allocator's locks inside the signal handler, and signals after the engine
  was destroyed: undefined behaviour of the C++ runtime rather than a choice
  between outcomes a model could list.
* `impostor_eval` with all faces in one photo does not end. `Daemon` has it as
  `onePhoto`, and `CommandsEnd` excepts it.
* The extension's session counters (`bumpStats`) and get-status message, and a
  failed POST, which is never retried; model files replaced while a client runs,
  and photos deleted on the server under a client's marker; the recall of HNSW.

## Plan

Done: all modules above, in the order `Gallery`, `Recluster`, `Durability`,
`Engine`, `Daemon`, `Client`, `Extension`, the algorithms.

Every safety invariant and action property of the passing runs is also a
theorem. Open: the recall of the HNSW and the loss of its file in a kill would
need a model of `index.usearch`, and float weights one of rounding.
