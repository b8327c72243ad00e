# Verification of ricerkatoro

ricerkatoro is an MCP server, with a batch command beside it, that checks the
facts in a table: for every row (an *item*) it asks several search providers,
extracts the values of the fields to validate, lets them vote, searches again
where they disagree, and keeps the verdicts in SQLite and the text of what was
validated in a store of embeddings.

This directory holds TLA+ modules translated from its Go source, TLC
configurations that check them on small instances, and proofs checked by TLAPS
that hold for every value of the constants. `PROJECT.json` maps every definition
to the lines it models; paths below are relative to the repository.

    tlc -config Dispatcher_batch.cfg MCDispatcher     # one run
    tlapm DispatcherProofs.tla                        # one module of proofs

## 1. Inventory

### 1.1 Components

| component | code | state | operations |
|---|---|---|---|
| batch dispatcher | `internal/engine/dispatcher.go:176-256` | the channel `sem`, a WaitGroup, two atomic counters, the shared `*JobStatus` | `SearchBatch` |
| item search and validation | `internal/engine/dispatcher.go:41-174`, `internal/models/table.go` | one `ResearchItem`: Status, Results, Consensus, RetryCount; a mutex per call | `SearchItem`, `searchWithQuery`, `ValidateItem` |
| consensus engine | `internal/engine/consensus.go` | none between calls | `Validate`, `ValidateItem` |
| fuzzy comparison | `pkg/fuzzy/match.go` | none between calls | `LevenshteinDistance`, `Similarity`, `Normalize` |
| SQLite store | `internal/storage/sqlite.go` | tables `research_tables`, `research_items`, `jobs` | `SaveTable`, `SaveItem`, `UpdateItemStatus`, `SaveJob`, `LoadItems`, `cleanupStaleJobs` |
| embeddings | `internal/storage/embeddings.go`, `voyage.go` | table `embeddings` | `SaveEmbedding`, `SearchEmbeddings`, `Embed` |
| MCP tools on items | `internal/tools/search.go`, `validate.go`, `voyage.go` | that of the items | `search_row`, `search_batch`, `validate`, `voyage_store`, `voyage_search` |
| tables | `internal/tools/load.go`, `handler.go` | `h.Tables` behind an RWMutex | `load_table`, `getTable`, `setTable` |
| configuration | `internal/tools/config.go`, `handler.go` | `h.Dispatcher`, `h.Consensus`, `h.Cfg`, `h.Providers`, `h.Voyage` | `config` |
| reports | `internal/tools/status.go`, `results.go`, `export.go` | none | `get_status`, `get_results`, `export` |
| batch command | `cmd/batch/main.go` | what its main goroutine has read | poll, report, exit |
| assembly and transports | `internal/server/server.go`, `cmd/ricerkatoro/main.go` | none | registration, stdio or HTTP |
| providers | `internal/providers/*.go` | none | `Search`, an HTTP request |
| extraction and queries | `internal/engine/extractor.go`, `query_builder.go` | none | regular expressions, templates |

The repository has no tests and no README; its comments and the descriptions it
gives MCP clients are the only statements of intent.

### 1.2 How they interact

A tool call runs in a goroutine of the MCP library and several run at a time.
It finds its table through `h.mu`, but nothing locks the *items*: `search_row`,
`validate`, `voyage_store` and the workers of any batch read and write the same
fields. `SearchItem` fans out one goroutine per provider, which append to
`item.Results` under a mutex local to that call. `SearchBatch` runs its loop in
the goroutine of its caller, blocks there on `sem`, and returns once the last
row is *started*; the workers and a finalizer go on after the tool has replied,
all writing one `JobStatus` without a lock. Everything is written to SQLite as
it happens, in single statements without transactions, and the error of nearly
every write is dropped. The batch command polls the shared `JobStatus` and ends
the process as soon as it says completed.

### 1.3 What is hard, and what makes each component correct

* **Dispatcher.** Interleavings of caller, workers and finalizer over counters
  and a record that are not locked; a process that dies at any point. Correct
  means: no more than `max_concurrency` rows at once; a record that says
  *completed* means that every row is settled and stored; progress is never
  overstated; every batch ends; a restart leaves no record *running*. Another process
  on the same database takes a live batch for a stale one: its clean-up must be
  repaired and must spare what is completed.
* **Items.** Overlapping calls on one item; retries with a budget tested and
  spent without a lock; stale verdicts. Correct means: no evidence lost; the
  verdict is about all of it; the budget is bounded; an item is never left
  *searching*; the row in the store shows a verdict the item has had, and the item
  itself where calls do not overlap and no write fails; *done* marks what was
  validated; a reader that runs in between sees no final status without its verdict.
* **Consensus.** A random map order and a similarity that is not transitive.
  Correct means: every value is counted once, for or against; the sources named
  found the value; the order does not matter where similarity is transitive.
* **Fuzzy.** Two rows reused in place: the result must be the edit distance.
* **Store and tables.** Loads of several statements, a crash among them, ids
  that repeat between tables, writes whose errors are dropped. Correct means: no row
  without a table; loaded rows stay; an item that is *done* has its embedding.
* **Embedding search.** An exchange sort and a cut: the best records, each once.
* **Handler.** `config` changes four parts of the handler in several statements
  under `h.mu`, while the other tools read two of them without it. Correct means:
  the reply tells what is in force, for searches too; a dispatcher read at any moment can be used; no
  path keeps the lock.
* **Providers and extraction.** A search fails in several ways and its result is
  recorded in all of them; a field has three ways of being found, one of which
  visits a map. Correct means: an error leaves no evidence; the best way wins, for
  each result alone. Where two patterns contained in a field's name match
  differently the map decides: the same text may then yield two values, and nothing
  in the repository says otherwise.
* **Batch command.** It synchronizes on one unlocked field: the report must be
  of settled rows, and it must exit.

`PROJECT.json` lists the hazards one by one at the line where they bite.

## 2. The modules

| module | models | composed of |
|---|---|---|
| `BatchJob` | what a batch promises, with no goroutine in it | |
| `Dispatcher` | `SearchBatch`, the rows it writes, crash, restart and a second process | implements `BatchJob` |
| `BatchRunner` | the batch command | `EXTENDS Dispatcher` |
| `ResearchItem` | one item under overlapping tool calls, one of which may export it | |
| `Vote` | a field's verdict where only equal values are similar | used by `ResearchItem`, implemented by `Consensus` |
| `Extraction` | the goroutine of one provider: its search and what is extracted from it | |
| `Consensus` | the vote on one field | |
| `Edits` | what an edit distance is | |
| `EditDistance` | the loops that compute it | checked and proved against `Edits` |
| `EmbeddingSearch` | `SearchEmbeddings` | |
| `Server` | the tools over several tables, the tables on disk, restarts | |
| `Handler` | the configuration, the engines and the lock the tools share | |

`MC*` modules give the constants of larger shape their values; `*Proofs` modules
hold the theorems. An operator that stands immediately before an action and
deviates from it in one point (`NoWait` before `MarkCompleted`, `PersistNothing`
before `PersistItem`, ...) is a mistake the code might have made: it is no part of
the specification, and the property named with it under "mutants" in
`PROJECT.json` is violated when it takes the action's place.

### 2.1 Dispatcher

The goroutine that calls `SearchBatch` is `caller` (idle, launching, returned, or
panicked); each row's goroutine is `worker[i]`, whose control points follow the
body of the `go` statement; the goroutine that calls `wg.Wait()` is `finalizer`.
`sem` and `wg` are the channel and the WaitGroup, `job` the shared record, `row`
its row in `jobs`.

* A worker's `job.Completed = int(completed.Load())` is two steps (`LoadCounter`,
  `StoreProgress`), and `SaveJob` is two more: the read of the fields into the
  arguments of the statement (`ReadJob`) and the write (`ReplaceRow`). Between any
  two of them every other goroutine may run: this is where an older save could
  overwrite a newer one.
* The deferred calls run last in, first out: `Release`, then `WgDone`.
* The finalizer sets the status, brings the counters up to date and saves, in
  three steps, as the code does.
* `ValidateItem` is one step with any verdict: what it does is `ResearchItem`'s.
* `CancelCtx` is net/http cancelling the context of a request it has answered
  (`ReplyCancels`; FALSE for the batch command, which uses a context of its own).
* `OtherStarts` is another process that opens the same file while this one works:
  every client that speaks stdio starts a server of its own, on `./ricerkatoro.db`
  (`models/config.go:38`), and `NewSQLiteStore` fails every *running* job it finds.
  `SecondProcess` allows it, any number of times; the next `SaveJob` of the batch
  writes *running* again and the last one *completed*.
* `StoreFails` lets any write be lost, as the code drops the errors.
* `SlicePanics`: a start beyond the end, or beyond the table, is not clamped and
  panics in `table.Items[startIdx:endIdx]` (`dispatcher.go:190`).
* `job.Failed` and `job.InProgress` are left out: `SearchItem` returns nil on every
  path, so the first is always 0, and nothing reads the second.

### 2.2 BatchRunner

`SeeCompleted` is the exit of the polling loop, `WriteReport` the loop over the
rows, `Exit` the end of main, which is `Dispatcher`'s `Crash` at a moment main has
chosen. The command never saves its table, so its `UpdateItemStatus` matches no
row; `StoreFails = TRUE` covers that as well.

### 2.3 ResearchItem

`pc[c]` is the point caller c is at. A call of `search_row` goes idle, searching,
searched, judged; its verdict is stored (`StoreVerdict`) and then its status
(`Settle`), at once or after a round of retries (`SpendRetry`, `Refine` and
`EndRefine` once per field in conflict, `Rejudge`, `StoreVerdict`, `Resettle`), and ends by storing the item in two steps (`ReadItem`,
`UpdateItemStatus`). `validate` enters at `admitted`, and goes through
`ValidateItem` only for an item in conflict and with `retry_conflicts`;
`voyage_store` waits for Voyage at `embedding` and sets *done* whatever the item
has become meanwhile. `export` reads the status and then the consensus, without a lock
and while the others write them (`ReadStatus`, `ReadConsensus`). The goroutines of a call's fan-out are `search[c][p]`; the
append is a read (`Lock`) and a write (`Store`) so that the mutex has something to
protect. `item.RetryCount++` may use the value the test has seen or the present
one. `StoreFails` lets any `UpdateItemStatus` fail without the call noticing, as its
three callers drop the error (`search.go:45`, `validate.go:73`, `voyage.go:104`).
A provider answers with one value per field, or none: an error, a timeout, an
empty result and a failed extraction all leave none.

The verdict is `ConsensusEngine.Validate` where values that differ are not
similar (`Agree` of `Vote`, which this module extends); `Consensus` has the general
case, and `VerdictIsVote` says that the two agree where both apply.

### 2.4 Consensus

`Collect(p)` is one turn of the range over `item.Results`, in any order, as Go
gives none. `JoinCluster` and `OpenCluster` are the turns of the grouping loop:
the value joins the *first* cluster whose canonical value is similar, or opens
one. `Conclude` picks the first of the largest clusters, turns every source of
every other one into a conflict, and compares. A score is a fraction, and the
comparison is made on integers, in percent. `Similar` is any reflexive and
symmetric relation (`SimilarityIsSymmetric` proves that of `SimilarStrings`); the run
uses the one `Edits` defines on four words, the first similar to the second and the
second to the third, but not the first to the third.

### 2.5 EditDistance and Edits

The loops one cell at a time, over `prev` and `curr`, which change places without
being cleared. Strings are sequences of bytes, as `len(a)` and `a[i-1]` are.
`Edits` says what the result should be without that table: the radius of the
smallest ball of single edits around one string that contains the other.
`TableOf(s, u)` is the whole table of the textbook, of which the code holds two rows;
`RowsAreOf` says which, at every point of the loops.

### 2.6 EmbeddingSearch

`ScoreRecord` is one turn of the loop over the rows, `BreakOff` the end of
`LoadEmbeddings`' loop at an error it does not ask for, `LoadFails` an error it does
return, `Compare` one turn of the inner loop of the sort, `NextPlace` of the outer
one, `Cut` the `topK`. Cosines are
integers of which only the order counts.

### 2.7 Server

`tables` is `h.Tables`, `itemRow` is `research_items` *by its primary key*, which is
the row id alone (`sqlite.go:54`), so that two tables share their rows; its `table`
field is the column `table_id`, and `of` remembers which table's item the status
was taken from. `load_table` makes the table visible (`SetTable`), saves it
(`SaveTable`) and then every item, each in two steps (`ReadNewItem`, `SaveItem`).
`MayFail` names the writes that may fail; a load goes on after a failure
(`load.go:72` and `74` drop the errors), and `lost` remembers which of its writes it was
(`MayLose`).
The tools on rows are here reduced to the statuses they leave and the statements
they issue. `Restart` ends the process at any point; the tables in memory are
gone and nothing reads them back (`LoadItems` has no caller). `loads` is a history
for the properties.

### 2.8 Handler

`pc[k]` is the point a call of `config` is at: it holds `h.mu` from `Lock` to `Unlock`
or `RejectProviders`, and each of its statements that changes the handler is an
action of its own. Absent arguments are skipped steps. `disp` is the immutable
`Dispatcher` as the record of what `NewDispatcher` was given, `engine` the threshold
of the `ConsensusEngine`. `at[c]` is the point another tool is at; it holds the lock
for `getTable`, for the summary of `get_status`, or in `load_table` to put its table
into the map (`SetTable`), and then reads `disp` or
`engine` into `using[c]`. `ConcArgs` are in tenths, as `int(conc)` truncates; the
environment (`loadEnvConfig`, `server.New`) may give values the constructors must
replace. `given` is a history of what a call was given, for the properties. What the
voyage tools read of `h.Voyage` without the lock is left out: whichever pointer they
get is one `NewVoyageStore` made.

### 2.9 Extraction

`Respond`, `RequestFails`, `Decode` and `DecodeFails` are the outcomes of `Search`, the
same for the three providers. `NextResult` and `ExtractField` are the turns of the two
loops of `ExtractFields`; `Record` is the `ProviderResult` that `ResearchItem` then
appends. A text is the record of what each regular expression finds in it: one
value or none for each known pattern, each label form and the neighbourhood of the
field's name. `ByPattern` yields a set, as the patterns a name contains are tried in
the order of a map. Expressions themselves, and exa's cut of a text at 500 bytes,
are the model's input.

## 3. The runs

| run | instance | states |
|---|---|---|
| `batch` | 3 rows, concurrency 2, every kind of range, crash, restart, cancellation, other processes | 652 131 |
| `runner` | 2 rows, concurrency 2, any write lost, crash, other processes | 159 345 |
| `item_sequential` | 1 caller, 3 calls of any tool, 2 providers, 2 values, updates that fail | 253 331 |
| `item_concurrent` | 2 callers, 2 calls each of any tool, 1 provider, 2 values, updates that fail | about 713 000 |
| `consensus` | 3 providers with up to 2 values of 4 words each, any order | 85 393 |
| `edit_distance` | every pair of words of up to 4 bytes out of 2 | 18 306 |
| `embedding_search` | up to 4 records, 2 namespaces and none, 3 scores, `topK` -1, 0, 1, 2 and 5 | 1 792 800 |
| `server` | 2 callers, 2 loads of up to 2 rows, restarts, writes of every kind that fail | 1 522 779 |
| `handler` | 2 overlapping calls of `config`, 1 of any other tool, environment to be replaced | 53 980 |
| `extraction` | 3 providers, one without a key, up to 2 results out of 5 texts, 2 fields | 147 456 |
| `marked`, `settings` | as the run of the same module, or smaller | counterexamples (3.2) |

**batch** checks `PermitsBoundWorkers`, `CompletedMeansSettled`, that `Dispatcher`
implements `BatchJob`, and `JobTerminates`; that a restart leaves no record *running*
is the last conjunct of `RecordHasAuthor`, in `Inductive`. Three rows under two tokens is the least instance in which the
caller blocks on the semaphore, and three workers in different phases of their
saves are enough for a save to be overtaken by two others. The ranges
have a start before or inside the table and no end, one inside or one beyond it;
one of them ends before it starts.

**runner** checks `RowNeverOverstates` and `CompletedIsFinal` where any write may be
lost, that main's report shows the verdict of every row (`ReportIsSettled`, in
`RunnerInductive`), and that the command ends.

**item_sequential** checks what the code promises when calls do not overlap: no
result is ever dropped (`ResultsOnlyGrow`), the
verdict of an idle item is about all its evidence, its row is what it was at one of
its earlier verdicts, never a mixture of two (`RowIsEarlierVerdict`; any update may
fail, `StoreFails = TRUE`), and every call returns. Three calls reach a retry, a second search of an item in
conflict, and one after the budget is spent. **item_concurrent** checks what
remains when they do: the budget overshoots by less than one per caller, the last
call to return never leaves an item *searching*, and export shows no final status
without a verdict (`VerdictsComeWithResults`). No step reads the row of the
store, and an item that was copied only the update or export that copied it: the run's VIEW
(`InUse`) leaves out the rest of both, so that states which differ in nothing a later
step or one of its properties can see are explored once. One provider is enough there, as
providers of one call meet only in the append. That `item.Results` may lose
an append, or Go abort on a concurrent map write, when two calls overlap is a
data race (`dispatcher.go:87`); it is not stated as a property.

**consensus** checks that evidence is neither lost nor counted twice, that the
sources returned support the value, that no conflict is a mere variant of it
(`CanonicalsApart`, a part of `Inductive`), and, where similarity is transitive on what
was found, that the score is the share of the largest class, so that the order of the
map is of no importance. `VerdictIsVote` says that where only equal values are similar
the answer is that of `Vote`, with which `ResearchItem` counts. The four
words have a chain that is not transitive; two values from one provider and ties
between clusters occur. No share in it is exactly the threshold of 70 percent; that such a
one passes is in the theorem `VerdictIsTheVote`.

**edit_distance** checks the rows against the full table at every step
(`RollingRows`) and the result against `Edits` (`DistanceIsLeast`). Four bytes give
four exchanges of the rows, so every cell is rewritten over contents two letters
old.

**embedding_search** checks that the results are in order, each once, and that what
was read and is left out is no better; `topK` below, at and beyond the number of
results, 0 and -1. What was not read because the read broke off is `TopKOfAll` (3.2).

**server** checks that a row lacks its table only where the `SaveTable` of that very
table failed (`RowsHaveTables`; that it may then is `ForeignKeyHolds`, 3.2), that the rows of a load
which has returned, but those whose own `SaveItem` failed, are on disk until a load
that did not precede it takes them over, and that *done* means embedded, whichever
writes fail. Two tables are enough for one to take over the other's rows, in
part (`TwoRowsThenOne`: two rows, then none or one). The constraint `OneRowTouched` keeps the items that
have left *pending* on one row id at a time: calls on different ids touch no
common state, except that a load writes all of its rows, which it still does.
`OneLost` lets at most one write of the loads fail (updates and embeddings may fail
any number of times): a failed write leaves its own row or table as it was, and the
properties speak of one row and one table each.

**handler** checks that what `config` replies is what its caller gave, whichever other
call of it overlaps, and which of it is then in force (`ReplyInForce`): the providers for
every search, the threshold for `validate`, and after a provider list the concurrency
and threshold that the same call did not give. The rest is not, and `settings` shows it.
It checks too that a dispatcher read without the lock has room for a row and a
threshold (`ReadersGetUsable`), that between calls of `config` a search starts with the
present providers (`SearchesStartCurrent`: one that has read its dispatcher before goes
on with that), and that every call returns.
Two calls of `config` are the least that can overlap; one reader suffices, as
readers change nothing.

**extraction** checks that an error leaves no evidence, that every field holds a
value of the best way that finds one in its own result (`BestWayWins`, against
`Ranked`, which lists the ways without the loops). The texts
have a match of each way alone and of several that differ; the list of fields
names one twice.

Bounds by name: `NRows`, `MaxCalls`, `MaxFound`, `MaxLen`, `MaxRecords`, `MaxTables`,
`MaxRows`. The liveness runs use neither symmetry nor constraints. Deadlock is
checked in every run; `Over`, in the modules that have it, is the one place where
a system may stop.

### 3.1 Fairness

`Fairness` is weak, one condition per goroutine: Go's scheduler runs a goroutine
that can run. A search ends because the providers' `http.Client` has a timeout of
30 s (`internal/providers/*.go`), a request to Voyage of 60 s, and a statement of
SQLite because `_busy_timeout` is 5 s. Weak fairness is enough for the send on
`sem`: only one goroutine sends, so once a token is free it stays free until it
is taken. A crash, a restart, the end of a request and a new tool call are never
assumed to happen. In `Handler` a tool that waits
for `h.mu` has strong fairness: `sync.RWMutex` lets no reader pass a writer that
waits and admits the waiting readers when a writer leaves, so whoever waits is
served however often others come. `Server`, `Consensus`, `EditDistance`,
`EmbeddingSearch` and `Extraction` have safety properties only and no fairness.

### 3.2 Findings

Two runs expect a violation of what the repository says of itself:

* **marked.** `voyage_store` tests the status, calls Voyage, and then sets *done*
  (`voyage.go:102`): an item whose verdict a search has taken back meanwhile ends as
  *done*, against "Embed and store validated results" (`server.go:229`).
* **settings.** `config` builds a dispatcher only when it is given providers, and then
  with the consensus engine and the concurrency of before the call (`config.go:49-68`): a
  new threshold reaches `validate` at once, but a new concurrency reaches `search_batch`,
  and a new threshold `search_row`, `search_batch` and the retries of `validate`, only when
  providers are next given. The settings are offered without such a difference: "Max parallel rows to
  process" and "Min consensus score" (`server.go:121` and `122`).

Five more configurations, kept beside the runs, end in a counterexample as well:

* `SearchesOutliveReply` (`Dispatcher_reply.cfg`, `MCDispatcher`). Workers search with
  the context of the tool call (`dispatcher.go:215`). The HTTP transport passes the
  request's context, which net/http cancels once the handler has replied; the searches
  still out then end with an error and their rows are judged on what is left. The
  reply says "Batch search started. Use ricerkatoro_get_status to track progress."
  (`internal/tools/search.go:87`).
* `RowMatchesItem` (`ResearchItem_stale_row.cfg`, `MCResearchItem`).
  `UpdateItemStatus` takes the item's columns (`sqlite.go:151`) and writes them later,
  and nothing orders two calls on one item: the call that took them first may write
  last, and once both have returned the row is not the item, although no write has
  failed. "Persist" (`search.go:43`) asks for more.
* `RowsHoldTheirItems` (`Server_collision.cfg`, `MCServer`). Rows are numbered from
  `row_0` in every table (`load.go:57`) and `research_items` has that id as its only
  key, so `UpdateItemStatus` (`sqlite.go:155`) writes the verdict of one table's item
  into the row another table has taken over.
* `ForeignKeyHolds` (`Server_orphans.cfg`, `MCServer`). `load_table` drops the error
  of `SaveTable` (`load.go:72`) and saves the items all the same: rows of
  `research_items` without their table, against "FOREIGN KEY (table_id) REFERENCES
  research_tables(id)" (`sqlite.go:64`), which SQLite enforces only when asked to and
  `sqlite.go:20` does not ask.
* `TopKOfAll` (`EmbeddingSearch_partial.cfg`, `MCEmbeddingSearch`). `LoadEmbeddings`
  never asks `rows.Err` (`embeddings.go:83`): a read that breaks off passes for all
  there is, and `voyage_search` presents the best of it, against "Loads all vectors"
  (`embeddings.go:106`).

Seen while modelling, and described here without a run: the slice panic of 2.1;
two providers with the same text may report different values, where two patterns
contained in a field's name match differently and the map decides
(`extractor.go:73`); a provider can be reported among the "disagreeing values"
(`models/result.go:23`) although all it found is similar to the value returned, as
it joined a smaller cluster that came first (`consensus.go:114`);
`SearchBatch` returns only once the last row has a token (`dispatcher.go:210`),
although "Run in background, return job immediately" is said of its end
(`dispatcher.go:241`); stored progress
can go back when a worker's save overtakes another's (`dispatcher.go:232`), though
never above the truth; the finalizer sets the status before the counters and
the last save (`dispatcher.go:246`), so the batch command may print an old count
and leave its record *running* for the next start to turn into *failed*; a retry
is spent even when no field is in conflict and nothing is searched again
(`dispatcher.go:113`); two agreeing values of a single provider score 1.0 where one
value scores 0.5 (`consensus.go:57`); over HTTP a SIGTERM is caught
(`cmd/ricerkatoro/main.go:29`) but `Run` does not look at the context
(`server.go:258`); `search_batch`
has an argument "concurrency" (`server.go:178`) that its handler does not read; a
second process on the same file marks the running jobs of a live one as failed
(`sqlite.go:40`), under the comment "Clean up stale jobs from previous runs", until
the batch saves them again; `get_results` with `min_confidence` lets rows without any
consensus through (`results.go:58`), and reads the consensus twice; the CSV of
`export` has the input columns of the first row only (`export.go:96`); a single
conflicting value gives the refined query an empty alternative
(`query_builder.go:47`); proximity looks a name up in the lower-cased text and
slices the original (`extractor.go:119-145`), where letters may have other lengths.

## 4. The proofs

TLAPS checks the theorems below for every value of the constants that satisfies
the module's one assumption: any number of rows, callers, providers and records,
any arguments, any similarity that is reflexive and symmetric. The assumptions say
that constants are of their kinds (`DispatcherAssumption`, ...) and TLC evaluates
them in the runs. `ResearchItem` needs its callers to be a finite set that is not
empty, `Consensus` its providers to be finite.

| theorem | of | states |
|---|---|---|
| `InductiveInvariant`, `PermitsHold`, `CompletedJobsAreSettled`, `StoredProgressIsReal`, `RestartCleansUp`, `CompletedStays` | `Dispatcher` | the run's safety properties |
| `DispatcherImplementsBatchJob` | `Dispatcher` | every behaviour is one of `BatchJob` |
| `RunnerIsDispatcher`, `RunnerInvariant` | `BatchRunner` | every behaviour is one of `Dispatcher`; the report is settled |
| `ItemInvariant`, `AppendIsExclusive`, `RetriesAreBounded`, `SearchesAreSettled`, `ExportsShowVerdicts` | `ResearchItem` | the safety of overlapping calls |
| `OneCallAtATime`, `VerdictsAreCurrent`, `RowsAreEarlierVerdicts`, `NoResultIsDropped` | `ResearchItem` | with a single caller: nothing is dropped, no verdict is out of date, and no row is torn, whichever updates fail |
| `ConsensusInvariant`, `ClustersStayApart`, `NoEvidenceIsLost`, `SourcesAreSupport`, `OrderDoesNotMatter`, `VerdictIsTheVote` | `Consensus` | the run's properties; it implements the vote `ResearchItem` counts |
| `RowsOfTheTable`, `LeastEdits` | `EditDistance` | the two rows are those of the table of distances; what is returned is the least number of edits |
| `SimilarityIsSymmetric` | `Edits` | what `ConsensusAssumption` says of `Similar` |
| `SearchInvariant`, `ResultsAreSorted`, `TopKIsBest` | `EmbeddingSearch` | the sort and the cut |
| `HandlerInvariant`, `RepliesAreInForce`, `DispatchersAreUsable`, `SearchesUseTheList` | `Handler` | the safety of `config` and of what others read |
| `ExtractionInvariant`, `ErrorsHoldNoEvidence`, `BestValuesRecorded` | `Extraction` | what a provider records |
| `ServerInvariant`, `ItemsHaveTables`, `LoadsArePersisted`, `DoneItemsAreEmbedded` | `Server` | the safety of loads and marks, whichever writes fail |

Each goes by an inductive invariant, `Inductive` in the component's module
(`RunnerInductive` in `BatchRunner`). Why the property alone is not inductive:

* **Dispatcher.** `CompletedMeansSettled` speaks of the stored record; that it is
  true needs what can still be written to it. `CountersCount` ties the semaphore,
  the WaitGroup and the counter to the control points of the workers;
  `LaunchedInOrder` says whose workers exist, so that `wg = 0` after the loop means
  all of them are done; `JobRunsWithWorkers` says that a save in flight carries
  *running*, `CopiesLag` that no copy of the counter is ahead of it;
  `VerdictsKept` carries the verdicts from the workers to the end, and
  `RecordHasAuthor` says who can have written each record. The hard steps are those
  that change a cardinality and `MarkCompleted`, where `wg = 0` must empty `Live`.
* **BatchJob.** The same invariant maps each step to one of `BatchJob` or to a
  stutter: a row is active while its goroutine holds a token, finished once it has
  given it back. `Report` has the saves of the workers, `Complete` the last one.
* **BatchRunner.** `PastTheLoop` says that main goes on only when the finalizer is
  past its wait; with `wg = 0` no worker can change a status any more.
* **ResearchItem.** The budget is tested in one step and spent in another:
  `RetriesReserved` counts the callers between the two. `SearchHasOwner` says that a
  status only a search should show has a caller that will replace it,
  `VerdictComesFirst` that whoever is about to show a final one finds a verdict.
  With a single caller `Sequential` holds besides: what a caller has in hand between
  two statements is still so, for the verdict it has computed (`VerdictCurrent`), the
  columns it will write (`RowBehind`), and the slice a goroutine has read before it
  appends (`TailCurrent`). These are the three things a second caller can change.
* **Consensus.** `Blocks` says that `all` holds one block per provider visited, a copy of
  what it found; `Homes` that every value grouped has one cluster for ever, the first it
  matches, as clusters are only added behind; `Founded` that a canonical value is one of
  those grouped. `Tally` counts: any set of clusters names any set of providers as often as
  these have values at home there. It is one equation for everything that is counted
  later: with the best cluster it bounds the sources, with all the others it counts
  the conflicts, with all providers it is a cluster's size. It must speak of sets on both
  sides to be inductive: joining a cluster adds one slot and one member, or none, to each
  pair of sets. `Answered` carries the clusters into the answer. Where similarity is
  transitive a cluster is the whole class of its canonical value, which gives
  `ScoreIsLargestClass`, and, where it is equality, `VerdictIsVote`.
* **EditDistance.** `RollingRows` is itself inductive once `InBounds` is part of it. The work
  is in what it says of the table, which needs induction over lengths. No prover here can
  apply the library's induction theorems, which take an operator; the module proves one that
  takes a *set* (`Induction`: a set of naturals that holds n whenever it holds all below is
  all of them), from the minimal element a non-empty set of naturals has by
  the well-foundedness of `<`. With it come the values of the two recursive functions:
  each is a CHOOSE, so a function that satisfies its equation is exhibited, the words that
  chains of edits reach for `Ball` (`BallEquations`) and the distances of prefixes for
  `TableOf` (`DistancesAreCells`). The heart is `Recurrence`, that the least of the three neighbours is
  the distance: whatever n edits make of a word that ends in a letter, the last letters can
  be taken apart from the rest (`LastLetters`, by induction on n, from the ways one edit can
  end in a given letter, `LastEdit`).
* **EmbeddingSearch.** `NoneLost` (the results are the wanted records so far, each
  once) and `SortedUpTo` (the places before i are final, the one at i is the best so
  far) are the invariants of the loops.
* **Server.** `SavedSoFar` says which rows of a load under way are on disk already or
  could not be written, and that what takes them over began no earlier;
  `TableBeforeItems` the same of its table; `LoadsInOrder` that a load began after those that had returned.
  `EmbeddedBeforeDone` carries *done* through the arguments of the statements.
* **Handler.** `ConfigIsAlone` says that the points between `Lock` and `Unlock` belong to
  one call and exclude the readers; `PartsAgree` names the two points at which the
  provider list and the dispatcher, or the threshold and the engine, may differ;
  `AllUsable` extends to the dispatchers other tools still hold; `Truthful` carries the
  arguments to the reply; `Rebuilt` says what a call that has given providers has put into
  the dispatcher, until it returns.
* **Extraction.** `LoopInvariant` says which results are complete (`Filled`) at each point
  of the two loops, and that every value is one its own text yields (`Sound`). That
  `Extracted` and `Ranked` agree needs the *first* label form that matches, which is a
  least number, from the well-foundedness of the naturals.

### 4.1 Only model-checked

Liveness (`JobTerminates`, `RunnerExits`, both `CallsReturn`): it needs ENABLED, which is out of
the prover's reach. Every invariant and every action property of a passing run is proved.

## 5. What is not modelled

* The layout of what `get_status`, `get_results` and `export` return, and `get_results`'
  reads, which Go may make in either order.
* Regular expressions and offsets of bytes in a text, query templates, the JSON of
  providers, Voyage and MCP: what they yield is any value, or none. `Normalize` is a map on the characters of a string.
* Registration, the parsing of the environment, the choice of a transport.
* Cosines and floating point: scores are compared, not computed; thresholds are in
  percent and comparisons on integers.
* `DeleteEmbedding`, `CountEmbeddings`, `ContainsMatch`, `ScoreSnippetRelevance`, `LoadItems` and the like, which have no caller.
* Effects of data races below the level of a field: torn strings, except for what
  `BatchRunner` says of `job.Status`, and Go's abort on concurrent map writes.

## 6. Plan

In this order; 1 to 14 are done.

1. `BatchJob`, `Dispatcher`, their refinement, and the proofs of both.
2. `ResearchItem` with one and with several callers, and its invariant.
3. `Consensus` and the proof that its clusters stay apart.
4. `EditDistance` against `Edits`.
5. `BatchRunner` over `Dispatcher`.
6. `EmbeddingSearch` and the correctness of its sort.
7. `Server`: loads, restarts and marks over several tables.
8. The findings of 3.2.
9. `Handler`: the dispatcher, the consensus engine and the providers as `config` swaps
   them, and the calls that read them meanwhile.
10. A second process on the same file, in `Dispatcher` and `BatchJob`.
11. `Extraction`: the search of a provider and the extraction of fields.
12. A reader of an item, and what holds of one call at a time, in `ResearchItem`.
13. `Vote`, the verdict `ResearchItem` counts with, as what `Consensus` decides where only
    equal values are similar.
14. Theorems: what is counted in `Consensus`, and the edit distance.
15. Next: the choice of the calls in `Server` as an image of `ResearchItem`'s, so that the
    statuses it lets them leave are those `ResearchItem` can.
