# A verification project for Stone Steps Webalizer

Stone Steps Webalizer reads web server logs and keeps monthly statistics in a
Berkeley DB state database, from which it writes reports. This directory has
TLA+ models of the parts of it in which steps of several actors, of several runs,
or functions that are written apart have to fit together: the multi-threaded DNS
resolver and the thread that uses it; the state of a month in memory and in the
database; the runs that process logs; the way of a log line through parser, time
zones and merge; what is counted of a record, and for whom; how nodes become rows
of the database; and what each report says of them. TLC checks each model on small
instances. TLAPS proves for every value of the constants what the core promises: the
resolver and the thread that uses it, for any number of threads and hosts; the state
engine in memory and database, for any hosts, logs and timeouts; the merge and the
runs, for any log files; the totals of visitors and items, for any month; and the HTML
report, for any items and configuration.

Paths and line numbers refer to the repository. `dns_resolv.cpp` stands for
`src/dns_resolv.cpp`, and so on.

## 1. The system and its parts

| Component | State | Operations | Interacts with |
| --- | --- | --- | --- |
| Log processor, `webalizer.cpp` | log files and one record of each, `check_dup`, counters of the run, `abort_signal` | `proc_logfile` (the run), `prep_lfstates` and `get_logrec` (the merge), `put_hnode`, `put_unode`, `put_dlnode`, `update_visits`, `update_downloads`, `end_month`, `process_resolved_hosts` | everything below; Ctrl-C |
| Parser, `parser.cpp`, `logfile.cpp` | a log file and its position, the W3C field list | `read_log_line`, `parse_record` | log processor |
| State engine, `preserve.cpp`, `hashtab*`, `*node.cpp` | hash tables of nodes, totals, the visits and downloads that have ended | `put_node`, `swap_out` with its callbacks, `save_state`, `restore_state`, `clear_month` | log processor calls it; it calls the database; nodes refer to each other |
| State database, `database.cpp`, `berkeleydb*` | tables, secondary indexes, sequences, `sysnode` | `put_node`, `get_node`, `delete_node`, `truncate`, `attach_indexes`, trickling | state engine, reports |
| DNS resolver, `dns_resolv.cpp`, `queue*`, `platform/event_pthread.cpp` | two queues, a counter, an event, a pool of threads | `put_hnode`, `get_hnode`, `dns_wait`, `dns_abort`, `dns_clean_up`, `process_node` | log processor calls it; its workers read host nodes and share the DNS cache |
| DNS cache | Berkeley DB of dated records | `dns_db_get`, `dns_db_put` | resolver workers |
| History, `history.cpp` | at most `max_hist_length` months in a file | `update`, `get_history`, `put_history` | reports |
| Configuration, `config.cpp`, `lang.cpp`, `linklist.cpp` | options, lists of patterns | read once | all |
| Reports, `*_output.cpp`, `graphs.cpp` | none of their own | read the state database | state engine, history |
| Utilities, `tstring.*`, `tstamp.*`, `serialize.*`, `util_*` | none | pure functions | all |

How a record travels: the log processor merges the records of all log files by
time stamp, drops those that an earlier run has processed, closes the month when
a record belongs to another one, and finds or makes the host, URL and download
nodes of the record. A host that was not seen before goes to the resolver as
well; its visits are added to groups and countries when it comes back. When the
hash tables grow beyond their limit, old nodes go to the state database and come
back when they are asked for. A run ends by ending visits that have timed out,
saving everything and writing reports; the next one restores active visits and
downloads and carries on.

What is hard:

- *Concurrency.* Workers and the log processor share two queues, a counter and
  an event under two mutexes, and one flag under none. A lookup holds a pointer
  to a host node that the log processor owns, and may delete.
- *Nodes that leave memory.* A host takes its visit along, a visit refers to its
  last URL, a download job refers to its host. A node that is dropped without
  being stored, or stored twice, makes totals wrong without any error.
- *Runs.* What one run saves is what the next one starts from, in another mode,
  after Ctrl-C, or with logs that overlap those of the last run.
- *Things computed twice.* The size of a row, its layout and the offset of an index
  key; the count of a table and the rows of it; what a page lists and whether a page
  of all items exists; a comma and the member after it. They are written in
  different functions, often in different files, and nothing compares them.
- *Memory of earlier input.* The parser keeps the fields of the last header, the
  iterator over daylight saving ranges never looks back, an iterator over a table
  reads all rows into one node object.
- *Months.* Closing a month has to wait for the resolver, end visits, save,
  report and clear in that order, at the end of a run, in the middle of one, or
  at the beginning for the run before.

What makes each part correct is what section 4 lists. In short: the resolver
returns every host once and `dns_wait` is exact; no host is deleted that a
worker refers to and no visit is lost on the way to its group; every hit, visit,
exit and download is in exactly one place, in memory or in the database; each
record of ordered logs is counted once, in its month; a printed request becomes
its record, at its instant; tables, totals and reports agree.

## 2. Modules

| Module | Models | Lines of the code |
| --- | --- | --- |
| `ResolverService` | what the resolver promises its caller (abstract) | comments and results of the public methods of `dns_resolver_t` |
| `DnsResolver` | the resolver, its workers and any caller | `dns_resolv.cpp`, `platform/event_pthread.cpp` |
| `HostPipeline` | the host nodes of a run and the thread that calls the resolver; EXTENDS `DnsResolver` | `webalizer.cpp`, `preserve.cpp`, `hnode.cpp` |
| `Sessions` | hits and visits as a function of the log (abstract) | the counters of `put_hnode`, `update_visit`, `end_visit` |
| `StateEngine` | hosts, visits, URLs, downloads, totals; swap-out, save, restore, months | `webalizer.cpp`, `preserve.cpp`, node classes, `berkeleydb_tmpl.cpp` |
| `LogRun` | runs over log files: merge, duplicates, months, what is saved | `webalizer.cpp`, `preserve.cpp`, `parser.cpp` |
| `LogHistory` | the history of a site over those runs, reports of months and the index page; EXTENDS `LogRun` | `history.cpp`, `preserve.cpp`, `webalizer.cpp`, `html_output.cpp`, `graphs.cpp` |
| `VisitorTotals` | who visits: robots, spammers and people, conversions, days, countries | `webalizer.cpp`, `preserve.cpp` |
| `ItemTables` | URLs, users, errors, referrers, agents, search terms, their groups, and the filters before them | `webalizer.cpp`, `preserve.cpp`, `linklist.cpp` |
| `Ranks` | the elements of a set in an order, and those of a sequence that are in a set | |
| `TimeStamps` | time stamps, calendar, daylight saving ranges | `tstamp.cpp`, `tmranges.cpp`, `config.cpp` |
| `LogParser` | the fields, directives and values of all log types; EXTENDS `TimeStamps` | `parser.cpp` |
| `LogRecords` | the log files of a run, from lines to records in order; EXTENDS `LogParser` | `webalizer.cpp`, `parser.cpp` |
| `NodeRows` | rows of all node classes and versions, index keys, iterators | `*node.cpp`, `serialize.*`, `berkeleydb_tmpl.cpp`, `database.cpp` |
| `ReportIndexes` | items and the order in which reports read them | `database.cpp`, `berkeleydb_tmpl.cpp`, `html_output.cpp` |
| `HtmlReport`, `DumpOutput`, `JsonOutput` | the three output engines | `html_output.cpp`, `dump_output.cpp`, `json_output.cpp`, `ctnode.cpp` |
| `Reports` | the engines of a run, writing about the same items | `webalizer.cpp`, `output.h` |
| `HostPipelineProofs` | theorems: `DnsResolver`, that it implements `ResolverService`, and `HostPipeline` | |
| `StateEngineProofs` | theorems: types, references and the database of `StateEngine` | |
| `StateSessionProofs` | theorems: its times and totals, and that it implements `Sessions`; EXTENDS `StateEngineProofs`, `SumsAndRanks` | |
| `LogRunProofs` | theorems: what the runs of `LogRun` leave behind, its merge, and the history, reports and index page of `LogHistory`; EXTENDS `SumsAndRanks` | |
| `VisitorTotalsProofs` | theorems: `VisitorTotals`; EXTENDS `SumsAndRanks` | |
| `ItemTablesProofs` | theorems: `ItemTables`; EXTENDS `SumsAndRanks` | |
| `ReportsProofs` | theorems: the pages and files of `Reports`; EXTENDS `SumsAndRanks` | |
| `SumsAndRanks` | lemmas: sums of functions over finite sets, places in an order, and parts of sequences; EXTENDS `Ranks` | |
| `MC...` | instances for TLC | |

`PROJECT.json` maps each definition to the lines it stands for.

### DnsResolver

`dnode_list`, `hqueue`, `dns_unresolved`, `dns_live_workers` and
`dns_thread_stop` have the names of the code; `signalled` is the state of
`dns_done_event`. `mpc` and `wpc` are where the application thread and each
worker are. An action is a section under `dnode_mutex`, or one call into the DNS
cache or out of the program: `PopDNode` and `Finish` are the two critical
sections of `process_node`, between which a worker holds its node in `wnode`.
`GetHNode` pops and requeues in one step, because nothing that a worker does
between the two can be told apart from doing it before or after.

The caller is any program that calls one public method at a time. `spurious`
wake-ups (`WaitSpurious`), the 15 seconds after which `dns_abort` throws
(`AbortTimeout`), and exceptions in workers (`Throw`) are steps like any other.
A node that is queued to update the DNS cache only has `lookup = FALSE`
(`hnode == nullptr` in the code).

A cache record is its layout, whether it is younger than the TTL, and the spammer
flag. The layouts matter: this code writes version 6 over the data of version 7.

### HostPipeline

This module replaces the general caller by the calls of `proc_logfile`, in their
order (`phase`). `in_memory` and `stored` are the hosts in the hash table and in
the state database, `visit` has the hosts with an active visit and `grp_visit`
how many ended visits each host keeps until it is resolved. TLC checks that the
module implements `Spec` of `DnsResolver`, so everything proved of the resolver
holds for it, including the obligation of `ForgetHNodes` not to delete a host
that a worker still refers to.

### StateEngine

The tables are functions from keys to nodes: a key is in memory when it is in the
function's domain. `db` has the rows of the same nodes. A record takes five steps
(`PutHNode`, `PutUNode`, `PutDLNode`, then the three tables of `swap_out`), the
end of a month or run four (`UpdateVisits`, `UpdateDownloads`, `SaveState`,
`ClearMonth`). `why` tells the three ends apart: a run, the last run of a month,
and `--end-month`, which passes a null time stamp. `dirty`, `storage`, `vstref`
and `dlref` are fields of the code's nodes. An exception of the code (deleting a
row that is not there, a download without a host or visit) sets `error`.

Refinement: `hits` and `visits` of `Sessions` are those in memory plus, for hosts
that are not, those of the database; `start` and `last` are those of the active
visit wherever it is.

### LogRun

A log file is a sequence of lines, a line a record that counts, one that a filter
drops, or one that cannot be parsed, with a time and a length. `pos` is how much
of each file was read, `lfp_states` the sorted list of one record per file and
`wlfs` the record that is being processed. `state`, `db` and `archive` are the
month in memory, the state database and the databases of closed months: each has
how often every record was counted in it. `LineEnd` is how far `read_log_line`
reads, including the rest of an oversized line.

### LogHistory

`history` has the months of a run, sorted, and `hist_file` those of the file;
`usage` has the reports of months and `index` the index page, with its links and the
chart. An action of `LogRun` that saves a month is conjoined with what it does to
these: `CloseMonthReported` writes history and report, `SaveRunReported` the index
page, too, unless Ctrl-C was pressed; `StartWithHistory` reads the file, in an
incremental run, and adds the month of the database. All other steps leave the
history alone, `KeepReport` among them. `LoseHistory` removes the file between runs,
which the code takes for no error. `unreported` is auxiliary: months that a run has
saved without writing their report. A month has as many hits as records were counted
in it, so that stale reports can be told from others.

### VisitorTotals

`host` has the host nodes wherever they are: what matters here is not where a node
is but which of its flags were set when it was counted. `ProcRecord` is one record
from `put_hnode` to the visit that it may end (`over`); `sp_htab` are the spammers
that the code remembers, `pipeline` the hosts whose lookup has not come back.
`CloseMonth` ends all visits and waits for the resolver, `Restart` saves and
restores, which forgets spammers without an active visit.

### ItemTables

One action reads a record from the filters (`IgnoreURL` and its list of search
arguments, included and excluded hosts, robots) through `put_hnode`, `put_unode` and
the other tables to the counters of the month. A key of `tables` is a table, whether
the node is a group, and the names that the code hashes. Lists of patterns are the
names they match, because how a pattern matches is one function with its own tests,
while which lists are asked, in which order and with which text is control.
`Restart` ends some visits; all tables are kept, since a node is looked up in the
database before it is taken for new.

### TimeStamps, LogParser, LogRecords

A stamp has the components of the code's `tstamp_t`, an instant is seconds since
1970, and `tstamp_t::compare` is modelled through the serial time it computes. A log
line is the sequence of its printed values; `Printed` says what a server prints of a
request, so that what comes out of the parser can be compared with the request that
went in. `log_rec_fields` and `iis_tstamp` live as long as the one parser of a run. Two auxiliary
parts, `header` and `own` of a record, tell whether the last `#Fields` line, in whichever
file it was, had the fields of the record's own line when that was read.
`LogRecords` has the two loops of `proc_logfile` that read a record of each file
(`prep_lfstates`) and the next one of the file whose record was processed, with bad
and ignored lines, and the move to local time by `dst_iter`.

### NodeRows

Each class has three operators for the three functions that are written apart: the
cells that `s_pack_data` writes, the size that `s_data_size` computes, and the cells
that `s_unpack_data` reads of a version (`hnode_pack`, `hnode_size`, `hnode_unpack`). `s_field` has
the offsets of index keys. Versions that older programs
wrote are put by `OldProgramPuts`. `begin` and `next_node` are the iterator that reports
use, with one `node` object for all rows.

### Reports

`config`, `database` and `totals` do not change while reports are written. Each action
of `HtmlReport` writes one table with its link and its page of all items, whose file
may fail to open; each action of `DumpOutput` and `JsonOutput` writes one file.
`write_report` of `Reports` starts the next engine of the run. A JSON text is the
sequence of its brackets, members and commas, where braces are written as `(` and `)` and
commas as `+`. `NodeIds` is the number of node IDs that an `_id` has room for, 2^47 in the
code (`json_output.cpp:67`). The node ID of a city does not fit and is packed before by
`compact_nodeid`, whose shifts are products with `GeonameIds`, `CharIds` and `LetterIds`
(2^32, 2^16 and 2^5 in the code, 2, 8 and 4 in the run).

## 3. Runs

All constants are in the `.cfg` files; bounds are named `Max...`.

| Run | Shows | Bounds |
| --- | --- | --- |
| `resolver` | the safety of the resolver, and that it implements `ResolverService` | 2 workers that may throw, 2 hosts, 2 nodes in the queues |
| `pipeline` | the log processor calls the resolver as it may, over months, spammers, hosts logged by name, swap-outs, Ctrl-C and errors; `dns_wait` returns and runs end | 2 workers, 3 hosts (one by name), 3 records |
| `state` | nodes move between memory and database, and nothing dangles, throws or is left in a closed month | 2 hosts, 2 URLs, 3 records, 7 points in time in 2 months |
| `state_any` | the counts hold, and visits are those of `Sessions`, as well with Ctrl-C in the last run, downloads that outlive visits, a maximum visit length | the same |
| `logs` | the merge keeps order and loses nothing, months stay apart, nothing is counted twice within a database or forgotten, history, reports and index page agree, runs end | 2 runs, any 2 of 9 log files in any order, 4 modes, Ctrl-C; a history of 12 months that may be lost |
| `visitors` | each visit is counted once, as one kind of visitor; conversions and countries are those of people | 2 hosts (one by name), 4 records, 2 days |
| `items` | tables and totals agree; one page is one URL; only what is to be ignored is | 3 configurations, any 3 of 9 records, restarts |
| `records` | a printed request becomes its record, at its instant, in order | W3C with 6 choices of byte counts, in all pairs for two files, one of which repeats its header, IIS, Apache, Nginx, CLF, Squid; 2 files of 2 records (4 with a second header); times around the end of daylight saving time, leap days and new years |
| `rows` | every row can be read back, and indexes find their keys | 18 classes, all versions, 2 rows, strings of 0 and 3 characters |
| `reports` | every visible item is shown or linked to, tables show the top, the engines agree, JSON is well-formed | 11 tables of up to 3 items, reports of up to 2 rows, months of 3 days |
| `resolver_cache`, `pipeline_swap` | disagreements of the code with its comments, section 6 | the smallest that show them |

Why the bounds suffice to be interesting: two workers are needed for nodes that
come back out of order and for the race for the last node, two nodes for one in
each queue, three records for a host that ends a visit after another host made
the table grow, or for a month that is closed with work in progress. A visit
timeout of 2 in a month of 6 has visits that end in the month and visits that the
month ends. A log buffer of 2 characters has lines that are shorter, that fill it
and that need two or three reads, and one content has oversized lines whose last part
fills the buffer, so that they take the next line with them. Two runs are what a saved state is for. Of the
log files, some are in one month, some in two, one of them in descending order, and one
has months that are more than the length of the history apart. Three items
in a table of two rows leave one for the page of all items, and any of the three may
be hidden, a robot or a group. Two rows are what it takes for one to leave something
in the node object that the next one finds. Three records are a node that is new,
found again, and found after a restart. `HumanVisits` is 1 in `reports` because a
month without visits of people has a JSON file that is not well-formed (section 6).

Deadlock is not checked where the modelled system stops: in `resolver` because
workers that all threw leave `dns_wait` blocked, in `logs` because the number of
runs is bounded, in `visitors` because the number of days and records is, in `rows`
and `reports` because a table, or a report, comes to its end.

## 4. Properties

The resolver and its caller:

- `Accounted`, `WaitDelivers`: `dns_unresolved` is exact, and a caller that waited
  finds nothing unresolved. The last worker to finish races a `put_hnode` that resets
  the event.
- `ImplementsService`, `ImplementsSessions`, `Spec` (in `pipeline`): refinement.
- `NoDanglingHost`: a host that a lookup points to is in memory.
- `EveryVisitGrouped`, `KeptVisitWillBeGrouped`: a visit that ends before its host
  is resolved is grouped before the host is deleted.
- `RunEnds`: every run ends, in `pipeline` through all calls of `dns_wait` and
  `dns_abort`, in `logs` through merge, history and reports.

Nodes, totals and runs:

- `ReferencesCounted`: `vstref` and `dlref` are the numbers of visits and jobs that
  refer to the node, on which the swap-out callbacks rely.
- `CleanIsStored`, `DatabaseWhole`: a node that is not marked modified is in the
  database as it is; between runs each active host has its visit row.
- `TotalsAccounted`: totals of hits, visits, exits and downloads are the sums over
  nodes, wherever these are. `MonthClosed`: a closed month has nothing active
  in its visits.
- `NothingThrows`: the engine never meets the states it throws for.
- `SwapEndsOldDownloads`: a download that a swap-out ends has timed out.
- `StatesMatchFiles`, `OrderedFilesCounted`: the merge. A run that reads ordered files
  to their ends counts every record that is later than the last run, except one that
  `read_log_line` has swallowed (`Swallowed`: the line before it ends where the buffer
  does, section 6).
- `MonthsApart`, `NoDatabaseCountsTwice`, `NothingForgotten`: what runs leave behind.
- `SaveChangesOneMonth`: a save writes all of the history but changes its own month
  only; months, which may come in any order and with gaps, leave it exactly when they
  are too old.
- `IndexShowsReports`: the index page links to reports that are there, with the same
  hits, whichever runs wrote them, and each bar of its chart stands at its month.

From lines to records:

- `RequestRecorded`: whatever the log type, the order of fields and the lines before it, a
  printed request becomes its record, if the last header that was read is the one of the
  line. With two files of different headers it need not be; records that are read by the
  header of another file are left out of this and the next two properties (section 6).
- `TimeIsExact`: the time stamp of a record is the instant at which the request was
  printed, in the configured zone. What daylight saving time is comes from the
  configuration as `README.md:1409` explains it, not from the ranges that the code makes of
  it. The two disagree for an hour (`EndedLate`, section 6): there the property has what the
  code does, everywhere else what the configuration asks for. The iterator over the ranges
  never looks back.
- `RecordsInOrder`: files that are each in order are processed in order, where each record
  was read by the header of its own file.

What is counted:

- `TablesAddUp`: totals of the month are what the tables hold.
- `SameUrlOnce`: no two URLs have one path and the same arguments in another order.
- `IgnoredNotCounted`: a record that is to be ignored leaves no trace, every other is a
  hit.
- `TotalsBalance`, `ConversionsArePeople`, `CountriesArePeople`: visits are of robots, of
  spammers or of people, and only the latter convert and come from countries.

Rows and reports:

- `RowsReadBack`: a row of any version is read as its fields, all of it, and nothing
  of the row before stays in the node.
- `IndexKeysAreFields`: the bytes that an index takes for its key are those of the
  field.
- `AllVisibleReachable`, `TopIsTop`, `LinksLead`: of every visible item, a table shows it
  or links to a page with it; nothing that is shown is outranked by what is not; a link
  leads to one anchor or to a page that was written.
- `EnginesAgree`, `DaysReported`: the three reports have the same items and days, and
  the JSON totals are well-formed.

Some invariants are proved and have no run. Of the resolver, `EventMeansDone`,
`OnlyHostNodesReturned` and `CleanUpAlone`: the event is signalled exactly when the
counter is zero, no update comes out of `get_hnode` (which `ImplementsService` implies),
no database is closed under a worker. Of the state engine, `VisitsCounted` and
`OnlyBadData`: visits that started are over or active, wherever they are, and nothing
but `restore_state` ever throws. Of the others, `TypeOK` and the conjuncts of the
inductive invariants of section 5.

Every property of a passing run has a mutant in `PROJECT.json`: a variant of one
definition, as a plausible slip would write it, under which TLC finds the property
violated. Variants stand before the definitions they replace.

### Fairness

`FairPipeSpec` assumes weak fairness of each worker's own steps and of the
application thread: the threads are ordinary ones and every call they make out of
the program returns. It does not assume that a worker throws, that a wait times
out or that a wake-up is spurious. Log files end, which `MaxRecords` expresses.
`FairHistSpec` of `LogHistory` assumes weak fairness of the single thread, not of Ctrl-C or
of starting another run, nor of losing the history.

## 5. Proofs

What is proved holds for every value of the constants that the `ASSUME` of the module
admits. These assumptions say little more than what the constants are; those that a
proof needs and a reader may not expect are named below. Each proof has an inductive
invariant, one lemma for each action of the module, or for each group of actions, that
disturbs it, and a theorem for each property.

| Module | Theorem | Says |
| --- | --- | --- |
| `HostPipelineProofs` | `TypeCorrect`, `ResolverSafe`, `ReturnedNodesExist` | `TypeOK`; `Accounted`, `EventMeansDone`, `OnlyHostNodesReturned`, `CleanUpAlone` |
| | `WaitComplete` | `WaitDelivers` |
| | `ResolverImplementsService` | `ImplementsService` |
| | `PipelineSafe`, `PipelineUsesResolver` | the invariant; `PipeSpec => Spec` |
| | `OnlySpammersDangle`, `HostsStayInMemory` | `NoDanglingHost`, but for hosts caught spamming that are swapped out |
| | `VisitsGrouped`, `KeptVisitsAreGrouped` | `EveryVisitGrouped`; `KeptVisitWillBeGrouped` when no worker throws |
| `StateEngineProofs` | `TypeCorrect`, `PointersValid` | `TypeOK`; `ReferencesCounted` |
| | `BooksKept`, `NodesStored`, `DatabasesWhole`, `MonthsClosed` | the invariant; `CleanIsStored`, `DatabaseWhole`, `MonthClosed` |
| | `VisitsAddUp`, `OnlyRestoreThrows` | `VisitsCounted`; `OnlyBadData` |
| `StateSessionProofs` | `TimesKept`, `SwapsOnTime`, `NoErrors` | the invariant; `SwapEndsOldDownloads`, `NothingThrows` under the conditions below |
| | `SessionsKept` | `ImplementsSessions` |
| | `TotalsKept` | `TotalsAccounted` |
| `LogRunProofs` | `TypeCorrect`, `MonthsStayApart`, `CountedOnce`, `NothingIsForgotten` | `TypeOK`; `MonthsApart`, `NoDatabaseCountsTwice`, `NothingForgotten` |
| | `StatesMatch`, `OrderedCounted` | `StatesMatchFiles`, `OrderedFilesCounted` |
| | `HistoryKeepsRuns`, `RunsWithHistory` | `FairHistSpec => Spec`, so that all of these hold with a history |
| | `IndexAgrees`, `SavesOneMonth` | `IndexShowsReports`; `SaveChangesOneMonth` |
| `VisitorTotalsProofs` | `TotalsBalanced`, `PeopleConverted` | `TotalsBalance`; `HostsArePeople`, the first part of the next |
| | `HitsOfPeople`, `CountriesCounted` | `ConversionsArePeople`; `CountriesArePeople` |
| `ItemTablesProofs` | `TotalsCounted`, `TablesAddUpAlways` | `TablesAddUp` without groups; all of it when no record is in two groups of a kind |
| | `SameUrlOnceAlways` | `SameUrlOnce` |
| | `IgnoredNeverCounted` | `IgnoredNotCounted` when texts of arguments are in the order of their names |
| `ReportsProofs` | `TopsAlways`, `LinksAlwaysLead`, `VisibleFound` | `TopIsTop`, `LinksLead`, `AllVisibleReachable` for any month that is a `ReportInput` |
| | `EnginesAlwaysAgree` | `EnginesAgree` when node IDs, those of cities once packed, are less than `NodeIds` |
| | `DaysAlwaysReported` | `DaysReported` when a visit that has ended had started |

### The resolver

`Accounted` is not inductive by itself. The invariant adds that `dns_live_workers` is the
number of workers that are not dead (so that a clean-up that sees zero is alone), where
`dns_thread_stop` is set when workers have left without a throw, that list and queue hold
what they should, and in which states of the caller the event may be signalled by hand. A
step of a worker moves one node between the list, the worker and the counter, so that the
proof needs the cardinality of the set of busy workers with one more or one less member;
these are the lemmas of its first part.

`ResolverImplementsService` maps the two queues and the nodes that workers hold to one bag
of lookups. A step that moves a node from one place to the next leaves the bag alone; the
lemmas say what a queue with one more or one less element, or another worker's node,
adds to the number of lookups of each host. What the service may lose is exactly what a
worker that throws held.

### The pipeline

`PipeSafe` has the resolver's invariant and ties each call to the `phase` of the run it is
made in, so that in particular `ForgetHNodes` is called when no worker has work. A host that
is not resolved has a lookup in the queues (`UnresolvedQueued`), in memory it keeps its
visits until the lookup comes back (`KeptUnresolved`), and what is in the database has come
back (`StoredResolved`).

- `HostsStayInMemory` needs that no host is both caught spamming and swapped out, and
  `OnlySpammersDangle` says that these are the only ones: what the run `pipeline_swap`
  shows is the exception, not an example of one.
- `KeptVisitsAreGrouped` needs that no worker throws, since a worker that throws takes its
  lookup along. `VisitsGrouped` needs no such condition: with a lookup lost the counter
  never gets to zero, `dns_wait` never returns, and no host is deleted.

### The state engine

From the types on, each invariant needs the one before it.

1. `References`: no pointer dangles and the counts are exact. `put_dlnode` finds the visit
   that `put_hnode` has left (`HasVisit`). A count is the cardinality of a set of visits,
   so hosts and URLs are assumed to be finite sets.
2. `Books`: what is not marked as modified is stored as it is (`Stored`), the rows of active
   visits and downloads are those of the nodes in memory that were stored once, and of
   nodes that ended since (`RowsKept`), nodes that are not in memory are not active
   (`InactiveInDb`), a database is whole when a run ends and until the first record of the
   next (`WholeAtEnd`, `Untouched`), a month ends with all of its visits (`VisitsEnd`).
   From `RowsKept` it follows that `save_state` deletes no row that is not there.
3. `Times`, `SavedTimes`: no visit or download is younger than the last record or than the
   node it belongs to. This is what makes a node that is old enough to be swapped out have a
   visit that is over. `SwapsOnTime` needs `DownloadTimeout <= 2 * VisitTimeout`: nodes are
   swapped out when they are two visit timeouts old, and a longer pause in a download is cut
   short.
4. `DownloadsInVisits`, `SavedInVisits`: an active download is part of an active visit.
   `NoErrors` needs that downloads time out no later than visits, that visits have no
   maximum length (the defaults are 180 and 1800 seconds, and none), and that the last run
   of a month is not interrupted. Otherwise `restore_state` may find a download without its
   visit and throw, in the ways that section 6 lists. `OnlyRestoreThrows` says that
   nothing else ever throws.

`SessionsKept` follows from all four, with no condition: each step is a hit, the end of one
visit, of those that timed out or of all, a new month, or nothing at all in `Sessions`. The
hits of a host are those in its node, plus those of its visit, from memory or else from the
database; swapping a node out, saving and restoring change none of these sums. So what a
month counts does not depend on the memory the program has, nor on how its logs are
divided between runs.

`TotalsKept` sums this up over all hosts, URLs and jobs. Each step does one of three things
to them: it leaves what they have alone, it ends the visits of a set of hosts, or it ends
the downloads of a set of jobs (`VisitsEndedBy`, `DownloadsEndedBy`), in whichever of the
functions that do so. Ended visits move hits from visits to hosts, so that the sum over
hosts stays, and give each URL as many exits as visits had it last: the exits of all URLs
are as many as these visits (`SumPartition`). While the tables are not in memory,
`TotalsSaved` and `ItemsUntouched` say that the database has the same sums.
`TotalsKept`, too, needs no condition on timeouts.

### Sums and ranks

The sum of a function over a set is defined with a `CHOOSE` of its next element.
`SumAdd` says that the choice makes no difference: the sum over one more element is one
more term. It rests on the existence of a function with the recursive definition
(`SumsExist`) and on an exchange of the first two terms (`SumsStep`). Induction over
finite sets (`AllElements`) goes by the smallest counterexample, as the induction rules of
the library cannot be used. From `SumAdd` follow the sum of two functions, a change of one
term, comparison, restriction to a part, and that indicators are counted.

`Ranked` puts the elements of a finite set in an order, by how many are before each. With a
strict order every element has one place and places ascend (`RankedIs`). `ItemTables` selects
the arguments of a URL by it.

### Runs and the merge

The argument for `CountedOnce`: a record is *pending* in a run while it is not read
(its line is after `pos`), waits in `lfp_states` or is in hand. `OnePlace` says that
a record is pending in one place only, so that it is not pending any more once it
was counted, and no step of a run makes a record pending. `PastOnly` says of a
pending record that is already counted, which only an earlier run can have done,
that it will not be counted again: before the first record of the run is counted
`check_dup` is set, and the record is not later than `cur_tstamp`
(`NotLater`), so that it is a duplicate; after that it is earlier than `cur_tstamp`,
so that it is out of sequence. It is essential that nothing is said of the order
inside a log file: the log may jump back and forth, and the proof holds. `InTime`
ties the state to the month of the record between the two halves of the handling of
a record, for `MonthsStayApart`. `NothingIsForgotten` needs one more invariant, that
what the database has counted is in the state of a run, too (`Covered`).

`StatesMatch` rests on three facts, that the list of states is sorted, that it has one
state for each file, and that these are the files that still have records
(`FilesMatch`), and on lemmas about removing and inserting elements of sequences.
`OrderedCounted` says of each record of a run over ordered files that it is still pending or
was counted in this run (`NotLost`), and that no pending record is earlier than the one
in hand or the last one that was counted (`Ahead`), so that none is out of sequence when its
turn comes. The proof did
not go through at first: the case that was left was a line which takes the next one
with it. TLC found it as soon as the instance had such a file, and the property now
names that exception.

### History and index page

`HistInv` speaks of months by their numbers, twelve to a year, in which `After`, `Same` and
the functions `length`, `month_index` and `first_month` are arithmetic (`Numbers`,
`LengthFrom`, `LabelIs`, `IndexIs`). A history has its months in order, none twice, and is
not too long (`IsHistory`); `Updating` says what `update` makes of one: the new month, and of
the others those that are not too old. `ReadingBack` says that what `put_history` wrote is
what `get_history` reads. The function that reads the file line by line is shown to be
that of its prefixes, line by line: each month goes to the end, as it is later than all
before it.

The history of a run is read when the run begins and written over the file at each save,
so that the invariant has to relate the two in between: a run that reads the history has
every month of the file or knows that the month of the database made it too old
(`Remembered`), and a month which it has and the file has not is not in the future and
has no hits, unless it came back from the database after the file was lost (`Recent`,
`DbListed`). Records that are not later than the last run are duplicates, so that a run
does not go back before the time of the database (`Going`): what was too old for the
month of the database is too old for every month that the run saves.

- `SavesOneMonth` follows from these (`Saving`).
- `IndexAgrees` also needs that each month of the history, the file and the database has
  a report with its hits, or is known to have none (`AllReported`), and that the page was
  in order when it was written (`PageInOrder`): links by the order of the history, bars
  as the last month stands at the end of the chart and labels count back from it.

### Visitors

`Balanced` relates the totals to the sets of hosts that are known, are active, are robots,
had a converted visit, or are spammers whose first visit has ended: each counter is the
cardinality of one of them, or not more. `PeopleConverted` follows as the last three have no
host in common when nobody is a robot and a spammer: a host that is a robot never converts
(`NodesFit`), and a spammer is counted when its first visit ends, which then was not
converted. Hosts are assumed to be a finite set, and a month to have a day.

Hits are sums over hosts. `HitsFit` has three terms for each: hits of its active visit
unless it is a robot, and the visits and hits that are kept until its name is known
(`OpenHits`, `KeptVisits`, `KeptHits`). Each action changes the terms of the hosts that it
names, and the totals by as much.

- `HitsOfPeople`: hits of spammers are added when their visits end, all hits of the visit at
  once, so that the invariant needs what is still open: hits of spammers and open hits are
  no more than hits that are no robot's, if nobody is both.
- `CountriesCounted`: visits of countries and visits that are kept are those of people, all
  of them if nobody is a spammer or logged by name. When the month is reported nothing
  is kept, because of `Waits`: visits are kept only for hosts whose lookup is pending,
  and those have all come back. It also shows that a restart, which forgets what is kept,
  forgets nothing.

### Items

A record is counted by a fold over the nodes that it puts, at most twelve. `Joined` says of the
concatenation of the parts which nodes it has, so that a table has at most one regular node
of a record, and `CountedThis`, `CountedNone` say what the fold does to a table with one such
node or none. `TotalsInv` then ties each counter to a cardinality or to a sum over the nodes
of its table. For groups the same argument fails when a record is in two groups of a
kind, which is the code's mistake that section 6 names: `InOneGroup` excludes just that.

`SameUrlOnceAlways` rests on what is known of `qsort`: its result is a permutation that is
sorted by name. Two sorted sequences with the same texts are equal if no name
repeats (`SameOrder`); with repeated names the order is not determined.

`IgnoredNeverCounted` proves that `std::lower_bound` finds the first argument that is not
less than the key (`LowerBoundIs`), by induction over the length that is left, if what is
less comes first. The arguments are sorted by name and compared by text, so this is
a condition on both orders: `ListsFit` says that the text of an argument is less than a
pattern's name with its equal sign exactly if its name is less than that name. It also
excludes patterns with a name where nothing splits the arguments. Section 6 has what happens
otherwise; the configurations of the run `items` fit.

### Reports

The theorems are about `Reporting`: whatever engines run, in any order and more than once,
and whatever files fail to open. `ReportInput` says what a month and a configuration are:
finite tables, node IDs that are unique, groups and hiding patterns only where the code
has them, groups only with items that are in them, and no pages of all items for
countries, cities and networks. Every initial state of the run `reports` is one.

`ReportInv` follows the page: up to some place in the order of the page, each table that the
configuration asks for is written and is good, or has nothing to show, and the tables that
are left to write are exactly those with a later place (`AllTables`, for both orders of the
page). What makes a table good (`GoodTable`) depends on the month and the configuration
only, so that one lemma for each group of actions (`GroupTableWritten` and those after it)
says that it writes such a table, and one (`TableKeepsPage`) that the page stays good.

- `TopsAlways`: a table is the start of a list that is complete and sorted (`Whole`,
  `TopOf`). The order of an index is strict as node IDs are unique (`IndexIsStrict`).
  Bundled groups come from another index; `WholeJoined` puts the two lists together.
- `VisibleFound` is where counts meet rows (`RowsLinked`). Whether there is a page of all
  items is decided by counts that include hidden items and groups, while the table has
  visible ones only: if the page is not written, either the table is not full, so that all
  that may be shown is in it, or there are no more items than rows. That a table which is
  left out hides nothing needs that groups are never alone.
- `LinksAlwaysLead` needs that a table by transfer is only written with an anchor of its own
  if the other table is not configured, and that the other table, if it is, is not left out
  when this one is not: it may have all that this one may have.

The other engines have an invariant of their own (`EnginesInv`): an engine that is
configured has still to start, or each of its files is in the list of those to write, or
is written whole, or is one that could not be opened. A file is either empty or has all that
it is to have (`DumpWhole`, `FileWhole`), and as the month does not change these are the
same sets for all engines.

- `EnginesAlwaysAgree`: rows of tables and pages of all items are items of the table
  (`ReachableItems`), which is what the JSON file has whole, and the tab-separated file has
  those that are not groups. Identifiers differ as their parts are digits (`DigitsDiffer`),
  and those of cities as packing loses nothing (`CompactIdsDiffer`); this needs `IdsFit`, IDs
  that have room, and countries with a code of two letters or none. The program reports an
  ID that is too large as an error.
- `DaysAlwaysReported`: the loop that writes arrays makes four symbols of each element
  (`ArrayIs`, by induction over their number), so that an array is well-formed at any length
  and has an element for each day (`ArrayGood`). The totals are put together from parts that
  may be left out (`PieceMaybe`), each ending like the one before it. `MonthInput` has that
  no visit of a person ends without a visit having started, which follows from
  `TotalsBalance` of `VisitorTotals`; without ended visits of people the text is
  malformed, as section 6 says. `WeekendsAgree` is the arithmetic of the
  chart's weekends for any first day of the week.

### Only model-checked

- Liveness under fairness (`RunEnds`), which the provers used cannot do.
- The layouts of `NodeRows` and the lines of `LogRecords` (`RowsReadBack`,
  `IndexKeysAreFields`, `RequestRecorded`, `TimeIsExact`, `RecordsInOrder`): recursion over
  data.
- The two runs that show a disagreement.

## 6. Where the code and its documentation disagree

Two have a run that shows them:

| Run | What happens |
| --- | --- |
| `resolver_cache` | A record is written with version 6 and the data of version 7, so that reading it back stops short of its size and it never counts as found: the DNS cache answers nothing that this code has stored. |
| `pipeline_swap` | `resolved` says that one lookup came back. A host that was queued twice, because it was caught spamming, is swapped out while the other lookup still points to it. |

The others were met while modelling. The models do what the code does, and the
properties or the instances leave these cases out where they are named below.

Runs and months:

- `get_hnode` queues an update for a host that was caught spamming meanwhile, with the
  flag that was read before (`dns_resolv.cpp:668`): the cache does not learn of it.
- `dns_abort` throws when DNS is disabled (`dns_resolv.cpp:979`), so that Ctrl-C leaves
  the run without saving (`DnsEnabled` in `LogRun`).
- Ctrl-C in a run with `--last-log` saves active downloads whose visits have ended
  (`webalizer.cpp:1976`), and the next run throws (`preserve.cpp:803`). So it does when
  downloads outlive visits because of their timeout or a maximum visit length; `state`
  has timeouts for which `NothingThrows` holds.
- A run that closes a month and then counts nothing saves no time stamp
  (`webalizer.cpp:1946`), and the next run counts old logs again, which `README.md:300`
  says it may be given. After Ctrl-C such a run does save if a record of another file has
  been read and waits, because `total_rec` counts lines when they are read
  (`AnyProcessed`).
- A run that is not incremental does not read the history, because only `restore_state`
  does (`webalizer.cpp:162`), and writes it over with its own months: the index page loses
  all earlier ones, as if `IgnoreHist` were set. `README.md:234` says of any run that the
  history file is searched for. `SaveChangesOneMonth` leaves such runs out, and those with
  `IgnoreHist`.
- A run that Ctrl-C stopped has saved its month without a report
  (`webalizer.cpp:1977`). If no visits are active, the next run takes the report for
  written and clears the month (`webalizer.cpp:1452`): the index page links to a
  report that is older, or not there, where `README.md:360` has links to each month.
  `IndexShowsReports` leaves such months out.
- A month that is longer ago than the history is long gets its report, but leaves the
  history as it is added (`history.cpp:190`), and a month without hits pushes out older
  ones though it is not written itself (`history.cpp:326`).
- A line that just fills the buffer, or an oversized line whose last part does, takes
  the next line with it (`webalizer.cpp:3414`; `LineEnd` in `LogRun`).
- Downloads that are active when the month ends stay active in the database of the
  closed month (`webalizer.cpp:956`, `webalizer.cpp:1497`); `README.md:912` says that
  they end.

Who visits, and what is counted:

- A host that is a robot and a spammer is counted as both (`webalizer.cpp:3078`), so
  that the hosts of people are too few (`ConversionsArePeople` leaves it out).
- A spammer whose visit has ended is forgotten by a restart (`preserve.cpp:784` restores
  those with active visits), though `README.md:3488` has it one for the rest of the
  month.
- Hosts logged by name are never resolved, so that the visits that they end before the
  month does are in no group and no country (`webalizer.cpp:3143`).
- `IgnoreURL` with a name and value is missed when one argument name is the start of
  another, or when the name comes once more without a value (`a=1&a`), because
  arguments sorted by name are searched by their text
  (`webalizer.cpp:2092`, `README.md:2962`); and it never matches where
  `SortSearchArgs=no` and no filters leave arguments unsplit.
- The flag that says that a group is new is overwritten when a record adds two
  groups of a kind, so that the count of groups is short.
- Search terms of hosts that the DNS cache knows as spammers are counted, and groups
  count hits of errors and spammers whose members are not counted.
- A new agent in the middle of a visit counts as a visit of it (`put_anode`).

Parsing and time:

- The one parser keeps the fields of the last `#Fields` line that it has read, in whichever
  file (`parser.cpp:859`). Files are read side by side, so that with different headers
  entries of one are read in the order of the other's fields, and counted with wrong values
  or refused as bad where these cannot be read. `README.md:3290` has a directive hold for
  the entries that follow it, and `README.md:176` has files merged by time. The instance has
  such files, with date and time in the same place and other fields in different ones. The
  properties of `records` are about records that were read by the header of their own
  file (`last.own`); TLC refutes `RequestRecorded` without that condition.
- `DSTEnd` is parsed as standard time, and the call that should give it the daylight offset
  changes how the instant is shown, not the instant (`config.cpp:303`). So daylight saving
  time ends later by `DSTOffset`, where `README.md:1409` has the end in daylight saving
  time, as `CHANGES:335` says it was changed to be. `TimeIsExact` names that hour, and TLC
  refutes it with `EndedLate` left out.
- The sign of an ISO offset is read and dropped (`parser.cpp:1320`): `-05:00` is five
  hours ahead of UTC (the formats of `records` have CLF times).
- A `#Date` line is never parsed, as its text ends in a line feed.
- `add_range` compares the end of a range with the range after the next one
  (`tmranges.cpp:33`), so that overlapping ranges are accepted.
- `parse_tstamp` reads a component that it has not set when a time stamp ends in a
  delimiter.
- Nginx: the query of a referrer is not split off, and that of `$request_uri` is
  dropped. Apache: `%b` and `%O` together count bytes twice. W3C: `cs-bytes` are counted
  even with `UpstreamTraffic=no`.

Rows and reports:

- Rows of old versions leave the latitude and longitude of the row before in the node
  (`hnode.cpp:311`); `RowsReadBack` leaves these two fields out for them.
- The index of referrers by hits looks for its key one byte early (`rnode.cpp:91`).
- Status code rows of version 1 are shorter than what is read of them; restoring ignores
  it.
- Without a visit of a person that has ended, `usage_YYYYMM.json` has a comma before a
  closing bracket (`json_output.cpp:197`).
- Bundled groups of hosts are missing from the table by transfer, though grouped
  records cannot be hidden (`README.md:2764`).

## 7. Not modelled

- Of the history: totals other than hits, malformed files (which stop the program
  before it has read a log), and its use by `--prepare-report`, which reports the month of
  the database once more. `reports` has it as an input (`lday`, the last day of a month).
- Columns, percentages, colours, markup, languages and graphs of reports, and averages,
  maxima, hourly totals, transfer amounts and the sums of cities and networks that they
  show: arithmetic on one record, or formatting.
- The characters of log lines, URL normalization and malformed text: a line is the
  values read from it. `LogRun` has lines that are good, filtered or bad.
- How a pattern matches a name, and strings, buffers and allocators.
- Hash buckets and the list of nodes by time stamp: `StateEngine` lets a swap-out take
  any nodes that are old enough.
- Database sequences, trickling and upgrades of the system node, and failures of Berkeley
  DB in the middle of `save_state`, which leave a database that cannot be used, as its
  comment says.
- A run that is left through an exception after nodes were swapped out
  (`webalizer.cpp:1912`): the database has nodes that its totals do not.
- The Windows implementations of events and threads.
- GeoIP, ASN and DNS themselves: a lookup ends, or throws.

## 8. Plan

In the order of importance; the number of runs stays as it is, as new modules
compose with those that have one.

1. `HashTab`: the hash table with its order by time stamp, the exceptions of
   `put_node` and `find_node` for descending time stamps, and `swap_out` with its limit,
   as the detailed form of `Oldest` in `StateEngine` (checked in `state`).
2. `DnsCache`: records of all versions, TTL, GeoIP and ASN time stamps, as the
   detailed form of `CacheHit` and `Resolve` in `DnsResolver`.
3. `StateDb`: secondary indexes in batch mode and the order of `save_state` with a
   crash between two tables, and runs that end in an exception.
4. Proofs: what is only model-checked is in section 5; recursion over data needs a prover
   that can instantiate induction.
