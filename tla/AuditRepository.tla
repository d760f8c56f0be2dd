-------------------------- MODULE AuditRepository --------------------------
(***************************************************************************)
(* AuditRepository: goroutines append entries while clients ask for the    *)
(* statistics and one of them walks the pages of a listing, newest first.  *)
(*                                                                         *)
(* Append clears the statistics cache and then commits; ComputeStats       *)
(* answers from the cache for statsCacheTTL and otherwise scans the log    *)
(* and stores what it found, so that an old scan can be stored after the   *)
(* clearing that should have removed it, or over another call's newer one. *)
(* A listing without a filter, and the recognize listing, count in one     *)
(* transaction and collect the page in a second one.  Queries of a single  *)
(* transaction are operators.                                              *)
(***************************************************************************)
EXTENDS AuditLog

CONSTANTS
    Appenders,     \* goroutines calling Append
    Callers,       \* clients whose requests call ComputeStats
    Walker,        \* the one of them that opens listings too
    Entries,       \* the audit entries that get appended
    Bytes(_),      \* the size of a stored entry
    TTL,           \* statsCacheTTL, in ticks of the clock
    PerPage,       \* page length (20 by default, at most 100)
    MaxUnmatched,  \* the n of ListUnmatched (100)
    MaxScanBytes,  \* listUnmatchedMaxScanBytes
    MaxLog         \* bound on the length of the log

ASSUME AuditRepositoryAssumption ==
    /\ TTL \in Nat \ {0}
    /\ PerPage \in Nat \ {0}
    /\ MaxUnmatched \in Nat \ {0}
    /\ MaxScanBytes \in Nat \ {0}
    /\ \A e \in Entries : Bytes(e) \in Nat /\ e.sec \in Nat
    /\ MaxLog \in Nat

ASSUME EntryAssumption == \A e \in Entries : e.status \in Status \cup {""}

ASSUME WalkerAssumption == Walker \in Callers

VARIABLES
    log,        \* bucket Audit, oldest entry first
    cache,      \* statsCache.stats
    age,        \* ticks since statsCache.cachedAt, at most TTL; Unset if zero
    apc,        \* where each Append is
    spc,        \* where each ComputeStats is
    seen,       \* what each ComputeStats under way has computed
    answer,     \* what ComputeStats returned last, to any caller
    settled,    \* history: the entries counted by the last answer given while
                \* no other call had a scan left to store
    pc,         \* where the walker's request for a listing is
    walk        \* the listing it walks

stats == <<spc, seen, answer, settled>>
client == <<pc, walk>>
vars == <<log, cache, age, apc, stats, client>>

NoStats == StatsOf(<<>>)   \* domain.Stats{}
Unset == -1                \* time.Time{}

\* No listing is open.  In walk, total is total_count of the last answer and
\* rows its entries, as indices into log; the last three fields are history:
\* the length of the log when the walk began, the entries it has shown, and
\* how many were listed after total was counted.
Closed == [listing |-> "all", page |-> 1, total |-> 0, rows |-> {},
           first |-> 0, shown |-> {}, late |-> 0]

Init ==
    /\ log = <<>>
    /\ cache = NoStats
    /\ age = Unset
    /\ apc = [a \in Appenders |-> "idle"]
    /\ spc = [c \in Callers |-> "idle"]
    /\ seen = [c \in Callers |-> NoStats]
    /\ answer = NoStats
    /\ settled = 0
    /\ pc = "idle"
    /\ walk = Closed
-----------------------------------------------------------------------------
\* Append.

\* Mutant of Clear: only the statistics are reset, not cachedAt.
Clear_KeepsTime(a) ==
    /\ apc[a] = "idle"
    /\ Len(log) < MaxLog
    /\ cache' = NoStats
    /\ apc' = [apc EXCEPT ![a] = "commit"]
    /\ UNCHANGED <<log, age, stats, client>>

\* Both cache fields are reset under the write lock ...
Clear(a) ==
    /\ apc[a] = "idle"
    /\ Len(log) < MaxLog
    /\ cache' = NoStats
    /\ age' = Unset
    /\ apc' = [apc EXCEPT ![a] = "commit"]
    /\ UNCHANGED <<log, stats, client>>

\* ... and then the entry is written in one transaction,
Commit(a) ==
    /\ apc[a] = "commit"
    /\ Len(log) < MaxLog
    /\ \E e \in Entries : log' = Append(log, e)
    /\ apc' = [apc EXCEPT ![a] = "idle"]
    /\ UNCHANGED <<cache, age, stats, client>>

\* which may fail.
CommitFails(a) ==
    /\ apc[a] = "commit"
    /\ apc' = [apc EXCEPT ![a] = "idle"]
    /\ UNCHANGED <<log, cache, age, stats, client>>
-----------------------------------------------------------------------------
\* ComputeStats.

\* Mutant of Valid: a cached value never expires.
Valid_Forever == age # Unset

\* !cachedAt.IsZero() && time.Since(cachedAt) < statsCacheTTL.
Valid == age # Unset /\ age < TTL

\* c is told s.  When no other call has a scan left to store, nothing older
\* can be stored or told any more.
Tell(c, s) ==
    /\ answer' = s
    /\ settled' = IF \A d \in Callers \ {c} : spc[d] # "store"
                    THEN s.checks ELSE settled

\* Statistics and time are read together under the read lock.  The walker has
\* one request at a time, and leaves its listing for the statistics.
Lookup(c) ==
    /\ spc[c] = "idle"
    /\ IF c = Walker
         THEN pc \in {"idle", "done"} /\ pc' = "idle" /\ walk' = Closed
         ELSE UNCHANGED client
    /\ IF Valid
         THEN Tell(c, cache) /\ UNCHANGED spc
         ELSE spc' = [spc EXCEPT ![c] = "scan"] /\ UNCHANGED <<answer, settled>>
    /\ UNCHANGED <<log, cache, age, apc, seen>>

\* One read transaction over the whole log; it fails only if the database does.
ScanStats(c) ==
    /\ spc[c] = "scan"
    /\ \/ /\ seen' = [seen EXCEPT ![c] = StatsOf(log)]
          /\ spc' = [spc EXCEPT ![c] = "store"]
       \/ spc' = [spc EXCEPT ![c] = "idle"] /\ UNCHANGED seen
    /\ UNCHANGED <<log, cache, age, apc, answer, settled, client>>

\* The result is cached as of now, however old the scan is, over whatever
\* another call has stored since.
Store(c) ==
    /\ spc[c] = "store"
    /\ cache' = seen[c]
    /\ age' = 0
    /\ Tell(c, seen[c])
    /\ spc' = [spc EXCEPT ![c] = "idle"]
    /\ seen' = [seen EXCEPT ![c] = NoStats]
    /\ UNCHANGED <<log, apc, client>>

\* The clock.
Tick ==
    /\ age # Unset
    /\ age < TTL
    /\ age' = age + 1
    /\ UNCHANGED <<log, cache, apc, stats, client>>
-----------------------------------------------------------------------------
\* The paginated listings.

\* Does a reader count e to the listing?  "filtered" stands for one status
\* filter; only ListPaginated applies it.
Listed(reader, listing, e) ==
    CASE listing = "all"        -> TRUE
      [] listing = "filtered"   -> ReadStatus(reader, e) = "not_matched"
      [] listing = "recognized" -> Recognized(reader, e)

\* The reader that collects the page of a listing.
PageReader(listing) ==
    IF listing = "recognized" THEN "ListRecognizePage" ELSE "ListPaginated"

ListedIn(listing, l) == {i \in DOMAIN l : Listed(PageReader(listing), listing, l[i])}

\* The reader that counts it: CountAll looks at no entry.
Total(listing, l) ==
    IF listing = "recognized"
      THEN Cardinality({i \in DOMAIN l : Recognized("ListRecognizeCount", l[i])})
      ELSE Cardinality(ListedIn(listing, l))

\* seen, when the scan has come to entry i.
Rank(listing, l, i) == Cardinality({j \in ListedIn(listing, l) : j >= i})

\* Mutants of OnPage: one row too many, or too few.
OnPage_OneMore(listing, l, p) ==
    {i \in ListedIn(listing, l) :
        Rank(listing, l, i) <= p * PerPage /\ Rank(listing, l, i) >= (p - 1) * PerPage}

OnPage_OneLess(listing, l, p) ==
    {i \in ListedIn(listing, l) :
        Rank(listing, l, i) < p * PerPage /\ Rank(listing, l, i) > (p - 1) * PerPage}

\* The rows of page p: seen <= pageUpper && seen > pageLower.
OnPage(listing, l, p) ==
    {i \in ListedIn(listing, l) :
        Rank(listing, l, i) <= p * PerPage /\ Rank(listing, l, i) > (p - 1) * PerPage}

\* walk, when the page has been collected and total entries were counted.
Collected(total) ==
    LET rows == OnPage(walk.listing, log, walk.page)
    IN  [walk EXCEPT !.total = total,
                     !.rows = rows,
                     !.shown = @ \cup rows,
                     !.late = Cardinality(ListedIn(walk.listing, log)) - total]

\* The client opens a listing: page 1.
Open ==
    /\ spc[Walker] = "idle"
    /\ pc \in {"idle", "done"}
    /\ pc' = "request"
    /\ \E listing \in {"all", "filtered", "recognized"} :
          walk' = [Closed EXCEPT !.listing = listing, !.first = Len(log)]
    /\ UNCHANGED <<log, cache, age, apc, stats>>

\* ListPaginated with a filter: one transaction.
ListFiltered ==
    /\ pc = "request"
    /\ walk.listing = "filtered"
    /\ walk' = Collected(Total(walk.listing, log))
    /\ pc' = "answered"
    /\ UNCHANGED <<log, cache, age, apc, stats>>

\* CountAll, or the first pass of ListRecognizeEntries.
Count ==
    /\ pc = "request"
    /\ walk.listing # "filtered"
    /\ walk' = [walk EXCEPT !.total = Total(walk.listing, log)]
    /\ pc' = "counted"
    /\ UNCHANGED <<log, cache, age, apc, stats>>

\* The scan for the page, in a transaction of its own.
ScanPage ==
    /\ pc = "counted"
    /\ walk' = Collected(walk.total)
    /\ pc' = "answered"
    /\ UNCHANGED <<log, cache, age, apc, stats>>

\* The page shows a "next" button while page < total_pages.
TurnPage ==
    /\ pc = "answered"
    /\ IF walk.page * PerPage < walk.total
         THEN pc' = "request" /\ walk' = [walk EXCEPT !.page = @ + 1]
         ELSE pc' = "done" /\ UNCHANGED walk
    /\ UNCHANGED <<log, cache, age, apc, stats>>
-----------------------------------------------------------------------------
\* Mutant of ScanUnmatched: the limit is tested once an entry has been read.
ScanUnmatched_LateCap(l, i, scan) ==
    IF scan.bytes + Bytes(l[i]) < MaxScanBytes /\ Cardinality(scan.found) < MaxUnmatched
      THEN [bytes |-> scan.bytes + Bytes(l[i]),
            found |-> scan.found \cup {j \in {i} : ReadStatus("ListUnmatched", l[j]) = "not_matched"}]
      ELSE scan

\* One turn of ListUnmatched's loop, at entry i.
ScanUnmatched(l, i, scan) ==
    IF scan.bytes < MaxScanBytes /\ Cardinality(scan.found) < MaxUnmatched
      THEN [bytes |-> scan.bytes + Bytes(l[i]),
            found |-> scan.found \cup {j \in {i} : ReadStatus("ListUnmatched", l[j]) = "not_matched"}]
      ELSE scan

\* ListUnmatched's loop, from the last entry to the first: what it has read and
\* found when it has come past the k newest entries.
UnmatchedScan(l) ==
    LET scan[k \in 0..Len(l)] ==
          IF k = 0 THEN [bytes |-> 0, found |-> {}]
                   ELSE ScanUnmatched(l, Len(l) - k + 1, scan[k - 1])
    IN  scan

ListUnmatched(l) == UnmatchedScan(l)[Len(l)].found
-----------------------------------------------------------------------------
Next ==
    \/ \E a \in Appenders : Clear(a) \/ Commit(a) \/ CommitFails(a)
    \/ \E c \in Callers : Lookup(c) \/ ScanStats(c) \/ Store(c)
    \/ Open \/ ListFiltered \/ Count \/ ScanPage \/ TurnPage
    \/ Tick

Spec == Init /\ [][Next]_vars

\* Time passes, and a call that has begun returns.
LiveSpec ==
    /\ Spec
    /\ WF_vars(Tick)
    /\ \A a \in Appenders : WF_vars(Commit(a) \/ CommitFails(a))
    /\ \A c \in Callers : WF_vars(ScanStats(c) \/ Store(c))
-----------------------------------------------------------------------------
Sums(s) == s.checks = s.matched + s.notMatched + s.noFace

TypeOK ==
    /\ log \in Seq(Entries) /\ Len(log) <= MaxLog
    /\ age \in {Unset} \cup 0..TTL
    /\ apc \in [Appenders -> {"idle", "commit"}]
    /\ spc \in [Callers -> {"idle", "scan", "store"}]
    /\ Sums(cache) /\ Sums(answer) /\ \A c \in Callers : Sums(seen[c])
    /\ settled \in 0..Len(log)
    /\ pc \in {"idle", "request", "counted", "answered", "done"}
    /\ walk.listing \in {"all", "filtered", "recognized"}
    /\ walk.page \in Nat \ {0}
    /\ {walk.total, walk.first, walk.late} \subseteq 0..Len(log)
    /\ walk.rows \subseteq walk.shown /\ Cardinality(walk.rows) <= PerPage
    /\ walk.shown \subseteq DOMAIN log

Promise == INSTANCE Statistics WITH counting <- {c \in Callers : spc[c] = "store"}

\* However many requests compute the statistics at once, each is shown those of
\* one log.  An answer goes back behind an earlier one only if another call held
\* a finished scan, not stored yet, when the earlier one was given: a cleared
\* cache is not taken for a count of nothing, and whatever the appends do, no
\* scan that starts later undoes what has been shown.
ImplementsStatistics == Promise!Spec

\* Once nothing is appended any more, an old scan that was stored late is served
\* for one TTL at most: in the end a cached answer counts the whole log.
EventuallyFresh == <>[](Valid => cache = StatsOf(log))

\* Walking a listing to its last page shows every entry there was at the start,
\* whatever is appended between the requests; it misses no more of them than
\* there were entries appended between the two transactions of a single, the
\* last, request: none at all in a filtered listing.
MissedOnlyByLateAppends ==
    pc = "done" =>
       /\ Cardinality({i \in ListedIn(walk.listing, log) : i <= walk.first} \ walk.shown)
             <= walk.late
       /\ walk.listing = "filtered" => walk.late = 0

\* The size of the k newest entries, for each k.
NewestBytes(l) ==
    LET sum[k \in 0..Len(l)] ==
          IF k = 0 THEN 0 ELSE sum[k - 1] + Bytes(l[Len(l) - k + 1])
    IN  sum

\* ListUnmatched returns the top of the listing of unmatched entries: it leaves
\* one out only for as many newer ones as it may return, or behind at least
\* listUnmatchedMaxScanBytes of newer entries.
UnmatchedAreNewest ==
    LET found == ListUnmatched(log)
    IN  /\ found \subseteq ListedIn("filtered", log)
        /\ Cardinality(found) <= MaxUnmatched
        /\ \A i \in ListedIn("filtered", log) \ found :
              /\ \A j \in found : j > i
              /\ \/ Cardinality(found) = MaxUnmatched
                 \/ NewestBytes(log)[Len(log) - i] >= MaxScanBytes

\* The summary adds up to the total of the recognize listing, and so do the
\* count and the rows of its pages, which are four loops of their own.
SummaryAgreesWithListing ==
    LET s == RecognizeSummary(log)
    IN  /\ s.total = s.matched + s.notMatched
        /\ s.total = Cardinality(ListedIn("recognized", log))
        /\ s.total = Total("recognized", log)
        /\ s.total = RecognizeCount(log)

\* The statistics count as unmatched what the filtered listing lists.
StatisticsAgreeWithListing ==
    StatsOf(log).notMatched = Cardinality(ListedIn("filtered", log))

\* The face view opened from a row of a page, however much has been appended
\* since, shows that row's image, or one of the same second that is newer.
FaceOfRow ==
    \A i \in walk.rows :
       LET face == FaceAt(log, log[i].sec)
       IN  /\ log[face].sec = log[i].sec
           /\ face >= i
           /\ (\A j \in DOMAIN log : log[j].sec = log[i].sec => j = i) => face = i

\* What the other queries say of the log is what the listings show of it, each
\* with its own loop, its own limit and its own default for a missing status.
QueriesAgreeWithListings ==
    /\ UnmatchedAreNewest
    /\ SummaryAgreesWithListing
    /\ StatisticsAgreeWithListing
    /\ FaceOfRow
=============================================================================
