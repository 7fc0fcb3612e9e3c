----------------------------- MODULE BulkCrawl ------------------------------
(***************************************************************************)
(* The bulk download task (tasks/bulk.py): a breadth-first crawl of a site *)
(* below a base URL, then the download of the artifacts that were found,   *)
(* with reports of progress in the task's row.                             *)
(*                                                                         *)
(* A URL is a sequence of pieces, so that "starts with" is IsPrefix and    *)
(* the file name is the last piece.  A site gives each page the links of   *)
(* its HTML, resolved, in their order.  A request that fails, or answers   *)
(* with something else than HTML, gives no links.                          *)
(***************************************************************************)
EXTENDS TaskTable, Joining, SequencesExt, FiniteSets

CONSTANTS Sites,          \* the sites, [page URLs -> sequences of URLs]
          BaseUrl,        \* Args.base_url
          Depths,         \* the values of Args.max_depth (1..10 in package_add_bulk_validate)
          ArtifactNames,  \* last pieces that end with one of Args.file_types
          SignatureNames, \* last pieces that end with one of them and ".asc"
          SortingPieces,  \* pieces that contain one of sorting_patterns
          Self            \* the pid of the worker

ASSUME SelfIsPid == Self \in Pids
ASSUME DepthsArePositive == Depths \subseteq Nat \ {0}
ASSUME SitesHaveLinks == \A s \in Sites : \A page \in DOMAIN s : s[page] \in Seq(Range(s[page]))

VARIABLES
  row,         \* the task table
  shown,       \* the progress in the result column of each row; -1 if none
  cachedId,    \* global_task_id, or 0
  site,        \* the site that is crawled
  maxDepth,    \* Args.max_depth
  cpc,         \* where download_core is
  queue,       \* the URLs to look at
  depth,       \* the depth reached
  level,       \* URLs of this depth still to be taken, of urls_at_current_depth
  nextLevel,   \* urls_at_next_depth
  seen,        \* the URLs that were not excluded
  artifacts,   \* the artifacts found, in order
  fetched,     \* history: the pages whose links have been read
  position,    \* artifacts_download: how many artifacts have been tried
  downloads    \* the directory: file names with "whole" or "partial"

progressVars == <<shown, cachedId>>
crawlVars == <<queue, depth, level, nextLevel, seen, artifacts, fetched>>
bulkVars == <<progressVars, site, maxDepth, cpc, crawlVars, position, downloads>>

CrawlTypeOK ==
  /\ shown \in [Tasks -> -1..100]
  /\ cachedId \in Tasks \cup {0}
  /\ site \in Sites
  /\ maxDepth \in Depths
  /\ cpc \in {"idle", "crawl", "found", "download", "fetch", "returned"}
  /\ depth \in 0..maxDepth
  /\ level \in Nat /\ nextLevel \in Nat
  /\ position \in 0..Len(artifacts)
  /\ Range(downloads) \subseteq {"whole", "partial"}

CrawlInit ==
  /\ shown = [t \in Tasks |-> -1]
  /\ cachedId = 0
  /\ site \in Sites
  /\ maxDepth \in Depths
  /\ cpc = "idle"
  /\ queue = <<>> /\ depth = 0 /\ level = 0 /\ nextLevel = 0
  /\ seen = {} /\ artifacts = <<>> /\ fetched = {}
  /\ position = 0
  /\ downloads = <<>>

-----------------------------------------------------------------------------
(* Progress *)

\* Mutant of OwnRows: any ACTIVE row.
ActiveRows == {t \in Tasks : row[t].status = "ACTIVE"}

\* database_task_pid_lookup
OwnRows == {t \in Tasks : row[t].status = "ACTIVE" /\ row[t].pid = Self}

\* database_task_id_get: the cached id, or one looked up with LIMIT 1.
TaskIdsFound == IF cachedId # 0 THEN {cachedId} ELSE OwnRows

\* database_message: the lookup or the UPDATE may fail, and both errors are
\* swallowed; an id once found is kept.
Message(percentage) ==
  \/ UNCHANGED progressVars
  \/ \E t \in TaskIdsFound :
       /\ cachedId' = t
       /\ shown' \in {shown, [shown EXCEPT ![t] = percentage]}

Smaller(a, b) == IF a < b THEN a ELSE b

-----------------------------------------------------------------------------
(* The crawl *)

StartCrawl ==
  /\ cpc = "idle"
  /\ cpc' = "crawl"
  /\ queue' = <<BaseUrl>>
  /\ level' = 1
  /\ Message(0)
  /\ UNCHANGED <<row, site, maxDepth, depth, nextLevel, seen, artifacts, fetched, position, downloads>>

\* Mutant of Excluded: URLs are not looked up among those already seen.
ExcludedByScope(url) == ~IsPrefix(BaseUrl, url) \/ Range(url) \cap SortingPieces # {}

\* url_excluded
Excluded(url) == ~IsPrefix(BaseUrl, url) \/ url \in seen \/ Range(url) \cap SortingPieces # {}

\* check_matches
IsArtifact(url) == Last(url) \in ArtifactNames
IsFile(url) == Last(url) \in ArtifactNames \cup SignatureNames

Links(url) == IF url \in DOMAIN site THEN site[url] ELSE <<>>

\* extract_links_from_html keeps the links that start with the page's own URL;
\* those already seen are not queued.
New(url, link) == IF IsPrefix(url, link) /\ link \notin seen \cup {url} THEN <<link>> ELSE <<>>
NewLinks(url) == Joined(LAMBDA i : New(url, Links(url)[i]), Len(Links(url)))

Url == Head(queue)
Taking == cpc = "crawl" /\ level > 0 /\ queue # <<>>
Taken == level' = level - 1

TakeExcluded ==
  /\ Taking
  /\ Excluded(Url)
  /\ queue' = Tail(queue)
  /\ Taken
  /\ UNCHANGED <<row, progressVars, site, maxDepth, cpc, depth, nextLevel, seen, artifacts, fetched, position, downloads>>

TakeFile ==
  /\ Taking
  /\ ~Excluded(Url)
  /\ IsFile(Url)
  /\ queue' = Tail(queue)
  /\ Taken
  /\ seen' = seen \cup {Url}
  /\ artifacts' = IF IsArtifact(Url) THEN Append(artifacts, Url) ELSE artifacts
  /\ UNCHANGED <<row, progressVars, site, maxDepth, cpc, depth, nextLevel, fetched, position, downloads>>

TakePage ==
  /\ Taking
  /\ ~Excluded(Url)
  /\ ~IsFile(Url)
  /\ Taken
  /\ seen' = seen \cup {Url}
  /\ \E answers \in BOOLEAN :
       LET links == IF answers THEN NewLinks(Url) ELSE <<>>
       IN  /\ queue' = Tail(queue) \o links
           /\ nextLevel' = nextLevel + Len(links)
           /\ fetched' = IF answers THEN fetched \cup {Url} ELSE fetched
  /\ UNCHANGED <<row, progressVars, site, maxDepth, cpc, depth, artifacts, position, downloads>>

\* Mutant of EndLevel: one depth more.
EndLevelTooDeep ==
  /\ cpc = "crawl"
  /\ level = 0 \/ queue = <<>>
  /\ depth' = depth + 1
  /\ level' = nextLevel
  /\ nextLevel' = 0
  /\ Message(30 + Smaller(50, 10 * depth'))
  /\ cpc' = IF queue = <<>> \/ depth' > maxDepth THEN "found" ELSE cpc
  /\ UNCHANGED <<row, site, maxDepth, queue, seen, artifacts, fetched, position, downloads>>

\* The for loop over a depth is done.
EndLevel ==
  /\ cpc = "crawl"
  /\ level = 0 \/ queue = <<>>
  /\ depth' = depth + 1
  /\ level' = nextLevel
  /\ nextLevel' = 0
  /\ Message(30 + Smaller(50, 10 * depth'))
  /\ cpc' = IF queue = <<>> \/ depth' = maxDepth THEN "found" ELSE cpc
  /\ UNCHANGED <<row, site, maxDepth, queue, seen, artifacts, fetched, position, downloads>>

-----------------------------------------------------------------------------
(* The downloads *)

\* "Found ... artifacts to download", without a progress.
Found ==
  /\ cpc = "found"
  /\ cpc' = "download"
  /\ Message(0)
  /\ UNCHANGED <<row, site, maxDepth, crawlVars, position, downloads>>

Artifact == artifacts[position + 1]
FileName == Last(Artifact)

\* The directory when the file holds what is said.
Holding(content) == [f \in DOMAIN downloads \cup {FileName} |-> IF f = FileName THEN content ELSE downloads[f]]

\* artifact_download_core: the server refuses, or the file is opened for writing,
\* whatever its name has stood for.
BeginDownload ==
  /\ cpc = "download"
  /\ position < Len(artifacts)
  /\ Message((100 * position) \div Len(artifacts))
  /\ \/ position' = position + 1 /\ UNCHANGED <<cpc, downloads>>
     \/ cpc' = "fetch" /\ downloads' = Holding("partial") /\ UNCHANGED position
  /\ UNCHANGED <<row, site, maxDepth, crawlVars>>

\* The file is complete; or an error is raised and the file is removed.
EndDownload ==
  /\ cpc = "fetch"
  /\ cpc' = "download"
  /\ downloads' \in {Holding("whole"),
                     [f \in DOMAIN downloads \ {FileName} |-> downloads[f]]}
  /\ position' = position + 1
  /\ UNCHANGED <<row, progressVars, site, maxDepth, crawlVars>>

EndBulk ==
  /\ cpc = "download"
  /\ position = Len(artifacts)
  /\ Message(100)
  /\ cpc' = "returned"
  /\ UNCHANGED <<row, site, maxDepth, crawlVars, position, downloads>>

CrawlNext ==
  \/ StartCrawl \/ TakeExcluded \/ TakeFile \/ TakePage \/ EndLevel
  \/ Found \/ BeginDownload \/ EndDownload \/ EndBulk

-----------------------------------------------------------------------------
(* What the crawl is for *)

\* Within[n]: the URLs in scope that n links, read from pages that answered, lead
\* to from the base URL.
InScope(url) == IsPrefix(BaseUrl, url) /\ Range(url) \cap SortingPieces = {}
Within[n \in Nat] ==
  IF n = 0 THEN {url \in {BaseUrl} : InScope(url)}
  ELSE Within[n - 1] \cup
       {url \in UNION {Range(Links(page)) : page \in fetched} :
          InScope(url) /\ \E page \in Within[n - 1] \cap fetched : url \in Range(Links(page)) /\ IsPrefix(page, url)}

\* When the crawl is over it has seen exactly the URLs within its depth, and lists
\* each artifact among them once.
CrawlIsExact ==
  cpc \notin {"idle", "crawl"} =>
    /\ seen = Within[maxDepth - 1]
    /\ Range(artifacts) = {url \in seen : IsArtifact(url)}
    /\ Len(artifacts) = Cardinality(Range(artifacts))
=============================================================================
