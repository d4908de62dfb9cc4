------------------------------- MODULE Crawl -------------------------------
(***************************************************************************)
(* The resumable crawl (src/huijiwiki): run_crawl lists the pages of the   *)
(* wiki and fetches their revisions into append-only JSONL files, with the *)
(* state in crawl_state.sqlite; verify_integrity judges the result, and    *)
(* the build joins it (src/huiji_rag/build/page_sources.py).               *)
(*                                                                         *)
(* One action is one durable write with the answer of the wiki it records. *)
(* The wiki goes on changing meanwhile.  RuntimeLock admits one crawl.     *)
(***************************************************************************)
EXTENDS Integers, FiniteSets

CONSTANTS
    MainPages, DataPages,  \* pages of namespace 0, and of namespace 3500
    WikiFiles,             \* images and other files of the wiki
    MaxFaults,             \* bound of kills, errors and cut answers (checking only)
    MaxChanges             \* bound of the changes of the wiki (same)

ASSUME CrawlAssumption ==
    /\ MaxFaults \in Nat /\ MaxChanges \in Nat
    /\ MainPages \cap DataPages = {}

VARIABLES
    wiki,        \* what a page is, and its last revision
    settled,     \* pages that kept their place since their scan began
    quiet,       \* pages unchanged since the latest full crawl began
    status, lastrevid, fetched,  \* the rows of the table pages
    resources,   \* the rows of the table resources
    fullRun,     \* status and completed scans of the latest full crawl
    limited,     \* whether a limited crawl began since
    listed,      \* the last record of a page in pages.jsonl
    relisted,    \* pages with different records in pages.jsonl
    text, data,  \* the records of wikitext.jsonl and data_pages.jsonl
    manifest,    \* the records of resources_manifest.jsonl
    damaged,     \* files with a line that is no record
    unfinished,  \* files that end in such a line, without a newline
    crawl,       \* the crawl under way
    faults, changes

siteVars == <<wiki, settled, quiet>>
pageTable == <<status, lastrevid, fetched>>
recordVars == <<listed, relisted, text, data, manifest>>
fileVars == <<damaged, unfinished>>
runVars == <<fullRun, limited>>
crawlVars == <<siteVars, pageTable, resources, runVars, recordVars, fileVars, crawl,
               faults, changes>>

-----------------------------------------------------------------------------

WikiPages == MainPages \cup DataPages
Namespaces == {"main", "data"}
InNamespace(ns) == IF ns = "main" THEN MainPages ELSE DataPages

Never == -1                 \* NULL, or no record
EmptyAnswer == 0            \* the revid of a page answered without a revision

NoCrawl == [pc |-> "none"]

Crawling(pc) == crawl # NoCrawl /\ crawl.pc = pc

(* allpages answers what is no redirect. *)
Listable == {p \in WikiPages : wiki[p].kind = "page"}

(* JsonlWriter.write: a record appended to an unfinished line joins it, and  *)
(* neither is a record.                                                      *)
Appends(file) == unfinished' = unfinished \ {file} /\ UNCHANGED damaged

Kept(file) == file \notin unfinished

-----------------------------------------------------------------------------
(* run_crawl *)

(* A full crawl takes the file manifest; a limited one stops at the first    *)
(* page it has to fetch.                                                     *)
StartCrawl(kind) ==
    /\ crawl = NoCrawl
    /\ crawl' = [pc |-> "next", kind |-> kind, ns |-> "main", scanned |-> {},
                 seen |-> {}, todo |-> {}, page |-> "none", rev |-> Never]
    /\ IF kind = "full"
       THEN /\ fullRun' = [status |-> "running", scans |-> {}]
            /\ limited' = FALSE
            /\ quiet' = Listable
       ELSE limited' = TRUE /\ UNCHANGED <<fullRun, quiet>>
    /\ UNCHANGED <<wiki, settled, pageTable, resources, recordVars, fileVars, faults,
                   changes>>

LimitReached == crawl.kind = "limited" /\ crawl.todo # {}

(* mark_namespace_scan_started *)
StartScan(ns) ==
    /\ Crawling("next") /\ ~LimitReached
    /\ ns \notin crawl.scanned /\ (ns = "data" => "main" \in crawl.scanned)
    /\ crawl' = [crawl EXCEPT !.pc = "scan", !.ns = ns, !.seen = {}]
    /\ settled' = Listable \cap InNamespace(ns)
    /\ UNCHANGED <<wiki, quiet, pageTable, resources, runVars, recordVars, fileVars,
                   faults, changes>>

ToList == IF LimitReached THEN {} ELSE (Listable \cap InNamespace(crawl.ns)) \ crawl.seen

(* The page or file in hand has been dealt with. *)
Put(c, pc) == [c EXCEPT !.pc = pc, !.page = "none", !.rev = Never]

(* The record in pages.jsonl, *)
RecordPage(p) ==
    /\ Crawling("scan") /\ p \in ToList
    /\ listed' = IF Kept("pages") THEN [listed EXCEPT ![p] = wiki[p].rev] ELSE listed
    /\ relisted' = IF Kept("pages") /\ listed[p] \notin {Never, wiki[p].rev}
                   THEN relisted \cup {p} ELSE relisted
    /\ Appends("pages")
    /\ crawl' = [crawl EXCEPT !.pc = "index", !.page = p, !.rev = wiki[p].rev]
    /\ UNCHANGED <<siteVars, pageTable, resources, runVars, text, data, manifest, faults,
                   changes>>

\* Mutant of IndexPage: a page that was fetched once is not fetched again.
IndexPageOnce(p) ==
    /\ Crawling("index") /\ crawl.page = p
    /\ status' = [status EXCEPT ![p] = "active"]
    /\ lastrevid' = [lastrevid EXCEPT ![p] = crawl.rev]
    /\ crawl' = [Put(crawl, "scan") EXCEPT
                    !.seen = @ \cup {p},
                    !.todo = IF fetched[p] = Never THEN @ \cup {p} ELSE @]
    /\ UNCHANGED <<siteVars, fetched, resources, runVars, recordVars, fileVars, faults,
                   changes>>

(* then the row, by which should_fetch decides. *)
IndexPage(p) ==
    /\ Crawling("index") /\ crawl.page = p
    /\ status' = [status EXCEPT ![p] = "active"]
    /\ lastrevid' = [lastrevid EXCEPT ![p] = crawl.rev]
    /\ crawl' = [Put(crawl, "scan") EXCEPT
                    !.seen = @ \cup {p},
                    !.todo = IF fetched[p] # crawl.rev THEN @ \cup {p} ELSE @]
    /\ UNCHANGED <<siteVars, fetched, resources, runVars, recordVars, fileVars, faults,
                   changes>>

(* mark_namespace_scan_completed: the end of the list, or the limit.  A page *)
(* that came or moved during the scan may have been missed.                  *)
EndScan ==
    /\ Crawling("scan")
    /\ LimitReached \/ settled \subseteq crawl.seen
    /\ status' = [p \in WikiPages |->
                    IF p \in InNamespace(crawl.ns) \ crawl.seen /\ status[p] # "none"
                    THEN "missing" ELSE status[p]]
    /\ fullRun' = IF crawl.kind = "full" THEN [fullRun EXCEPT !.scans = @ \cup {crawl.ns}]
                  ELSE fullRun
    /\ crawl' = [crawl EXCEPT !.pc = "next", !.scanned = @ \cup {crawl.ns}, !.seen = {}]
    /\ settled' = {}
    /\ UNCHANGED <<wiki, quiet, lastrevid, fetched, resources, limited, recordVars, fileVars,
                   faults, changes>>

StartFetch ==
    /\ Crawling("next") /\ (crawl.scanned = Namespaces \/ LimitReached)
    /\ crawl' = [crawl EXCEPT !.pc = "fetch", !.seen = {}]
    /\ UNCHANGED <<siteVars, pageTable, resources, runVars, recordVars, fileVars, faults,
                   changes>>

(* _write_revision: the revision the wiki has now.  An answer cut short      *)
(* lists the page without its revision.                                      *)
FetchText(p) ==
    /\ Crawling("fetch") /\ p \in crawl.todo /\ wiki[p].kind # "gone"
    /\ \E r \in {wiki[p].rev, EmptyAnswer} :
          /\ faults' = IF r = EmptyAnswer THEN faults + 1 ELSE faults
          /\ faults' <= MaxFaults
          /\ text' = IF Kept("wikitext") THEN text \cup {<<p, r>>} ELSE text
          /\ crawl' = [crawl EXCEPT !.pc = IF p \in DataPages THEN "data" ELSE "mark",
                                    !.page = p, !.rev = r]
    /\ Appends("wikitext")
    /\ UNCHANGED <<siteVars, pageTable, resources, runVars, listed, relisted, data,
                   manifest, changes>>

FetchData(p) ==
    /\ Crawling("data") /\ crawl.page = p
    /\ data' = IF Kept("data_pages") THEN data \cup {<<p, crawl.rev>>} ELSE data
    /\ Appends("data_pages")
    /\ crawl' = [crawl EXCEPT !.pc = "mark"]
    /\ UNCHANGED <<siteVars, pageTable, resources, runVars, listed, relisted, text,
                   manifest, faults, changes>>

\* Mutant of MarkFetched: the revision of the list is marked.
MarkFetchedListed(p) ==
    /\ Crawling("mark") /\ crawl.page = p
    /\ fetched' = [fetched EXCEPT ![p] = lastrevid[p]]
    /\ crawl' = [Put(crawl, "fetch") EXCEPT !.todo = @ \ {p}]
    /\ UNCHANGED <<siteVars, status, lastrevid, resources, runVars, recordVars, fileVars,
                   faults, changes>>

(* mark_revision_fetched *)
MarkFetched(p) ==
    /\ Crawling("mark") /\ crawl.page = p
    /\ fetched' = [fetched EXCEPT ![p] = crawl.rev]
    /\ crawl' = [Put(crawl, "fetch") EXCEPT !.todo = @ \ {p}]
    /\ UNCHANGED <<siteVars, status, lastrevid, resources, runVars, recordVars, fileVars,
                   faults, changes>>

ToManifest ==
    IF crawl.kind = "full" /\ crawl.todo = {} THEN WikiFiles \ crawl.seen ELSE {}

RecordFile(f) ==
    /\ Crawling("fetch") /\ f \in ToManifest
    /\ manifest' = IF Kept("resources_manifest") THEN manifest \cup {f} ELSE manifest
    /\ Appends("resources_manifest")
    /\ crawl' = [crawl EXCEPT !.pc = "upsert", !.page = f]
    /\ UNCHANGED <<siteVars, pageTable, resources, runVars, listed, relisted, text, data,
                   faults, changes>>

UpsertFile(f) ==
    /\ Crawling("upsert") /\ crawl.page = f
    /\ resources' = resources \cup {f}
    /\ crawl' = [Put(crawl, "fetch") EXCEPT !.seen = @ \cup {f}]
    /\ UNCHANGED <<siteVars, pageTable, runVars, recordVars, fileVars, faults, changes>>

FinishedAs(outcome) ==
    /\ crawl' = NoCrawl
    /\ fullRun' = IF crawl.kind = "full" THEN [fullRun EXCEPT !.status = outcome]
                  ELSE fullRun

FinishCrawl ==
    /\ Crawling("fetch") /\ crawl.todo = {} /\ ToManifest = {}
    /\ FinishedAs("completed")
    /\ UNCHANGED <<siteVars, pageTable, resources, limited, recordVars, fileVars, faults,
                   changes>>

-----------------------------------------------------------------------------
(* Failures.  An error ends the crawl as failed, a kill leaves it running    *)
(* in the table.                                                             *)

(* A page of the batch is gone: its answer has no title. *)
MeetGonePage ==
    /\ Crawling("fetch") /\ \E p \in crawl.todo : wiki[p].kind = "gone"
    /\ FinishedAs("failed")
    /\ UNCHANGED <<siteVars, pageTable, resources, limited, recordVars, fileVars, faults,
                   changes>>

StopCrawl ==
    /\ crawl # NoCrawl /\ faults < MaxFaults
    /\ faults' = faults + 1
    /\ \E outcome \in {"failed", "running"} : FinishedAs(outcome)
    /\ UNCHANGED <<siteVars, pageTable, resources, limited, recordVars, fileVars, changes>>

(* The file a step appends to. *)
Appending ==
    CASE Crawling("scan") /\ ToList # {} -> {"pages"}
      [] Crawling("fetch") /\ crawl.todo # {} -> {"wikitext"}
      [] Crawling("data") -> {"data_pages"}
      [] Crawling("fetch") /\ crawl.todo = {} /\ ToManifest # {} -> {"resources_manifest"}
      [] OTHER -> {}

(* The crawl stops after some buffers of a record have been written. *)
StopInRecord(file) ==
    /\ file \in Appending /\ faults < MaxFaults
    /\ faults' = faults + 1
    /\ unfinished' = unfinished \cup {file} /\ damaged' = damaged \cup {file}
    /\ \E outcome \in {"failed", "running"} : FinishedAs(outcome)
    /\ UNCHANGED <<siteVars, pageTable, resources, limited, recordVars, changes>>

-----------------------------------------------------------------------------
(* The wiki.  Every change of a page is a revision of it, a move too.        *)

ChangePage(p, kind) ==
    /\ changes < MaxChanges /\ changes' = changes + 1
    /\ wiki' = [wiki EXCEPT ![p] = [kind |-> kind, rev |-> @.rev + 1]]
    /\ quiet' = quiet \ {p}
    /\ UNCHANGED <<pageTable, resources, runVars, recordVars, fileVars, crawl, faults>>

Edit(p) ==
    /\ wiki[p].kind = "page" /\ ChangePage(p, "page")
    /\ UNCHANGED settled

(* A page moves in the order of titles, becomes a redirect or is deleted. *)
Leave(p) ==
    /\ wiki[p].kind = "page"
    /\ \E kind \in {"page", "redirect", "gone"} : ChangePage(p, kind)
    /\ settled' = settled \ {p}

Arrive(p) ==
    /\ wiki[p].kind \in {"absent", "redirect"} /\ ChangePage(p, "page")
    /\ UNCHANGED settled

-----------------------------------------------------------------------------

CrawlInit ==
    /\ wiki \in [WikiPages -> {[kind |-> "page", rev |-> 1], [kind |-> "absent", rev |-> 0]}]
    /\ settled = {} /\ quiet = {}
    /\ status = [p \in WikiPages |-> "none"]
    /\ lastrevid = [p \in WikiPages |-> Never]
    /\ fetched = [p \in WikiPages |-> Never]
    /\ listed = [p \in WikiPages |-> Never]
    /\ fullRun = [status |-> "none", scans |-> {}] /\ limited = FALSE
    /\ resources = {} /\ manifest = {} /\ text = {} /\ data = {} /\ relisted = {}
    /\ damaged = {} /\ unfinished = {} /\ crawl = NoCrawl
    /\ faults = 0 /\ changes = 0

Scan ==
    \/ \E ns \in Namespaces : StartScan(ns)
    \/ \E p \in WikiPages : RecordPage(p) \/ IndexPage(p)
    \/ EndScan

Fetch ==
    \/ StartFetch \/ MeetGonePage
    \/ \E p \in WikiPages : FetchText(p) \/ FetchData(p) \/ MarkFetched(p)
    \/ \E f \in WikiFiles : RecordFile(f) \/ UpsertFile(f)
    \/ FinishCrawl

CrawlNext ==
    \/ \E kind \in {"full", "limited"} : StartCrawl(kind)
    \/ Scan
    \/ Fetch
    \/ StopCrawl
    \/ \E file \in Appending : StopInRecord(file)
    \/ \E p \in WikiPages : Edit(p) \/ Leave(p) \/ Arrive(p)

(* A crawl goes on, and the operator runs full crawls again and again. *)
CrawlFairness ==
    /\ WF_crawlVars(Scan) /\ WF_crawlVars(Fetch)
    /\ SF_crawlVars(StartCrawl("full"))

CrawlSpec == CrawlInit /\ [][CrawlNext]_crawlVars /\ CrawlFairness

-----------------------------------------------------------------------------
(* verify_integrity, the files of resources aside. *)

PagePasses(p) ==
    /\ listed[p] = lastrevid[p] /\ fetched[p] = lastrevid[p]
    /\ <<p, lastrevid[p]>> \in text
    /\ p \in DataPages => <<p, lastrevid[p]>> \in data

IntegrityPasses ==
    /\ damaged = {}
    /\ fullRun.status = "completed" /\ fullRun.scans = Namespaces
    /\ \A p \in WikiPages : status[p] = "active" => PagePasses(p)
    /\ resources \subseteq manifest

(* build_page_revision_join: the revision of a main page the build takes. *)
JoinedRevision(p) == IF <<p, listed[p]>> \in text THEN listed[p] ELSE Never

-----------------------------------------------------------------------------
(* Properties. *)

CrawlTypeOK ==
    /\ \A p \in WikiPages :
          /\ wiki[p].kind \in {"absent", "page", "redirect", "gone"}
          /\ wiki[p].rev \in 0..(MaxChanges + 1)
    /\ settled \subseteq WikiPages /\ quiet \subseteq WikiPages
    /\ status \in [WikiPages -> {"none", "active", "missing"}]
    /\ \A f \in {lastrevid, fetched, listed} : f \in [WikiPages -> Never..(MaxChanges + 1)]
    /\ \A p \in WikiPages : lastrevid[p] = Never <=> status[p] = "none"
    /\ text \cup data \subseteq WikiPages \X (0..(MaxChanges + 1))
    /\ resources \subseteq WikiFiles /\ manifest \subseteq WikiFiles
    /\ unfinished \subseteq damaged
    /\ fullRun.status \in {"none", "running", "completed", "failed"}
    /\ fullRun.scans \subseteq Namespaces
    /\ faults \in 0..MaxFaults /\ changes \in 0..MaxChanges

(* What the state says was fetched is on disk, whenever the crawl was killed *)
(* and resumed: a record is only lost to a file that shows the damage.       *)
FetchedIsRecorded ==
    \A p \in WikiPages : fetched[p] # Never =>
        /\ <<p, fetched[p]>> \in text \/ "wikitext" \in damaged
        /\ p \in DataPages => <<p, fetched[p]>> \in data \/ "data_pages" \in damaged

(* A passing report means the corpus is the wiki: the current revision of a  *)
(* page that has not changed since the full crawl began is recorded, and it  *)
(* is the one the build joins, if it accepts the page.  (Limited crawls can  *)
(* hide a page from the report.)                                             *)
IntegrityMeansCurrent ==
    IntegrityPasses /\ ~limited =>
        \A p \in quiet :
            /\ <<p, wiki[p].rev>> \in text
            /\ p \in DataPages => <<p, wiki[p].rev>> \in data
            /\ p \in MainPages \ relisted => JoinedRevision(p) = wiki[p].rev

(* The records of a crawl and the report on them are true: the two rules     *)
(* above (run_crawl with its state store, verify_integrity and the join).    *)
CorpusTrue == FetchedIsRecorded /\ IntegrityMeansCurrent

(* However crawls are stopped and resumed, a full one in the end leaves a    *)
(* corpus that passes and is current, unless a stop damaged a file.          *)
CorpusConverges ==
    []<>(\/ damaged # {}
         \/ /\ IntegrityPasses
            /\ \A p \in WikiPages :
                  IF p \in Listable THEN status[p] = "active" /\ lastrevid[p] = wiki[p].rev
                  ELSE status[p] # "active")
=============================================================================
