----------------------------- MODULE CorpusBuild -----------------------------
(***************************************************************************)
(* A corpus candidate and its activation review: HuijiCorpusBuilder        *)
(* (src/huiji_rag/build/orchestrator.py, artifact_writer.py,               *)
(* source_inventory.py, page_sources.py) and the commands of               *)
(* scripts/build_huiji_corpus.py.  Several runs may build one version,     *)
(* each with a run directory of its own, while a crawl goes on and its     *)
(* snapshot may be recovered.                                              *)
(*                                                                         *)
(* A file of the crawl is the number of its writes, 0 again when           *)
(* snapshot_recovery puts its copy back.  Projections, gates and hashes    *)
(* are pure functions of what was read; of what they find only the state   *)
(* of the candidate is kept.  A file is read in one step, or written in    *)
(* the middle of it, which its signature shows.                            *)
(***************************************************************************)
EXTENDS Naturals, Sequences, FiniteSets

CONSTANTS
    CorpusRuns,     \* runs of the candidate command, all for one version
    Proposals,      \* runs of the proposal command, all with one id
    MaxCrawls,      \* bound of the writes of the crawl (model checking only)
    MaxRecoveries,  \* bound of recoveries of the snapshot (same)
    MaxCorpusFaults \* bound of kills and failed writes (same)

ASSUME CorpusAssumption ==
    MaxCrawls \in Nat /\ MaxRecoveries \in Nat /\ MaxCorpusFaults \in Nat

VARIABLES
    raw,          \* the four files of the crawl
    builder,      \* where each run of candidate stands
    corpus,       \* the build root of the version
    outcome,      \* candidate_result.v1.json in the run directory of each run
    activePointer,\* active_build.v1.json: generation zero's, or a later one
    proposer,     \* where each run of proposal stands
    review,       \* the directory of the proposal
    corpusFaults,
    crawls,
    recoveries,
    movedBack     \* whether a file was put back during a build (history)

corpusVars == <<raw, builder, corpus, outcome, activePointer, proposer, review,
                corpusFaults, crawls, recoveries, movedBack>>

RawFiles == {"pages", "wikitext", "data", "resources"}

\* capture_corpus_source_inventory, and its repetition at the end.
InventoryOrder == <<"pages", "wikitext", "data", "resources">>

\* The join of pages and revisions, the data pages, the text of the joined
\* revisions, the resources.
StreamOrder4 == <<"pages", "wikitext", "data", "wikitext", "resources">>

Unread == [f \in RawFiles |-> {}]
States == {"ready", "diagnostic", "blocked"}

NoCorpus == [by |-> {}, files |-> {}, state |-> "none", inventory |-> Unread,
             rows |-> Unread]

\* inventory and rows: the writes of each file that the hashes and the rows
\* come from; left: the files still to be read.
Builder0 == [pc |-> "idle", left |-> <<>>, inventory |-> Unread, rows |-> Unread,
             state |-> "none"]

BuilderAt(b, pc) == builder[b].pc = pc
BuilderTo(b, pc) == builder' = [builder EXCEPT ![b].pc = pc]

\* A run that is over has no more use for what it read.
BuilderGone(b, pc) == builder' = [builder EXCEPT ![b] = [Builder0 EXCEPT !.pc = pc]]

InputsKept == UNCHANGED <<raw, activePointer, crawls, recoveries, movedBack>>
ReviewKept == UNCHANGED <<proposer, review>>
CorpusKept == UNCHANGED <<corpus, outcome, corpusFaults>>

CorpusFault ==
    /\ corpusFaults < MaxCorpusFaults
    /\ corpusFaults' = corpusFaults + 1

-----------------------------------------------------------------------------
(* validate_request, and the run directory.  The version is neither dev nor *)
(* the configured one; it is the active one only once it was built.         *)
StartBuild(b) ==
    /\ BuilderAt(b, "idle")
    /\ BuilderTo(b, IF corpus.by = {} THEN "gate" ELSE "refused")
    /\ InputsKept /\ CorpusKept /\ ReviewKept

Ends(b, state) ==
    /\ BuilderGone(b, "ended")
    /\ outcome' = [outcome EXCEPT ![b] = state]

\* _write_prebuild_blocked_result; it may name the manifest of another run.
Blocked(b) == Ends(b, "blocked")

\* validate_recovery_gate, with the fidelity baseline and its active rows:
\* data_pages is what the recovery put there.
PassGate(b) ==
    /\ BuilderAt(b, "gate")
    /\ \/ /\ raw["data"] = 0
          /\ builder' = [builder EXCEPT ![b].pc = "inventory", ![b].left = InventoryOrder]
          /\ UNCHANGED outcome
       \/ Blocked(b)
    /\ InputsKept /\ ReviewKept /\ UNCHANGED <<corpus, corpusFaults>>

AfterReading == [inventory |-> "streams", streams |-> "judge", verify |-> "fingerprint"]

\* What is left to read after this phase has read its files.
Afterwards(pc) == IF pc = "inventory" THEN StreamOrder4 ELSE <<>>

ReadNext(b) ==
    LET f == Head(builder[b].left)
        rest == Tail(builder[b].left)
        part == IF BuilderAt(b, "inventory") THEN "inventory" ELSE "rows"
        read == IF BuilderAt(b, "verify") THEN builder[b]
                ELSE [builder[b] EXCEPT ![part][f] = @ \cup {raw[f]}]
    IN builder' = [builder EXCEPT ![b] =
           IF rest # <<>> THEN [read EXCEPT !.left = rest]
           ELSE [read EXCEPT !.pc = AfterReading[@], !.left = Afterwards(builder[b].pc)]]

\* A check of the page files alone: what a repetition may leave out.
DriftedPages(b) ==
    LET f == Head(builder[b].left)
    IN /\ BuilderAt(b, "verify")
       /\ f \in {"pages", "wikitext"}
       /\ builder[b].inventory[f] # {raw[f]}

\* verify_corpus_source_inventory compares contents, not times.
Drifted(b) ==
    LET f == Head(builder[b].left)
    IN BuilderAt(b, "verify") /\ builder[b].inventory[f] # {raw[f]}

ReadFile(b) ==
    /\ builder[b].pc \in DOMAIN AfterReading
    /\ \/ /\ ~Drifted(b)
          /\ ReadNext(b)
          /\ UNCHANGED outcome
       \/ /\ Drifted(b)
          /\ Blocked(b)
    /\ InputsKept /\ ReviewKept /\ UNCHANGED <<corpus, corpusFaults>>

Appended(f) ==
    /\ crawls < MaxCrawls
    /\ crawls' = crawls + 1
    /\ raw' = [raw EXCEPT ![f] = @ + 1]

\* The crawl appends to the file that is being read: its size and time are
\* others at the end.
ReadTorn(b) ==
    /\ builder[b].pc \in DOMAIN AfterReading
    /\ Appended(Head(builder[b].left))
    /\ Blocked(b)
    /\ ReviewKept
    /\ UNCHANGED <<corpus, activePointer, recoveries, movedBack, corpusFaults>>

\* Projection, media, the wiki receipt, the bucket's inventory, capacity and
\* fidelity: they fail, or leave blockers, reasons or neither.  What the
\* writer derives (unknown children, the voice gate) is among the blockers.
Judge(b) ==
    /\ BuilderAt(b, "judge")
    /\ \/ /\ \E s \in States :
                builder' = [builder EXCEPT ![b].pc = "verify", ![b].state = s,
                                           ![b].left = InventoryOrder]
          /\ UNCHANGED outcome
       \/ Blocked(b)
    /\ InputsKept /\ ReviewKept /\ UNCHANGED <<corpus, corpusFaults>>

\* capture_code_fingerprint raises what nobody catches: no result is written.
Fingerprint(b) ==
    /\ BuilderAt(b, "fingerprint")
    /\ \/ BuilderTo(b, "create") /\ UNCHANGED corpusFaults
       \/ BuilderGone(b, "dead") /\ CorpusFault
    /\ InputsKept /\ ReviewKept /\ UNCHANGED <<corpus, outcome>>

-----------------------------------------------------------------------------
(* write_candidate_artifacts: the root is created, never reused, and the   *)
(* manifest that lists the other files is written last.                    *)

\* The look at the root and mkdir(exist_ok=False) are as one: whatever is
\* between them, the second of two runs fails.
CreateRoot(b) ==
    /\ BuilderAt(b, "create")
    /\ IF corpus.by = {}
       THEN /\ BuilderTo(b, "artifacts")
            /\ corpus' = [NoCorpus EXCEPT !.by = {b}]
            /\ UNCHANGED outcome
       ELSE Blocked(b) /\ UNCHANGED corpus
    /\ InputsKept /\ ReviewKept /\ UNCHANGED corpusFaults

Writes(b, name, to) ==
    /\ BuilderAt(b, name)
    /\ BuilderTo(b, to)
    /\ corpus' = [corpus EXCEPT !.files = @ \cup {name}]
    /\ InputsKept /\ ReviewKept /\ UNCHANGED <<outcome, corpusFaults>>

WriteArtifacts(b) ==
    /\ BuilderAt(b, "artifacts")
    /\ BuilderTo(b, IF builder[b].state = "ready" THEN "handoff" ELSE "report")
    /\ corpus' = [corpus EXCEPT !.files = @ \cup {"artifacts"}, !.by = @ \cup {b},
                                !.rows = builder[b].rows]
    /\ InputsKept /\ ReviewKept /\ UNCHANGED <<outcome, corpusFaults>>

WriteHandoff(b) == Writes(b, "handoff", "report")
WriteReport(b) == Writes(b, "report", "manifest")

WriteManifest(b) ==
    /\ BuilderAt(b, "manifest")
    /\ builder' = [builder EXCEPT ![b] = [Builder0 EXCEPT !.pc = "check",
                                                        !.state = builder[b].state]]
    /\ corpus' = [corpus EXCEPT !.files = @ \cup {"manifest"}, !.state = builder[b].state,
                                !.inventory = builder[b].inventory]
    /\ InputsKept /\ ReviewKept /\ UNCHANGED <<outcome, corpusFaults>>

\* verify_candidate_manifest: the files are those the manifest lists, and a
\* handoff is among them when the candidate is ready.
Verifies ==
    /\ {"artifacts", "report", "manifest"} \subseteq corpus.files
    /\ (corpus.state = "ready") = ("handoff" \in corpus.files)

CheckRoot(b) ==
    /\ BuilderAt(b, "check")
    /\ IF Verifies THEN BuilderTo(b, "result") /\ UNCHANGED outcome ELSE Blocked(b)
    /\ InputsKept /\ ReviewKept /\ UNCHANGED <<corpus, corpusFaults>>

WriteResult(b) ==
    /\ BuilderAt(b, "result")
    /\ Ends(b, builder[b].state)
    /\ InputsKept /\ ReviewKept /\ UNCHANGED <<corpus, corpusFaults>>

Writing == {"artifacts", "handoff", "report", "manifest"}

\* A write fails (reported as artifact_assembly_invalid), or the run is killed.
WriteFails(b) ==
    /\ builder[b].pc \in Writing
    /\ Blocked(b)
    /\ CorpusFault
    /\ InputsKept /\ ReviewKept /\ UNCHANGED corpus

KillBuild(b) ==
    /\ builder[b].pc \notin {"idle", "ended", "refused", "dead"}
    /\ BuilderGone(b, "dead")
    /\ CorpusFault
    /\ InputsKept /\ ReviewKept /\ UNCHANGED <<corpus, outcome>>

-----------------------------------------------------------------------------
(* The proposal command: the candidate is verified under the hash of its    *)
(* manifest, the evidence is loaded, and a directory is created that holds  *)
(* the protected inventory, the proposal and, when nothing blocks it, the   *)
(* rollback tuple.                                                          *)

Review0 == [by |-> {}, allowed |-> FALSE, tuple |-> FALSE, pointer |-> "none"]

ProposerAt(p, pc) == proposer[p] = pc
ProposerTo(p, pc) == proposer' = [proposer EXCEPT ![p] = pc]
BuildKept == UNCHANGED <<builder, corpus, outcome>>

\* Without evidence of generation zero, or with one it refuses, it ends before
\* anything is written.
VerifyCandidate(p) ==
    /\ ProposerAt(p, "idle")
    /\ ProposerTo(p, IF Verifies /\ review.by = {} THEN "collect" ELSE "ended")
    /\ InputsKept /\ BuildKept /\ UNCHANGED <<review, corpusFaults>>

CreateReview(p) ==
    /\ ProposerAt(p, "collect")
    /\ IF review.by = {}
       THEN ProposerTo(p, "review") /\ review' = [Review0 EXCEPT !.by = {p}]
       ELSE ProposerTo(p, "ended") /\ UNCHANGED review
    /\ InputsKept /\ BuildKept /\ UNCHANGED corpusFaults

\* build_activation_review: the pointer is read here, and must be the one the
\* receipt of generation zero names.  The other evidence is there or not.
WriteProposal(p) ==
    /\ ProposerAt(p, "review")
    /\ \E evidence \in BOOLEAN :
          LET allowed == evidence /\ corpus.state = "ready" /\ activePointer = "zero"
          IN /\ review' = [review EXCEPT !.by = @ \cup {p}, !.allowed = allowed,
                                         !.pointer = activePointer]
             /\ ProposerTo(p, IF allowed THEN "tuple" ELSE "ended")
    /\ InputsKept /\ BuildKept /\ UNCHANGED corpusFaults

WriteTuple(p) ==
    /\ ProposerAt(p, "tuple")
    /\ ProposerTo(p, "ended")
    /\ review' = [review EXCEPT !.tuple = TRUE]
    /\ InputsKept /\ BuildKept /\ UNCHANGED corpusFaults

KillProposal(p) ==
    /\ proposer[p] \notin {"idle", "ended"}
    /\ ProposerTo(p, "ended")
    /\ CorpusFault
    /\ InputsKept /\ BuildKept /\ UNCHANGED review

-----------------------------------------------------------------------------
(* The environment.                                                        *)

CrawlWrites(f) ==
    /\ Appended(f)
    /\ BuildKept /\ ReviewKept
    /\ UNCHANGED <<activePointer, recoveries, movedBack, corpusFaults>>

\* snapshot_recovery replaces data_pages.jsonl by the copy of its manifest.
RecoverSnapshot ==
    /\ recoveries < MaxRecoveries
    /\ raw["data"] # 0
    /\ recoveries' = recoveries + 1
    /\ raw' = [raw EXCEPT !["data"] = 0]
    /\ movedBack' = (movedBack \/ \E b \in CorpusRuns :
                        builder[b].pc \in {"inventory", "streams", "judge", "verify"})
    /\ BuildKept /\ ReviewKept /\ UNCHANGED <<activePointer, crawls, corpusFaults>>

\* apply_activation replaces the pointer, and needs a candidate that is ready.
PointerMoves ==
    /\ activePointer = "zero"
    /\ corpus.state = "ready"
    /\ activePointer' = "later"
    /\ BuildKept /\ ReviewKept
    /\ UNCHANGED <<raw, crawls, recoveries, movedBack, corpusFaults>>

CorpusInit ==
    /\ raw = [f \in RawFiles |-> 0]
    /\ builder = [b \in CorpusRuns |-> Builder0]
    /\ corpus = NoCorpus
    /\ outcome = [b \in CorpusRuns |-> "none"]
    /\ activePointer = "zero"
    /\ proposer = [p \in Proposals |-> "idle"]
    /\ review = Review0
    /\ corpusFaults = 0
    /\ crawls = 0
    /\ recoveries = 0
    /\ movedBack = FALSE

BuildStep(b) ==
    \/ StartBuild(b) \/ PassGate(b) \/ ReadFile(b) \/ ReadTorn(b) \/ Judge(b)
    \/ Fingerprint(b) \/ CreateRoot(b) \/ WriteArtifacts(b) \/ WriteHandoff(b)
    \/ WriteReport(b) \/ WriteManifest(b) \/ CheckRoot(b) \/ WriteResult(b)
    \/ WriteFails(b) \/ KillBuild(b)

ProposalStep(p) ==
    \/ VerifyCandidate(p) \/ CreateReview(p) \/ WriteProposal(p) \/ WriteTuple(p)
    \/ KillProposal(p)

CorpusNext ==
    \/ \E b \in CorpusRuns : BuildStep(b)
    \/ \E p \in Proposals : ProposalStep(p)
    \/ \E f \in RawFiles : CrawlWrites(f)
    \/ RecoverSnapshot
    \/ PointerMoves

CorpusSpec == CorpusInit /\ [][CorpusNext]_corpusVars

-----------------------------------------------------------------------------
(* A root that verifies holds the files of one run, its rows come from the  *)
(* contents its inventory names, each read once or unchanged, and its       *)
(* handoff is there exactly when it is ready; so is what a result or a      *)
(* proposal says of it (build_candidate, verify_candidate_manifest,         *)
(* build_activation_review).  A file that was put back in the middle of the *)
(* build is not noticed: the inventory holds no times.                      *)
CandidateTrue ==
    /\ "manifest" \in corpus.files =>
          /\ Cardinality(corpus.by) = 1
          /\ Verifies
          /\ \A f \in RawFiles : f # "data" \/ ~movedBack =>
                corpus.rows[f] = corpus.inventory[f]
    /\ \A b \in CorpusRuns : outcome[b] \in {"ready", "diagnostic"} =>
          /\ "manifest" \in corpus.files
          /\ corpus.by = {b}
          /\ corpus.state = outcome[b]
    /\ Cardinality(review.by) <= 1
    /\ review.tuple => review.allowed
    /\ review.allowed => review.pointer = "zero" /\ corpus.state = "ready" /\ Verifies

=============================================================================
