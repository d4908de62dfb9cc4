----------------------------- MODULE Components -----------------------------
(***************************************************************************)
(* The components that share no state with one another, in one module for  *)
(* the model checker: a behaviour is one of the bootstrap of generation    *)
(* zero, of the crawler, of the wiki database, of the publication of       *)
(* images or of a composite request, as part says, and leaves the other    *)
(* components where they start.                                            *)
(***************************************************************************)
EXTENDS GenerationZero, Crawl, WikiImport, Publication, CompositeAnswer

VARIABLE part        \* the component this behaviour is about

vars == <<part, gzVars, crawlVars, wikiVars, publicationVars, answerVars>>

Init ==
    /\ part \in {"bootstrap", "crawl", "wiki", "publication", "answer"}
    /\ GZInit /\ CrawlInit /\ WikiInit /\ PublicationInit /\ AnswerInit
    /\ part # "crawl" => \A p \in WikiPages : wiki[p].kind = "absent"
    /\ part # "answer" => /\ ~free /\ ~ready /\ forced = 0
                          /\ plan = [t \in 1..2 |-> [kind |-> "local", needs |-> {}]]

InBootstrap(action) ==
    /\ part = "bootstrap" /\ action
    /\ UNCHANGED <<part, crawlVars, wikiVars, publicationVars, answerVars>>
InCrawl(action) ==
    /\ part = "crawl" /\ action
    /\ UNCHANGED <<part, gzVars, wikiVars, publicationVars, answerVars>>
InWiki(action) ==
    /\ part = "wiki" /\ action
    /\ UNCHANGED <<part, gzVars, crawlVars, publicationVars, answerVars>>
InPublication(action) ==
    /\ part = "publication" /\ action
    /\ UNCHANGED <<part, gzVars, crawlVars, wikiVars, answerVars>>
InAnswer(action) ==
    /\ part = "answer" /\ action
    /\ UNCHANGED <<part, gzVars, crawlVars, wikiVars, publicationVars>>

Next ==
    \/ InBootstrap(GZNext) \/ InCrawl(CrawlNext) \/ InWiki(WikiNext)
    \/ InPublication(PublicationNext) \/ InAnswer(AnswerNext)

ASSUME TwoBootstraps == Cardinality(Bootstraps) = 2

FirstBootstrap == CHOOSE b \in Bootstraps : TRUE

(* The fairness of each component, in its own behaviours.  part is constant, *)
(* so fairness of a disjunction is fairness of each disjunct; conditions of  *)
(* different components share one, which is what makes the check quick.      *)
Fairness ==
    \A other \in Bootstraps \ {FirstBootstrap} :
        /\ WF_vars(\/ InBootstrap(Proceed(FirstBootstrap)) \/ InCrawl(Scan)
                   \/ InWiki(ToolSteps) \/ InPublication(Answered("publish")))
        /\ WF_vars(\/ InBootstrap(Proceed(other)) \/ InCrawl(Fetch)
                   \/ InPublication(Answered("backfill")))
        /\ SF_vars(\/ InBootstrap(Repair(FirstBootstrap)) \/ InCrawl(StartCrawl("full"))
                   \/ InWiki(StartImport) \/ InPublication(StartPublication))
        /\ SF_vars(\/ InBootstrap(Repair(other)) \/ InWiki(refused /\ StartRestore)
                   \/ InPublication(StartBackfill))
        /\ SF_vars(InPublication(RemoveTag))

Spec == Init /\ [][Next]_vars /\ Fairness

-----------------------------------------------------------------------------
\* Every component keeps the types of its variables, what the crawler recorded
\* is in its files, and a composite answer cites what was found and spares the
\* branches beside a failed one (crawler.py, state.py; execution.py).
ComponentsSound ==
    /\ GZTypeOK /\ CrawlTypeOK /\ WikiTypeOK /\ PublicationTypeOK /\ AnswerTypeOK
    /\ CorpusTrue
    /\ AnswerContract

\* The corpus converges in the behaviours of the crawler.
CrawlConverges == part = "crawl" => CorpusConverges

\* A commit is released in the behaviours of the publication.
CommitReleased == part = "publication" => ReleaseCompletes
=============================================================================
