------------------------------ MODULE VoicePages ------------------------------
(***************************************************************************)
(* Voice lines page by page: VoicePaginationIndex and VoiceCursorStore of a*)
(* server process (src/assets/voice_pagination.py, the route in            *)
(* backend/main.py) and the panel of a message (VoicePanel.tsx,            *)
(* api/media.ts), while other clients take cursors, answers are late or    *)
(* lost, the process is replaced and the panel is given another page.      *)
(*                                                                         *)
(* The lines of one entity are numbers.  A build is the rows of its media; *)
(* the second build misses the first of them.                              *)
(***************************************************************************)
EXTENDS Orders, SequencesExt

CONSTANTS
    VoiceLines,     \* numbers of the lines
    Languages,      \* in the order in which they are listed
    MaxVoiceRows,   \* rows of the first build (checking only, as the next two)
    MaxAsked,       \* panels that are shown, and requests that are made
    MaxProcesses,   \* server processes, one after the other
    PageLines,      \* lines of a page
    MaxCursors      \* states a store keeps

ASSUME VoiceAssumption ==
    /\ VoiceLines \subseteq Nat \ {0}   \* 0: what another client asks for
    /\ {PageLines, MaxCursors} \subseteq Nat \ {0}
    /\ {MaxVoiceRows, MaxAsked, MaxProcesses} \subseteq Nat

VARIABLES
    voiceRows,   \* rows of the first build, as the registry reads them
    voice,       \* the server process: its build, its store of cursors
    panel,       \* the panel
    calls,       \* requests on their way, and answers
    voiceAsked   \* requests so far

voiceVars == <<voiceRows, voice, panel, calls, voiceAsked>>

-----------------------------------------------------------------------------
(* _build_group_entries: a line has the best variant of each language.     *)

Unplayable == [line |-> 0, language |-> "none", rank |-> 0]

\* rank: the format and then the stable key, the smaller the better.
VoiceRow == [line : VoiceLines, language : Languages, rank : {1, 2}] \cup {Unplayable}

RowsOf(build) == IF build = 1 THEN voiceRows ELSE Tail(voiceRows)

\* _preferred_variant; 0 before the first.
Preferred(current, candidate) ==
    IF current = 0 \/ candidate < current THEN candidate ELSE current

Variant(build, line, language) ==
    FoldLeft(LAMBDA current, row :
                 IF row.line = line /\ row.language = language
                 THEN Preferred(current, row.rank) ELSE current,
             0, RowsOf(build))

Group(build, line) ==
    [line |-> line, build |-> build,
     variants |-> [language \in Languages |-> Variant(build, line, language)]]

\* The lines with a playable variant, by their numbers.
Groups(build) ==
    LET playable == {row.line : row \in ToSet(RowsOf(build)) \ {Unplayable}}
        numbers == Ascending(playable)
    IN [i \in DOMAIN numbers |-> Group(build, numbers[i])]

-----------------------------------------------------------------------------
(* VoiceCursorStore: states, the least recently used first.  A token is     *)
(* secret and never given twice; none is known to another process.          *)

\* Those that something still refers to.
Tokens ==
    {c.token : c \in ToSet(voice.cursors)} \cup {panel.next}
        \cup {c.cursor : c \in calls} \cup {c.page.next : c \in calls}

FreshToken == CHOOSE t \in 1 .. Cardinality(Tokens) + 1 : t \notin Tokens

\* Other clients page through other entities; their states are line 0.
Known(token) == \E c \in ToSet(voice.cursors) : c.token = token

Used(cursors, c) ==
    Append(AtPlaces(cursors, {i \in DOMAIN cursors : cursors[i] # c}), c)

Trimmed(cursors) ==
    IF Len(cursors) > MaxCursors THEN Tail(cursors) ELSE cursors

\* issue: the token of an equal state is given again.
Issue(cursors, line) ==
    LET same == {c \in ToSet(cursors) : c.line = line}
        cursor == IF same # {} THEN CHOOSE c \in same : TRUE
                  ELSE [token |-> FreshToken, line |-> line]
    IN [cursors |-> Trimmed(Used(cursors, cursor)), token |-> cursor.token]

NoPage == [lines |-> <<>>, next |-> 0, more |-> FALSE, build |-> 0]

\* _page: some lines from start on, and the cursor of the last when there are
\* more.  What the process is afterwards, and the page.
Paged(cursors, start) ==
    LET groups == Groups(voice.build)
        lines == SubSeq(groups, start + 1, IF start + PageLines < Len(groups)
                                           THEN start + PageLines ELSE Len(groups))
        more == start + Len(lines) < Len(groups)
        issued == Issue(cursors, Last(lines).line)
        page == [NoPage EXCEPT !.lines = lines, !.build = voice.build]
    IN IF more /\ lines # <<>>
       THEN [process |-> [voice EXCEPT !.cursors = issued.cursors],
             page |-> [page EXCEPT !.next = issued.token, !.more = TRUE]]
       ELSE [process |-> [voice EXCEPT !.cursors = cursors], page |-> page]

-----------------------------------------------------------------------------
(* The panel.  Its generation tells which answer it waits for.             *)

NoPanel == [lines |-> <<>>, next |-> 0, more |-> FALSE, from |-> 0,
            loading |-> FALSE, error |-> "none", generation |-> 0]

\* mergeLines: a line that is there already is not added again.
MergeLines(current, incoming) ==
    LET new == {i \in DOMAIN incoming :
                    \A j \in DOMAIN current : current[j].line # incoming[i].line}
    IN current \o AtPlaces(incoming, new)

\* The answer of a question carries the first page; the panel is mounted with
\* it, or takes it in place of its own.  What was on its way is aborted.
ShowFirstPage ==
    LET first == Paged(voice.cursors, 0)
    IN /\ voiceAsked < MaxAsked
       /\ voiceAsked' = voiceAsked + 1
       /\ Groups(voice.build) # <<>>
       /\ voice' = first.process
       /\ panel' = [NoPanel EXCEPT !.lines = MergeLines(<<>>, first.page.lines),
                        !.next = first.page.next, !.more = first.page.more,
                        !.from = voice.build, !.generation = panel.generation + 1]
       /\ UNCHANGED <<voiceRows, calls>>

\* loadNextPage, of "load more" and of "retry".  After a build mismatch there
\* is only a button that asks again.
LoadNextPage ==
    /\ voiceAsked < MaxAsked
    /\ voiceAsked' = voiceAsked + 1
    /\ ~panel.loading /\ panel.next # 0
    /\ panel.error # "reload-first-page"
    /\ panel' = [panel EXCEPT !.loading = TRUE, !.error = "none", !.generation = @ + 1]
    /\ calls' = calls \cup {[cursor |-> panel.next, build |-> panel.from,
                             generation |-> panel.generation + 1,
                             answer |-> "none", page |-> NoPage]}
    /\ UNCHANGED <<voiceRows, voice>>

Answered(c, answer, page) ==
    calls' = (calls \ {c}) \cup {[c EXCEPT !.answer = answer, !.page = page]}

\* get_page: a cursor of another build, one that is not known, or the lines
\* after its line, which must be there once.
ServePage(c) ==
    /\ c.answer = "none"
    /\ IF c.build # voice.build
       THEN Answered(c, "mismatch", NoPage) /\ UNCHANGED voice
       ELSE IF ~Known(c.cursor)
       THEN Answered(c, "invalid", NoPage) /\ UNCHANGED voice
       ELSE LET cursor == CHOOSE d \in ToSet(voice.cursors) : d.token = c.cursor
                groups == Groups(voice.build)
                at == {i \in DOMAIN groups : groups[i].line = cursor.line}
                next == Paged(Used(voice.cursors, cursor), Max(at))
            IN /\ Answered(c, "page", next.page)
               /\ voice' = next.process
    /\ UNCHANGED <<voiceRows, panel, voiceAsked>>

\* 503 while the chain loads, or the connection breaks, whatever was served.
LosePage(c) ==
    /\ c.answer # "lost"
    /\ Answered(c, "lost", NoPage)
    /\ UNCHANGED <<voiceRows, voice, panel, voiceAsked>>

\* A guard on the panel's waiting at all, in place of the generation.
WaitsForAny(c) == panel.loading

Waits(c) == panel.generation = c.generation

ReceivePage(c) ==
    /\ c.answer # "none"
    /\ calls' = calls \ {c}
    /\ IF ~Waits(c) THEN UNCHANGED panel
       ELSE panel' = CASE c.answer = "page" ->
                            [panel EXCEPT !.lines = MergeLines(@, c.page.lines),
                                !.more = c.page.more, !.next = c.page.next, !.loading = FALSE]
                       [] c.answer = "mismatch" ->
                            [panel EXCEPT !.error = "reload-first-page", !.loading = FALSE]
                       [] OTHER -> [panel EXCEPT !.error = "retry", !.loading = FALSE]
    /\ UNCHANGED <<voiceRows, voice, voiceAsked>>

\* Another client is given a cursor.
OtherClient ==
    LET cursors == Issue(voice.cursors, 0).cursors
    IN /\ cursors # voice.cursors
       /\ voice' = [voice EXCEPT !.cursors = cursors]
       /\ UNCHANGED <<voiceRows, panel, calls, voiceAsked>>

\* A new process, of the same build or of the other.  Cursors that were given
\* out before are unknown to it.
ReplaceProcess ==
    /\ voice.process < MaxProcesses
    /\ \E build \in {1, 2} :
          voice' = [voice EXCEPT !.process = @ + 1, !.build = build, !.cursors = <<>>]
    /\ UNCHANGED <<voiceRows, panel, calls, voiceAsked>>

\* A rank tells rows of one line from each other: the second is used where there
\* are two.
FirstBuilds ==
    {rows \in UNION {[1 .. n -> VoiceRow] : n \in 1 .. MaxVoiceRows} :
        \A i \in DOMAIN rows : rows[i].rank = 2 =>
            \E j \in DOMAIN rows \ {i} : rows[j].line = rows[i].line}

VoiceInit(builds) ==
    /\ voiceRows \in builds
    /\ voice = [build |-> 1, cursors |-> <<>>, process |-> 1]
    /\ panel = NoPanel
    /\ calls = {}
    /\ voiceAsked = 0

VoiceNext ==
    \/ ShowFirstPage \/ LoadNextPage \/ OtherClient \/ ReplaceProcess
    \/ \E c \in calls : ServePage(c) \/ LosePage(c) \/ ReceivePage(c)

-----------------------------------------------------------------------------
(* A panel lists the lines of one build, from the first on, in their order, *)
(* none left out or twice, each with the best variants of its rows,         *)
(* whatever was late, lost, tried again or replaced; it offers no more      *)
(* exactly when it has all of them (VoicePanel, mergeLines, get_page).      *)
VoicesInOrder ==
    panel.from # 0 =>
        LET groups == Groups(panel.from)
        IN /\ IsPrefix(panel.lines, groups)
           /\ panel.more = (panel.lines # groups)
           /\ panel.more = (panel.next # 0)
           /\ \A i \in DOMAIN groups : \A language \in Languages :
                 LET ranks == {row.rank : row \in {r \in ToSet(RowsOf(panel.from)) :
                                   r.line = groups[i].line /\ r.language = language}}
                 IN groups[i].variants[language] = IF ranks = {} THEN 0 ELSE Min(ranks)

=============================================================================
