----------------------------- MODULE WikiBrowser -----------------------------
(***************************************************************************)
(* The wiki in the browser: WikiShell (components/wiki/WikiShell.tsx,      *)
(* wikiRoutes.ts, api/wiki.ts) over the pages the server lists, shows and  *)
(* resolves (backend/wiki.py, src/huiji_wiki/repository.py), with answers  *)
(* in any order, failures, an import in between, the history of the        *)
(* browser and reloads.                                                    *)
(*                                                                         *)
(* A page is its number, which is the order of the identifiers, and also   *)
(* its route; route 0 is the selection.  A filter stands for a category    *)
(* and a query.  An answer is computed when it arrives.                    *)
(***************************************************************************)
EXTENDS Orders, SequencesExt

CONSTANTS
    LastPage,      \* pages are 1 .. LastPage
    PageLimit,     \* items of one answer
    MaxWikiMoves,  \* bound of what the user does (checking only, as the next)
    MaxImports     \* bound of the imports

ASSUME WikiAssumption ==
    /\ {LastPage, PageLimit} \subseteq Nat \ {0}
    /\ {MaxWikiMoves, MaxImports} \subseteq Nat

VARIABLES
    pages,      \* the pages of the database
    visited,    \* the entries of the browser's history
    entry,      \* the one that is shown
    place,      \* location: the route WikiShell renders
    shell,      \* its list and its page
    flights,    \* requests whose answer is awaited by somebody
    wikiMoves,
    imports,
    listedAt,   \* the import the list began at (history)
    crossed     \* an answer was taken in a view it was not asked for (history)

browserVars == <<pages, visited, entry, place, shell, flights, wikiMoves, imports,
                 listedAt, crossed>>

Selection == 0
Alias == LastPage + 1      \* an old route, which is resolved to page 1
Filters == {"character", "any", "nothing"}

Matching(filter) ==
    CASE filter = "any" -> pages
      [] filter = "character" -> pages \ {2}
      [] OTHER -> {}

Ordered(filter) == Ascending(Matching(filter))

\* list_pages: the items from an offset, and the next offset when one more row
\* is there; 0 is no cursor.  A cursor is bound to its filter.
Items(filter, offset) ==
    LET all == Ordered(filter)
    IN SubSeq(all, offset + 1, IF Len(all) < offset + PageLimit THEN Len(all)
                               ELSE offset + PageLimit)

Following(filter, offset) ==
    IF Cardinality(Matching(filter)) > offset + PageLimit THEN offset + PageLimit ELSE 0

\* resolve_route, by the last part of the route; by its title likewise.
Resolved(route) == IF route = Alias /\ 1 \in pages THEN 1 ELSE 0

-----------------------------------------------------------------------------
\* The state of an entry: what was selected, or nothing, which is what a page
\* that was reached by its address has.
AtFirst == [filter |-> "character", selected |-> 0]
NoSelection == [filter |-> "none", selected |-> 0]
Entry(route, selection) == [route |-> route, selection |-> selection]

Shell0(state) ==
    LET selection == IF state = NoSelection THEN AtFirst ELSE state
    IN [filter |-> selection.filter, selected |-> selection.selected, list |-> <<>>,
        cursor |-> 0, listLoading |-> FALSE, more |-> FALSE, failed |-> FALSE,
        page |-> 0, loading |-> FALSE]

\* A request for the items of a filter from an offset on, and one for a page.
Listing(kind, filter, offset) ==
    [kind |-> kind, filter |-> filter, at |-> offset, step |-> "direct", current |-> TRUE]

Reading(kind, route) == Listing(kind, "any", route)

SelectionOf(s) == [filter |-> s.filter, selected |-> s.selected]

Of(kinds) == {f \in flights : f.kind \in kinds}

-----------------------------------------------------------------------------
(* The effects of a change, in their order.  A step of the page is the      *)
(* handler and the effects its changes of the state cause.                  *)

\* The abort alone, which does not reach the items of a cursor.
AbortedList == Of({"list"})

\* What a new list is the end of: the first items are aborted, those of a
\* cursor are of an older generation.
SupersededList == Of({"list", "more"})

ListEffect(s) ==
    [s EXCEPT !.list = <<>>, !.cursor = 0, !.failed = FALSE, !.listLoading = TRUE,
              !.more = FALSE]

\* selectedPage is forgotten; without a selection nothing is asked, and the
\* loading of what was asked before is not ended.
PreviewEffect(s) ==
    [s EXCEPT !.page = 0, !.loading = IF s.selected = 0 THEN @ ELSE TRUE]

PreviewFlights(s) ==
    IF s.selected = 0 THEN {} ELSE {Reading("preview", s.selected)}

DetailEffect(s) == [s EXCEPT !.page = 0, !.loading = TRUE]

Outdated == {[f EXCEPT !.current = FALSE] : f \in Of({"detail"})}

\* The entry that is shown gets another route, or another selection.
Replaced(at, route, selection) == [visited EXCEPT ![at] = Entry(route, selection)]

\* In the selection: s is the state after the handler.
Reselect(s, relist) ==
    LET listed == IF relist THEN ListEffect(s) ELSE s
        preview == s.selected # shell.selected \/ place # Selection
        dropped == (IF relist THEN SupersededList ELSE {})
                       \cup (IF preview THEN Of({"preview"}) ELSE {})
    IN /\ shell' = IF preview THEN PreviewEffect(listed) ELSE listed
       /\ flights' = (flights \ dropped)
              \cup (IF relist THEN {Listing("list", s.filter, 0)} ELSE {})
              \cup (IF preview THEN PreviewFlights(s) ELSE {})
       /\ listedAt' = IF relist THEN imports ELSE listedAt

EnterSelection(s) == place' = Selection /\ Reselect(s, TRUE)

EnterDetail(route) ==
    /\ place' = route
    /\ shell' = DetailEffect(shell)
    /\ flights' = (flights \ Of({"list", "detail"})) \cup Outdated
                      \cup {Reading("detail", route)}
    /\ UNCHANGED listedAt

Moves ==
    /\ wikiMoves < MaxWikiMoves
    /\ wikiMoves' = wikiMoves + 1
    /\ UNCHANGED <<pages, imports, crossed>>

-----------------------------------------------------------------------------
(* What the user does.                                                     *)

ChooseFilter(filter) ==
    /\ place = Selection /\ filter # shell.filter
    /\ Reselect([shell EXCEPT !.filter = filter], TRUE)
    /\ visited' = Replaced(entry, Selection, SelectionOf(shell'))
    /\ UNCHANGED <<entry, place>>

SelectPage(p) ==
    /\ place = Selection /\ p # shell.selected
    /\ Reselect([shell EXCEPT !.selected = p], FALSE)
    /\ visited' = Replaced(entry, Selection, SelectionOf(shell'))
    /\ UNCHANGED <<entry, place>>

LoadMore ==
    /\ place = Selection /\ shell.cursor # 0 /\ ~shell.more
    /\ shell' = [shell EXCEPT !.more = TRUE]
    /\ flights' = flights \cup {Listing("more", shell.filter, shell.cursor)}
    /\ UNCHANGED <<visited, entry, place, listedAt>>

\* retryList, when there is no cursor to go on from.
RetryList ==
    /\ place = Selection /\ shell.failed
    /\ shell.list = <<>> \/ shell.cursor = 0
    /\ Reselect(shell, TRUE)
    /\ UNCHANGED <<visited, entry, place>>

OpenDetail ==
    /\ place = Selection
    /\ shell.selected \in ToSet(shell.list)
    /\ visited' = Append(SubSeq(visited, 1, entry), Entry(shell.selected, SelectionOf(shell)))
    /\ entry' = entry + 1
    /\ EnterDetail(shell.selected)

\* handlePopState, of Back and Forward: the location is that of the entry.
Travel(to) ==
    /\ to \in DOMAIN visited \ {entry}
    /\ entry' = to
    /\ UNCHANGED visited
    /\ LET e == visited[to]
           restored == [shell EXCEPT !.filter = e.selection.filter,
                                     !.selected = e.selection.selected]
       IN IF e.route = Selection
          THEN IF place = Selection
               THEN Reselect(restored, restored.filter # shell.filter) /\ UNCHANGED place
               ELSE EnterSelection(restored)
          ELSE EnterDetail(e.route)

\* returnToSelection on a page that was reached by its address; elsewhere it
\* is Back.
ReturnToSelection ==
    /\ place # Selection /\ visited[entry].selection = NoSelection
    /\ EnterSelection(shell)
    /\ visited' = Replaced(entry, Selection, SelectionOf(shell))
    /\ UNCHANGED entry

\* A reload mounts WikiShell anew at the address of the entry.
Reload ==
    LET e == visited[entry]
        s == Shell0(e.selection)
    IN /\ place' = e.route
       /\ UNCHANGED <<visited, entry>>
       /\ listedAt' = imports
       /\ IF e.route = Selection
          THEN /\ shell' = PreviewEffect(ListEffect(s))
               /\ flights' = {Listing("list", s.filter, 0)} \cup PreviewFlights(s)
          ELSE /\ shell' = DetailEffect(s)
               /\ flights' = {Reading("detail", e.route)}

-----------------------------------------------------------------------------
(* What arrives.  Every request may fail instead.                          *)

ListArrives(f) ==
    LET items == Items(f.filter, 0)
        kept == IF shell.selected \in ToSet(items) THEN shell.selected
                ELSE IF items = <<>> THEN 0 ELSE Head(items)
        s == [shell EXCEPT !.list = items, !.cursor = Following(f.filter, 0),
                           !.selected = kept, !.listLoading = FALSE]
        preview == kept # shell.selected
    IN /\ f.kind = "list"
       /\ shell' = IF preview THEN PreviewEffect(s) ELSE s
       /\ flights' = (flights \ ({f} \cup (IF preview THEN Of({"preview"}) ELSE {})))
                         \cup (IF preview THEN PreviewFlights(s) ELSE {})
       /\ visited' = IF preview THEN Replaced(entry, Selection, SelectionOf(s)) ELSE visited
       /\ UNCHANGED <<place, crossed>>

\* The items that are not in the list yet.
Unlisted(items) ==
    AtPlaces(items, {i \in DOMAIN items : items[i] \notin ToSet(shell.list)})

MoreArrives(f) ==
    /\ f.kind = "more"
    /\ shell' = [shell EXCEPT
           !.list = @ \o Unlisted(Items(f.filter, f.at)),
           !.cursor = Following(f.filter, f.at), !.failed = FALSE, !.more = FALSE]
    /\ flights' = flights \ {f}
    /\ UNCHANGED <<visited, place, crossed>>

PreviewArrives(f) ==
    /\ f.kind = "preview" /\ f.at \in pages
    /\ shell' = [shell EXCEPT !.page = f.at, !.loading = FALSE]
    /\ flights' = flights \ {f}
    /\ crossed' = (crossed \/ place \notin {Selection, f.at})
    /\ UNCHANGED <<visited, place>>

\* acceptPage: in the selection the page becomes the selected one, and the
\* address, which was put right before, is again that of the selection when
\* this is a change.
Accept(f, p) ==
    LET s == [shell EXCEPT !.page = p, !.selected = p, !.loading = FALSE]
        reselected == place = Selection /\ p # shell.selected
    IN /\ crossed' = (crossed \/ place = Selection)
       /\ shell' = IF reselected THEN [PreviewEffect(s) EXCEPT !.loading = FALSE] ELSE s
       /\ flights' = (flights \ ({f} \cup (IF reselected THEN Of({"preview"}) ELSE {})))
                         \cup (IF reselected THEN PreviewFlights(s) ELSE {})
       /\ visited' = IF reselected THEN Replaced(entry, Selection, SelectionOf(s))
                     ELSE [visited EXCEPT ![entry].route = p]

\* The page of a route; unless it is not found, and the route has something to
\* resolve.
DetailArrives(f) ==
    /\ f.kind = "detail" /\ f.step \in {"direct", "target"}
    /\ f.at \in pages
    /\ IF f.current THEN Accept(f, f.at)
       ELSE flights' = flights \ {f} /\ UNCHANGED <<shell, visited, crossed>>
    /\ UNCHANGED place

DetailIsMissing(f) ==
    /\ f.kind = "detail" /\ f.step = "direct"
    /\ f.at \notin pages
    /\ flights' = (flights \ {f}) \cup {[f EXCEPT !.step = "resolve"]}
    /\ UNCHANGED <<shell, visited, place, crossed>>

\* The address is replaced at once, whatever is shown by then.
DetailIsResolved(f) ==
    /\ f.kind = "detail" /\ f.step = "resolve"
    /\ Resolved(f.at) # 0
    /\ visited' = [visited EXCEPT ![entry].route = Resolved(f.at)]
    /\ crossed' = (crossed \/ ~f.current \/ place = Selection)
    /\ flights' = (flights \ {f}) \cup {[f EXCEPT !.at = Resolved(f.at), !.step = "target"]}
    /\ UNCHANGED <<shell, place>>

\* No answer, an error, or a page that is not there.
FlightFails(f) ==
    /\ flights' = flights \ {f}
    /\ shell' = CASE f.kind = "list" -> [shell EXCEPT !.failed = TRUE, !.listLoading = FALSE]
                  [] f.kind = "more" -> [shell EXCEPT !.failed = TRUE, !.more = FALSE]
                  [] f.kind = "preview" \/ (f.kind = "detail" /\ f.current) ->
                         [shell EXCEPT !.loading = FALSE]
                  [] OTHER -> shell
    /\ UNCHANGED <<visited, place, crossed>>

Arrive(f) ==
    /\ \/ ListArrives(f) \/ MoreArrives(f) \/ PreviewArrives(f) \/ DetailArrives(f)
       \/ DetailIsMissing(f) \/ DetailIsResolved(f) \/ FlightFails(f)
    /\ UNCHANGED <<pages, entry, wikiMoves, imports, listedAt>>

\* A formal import installs other pages.
Reimport ==
    /\ imports < MaxImports
    /\ imports' = imports + 1
    /\ \E now \in SUBSET (1 .. LastPage) : now # pages /\ pages' = now
    /\ UNCHANGED <<visited, entry, place, shell, flights, wikiMoves, listedAt, crossed>>

BrowserInit(routes) ==
    /\ pages = 1 .. LastPage
    /\ \E route \in routes :
          /\ visited = <<Entry(route, IF route = Selection THEN AtFirst ELSE NoSelection)>>
          /\ place = route
          /\ shell = IF route = Selection THEN ListEffect(Shell0(AtFirst))
                     ELSE DetailEffect(Shell0(AtFirst))
          /\ flights = {IF route = Selection THEN Listing("list", "character", 0)
                        ELSE Reading("detail", route)}
    /\ entry = 1
    /\ wikiMoves = 0
    /\ imports = 0
    /\ listedAt = 0
    /\ crossed = FALSE

UserMoves ==
    \/ \E filter \in Filters : ChooseFilter(filter)
    \/ \E p \in ToSet(shell.list) : SelectPage(p)
    \/ LoadMore \/ RetryList \/ OpenDetail \/ ReturnToSelection \/ Reload
    \/ \E to \in {entry - 1, entry + 1} : Travel(to)

BrowserNext ==
    \/ Moves /\ UserMoves
    \/ \E f \in flights : Arrive(f)
    \/ Reimport

-----------------------------------------------------------------------------
(* The list is of the filter that is shown, nothing twice, and while the    *)
(* wiki is not imported again nothing is left out before its end.  The      *)
(* address, the view and the page agree, whatever arrived late, unless an   *)
(* answer was taken after its view was left: previews and details are told  *)
(* from later ones of their kind only.  Nothing is said to be loading when  *)
(* nothing is awaited, but by a selection without pages (WikiShell).        *)
WikiShown ==
    /\ IsInjective(shell.list)
    /\ imports = 0 =>
          /\ ToSet(shell.list) \subseteq Matching(shell.filter)
          /\ IsPrefix(shell.list, Ordered(shell.filter))
          /\ ~shell.listLoading /\ ~shell.failed /\ place = Selection =>
                (shell.cursor = 0) = (shell.list = Ordered(shell.filter))
    /\ imports = listedAt => IsPrefix(shell.list, Ordered(shell.filter))
    /\ ~crossed =>
          /\ (visited[entry].route = Selection) = (place = Selection)
          /\ shell.page # 0 =>
                IF place = Selection THEN shell.page = shell.selected
                ELSE shell.page = visited[entry].route
    /\ shell.loading /\ place = Selection /\ shell.selected # 0 =>
          \E f \in flights : f.kind \in {"preview", "detail"}

=============================================================================
