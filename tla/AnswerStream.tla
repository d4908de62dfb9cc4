---------------------------- MODULE AnswerStream ----------------------------
(***************************************************************************)
(* One answer from request to page: rag_stream_generator (backend/sse.py)  *)
(* and the synchronous ask handler (backend/main.py) over the conversation *)
(* store, the response stream, and the reader and message of the page      *)
(* (frontend api/sse.ts, store/chatStore.ts).                              *)
(*                                                                         *)
(* The generator is suspended at its yields and awaits.  One action runs   *)
(* it from one to the next; yields with nothing read between them are one  *)
(* action.  Heartbeats and status events change no answer and no state of  *)
(* the page but a label: they are left out.  The store is module           *)
(* ConversationMemory, whose actions are taken as they stand.              *)
(***************************************************************************)
EXTENDS Naturals, Sequences
LOCAL INSTANCE FiniteSets

CONSTANTS
    Requests, Conversations, Objects, None, MaxSessions, MaxTurns, MaxStored,
    MaxProjected, TTL, TurnSizes, MaxClock, MaxClears,
    MaxTokens,  \* bound of the increments of one answer (model checking only)
    MaxCuts     \* bound of the connections that go (same)

ASSUME StreamAssumption == MaxTokens \in Nat /\ MaxCuts \in Nat

VARIABLES
    entries, heap, req, clock, clears,  \* the conversation store
    handler,  \* where the handler of each request stands
    link,     \* the client's connection, and whether the server noticed
    wire,     \* the events sent and not yet read by the page
    page,     \* the assistant message the page shows
    stored,   \* requests whose turn entered a conversation (history)
    sentDone  \* requests whose done event was sent (history)

memory == <<entries, heap, req, clock, clears>>
browser == <<wire, page>>
vars == <<memory, handler, link, browser, stored, sentDone>>

M == INSTANCE ConversationMemory

-----------------------------------------------------------------------------
(* Events, handlers and messages. *)

Event ==
    [event : {"sources", "token", "done"}]
    \cup [event : {"answer_replace"}, answer : {"final", "fallback"}]
    \cup [event : {"error"}, partial : BOOLEAN]

Plain(e) == [event |-> e]
Replace(a) == [event |-> "answer_replace", answer |-> a]
Error(p) == [event |-> "error", partial |-> p]

Terminal(e) == e.event \in {"done", "error"}

\* tokens counts draft_parts; turn tells whether completed_turn is set.
Handler == [stage : {"new", "queued", "sync", "opened", "preparing",
                     "sourced", "generating", "finalizing", "finalized",
                     "delivering", "leaving", "ended"},
            mode : {"none", "generated"}, tokens : 0 .. MaxTokens,
            turn : BOOLEAN]

\* content: nothing, unvalidated increments, the final answer, the safe
\* fallback, or a message about the failure.
Page == [content : {"empty", "draft", "final", "fallback", "message"},
         state : {"idle", "streaming", "finalized", "failed", "cancelled"},
         partial : BOOLEAN]

Blank(state) == [content |-> "empty", state |-> state, partial |-> FALSE]

At(r, stage) == handler[r].stage = stage

Goto(r, stage) == handler' = [handler EXCEPT ![r].stage = stage]

\* A synchronous /ask runs chain.execute on the event loop: nothing else of
\* the server runs until it has answered.
LoopFree == \A r \in Requests : ~At(r, "sync")

Noticed(r) == link[r] = "noticed"

\* What is sent to a client that is gone is dropped.
Send(r, events) ==
    wire' = IF link[r] = "open" THEN [wire EXCEPT ![r] = @ \o events] ELSE wire

MemoryUnchanged == UNCHANGED <<memory, stored>>

\* One run of the generator from one yield to the next.
Yield(r, from, events, to) ==
    /\ LoopFree
    /\ At(r, from)
    /\ Send(r, events)
    /\ Goto(r, to)
    /\ MemoryUnchanged
    /\ UNCHANGED <<link, page, sentDone>>

-----------------------------------------------------------------------------
(* A request arrives, and gets its lease at once, later, or none at all.   *)

Acquired(r, stage) ==
    handler' = [handler EXCEPT ![r].stage =
                   IF req'[r].phase = "waiting" THEN "queued" ELSE stage]

Acquire(r) ==
    \/ \E c \in Conversations : M!Join(r, c) \/ M!Open(r, c)
    \/ \E c \in Conversations \cup {None} : M!Refuse(r, c)

AskStream(r) ==
    /\ LoopFree
    /\ At(r, "new")
    /\ Acquire(r)
    /\ Acquired(r, "opened")
    /\ page' = [page EXCEPT ![r] = Blank("streaming")]
    /\ UNCHANGED <<link, wire, stored, sentDone>>

\* The synchronous form: no events, one response.
Ask(r) ==
    /\ LoopFree
    /\ At(r, "new")
    /\ Acquire(r)
    /\ Acquired(r, "sync")
    /\ UNCHANGED <<link, browser, stored, sentDone>>

Granted(r) ==
    /\ LoopFree
    /\ At(r, "queued")
    /\ M!Wake(r)
    /\ Goto(r, IF page[r].state = "idle" THEN "sync" ELSE "opened")
    /\ UNCHANGED <<link, browser, stored, sentDone>>

\* The client of a queued request leaves: its task is cancelled in acquire.
Withdrawn(r) ==
    /\ LoopFree
    /\ At(r, "queued")
    /\ Noticed(r)
    /\ M!CancelWait(r)
    /\ Goto(r, "ended")
    /\ UNCHANGED <<link, browser, stored, sentDone>>

-----------------------------------------------------------------------------
(* release_lease in the finally clauses.                                   *)

LeaseCurrent(r) ==
    /\ req[r].phase = "holding"
    /\ entries[req[r].conv] = req[r].entry
    /\ heap[req[r].entry].generation = req[r].expected

Release(r, turn) ==
    /\ \/ M!Finish(r)
       \/ IF turn THEN M!Complete(r) ELSE M!Fail(r)
    /\ stored' = [stored EXCEPT ![r] = turn /\ LeaseCurrent(r)]
    /\ Goto(r, "ended")

\* chain.execute on the loop: an answer that can be committed, or not.
AnswerSync(r) ==
    /\ At(r, "sync")
    /\ \E turn \in BOOLEAN : Release(r, turn)
    /\ UNCHANGED <<link, browser, sentDone>>

\* The generator returns.
Leave(r) ==
    /\ LoopFree
    /\ At(r, "leaving")
    /\ Release(r, handler[r].turn)
    /\ UNCHANGED <<link, browser, sentDone>>

Live(r) == handler[r].stage \notin {"new", "queued", "sync", "leaving", "ended"}

\* Mutant of Abandon: the generator has no finally clause.
AbandonLeaking(r) ==
    /\ LoopFree
    /\ Live(r)
    /\ Noticed(r)
    /\ Goto(r, "ended")
    /\ MemoryUnchanged
    /\ UNCHANGED <<link, browser, sentDone>>

\* The server learned that the client is gone: a check of is_disconnected
\* returns, or the task is cancelled or the generator closed where it is
\* suspended.  Either way its finally clause releases what it has.
Abandon(r) ==
    /\ LoopFree
    /\ Live(r)
    /\ Noticed(r)
    /\ Release(r, handler[r].turn)
    /\ UNCHANGED <<link, browser, sentDone>>

-----------------------------------------------------------------------------
(* The stages of rag_stream_generator.  Every stage but the delivery of     *)
(* done begins with a check of is_disconnected.                            *)

Retrieve(r) == ~Noticed(r) /\ Yield(r, "opened", <<>>, "preparing")

PrepareFails(r) ==
    ~Noticed(r) /\ Yield(r, "preparing", <<Error(FALSE)>>, "leaving")

Prepared(r) ==
    /\ LoopFree
    /\ At(r, "preparing")
    /\ ~Noticed(r)
    /\ \E mode \in {"none", "generated"} :
          handler' = [handler EXCEPT ![r].mode = mode, ![r].stage = "sourced"]
    /\ Send(r, <<Plain("sources")>>)
    /\ MemoryUnchanged
    /\ UNCHANGED <<link, page, sentDone>>

\* No text to generate: the immediate answer is finalized.
SkipGeneration(r) ==
    handler[r].mode = "none" /\ Yield(r, "sourced", <<>>, "finalizing")

Generate(r) ==
    /\ handler[r].mode = "generated"
    /\ ~Noticed(r)
    /\ Yield(r, "sourced", <<>>, "generating")

Token(r) ==
    /\ LoopFree
    /\ At(r, "generating")
    /\ ~Noticed(r)
    /\ handler[r].tokens < MaxTokens
    /\ handler' = [handler EXCEPT ![r].tokens = @ + 1]
    /\ Send(r, <<Plain("token")>>)
    /\ MemoryUnchanged
    /\ UNCHANGED <<link, page, sentDone>>

GenerateFails(r) ==
    /\ ~Noticed(r)
    /\ Yield(r, "generating",
             <<Error(handler[r].tokens > 0)>>, "leaving")

Generated(r) ==
    ~Noticed(r) /\ Yield(r, "generating", <<>>, "finalizing")

FinalizeFails(r) ==
    LET hidden == IF handler[r].tokens > 0 THEN <<Replace("fallback")>> ELSE <<>>
    IN  /\ ~Noticed(r)
        /\ Yield(r, "finalizing",
                 hidden \o <<Error(FALSE)>>, "leaving")

\* The packet is frozen; the page is corrected when its draft differs.
Finalized(r) ==
    /\ ~Noticed(r)
    /\ \/ Yield(r, "finalizing", <<>>, "finalized")
       \/ /\ handler[r].mode = "generated"
          /\ Yield(r, "finalizing",
                   <<Replace("final")>>, "finalized")

\* Mutant of Broken: the turn is built before the packet is validated.
BrokenAfterTurn(r) ==
    /\ LoopFree
    /\ At(r, "finalizing")
    /\ handler' = [handler EXCEPT ![r].turn = TRUE, ![r].stage = "leaving"]
    /\ MemoryUnchanged
    /\ UNCHANGED <<link, browser, sentDone>>

\* AskResponse.model_validate refuses the packet: the generator raises, the
\* stream ends without a terminal event.
Broken(r) == Yield(r, "finalizing", <<>>, "leaving")

\* completed_turn is set (None when the outcome cannot be committed), then
\* done is yielded: Starlette has the event, and has not sent it yet.
Deliver(r) ==
    /\ LoopFree
    /\ At(r, "finalized")
    /\ ~Noticed(r)
    /\ \E turn \in BOOLEAN :
          handler' = [handler EXCEPT ![r].turn = turn, ![r].stage = "delivering"]
    /\ MemoryUnchanged
    /\ UNCHANGED <<link, browser, sentDone>>

\* The event is sent and the generator resumes after its last yield.
Delivered(r) ==
    /\ LoopFree
    /\ At(r, "delivering")
    /\ Send(r, <<Plain("done")>>)
    /\ sentDone' = [sentDone EXCEPT ![r] = TRUE]
    /\ Goto(r, "leaving")
    /\ MemoryUnchanged
    /\ UNCHANGED <<link, page>>

Stream(r) ==
    \/ Retrieve(r)
    \/ PrepareFails(r)
    \/ Prepared(r)
    \/ SkipGeneration(r)
    \/ Generate(r)
    \/ Token(r)
    \/ GenerateFails(r)
    \/ Generated(r)
    \/ FinalizeFails(r)
    \/ Finalized(r)
    \/ Broken(r)
    \/ Deliver(r)
    \/ Delivered(r)

-----------------------------------------------------------------------------
(* The page: streamAsk dispatches one event after the other to the message. *)

Failed(m, partial) ==
    [m EXCEPT !.content = IF partial THEN m.content ELSE "message",
              !.state = "failed", !.partial = partial]

Shown(m, e) ==
    CASE e.event = "token" -> [m EXCEPT !.content = "draft"]
      [] e.event = "answer_replace" -> [m EXCEPT !.content = e.answer]
      [] e.event = "done" ->
            [content |-> "final", state |-> "finalized", partial |-> FALSE]
      [] e.event = "error" -> Failed(m, e.partial)
      [] OTHER -> m

Read(r) ==
    /\ page[r].state = "streaming"
    /\ wire[r] # <<>>
    /\ page' = [page EXCEPT ![r] = Shown(@, Head(wire[r]))]
    /\ wire' = [wire EXCEPT ![r] = Tail(@)]
    /\ UNCHANGED <<memory, handler, link, stored, sentDone>>

\* Mutant of ReadEnd: an end without any content is not reported.
ReadEndWithContent(r) ==
    /\ page[r].state = "streaming"
    /\ page[r].content # "empty"
    /\ wire[r] = <<>>
    /\ link[r] = "open"
    /\ At(r, "ended")
    /\ page' = [page EXCEPT ![r] = Failed(@, TRUE)]
    /\ UNCHANGED <<memory, handler, link, wire, stored, sentDone>>

\* The stream ended without a terminal event (receivedContent: partial).
ReadEnd(r) ==
    /\ page[r].state = "streaming"
    /\ wire[r] = <<>>
    /\ link[r] = "open"
    /\ At(r, "ended")
    /\ page' = [page EXCEPT ![r] =
                   Failed(@, @.content \in {"draft", "final", "fallback"})]
    /\ UNCHANGED <<memory, handler, link, wire, stored, sentDone>>

\* The connection goes: the user stops the answer (or asks for a new
\* conversation), or the network fails under the reader.
Disconnect(r) ==
    /\ page[r].state = "streaming"
    /\ link[r] = "open"
    /\ Cardinality({q \in Requests : link[q] # "open"}) < MaxCuts
    /\ link' = [link EXCEPT ![r] = "cut"]
    /\ wire' = [wire EXCEPT ![r] = <<>>]
    /\ \/ page' = [page EXCEPT ![r].state = "cancelled"]
       \/ page' = [page EXCEPT ![r] = Failed(@, FALSE)]
    /\ UNCHANGED <<memory, handler, stored, sentDone>>

Notice(r) ==
    /\ link[r] = "cut"
    /\ link' = [link EXCEPT ![r] = "noticed"]
    /\ UNCHANGED <<memory, handler, browser, stored, sentDone>>

\* DELETE /conversations/{id}, and time.
Elsewhere ==
    /\ LoopFree
    /\ M!Tick \/ \E c \in Conversations : M!Clear(c)
    /\ UNCHANGED <<handler, link, browser, stored, sentDone>>

-----------------------------------------------------------------------------
Init ==
    /\ M!Init
    /\ handler = [r \in Requests |-> [stage |-> "new", mode |-> "none",
                                      tokens |-> 0, turn |-> FALSE]]
    /\ link = [r \in Requests |-> "open"]
    /\ wire = [r \in Requests |-> <<>>]
    /\ page = [r \in Requests |-> Blank("idle")]
    /\ stored = [r \in Requests |-> FALSE]
    /\ sentDone = [r \in Requests |-> FALSE]

Serve(r) ==
    \/ Granted(r)
    \/ Withdrawn(r)
    \/ AnswerSync(r)
    \/ Stream(r)
    \/ Abandon(r)
    \/ Leave(r)

Next ==
    \/ \E r \in Requests : \/ AskStream(r) \/ Ask(r) \/ Serve(r)
                           \/ Read(r) \/ ReadEnd(r)
                           \/ Disconnect(r) \/ Notice(r)
    \/ Elsewhere

\* The event loop runs every task that can run, the worker threads and the
\* model return, the network delivers, and the reader reads.
Fairness ==
    \A r \in Requests : /\ WF_vars(Serve(r))
                        /\ WF_vars(Read(r) \/ ReadEnd(r))

Spec == Init /\ [][Next]_vars /\ Fairness

-----------------------------------------------------------------------------
(* Properties. *)

\* Handlers, connections, events and messages have the shape the code gives.
TypeOK ==
    /\ handler \in [Requests -> Handler]
    /\ link \in [Requests -> {"open", "cut", "noticed"}]
    /\ \A r \in Requests : \A i \in DOMAIN wire[r] : wire[r][i] \in Event
    /\ page \in [Requests -> Page]
    /\ stored \in [Requests -> BOOLEAN]
    /\ sentDone \in [Requests -> BOOLEAN]

\* A stream has at most one terminal event and nothing after it, and no
\* unvalidated increment follows the answer that replaces the draft.
StreamOrder ==
    \A r \in Requests :
        /\ page[r].state \in {"finalized", "failed"} => wire[r] = <<>>
        /\ \A i, j \in DOMAIN wire[r] : i < j =>
              /\ ~Terminal(wire[r][i])
              /\ wire[r][i].event = "answer_replace" => wire[r][j].event # "token"

\* Unvalidated increments that stay on the page are marked as such: the
\* answer was stopped by the user or the message says it is partial.
DraftIsMarked ==
    \A r \in Requests :
        page[r].content = "draft" =>
            \/ page[r].state \in {"streaming", "cancelled"}
            \/ page[r].state = "failed" /\ page[r].partial

\* A request whose stream carries an error, sent or shown, stores no turn.
FailedNotStored ==
    \A r \in Requests :
        (\/ \E i \in DOMAIN wire[r] : wire[r][i].event = "error"
         \/ page[r].state = "failed" /\ link[r] = "open")
        => ~stored[r]

\* What the reader of a stream relies on: well-formed events and messages in
\* the order above, no draft that passes for an answer, and no turn of a
\* request that failed (rag_stream_generator, streamAsk and the store of the
\* page).
StreamContract == TypeOK /\ StreamOrder /\ DraftIsMarked /\ FailedNotStored

\* A streamed request whose done event was not sent stores no turn
\* (MEMORY-P0-09).  The code builds the turn before it yields done, and a
\* generator closed at that yield stores it.
TurnOnlyAfterDone ==
    \A r \in Requests : stored[r] /\ page[r].state # "idle" => sentDone[r]

\* The handlers use the store as its specification demands: they take only
\* its steps, and, whichever way a stream ends, every lease is released and
\* every waiter gets its turn: the fairness ConversationMemory assumes of its
\* callers is what these callers provide.
KeepsMemoryContract == M!Spec

\* Every answer the page waits for ends: final, failed or cancelled.
PageSettles ==
    \A r \in Requests : []<>(page[r].state # "streaming")

=============================================================================
