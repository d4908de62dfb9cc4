---------------------------- MODULE ServingProofs ----------------------------
(***************************************************************************)
(* Proofs about the answer service.  First its answers, for any number of  *)
(* requests, conversations, increments and connections that go: the        *)
(* handlers take only steps of the conversation store's specification, and *)
(* what a reader of a stream relies on holds.  Then its artifacts, for any *)
(* number of generations, writes, faults and starts: what the service says *)
(* of them is true since it was asked, and what it serves was verified.    *)
(***************************************************************************)
EXTENDS Serving, SequenceTheorems, TLAPS

-----------------------------------------------------------------------------
(* The store is left alone, or one of its own operations is called.         *)

LEMMA AcquireIsStep ==
    ASSUME NEW r \in Requests, Acquire(r) PROVE M!Next
  BY DEF Acquire, M!Next, M!Step

LEMMA ReleaseIsStep ==
    ASSUME NEW r \in Requests, NEW turn, Release(r, turn) PROVE M!Next
  BY DEF Release, M!Next, M!Step

LEMMA StreamLeavesStore ==
    ASSUME NEW r \in Requests, Stream(r) PROVE MemoryUnchanged
  BY DEF Stream, Retrieve, PrepareFails, Prepared, SkipGeneration, Generate, Token,
     GenerateFails, Generated, FinalizeFails, Finalized, Broken, Deliver, Delivered, Yield

LEMMA StepIsMemoryStep == ASSUME [Next]_vars PROVE [M!Next]_memory
<1>1. ASSUME NEW r \in Requests, AskStream(r) \/ Ask(r) PROVE M!Next
  BY <1>1, AcquireIsStep DEF AskStream, Ask
<1>2. ASSUME NEW r \in Requests, Granted(r) \/ Withdrawn(r) PROVE M!Next
  BY <1>2 DEF Granted, Withdrawn, M!Next, M!Step
<1>3. ASSUME NEW r \in Requests, AnswerSync(r) \/ Leave(r) \/ Abandon(r) PROVE M!Next
  BY <1>3, ReleaseIsStep DEF AnswerSync, Leave, Abandon
<1>4. ASSUME NEW r \in Requests, Stream(r) PROVE UNCHANGED memory
  BY <1>4, StreamLeavesStore DEF MemoryUnchanged
<1>5. ASSUME NEW r \in Requests, Read(r) \/ ReadEnd(r) \/ Disconnect(r) \/ Notice(r)
      PROVE  UNCHANGED memory
  BY <1>5 DEF Read, ReadEnd, Disconnect, Notice
<1>6. ASSUME Elsewhere PROVE M!Next
  BY <1>6 DEF Elsewhere, M!Next
<1>7. CASE UNCHANGED vars
  BY <1>7 DEF vars
<1> QED
  BY <1>1, <1>2, <1>3, <1>4, <1>5, <1>6, <1>7 DEF Next, Serve

(* Every behaviour of the handlers is one of the store's specification, but  *)
(* for its fairness: acquire, release and clear are called as it allows.     *)
THEOREM StoreRefined == Spec => M!Init /\ [][M!Next]_memory
<1>1. Init => M!Init
  BY DEF Init
<1>2. [Next]_vars => [M!Next]_memory
  BY StepIsMemoryStep
<1> QED
  BY <1>1, <1>2, PTL DEF Spec

-----------------------------------------------------------------------------
(* What holds of one request: where its handler stands, its connection, the  *)
(* events under way, the message of its page, and whether its turn was       *)
(* stored.                                                                   *)

Links == {"open", "cut", "noticed"}

Closing == {"leaving", "ended"}

Frozen == {"finalized", "delivering"} \cup Closing

IsReplace(e) == e.event = "answer_replace"

EventOrder(h, w) ==
    /\ \A i \in DOMAIN w : Terminal(w[i]) => i = Len(w) /\ h.stage \in Closing
    /\ \A i \in DOMAIN w : IsReplace(w[i]) => h.stage \in Frozen
    /\ \A i, j \in DOMAIN w : i < j /\ IsReplace(w[i]) => w[j].event # "token"

(* A turn is stored by a stream only if its done event is under way or read, *)
(* as long as somebody reads it, and by none that sends an error.            *)
TurnOrder(h, l, w, p, s) ==
    /\ \A i \in DOMAIN w : w[i].event = "error" => ~h.turn /\ ~s
    /\ s => h.stage = "ended"
    /\ h.turn => h.stage \in {"delivering"} \cup Closing
    /\ (s \/ (h.turn /\ h.stage \in Closing)) /\ l = "open" =>
          \/ p.state \in {"idle", "finalized"}
          \/ \E i \in DOMAIN w : w[i].event = "done"

PageOrder(h, l, w, p) ==
    /\ l # "open" => w = <<>>
    /\ h.stage \in {"new", "sync"} => p.state = "idle"
    /\ p.state \in {"finalized", "failed"} =>
          w = <<>> /\ (l = "open" => h.stage \in Closing)
    /\ p.content = "draft" =>
          \/ p.state \in {"streaming", "cancelled"}
          \/ p.state = "failed" /\ p.partial

Good(h, l, w, p, s) ==
    /\ h \in Handler /\ l \in Links /\ w \in Seq(Event) /\ p \in Page /\ s \in BOOLEAN
    /\ EventOrder(h, w)
    /\ TurnOrder(h, l, w, p, s)
    /\ PageOrder(h, l, w, p)

GoodRequest(r) == Good(handler[r], link[r], wire[r], page[r], stored[r])

Domains ==
    /\ handler = [r \in Requests |-> handler[r]]
    /\ link = [r \in Requests |-> link[r]]
    /\ wire = [r \in Requests |-> wire[r]]
    /\ page = [r \in Requests |-> page[r]]
    /\ stored = [r \in Requests |-> stored[r]]
    /\ sentDone \in [Requests -> BOOLEAN]

StreamInv == Domains /\ \A r \in Requests : GoodRequest(r)

-----------------------------------------------------------------------------
LEMMA InvIsContract == ASSUME StreamInv PROVE StreamContract
<1>1. TypeOK
  BY DEF StreamInv, Domains, GoodRequest, Good, Links, TypeOK
<1>2. StreamOrder
  <2> SUFFICES ASSUME NEW r \in Requests
               PROVE  /\ page[r].state \in {"finalized", "failed"} => wire[r] = <<>>
                      /\ \A i, j \in DOMAIN wire[r] : i < j =>
                            /\ ~Terminal(wire[r][i])
                            /\ IsReplace(wire[r][i]) => wire[r][j].event # "token"
    BY DEF StreamOrder, IsReplace
  <2>1. wire[r] \in Seq(Event) /\ EventOrder(handler[r], wire[r])
    BY DEF StreamInv, GoodRequest, Good
  <2>2. \A i, j \in DOMAIN wire[r] : i < j => i # Len(wire[r])
    BY <2>1
  <2> QED
    BY <2>1, <2>2 DEF StreamInv, GoodRequest, Good, EventOrder, PageOrder
<1>3. DraftIsMarked
  BY DEF StreamInv, GoodRequest, Good, PageOrder, DraftIsMarked
<1>4. FailedNotStored
  <2> SUFFICES ASSUME NEW r \in Requests, page[r].state = "failed", link[r] = "open"
               PROVE  ~stored[r]
    BY DEF FailedNotStored, StreamInv, GoodRequest, Good, TurnOrder
  <2> QED
    BY DEF StreamInv, GoodRequest, Good, TurnOrder, PageOrder
<1> QED
  BY <1>1, <1>2, <1>3, <1>4 DEF StreamContract

LEMMA InitGood == ASSUME Init PROVE StreamInv
<1> DEFINE h == [stage |-> "new", mode |-> "none", tokens |-> 0, turn |-> FALSE]
<1>1. h \in Handler /\ h.stage = "new" /\ ~h.turn
  BY StreamAssumption DEF Handler
<1>2. Blank("idle") \in Page /\ Blank("idle").state = "idle" /\ Blank("idle").content = "empty"
  BY DEF Blank, Page
<1> HIDE DEF h
<1>3. Good(h, "open", <<>>, Blank("idle"), FALSE)
  BY <1>1, <1>2 DEF Good, Links, EventOrder, TurnOrder, PageOrder
<1>4. \A r \in Requests : /\ handler[r] = h /\ link[r] = "open" /\ wire[r] = <<>>
                          /\ page[r] = Blank("idle") /\ stored[r] = FALSE
  BY DEF Init, h
<1>5. Domains
  BY DEF Init, Domains
<1> QED
  BY <1>3, <1>4, <1>5 DEF StreamInv, GoodRequest

-----------------------------------------------------------------------------
(* Events that may be sent when a handler that is not yet closing moves on.  *)
Sendable(h, g, events) ==
    /\ events \in Seq(Event)
    /\ h.stage \notin Closing
    /\ g.stage \notin {"new", "sync", "ended"}
    /\ h.stage \in Frozen => g.stage \in Frozen
    /\ g.turn => g.stage \in {"delivering"} \cup Closing
    /\ EventOrder(g, events)
    /\ \A i \in DOMAIN events :
          /\ events[i].event = "error" => ~g.turn
          /\ events[i].event = "token" => h.stage \notin Frozen
    /\ g.turn /\ g.stage \in Closing => \E i \in DOMAIN events : events[i].event = "done"

LEMMA SentGood ==
    ASSUME NEW h, NEW g \in Handler, NEW l, NEW w, NEW p, NEW s, NEW events,
           Good(h, l, w, p, s), Sendable(h, g, events)
    PROVE  Good(g, l, IF l = "open" THEN w \o events ELSE w, p, s)
<1> DEFINE v == IF l = "open" THEN w \o events ELSE w
<1>1. w \in Seq(Event) /\ events \in Seq(Event) /\ v \in Seq(Event)
  BY DEF Good, Sendable
<1>2. \A i \in DOMAIN w : ~Terminal(w[i])
  BY DEF Good, EventOrder, Sendable
<1>3. ~s
  BY DEF Good, TurnOrder, Sendable, Closing
<1>4. CASE l # "open"
  <2>1. v = <<>>
    BY <1>4 DEF Good, PageOrder
  <2>2. EventOrder(g, <<>>)
    BY DEF EventOrder
  <2>3. TurnOrder(g, l, <<>>, p, s)
    BY <1>3, <1>4 DEF TurnOrder, Sendable
  <2>4. PageOrder(g, l, <<>>, p)
    BY <1>4 DEF Good, PageOrder, Sendable
  <2> QED
    BY <1>1, <2>1, <2>2, <2>3, <2>4 DEF Good
<1>5. CASE l = "open"
  <2>1. /\ v = w \o events /\ Len(v) = Len(w) + Len(events)
        /\ Len(w) \in Nat /\ Len(events) \in Nat
        /\ DOMAIN w = 1..Len(w) /\ DOMAIN events = 1..Len(events) /\ DOMAIN v = 1..Len(v)
        /\ \A i \in DOMAIN w : i \in DOMAIN v /\ v[i] = w[i]
        /\ \A i \in DOMAIN events : i + Len(w) \in DOMAIN v /\ v[i + Len(w)] = events[i]
        /\ \A i \in DOMAIN v \ DOMAIN w : i - Len(w) \in DOMAIN events /\ v[i] = events[i - Len(w)]
    BY <1>1, <1>5
  <2> HIDE DEF v
  <2>2. EventOrder(g, v)
    <3>1. \A i \in DOMAIN v : Terminal(v[i]) => i = Len(v) /\ g.stage \in Closing
      BY <1>2, <2>1 DEF Sendable, EventOrder
    <3>2. \A i \in DOMAIN w : IsReplace(w[i]) => h.stage \in Frozen
      BY DEF Good, EventOrder
    <3>3. \A i \in DOMAIN v : IsReplace(v[i]) => g.stage \in Frozen
      BY <2>1, <3>2 DEF Sendable, EventOrder
    <3>4. \A i, j \in DOMAIN v : i < j /\ IsReplace(v[i]) => v[j].event # "token"
      <4> SUFFICES ASSUME NEW i \in DOMAIN v, NEW j \in DOMAIN v, i < j, IsReplace(v[i])
                   PROVE  v[j].event # "token"
        OBVIOUS
      <4>1. CASE j \in DOMAIN w
        BY <2>1, <4>1 DEF Good, EventOrder
      <4>2. CASE i \in DOMAIN w /\ j \notin DOMAIN w
        BY <2>1, <3>2, <4>2 DEF Sendable
      <4>3. CASE i \notin DOMAIN w /\ j \notin DOMAIN w
        <5>1. /\ i - Len(w) \in DOMAIN events /\ j - Len(w) \in DOMAIN events
              /\ v[i] = events[i - Len(w)] /\ v[j] = events[j - Len(w)]
              /\ i - Len(w) < j - Len(w)
          BY <2>1, <4>3
        <5> QED
          BY <5>1 DEF Sendable, EventOrder
      <4>4. i \in DOMAIN w \/ j \notin DOMAIN w
        BY <2>1
      <4> QED
        BY <4>1, <4>2, <4>3, <4>4
    <3> QED
      BY <3>1, <3>3, <3>4 DEF EventOrder
  <2>3. TurnOrder(g, l, v, p, s)
    <3>1. \A i \in DOMAIN v : v[i].event = "error" => ~g.turn
      BY <1>2, <2>1 DEF Sendable, Terminal
    <3>2. g.turn /\ g.stage \in Closing => \E i \in DOMAIN v : v[i].event = "done"
      BY <2>1 DEF Sendable
    <3> QED
      BY <1>3, <3>1, <3>2 DEF TurnOrder, Sendable
  <2>4. PageOrder(g, l, v, p)
    BY <1>5 DEF Good, PageOrder, Sendable
  <2> QED
    BY <1>1, <2>2, <2>3, <2>4 DEF Good, v
<1> QED
  BY <1>4, <1>5

(* A handler that moves on without an event.                                 *)
LEMMA NothingSendable ==
    ASSUME NEW h, NEW g, h.stage \notin Closing, g.stage \notin {"new", "sync", "ended"},
           h.stage \in Frozen => g.stage \in Frozen,
           g.turn => g.stage = "delivering"
    PROVE  Sendable(h, g, <<>>)
  BY DEF Sendable, EventOrder, Closing

LEMMA OneSendable ==
    ASSUME NEW h, NEW g, NEW e \in Event, h.stage \notin Closing,
           g.stage \notin {"new", "sync", "ended"},
           h.stage \in Frozen => g.stage \in Frozen,
           g.turn => g.stage \in {"delivering"} \cup Closing,
           Terminal(e) => g.stage \in Closing,
           IsReplace(e) => g.stage \in Frozen,
           e.event = "error" => ~g.turn,
           e.event = "token" => h.stage \notin Frozen,
           g.turn /\ g.stage \in Closing => e.event = "done"
    PROVE  Sendable(h, g, <<e>>)
<1>1. /\ <<e>> \in Seq(Event) /\ DOMAIN <<e>> = {1} /\ Len(<<e>>) = 1 /\ <<e>>[1] = e
  OBVIOUS
<1>2. EventOrder(g, <<e>>)
  BY <1>1 DEF EventOrder
<1> QED
  BY <1>1, <1>2 DEF Sendable

LEMMA Joined ==
    ASSUME NEW a \in Event, NEW e \in Event
    PROVE  <<>> \o <<e>> = <<e>> /\ <<a>> \o <<e>> = <<a, e>>
<1>1. <<>> \in Seq(Event) /\ <<a>> \in Seq(Event) /\ <<e>> \in Seq(Event) /\ <<a, e>> \in Seq(Event)
  OBVIOUS
<1>2. <<>> \o <<e>> = <<e>>
  BY <1>1
<1>3. /\ Len(<<a>> \o <<e>>) = 2 /\ (<<a>> \o <<e>>)[1] = a /\ (<<a>> \o <<e>>)[2] = e
      /\ <<a>> \o <<e>> \in Seq(Event)
  BY <1>1
<1> DEFINE s == <<a>> \o <<e>>
           t == <<a, e>>
<1>4. s \in Seq(Event) /\ t \in Seq(Event) /\ Len(s) = Len(t) /\ Len(t) = 2
      /\ \A i \in 1 .. 2 : s[i] = t[i]
  BY <1>1, <1>3
<1> HIDE DEF s, t
<1>5. s = t
  BY <1>4, SeqEqual
<1> QED
  BY <1>2, <1>5 DEF s, t

(* The draft is replaced, then the error ends the stream. *)
LEMMA CorrectionSendable ==
    ASSUME NEW h, NEW g, NEW a \in Event, NEW e \in Event, h.stage \notin Closing,
           g.stage = "leaving", ~g.turn, IsReplace(a), e.event = "error"
    PROVE  Sendable(h, g, <<a, e>>)
<1> DEFINE events == <<a, e>>
<1>1. /\ events \in Seq(Event) /\ DOMAIN events = 1..2 /\ Len(events) = 2
      /\ events[1] = a /\ events[2] = e
  OBVIOUS
<1> HIDE DEF events
<1>2. \A i \in DOMAIN events : i = 1 \/ i = 2
  BY <1>1
<1>3. EventOrder(g, events)
  BY <1>1, <1>2 DEF EventOrder, IsReplace, Terminal, Closing, Frozen
<1>4. Sendable(h, g, events)
  BY <1>1, <1>2, <1>3 DEF Sendable, Closing, Frozen, IsReplace
<1> QED
  BY <1>4 DEF events

-----------------------------------------------------------------------------
(* A step of one request leaves what holds of the others alone.              *)

LEMMA OneRequest ==
    ASSUME StreamInv, Domains', NEW r \in Requests, GoodRequest(r)',
           \A q \in Requests \ {r} :
               /\ handler'[q] = handler[q] /\ link'[q] = link[q] /\ wire'[q] = wire[q]
               /\ page'[q] = page[q] /\ stored'[q] = stored[q]
    PROVE  StreamInv'
<1>1. ASSUME NEW q \in Requests, q # r PROVE GoodRequest(q)'
  BY <1>1 DEF StreamInv, GoodRequest
<1> QED
  BY <1>1 DEF StreamInv

Stages == {"new", "queued", "sync", "opened", "preparing", "sourced", "generating",
           "finalizing", "finalized", "delivering", "leaving", "ended"}

LEMMA Restaged ==
    ASSUME NEW h \in Handler, NEW to \in Stages
    PROVE  /\ [h EXCEPT !.stage = to] \in Handler
           /\ [h EXCEPT !.stage = to].stage = to
           /\ [h EXCEPT !.stage = to].turn = h.turn
           /\ [h EXCEPT !.stage = to].mode = h.mode
  BY DEF Handler, Stages

(* A handler runs to its next yield. *)
LEMMA SendKeeps ==
    ASSUME StreamInv, NEW r \in Requests, NEW g \in Handler, NEW events,
           handler' = [handler EXCEPT ![r] = g], Send(r, events),
           Sendable(handler[r], g, events),
           UNCHANGED <<link, page, stored>>, sentDone' \in [Requests -> BOOLEAN]
    PROVE  StreamInv'
<1>1. wire' = [wire EXCEPT ![r] = IF link[r] = "open" THEN wire[r] \o events ELSE wire[r]]
  BY DEF Send, StreamInv, Domains
<1>2. Domains'
  BY <1>1 DEF StreamInv, Domains
<1>3. handler'[r] = g /\ wire'[r] = IF link[r] = "open" THEN wire[r] \o events ELSE wire[r]
  BY <1>1 DEF StreamInv, Domains
<1>4. GoodRequest(r)'
  BY <1>3, SentGood DEF StreamInv, GoodRequest
<1> QED
  BY <1>1, <1>2, <1>4, OneRequest DEF StreamInv, Domains

LEMMA YieldKeeps ==
    ASSUME StreamInv, NEW r \in Requests, NEW from \in Stages, NEW events, NEW to \in Stages,
           Yield(r, from, events, to),
           \A g \in Handler :
               g.stage = to /\ g.turn = handler[r].turn => Sendable(handler[r], g, events)
    PROVE  StreamInv'
<1> DEFINE g == [handler[r] EXCEPT !.stage = to]
<1>1. handler[r] \in Handler
  BY DEF StreamInv, GoodRequest, Good
<1>2. g \in Handler /\ g.stage = to /\ g.turn = handler[r].turn
  BY <1>1, Restaged
<1>3. handler' = [handler EXCEPT ![r] = g]
  BY DEF Yield, Goto
<1> HIDE DEF g
<1>4. sentDone' \in [Requests -> BOOLEAN]
  BY DEF Yield, StreamInv, Domains
<1> QED
  BY <1>2, <1>3, <1>4, SendKeeps DEF Yield, MemoryUnchanged

(* The turn of a handler that has not delivered is not set.                  *)
LEMMA NoTurnYet ==
    ASSUME StreamInv, NEW r \in Requests
    PROVE  /\ handler[r] \in Handler
           /\ handler[r].stage \notin {"delivering"} \cup Closing => ~handler[r].turn
  BY DEF StreamInv, GoodRequest, Good, TurnOrder

LEMMA QuietYield ==
    ASSUME StreamInv, NEW r \in Requests,
           NEW from \in Stages \ ({"delivering"} \cup Closing),
           NEW to \in Stages \ {"new", "sync", "ended"}, Yield(r, from, <<>>, to),
           from \in Frozen => to \in Frozen
    PROVE  StreamInv'
<1>1. handler[r].stage = from /\ ~handler[r].turn
  BY NoTurnYet DEF Yield, At
<1>2. \A g \in Handler :
          g.stage = to /\ g.turn = handler[r].turn => Sendable(handler[r], g, <<>>)
  BY <1>1, NothingSendable
<1> QED
  BY <1>2, YieldKeeps

LEMMA EventYield ==
    ASSUME StreamInv, NEW r \in Requests,
           NEW from \in Stages \ ({"delivering"} \cup Closing),
           NEW to \in Stages \ {"new", "sync", "ended"},
           NEW e \in Event, Yield(r, from, <<e>>, to),
           from \in Frozen => to \in Frozen,
           Terminal(e) => to \in Closing,
           IsReplace(e) => to \in Frozen,
           e.event = "token" => from \notin Frozen
    PROVE  StreamInv'
<1>1. handler[r].stage = from /\ ~handler[r].turn
  BY NoTurnYet DEF Yield, At
<1>2. \A g \in Handler :
          g.stage = to /\ g.turn = handler[r].turn => Sendable(handler[r], g, <<e>>)
  BY <1>1, OneSendable
<1> QED
  BY <1>2, YieldKeeps

LEMMA Events ==
    /\ \A b \in BOOLEAN : /\ Error(b) \in Event /\ Error(b).event = "error"
                          /\ Error(b).partial = b
    /\ \A a \in {"final", "fallback"} :
          /\ Replace(a) \in Event /\ Replace(a).event = "answer_replace"
          /\ Replace(a).answer = a
    /\ \A n \in {"sources", "token", "done"} :
          Plain(n) \in Event /\ Plain(n).event = n
  BY DEF Error, Replace, Plain, Event

-----------------------------------------------------------------------------
(* Every step keeps the invariant. *)

LEMMA StreamKeeps == ASSUME StreamInv, NEW r \in Requests, Stream(r) PROVE StreamInv'
<1>1. CASE \/ Retrieve(r) \/ SkipGeneration(r) \/ Generate(r) \/ Generated(r) \/ Broken(r)
  BY <1>1, QuietYield DEF Retrieve, SkipGeneration, Generate, Generated, Broken, Stages,
     Closing, Frozen
<1>2. CASE PrepareFails(r) \/ GenerateFails(r)
  <2>1. PICK b \in BOOLEAN, from \in {"preparing", "generating"} :
            Yield(r, from, <<Error(b)>>, "leaving")
    <3>1. (handler[r].tokens > 0) \in BOOLEAN
      OBVIOUS
    <3> QED
      BY <1>2, <3>1 DEF PrepareFails, GenerateFails
  <2> QED
    BY <2>1, Events, EventYield DEF Stages, Closing, Frozen, IsReplace
<1>3. CASE FinalizeFails(r)
  <2>1. CASE Yield(r, "finalizing", <<Error(FALSE)>>, "leaving")
    BY <2>1, Events, EventYield DEF Stages, Closing, Frozen, IsReplace
  <2>2. CASE Yield(r, "finalizing", <<Replace("fallback"), Error(FALSE)>>, "leaving")
    <3>1. handler[r].stage = "finalizing" /\ ~handler[r].turn
      BY <2>2, NoTurnYet DEF Yield, At, Closing
    <3>2. \A g \in Handler :
              g.stage = "leaving" /\ g.turn = handler[r].turn =>
                  Sendable(handler[r], g, <<Replace("fallback"), Error(FALSE)>>)
      BY <3>1, Events, CorrectionSendable DEF Closing, Frozen, IsReplace
    <3> DEFINE events == <<Replace("fallback"), Error(FALSE)>>
    <3>3. Yield(r, "finalizing", events, "leaving")
      BY <2>2
    <3>4. \A g \in Handler :
              g.stage = "leaving" /\ g.turn = handler[r].turn => Sendable(handler[r], g, events)
      BY <3>2
    <3>5. {"finalizing", "leaving"} \subseteq Stages
      BY DEF Stages
    <3> HIDE DEF events
    <3> QED
      BY <3>3, <3>4, <3>5, YieldKeeps
  <2> QED
    BY <1>3, <2>1, <2>2, Events, Joined DEF FinalizeFails
<1>4. CASE Finalized(r)
  <2>1. CASE Yield(r, "finalizing", <<>>, "finalized")
    BY <2>1, QuietYield DEF Stages, Closing, Frozen
  <2>2. CASE Yield(r, "finalizing", <<Replace("final")>>, "finalized")
    BY <2>2, Events, EventYield DEF Stages, Closing, Frozen, IsReplace, Terminal
  <2> QED
    BY <1>4, <2>1, <2>2 DEF Finalized
<1>5. CASE Prepared(r)
  <2>1. PICK mode \in {"none", "generated"} :
            handler' = [handler EXCEPT ![r].mode = mode, ![r].stage = "sourced"]
    BY <1>5 DEF Prepared
  <2> DEFINE g == [handler[r] EXCEPT !.mode = mode, !.stage = "sourced"]
  <2>2. handler[r].stage = "preparing" /\ ~handler[r].turn /\ handler[r] \in Handler
    BY <1>5, NoTurnYet DEF Prepared, At, Closing
  <2>3. g \in Handler /\ g.stage = "sourced" /\ ~g.turn
    BY <2>2 DEF Handler
  <2>4. handler' = [handler EXCEPT ![r] = g]
    BY <2>1 DEF StreamInv, Domains
  <2> HIDE DEF g
  <2>5. Sendable(handler[r], g, <<Plain("sources")>>)
    BY <2>2, <2>3, Events, OneSendable DEF Closing, Frozen, Terminal, IsReplace
  <2>6. sentDone' \in [Requests -> BOOLEAN] /\ UNCHANGED <<link, page, stored>>
    BY <1>5 DEF Prepared, MemoryUnchanged, StreamInv, Domains
  <2> QED
    BY <1>5, <2>3, <2>4, <2>5, <2>6, SendKeeps DEF Prepared
<1>6. CASE Token(r)
  <2> DEFINE g == [handler[r] EXCEPT !.tokens = @ + 1]
  <2>1. handler[r].stage = "generating" /\ ~handler[r].turn /\ handler[r] \in Handler
    BY <1>6, NoTurnYet DEF Token, At, Closing
  <2>2. g \in Handler /\ g.stage = "generating" /\ ~g.turn
    <3>1. handler[r].tokens + 1 \in 0 .. MaxTokens
      BY <1>6, <2>1, StreamAssumption DEF Token, Handler
    <3> QED
      BY <2>1, <3>1 DEF Handler
  <2>3. handler' = [handler EXCEPT ![r] = g]
    BY <1>6 DEF Token
  <2> HIDE DEF g
  <2>4. Sendable(handler[r], g, <<Plain("token")>>)
    BY <2>1, <2>2, Events, OneSendable DEF Closing, Frozen, Terminal, IsReplace
  <2>5. sentDone' \in [Requests -> BOOLEAN] /\ UNCHANGED <<link, page, stored>>
    BY <1>6 DEF Token, MemoryUnchanged, StreamInv, Domains
  <2> QED
    BY <1>6, <2>2, <2>3, <2>4, <2>5, SendKeeps DEF Token
<1>7. CASE Deliver(r)
  <2>1. PICK turn \in BOOLEAN :
            handler' = [handler EXCEPT ![r].turn = turn, ![r].stage = "delivering"]
    BY <1>7 DEF Deliver
  <2> DEFINE g == [handler[r] EXCEPT !.turn = turn, !.stage = "delivering"]
  <2>2. handler[r].stage = "finalized" /\ handler[r] \in Handler
    BY <1>7, NoTurnYet DEF Deliver, At
  <2>3. g \in Handler /\ g.stage = "delivering"
    BY <2>2 DEF Handler
  <2>4. handler' = [handler EXCEPT ![r] = g]
    BY <2>1 DEF StreamInv, Domains
  <2> HIDE DEF g
  <2>5. Sendable(handler[r], g, <<>>)
    BY <2>2, <2>3, NothingSendable DEF Closing, Frozen
  <2>6. Send(r, <<>>)
    <3>1. wire[r] \in Seq(Event)
      BY DEF StreamInv, GoodRequest, Good
    <3>2. wire[r] \o <<>> = wire[r] /\ wire' = wire
      BY <1>7, <3>1 DEF Deliver, browser
    <3>3. wire = [wire EXCEPT ![r] = wire[r]]
      BY DEF StreamInv, Domains
    <3> QED
      BY <3>2, <3>3 DEF Send
  <2>7. sentDone' \in [Requests -> BOOLEAN] /\ UNCHANGED <<link, page, stored>>
    BY <1>7 DEF Deliver, MemoryUnchanged, browser, StreamInv, Domains
  <2> QED
    BY <2>3, <2>4, <2>5, <2>6, <2>7, SendKeeps
<1>8. CASE Delivered(r)
  <2> DEFINE g == [handler[r] EXCEPT !.stage = "leaving"]
  <2>1. handler[r].stage = "delivering" /\ handler[r] \in Handler
    BY <1>8, NoTurnYet DEF Delivered, At
  <2>2. g \in Handler /\ g.stage = "leaving"
    BY <2>1, Restaged DEF Stages
  <2>3. handler' = [handler EXCEPT ![r] = g]
    BY <1>8 DEF Delivered, Goto
  <2> HIDE DEF g
  <2>4. Sendable(handler[r], g, <<Plain("done")>>)
    BY <2>1, <2>2, Events, OneSendable DEF Closing, Frozen, Terminal, IsReplace
  <2>5. sentDone' \in [Requests -> BOOLEAN] /\ UNCHANGED <<link, page, stored>>
    BY <1>8 DEF Delivered, MemoryUnchanged, StreamInv, Domains
  <2> QED
    BY <1>8, <2>2, <2>3, <2>4, <2>5, SendKeeps DEF Delivered
<1> QED
  BY <1>1, <1>2, <1>3, <1>4, <1>5, <1>6, <1>7, <1>8 DEF Stream

(* A request that starts, or goes on from its queue: nothing was sent yet.   *)
LEMMA StageKeeps ==
    ASSUME StreamInv, NEW r \in Requests, NEW to \in Stages, Goto(r, to),
           handler[r].stage \notin {"delivering"} \cup Closing \cup Frozen,
           to \notin {"new", "sync"} \/ page'[r].state = "idle",
           UNCHANGED <<link, browser, stored, sentDone>>
    PROVE  StreamInv'
<1> DEFINE g == [handler[r] EXCEPT !.stage = to]
<1>1. handler[r] \in Handler /\ ~handler[r].turn
  BY NoTurnYet
<1>2. g \in Handler /\ g.stage = to /\ ~g.turn
  BY <1>1, Restaged
<1>3. handler' = [handler EXCEPT ![r] = g]
  BY DEF Goto
<1> HIDE DEF g
<1>4. Domains'
  BY <1>3 DEF StreamInv, Domains, browser
<1>5. Good(handler[r], link[r], wire[r], page[r], stored[r])
  BY DEF StreamInv, GoodRequest
<1>6. Good(g, link[r], wire[r], page[r], stored[r])
  <2>1. EventOrder(g, wire[r])
    BY <1>2, <1>5 DEF Good, EventOrder, Closing
  <2>2. TurnOrder(g, link[r], wire[r], page[r], stored[r])
    BY <1>2, <1>5 DEF Good, TurnOrder, Closing
  <2>3. PageOrder(g, link[r], wire[r], page[r])
    BY <1>2, <1>5 DEF Good, PageOrder, Closing, browser
  <2> QED
    BY <1>2, <1>5, <2>1, <2>2, <2>3 DEF Good
<1>7. GoodRequest(r)'
  BY <1>3, <1>6 DEF GoodRequest, browser, StreamInv, Domains
<1> QED
  BY <1>3, <1>4, <1>7, OneRequest DEF StreamInv, Domains, browser

LEMMA ArrivalKeeps ==
    ASSUME StreamInv, NEW r \in Requests, AskStream(r) \/ Ask(r) PROVE StreamInv'
<1>1. handler[r].stage = "new" /\ handler[r] \in Handler /\ ~handler[r].turn
  BY NoTurnYet DEF AskStream, Ask, At, Closing
<1>2. CASE Ask(r)
  <2>1. PICK to \in {"queued", "sync"} : Goto(r, to)
    BY <1>2 DEF Ask, Acquired, Goto
  <2>2. page'[r].state = "idle"
    BY <1>1, <1>2 DEF Ask, browser, StreamInv, GoodRequest, Good, PageOrder
  <2> QED
    BY <1>1, <1>2, <2>1, <2>2, StageKeeps DEF Ask, Stages, Closing, Frozen
<1>3. CASE AskStream(r)
  <2>1. PICK to \in {"queued", "opened"} : Goto(r, to)
    BY <1>3 DEF AskStream, Acquired, Goto
  <2> DEFINE g == [handler[r] EXCEPT !.stage = to]
             p == Blank("streaming")
  <2>2. g \in Handler /\ g.stage = to /\ ~g.turn
    <3>1. to \in Stages
      BY DEF Stages
    <3> QED
      BY <1>1, <3>1, Restaged
  <2>3. p \in Page /\ p.state = "streaming" /\ p.content = "empty"
    BY DEF Blank, Page
  <2>4. handler' = [handler EXCEPT ![r] = g] /\ page' = [page EXCEPT ![r] = p]
    BY <1>3, <2>1 DEF AskStream, Goto
  <2> HIDE DEF g, p
  <2>5. Good(handler[r], link[r], wire[r], page[r], stored[r])
    BY DEF StreamInv, GoodRequest
  <2>6. Good(g, link[r], wire[r], p, stored[r])
    <3>1. EventOrder(g, wire[r])
      BY <1>1, <2>5 DEF Good, EventOrder, Closing, Frozen
    <3>2. TurnOrder(g, link[r], wire[r], p, stored[r])
      BY <1>1, <2>2, <2>5 DEF Good, TurnOrder, Closing
    <3>3. PageOrder(g, link[r], wire[r], p)
      BY <2>1, <2>2, <2>3, <2>5 DEF Good, PageOrder
    <3> QED
      BY <2>2, <2>3, <2>5, <3>1, <3>2, <3>3 DEF Good
  <2>7. Domains'
    BY <1>3, <2>4 DEF AskStream, StreamInv, Domains
  <2>8. GoodRequest(r)'
    BY <1>3, <2>4, <2>6 DEF AskStream, GoodRequest, StreamInv, Domains
  <2> QED
    BY <1>3, <2>4, <2>7, <2>8, OneRequest DEF AskStream, StreamInv, Domains
<1> QED
  BY <1>2, <1>3

LEMMA QueueKeeps ==
    ASSUME StreamInv, NEW r \in Requests, Granted(r) \/ Withdrawn(r) PROVE StreamInv'
<1>1. handler[r].stage = "queued" /\ UNCHANGED <<link, browser, stored, sentDone>>
  BY DEF Granted, Withdrawn, At
<1>2. PICK to \in {"sync", "opened", "ended"} :
          Goto(r, to) /\ (to = "sync" => page[r].state = "idle")
  BY DEF Granted, Withdrawn
<1> QED
  BY <1>1, <1>2, StageKeeps DEF Stages, Closing, Frozen, browser

(* A handler ends: its turn is stored if it is set and the lease is current. *)
LEMMA ReleaseKeeps ==
    ASSUME StreamInv, NEW r \in Requests, NEW turn \in BOOLEAN, Release(r, turn),
           UNCHANGED <<link, browser, sentDone>>,
           \A i \in DOMAIN wire[r] : wire[r][i].event = "error" => ~turn,
           (turn \/ handler[r].turn) /\ link[r] = "open" =>
               \/ page[r].state \in {"idle", "finalized"}
               \/ \E i \in DOMAIN wire[r] : wire[r][i].event = "done"
    PROVE  StreamInv'
<1> DEFINE g == [handler[r] EXCEPT !.stage = "ended"]
           s == turn /\ LeaseCurrent(r)
<1>1. handler[r] \in Handler
  BY NoTurnYet
<1>2. g \in Handler /\ g.stage = "ended" /\ g.turn = handler[r].turn
  BY <1>1, Restaged DEF Stages
<1>3. s \in BOOLEAN /\ (s => turn)
  BY DEF LeaseCurrent
<1>4. handler' = [handler EXCEPT ![r] = g] /\ stored' = [stored EXCEPT ![r] = s]
  BY DEF Release, Goto
<1> HIDE DEF g, s
<1>5. Good(handler[r], link[r], wire[r], page[r], stored[r])
  BY DEF StreamInv, GoodRequest
<1>6. Good(g, link[r], wire[r], page[r], s)
  <2>1. EventOrder(g, wire[r])
    BY <1>2, <1>5 DEF Good, EventOrder, Closing, Frozen
  <2>2. TurnOrder(g, link[r], wire[r], page[r], s)
    BY <1>2, <1>3, <1>5 DEF Good, TurnOrder, Closing
  <2>3. PageOrder(g, link[r], wire[r], page[r])
    BY <1>2, <1>5 DEF Good, PageOrder, Closing
  <2> QED
    BY <1>2, <1>3, <1>5, <2>1, <2>2, <2>3 DEF Good
<1>7. Domains'
  BY <1>4 DEF StreamInv, Domains, browser
<1>8. GoodRequest(r)'
  BY <1>4, <1>6 DEF GoodRequest, StreamInv, Domains, browser
<1> QED
  BY <1>4, <1>7, <1>8, OneRequest DEF StreamInv, Domains, browser

LEMMA EndingKeeps ==
    ASSUME StreamInv, NEW r \in Requests, AnswerSync(r) \/ Leave(r) \/ Abandon(r)
    PROVE  StreamInv'
<1>1. Good(handler[r], link[r], wire[r], page[r], stored[r])
  BY DEF StreamInv, GoodRequest
<1>2. UNCHANGED <<link, browser, sentDone>>
  BY DEF AnswerSync, Leave, Abandon
<1>3. handler[r].turn \in BOOLEAN
  BY <1>1 DEF Good, Handler
<1>4. CASE AnswerSync(r)
  <2>1. PICK turn \in BOOLEAN : Release(r, turn)
    BY <1>4 DEF AnswerSync
  <2>2. \A i \in DOMAIN wire[r] : wire[r][i].event # "error"
    BY <1>1, <1>4 DEF AnswerSync, At, Good, EventOrder, Terminal, Closing
  <2>3. page[r].state = "idle"
    BY <1>1, <1>4 DEF AnswerSync, At, Good, PageOrder
  <2> QED
    BY <1>2, <2>1, <2>2, <2>3, ReleaseKeeps
<1>5. CASE Leave(r)
  <2>1. Release(r, handler[r].turn) /\ handler[r].stage = "leaving"
    BY <1>5 DEF Leave, At
  <2> QED
    BY <1>1, <1>2, <1>3, <2>1, ReleaseKeeps DEF Good, TurnOrder, Closing
<1>6. CASE Abandon(r)
  <2>1. Release(r, handler[r].turn) /\ link[r] = "noticed"
    BY <1>6 DEF Abandon, Noticed
  <2> QED
    BY <1>1, <1>2, <1>3, <2>1, ReleaseKeeps DEF Good, TurnOrder
<1> QED
  BY <1>4, <1>5, <1>6

-----------------------------------------------------------------------------
(* The page. *)

LEMMA PageKeeps ==
    ASSUME StreamInv, NEW r \in Requests, NEW l \in Links, NEW w \in Seq(Event), NEW p \in Page,
           link' = [link EXCEPT ![r] = l], wire' = [wire EXCEPT ![r] = w],
           page' = [page EXCEPT ![r] = p],
           UNCHANGED <<handler, stored, sentDone>>,
           EventOrder(handler[r], w), TurnOrder(handler[r], l, w, p, stored[r]),
           PageOrder(handler[r], l, w, p)
    PROVE  StreamInv'
<1>1. Domains'
  BY DEF StreamInv, Domains
<1>2. GoodRequest(r)'
  BY DEF StreamInv, GoodRequest, Good, Domains
<1> QED
  BY <1>1, <1>2, OneRequest DEF StreamInv, Domains

LEMMA ShownMessage ==
    ASSUME NEW m \in Page, NEW e \in Event, m.state = "streaming"
    PROVE  /\ Shown(m, e) \in Page
           /\ e.event = "done" => Shown(m, e).state = "finalized" /\ Shown(m, e).content = "final"
           /\ e.event = "error" =>
                  /\ Shown(m, e).state = "failed"
                  /\ Shown(m, e).content = "draft" => Shown(m, e).partial
           /\ ~Terminal(e) => Shown(m, e).state = "streaming"
<1>1. CASE e.event = "done"
  BY <1>1 DEF Shown, Page, Terminal
<1>2. CASE e.event = "error"
  <2>1. e.partial \in BOOLEAN
    BY <1>2 DEF Event
  <2>2. Shown(m, e) = Failed(m, e.partial)
    BY <1>2 DEF Shown
  <2> QED
    BY <1>2, <2>1, <2>2 DEF Failed, Page, Terminal
<1>3. CASE e.event = "token"
  BY <1>3 DEF Shown, Page, Terminal
<1>4. CASE e.event = "answer_replace"
  <2>1. e.answer \in {"final", "fallback"}
    BY <1>4 DEF Event
  <2> QED
    BY <1>4, <2>1 DEF Shown, Page, Terminal
<1>5. CASE e.event = "sources"
  BY <1>5 DEF Shown, Terminal
<1>6. e.event \in {"done", "error", "token", "answer_replace", "sources"}
  BY DEF Event
<1> QED
  BY <1>1, <1>2, <1>3, <1>4, <1>5, <1>6

LEMMA HeadAndTail ==
    ASSUME NEW S, NEW w \in Seq(S), w # <<>>
    PROVE  /\ Head(w) \in S /\ Head(w) = w[1] /\ Tail(w) \in Seq(S)
           /\ Len(Tail(w)) = Len(w) - 1 /\ Len(w) \in Nat \ {0}
           /\ DOMAIN Tail(w) = 1 .. (Len(w) - 1) /\ DOMAIN w = 1 .. Len(w)
           /\ \A i \in DOMAIN Tail(w) : Tail(w)[i] = w[i + 1]
           /\ Len(w) = 1 => Tail(w) = <<>>
<1>1. Len(w) \in Nat \ {0} /\ DOMAIN w = 1 .. Len(w)
  OBVIOUS
<1>2. Head(w) = w[1] /\ Head(w) \in S
  BY <1>1
<1>3. Tail(w) \in Seq(S) /\ Len(Tail(w)) = Len(w) - 1
  BY <1>1
<1>4. DOMAIN Tail(w) = 1 .. (Len(w) - 1) /\ (Len(w) = 1 => Tail(w) = <<>>)
  BY <1>1, <1>3
<1>5. \A i \in DOMAIN Tail(w) : Tail(w)[i] = w[i + 1]
  BY <1>1, <1>4
<1> QED
  BY <1>1, <1>2, <1>3, <1>4, <1>5

LEMMA ReadKeeps == ASSUME StreamInv, NEW r \in Requests, Read(r) PROVE StreamInv'
<1> DEFINE h == handler[r]
           w == wire[r]
           p == page[r]
           e == Head(w)
           v == Tail(w)
           q == Shown(p, e)
<1>1. Good(h, link[r], w, p, stored[r])
  BY DEF StreamInv, GoodRequest
<1>2. /\ w \in Seq(Event) /\ w # <<>> /\ p \in Page /\ p.state = "streaming"
      /\ link[r] = "open" /\ h.stage \notin {"new", "sync"}
  BY <1>1 DEF Read, Good, PageOrder, Links
<1>3. /\ e \in Event /\ e = w[1] /\ v \in Seq(Event) /\ Len(v) = Len(w) - 1
      /\ Len(w) \in Nat \ {0} /\ DOMAIN v = 1 .. Len(v) /\ DOMAIN w = 1 .. Len(w)
      /\ \A i \in DOMAIN v : v[i] = w[i + 1]
      /\ Len(w) = 1 => v = <<>>
  <2> HIDE DEF w
  <2> QED
    BY <1>2, HeadAndTail
<1>4. /\ page' = [page EXCEPT ![r] = q] /\ wire' = [wire EXCEPT ![r] = v]
      /\ link' = [link EXCEPT ![r] = link[r]] /\ UNCHANGED <<handler, stored, sentDone>>
  BY DEF Read, StreamInv, Domains
<1>5. /\ q \in Page
      /\ e.event = "done" => q.state = "finalized" /\ q.content = "final"
      /\ e.event = "error" => q.state = "failed" /\ (q.content = "draft" => q.partial)
      /\ ~Terminal(e) => q.state = "streaming"
  BY <1>2, <1>3, ShownMessage
<1>6. Terminal(e) => v = <<>> /\ h.stage \in Closing
  BY <1>1, <1>3 DEF Good, EventOrder
<1> HIDE DEF h, w, p, e, v, q
<1>7. EventOrder(h, v)
  <2>1. \A i \in DOMAIN v : i + 1 \in DOMAIN w /\ v[i] = w[i + 1]
    BY <1>3
  <2>2. \A i \in DOMAIN v : i + 1 = Len(w) => i = Len(v)
    BY <1>3
  <2>3. \A i, j \in DOMAIN v : i < j => i + 1 < j + 1
    BY <1>3
  <2> QED
    BY <1>1, <2>1, <2>2, <2>3 DEF Good, EventOrder
<1>8. TurnOrder(h, link[r], v, q, stored[r])
  <2>1. \A i \in DOMAIN v : i + 1 \in DOMAIN w /\ v[i] = w[i + 1]
    BY <1>3
  <2>2. ASSUME NEW i \in DOMAIN w, w[i].event = "done"
        PROVE  e.event = "done" \/ \E j \in DOMAIN v : v[j].event = "done"
    <3>1. CASE i = 1
      BY <1>3, <2>2, <3>1
    <3>2. CASE i # 1
      <4>1. i - 1 \in DOMAIN v /\ v[i - 1] = w[i]
        BY <1>3, <3>2
      <4> QED
        BY <2>2, <4>1
    <3> QED
      BY <3>1, <3>2
  <2> QED
    BY <1>1, <1>2, <1>5, <2>1, <2>2 DEF Good, TurnOrder
<1>9. PageOrder(h, link[r], v, q)
  BY <1>2, <1>5, <1>6 DEF PageOrder, Terminal
<1>10. link[r] \in Links
  BY <1>2 DEF Links
<1> QED
  BY <1>3, <1>4, <1>5, <1>7, <1>8, <1>9, <1>10, PageKeeps DEF h

LEMMA FailedMessage ==
    ASSUME NEW m \in Page, NEW b \in BOOLEAN
    PROVE  /\ Failed(m, b) \in Page /\ Failed(m, b).state = "failed"
           /\ Failed(m, b).content = "draft" => Failed(m, b).partial
  BY DEF Failed, Page

(* The end of a stream that sent no terminal event stored no turn.           *)
LEMMA ReadEndKeeps == ASSUME StreamInv, NEW r \in Requests, ReadEnd(r) PROVE StreamInv'
<1> DEFINE b == page[r].content \in {"draft", "final", "fallback"}
           q == Failed(page[r], b)
<1>1. Good(handler[r], link[r], wire[r], page[r], stored[r])
  BY DEF StreamInv, GoodRequest
<1>2. b \in BOOLEAN
  OBVIOUS
<1>3. /\ page' = [page EXCEPT ![r] = q] /\ wire' = [wire EXCEPT ![r] = <<>>]
      /\ link' = [link EXCEPT ![r] = "open"] /\ UNCHANGED <<handler, stored, sentDone>>
  BY DEF ReadEnd, StreamInv, Domains
<1> HIDE DEF b
<1>4. q \in Page /\ q.state = "failed" /\ (q.content = "draft" => q.partial)
  BY <1>1, <1>2, FailedMessage DEF Good
<1> HIDE DEF q
<1>5. EventOrder(handler[r], <<>>)
  BY DEF EventOrder
<1>6. TurnOrder(handler[r], "open", <<>>, q, stored[r])
  BY <1>1 DEF ReadEnd, At, Good, TurnOrder, Closing
<1>7. PageOrder(handler[r], "open", <<>>, q)
  BY <1>4 DEF ReadEnd, At, PageOrder, Closing
<1>8. "open" \in Links /\ <<>> \in Seq(Event)
  BY DEF Links
<1> QED
  BY <1>3, <1>4, <1>5, <1>6, <1>7, <1>8, PageKeeps

LEMMA DisconnectKeeps == ASSUME StreamInv, NEW r \in Requests, Disconnect(r) PROVE StreamInv'
<1>1. Good(handler[r], link[r], wire[r], page[r], stored[r])
  BY DEF StreamInv, GoodRequest
<1>2. PICK q \in Page :
          /\ page' = [page EXCEPT ![r] = q]
          /\ q.state \in {"cancelled", "failed"}
          /\ q.content = "draft" => q.state = "cancelled" \/ q.partial
  <2>1. CASE page' = [page EXCEPT ![r] = Failed(@, FALSE)]
    BY <1>1, <2>1, FailedMessage DEF Good
  <2>2. CASE page' = [page EXCEPT ![r].state = "cancelled"]
    <3>1. /\ [page[r] EXCEPT !.state = "cancelled"] \in Page
          /\ [page[r] EXCEPT !.state = "cancelled"].state = "cancelled"
      BY <1>1 DEF Good, Page
    <3> QED
      BY <2>2, <3>1
  <2> QED
    BY <2>1, <2>2 DEF Disconnect
<1>3. /\ wire' = [wire EXCEPT ![r] = <<>>] /\ link' = [link EXCEPT ![r] = "cut"]
      /\ UNCHANGED <<handler, stored, sentDone>>
  BY DEF Disconnect
<1>4. EventOrder(handler[r], <<>>)
  BY DEF EventOrder
<1>5. TurnOrder(handler[r], "cut", <<>>, q, stored[r])
  BY <1>1 DEF Good, TurnOrder
<1>6. PageOrder(handler[r], "cut", <<>>, q)
  BY <1>1, <1>2 DEF Disconnect, Good, PageOrder
<1>7. "cut" \in Links /\ <<>> \in Seq(Event)
  BY DEF Links
<1> QED
  BY <1>2, <1>3, <1>4, <1>5, <1>6, <1>7, PageKeeps

LEMMA NoticeKeeps == ASSUME StreamInv, NEW r \in Requests, Notice(r) PROVE StreamInv'
<1>1. Good(handler[r], "cut", wire[r], page[r], stored[r])
  BY DEF StreamInv, GoodRequest, Notice
<1>2. /\ wire' = [wire EXCEPT ![r] = wire[r]] /\ link' = [link EXCEPT ![r] = "noticed"]
      /\ page' = [page EXCEPT ![r] = page[r]] /\ UNCHANGED <<handler, stored, sentDone>>
  BY DEF Notice, browser, StreamInv, Domains
<1>3. TurnOrder(handler[r], "noticed", wire[r], page[r], stored[r])
  BY <1>1 DEF Good, TurnOrder
<1>4. PageOrder(handler[r], "noticed", wire[r], page[r])
  BY <1>1 DEF Good, PageOrder
<1> QED
  BY <1>1, <1>2, <1>3, <1>4, PageKeeps DEF Good, Links

LEMMA StepKeeps == ASSUME StreamInv, [Next]_vars PROVE StreamInv'
<1>1. CASE Elsewhere
  BY <1>1 DEF Elsewhere, browser, StreamInv, Domains, GoodRequest
<1>2. CASE UNCHANGED vars
  BY <1>2 DEF vars, browser, StreamInv, Domains, GoodRequest
<1>3. ASSUME NEW r \in Requests,
             \/ AskStream(r) \/ Ask(r) \/ Serve(r)
             \/ Read(r) \/ ReadEnd(r) \/ Disconnect(r) \/ Notice(r)
      PROVE  StreamInv'
  BY <1>3, ArrivalKeeps, QueueKeeps, EndingKeeps, StreamKeeps, ReadKeeps, ReadEndKeeps,
     DisconnectKeeps, NoticeKeeps DEF Serve
<1> QED
  BY <1>1, <1>2, <1>3 DEF Next

(* Whatever the interleaving of handlers, connections and pages: at most one *)
(* terminal event ends a stream, no increment follows the answer that        *)
(* replaced the draft, a draft on the page is marked, and a request that     *)
(* failed stores no turn (rag_stream_generator, streamAsk, chatStore).       *)
THEOREM StreamSafety == Spec => []StreamContract
<1>1. Init => StreamInv
  BY InitGood
<1>2. StreamInv /\ [Next]_vars => StreamInv'
  BY StepKeeps
<1>3. StreamInv => StreamContract
  BY InvIsContract
<1> QED
  BY <1>1, <1>2, <1>3, PTL DEF Spec

-----------------------------------------------------------------------------
(* The directory of the builds: every write is newer than all before it.    *)

Newest == \A p \in RootPaths : stamp[p] <= rootWrites

RootInv == RootTypeOK /\ Newest

\* What is remembered of a path is no newer than its last write.
Past(m) ==
    /\ DOMAIN m = RootPaths
    /\ \A p \in RootPaths : m[p] \in Nat /\ m[p] <= rootWrites

-----------------------------------------------------------------------------
(* The readiness.                                                           *)

ClosurePaths(g) == {PointerPath} \cup {g} \X BuildFiles

\* Signatures of paths that were good when they were looked at: the pointer led
\* to g, and the files were as they were built.
Seen(o, g) ==
    /\ g \in Generations /\ g > 0
    /\ PointerPath \in DOMAIN o
    /\ DOMAIN o \subseteq ClosurePaths(g)
    /\ \A p \in DOMAIN o :
          /\ o[p] \in Nat /\ o[p] <= stamp[p]
          /\ o[p] = stamp[p] => IF p = PointerPath THEN pointer = g ELSE intact[p]

CheckerShape ==
    checker = [pc |-> checker.pc, force |-> checker.force, active |-> checker.active,
               left |-> checker.left, observed |-> checker.observed,
               passes |-> checker.passes, lastPass |-> checker.lastPass,
               invalid |-> checker.invalid]

CacheShape ==
    cache = [known |-> cache.known, kind |-> cache.kind, mark |-> cache.mark,
             failure |-> cache.failure, due |-> cache.due, ready |-> cache.ready]

Verifying == checker.pc \in {"files", "fingerprint", "compare"}

PassesInv ==
    /\ \A m \in checker.passes : Past(m)
    /\ checker.pc \in {"pointer", "files", "fingerprint", "compare", "failure"}
          => checker.passes # {}

\* A tree that did not move since the first pass is the one the verifier saw.
ObservedInv ==
    Verifying =>
        /\ Seen(checker.observed, checker.active)
        /\ checker.passes = {stamp} =>
              \A p \in DOMAIN checker.observed : checker.observed[p] = stamp[p]

LeftInv ==
    /\ CheckerAt("files") =>
          /\ checker.left \in Seq(BuildFiles)
          /\ checker.left # <<>>
          /\ \A f \in BuildFiles :
                \/ <<checker.active, f>> \in DOMAIN checker.observed
                \/ \E i \in DOMAIN checker.left : checker.left[i] = f
    /\ checker.pc \in {"fingerprint", "compare"} =>
          \A f \in BuildFiles : <<checker.active, f>> \in DOMAIN checker.observed

FailureInv ==
    CheckerAt("failure") /\ checker.invalid /\ checker.passes = {stamp} => ~Whole

CacheInv ==
    /\ cache.ready =>
          \E g \in Generations : /\ Seen(cache.mark, g)
                                 /\ DOMAIN cache.mark = ClosurePaths(g)
    /\ cache.failure = "invalid" /\ cache.mark # <<>> =>
          Past(cache.mark) /\ (cache.mark = stamp => ~Whole)

\* The histories of a request contain the present.
HistoryInv ==
    ~CheckerAt("idle") => (Whole => seenWhole) /\ (~Whole => seenBroken)

ReadyInv ==
    /\ ReadyTypeOK /\ CheckerShape /\ CacheShape
    /\ PassesInv /\ ObservedInv /\ LeftInv /\ FailureInv /\ CacheInv
    /\ HistoryInv /\ ReadyIsTrue

-----------------------------------------------------------------------------
(* The load.                                                                *)

LoaderShape ==
    loader = [pc |-> loader.pc, configured |-> loader.configured, verdict |-> loader.verdict,
              snapshot |-> loader.snapshot, left |-> loader.left, hashed |-> loader.hashed,
              text |-> loader.text, media |-> loader.media, loaded |-> loader.loaded]

LoaderTypeOK ==
    /\ loader.pc \in {"idle", "verify", "resolve", "hash", "milvus", "vectorstore",
                      "text", "media"}
    /\ loader.verdict \in {"none", "pass", "blocked"}
    /\ loader.configured \in Generations
    /\ loader.hashed \in [BuildFiles -> Nat]

\* A file that was as it was built when it was hashed.
HashedOK(f) ==
    LET p == <<loader.snapshot, f>>
    IN  /\ loader.hashed[f] <= stamp[p]
        /\ loader.hashed[f] = stamp[p] => intact[p]

VerdictInv ==
    /\ ~LoaderAt("idle") => loader.verdict # "blocked"
    /\ loader.pc \in {"vectorstore", "text", "media"} => loader.verdict = "pass"
    /\ loader.loaded => LoaderAt("idle")

HashInv ==
    /\ loader.pc \in {"hash", "milvus", "text", "media"} => loader.snapshot \in Generations
    /\ LoaderAt("hash") =>
          /\ loader.left \in Seq(BuildFiles)
          /\ loader.left # <<>>
          /\ \A f \in BuildFiles :
                HashedOK(f) \/ \E i \in DOMAIN loader.left : loader.left[i] = f
    /\ loader.pc \in {"text", "media"} =>
          /\ loader.snapshot = loader.configured
          /\ \A f \in BuildFiles : HashedOK(f)

TextInv ==
    LoaderAt("media") =>
        /\ loader.text.of = loader.configured
        /\ ~loader.text.whole => loader.text.stamp > loader.hashed["children"]

LoadInv ==
    /\ LoaderShape /\ LoaderTypeOK /\ VerdictInv /\ HashInv /\ TextInv
    /\ ServedIsVerified

ServiceInv ==
    /\ RootInv /\ ReadyInv /\ LoadInv
    /\ part # "ready" => CheckerAt("idle")

-----------------------------------------------------------------------------
(* What a step of the directory does to the stamps.                         *)

Later ==
    /\ rootWrites \in Nat /\ rootWrites' \in Nat /\ rootWrites <= rootWrites'
    /\ \A p \in RootPaths :
          /\ stamp[p] \in Nat /\ stamp'[p] \in Nat
          /\ stamp[p] <= rootWrites /\ stamp[p] <= stamp'[p]
    /\ DOMAIN stamp = RootPaths /\ DOMAIN stamp' = RootPaths
    /\ stamp'[PointerPath] = stamp[PointerPath] => pointer' = pointer
    /\ \A p \in Generations \X BuildFiles : stamp'[p] = stamp[p] => intact'[p] = intact[p]
    /\ stamp' = stamp \/ \E p \in RootPaths : stamp'[p] > rootWrites

LEMMA GenerationsAreNat == Generations \in SUBSET Nat /\ LastGeneration \in Nat /\ 0 \in Generations
  BY BuildRootAssumption DEF Generations

LEMMA PathsDiffer ==
    /\ PointerPath \in RootPaths
    /\ Generations \X BuildFiles \subseteq RootPaths
    /\ \A p \in Generations \X BuildFiles : p # PointerPath
<1>1. NoPointer \notin Generations
  BY GenerationsAreNat DEF NoPointer
<1> QED
  BY <1>1 DEF RootPaths, PointerPath

LEMMA RootStands ==
    ASSUME RootInv, UNCHANGED rootVars PROVE RootInv' /\ Later
<1>1. RootInv'
  BY DEF RootInv, RootTypeOK, Newest, rootVars
<1>2. Later
  BY BuildRootAssumption DEF RootInv, RootTypeOK, Newest, rootVars, Later
<1> QED
  BY <1>1, <1>2

LEMMA RootMoves ==
    ASSUME RootInv, RootNext PROVE RootInv' /\ Later
<1> USE DEF RootInv, RootTypeOK, Newest
<1>1. /\ rootWrites \in Nat /\ MaxRootWrites \in Nat
      /\ rootWrites' = rootWrites + 1 /\ rootWrites' \in 0 .. MaxRootWrites
  BY BuildRootAssumption DEF RootNext, ReplaceSettings, ReplacePointer, WriteBuildFile, RootWrite
<1>2. \A p \in RootPaths : stamp[p] \in Nat /\ stamp[p] <= rootWrites
  BY <1>1
<1>3. CASE ReplaceSettings
  <2>1. /\ settings' \in Generations /\ UNCHANGED <<pointer, intact, stamp>>
    BY <1>3 DEF ReplaceSettings
  <2>2. stamp' \in [RootPaths -> 0 .. MaxRootWrites] /\ \A p \in RootPaths : stamp'[p] <= rootWrites'
    BY <2>1, <1>1, <1>2
  <2>3. RootInv'
    BY <2>1, <2>2, <1>1
  <2>4. Later
    BY <2>1, <1>1, <1>2 DEF Later
  <2> QED
    BY <2>3, <2>4
<1>4. ASSUME NEW p \in RootPaths, stamp' = [stamp EXCEPT ![p] = rootWrites']
      PROVE  /\ stamp' \in [RootPaths -> 0 .. MaxRootWrites]
             /\ \A q \in RootPaths : /\ stamp'[q] <= rootWrites' /\ stamp'[q] \in Nat
                                     /\ stamp[q] <= stamp'[q]
             /\ stamp'[p] > rootWrites /\ stamp'[p] # stamp[p]
  <2>1. stamp' \in [RootPaths -> 0 .. MaxRootWrites]
    BY <1>1, <1>4
  <2>2. stamp'[p] = rootWrites'
    BY <1>4
  <2>3. \A q \in RootPaths \ {p} : stamp'[q] = stamp[q]
    BY <1>4
  <2> QED
    BY <2>1, <2>2, <2>3, <1>1, <1>2
<1>5. CASE ReplacePointer
  <2>1. /\ pointer' \in Generations /\ UNCHANGED <<settings, intact>>
        /\ stamp' = [stamp EXCEPT ![PointerPath] = rootWrites']
    BY <1>5 DEF ReplacePointer
  <2>2. RootInv'
    BY <2>1, <1>1, <1>4, PathsDiffer
  <2>3. Later
    BY <2>1, <1>1, <1>2, <1>4, <2>2, PathsDiffer DEF Later
  <2> QED
    BY <2>2, <2>3
<1>6. CASE WriteBuildFile
  <2>1. PICK p \in Generations \X BuildFiles :
           /\ intact' = [intact EXCEPT ![p] = ~@]
           /\ stamp' = [stamp EXCEPT ![p] = rootWrites']
           /\ UNCHANGED <<pointer, settings>>
    BY <1>6 DEF WriteBuildFile
  <2>2. RootInv'
    BY <2>1, <1>1, <1>4, PathsDiffer
  <2>3. \A q \in Generations \X BuildFiles : stamp'[q] = stamp[q] => intact'[q] = intact[q]
    <3>1. \A q \in Generations \X BuildFiles : q # p => intact'[q] = intact[q]
      BY <2>1
    <3> QED
      BY <3>1, <2>1, <1>4, PathsDiffer
  <2>4. Later
    BY <2>1, <1>1, <1>2, <1>4, <2>2, <2>3, PathsDiffer DEF Later
  <2> QED
    BY <2>2, <2>4
<1> QED
  BY <1>3, <1>5, <1>6 DEF RootNext

LEMMA WholeStands ==
    ASSUME RootInv, RootInv', Later, stamp' = stamp PROVE Whole' <=> Whole
  BY GenerationsAreNat DEF Later, Whole, RootInv, RootTypeOK

LEMMA SeenStands ==
    ASSUME Later, NEW o, NEW g, Seen(o, g) PROVE Seen(o, g)'
<1>1. DOMAIN o \subseteq RootPaths
  BY DEF Seen, ClosurePaths, RootPaths
<1>2. /\ g \in Generations /\ g > 0 /\ PointerPath \in DOMAIN o
      /\ DOMAIN o \subseteq ClosurePaths(g)
  BY DEF Seen
<1>3. ASSUME NEW p \in DOMAIN o
      PROVE  /\ o[p] \in Nat /\ o[p] <= stamp'[p]
             /\ o[p] = stamp'[p] => IF p = PointerPath THEN pointer' = g ELSE intact'[p]
  <2>1. p \in RootPaths /\ (p # PointerPath => p \in Generations \X BuildFiles)
    BY <1>1, <1>3 DEF RootPaths
  <2>2. o[p] \in Nat /\ o[p] <= stamp[p] /\ stamp[p] <= stamp'[p] /\ stamp[p] \in Nat /\ stamp'[p] \in Nat
    BY <2>1, <1>3 DEF Seen, Later
  <2>3. ASSUME o[p] = stamp'[p] PROVE IF p = PointerPath THEN pointer' = g ELSE intact'[p]
    <3>1. o[p] = stamp[p] /\ stamp'[p] = stamp[p]
      BY <2>2, <2>3
    <3>2. IF p = PointerPath THEN pointer = g ELSE intact[p]
      BY <3>1, <1>3 DEF Seen
    <3> QED
      BY <3>1, <3>2, <2>1 DEF Later
  <2> QED
    BY <2>2, <2>3
<1> QED
  BY <1>2, <1>3 DEF Seen

LEMMA PastStands ==
    ASSUME Later, NEW m, Past(m)
    PROVE  Past(m)' /\ (m = stamp' => m = stamp /\ stamp' = stamp)
<1>1. Past(m)'
  BY DEF Past, Later
<1>2. ASSUME m = stamp' PROVE stamp' = stamp
  BY <1>2 DEF Past, Later
<1> QED
  BY <1>1, <1>2

\* The signatures are those of now: the closure is whole.
LEMMA SeenNow ==
    ASSUME NEW o, NEW g, Seen(o, g), \A p \in DOMAIN o : o[p] = stamp[p],
           \A f \in BuildFiles : <<g, f>> \in DOMAIN o
    PROVE  Whole
<1>1. pointer = g
  BY DEF Seen
<1>2. \A f \in BuildFiles : <<g, f>> # PointerPath
  BY PathsDiffer DEF Seen
<1>3. \A f \in BuildFiles : intact[<<g, f>>]
  BY <1>2 DEF Seen
<1> QED
  BY <1>1, <1>3 DEF Whole, Seen

LEMMA StampIsPast ==
    ASSUME RootInv PROVE Past(stamp)
  BY BuildRootAssumption DEF RootInv, RootTypeOK, Newest, Past

\* The first of the files that are left, and the others.
LEMMA HeadAndRest ==
    ASSUME NEW left \in Seq(BuildFiles), left # <<>>
    PROVE  /\ Head(left) \in BuildFiles /\ Tail(left) \in Seq(BuildFiles)
           /\ \A i \in DOMAIN left :
                 \/ left[i] = Head(left)
                 \/ \E j \in DOMAIN Tail(left) : Tail(left)[j] = left[i]
<1>1. Len(left) \in Nat \ {0} /\ DOMAIN left = 1 .. Len(left)
  OBVIOUS
<1>2. Head(left) = left[1] /\ left[1] \in BuildFiles
  BY <1>1
<1>3. /\ Tail(left) \in Seq(BuildFiles) /\ Len(Tail(left)) = Len(left) - 1
      /\ \A i \in 1 .. Len(Tail(left)) : Tail(left)[i] = left[i + 1]
  BY HeadTailProperties
<1>4. DOMAIN Tail(left) = 1 .. Len(Tail(left))
  BY <1>3
<1>5. ASSUME NEW i \in DOMAIN left, i # 1
      PROVE  \E j \in DOMAIN Tail(left) : Tail(left)[j] = left[i]
  <2>1. /\ i - 1 \in DOMAIN Tail(left) /\ Tail(left)[i - 1] = left[(i - 1) + 1]
        /\ (i - 1) + 1 = i
    BY <1>1, <1>3, <1>4, <1>5
  <2> QED
    BY <2>1
<1> QED
  BY <1>2, <1>3, <1>5

-----------------------------------------------------------------------------
(* The readiness, step by step.                                             *)

Working == {"lookup", "input", "pointer", "files", "fingerprint", "compare", "failure"}

LEMMA InitReady ==
    ASSUME RootInit, ReadyInit PROVE ReadyInv
<1> USE DEF ReadyInit, Checker0, Cache0
<1>1. ReadyTypeOK /\ CheckerShape /\ CacheShape
  BY DEF ReadyTypeOK, CheckerShape, CacheShape
<1>2. PassesInv /\ ObservedInv /\ LeftInv /\ FailureInv /\ CacheInv /\ HistoryInv /\ ReadyIsTrue
  BY DEF PassesInv, ObservedInv, Verifying, LeftInv, FailureInv, CacheInv, HistoryInv,
     ReadyIsTrue, CheckerAt
<1> QED
  BY <1>1, <1>2 DEF ReadyInv

\* The directory moves, or nothing does, while no step of the readiness is taken.
LEMMA ReadyStands ==
    ASSUME RootInv, RootInv', Later, ReadyInv,
           UNCHANGED <<checker, cache, answered, response>>,
           \/ CheckerAt("idle") /\ UNCHANGED <<seenWhole, seenBroken>>
           \/ History(CheckerAt("idle"))
    PROVE  ReadyInv'
<1> USE DEF ReadyInv
<1>1. ReadyTypeOK' /\ CheckerShape' /\ CacheShape'
  BY DEF ReadyTypeOK, CheckerShape, CacheShape
<1>2. PassesInv'
  <2>1. ASSUME NEW m \in checker.passes PROVE Past(m)'
    BY <2>1, PastStands DEF PassesInv
  <2> QED
    BY <2>1 DEF PassesInv
<1>3. ASSUME checker.passes = {stamp'}, checker.pc \in Working
      PROVE  checker.passes = {stamp} /\ stamp' = stamp
  <2>1. PICK m : m = stamp'
    OBVIOUS
  <2>2. m \in checker.passes
    BY <1>3, <2>1
  <2>3. Past(m)
    BY <2>2 DEF PassesInv
  <2> QED
    BY <2>1, <2>3, PastStands, <1>3
<1>4. ObservedInv'
  <2> SUFFICES ASSUME Verifying PROVE ObservedInv'
    BY DEF ObservedInv, Verifying
  <2>1. PICK o, g : o = checker.observed /\ g = checker.active
    OBVIOUS
  <2>2. Seen(o, g)'
    BY <2>1, SeenStands DEF ObservedInv
  <2>3. ASSUME checker.passes = {stamp'} PROVE \A p \in DOMAIN o : o[p] = stamp'[p]
    BY <2>1, <2>3, <1>3 DEF ObservedInv, Verifying, Working
  <2> QED
    BY <2>1, <2>2, <2>3 DEF ObservedInv
<1>5. LeftInv'
  BY DEF LeftInv, CheckerAt
<1>6. FailureInv'
  BY <1>3, WholeStands DEF FailureInv, CheckerAt, Working
<1>7. CacheInv'
  <2>1. ASSUME cache.ready
        PROVE  \E g \in Generations : Seen(cache.mark, g)' /\ DOMAIN cache.mark = ClosurePaths(g)
    <3>1. PICK g \in Generations : Seen(cache.mark, g) /\ DOMAIN cache.mark = ClosurePaths(g)
      BY <2>1 DEF CacheInv
    <3>2. PICK o : o = cache.mark
      OBVIOUS
    <3>3. Seen(o, g)'
      BY <3>1, <3>2, SeenStands
    <3>4. Seen(cache.mark, g)'
      BY <3>2, <3>3
    <3> QED
      BY <3>1, <3>4
  <2>2. ASSUME cache.failure = "invalid", cache.mark # <<>>
        PROVE  Past(cache.mark)' /\ (cache.mark = stamp' => ~Whole')
    <3>1. PICK m : m = cache.mark
      OBVIOUS
    <3>2. Past(m) /\ (m = stamp => ~Whole)
      BY <3>1, <2>2 DEF CacheInv
    <3>3. Past(m)' /\ (m = stamp' => ~Whole')
      BY <3>2, PastStands, WholeStands
    <3> QED
      BY <3>1, <3>3
  <2> QED
    BY <2>1, <2>2 DEF CacheInv, ClosurePaths
<1>8. HistoryInv' /\ ReadyIsTrue'
  BY DEF HistoryInv, ReadyIsTrue, CheckerAt, History
<1> QED
  BY <1>1, <1>2, <1>4, <1>5, <1>6, <1>7, <1>8

\* A step of the verification that gives no answer.
LEMMA WorkKeeps ==
    ASSUME RootInv, ReadyInv, UNCHANGED rootVars, UNCHANGED <<cache, answer>>,
           ~CheckerAt("idle"), History(FALSE),
           CheckerShape', checker'.pc \in Working,
           PassesInv', ObservedInv', LeftInv', FailureInv'
    PROVE  ReadyInv'
<1>1. ReadyTypeOK' /\ CacheShape'
  BY DEF ReadyInv, ReadyTypeOK, CacheShape, Working, answer
<1>2. CacheInv'
  BY DEF ReadyInv, CacheInv, rootVars, Seen, ClosurePaths, Past, Whole
<1>3. HistoryInv' /\ ReadyIsTrue'
  BY DEF HistoryInv, ReadyIsTrue, CheckerAt, History, Working
<1> QED
  BY <1>1, <1>2, <1>3 DEF ReadyInv

\* An answer that is true now.
LEMMA AnswerKeeps ==
    ASSUME RootInv, ReadyInv, UNCHANGED rootVars, ~CheckerAt("idle"), History(FALSE),
           CacheShape', CacheInv', cache'.failure \in {"none", "transient", "invalid"},
           cache'.kind = "closure" <=> cache'.ready,
           NEW ready \in BOOLEAN, Answer(ready),
           ready => Whole, ~ready /\ cache'.failure = "invalid" => ~Whole
    PROVE  ReadyInv'
<1>1. checker' = Checker0 /\ checker'.pc = "idle"
  BY DEF Answer, Checker0
<1>2. answered' = IF ready THEN "pass" ELSE cache'.failure
  BY DEF Answer
<1>3. response' = "ready" => ready
  BY DEF Answer, Response
<1>4. ReadyTypeOK' /\ CheckerShape'
  BY <1>1, <1>2 DEF ReadyTypeOK, CheckerShape, Checker0
<1>5. PassesInv' /\ ObservedInv' /\ LeftInv' /\ FailureInv' /\ HistoryInv'
  BY <1>1 DEF PassesInv, ObservedInv, Verifying, LeftInv, FailureInv, HistoryInv, CheckerAt,
     Checker0
<1>6. (Whole => seenWhole') /\ (~Whole => seenBroken')
  BY DEF History, Whole, rootVars
<1>7. ReadyIsTrue'
  BY <1>2, <1>3, <1>6 DEF ReadyIsTrue
<1> QED
  BY <1>4, <1>5, <1>7 DEF ReadyInv

LEMMA CacheStands ==
    ASSUME ReadyInv, UNCHANGED <<rootVars, cache>>
    PROVE  /\ CacheShape' /\ CacheInv'
           /\ cache'.failure \in {"none", "transient", "invalid"}
           /\ cache'.kind = "closure" <=> cache'.ready
  BY DEF ReadyInv, ReadyTypeOK, CacheShape, CacheInv, rootVars, Seen, ClosurePaths, Past, Whole

LEMMA AskKeeps ==
    ASSUME RootInv, ReadyInv, NEW force, AskReady(force), UNCHANGED rootVars PROVE ReadyInv'
<1>1. checker' = [Checker0 EXCEPT !.pc = "lookup", !.force = force]
  BY DEF AskReady
<1>2. /\ checker'.pc = "lookup" /\ checker'.passes = {}
      /\ CheckerShape'
  BY <1>1 DEF Checker0, CheckerShape
<1>3. ReadyTypeOK' /\ CacheShape' /\ CacheInv'
  BY <1>2, CacheStands DEF ReadyInv, ReadyTypeOK, AskReady, answer
<1>4. PassesInv' /\ ObservedInv' /\ LeftInv' /\ FailureInv' /\ ReadyIsTrue'
  BY <1>2 DEF PassesInv, ObservedInv, Verifying, LeftInv, FailureInv, ReadyIsTrue, CheckerAt
<1>5. HistoryInv'
  BY DEF HistoryInv, AskReady, Whole, rootVars
<1> QED
  BY <1>2, <1>3, <1>4, <1>5 DEF ReadyInv

\* The fingerprint of what was found still fits: it is still so.
LEMMA FitsIsTrue ==
    ASSUME ReadyInv, Fits
    PROVE  (cache.ready => Whole) /\ (cache.failure = "invalid" /\ ~cache.ready => ~Whole)
<1>1. ASSUME cache.ready PROVE Whole
  <2>1. PICK g \in Generations : Seen(cache.mark, g) /\ DOMAIN cache.mark = ClosurePaths(g)
    BY <1>1 DEF ReadyInv, CacheInv
  <2>2. cache.mark = ClosurePass(cache.mark)
    BY <1>1 DEF Fits, ReadyInv, ReadyTypeOK
  <2>3. \A p \in DOMAIN cache.mark : cache.mark[p] = stamp[p]
    BY <2>2 DEF ClosurePass, StampsOf
  <2>4. \A f \in BuildFiles : <<g, f>> \in DOMAIN cache.mark
    BY <2>1 DEF ClosurePaths
  <2> QED
    BY <2>1, <2>3, <2>4, SeenNow
<1>2. ASSUME cache.failure = "invalid", ~cache.ready PROVE ~Whole
  <2>1. cache.mark = stamp /\ cache.mark # <<>>
    BY <1>2 DEF Fits, TreePass, ReadyInv, ReadyTypeOK
  <2> QED
    BY <2>1, <1>2 DEF ReadyInv, CacheInv
<1> QED
  BY <1>1, <1>2

LEMMA LookupKeeps ==
    ASSUME RootInv, ReadyInv, Lookup, UNCHANGED rootVars, History(FALSE) PROVE ReadyInv'
<1>1. ~CheckerAt("idle") /\ checker.pc = "lookup" /\ UNCHANGED cache
  BY DEF Lookup, CheckerAt
<1>2. CASE ~checker.force /\ (Waits \/ Fits)
  <2>1. Answer(~Waits /\ cache.ready)
    BY <1>2 DEF Lookup
  <2>2. PICK ready \in BOOLEAN : ready <=> (~Waits /\ cache.ready)
    OBVIOUS
  <2>3. Answer(ready)
    BY <2>1, <2>2
  <2>4. ready => Whole
    BY <2>2, <1>2, FitsIsTrue
  <2>5. ~ready /\ cache'.failure = "invalid" => ~Whole
    BY <2>2, <1>1, <1>2, FitsIsTrue DEF Waits
  <2> QED
    BY <1>1, <2>3, <2>4, <2>5, AnswerKeeps, CacheStands
<1>3. CASE ~(~checker.force /\ (Waits \/ Fits))
  <2>1. checker' = [checker EXCEPT !.pc = "input"] /\ UNCHANGED answer
    BY <1>3 DEF Lookup, CheckerTo
  <2>2. /\ checker'.pc = "input" /\ checker'.passes = checker.passes
        /\ CheckerShape'
    BY <2>1 DEF ReadyInv, CheckerShape
  <2>3. PassesInv' /\ ObservedInv' /\ LeftInv' /\ FailureInv'
    BY <2>2 DEF ReadyInv, PassesInv, Past, rootVars, ObservedInv, Verifying, LeftInv,
       FailureInv, CheckerAt, RootPaths
  <2> QED
    BY <1>1, <2>1, <2>2, <2>3, WorkKeeps DEF Working
<1> QED
  BY <1>2, <1>3

LEMMA PassesKeep ==
    ASSUME RootInv, ReadyInv, UNCHANGED rootVars,
           checker'.passes \in {checker.passes, {stamp}, checker.passes \cup {stamp}},
           checker'.pc \in {"input", "pointer", "files", "fingerprint", "compare", "failure"},
           checker'.pc # "input" => checker'.passes # {}
    PROVE  PassesInv'
<1>1. \A m \in checker'.passes : Past(m)
  BY StampIsPast DEF ReadyInv, PassesInv
<1> QED
  BY <1>1 DEF PassesInv, Past, rootVars

\* The verification has failed; what it found invalid is so, unless the tree moved.
LEMMA FailingKeeps ==
    ASSUME RootInv, ReadyInv, UNCHANGED rootVars, UNCHANGED <<cache, answer>>,
           ~CheckerAt("idle"), History(FALSE), CheckerShape', checker'.pc = "failure",
           checker'.passes \in {checker.passes, checker.passes \cup {stamp}},
           checker'.passes # {},
           checker'.invalid /\ checker'.passes = {stamp} => ~Whole
    PROVE  ReadyInv'
<1>1. PassesInv'
  BY PassesKeep
<1>2. ObservedInv' /\ LeftInv' /\ FailureInv'
  BY DEF ObservedInv, Verifying, LeftInv, FailureInv, CheckerAt, Whole, rootVars
<1> QED
  BY <1>1, <1>2, WorkKeeps DEF Working

LEMMA FailsKeeps ==
    ASSUME RootInv, ReadyInv, UNCHANGED rootVars, UNCHANGED <<cache, answer>>,
           checker.pc \in {"pointer", "files", "fingerprint", "compare"}, History(FALSE),
           NEW invalid, Fails(invalid),
           invalid /\ checker.passes = {stamp} => ~Whole
    PROVE  ReadyInv'
<1>1. /\ checker'.pc = "failure" /\ checker'.passes = checker.passes
      /\ checker'.invalid = invalid
      /\ CheckerShape'
  BY DEF Fails, ReadyInv, CheckerShape
<1>2. checker.passes # {}
  BY DEF ReadyInv, PassesInv
<1>3. checker'.invalid /\ checker'.passes = {stamp} => ~Whole
  BY <1>1
<1> QED
  BY <1>1, <1>2, <1>3, FailingKeeps DEF CheckerAt

LEMMA VerifierFailsKeeps ==
    ASSUME RootInv, ReadyInv, VerifierFails, UNCHANGED rootVars, History(FALSE) PROVE ReadyInv'
  BY FailsKeeps DEF VerifierFails

LEMMA InputPassKeeps ==
    ASSUME RootInv, ReadyInv, InputPass, UNCHANGED rootVars, History(FALSE) PROVE ReadyInv'
<1>1. checker.pc = "input" /\ ~CheckerAt("idle") /\ UNCHANGED <<cache, answer>>
  BY DEF InputPass, CheckerAt
<1>2. /\ CheckerShape' /\ checker'.pc \in {"input", "pointer"}
      /\ \/ checker'.pc = "input" /\ checker'.passes = {stamp}
         \/ checker'.pc = "pointer" /\ checker'.passes = checker.passes \cup {stamp}
  <2>1. CASE checker' = [checker EXCEPT !.lastPass = TreePass, !.passes = {TreePass}]
    BY <2>1, <1>1 DEF ReadyInv, CheckerShape, TreePass
  <2>2. CASE checker' = [checker EXCEPT !.pc = "pointer", !.lastPass = <<>>,
                                        !.passes = @ \cup {TreePass}]
    BY <2>2, <1>1 DEF ReadyInv, CheckerShape, TreePass
  <2> QED
    BY <2>1, <2>2 DEF InputPass
<1>3. PassesInv'
  BY <1>2, PassesKeep
<1>4. ObservedInv' /\ LeftInv' /\ FailureInv'
  BY <1>2 DEF ObservedInv, Verifying, LeftInv, FailureInv, CheckerAt
<1> QED
  BY <1>1, <1>2, <1>3, <1>4, WorkKeeps DEF Working

LEMMA ReadPointerKeeps ==
    ASSUME RootInv, ReadyInv, ReadPointer, UNCHANGED rootVars, History(FALSE) PROVE ReadyInv'
<1>1. checker.pc = "pointer" /\ ~CheckerAt("idle") /\ UNCHANGED <<cache, answer>>
  BY DEF ReadPointer, CheckerAt
<1>2. CASE ~(pointer > 0)
  BY <1>1, <1>2, FailsKeeps DEF ReadPointer, Whole
<1>3. CASE pointer > 0
  <2>1. checker' = [checker EXCEPT !.pc = "files", !.active = pointer,
                        !.observed = StampsOf({PointerPath}),
                        !.left = <<"manifests", "manifests", "children", "media">>]
    BY <1>3 DEF ReadPointer
  <2>2. /\ CheckerShape' /\ checker'.pc = "files" /\ checker'.active = pointer
        /\ checker'.observed = StampsOf({PointerPath})
        /\ checker'.left = <<"manifests", "manifests", "children", "media">>
        /\ checker'.passes = checker.passes /\ checker.passes # {}
    BY <2>1, <1>1 DEF ReadyInv, CheckerShape, PassesInv
  <2>3. PassesInv'
    BY <2>2, PassesKeep
  <2>4. pointer \in Generations /\ pointer > 0
    BY <1>3 DEF RootInv, RootTypeOK, NoPointer
  <2>5. /\ DOMAIN checker'.observed = {PointerPath}
        /\ checker'.observed[PointerPath] = stamp[PointerPath]
    BY <2>2 DEF StampsOf
  <2>6. stamp[PointerPath] \in Nat
    BY PathsDiffer, BuildRootAssumption DEF RootInv, RootTypeOK
  <2>8. ObservedInv'
    BY <2>2, <2>4, <2>5, <2>6 DEF ObservedInv, Seen, ClosurePaths, rootVars
  <2>9. LeftInv'
    <3>1. checker'.left \in Seq(BuildFiles) /\ checker'.left # <<>>
      BY <2>2 DEF BuildFiles
    <3>2. \A f \in BuildFiles : \E i \in DOMAIN checker'.left : checker'.left[i] = f
      <4>1. /\ DOMAIN checker'.left = 1 .. 4
            /\ checker'.left[1] = "manifests" /\ checker'.left[3] = "children"
            /\ checker'.left[4] = "media"
        BY <2>2
      <4> QED
        BY <4>1 DEF BuildFiles
    <3> QED
      BY <2>2, <3>1, <3>2 DEF LeftInv, CheckerAt
  <2>10. FailureInv'
    BY <2>2 DEF FailureInv, CheckerAt
  <2> QED
    BY <1>1, <2>2, <2>3, <2>8, <2>9, <2>10, WorkKeeps DEF Working
<1> QED
  BY <1>2, <1>3

LEMMA VerifierPassKeeps ==
    ASSUME RootInv, ReadyInv, VerifierPass, UNCHANGED rootVars, History(FALSE) PROVE ReadyInv'
<1>1. checker.pc = "fingerprint" /\ ~CheckerAt("idle") /\ UNCHANGED <<cache, answer>>
  BY DEF VerifierPass, CheckerAt
<1>2. CASE checker.observed # ClosurePass(checker.observed)
  BY <1>1, <1>2, FailsKeeps DEF VerifierPass
<1>3. CASE checker.observed = ClosurePass(checker.observed)
  <2>1. checker' = [checker EXCEPT !.pc = "compare"]
    BY <1>3 DEF VerifierPass, CheckerTo
  <2>2. /\ CheckerShape' /\ checker'.pc = "compare" /\ checker'.active = checker.active
        /\ checker'.observed = checker.observed
        /\ checker'.passes = checker.passes /\ checker.passes # {}
    BY <2>1, <1>1 DEF ReadyInv, CheckerShape, PassesInv
  <2>3. PassesInv'
    BY <2>2, PassesKeep
  <2>4. ObservedInv' /\ LeftInv' /\ FailureInv'
    BY <1>1, <2>2 DEF ReadyInv, ObservedInv, Verifying, LeftInv, FailureInv, CheckerAt, Seen,
       ClosurePaths, rootVars
  <2> QED
    BY <1>1, <2>2, <2>3, <2>4, WorkKeeps DEF Working
<1> QED
  BY <1>2, <1>3

\* A file is read, or the verifier fails at it.
LEMMA ReadDeclaredKeeps ==
    ASSUME RootInv, ReadyInv, ReadDeclared, UNCHANGED rootVars, History(FALSE) PROVE ReadyInv'
<1>1. checker.pc = "files" /\ ~CheckerAt("idle") /\ UNCHANGED <<cache, answer>>
  BY DEF ReadDeclared, CheckerAt
<1>2. /\ Seen(checker.observed, checker.active)
      /\ checker.left \in Seq(BuildFiles) /\ checker.left # <<>>
      /\ \A f \in BuildFiles :
            \/ <<checker.active, f>> \in DOMAIN checker.observed
            \/ \E i \in DOMAIN checker.left : checker.left[i] = f
  BY <1>1 DEF ReadyInv, ObservedInv, Verifying, LeftInv, CheckerAt
<1>3. PICK p, file, rest : /\ file = Head(checker.left) /\ rest = Tail(checker.left)
                           /\ p = <<checker.active, file>>
  OBVIOUS
<1>4. /\ file \in BuildFiles /\ rest \in Seq(BuildFiles)
      /\ \A i \in DOMAIN checker.left : checker.left[i] = file \/ \E j \in DOMAIN rest : rest[j] = checker.left[i]
  BY <1>2, <1>3, HeadAndRest
<1>5. /\ p \in Generations \X BuildFiles /\ p \in ClosurePaths(checker.active)
      /\ p # PointerPath /\ p \in RootPaths /\ stamp[p] \in Nat
  <2>1. checker.active \in Generations
    BY <1>2 DEF Seen
  <2>2. p \in Generations \X BuildFiles /\ p \in {checker.active} \X BuildFiles
    BY <2>1, <1>3, <1>4
  <2> QED
    BY <2>2, PathsDiffer, BuildRootAssumption DEF ClosurePaths, RootInv, RootTypeOK
<1>6. CASE Moved(p) \/ ~Declared(p)
  <2>1. Fails(~Moved(p))
    BY <1>3, <1>6 DEF ReadDeclared
  <2>2. PICK invalid \in BOOLEAN : invalid <=> ~Moved(p)
    OBVIOUS
  <2>3. Fails(invalid)
    <3>1. (~Moved(p)) = invalid
      BY <2>2 DEF Moved
    <3> QED
      BY <2>1, <3>1
  <2>4. ASSUME invalid, checker.passes = {stamp} PROVE ~Whole
    <3>1. ~Declared(p)
      BY <2>2, <2>4, <1>6
    <3>2. checker.observed[PointerPath] = stamp[PointerPath] /\ PointerPath \in DOMAIN checker.observed
      BY <2>4, <1>1, <1>2 DEF ReadyInv, ObservedInv, Verifying, Seen
    <3>3. pointer = checker.active
      BY <3>2, <1>2 DEF Seen
    <3> QED
      BY <3>1, <3>3, <1>3, <1>4 DEF Whole, Declared
  <2> QED
    BY <1>1, <2>3, <2>4, FailsKeeps
<1>7. CASE ~(Moved(p) \/ ~Declared(p))
  <2>1. checker' = [checker EXCEPT !.observed = Observe(p), !.left = rest,
                               !.pc = IF rest = <<>> THEN "fingerprint" ELSE @]
    BY <1>3, <1>7 DEF ReadDeclared
  <2>2. /\ CheckerShape' /\ checker'.pc = (IF rest = <<>> THEN "fingerprint" ELSE "files")
        /\ checker'.active = checker.active /\ checker'.left = rest
        /\ checker'.observed = Observe(p)
        /\ checker'.passes = checker.passes /\ checker.passes # {}
    BY <2>1, <1>1 DEF ReadyInv, CheckerShape, PassesInv
  <2>3. PassesInv'
    BY <2>2, PassesKeep
  <2>4. /\ DOMAIN checker'.observed = DOMAIN checker.observed \cup {p}
        /\ checker'.observed[p] = stamp[p]
        /\ \A q \in DOMAIN checker.observed : q # p => checker'.observed[q] = checker.observed[q]
    BY <2>2 DEF Observe
  <2>5. intact[p]
    BY <1>7 DEF Declared
  <2>6. Seen(checker'.observed, checker.active)
    BY <1>2, <1>5, <2>4, <2>5 DEF Seen
  <2>7. Seen(checker.observed, checker.active)'
    <3>1. PICK o, g : o = checker'.observed /\ g = checker.active
      OBVIOUS
    <3>2. Seen(o, g)
      BY <2>6, <3>1
    <3>3. Seen(o, g)'
      BY <3>2 DEF Seen, ClosurePaths, rootVars
    <3> QED
      BY <3>1, <3>3, <2>2
  <2>8. ObservedInv'
    <3>1. ASSUME checker.passes = {stamp}
          PROVE  \A q \in DOMAIN checker'.observed : checker'.observed[q] = stamp[q]
      BY <3>1, <2>4, <1>1 DEF ReadyInv, ObservedInv, Verifying
    <3> QED
      BY <2>2, <2>7, <3>1 DEF ObservedInv, rootVars
  <2>9. LeftInv'
    <3>1. \A f \in BuildFiles :
             \/ <<checker.active, f>> \in DOMAIN checker'.observed
             \/ \E i \in DOMAIN rest : rest[i] = f
      <4> SUFFICES ASSUME NEW f \in BuildFiles, <<checker.active, f>> \notin DOMAIN checker'.observed
                   PROVE  \E j \in DOMAIN rest : rest[j] = f
        OBVIOUS
      <4>1. <<checker.active, f>> \notin DOMAIN checker.observed /\ f # file
        BY <2>4, <1>3
      <4>2. PICK i \in DOMAIN checker.left : checker.left[i] = f
        BY <4>1, <1>2
      <4> QED
        BY <4>1, <4>2, <1>4
    <3>2. CASE rest = <<>>
      BY <3>1, <3>2, <2>2 DEF LeftInv, CheckerAt
    <3>3. CASE rest # <<>>
      BY <3>1, <3>3, <2>2, <1>4 DEF LeftInv, CheckerAt
    <3> QED
      BY <3>2, <3>3
  <2>10. FailureInv'
    BY <2>2 DEF FailureInv, CheckerAt
  <2> QED
    BY <1>1, <2>2, <2>3, <2>8, <2>9, <2>10, WorkKeeps DEF Working
<1> QED
  BY <1>6, <1>7

\* The verdict is remembered with the signatures of a closure that is whole.
LEMMA RememberKeeps ==
    ASSUME RootInv, ReadyInv, Remember, UNCHANGED rootVars, History(FALSE) PROVE ReadyInv'
<1>1. checker.pc = "compare" /\ ~CheckerAt("idle")
  BY DEF Remember, CheckerAt
<1>2. CASE checker.observed # ClosurePass(checker.observed)
  BY <1>1, <1>2, FailsKeeps DEF Remember
<1>3. CASE checker.observed = ClosurePass(checker.observed)
  <2>1. /\ cache' = [known |-> TRUE, kind |-> "closure", mark |-> checker.observed,
                     failure |-> "none", due |-> FALSE, ready |-> TRUE]
        /\ Answer(TRUE)
    BY <1>3 DEF Remember
  <2>2. Seen(checker.observed, checker.active)
    BY <1>1 DEF ReadyInv, ObservedInv, Verifying
  <2>3. \A f \in BuildFiles : <<checker.active, f>> \in DOMAIN checker.observed
    BY <1>1 DEF ReadyInv, LeftInv
  <2>4. Whole
    <3>1. \A p \in DOMAIN checker.observed : checker.observed[p] = stamp[p]
      BY <1>3 DEF ClosurePass, StampsOf
    <3> QED
      BY <2>2, <2>3, <3>1, SeenNow
  <2>5. CacheInv'
    <3>1. PICK o, g : o = checker.observed /\ g = checker.active
      OBVIOUS
    <3>2. Seen(o, g)'
      BY <2>2, <3>1 DEF Seen, ClosurePaths, rootVars
    <3>3. g \in Generations /\ DOMAIN o = ClosurePaths(g)
      <4>1. g \in Generations /\ PointerPath \in DOMAIN o /\ DOMAIN o \subseteq ClosurePaths(g)
        BY <2>2, <3>1 DEF Seen
      <4>2. {g} \X BuildFiles \subseteq DOMAIN o
        BY <2>3, <3>1
      <4> QED
        BY <4>1, <4>2 DEF ClosurePaths
    <3>4. cache'.mark = o /\ cache'.failure = "none"
      BY <2>1, <3>1
    <3>5. \E h \in Generations : Seen(cache.mark, h)' /\ DOMAIN cache'.mark = ClosurePaths(h)
      <4>1. Seen(cache.mark, g)'
        BY <3>2, <3>4
      <4> QED
        BY <3>3, <3>4, <4>1
    <3> QED
      BY <3>4, <3>5 DEF CacheInv, ClosurePaths
  <2>6. CacheShape' /\ cache'.failure = "none" /\ cache'.kind = "closure" /\ cache'.ready
    BY <2>1 DEF CacheShape
  <2> QED
    BY <1>1, <2>1, <2>4, <2>5, <2>6, AnswerKeeps
<1> QED
  BY <1>2, <1>3

LEMMA FailurePassKeeps ==
    ASSUME RootInv, ReadyInv, FailurePass, UNCHANGED rootVars, History(FALSE) PROVE ReadyInv'
<1>1. checker.pc = "failure" /\ ~CheckerAt("idle")
  BY DEF FailurePass, CheckerAt
<1>2. checker.passes # {} /\ (checker.invalid /\ checker.passes = {stamp} => ~Whole)
  BY <1>1 DEF ReadyInv, PassesInv, FailureInv, CheckerAt
<1>3. CASE /\ checker' = [checker EXCEPT !.lastPass = TreePass, !.passes = @ \cup {TreePass}]
           /\ UNCHANGED <<cache, answer>>
  <2>1. /\ CheckerShape' /\ checker'.pc = "failure"
        /\ checker'.passes = checker.passes \cup {stamp} /\ checker'.invalid = checker.invalid
    BY <1>3, <1>1 DEF ReadyInv, CheckerShape, TreePass
  <2>2. checker'.passes = {stamp} => checker.passes = {stamp}
    BY <2>1, <1>2
  <2> QED
    BY <1>1, <1>2, <1>3, <2>1, <2>2, FailingKeeps
<1>4. CASE cache' = Refusal(TreePass, checker.passes = {TreePass}) /\ Answer(FALSE)
  <2>1. /\ CacheShape' /\ cache'.kind = "tree" /\ cache'.ready = FALSE
        /\ cache'.failure = (IF checker.invalid /\ checker.passes = {stamp} THEN "invalid"
                                                                        ELSE "transient")
        /\ cache'.mark = stamp \/ cache'.mark = <<>>
    BY <1>4 DEF Refusal, TreePass, CacheShape
  <2>2. cache'.failure = "invalid" => ~Whole
    BY <2>1, <1>2
  <2>3. CacheInv'
    <3>1. ASSUME cache'.mark # <<>> PROVE Past(cache.mark)'
      BY <3>1, <2>1, StampIsPast DEF Past, rootVars
    <3> QED
      BY <3>1, <2>1, <2>2 DEF CacheInv, Whole, rootVars
  <2> QED
    BY <1>1, <1>4, <2>1, <2>2, <2>3, AnswerKeeps
<1> QED
  BY <1>3, <1>4 DEF FailurePass

LEMMA RetryDueKeeps ==
    ASSUME RootInv, RootInv', Later, ReadyInv, RetryDue, UNCHANGED rootVars,
           History(CheckerAt("idle"))
    PROVE  ReadyInv'
<1>1. /\ cache.failure = "transient" /\ cache' = [cache EXCEPT !.due = TRUE]
      /\ UNCHANGED <<checker, answered, response>>
  BY DEF RetryDue, answer
<1>2. /\ CacheShape' /\ cache'.failure = "transient" /\ cache'.kind = cache.kind
      /\ cache'.ready = cache.ready /\ cache'.mark = cache.mark
  BY <1>1 DEF ReadyInv, CacheShape
<1>3. ReadyTypeOK' /\ CheckerShape' /\ CacheInv'
  BY <1>1, <1>2 DEF ReadyInv, ReadyTypeOK, CheckerShape, CacheInv, Seen, ClosurePaths, rootVars
<1>4. PassesInv' /\ ObservedInv' /\ LeftInv' /\ FailureInv'
  BY <1>1 DEF ReadyInv, PassesInv, Past, ObservedInv, Verifying, Seen, ClosurePaths, LeftInv,
     FailureInv, CheckerAt, Whole, rootVars
<1>5. HistoryInv' /\ ReadyIsTrue'
  BY <1>1 DEF ReadyInv, HistoryInv, ReadyIsTrue, CheckerAt, History, Whole, rootVars
<1> QED
  BY <1>2, <1>3, <1>4, <1>5 DEF ReadyInv

LEMMA CheckerKeeps ==
    ASSUME RootInv, ReadyInv, CheckerWorks PROVE ReadyInv'
<1>1. ~CheckerAt("idle") /\ UNCHANGED rootVars /\ History(CheckerAt("idle"))
  BY DEF CheckerWorks, Lookup, InputPass, ReadPointer, ReadDeclared, VerifierPass, Remember,
     FailurePass, CheckerAt
<1>2. History(FALSE)
  BY <1>1 DEF History
<1> QED
  BY <1>1, <1>2, LookupKeeps, InputPassKeeps, ReadPointerKeeps, ReadDeclaredKeeps,
     VerifierPassKeeps, RememberKeeps, FailurePassKeeps DEF CheckerWorks

LEMMA ReadyNextKeeps ==
    ASSUME RootInv, ReadyInv, ReadyNext PROVE RootInv' /\ ReadyInv'
<1>1. CASE NextAsk
  BY <1>1, AskKeeps, RootStands DEF NextAsk
<1>2. CASE CheckerWorks
  BY <1>2, CheckerKeeps, RootStands DEF CheckerWorks
<1>3. CASE TimeGoes
  BY <1>3, RetryDueKeeps, RootStands DEF TimeGoes
<1>4. CASE VerifierFails /\ UNCHANGED rootVars /\ History(FALSE)
  BY <1>4, VerifierFailsKeeps, RootStands
<1>5. CASE RootNext /\ UNCHANGED <<checker, cache, answer, verifierFaults>>
                    /\ History(CheckerAt("idle"))
  <2>1. RootInv' /\ Later
    BY <1>5, RootMoves
  <2> QED
    BY <1>5, <2>1, ReadyStands DEF answer
<1> QED
  BY <1>1, <1>2, <1>3, <1>4, <1>5 DEF ReadyNext

-----------------------------------------------------------------------------
(* The load, step by step.                                                  *)

LEMMA InitLoad ==
    ASSUME RootInit, LoadInit PROVE LoadInv
<1>1. settings \in Generations
  BY GenerationsAreNat DEF RootInit, NoPointer
<1>2. loader = [pc |-> "idle", configured |-> settings, verdict |-> "blocked",
                snapshot |-> NoPointer, left |-> <<>>, hashed |-> [f \in BuildFiles |-> 0],
                text |-> NoRows, media |-> NoRows, loaded |-> FALSE]
  BY DEF LoadInit, Loader0
<1> QED
  BY <1>1, <1>2 DEF LoadInv, LoaderShape, LoaderTypeOK, VerdictInv, HashInv, TextInv,
     ServedIsVerified, LoaderAt

LEMMA LoadStands ==
    ASSUME RootInv, Later, LoadInv, UNCHANGED loadVars PROVE LoadInv'
<1>1. UNCHANGED loader
  BY DEF loadVars
<1>2. LoaderShape' /\ LoaderTypeOK' /\ VerdictInv' /\ TextInv' /\ ServedIsVerified'
  BY <1>1 DEF LoadInv, LoaderShape, LoaderTypeOK, VerdictInv, TextInv, ServedIsVerified, LoaderAt
<1>3. ASSUME NEW f \in BuildFiles, loader.snapshot \in Generations, HashedOK(f) PROVE HashedOK(f)'
  <2>1. PICK p : p = <<loader.snapshot, f>>
    OBVIOUS
  <2>2. p \in Generations \X BuildFiles /\ p \in RootPaths
    BY <1>3, <2>1, PathsDiffer
  <2>3. loader.hashed[f] \in Nat
    BY DEF LoadInv, LoaderTypeOK
  <2>4. loader.hashed[f] <= stamp[p] /\ (loader.hashed[f] = stamp[p] => intact[p])
    BY <1>3, <2>1 DEF HashedOK
  <2>5. loader.hashed[f] <= stamp'[p] /\ (loader.hashed[f] = stamp'[p] => intact'[p])
    BY <2>2, <2>3, <2>4 DEF Later
  <2> QED
    BY <1>1, <2>1, <2>5 DEF HashedOK
<1>4. HashInv'
  BY <1>1, <1>3 DEF LoadInv, HashInv, LoaderAt
<1> QED
  BY <1>2, <1>4 DEF LoadInv

\* A step that serves nothing yet.
LEMMA LoadingKeeps ==
    ASSUME LoadInv, LoaderShape', LoaderTypeOK', VerdictInv', HashInv', TextInv',
           ~loader'.loaded
    PROVE  LoadInv'
  BY DEF LoadInv, ServedIsVerified

LEMMA RefusedKeeps ==
    ASSUME LoadInv, ~LoaderAt("idle"), loader' = Refused(loader) PROVE LoadInv'
<1>1. /\ LoaderShape' /\ loader'.pc = "idle" /\ loader'.loaded = loader.loaded
      /\ loader'.verdict \in {loader.verdict, "blocked"}
      /\ loader'.configured = loader.configured /\ loader'.hashed = loader.hashed
  BY DEF Refused, LoadInv, LoaderShape
<1>2. ~loader.loaded
  BY DEF LoadInv, VerdictInv
<1>3. LoaderTypeOK' /\ VerdictInv' /\ HashInv' /\ TextInv'
  BY <1>1, <1>2 DEF LoadInv, LoaderTypeOK, VerdictInv, HashInv, TextInv, LoaderAt
<1> QED
  BY <1>1, <1>2, <1>3, LoadingKeeps

LEMMA StartKeeps ==
    ASSUME RootInv, LoadInv, StartService PROVE LoadInv'
<1>1. loader' = [pc |-> "idle", configured |-> settings, verdict |-> "none",
                snapshot |-> NoPointer, left |-> <<>>, hashed |-> [f \in BuildFiles |-> 0],
                text |-> NoRows, media |-> NoRows, loaded |-> FALSE]
  BY DEF StartService, Loader0
<1>2. settings \in Generations
  BY DEF RootInv, RootTypeOK
<1> QED
  BY <1>1, <1>2, LoadingKeeps DEF LoaderShape, LoaderTypeOK, VerdictInv, HashInv, TextInv, LoaderAt

LEMMA EnsureKeeps ==
    ASSUME LoadInv, EnsureLoaded PROVE LoadInv'
<1>1. /\ loader.verdict \in {"none", "pass"} /\ ~loader.loaded
      /\ loader' = [loader EXCEPT !.pc = IF loader.verdict = "none" THEN "verify"
                                                                  ELSE "vectorstore"]
  BY DEF EnsureLoaded, LoadInv, LoaderTypeOK
<1>2. /\ LoaderShape'
      /\ \/ loader'.pc = "verify"
         \/ loader'.pc = "vectorstore" /\ loader.verdict = "pass"
      /\ loader'.loaded = loader.loaded /\ loader'.verdict = loader.verdict
      /\ loader'.configured = loader.configured /\ loader'.hashed = loader.hashed
  BY <1>1 DEF LoadInv, LoaderShape
<1>3. LoaderTypeOK' /\ VerdictInv' /\ HashInv' /\ TextInv'
  BY <1>1, <1>2 DEF LoadInv, LoaderTypeOK, VerdictInv, HashInv, TextInv, LoaderAt
<1> QED
  BY <1>1, <1>2, <1>3, LoadingKeeps

LEMMA ResolvedIsGeneration == ASSUME RootInv PROVE Resolved \in Generations
  BY GenerationsAreNat DEF RootInv, RootTypeOK, Resolved

\* Every file of the generation is in the order in which they are hashed.
Complete(order) ==
    /\ order \in Seq(BuildFiles) /\ order # <<>>
    /\ \A f \in BuildFiles : \E i \in DOMAIN order : order[i] = f

LEMMA OrdersAreComplete ==
    Complete(BuildOrder) /\ Complete(GenerationZeroOrder) /\ Complete(InstalledOrder)
<1>1. Complete(BuildOrder)
  <2>1. /\ BuildOrder \in Seq(BuildFiles) /\ BuildOrder # <<>> /\ DOMAIN BuildOrder = 1 .. 4
        /\ BuildOrder[1] = "manifests" /\ BuildOrder[2] = "children" /\ BuildOrder[3] = "media"
    BY DEF BuildOrder, BuildFiles
  <2> QED
    BY <2>1 DEF Complete, BuildFiles
<1>2. Complete(GenerationZeroOrder)
  <2>1. /\ GenerationZeroOrder \in Seq(BuildFiles) /\ GenerationZeroOrder # <<>>
        /\ DOMAIN GenerationZeroOrder = 1 .. 4
        /\ GenerationZeroOrder[1] = "manifests" /\ GenerationZeroOrder[3] = "children"
        /\ GenerationZeroOrder[4] = "media"
    BY DEF GenerationZeroOrder, BuildFiles
  <2> QED
    BY <2>1 DEF Complete, BuildFiles
<1>3. Complete(InstalledOrder)
  <2>1. /\ InstalledOrder \in Seq(BuildFiles) /\ InstalledOrder # <<>>
        /\ DOMAIN InstalledOrder = 1 .. 3
        /\ InstalledOrder[1] = "manifests" /\ InstalledOrder[2] = "children"
        /\ InstalledOrder[3] = "media"
    BY DEF InstalledOrder, BuildFiles
  <2> QED
    BY <2>1 DEF Complete, BuildFiles
<1> QED
  BY <1>1, <1>2, <1>3

LEMMA HashingKeeps ==
    ASSUME LoadInv, ~LoaderAt("idle"), NEW g \in Generations, NEW order, Complete(order),
           loader' = Hashing(loader, g, order)
    PROVE  LoadInv'
<1>1. /\ LoaderShape' /\ loader'.pc = "hash" /\ loader'.snapshot = g /\ loader'.left = order
      /\ loader'.loaded = loader.loaded /\ loader'.verdict = loader.verdict
      /\ loader'.configured = loader.configured /\ loader'.hashed = loader.hashed
  BY DEF Hashing, LoadInv, LoaderShape
<1>2. ~loader.loaded /\ loader.verdict # "blocked"
  BY DEF LoadInv, VerdictInv
<1>3. LoaderTypeOK' /\ VerdictInv' /\ TextInv'
  BY <1>1, <1>2 DEF LoadInv, LoaderTypeOK, VerdictInv, TextInv, LoaderAt
<1>4. HashInv'
  BY <1>1 DEF HashInv, LoaderAt, Complete
<1> QED
  BY <1>1, <1>2, <1>3, <1>4, LoadingKeeps

LEMMA VerifyKeeps ==
    ASSUME RootInv, LoadInv, VerifyRuntime PROVE LoadInv'
<1>1. ~LoaderAt("idle") /\ loader.pc = "verify"
  BY DEF VerifyRuntime, LoaderAt
<1>2. CASE loader' = Refused(loader)
  BY <1>1, <1>2, RefusedKeeps
<1>3. CASE loader' = [loader EXCEPT !.pc = "resolve"]
  <2>1. /\ LoaderShape' /\ loader'.pc = "resolve"
        /\ loader'.loaded = loader.loaded /\ loader'.verdict = loader.verdict
        /\ loader'.configured = loader.configured /\ loader'.hashed = loader.hashed
    BY <1>3 DEF LoadInv, LoaderShape
  <2>2. ~loader.loaded
    BY <1>1 DEF LoadInv, VerdictInv
  <2>3. LoaderTypeOK' /\ VerdictInv' /\ HashInv' /\ TextInv'
    BY <1>1, <2>1, <2>2 DEF LoadInv, LoaderTypeOK, VerdictInv, HashInv, TextInv, LoaderAt
  <2> QED
    BY <2>1, <2>2, <2>3, LoadingKeeps
<1>4. CASE loader' = Hashing(loader, 0, BaselineOrder)
  BY <1>1, <1>4, HashingKeeps, OrdersAreComplete, GenerationsAreNat DEF BaselineOrder
<1> QED
  BY <1>2, <1>3, <1>4 DEF VerifyRuntime

LEMMA ResolveKeeps ==
    ASSUME RootInv, LoadInv, ResolveSnapshot PROVE LoadInv'
<1>1. ~LoaderAt("idle")
  BY DEF ResolveSnapshot, LoaderAt
<1>2. PICK g, order : /\ g = Resolved
                      /\ order = IF pointer > 0 THEN BuildOrder
                                 ELSE IF pointer = 0 THEN GenerationZeroOrder
                                 ELSE InstalledOrder
  OBVIOUS
<1>3. g \in Generations /\ Complete(order) /\ loader' = Hashing(loader, g, order)
  BY <1>2, ResolvedIsGeneration, OrdersAreComplete DEF ResolveSnapshot
<1> QED
  BY <1>1, <1>3, HashingKeeps

LEMMA HashFileKeeps ==
    ASSUME RootInv, LoadInv, HashFile, UNCHANGED rootVars PROVE LoadInv'
<1>1. loader.pc = "hash" /\ ~LoaderAt("idle")
  BY DEF HashFile, LoaderAt
<1>2. CASE loader' = Refused(loader)
  BY <1>1, <1>2, RefusedKeeps
<1>3. CASE loader' # Refused(loader)
  <2>1. PICK file, path, rest, next :
           /\ file = Head(loader.left) /\ path = <<loader.snapshot, file>>
           /\ rest = Tail(loader.left)
           /\ next = IF rest # <<>> THEN "hash"
                     ELSE IF loader.verdict = "none" THEN "milvus" ELSE "text"
    OBVIOUS
  <2>2. /\ Agrees(path) /\ (rest = <<>> => loader.snapshot = loader.configured)
        /\ loader' = [loader EXCEPT !.pc = next, !.left = rest, !.hashed[file] = stamp[path]]
    BY <2>1, <1>3 DEF HashFile, SameTuple
  <2>3. /\ loader.left \in Seq(BuildFiles) /\ loader.left # <<>>
        /\ loader.snapshot \in Generations
        /\ \A f \in BuildFiles :
              HashedOK(f) \/ \E i \in DOMAIN loader.left : loader.left[i] = f
        /\ loader.verdict \in {"none", "pass"} /\ ~loader.loaded
    BY <1>1 DEF LoadInv, HashInv, VerdictInv, LoaderTypeOK, LoaderAt
  <2>4. /\ file \in BuildFiles /\ rest \in Seq(BuildFiles)
        /\ \A i \in DOMAIN loader.left :
              loader.left[i] = file \/ \E j \in DOMAIN rest : rest[j] = loader.left[i]
    BY <2>1, <2>3, HeadAndRest
  <2>5. path \in RootPaths /\ stamp[path] \in Nat
    BY <2>1, <2>3, <2>4, PathsDiffer, BuildRootAssumption DEF RootInv, RootTypeOK
  <2>6. loader.hashed \in [BuildFiles -> Nat]
    BY DEF LoadInv, LoaderTypeOK
  <2>7. /\ LoaderShape' /\ loader'.pc = next /\ loader'.left = rest
        /\ loader'.hashed = [loader.hashed EXCEPT ![file] = stamp[path]]
        /\ loader'.snapshot = loader.snapshot /\ loader'.loaded = loader.loaded
        /\ loader'.verdict = loader.verdict /\ loader'.configured = loader.configured
    BY <2>2 DEF LoadInv, LoaderShape
  <2>8. next \in {"hash", "milvus", "text"} /\ (next = "text" => loader.verdict = "pass")
    BY <2>1, <2>3
  <2>9. LoaderTypeOK' /\ VerdictInv' /\ TextInv'
    BY <2>3, <2>4, <2>5, <2>6, <2>7, <2>8 DEF LoadInv, LoaderTypeOK, VerdictInv, TextInv, LoaderAt
  <2>10. ASSUME NEW f \in BuildFiles, f = file \/ HashedOK(f) PROVE HashedOK(f)'
    <3>1. CASE f = file
      <4>1. loader'.hashed[f] = stamp[path] /\ intact[path] /\ path = <<loader.snapshot, f>>
        BY <3>1, <2>1, <2>2, <2>6, <2>7 DEF Agrees
      <4> QED
        BY <4>1, <2>5, <2>7 DEF HashedOK, rootVars
    <3>2. CASE f # file /\ HashedOK(f)
      <4>1. loader'.hashed[f] = loader.hashed[f]
        BY <3>2, <2>6, <2>7
      <4> QED
        BY <3>2, <4>1, <2>7 DEF HashedOK, rootVars
    <3> QED
      BY <3>1, <3>2, <2>10
  <2>11. HashInv'
    <3>1. \A f \in BuildFiles : HashedOK(f)' \/ \E i \in DOMAIN rest : rest[i] = f
      <4> SUFFICES ASSUME NEW f \in BuildFiles, ~HashedOK(f)'
                   PROVE  \E i \in DOMAIN rest : rest[i] = f
        OBVIOUS
      <4>1. f # file /\ ~HashedOK(f)
        BY <2>10
      <4>2. PICK i \in DOMAIN loader.left : loader.left[i] = f
        BY <4>1, <2>3
      <4> QED
        BY <4>1, <4>2, <2>4
    <3>2. CASE rest # <<>>
      BY <3>1, <3>2, <2>1, <2>3, <2>4, <2>7 DEF HashInv, LoaderAt
    <3>3. CASE rest = <<>>
      <4>1. \A f \in BuildFiles : HashedOK(f)'
        BY <3>1, <3>3
      <4> QED
        BY <4>1, <3>3, <2>1, <2>2, <2>3, <2>7 DEF HashInv, LoaderAt
    <3> QED
      BY <3>2, <3>3
  <2> QED
    BY <2>3, <2>7, <2>9, <2>11, LoadingKeeps
<1> QED
  BY <1>2, <1>3

LEMMA StoreKeeps ==
    ASSUME LoadInv, VerifyMilvus \/ LoadVectorstore PROVE LoadInv'
<1>1. loader.pc \in {"milvus", "vectorstore"} /\ ~LoaderAt("idle")
  BY DEF VerifyMilvus, LoadVectorstore, LoaderAt
<1>2. CASE loader' = Refused(loader)
  BY <1>1, <1>2, RefusedKeeps
<1>3. ~loader.loaded /\ loader.verdict \in {"none", "pass"}
  BY <1>1 DEF LoadInv, VerdictInv, LoaderTypeOK
<1>4. CASE loader' = [loader EXCEPT !.pc = "vectorstore", !.verdict = "pass"]
  <2>1. /\ LoaderShape' /\ loader'.pc = "vectorstore"
        /\ loader'.loaded = loader.loaded /\ loader'.verdict = "pass"
        /\ loader'.configured = loader.configured /\ loader'.hashed = loader.hashed
    BY <1>4 DEF LoadInv, LoaderShape
  <2> QED
    BY <1>3, <2>1, LoadingKeeps DEF LoadInv, LoaderTypeOK, VerdictInv, HashInv, TextInv, LoaderAt
<1>5. CASE loader' = [loader EXCEPT !.pc = "resolve"]
  <2>1. /\ LoaderShape' /\ loader'.pc = "resolve"
        /\ loader'.loaded = loader.loaded /\ loader'.verdict = loader.verdict
        /\ loader'.configured = loader.configured /\ loader'.hashed = loader.hashed
    BY <1>5 DEF LoadInv, LoaderShape
  <2> QED
    BY <1>3, <2>1, LoadingKeeps DEF LoadInv, LoaderTypeOK, VerdictInv, HashInv, TextInv, LoaderAt
<1> QED
  BY <1>2, <1>4, <1>5 DEF VerifyMilvus, LoadVectorstore

\* What is read of a file that was hashed is whole, or was written since.
LEMMA RowsAreHashed ==
    ASSUME RootInv, LoadInv, loader.pc \in {"text", "media"}, NEW f \in BuildFiles,
           NEW rows, rows = Rows(loader.snapshot, f)
    PROVE  /\ rows.of = loader.configured
           /\ ~rows.whole => rows.stamp > loader.hashed[f]
<1>1. HashedOK(f) /\ loader.snapshot = loader.configured /\ loader.snapshot \in Generations
  BY DEF LoadInv, HashInv
<1>2. stamp[<<loader.snapshot, f>>] \in Nat /\ loader.hashed[f] \in Nat
  BY <1>1, PathsDiffer, BuildRootAssumption DEF RootInv, RootTypeOK, LoadInv, LoaderTypeOK
<1> QED
  BY <1>1, <1>2 DEF HashedOK, Rows

LEMMA ReadTextKeeps ==
    ASSUME RootInv, LoadInv, ReadText, UNCHANGED rootVars PROVE LoadInv'
<1>1. loader.pc = "text" /\ ~LoaderAt("idle")
  BY DEF ReadText, LoaderAt
<1>2. CASE loader' = Refused(loader)
  BY <1>1, <1>2, RefusedKeeps
<1>3. CASE loader' # Refused(loader)
  <2>1. PICK rows : rows = Rows(loader.snapshot, "children")
    OBVIOUS
  <2>2. loader' = [loader EXCEPT !.pc = "media", !.text = rows]
    BY <1>3, <2>1 DEF ReadText
  <2>3. /\ rows.of = loader.configured
        /\ ~rows.whole => rows.stamp > loader.hashed["children"]
    BY <1>1, <2>1, RowsAreHashed DEF BuildFiles
  <2>4. /\ LoaderShape' /\ loader'.pc = "media" /\ loader'.text = rows
        /\ loader'.loaded = loader.loaded /\ loader'.verdict = loader.verdict
        /\ loader'.configured = loader.configured /\ loader'.hashed = loader.hashed
        /\ loader'.snapshot = loader.snapshot
    BY <2>2 DEF LoadInv, LoaderShape
  <2>5. ~loader.loaded /\ loader.verdict = "pass"
    BY <1>1 DEF LoadInv, VerdictInv
  <2>6. HashInv'
    BY <1>1, <2>4 DEF LoadInv, HashInv, HashedOK, LoaderAt, rootVars
  <2>7. LoaderTypeOK' /\ VerdictInv' /\ TextInv'
    BY <2>3, <2>4, <2>5 DEF LoadInv, LoaderTypeOK, VerdictInv, TextInv, LoaderAt
  <2> QED
    BY <2>4, <2>5, <2>6, <2>7, LoadingKeeps
<1> QED
  BY <1>2, <1>3

LEMMA ReadMediaKeeps ==
    ASSUME RootInv, LoadInv, ReadMedia, UNCHANGED rootVars PROVE LoadInv'
<1>1. loader.pc = "media" /\ ~LoaderAt("idle")
  BY DEF ReadMedia, LoaderAt
<1>2. CASE loader' = Refused(loader)
  BY <1>1, <1>2, RefusedKeeps
<1>3. CASE loader' # Refused(loader)
  <2>1. PICK rows : rows = Rows(loader.snapshot, "media")
    OBVIOUS
  <2>2. loader' = [loader EXCEPT !.pc = "idle", !.media = rows, !.loaded = TRUE]
    BY <1>3, <2>1 DEF ReadMedia, MediaSnapshot
  <2>3. /\ rows.of = loader.configured
        /\ ~rows.whole => rows.stamp > loader.hashed["media"]
    BY <1>1, <2>1, RowsAreHashed DEF BuildFiles
  <2>4. /\ LoaderShape' /\ loader'.pc = "idle" /\ loader'.media = rows
        /\ loader'.loaded = TRUE /\ loader'.verdict = loader.verdict
        /\ loader'.configured = loader.configured /\ loader'.hashed = loader.hashed
        /\ loader'.text = loader.text
    BY <2>2 DEF LoadInv, LoaderShape
  <2>5. loader.verdict = "pass"
    BY <1>1 DEF LoadInv, VerdictInv
  <2>6. LoaderTypeOK' /\ VerdictInv' /\ HashInv' /\ TextInv'
    BY <2>4, <2>5 DEF LoadInv, LoaderTypeOK, VerdictInv, HashInv, TextInv, LoaderAt
  <2>7. ServedIsVerified'
    BY <1>1, <2>3, <2>4, <2>5 DEF LoadInv, TextInv, LoaderAt, ServedIsVerified
  <2> QED
    BY <2>4, <2>6, <2>7 DEF LoadInv
<1> QED
  BY <1>2, <1>3

LEMMA LoadNextKeeps ==
    ASSUME RootInv, LoadInv, LoadNext PROVE RootInv' /\ Later /\ LoadInv'
<1>1. CASE /\ \/ StartService \/ EnsureLoaded \/ VerifyRuntime \/ ResolveSnapshot
              \/ HashFile \/ VerifyMilvus \/ LoadVectorstore \/ ReadText \/ ReadMedia
           /\ UNCHANGED rootVars
  BY <1>1, RootStands, StartKeeps, EnsureKeeps, VerifyKeeps, ResolveKeeps, HashFileKeeps,
     StoreKeeps, ReadTextKeeps, ReadMediaKeeps
<1>2. CASE RootNext /\ UNCHANGED loadVars
  BY <1>2, RootMoves, LoadStands
<1> QED
  BY <1>1, <1>2 DEF LoadNext

-----------------------------------------------------------------------------
(* The service.                                                             *)

LEMMA InitService == ASSUME ServingInit PROVE ServiceInv
<1>1. RootInv
  <2>1. settings \in Generations
    BY GenerationsAreNat DEF ServingInit, RootInit, NoPointer
  <2> QED
    BY <2>1, BuildRootAssumption DEF ServingInit, RootInit, RootInv, RootTypeOK, Newest
<1> QED
  BY <1>1, InitReady, InitLoad DEF ServingInit, ServiceInv, ReadyInit, Checker0, CheckerAt

LEMMA ReadyIsLater == ASSUME RootInv, ReadyNext PROVE Later
<1>1. CASE UNCHANGED rootVars
  BY <1>1, RootStands
<1>2. CASE RootNext
  BY <1>2, RootMoves
<1> QED
  BY <1>1, <1>2 DEF ReadyNext, NextAsk, CheckerWorks, TimeGoes

\* Nothing happens to the readiness.
LEMMA ReadyUntouched ==
    ASSUME RootInv, ReadyInv, UNCHANGED <<rootVars, readyVars>> PROVE ReadyInv'
  BY DEF ReadyInv, ReadyTypeOK, CheckerShape, CacheShape, PassesInv, Past, ObservedInv, Verifying,
     Seen, ClosurePaths, LeftInv, FailureInv, CacheInv, HistoryInv, ReadyIsTrue, CheckerAt, Whole,
     readyVars, rootVars, answer

LEMMA ServiceKeeps == ASSUME ServiceInv, [ServingNext]_allVars PROVE ServiceInv'
<1> USE DEF ServiceInv
<1>1. CASE InAnswer(Next)
  <2>1. UNCHANGED <<part, rootVars, readyVars, loadVars>>
    BY <1>1 DEF InAnswer
  <2> QED
    BY <2>1, RootStands, ReadyUntouched, LoadStands DEF readyVars, CheckerAt
<1>2. CASE InReady(ReadyNext)
  <2>1. part = "ready" /\ UNCHANGED part /\ UNCHANGED loadVars /\ ReadyNext
    BY <1>2 DEF InReady
  <2>2. Later
    BY <2>1, ReadyIsLater
  <2> QED
    BY <2>1, <2>2, ReadyNextKeeps, LoadStands
<1>3. CASE InLoad(LoadNext)
  <2>1. part = "load" /\ UNCHANGED <<part, readyVars>> /\ LoadNext
    BY <1>3 DEF InLoad
  <2>2. RootInv' /\ Later /\ LoadInv'
    BY <2>1, LoadNextKeeps
  <2>3. CheckerAt("idle") /\ UNCHANGED <<checker, cache, answered, response, seenWhole, seenBroken>>
    BY <2>1 DEF readyVars, answer
  <2> QED
    BY <2>1, <2>2, <2>3, ReadyStands DEF CheckerAt
<1>4. CASE UNCHANGED allVars
  <2>1. UNCHANGED <<part, rootVars, readyVars, loadVars>>
    BY <1>4 DEF allVars
  <2> QED
    BY <2>1, RootStands, ReadyUntouched, LoadStands DEF readyVars, CheckerAt
<1> QED
  BY <1>1, <1>2, <1>3, <1>4 DEF ServingNext

(* Whatever is written to the builds meanwhile, and whenever the verifier    *)
(* fails: a cached or new verdict of _verify_rag_artifacts was true at some  *)
(* moment since its request came, and what _ensure_loaded serves is one      *)
(* verified generation, damaged only by a write after it was hashed.         *)
THEOREM ServiceSafety == ServingSpec => []ServiceTrue
<1>1. ServingInit => ServiceInv
  BY InitService
<1>2. ServiceInv /\ [ServingNext]_allVars => ServiceInv'
  BY ServiceKeeps
<1>3. ServiceInv => ServiceTrue
  BY DEF ServiceInv, RootInv, ReadyInv, LoadInv, ServiceTrue
<1> QED
  BY <1>1, <1>2, <1>3, PTL DEF ServingSpec
=============================================================================
