------------------------- MODULE ConversationMemory -------------------------
(***************************************************************************)
(* The in-process conversation store of the answer service                 *)
(* (src/rag/conversation.py, ConversationMemoryStore) as its callers use    *)
(* it: requests acquire a lease on a conversation, hold it while they       *)
(* answer, and release it with the finished turn or with nothing.           *)
(*                                                                         *)
(* The store runs on one asyncio loop.  Its guarded sections contain no     *)
(* await, so each is one atomic action here; the only place a request is    *)
(* suspended is the queue of the conversation's lock, a FIFO asyncio.Lock.  *)
(***************************************************************************)
EXTENDS Naturals, FiniteSets, SequencesExt

CONSTANTS
    Requests,       \* calls of /ask and /ask/stream that may run at once
    Conversations,  \* conversation ids the clients use
    Objects,        \* identities of _Entry objects ("is" in the code)
    None,           \* Python's None: no entry, no conversation id
    MaxSessions,    \* max_sessions of the store
    MaxTurns,       \* MAX_TURNS
    MaxStored,      \* MAX_STORED_CODE_POINTS
    MaxProjected,   \* MAX_PROJECTED_CODE_POINTS
    TTL,            \* ttl_seconds
    TurnSizes,      \* sizes in code points a finished turn may have
    MaxClock,       \* bound of the clock (model checking only)
    MaxClears       \* bound of DELETE calls per conversation (same)

ASSUME LimitsAssumption ==
    /\ MaxSessions \in Nat
    /\ MaxTurns \in Nat
    /\ MaxStored \in Nat
    /\ MaxProjected \in Nat
    /\ TTL \in Nat
    /\ TurnSizes \subseteq Nat
    /\ MaxClock \in Nat
    /\ MaxClears \in Nat

ASSUME IdentityAssumption ==
    /\ None \notin Objects \cup Conversations
    /\ IsFiniteSet(Requests)
    /\ IsFiniteSet(Conversations)

VARIABLES
    entries,  \* the dict: conversation -> entry object or None
    heap,     \* the fields of every entry object
    req,      \* what each request holds: its lease and where it stands
    clock,    \* the injected monotonic clock
    clears    \* how often each conversation was cleared (history)

vars == <<entries, heap, req, clock, clears>>

-----------------------------------------------------------------------------
(* Turns and projections. *)

Turn == [size : TurnSizes, arrived : Nat]

CodePoints(turns) == FoldLeft(LAMBDA total, t : total + t.size, 0, turns)

From(turns, k) == SubSeq(turns, k, Len(turns))

(* The newest turns that fit both limits.  Dropping from the left until both *)
(* limits hold removes one turn for every suffix that is still too large.    *)
NewestWithin(turns, points) ==
    LET TooLarge == {k \in 1..Len(turns) :
                        \/ Len(turns) + 1 - k > MaxTurns
                        \/ CodePoints(From(turns, k)) > points}
    IN  From(turns, Cardinality(TooLarge) + 1)

Trimmed(turns) == NewestWithin(turns, MaxStored)

Projection(turns) == NewestWithin(turns, MaxProjected)

-----------------------------------------------------------------------------
(* Entries and leases. *)

Entry == [generation : Nat, turns : Seq(Turn), lastAccessed : Nat,
          locked : BOOLEAN, waiters : Seq(Requests), leases : Nat]

NewEntry(now) == [generation |-> 0, turns |-> <<>>, lastAccessed |-> now,
                  locked |-> FALSE, waiters |-> <<>>, leases |-> 0]

Statuses == {"disabled", "new", "hit", "expired"}

(* "waiting" is inside entry.lock.acquire(), "holding" has a lease on an     *)
(* entry, "stateless" runs on ConversationLease.disabled().  arrived records *)
(* how many clears the conversation had seen when the request came in.  The  *)
(* generation -1 of a disabled lease is never compared, and is 0 here.       *)
Request == [phase : {"idle", "waiting", "holding", "stateless"},
            conv : Conversations \cup {None}, entry : Objects \cup {None},
            expected : Nat, projection : Seq(Turn), status : Statuses,
            arrived : Nat]

Disabled(phase) == [phase |-> phase, conv |-> None, entry |-> None,
                    expected |-> 0, projection |-> <<>>,
                    status |-> "disabled", arrived |-> 0]

Leased(r) == req[r].phase \in {"waiting", "holding"}

Live == {c \in Conversations : entries[c] # None}

EntryOf(c) == heap[entries[c]]

Inactive == {c \in Live : EntryOf(c).leases = 0}

Expired(e) == clock > e.lastAccessed + TTL

LeaseTaken(e) == [e EXCEPT !.leases = @ + 1]

LeaseReturned(e) == [e EXCEPT !.leases = IF @ = 0 THEN 0 ELSE @ - 1]

Touched(e) == [e EXCEPT !.lastAccessed = clock]

\* Mutant of Invalidated: the generation is not advanced.
InvalidatedSilently(e) == [Touched(e) EXCEPT !.turns = <<>>]

(* Expiry and clear() alike: leases of the old generation no longer count. *)
Invalidated(e) == [generation |-> e.generation + 1, turns |-> <<>>,
                   lastAccessed |-> clock, locked |-> e.locked,
                   waiters |-> e.waiters, leases |-> e.leases]

ExpiredInactive == {c \in Inactive : Expired(EntryOf(c))}

OldestInactive ==
    LET old == Inactive \ ExpiredInactive
    IN  {c \in old : \A d \in old :
            EntryOf(c).lastAccessed <= EntryOf(d).lastAccessed}

Referers(o) == {r \in Requests : Leased(r) /\ req[r].entry = o}

Unused == {o \in Objects : /\ \A c \in Conversations : entries[c] # o
                           /\ Referers(o) = {}}

(* The dict without the conversations of a set, and the heap once the entry  *)
(* objects they named are garbage.                                           *)
Without(dropped) == [c \in Conversations |->
                        IF c \in dropped THEN None ELSE entries[c]]

Collected(dropped) == [o \in Objects |->
                        IF \E c \in dropped : entries[c] = o
                        THEN NewEntry(0) ELSE heap[o]]

-----------------------------------------------------------------------------
(* The guarded section that follows entry.lock.acquire(): what it makes of   *)
(* the entry, and the lease it returns.                                      *)

Stale(c, o, e, expected, table) == table[c] # o \/ e.generation # expected

Opened(e, stale) ==
    [(IF ~stale /\ Expired(e) THEN Invalidated(e) ELSE Touched(e))
        EXCEPT !.locked = TRUE]

Lease(c, o, e, expected, stale, arrived) ==
    LET opened == Opened(e, stale)
        seen   == IF stale THEN <<>> ELSE Projection(opened.turns)
    IN  [phase |-> "holding", conv |-> c, entry |-> o,
         expected |-> IF stale THEN expected ELSE opened.generation,
         projection |-> seen,
         status |-> IF ~stale /\ Expired(e) THEN "expired"
                    ELSE IF seen # <<>> THEN "hit" ELSE "new",
         arrived |-> arrived]

(* A queued request knows its entry and the generation it expects. *)
Queued(c, o, e) == [phase |-> "waiting", conv |-> c, entry |-> o,
                    expected |-> e.generation, projection |-> <<>>,
                    status |-> "disabled", arrived |-> clears[c]]

-----------------------------------------------------------------------------
(* acquire() *)

(* The conversation has an entry: count the lease, then take its lock at     *)
(* once, or queue behind a holder or behind earlier waiters.                 *)
Join(r, c) ==
    LET o == entries[c]
        e == LeaseTaken(EntryOf(c))
        stale == Stale(c, o, e, e.generation, entries)
    IN  /\ req[r].phase = "idle"
        /\ c \in Live
        /\ \/ /\ ~e.locked /\ e.waiters = <<>>
              /\ heap' = [heap EXCEPT ![o] = Opened(e, stale)]
              /\ req' = [req EXCEPT ![r] =
                            Lease(c, o, e, e.generation, stale, clears[c])]
           \/ /\ e.locked \/ e.waiters # <<>>
              /\ heap' = [heap EXCEPT ![o] =
                            [e EXCEPT !.waiters = Append(@, r)]]
              /\ req' = [req EXCEPT ![r] = Queued(c, o, e)]
        /\ UNCHANGED <<entries, clock, clears>>

(* No entry yet: purge what expired, evict the longest unused conversation   *)
(* when the store is full, and make an entry.  Its lock is free.             *)
Open(r, c) ==
    /\ req[r].phase = "idle"
    /\ c \notin Live
    /\ \E evicted \in SUBSET OldestInactive, o \in Unused :
         LET dropped == ExpiredInactive \cup evicted
             full    == Cardinality(Live \ ExpiredInactive) >= MaxSessions
             e       == LeaseTaken(NewEntry(clock))
             table   == [Without(dropped) EXCEPT ![c] = o]
             stale   == Stale(c, o, e, 0, table)
         IN  /\ Cardinality(evicted) = (IF full THEN 1 ELSE 0)
             /\ entries' = table
             /\ heap' = [Collected(dropped) EXCEPT ![o] = Opened(e, stale)]
             /\ req' = [req EXCEPT ![r] = Lease(c, o, e, 0, stale, clears[c])]
    /\ UNCHANGED <<clock, clears>>

(* No room, or no conversation id: the request runs without memory. *)
Refuse(r, c) ==
    /\ req[r].phase = "idle"
    /\ \/ /\ c = None
          /\ UNCHANGED <<entries, heap>>
       \/ /\ c \in Conversations \ Live
          /\ Cardinality(Live \ ExpiredInactive) >= MaxSessions
          /\ OldestInactive = {}
          /\ entries' = Without(ExpiredInactive)
          /\ heap' = Collected(ExpiredInactive)
    /\ req' = [req EXCEPT ![r] = Disabled("stateless")]
    /\ UNCHANGED <<clock, clears>>

\* Mutant of Wake: the head of the queue does not wait for the lock.
WakeEarly(r) ==
    LET q == req[r]
        e == heap[q.entry]
        stale == Stale(q.conv, q.entry, e, q.expected, entries)
    IN  /\ q.phase = "waiting"
        /\ e.waiters # <<>> /\ Head(e.waiters) = r
        /\ heap' = [heap EXCEPT ![q.entry] =
                        [Opened(e, stale) EXCEPT !.waiters = Tail(@)]]
        /\ req' = [req EXCEPT ![r] =
                    Lease(q.conv, q.entry, e, q.expected, stale, q.arrived)]
        /\ UNCHANGED <<entries, clock, clears>>

(* The lock was released and this request heads its queue. *)
Wake(r) ==
    LET q == req[r]
        e == heap[q.entry]
        stale == Stale(q.conv, q.entry, e, q.expected, entries)
    IN  /\ q.phase = "waiting"
        /\ ~e.locked
        /\ e.waiters # <<>> /\ Head(e.waiters) = r
        /\ heap' = [heap EXCEPT ![q.entry] =
                        [Opened(e, stale) EXCEPT !.waiters = Tail(@)]]
        /\ req' = [req EXCEPT ![r] =
                    Lease(q.conv, q.entry, e, q.expected, stale, q.arrived)]
        /\ UNCHANGED <<entries, clock, clears>>

-----------------------------------------------------------------------------
(* release(), and the exception path of acquire() *)

\* Mutant of Returned: an entry without turns or leases stays in the dict.
ReturnedInPlace(c, o, e) ==
    /\ heap' = [heap EXCEPT ![o] = LeaseReturned(e)]
    /\ UNCHANGED entries

(* The lease is returned on the entry e: the last one takes an entry without *)
(* turns out of the dict.                                                    *)
Returned(c, o, e) ==
    LET left == LeaseReturned(e)
        gone == entries[c] = o /\ left.leases = 0 /\ left.turns = <<>>
    IN  /\ entries' = IF gone THEN Without({c}) ELSE entries
        /\ heap' = [heap EXCEPT ![o] = IF gone THEN NewEntry(0) ELSE left]

\* Mutant of CancelWait: the cancelled request leaves its lease behind.
CancelWaitUncounted(r) ==
    LET q == req[r]
    IN  /\ q.phase = "waiting"
        /\ heap' = [heap EXCEPT ![q.entry].waiters =
                        SelectSeq(@, LAMBDA w : w # r)]
        /\ req' = [req EXCEPT ![r] = Disabled("idle")]
        /\ UNCHANGED <<entries, clock, clears>>

(* The task is cancelled while it queues for the lock. *)
CancelWait(r) ==
    LET q == req[r]
        e == heap[q.entry]
    IN  /\ q.phase = "waiting"
        /\ \E k \in 1..Len(e.waiters) :
             /\ e.waiters[k] = r
             /\ Returned(q.conv, q.entry,
                         [e EXCEPT !.waiters = RemoveAt(@, k)])
        /\ req' = [req EXCEPT ![r] = Disabled("idle")]
        /\ UNCHANGED <<clock, clears>>

\* Mutant of Committed: the generation of the lease is not compared.
CommittedAnyway(q, e, turns) ==
    IF entries[q.conv] = q.entry
    THEN [Touched(e) EXCEPT !.turns = Trimmed(@ \o turns)]
    ELSE e

(* The turn is stored only on the entry and the generation that were leased. *)
Committed(q, e, turns) ==
    IF entries[q.conv] = q.entry /\ e.generation = q.expected
    THEN IF turns = <<>> THEN Touched(e)
         ELSE [Touched(e) EXCEPT !.turns = Trimmed(@ \o turns)]
    ELSE e

\* Mutant of Release: a lease that was cleared does not free the lock.
ReleaseCurrentOnly(r, turns) ==
    LET q == req[r]
        e == heap[q.entry]
    IN  /\ q.phase = "holding"
        /\ Returned(q.conv, q.entry,
                    [Committed(q, e, turns) EXCEPT
                        !.locked = e.generation # q.expected])
        /\ req' = [req EXCEPT ![r] = Disabled("idle")]
        /\ UNCHANGED <<clock, clears>>

(* release(lease, turn); turns is <<>> when turn is None. *)
Release(r, turns) ==
    LET q == req[r]
        e == heap[q.entry]
    IN  /\ q.phase = "holding"
        /\ Returned(q.conv, q.entry,
                    [Committed(q, e, turns) EXCEPT !.locked = FALSE])
        /\ req' = [req EXCEPT ![r] = Disabled("idle")]
        /\ UNCHANGED <<clock, clears>>

(* The answer was validated and delivered: its turn is complete. *)
Complete(r) == \E size \in TurnSizes :
                  Release(r, <<[size |-> size, arrived |-> req[r].arrived]>>)

(* An error, a disconnect or a refusal: no turn. *)
Fail(r) == Release(r, <<>>)

(* A disabled lease has nothing to release. *)
Finish(r) ==
    /\ req[r].phase = "stateless"
    /\ req' = [req EXCEPT ![r] = Disabled("idle")]
    /\ UNCHANGED <<entries, heap, clock, clears>>

-----------------------------------------------------------------------------
(* clear(): DELETE /conversations/{conversation_id} *)
Clear(c) ==
    /\ clears[c] < MaxClears
    /\ \/ /\ c \notin Live
          /\ UNCHANGED <<entries, heap>>
       \/ /\ c \in Inactive
          /\ entries' = Without({c})
          /\ heap' = Collected({c})
       \/ /\ c \in Live \ Inactive
          /\ heap' = [heap EXCEPT ![entries[c]] = Invalidated(@)]
          /\ UNCHANGED entries
    /\ clears' = [clears EXCEPT ![c] = @ + 1]
    /\ UNCHANGED <<req, clock>>

Tick ==
    /\ clock < MaxClock
    /\ clock' = clock + 1
    /\ UNCHANGED <<entries, heap, req, clears>>

-----------------------------------------------------------------------------
Init ==
    /\ entries = [c \in Conversations |-> None]
    /\ heap = [o \in Objects |-> NewEntry(0)]
    /\ req = [r \in Requests |-> Disabled("idle")]
    /\ clock = 0
    /\ clears = [c \in Conversations |-> 0]

Step(r) ==
    \/ \E c \in Conversations : Join(r, c) \/ Open(r, c)
    \/ \E c \in Conversations \cup {None} : Refuse(r, c)
    \/ Wake(r)
    \/ CancelWait(r)
    \/ Complete(r)
    \/ Fail(r)
    \/ Finish(r)

Next ==
    \/ \E r \in Requests : Step(r)
    \/ \E c \in Conversations : Clear(c)
    \/ Tick

(* The event loop resumes a woken waiter, and every request that holds a     *)
(* lease reaches the finally clause of its handler that releases it.         *)
Fairness == \A r \in Requests : /\ WF_vars(Wake(r))
                                /\ WF_vars(Complete(r) \/ Fail(r))

Spec == Init /\ [][Next]_vars /\ Fairness

-----------------------------------------------------------------------------
(* Properties. *)

(* Every variable has the shape the code gives it. *)
TypeOK ==
    /\ entries \in [Conversations -> Objects \cup {None}]
    /\ heap \in [Objects -> Entry]
    /\ req \in [Requests -> Request]
    /\ clock \in Nat
    /\ clears \in [Conversations -> Nat]

(* active_leases of an entry is the number of requests that wait for it or   *)
(* hold it, whatever was cancelled, cleared, evicted or expired on the way.  *)
LeaseAccounting ==
    \A o \in Objects : heap[o].leases = Cardinality(Referers(o))

(* MEMORY-P0-03: eviction, expiry, clearing and the removal of empty entries *)
(* never take an entry away from a request that waits for it or holds it.    *)
LeasedEntryIsLive ==
    \A r \in Requests : Leased(r) => entries[req[r].conv] = req[r].entry

(* Both together: a lease is never lost, neither its count nor its entry.    *)
LeaseProtocol == LeaseAccounting /\ LeasedEntryIsLive

(* Requests of one conversation are answered one at a time. *)
SerialHolder ==
    \A r, s \in Requests :
        /\ req[r].phase = "holding" /\ req[s].phase = "holding"
        /\ req[r].conv = req[s].conv
        => r = s

(* A clear is final: a conversation stores only turns of requests that came  *)
(* in after its last clear, and a request never sees a turn from before a    *)
(* clear that preceded it.                                                   *)
ClearedIsForgotten ==
    /\ \A c \in Live : \A i \in DOMAIN EntryOf(c).turns :
          EntryOf(c).turns[i].arrived = clears[c]
    /\ \A r \in Requests : \A i \in DOMAIN req[r].projection :
          req[r].projection[i].arrived >= req[r].arrived

(* While a lease is still valid, what its request was shown is what the      *)
(* entry holds: nothing was appended or dropped behind its back.             *)
ProjectionCurrent ==
    \A r \in Requests :
        /\ req[r].phase = "holding"
        /\ EntryOf(req[r].conv).generation = req[r].expected
        => req[r].projection = Projection(EntryOf(req[r].conv).turns)

(* The store never holds more conversations than max_sessions, and keeps an  *)
(* entry only for a lease or for a stored turn; what a conversation stores,  *)
(* and what a request is shown of it, stays within the limits on turns and   *)
(* code points.                                                              *)
StoreBounded ==
    /\ Cardinality(Live) <= MaxSessions
    /\ \A c \in Inactive : EntryOf(c).turns # <<>>
    /\ \A o \in Objects : /\ Len(heap[o].turns) <= MaxTurns
                          /\ CodePoints(heap[o].turns) <= MaxStored
    /\ \A r \in Requests : CodePoints(req[r].projection) <= MaxProjected

(* A request that queues for a conversation is answered or cancelled: no     *)
(* release, cancellation or clear leaves the lock's queue asleep.            *)
WaiterServed ==
    \A r \in Requests : []<>(req[r].phase # "waiting")
=============================================================================
