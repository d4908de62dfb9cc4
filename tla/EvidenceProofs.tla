--------------------------- MODULE EvidenceProofs ---------------------------
(***************************************************************************)
(* The evidence of the operators' tools is true: for any number of runs,   *)
(* objects, local files, batches and parts, and of steps by other programs, *)
(* kills and failures.                                                     *)
(***************************************************************************)
EXTENDS Operations, FiniteSetTheorems, WellFoundedInduction, TLAPS

-----------------------------------------------------------------------------
(* The closure of a release. *)

CloserStates ==
    [pc : {"idle", "validate", "inspect", "look", "receipt", "sidecar", "ended"},
     first : BOOLEAN, next : 1 .. NParts + 1,
     verdict : {"none", "closed", "already_closed", "conflict", "error"}]

WholeClosure == closing = "whole" /\ seal = "whole"

\* The first inspection has seen that what it passed is not to come any more.  The
\* second cannot pass a part that was over when the receipt was created.
CloserOK(c) ==
    /\ closer[c].pc = "idle" => closer[c] = Closer0
    /\ closer[c].pc \in {"look", "receipt", "sidecar", "validate"} =>
           ~closer[c].first /\ closer[c].next = 1
    /\ closer[c].pc = "inspect" /\ closer[c].first =>
           \A p \in Parts : p < closer[c].next => stage[p] # "before"
    /\ closer[c].pc \in {"look", "receipt"} => \A p \in Parts : stage[p] # "before"
    /\ closer[c].pc = "sidecar" => closing = "whole" /\ seal = "none"
    /\ closer[c].pc = "inspect" /\ ~closer[c].first =>
           /\ WholeClosure
           /\ joined \/ \E p \in Parts : stage[p] = "after" /\ closer[c].next <= p
    /\ closer[c].pc = "ended" /\ closer[c].verdict \in {"closed", "already_closed"} =>
           WholeClosure /\ joined

ReceiptOK ==
    /\ seal # "none" => closing # "none"
    /\ closing = "whole" => joined \/ \E p \in Parts : stage[p] = "after"
    /\ \A c, d \in Closers : closer[c].pc = "sidecar" /\ closer[d].pc = "sidecar" => c = d

ClosureInv ==
    /\ ClosureTypeOK /\ closer \in [Closers -> CloserStates]
    /\ ReceiptOK /\ \A c \in Closers : CloserOK(c)

-----------------------------------------------------------------------------
(* The bucket and the upload. *)

Objects == MediaObject \cup {NoObject}

BucketOK ==
    /\ bucket \in [MediaKeys -> Objects]
    /\ changed \in [Observers -> SUBSET MediaKeys]
    /\ foreign \in Nat

\* What an inventory has seen is there, but for what others changed since.
Captures(inv, o) ==
    \A k \in MediaKeys \ changed[o] : k \notin inv.todo => inv.seen[k] = bucket[k]

Working == {"freeze", "put", "readback", "list", "after", "report"}

UploaderStates ==
    [pc : {"idle", "current", "ended"} \cup Working, inv : Inventory,
     status : {"uploaded", "failed", "concurrency_conflict"},
     evidence : [MediaKeys -> Outcome]]

\* ReportHolds, of what a run is about to report.
Stands(u, results) ==
    \A k \in MediaKeys \ changed[u] :
        bucket[k] = IF results[k] = "uploaded" THEN [body |-> "approved", op |-> u]
                    ELSE uploadPlan.before[k]

UploaderOK(u) ==
    LET r == uploader[u]
    IN /\ r.pc \notin {"idle", "ended"} => uploadPlan # NoPlan
       /\ r.pc \in Working =>
              marker = u /\ report = NoReport /\ Uploaded(r.evidence) \subseteq uploadPlan.missing
       /\ r.pc \in {"current", "freeze"} => r.evidence = Run0.evidence
       /\ r.pc \in {"current", "freeze", "put", "readback"} =>
              r.status = "uploaded" /\ \A k \in MediaKeys : r.evidence[k] \in {"none", "uploaded"}
       /\ r.pc = "readback" => \E k \in uploadPlan.missing : r.evidence[k] = "none"
       /\ r.pc = "list" => r.status # "uploaded"
       /\ r.pc \in {"after", "report"} /\ r.status = "uploaded" =>
              Uploaded(r.evidence) = uploadPlan.missing
       /\ r.pc = "after" => Captures(r.inv, u)
       /\ r.pc = "report" /\ r.status \in {"uploaded", "concurrency_conflict"} =>
              Stands(u, r.evidence)

ReportOK ==
    /\ \A k \in Present : bucket[k].op \in Uploaders => bucket[k].op = marker
    /\ marker # "none" => uploadPlan # NoPlan
    /\ report # NoReport => report.op = marker /\ marker \in Uploaders
    /\ report.status \in {"uploaded", "concurrency_conflict"} =>
           Stands(report.op, report.evidence)
    /\ report.status = "uploaded" => Uploaded(report.evidence) = uploadPlan.missing

NoUpload ==
    marker = "none" /\ report = NoReport /\ \A u \in Uploaders : uploader[u].pc = "idle"

UploadInv ==
    /\ UploadTypeOK /\ uploader \in [Uploaders -> UploaderStates]
    /\ ReportOK /\ \A u \in Uploaders : UploaderOK(u)
    /\ part # "upload" => NoUpload

-----------------------------------------------------------------------------
(* The cleanup. *)

Commands ==
    [name : {"none", "inventory", "backup", "apply", "verify", "restore"},
     step : {"none", "list", "read", "download", "remove", "row", "local_row", "create"},
     inv : Inventory, rows : Nat, wiki : SUBSET MediaKeys, keys : SUBSET MediaKeys]

ApplyReceipts == [started : BOOLEAN, remote : SUBSET MediaKeys, local : SUBSET LocalPaths,
                  completed : BOOLEAN]

Applying == command.name = "apply" /\ command.step \in {"remove", "row", "local_row"}

CommandShape ==
    \/ command = NoCommand
    \/ command.name \in {"inventory", "apply", "verify"} /\ command.step \in {"list", "read"}
    \/ command.name = "backup" /\ command.step = "download"
    \/ Applying
    \/ command.name = "restore" /\ command.step \in {"create", "row"}

Backed(k) == backup[k] # NoObject /\ backup[k].body = inventory.objects[k].body

\* The files were written in their order.
FilesOrdered ==
    /\ "minio" \in receipts =>
           inventory.status = "pass" /\ \A k \in inventory.candidates : Backed(k)
    /\ cleanupPlan => "minio" \in receipts
    /\ applied.started => cleanupPlan
    /\ ~applied.started => applied = NoReceipt
    /\ verified => applied.started

CommandOK ==
    /\ command.name = "inventory" => inventory = NoInventoryFile
    /\ command.name = "backup" =>
           /\ inventory.status = "pass" /\ "minio" \notin receipts
           /\ \A k \in inventory.candidates \ command.keys : Backed(k)
    /\ command.name = "apply" => cleanupPlan /\ (applied.started <=> Applying)
    /\ Applying => command.keys = inventory.candidates \ applied.remote
    /\ CommandAt("apply", "row") =>
           /\ command.keys # {}
           /\ Min(command.keys) \notin changed["apply"] => bucket[Min(command.keys)] = NoObject
    /\ CommandAt("apply", "local_row") => LocalLeft # {}
    /\ command.name \in {"apply", "verify"} /\ command.step = "read" =>
           Captures(command.inv, command.name)
    /\ command.name = "verify" => applied.started /\ ~verified
    /\ command.name = "restore" =>
           applied.started /\ command.keys # {} /\ command.keys \subseteq inventory.candidates

CleanupInv ==
    /\ CleanupTypeOK /\ command \in Commands /\ CommandShape /\ applied \in ApplyReceipts
    /\ FilesOrdered /\ CommandOK /\ RemovedIsAccounted /\ AcceptedIsTrue
    /\ part # "cleanup" => command = NoCommand /\ ~applied.started /\ ~verified

-----------------------------------------------------------------------------
(* The build of a collection. *)

BuildStates ==
    [pc : {"idle", "find", "ensure", "create", "insert", "read", "count", "settings",
           "evidence", "seal", "ended"},
     target : Collections, before : Collections, next : 1 .. Cardinality(Batches) + 1,
     verdict : {"pass", "failed"}, seen : SUBSET Batches, late : [Batches -> Nat]]

Flushed(r) == build[r].pc \in {"read", "count"} \/ CountTaken(r)

\* r has inserted b, as all who may still pass know of themselves.
Filled(r, b) == Flushed(r) \/ (BuildAt(r, "insert") /\ build[r].next > b)

\* Those who may have inserted b into t, if only they and then failed.
Ever(t, b) ==
    {r \in ShadowBuilders :
        /\ build[r].target = t
        /\ \/ build[r].pc \in {"read", "count", "settings", "evidence", "seal", "ended"}
           \/ build[r].pc = "insert" /\ build[r].next > b}

Copies(r, b) == rows[build[r].target].copies[b]
Durable(r, b) == Copies(r, b) - unflushed[build[r].target][b]

ShadowTyped ==
    /\ rows \in [Collections -> [exists : BOOLEAN, copies : [Batches -> Nat]]]
    /\ unflushed \in [Collections -> [Batches -> Nat]]
    /\ settings \in Collections
    /\ build \in [ShadowBuilders -> BuildStates]
    /\ shadowEvidence \in
           [ShadowBuilders -> [verdict : {"none", "pass", "failed"}, sealed : BOOLEAN]]

BuildOK(r) ==
    /\ build[r].verdict = "pass" => build[r].pc \in {"evidence", "seal", "ended"}
    /\ shadowEvidence[r].verdict = "pass" => build[r].verdict = "pass"
    /\ build[r].pc \in {"idle", "find", "ensure", "create"} => build[r].next = 1
    /\ build[r].pc \in {"ensure", "create", "insert"} \/ Flushed(r) =>
           build[r].target # Serving
    /\ \A b \in Batches : Filled(r, b) => Copies(r, b) >= 1
    /\ \A b \in Batches : Flushed(r) => Durable(r, b) >= 1
    /\ \A b \in Batches : CountTaken(r) => Copies(r, b) = 1 + build[r].late[b]

\* Two that fill the same collection.
PairOK(r, o) ==
    build[r].target = build[o].target /\ r # o =>
        /\ \A b \in Batches : Filled(r, b) /\ Filled(o, b) => Copies(r, b) >= 2
        /\ \A b \in Batches : Flushed(r) /\ Flushed(o) => Durable(r, b) >= 2
        /\ ~(CountTaken(r) /\ CountTaken(o))

RowsOK ==
    /\ rows[Serving].exists /\ rows[Serving].copies = Once
    /\ \A c \in Collections \ {Serving} : \A b \in Batches :
           rows[c].copies[b] <= Cardinality(Ever(c, b))
    /\ \A c \in Collections : \A b \in Batches : unflushed[c][b] <= rows[c].copies[b]

ShadowInv ==
    /\ ShadowTyped /\ RowsOK
    /\ \A r \in ShadowBuilders : BuildOK(r)
    /\ \A r, o \in ShadowBuilders : PairOK(r, o)

EvidenceInv == BucketOK /\ UploadInv /\ CleanupInv /\ ShadowInv /\ ClosureInv

-----------------------------------------------------------------------------
(* The closure. *)

LEMMA ClosureStart == ClosureInit => ClosureInv
<1> SUFFICES ASSUME ClosureInit PROVE ClosureInv
  OBVIOUS
<1> USE ClosureAssumption
<1>1. Closer0 \in CloserStates
  BY DEF Closer0, CloserStates
<1>2. ClosureTypeOK /\ closer \in [Closers -> CloserStates]
  BY <1>1 DEF ClosureInit, ClosureTypeOK, Closer0
<1>3. ReceiptOK /\ \A c \in Closers : CloserOK(c)
  BY DEF ClosureInit, ReceiptOK, CloserOK, Closer0, Parts
<1> QED
  BY <1>2, <1>3 DEF ClosureInv

LEMMA CloserEnded ==
    ASSUME NEW c \in Closers, closer \in [Closers -> CloserStates],
           NEW verdict \in {"none", "closed", "already_closed", "conflict", "error"},
           CloserEnds(c, verdict)
    PROVE  /\ closer' = [closer EXCEPT ![c] = closer'[c]] /\ closer'[c] \in CloserStates
           /\ closer' \in [Closers -> CloserStates]
           /\ closer'[c].pc = "ended" /\ closer'[c].verdict = verdict
           /\ \A d \in Closers \ {c} : closer'[d] = closer[d]
<1> DEFINE end == [Closer0 EXCEPT !.pc = "ended", !.verdict = verdict]
<1>1. Closer0 \in CloserStates
  BY ClosureAssumption DEF Closer0, CloserStates
<1>2. end \in CloserStates /\ end.pc = "ended" /\ end.verdict = verdict
  BY <1>1 DEF CloserStates
<1>3. closer' = [closer EXCEPT ![c] = end]
  BY DEF CloserEnds
<1> HIDE DEF end
<1> QED
  BY <1>2, <1>3

\* A run moves and nothing else does.
LEMMA CloserMoves ==
    ASSUME NEW c \in Closers, NEW new \in CloserStates, ClosureInv,
           closer' = [closer EXCEPT ![c] = new], new.pc # "sidecar",
           UNCHANGED <<stage, closing, seal, joined>>, CloserOK(c)'
    PROVE  ClosureInv'
<1>1. closer \in [Closers -> CloserStates]
  BY DEF ClosureInv
<1>2. closer' \in [Closers -> CloserStates] /\ closer'[c] = new
  BY <1>1
<1>3. \A d \in Closers \ {c} : closer'[d] = closer[d]
  BY <1>1
<1>4. ClosureTypeOK'
  BY <1>2 DEF ClosureInv, ClosureTypeOK, CloserStates
<1>5. \A d \in Closers \ {c} : CloserOK(d)'
  BY <1>3 DEF ClosureInv, CloserOK, WholeClosure
<1>6. ReceiptOK'
  BY <1>2, <1>3 DEF ClosureInv, ReceiptOK
<1> QED
  BY <1>2, <1>4, <1>5, <1>6 DEF ClosureInv

LEMMA CloserAlone ==
    ASSUME NEW c \in Closers, ClosureInv,
           \/ StartClose(c) \/ ValidateFiles(c) \/ Inspect(c) \/ Inspected(c)
           \/ LookForReceipt(c) \/ KillCloser(c)
    PROVE  ClosureInv'
<1> USE ClosureAssumption
<1> DEFINE old == closer[c]
           new == closer'[c]
<1>1. closer \in [Closers -> CloserStates] /\ old \in CloserStates /\ CloserOK(c)
  BY DEF ClosureInv
<1>2. UNCHANGED <<stage, closing, seal, joined>>
  BY DEF StartClose, ValidateFiles, Inspect, Inspected, LookForReceipt, KillCloser
<1>3. ASSUME NEW verdict \in {"none", "closed", "already_closed", "conflict", "error"},
             CloserEnds(c, verdict)
      PROVE  /\ closer' = [closer EXCEPT ![c] = new] /\ new \in CloserStates
             /\ new.pc = "ended" /\ new.verdict = verdict
  BY <1>1, <1>3, CloserEnded
<1>4. ASSUME CloserEnds(c, "none") \/ CloserEnds(c, "conflict") \/ CloserEnds(c, "error")
      PROVE  ClosureInv'
  <2>1. /\ closer' = [closer EXCEPT ![c] = new] /\ new \in CloserStates
        /\ new.pc = "ended" /\ new.verdict \in {"none", "conflict", "error"}
    BY <1>3, <1>4
  <2>2. CloserOK(c)'
    BY <2>1 DEF CloserOK
  <2> QED
    BY <1>2, <2>1, <2>2, CloserMoves
<1>5. CASE StartClose(c)
  <2>0. old.first /\ old.next = 1
    BY <1>1, <1>5 DEF CloserOK, StartClose, CloserAt, Closer0
  <2>1. CASE CloserTo(c, "inspect") \/ closer' = [closer EXCEPT ![c].pc = "validate",
                                        ![c].first = FALSE, ![c].verdict = "already_closed"]
    <3>0. CASE CloserTo(c, "inspect")
      <4>1. /\ closer' = [closer EXCEPT ![c] = new] /\ new \in CloserStates
            /\ new.pc = "inspect" /\ new.first /\ new.next = 1
        BY <1>1, <2>0, <3>0 DEF CloserTo, CloserStates
      <4> QED
        BY <1>2, <4>1, CloserMoves DEF CloserOK, Parts
    <3>1. CASE closer' = [closer EXCEPT ![c].pc = "validate",
                                        ![c].first = FALSE, ![c].verdict = "already_closed"]
      <4>1. /\ closer' = [closer EXCEPT ![c] = new] /\ new \in CloserStates
            /\ new.pc = "validate" /\ ~new.first /\ new.next = 1
        BY <1>1, <2>0, <3>1 DEF CloserStates
      <4> QED
        BY <1>2, <4>1, CloserMoves DEF CloserOK
    <3> QED
      BY <2>1, <3>0, <3>1
  <2> QED
    BY <1>4, <1>5, <2>1 DEF StartClose
<1>6. CASE ValidateFiles(c)
  <2>1. CASE CloserTo(c, "inspect") /\ WholeClosure
    <3>1. /\ closer' = [closer EXCEPT ![c] = new] /\ new \in CloserStates
          /\ new.pc = "inspect" /\ new.next = 1 /\ ~new.first
      BY <1>1, <1>6, <2>1 DEF CloserTo, CloserStates, CloserOK, ValidateFiles, CloserAt
    <3> QED
      BY <1>2, <2>1, <3>1, CloserMoves DEF CloserOK, WholeClosure, Parts, ClosureInv, ReceiptOK
  <2> QED
    BY <1>4, <1>6, <2>1 DEF ValidateFiles, WholeClosure
<1>7. CASE Inspect(c)
  <2>1. CASE AsApproved(old.next) /\ closer' = [closer EXCEPT ![c].next = @ + 1]
    <3>1. /\ closer' = [closer EXCEPT ![c] = new] /\ new \in CloserStates
          /\ new.pc = "inspect" /\ new.first = old.first /\ new.next = old.next + 1
      BY <1>1, <1>7, <2>1 DEF Inspect, CloserAt, CloserStates, Parts
    <3>2. CloserOK(c)'
      <4>1. \A p \in Parts : p < new.next => p < old.next \/ p = old.next
        BY <1>1, <3>1 DEF Parts, CloserStates
      <4>2. \A p \in Parts : stage[p] = "after" /\ old.next <= p => new.next <= p
        BY <1>1, <2>1, <3>1 DEF Parts, CloserStates, AsApproved
      <4> QED
        BY <1>1, <1>2, <1>7, <2>1, <3>1, <4>1, <4>2
           DEF CloserOK, Inspect, CloserAt, AsApproved, WholeClosure
    <3> QED
      BY <1>2, <3>1, <3>2, CloserMoves
  <2> QED
    BY <1>4, <1>7, <2>1 DEF Inspect
<1>8. CASE Inspected(c)
  <2>0. \A p \in Parts : p < old.next
    BY <1>1, <1>8 DEF Inspected, Parts, CloserStates
  <2>1. CASE old.first
    <3>1. /\ closer' = [closer EXCEPT ![c] = new] /\ new \in CloserStates
          /\ new.pc = "look" /\ ~new.first /\ new.next = 1
      BY <1>1, <1>8, <2>1 DEF Inspected, CloserStates
    <3>2. CloserOK(c)'
      BY <1>1, <1>2, <1>8, <2>0, <2>1, <3>1 DEF CloserOK, Inspected, CloserAt
    <3> QED
      BY <1>2, <3>1, <3>2, CloserMoves
  <2>2. CASE ~old.first
    <3>1. /\ closer' = [closer EXCEPT ![c] = new] /\ new \in CloserStates
          /\ new.pc = "ended" /\ new.verdict = old.verdict
      BY <1>1, <1>3, <1>8, <2>2 DEF Inspected, CloserStates
    <3>2. WholeClosure /\ joined
      <4>1. \A p \in Parts : ~(old.next <= p)
        BY <1>1, <2>0 DEF Parts, CloserStates
      <4> QED
        BY <1>1, <1>8, <2>2, <4>1 DEF CloserOK, Inspected, CloserAt
    <3>3. CloserOK(c)'
      BY <1>2, <3>1, <3>2 DEF CloserOK, WholeClosure
    <3> QED
      BY <1>2, <3>1, <3>3, CloserMoves
  <2> QED
    BY <2>1, <2>2
<1>9. CASE LookForReceipt(c)
  <2>1. CASE CloserTo(c, "receipt")
    <3>1. /\ closer' = [closer EXCEPT ![c] = new] /\ new \in CloserStates
          /\ new.pc = "receipt" /\ new.first = old.first /\ new.next = old.next
      BY <1>1, <2>1 DEF CloserTo, CloserStates
    <3> QED
      BY <1>1, <1>2, <1>9, <3>1, CloserMoves DEF CloserOK, LookForReceipt, CloserAt
  <2> QED
    BY <1>4, <1>9, <2>1 DEF LookForReceipt
<1>10. CASE KillCloser(c)
  BY <1>4, <1>10 DEF KillCloser
<1> QED
  BY <1>5, <1>6, <1>7, <1>8, <1>9, <1>10

\* The two files.  A run alone writes its sidecar, and while it is about to, there
\* is a receipt and no sidecar.
LEMMA CloserWrites ==
    ASSUME NEW c \in Closers, ClosureInv,
           CreateReceipt(c) \/ ReceiptTorn(c) \/ CreateSidecar(c) \/ SidecarFails(c)
    PROVE  ClosureInv'
<1> USE ClosureAssumption
<1> DEFINE old == closer[c]
           new == closer'[c]
<1>1. closer \in [Closers -> CloserStates] /\ old \in CloserStates /\ CloserOK(c)
  BY DEF ClosureInv
<1>2. UNCHANGED stage
  BY DEF CreateReceipt, ReceiptTorn, CreateSidecar, SidecarFails
<1>3. ASSUME CloserEnds(c, "error")
      PROVE  /\ closer' = [closer EXCEPT ![c] = new] /\ new \in CloserStates
             /\ new.pc = "ended" /\ new.verdict = "error"
             /\ closer' \in [Closers -> CloserStates]
             /\ \A d \in Closers \ {c} : closer'[d] = closer[d]
             /\ CloserOK(c)'
  BY <1>1, <1>3, CloserEnded DEF CloserOK
<1>4. CASE UNCHANGED <<closing, seal, joined>> /\ CloserEnds(c, "error")
  BY <1>2, <1>3, <1>4, CloserMoves
<1>5. CASE CreateReceipt(c) /\ closing = "none"
  <2>1. /\ closing' = "whole" /\ UNCHANGED seal /\ joined' = AllApproved
        /\ closer' \in [Closers -> CloserStates] /\ new.pc = "sidecar"
        /\ ~new.first /\ new.next = 1
        /\ \A d \in Closers \ {c} : closer'[d] = closer[d]
    BY <1>1, <1>5 DEF CreateReceipt, CloserTo, CloserStates, CloserAt, CloserOK
  <2>2. seal = "none" /\ \A d \in Closers : closer[d].pc # "sidecar"
    BY <1>5 DEF ClosureInv, ReceiptOK, CloserOK
  <2>3. joined' \/ \E p \in Parts : stage'[p] = "after"
    <3>1. \A p \in Parts : stage[p] \in {"approved", "after"}
      BY <1>1, <1>5 DEF ClosureInv, ClosureTypeOK, CreateReceipt, CloserAt, CloserOK
    <3> QED
      BY <1>2, <2>1, <3>1 DEF AllApproved, AsApproved
  <2>4. ReceiptOK'
    BY <2>1, <2>2, <2>3 DEF ReceiptOK
  <2>5. \A d \in Closers \ {c} : CloserOK(d)'
    BY <1>2, <1>5, <2>1 DEF ClosureInv, CloserOK, WholeClosure
  <2>6. CloserOK(c)'
    BY <2>1, <2>2 DEF CloserOK
  <2>7. ClosureTypeOK'
    BY <1>2, <2>1 DEF ClosureInv, ClosureTypeOK, CloserStates, AllApproved
  <2> QED
    BY <2>1, <2>4, <2>5, <2>6, <2>7 DEF ClosureInv
<1>6. CASE ReceiptTorn(c)
  <2>1. closing = "none" /\ closing' = "torn" /\ UNCHANGED <<seal, joined>>
    BY <1>6 DEF ReceiptTorn
  <2>2. ReceiptOK'
    BY <1>3, <1>6, <2>1 DEF ReceiptTorn, ClosureInv, ReceiptOK
  <2>3. \A d \in Closers \ {c} : CloserOK(d)'
    BY <1>2, <1>3, <1>6, <2>1 DEF ReceiptTorn, ClosureInv, CloserOK, WholeClosure
  <2>4. ClosureTypeOK'
    BY <1>2, <1>3, <1>6, <2>1 DEF ReceiptTorn, ClosureInv, ClosureTypeOK, CloserStates
  <2> QED
    BY <1>3, <1>6, <2>2, <2>3, <2>4 DEF ReceiptTorn, ClosureInv
<1>7. CASE CreateSidecar(c) /\ seal = "none"
  <2>1. /\ seal' = "whole" /\ UNCHANGED <<closing, joined>>
        /\ closer' \in [Closers -> CloserStates] /\ new.pc = "validate"
        /\ ~new.first /\ new.next = 1
        /\ \A d \in Closers \ {c} : closer'[d] = closer[d]
    BY <1>1, <1>7 DEF CreateSidecar, CloserStates, CloserAt, CloserOK
  <2>2. closing = "whole" /\ \A d \in Closers \ {c} : closer[d].pc # "sidecar"
    BY <1>1, <1>7 DEF ClosureInv, ReceiptOK, CloserOK, CreateSidecar, CloserAt
  <2>3. ReceiptOK'
    BY <1>2, <2>1, <2>2 DEF ClosureInv, ReceiptOK
  <2>4. \A d \in Closers \ {c} : CloserOK(d)'
    BY <1>2, <1>7, <2>1, <2>2 DEF ClosureInv, CloserOK, WholeClosure
  <2>5. CloserOK(c)'
    BY <2>1 DEF CloserOK
  <2>6. ClosureTypeOK'
    BY <1>2, <2>1 DEF ClosureInv, ClosureTypeOK, CloserStates
  <2> QED
    BY <2>1, <2>3, <2>4, <2>5, <2>6 DEF ClosureInv
<1>8. CASE SidecarFails(c)
  <2>1. /\ seal = "none" /\ closing = "whole" /\ UNCHANGED joined
        /\ \/ closing' = "none" /\ UNCHANGED seal
           \/ seal' = "torn" /\ UNCHANGED closing
        /\ \A d \in Closers \ {c} : closer[d].pc # "sidecar"
    BY <1>1, <1>8 DEF ClosureInv, ReceiptOK, CloserOK, SidecarFails, CloserAt
  <2>2. ReceiptOK'
    BY <1>2, <1>3, <1>8, <2>1 DEF SidecarFails, ClosureInv, ReceiptOK
  <2>3. \A d \in Closers \ {c} : CloserOK(d)'
    BY <1>2, <1>3, <1>8, <2>1 DEF SidecarFails, ClosureInv, CloserOK, WholeClosure
  <2>4. ClosureTypeOK'
    BY <1>2, <1>3, <1>8, <2>1 DEF SidecarFails, ClosureInv, ClosureTypeOK, CloserStates
  <2> QED
    BY <1>3, <1>8, <2>2, <2>3, <2>4 DEF SidecarFails, ClosureInv
<1> QED
  BY <1>4, <1>5, <1>6, <1>7, <1>8 DEF CreateReceipt, CreateSidecar

LEMMA ClosureStep == ASSUME ClosureInv, [ClosureNext]_closureVars PROVE ClosureInv'
<1>1. CASE \E c \in Closers : CloseStep(c)
  BY <1>1, CloserAlone, CloserWrites DEF CloseStep
<1>2. CASE PartMoves
  <2> USE ClosureAssumption
  <2>1. /\ UNCHANGED <<closing, seal, joined, closer>>
        /\ stage' \in [Parts -> {"before", "approved", "after"}]
        /\ \A p \in Parts : stage[p] # "before" => stage'[p] # "before"
        /\ \A p \in Parts : stage[p] = "after" => stage'[p] = "after"
    BY <1>2 DEF PartMoves, ClosureInv, ClosureTypeOK
  <2>2. ClosureTypeOK' /\ ReceiptOK' /\ \A c \in Closers : CloserOK(c)'
    BY <2>1 DEF ClosureInv, ClosureTypeOK, ReceiptOK, CloserOK, WholeClosure
  <2> QED
    BY <2>1, <2>2 DEF ClosureInv
<1>3. CASE UNCHANGED closureVars
  BY <1>3 DEF closureVars, ClosureInv, ClosureTypeOK, ReceiptOK, CloserOK, WholeClosure
<1> QED
  BY <1>1, <1>2, <1>3 DEF ClosureNext

-----------------------------------------------------------------------------
(* The bucket. *)

LEMMA LeastNumber ==
    ASSUME NEW T, T \subseteq Nat, T # {} PROVE \E n \in T : \A m \in T : ~(m < n)
<1> DEFINE R == {ss \in Nat \X Nat : ss[1] < ss[2]}
<1>1. IsWellFoundedOn(R, Nat)
  BY NatLessThanWellFounded DEF OpToRel
<1>2. \A m, n \in Nat : <<m, n>> \in R <=> m < n
  OBVIOUS
<1> HIDE DEF R
<1>3. \E x \in T : \A y \in T : ~(<<y, x>> \in R)
  BY <1>1, WFMin
<1> QED
  BY <1>2, <1>3

LEMMA MinIsMember == ASSUME NEW T, T \subseteq Nat, T # {} PROVE Min(T) \in T
<1>1. PICK n \in T : \A m \in T : ~(m < n)
  BY LeastNumber
<1>2. \A m \in T : n <= m
  BY <1>1
<1> QED
  BY <1>2 DEF Min

\* What a change of one key leaves alone.
LEMMA Writing ==
    ASSUME BucketOK, NEW k \in MediaKeys, NEW object \in Objects, NEW by,
           Change(k, object, by)
    PROVE  /\ bucket' \in [MediaKeys -> Objects] /\ changed' \in [Observers -> SUBSET MediaKeys]
           /\ bucket'[k] = object /\ \A j \in MediaKeys \ {k} : bucket'[j] = bucket[j]
           /\ \A o \in Observers \ {by} : changed'[o] = changed[o] \cup {k}
           /\ by \in Observers => changed'[by] = changed[by]
  BY DEF BucketOK, Change

\* Others write o's bucket only in front of its eyes.
SeenBy(o) ==
    /\ changed[o] \subseteq changed'[o]
    /\ \A k \in MediaKeys \ changed'[o] : bucket'[k] = bucket[k]

LEMMA CapturesKept ==
    ASSUME NEW o, NEW inv, SeenBy(o), Captures(inv, o) PROVE Captures(inv, o)'
  BY DEF SeenBy, Captures

LEMMA Listing ==
    ASSUME BucketOK
    PROVE  Listed \in Inventory /\ \A k \in MediaKeys \ Listed.todo : Listed.seen[k] = bucket[k]
<1>1. NoInventory \in Inventory /\ Present \subseteq MediaKeys
  BY DEF NoInventory, Inventory, Present
<1>2. Listed \in Inventory /\ Listed.todo = Present /\ Listed.seen = NoInventory.seen
  BY <1>1 DEF Listed, Inventory
<1>3. \A k \in MediaKeys : NoInventory.seen[k] = NoObject
  BY DEF NoInventory
<1> QED
  BY <1>2, <1>3 DEF Present

LEMMA Reading ==
    ASSUME BucketOK, NEW inv \in Inventory, inv.todo # {}, NEW o
    PROVE  /\ ReadObject(inv) \in Inventory
           /\ Captures(inv, o) => Captures(ReadObject(inv), o)
<1> DEFINE k == NextListed(inv)
<1>1. k \in inv.todo /\ k \in MediaKeys
  BY MinIsMember, BucketAssumption DEF NextListed, Inventory
<1>2. /\ ReadObject(inv).todo = inv.todo \ {k}
      /\ ReadObject(inv).seen = [inv.seen EXCEPT ![k] = bucket[k]]
  BY DEF ReadObject
<1>3. ReadObject(inv) \in Inventory
  BY <1>1 DEF ReadObject, Inventory, BucketOK, Objects
<1>4. inv.seen \in [MediaKeys -> Objects]
  BY DEF Inventory, Objects
<1> HIDE DEF k
<1> QED
  BY <1>1, <1>2, <1>3, <1>4 DEF Captures

\* A step of another program.
LEMMA OthersWriting ==
    ASSUME BucketOK, OtherWrites
    PROVE  /\ BucketOK' /\ foreign' # foreign
           /\ \A o \in Observers \ {"nobody"} : SeenBy(o)
           /\ \A k \in MediaKeys : bucket'[k] = bucket[k] \/ bucket'[k] = NoObject
                                   \/ bucket'[k].op = "none"
<1>1. PICK k \in MediaKeys, object \in {Stored("approved"), Stored("other"), NoObject} :
          Change(k, object, "nobody")
  BY DEF OtherWrites
<1>2. object \in Objects /\ (object = NoObject \/ object.op = "none")
  BY DEF Stored, Objects, MediaObject
<1>3. foreign' \in Nat /\ foreign' # foreign
  BY DEF BucketOK, OtherWrites
<1> QED
  BY <1>1, <1>2, <1>3, Writing DEF BucketOK, SeenBy

LEMMA BucketStart == BucketInit => BucketOK
  BY DEF BucketInit, BucketOK, Objects, MediaObject, Stored

-----------------------------------------------------------------------------
(* The upload. *)

LEMMA Run0Typed ==
    /\ NoInventory \in Inventory /\ Run0 \in UploaderStates
    /\ Run0.evidence \in [MediaKeys -> {"none"}] /\ Run0.status = "uploaded"
    /\ Run0.pc = "idle"
<1>1. NoInventory \in Inventory
  BY DEF NoInventory, Inventory
<1> QED
  BY <1>1 DEF Run0, UploaderStates, Outcome

LEMMA NoReportIs ==
    NoReport.op = "none" /\ NoReport.status = "none"
    /\ NoReport.evidence \in [MediaKeys -> Outcome]
  BY DEF NoReport, Outcome

LEMMA NoPlanIs ==
    NoPlan.missing = {} /\ NoPlan.before \in [MediaKeys -> MediaObject \cup {NoObject}]
  BY DEF NoPlan, NoInventory

LEMMA UploadStart == BucketInit /\ UploadInit => UploadInv
<1> SUFFICES ASSUME BucketInit, UploadInit PROVE UploadInv
  OBVIOUS
<1>1. uploader \in [Uploaders -> UploaderStates] /\ \A u \in Uploaders : uploader[u].pc = "idle"
  BY Run0Typed DEF UploadInit
<1>2. UploadTypeOK
  BY <1>1, NoReportIs, NoPlanIs DEF UploadInit, UploadTypeOK, UploaderStates, Working
<1>3. \A u \in Uploaders : UploaderOK(u)
  BY <1>1 DEF UploaderOK, Working
<1>4. \A k \in Present : bucket[k].op = "none"
  BY DEF BucketInit, Present, Stored
<1>5. ReportOK
  BY <1>4, NoReportIs, BucketAssumption, UploadAssumption DEF ReportOK, UploadInit
<1> QED
  BY <1>1, <1>2, <1>3, <1>5 DEF UploadInv, NoUpload, UploadInit

\* A run moves; what it listed is forgotten by changed only before any report.
LEMMA UploaderMoves ==
    ASSUME NEW u \in Uploaders, NEW new \in UploaderStates, UploadInv, part = "upload",
           uploader' = [uploader EXCEPT ![u] = new],
           UNCHANGED <<part, bucket, uploadPlan, marker, report, sources>>,
           \A o \in Observers \ {u} : changed'[o] = changed[o],
           changed'[u] = changed[u] \/ report = NoReport,
           UploaderOK(u)'
    PROVE  UploadInv'
<1>1. uploader \in [Uploaders -> UploaderStates]
  BY DEF UploadInv
<1>2. /\ uploader' \in [Uploaders -> UploaderStates]
      /\ \A v \in Uploaders \ {u} : uploader'[v] = uploader[v]
  BY <1>1
<1>3. UploadTypeOK'
  BY <1>2 DEF UploadInv, UploadTypeOK, UploaderStates, Working
<1>4. \A v \in Uploaders : changed'[v] = changed[v] \/ v = u
  BY UploadAssumption
<1>5. \A v \in Uploaders \ {u} : UploaderOK(v)'
  <2> SUFFICES ASSUME NEW v \in Uploaders \ {u} PROVE UploaderOK(v)'
    OBVIOUS
  <2> QED
    BY <1>2, <1>4 DEF UploadInv, UploaderOK, Captures, Stands
<1>6. ReportOK'
  <2>1. changed'[report.op] = changed[report.op] \/ report = NoReport
    BY <1>4, UploadAssumption DEF UploadInv, ReportOK
  <2> QED
    BY <2>1, NoReportIs DEF UploadInv, ReportOK, Present, Stands
<1> QED
  BY <1>2, <1>3, <1>5, <1>6 DEF UploadInv

\* A run ends.
LEMMA UploaderEnds ==
    ASSUME NEW u \in Uploaders, uploader \in [Uploaders -> UploaderStates], End(u)
    PROVE  /\ uploader' = [uploader EXCEPT ![u] = uploader'[u]]
           /\ uploader'[u] \in UploaderStates /\ uploader'[u].pc = "ended"
           /\ uploader' \in [Uploaders -> UploaderStates]
           /\ \A v \in Uploaders \ {u} : uploader'[v] = uploader[v]
<1> DEFINE end == [Run0 EXCEPT !.pc = "ended"]
<1>1. end \in UploaderStates /\ end.pc = "ended"
  BY Run0Typed DEF UploaderStates
<1>2. uploader' = [uploader EXCEPT ![u] = end]
  BY DEF End
<1> HIDE DEF end
<1> QED
  BY <1>1, <1>2

LEMMA UploaderStops ==
    ASSUME NEW u \in Uploaders, uploader \in [Uploaders -> UploaderStates],
           NEW k \in MediaKeys, NEW outcome \in Outcome,
           NEW status \in {"failed", "concurrency_conflict"}, Stop(u, k, outcome, status)
    PROVE  /\ uploader' = [uploader EXCEPT ![u] = uploader'[u]]
           /\ uploader'[u] \in UploaderStates /\ uploader'[u].pc = "list"
           /\ uploader'[u].status = status
           /\ uploader'[u].evidence = [uploader[u].evidence EXCEPT ![k] = outcome]
           /\ uploader' \in [Uploaders -> UploaderStates]
           /\ \A v \in Uploaders \ {u} : uploader'[v] = uploader[v]
<1> DEFINE told == [uploader[u].evidence EXCEPT ![k] = outcome]
<1> DEFINE stopped == [uploader[u] EXCEPT !.pc = "list", !.status = status, !.evidence = told]
<1>1. uploader[u] \in UploaderStates /\ uploader[u].evidence \in [MediaKeys -> Outcome]
  BY DEF UploaderStates
<1>2. told \in [MediaKeys -> Outcome]
  BY <1>1
<1>3. uploader' = [uploader EXCEPT ![u] = stopped]
  BY <1>1 DEF Stop
<1> HIDE DEF told
<1>4. /\ stopped \in UploaderStates /\ stopped.pc = "list" /\ stopped.status = status
      /\ stopped.evidence = told
  BY <1>1, <1>2 DEF UploaderStates, Working
<1> HIDE DEF stopped
<1>5. /\ uploader'[u] = stopped /\ uploader' \in [Uploaders -> UploaderStates]
      /\ \A v \in Uploaders \ {u} : uploader'[v] = uploader[v]
  BY <1>3, <1>4
<1> QED
  BY <1>3, <1>4, <1>5 DEF told

\* The object a run uploads next is one that is missing and not dealt with.
LEMMA NextIsMissing ==
    ASSUME UploadInv, NEW u \in Uploaders,
           \E k \in uploadPlan.missing : uploader[u].evidence[k] = "none"
    PROVE  /\ NextObject(u) \in uploadPlan.missing /\ NextObject(u) \in MediaKeys
           /\ uploader[u].evidence[NextObject(u)] = "none"
<1> DEFINE left == {k \in uploadPlan.missing : uploader[u].evidence[k] = "none"}
<1>1. uploadPlan.missing \subseteq MediaKeys
  BY UploadAssumption DEF UploadInv, UploadTypeOK
<1>2. left \subseteq Nat /\ left # {}
  BY <1>1, BucketAssumption
<1>3. Min(left) \in left
  BY <1>2, MinIsMember
<1> QED
  BY <1>1, <1>3 DEF NextObject

\* A run that stops has uploaded what it had, and does not claim success.
LEMMA StoppedOK ==
    ASSUME NEW u \in Uploaders, UploadInv, UploaderOK(u),
           uploader[u].pc \in {"freeze", "put", "readback"},
           UNCHANGED <<uploadPlan, marker, report>>,
           NEW k \in MediaKeys, NEW outcome \in Outcome \ {"uploaded"},
           NEW status \in {"failed", "concurrency_conflict"}, Stop(u, k, outcome, status)
    PROVE  UploaderOK(u)'
<1>1. /\ uploader'[u].pc = "list" /\ uploader'[u].status = status
      /\ uploader'[u].evidence = [uploader[u].evidence EXCEPT ![k] = outcome]
  BY UploaderStops DEF UploadInv
<1>2. uploader[u].evidence \in [MediaKeys -> Outcome]
  BY DEF UploadInv, UploaderStates
<1>3. Uploaded(uploader'[u].evidence) \subseteq Uploaded(uploader[u].evidence)
  BY <1>1, <1>2 DEF Uploaded
<1> QED
  BY <1>1, <1>3 DEF UploaderOK, Working

LEMMA UploaderStopped ==
    ASSUME UploadInv, part = "upload", NEW u \in Uploaders,
           uploader[u].pc \in {"freeze", "put", "readback"},
           UNCHANGED <<part, bucket, changed, uploadPlan, marker, report, sources>>,
           NEW k \in MediaKeys, NEW outcome \in Outcome \ {"uploaded"},
           NEW status \in {"failed", "concurrency_conflict"}, Stop(u, k, outcome, status)
    PROVE  UploadInv'
<1>1. uploader \in [Uploaders -> UploaderStates] /\ UploaderOK(u) /\ outcome \in Outcome
  BY DEF UploadInv
<1>2. uploader' = [uploader EXCEPT ![u] = uploader'[u]] /\ uploader'[u] \in UploaderStates
  BY <1>1 DEF Stop, UploaderStates, Working
<1>3. UploaderOK(u)'
  BY <1>1, StoppedOK
<1> QED
  BY <1>2, <1>3, UploaderMoves

LEMMA UploaderAlone ==
    ASSUME BucketOK, UploadInv, part = "upload", part' = part, NEW u \in Uploaders,
           \/ StartUpload(u) \/ CaptureCurrent(u) \/ Freeze(u) \/ PutConflicts(u)
           \/ PutRefused(u) \/ ReadBack(u) \/ ReadBackFails(u) \/ CaptureAfter(u)
           \/ ValidateAfter(u) \/ KillUpload(u)
    PROVE  UploadInv'
<1> DEFINE old == uploader[u]
           new == uploader'[u]
<1>1. /\ uploader \in [Uploaders -> UploaderStates] /\ old \in UploaderStates
      /\ UploaderOK(u) /\ u \in Observers
  BY UploadAssumption DEF UploadInv
<1>2. UNCHANGED <<bucket, changed, uploadPlan, marker, report, sources>>
  BY DEF StartUpload, CaptureCurrent, Freeze, PutConflicts, PutRefused, ReadBack,
         ReadBackFails, CaptureAfter, ValidateAfter, KillUpload, bucketVars
<1>3. ASSUME uploader' = [uploader EXCEPT ![u] = new], new \in UploaderStates, UploaderOK(u)'
      PROVE  UploadInv'
  BY <1>2, <1>3, UploaderMoves
<1>4. CASE End(u)
  <2>1. uploader' = [uploader EXCEPT ![u] = new] /\ new \in UploaderStates /\ new.pc = "ended"
    BY <1>1, <1>4, UploaderEnds
  <2> QED
    BY <1>3, <2>1 DEF UploaderOK, Working
<1>5. ASSUME NEW k \in MediaKeys, NEW outcome \in Outcome \ {"uploaded"},
             NEW status \in {"failed", "concurrency_conflict"},
             Stop(u, k, outcome, status), old.pc \in {"freeze", "put", "readback"}
      PROVE  UploadInv'
  BY <1>1, <1>2, <1>5, UploaderStopped
<1>6. CASE StartUpload(u)
  <2> DEFINE start == [Run0 EXCEPT !.pc = "current", !.inv = Listed]
  <2>1. /\ start \in UploaderStates /\ start.pc = "current"
        /\ start.evidence = Run0.evidence /\ start.status = "uploaded"
    BY Run0Typed, Listing DEF UploaderStates
  <2>2. uploader' = [uploader EXCEPT ![u] = start]
    BY <1>6 DEF StartUpload
  <2> HIDE DEF start
  <2>3. new = start
    BY <1>1, <2>2
  <2>4. UploaderOK(u)'
    BY <1>2, <1>6, <2>1, <2>3, Run0Typed DEF UploaderOK, Working, StartUpload
  <2> QED
    BY <1>3, <2>1, <2>2, <2>3, <2>4
<1>7. CASE CaptureCurrent(u)
  <2>1. CASE uploader' = [uploader EXCEPT ![u].inv = ReadObject(@)]
    <3>1. ReadObject(old.inv) \in Inventory
      BY <1>1, <1>7, Reading DEF CaptureCurrent, UploaderStates
    <3>2. /\ uploader' = [uploader EXCEPT ![u] = new] /\ new \in UploaderStates
          /\ new.pc = "current" /\ new.status = old.status /\ new.evidence = old.evidence
      BY <1>1, <1>7, <2>1, <3>1 DEF CaptureCurrent, UploaderAt, UploaderStates
    <3>3. UploaderOK(u)'
      BY <1>1, <1>2, <1>7, <3>2 DEF UploaderOK, Working, CaptureCurrent, UploaderAt
    <3> QED
      BY <1>3, <3>2, <3>3
  <2> QED
    BY <1>4, <1>7, <2>1 DEF CaptureCurrent
<1>8. CASE Freeze(u)
  <2>1. CASE UploaderTo(u, "put")
    <3>1. /\ uploader' = [uploader EXCEPT ![u] = new] /\ new \in UploaderStates
          /\ new.pc = "put" /\ new.status = old.status /\ new.evidence = old.evidence
      BY <1>1, <2>1 DEF UploaderTo, UploaderStates, Working
    <3>2. UploaderOK(u)'
      BY <1>1, <1>2, <1>8, <3>1 DEF UploaderOK, Working, Freeze, UploaderAt
    <3> QED
      BY <1>3, <3>1, <3>2
  <2>2. ASSUME NEW k \in uploadPlan.missing, Stop(u, k, "hash_mismatch", "failed")
        PROVE  UploadInv'
    <3>1. k \in MediaKeys
      BY UploadAssumption DEF UploadInv, UploadTypeOK
    <3> QED
      BY <1>5, <1>8, <2>2, <3>1 DEF Freeze, UploaderAt, Outcome
  <2> QED
    BY <1>8, <2>1, <2>2 DEF Freeze
<1>9. CASE PutConflicts(u) \/ PutRefused(u)
  <2>1. NextObject(u) \in MediaKeys /\ old.pc = "put"
    BY <1>9, NextIsMissing DEF PutConflicts, PutRefused, Uploading, UploaderAt
  <2> QED
    BY <1>5, <1>9, <2>1 DEF PutConflicts, PutRefused, Outcome
<1>10. CASE ReadBack(u) \/ ReadBackFails(u)
  <2> DEFINE k == NextObject(u)
  <2>1. old.pc = "readback" /\ k \in uploadPlan.missing /\ k \in MediaKeys
    BY <1>1, <1>10, NextIsMissing DEF ReadBack, ReadBackFails, UploaderAt, UploaderOK
  <2> HIDE DEF k
  <2>2. CASE uploader' = [uploader EXCEPT ![u].pc = "put", ![u].evidence[k] = "uploaded"]
    <3>1. /\ uploader' = [uploader EXCEPT ![u] = new] /\ new \in UploaderStates
          /\ new.pc = "put" /\ new.status = old.status
          /\ new.evidence = [old.evidence EXCEPT ![k] = "uploaded"]
      BY <1>1, <2>1, <2>2 DEF UploaderStates, Outcome, Working
    <3>2. Uploaded(new.evidence) \subseteq Uploaded(old.evidence) \cup {k}
      BY <1>1, <3>1 DEF Uploaded, UploaderStates
    <3>3. \A j \in MediaKeys : new.evidence[j] \in {"none", "uploaded"}
      BY <1>1, <2>1, <3>1 DEF UploaderOK, UploaderStates
    <3>4. UploaderOK(u)'
      BY <1>1, <1>2, <2>1, <3>1, <3>2, <3>3 DEF UploaderOK, Working
    <3> QED
      BY <1>3, <3>1, <3>4
  <2>3. CASE Stop(u, k, "failed", "failed") \/ Stop(u, k, "hash_mismatch", "failed")
    BY <1>5, <2>1, <2>3 DEF Outcome
  <2> QED
    BY <1>10, <2>2, <2>3 DEF ReadBack, ReadBackFails, k
<1>11. CASE CaptureAfter(u)
  <2>1. CASE uploader' = [uploader EXCEPT ![u].inv = ReadObject(@)]
    <3>1. /\ ReadObject(old.inv) \in Inventory
          /\ Captures(old.inv, u) => Captures(ReadObject(old.inv), u)
      BY <1>1, <1>11, Reading DEF CaptureAfter, UploaderStates
    <3>2. /\ uploader' = [uploader EXCEPT ![u] = new] /\ new \in UploaderStates
          /\ new.pc = "after" /\ new.status = old.status /\ new.evidence = old.evidence
          /\ new.inv = ReadObject(old.inv)
      BY <1>1, <1>11, <2>1, <3>1 DEF CaptureAfter, UploaderAt, UploaderStates
    <3>3. Captures(uploader[u].inv, u)'
      BY <1>1, <1>2, <1>11, <3>1, <3>2 DEF UploaderOK, CaptureAfter, UploaderAt, Captures
    <3>4. UploaderOK(u)'
      BY <1>1, <1>2, <1>11, <3>2, <3>3 DEF UploaderOK, Working, CaptureAfter, UploaderAt
    <3> QED
      BY <1>3, <3>2, <3>4
  <2>2. CASE uploader' = [uploader EXCEPT ![u].pc = "report", ![u].status = "failed"]
    <3>1. /\ uploader' = [uploader EXCEPT ![u] = new] /\ new \in UploaderStates
          /\ new.pc = "report" /\ new.status = "failed" /\ new.evidence = old.evidence
      BY <1>1, <2>2 DEF UploaderStates, Working
    <3>2. UploaderOK(u)'
      BY <1>1, <1>2, <1>11, <3>1 DEF UploaderOK, Working, CaptureAfter, UploaderAt
    <3> QED
      BY <1>3, <3>1, <3>2
  <2> QED
    BY <1>11, <2>1, <2>2 DEF CaptureAfter
<1>12. CASE ValidateAfter(u)
  <2> DEFINE after == old.inv.seen
             wrong == {k \in Uploaded(old.evidence) : after[k] # [body |-> "approved", op |-> u]}
             good == DeltaHolds(uploadPlan.before, after, old.evidence) /\ wrong = {}
             status == IF good THEN old.status ELSE "failed"
  <2>1. old.pc = "after" /\ old.inv.todo = {} /\ old.inv \in Inventory
    BY <1>1, <1>12 DEF ValidateAfter, UploaderAt, UploaderStates
  <2>2. uploader' = [uploader EXCEPT ![u].pc = "report", ![u].inv = NoInventory,
                                     ![u].status = status]
    BY <1>12 DEF ValidateAfter
  <2>3. status \in {"uploaded", "failed", "concurrency_conflict"}
        /\ (status # "failed" => good /\ status = old.status)
    BY <1>1 DEF UploaderStates
  <2>4. good => Stands(u, old.evidence)
    <3> SUFFICES ASSUME good, NEW k \in MediaKeys \ changed[u]
        PROVE  bucket[k] = IF old.evidence[k] = "uploaded" THEN [body |-> "approved", op |-> u]
                           ELSE uploadPlan.before[k]
      BY DEF Stands
    <3>1. bucket[k] = after[k]
      BY <1>1, <2>1 DEF UploaderOK, Captures
    <3>2. CASE old.evidence[k] = "uploaded"
      BY <3>1, <3>2 DEF Uploaded
    <3>3. CASE old.evidence[k] # "uploaded"
      BY <3>1, <3>3 DEF Uploaded, DeltaHolds
    <3> QED
      BY <3>2, <3>3
  <2> HIDE DEF good, status
  <2>5. /\ uploader' = [uploader EXCEPT ![u] = new] /\ new \in UploaderStates
        /\ new.pc = "report" /\ new.status = status /\ new.evidence = old.evidence
    BY <1>1, <2>2, <2>3, Run0Typed DEF UploaderStates, Working
  <2>6. status \in {"uploaded", "concurrency_conflict"} => Stands(u, uploader[u].evidence)'
    BY <1>2, <2>3, <2>4, <2>5 DEF Stands
  <2>7. UploaderOK(u)'
    BY <1>1, <1>2, <2>1, <2>3, <2>5, <2>6 DEF UploaderOK, Working
  <2> QED
    BY <1>3, <2>5, <2>7
<1>13. CASE KillUpload(u)
  BY <1>4, <1>13 DEF KillUpload
<1> QED
  BY <1>6, <1>7, <1>8, <1>9, <1>10, <1>11, <1>12, <1>13

\* The first steps: the plan, its claim, and a local file that changes.
LEMMA UploadPrepared ==
    ASSUME BucketOK, UploadInv, part = "upload", part' = part,
           MakePlan \/ SourceEdited \/ \E u \in Uploaders : Claim(u)
    PROVE  UploadInv'
<1>0. UNCHANGED <<bucket, changed>>
  BY DEF MakePlan, SourceEdited, Claim, bucketVars
<1>1. CASE MakePlan
  <2>1. marker = "none" /\ report = NoReport
    BY <1>1, UploadAssumption, BucketAssumption DEF MakePlan, UploadInv, ReportOK
  <2>2. /\ UNCHANGED <<marker, report, uploader, sources>>
        /\ uploadPlan'.missing \subseteq Approved /\ uploadPlan'.before = bucket
        /\ uploadPlan' # NoPlan
    <3>1. uploadPlan'.missing = Missing /\ uploadPlan'.before = bucket
      BY <1>1 DEF MakePlan
    <3>2. Missing # {} /\ Missing \subseteq Approved
      BY <1>1 DEF MakePlan, Missing
    <3> QED
      BY <1>1, <3>1, <3>2, NoPlanIs DEF MakePlan
  <2>3. \A u \in Uploaders : uploader[u].pc \notin Working /\ uploader[u].pc # "current"
    <3>1. \A u \in Uploaders : u # "none"
      BY UploadAssumption, BucketAssumption
    <3> QED
      BY <1>1, <2>1, <3>1 DEF MakePlan, UploadInv, UploaderOK, Working
  <2>4. UploadTypeOK'
    BY <2>2 DEF UploadInv, UploadTypeOK, BucketOK, Objects
  <2>5. \A u \in Uploaders : UploaderOK(u)'
    BY <2>2, <2>3 DEF UploaderOK, Working
  <2>6. ReportOK'
    BY <1>0, <2>1, <2>2, NoReportIs DEF UploadInv, ReportOK, Present
  <2> QED
    BY <2>2, <2>4, <2>5, <2>6 DEF UploadInv
<1>2. CASE SourceEdited
  BY <1>0, <1>2 DEF SourceEdited, UploadInv, UploadTypeOK, ReportOK, UploaderOK, NoUpload,
                    Captures, Stands, Present
<1>3. ASSUME NEW u \in Uploaders, Claim(u) PROVE UploadInv'
  <2> DEFINE old == uploader[u]
             new == uploader'[u]
  <2>1. /\ uploader \in [Uploaders -> UploaderStates] /\ old \in UploaderStates
        /\ UploaderOK(u) /\ old.pc = "current"
    BY <1>3 DEF UploadInv, Claim, UploaderAt
  <2>2. CASE End(u) /\ UNCHANGED marker
    <3>1. uploader' = [uploader EXCEPT ![u] = new] /\ new \in UploaderStates /\ new.pc = "ended"
      BY <2>1, <2>2, UploaderEnds
    <3>2. UploaderOK(u)'
      BY <3>1 DEF UploaderOK, Working
    <3> QED
      BY <1>0, <1>3, <2>2, <3>1, <3>2, UploaderMoves DEF Claim
  <2>3. CASE /\ marker = "none" /\ marker' = u
             /\ uploader' = [uploader EXCEPT ![u].pc = "freeze", ![u].inv = NoInventory]
    <3>1. /\ uploader' \in [Uploaders -> UploaderStates]
          /\ \A v \in Uploaders \ {u} : uploader'[v] = uploader[v]
          /\ new.pc = "freeze" /\ new.status = old.status /\ new.evidence = old.evidence
      BY <2>1, <2>3, Run0Typed DEF UploaderStates, Working
    <3>2. \A v \in Uploaders : v # "none"
      BY UploadAssumption, BucketAssumption
    <3>3. report = NoReport /\ UNCHANGED <<uploadPlan, report, sources>>
      BY <1>3, <2>3, <3>2 DEF Claim, UploadInv, ReportOK
    <3>4. \A v \in Uploaders : uploader[v].pc \notin Working
      BY <2>3, <3>2 DEF UploadInv, UploaderOK
    <3>5. UploadTypeOK'
      BY <2>3, <3>1, <3>3 DEF UploadInv, UploadTypeOK, UploaderStates, Working
    <3>6. \A v \in Uploaders \ {u} : UploaderOK(v)'
      BY <3>1, <3>3, <3>4 DEF UploadInv, UploaderOK, Working
    <3>7. UploaderOK(u)'
      <4>1. Uploaded(new.evidence) = {}
        BY <2>1, <3>1, Run0Typed DEF UploaderOK, Uploaded
      <4> QED
        BY <2>1, <2>3, <3>1, <3>3, <4>1 DEF UploaderOK, Working
    <3>8. ReportOK'
      <4>1. \A k \in Present : bucket[k].op \notin Uploaders
        BY <2>3, <3>2 DEF UploadInv, ReportOK
      <4>2. uploadPlan # NoPlan
        BY <2>1 DEF UploaderOK
      <4> QED
        BY <1>0, <3>3, <4>1, <4>2, NoReportIs DEF UploadInv, ReportOK, Present
    <3> QED
      BY <3>1, <3>5, <3>6, <3>7, <3>8 DEF UploadInv
  <2> QED
    BY <1>3, <2>2, <2>3 DEF Claim
<1> QED
  BY <1>1, <1>2, <1>3

LEMMA UploadListed ==
    ASSUME BucketOK, UploadInv, part = "upload", part' = part,
           NEW u \in Uploaders, ListAfter(u)
    PROVE  BucketOK' /\ UploadInv'
<1> DEFINE old == uploader[u]
           new == uploader'[u]
<1>1. /\ uploader \in [Uploaders -> UploaderStates] /\ old \in UploaderStates
      /\ UploaderOK(u) /\ u \in Observers
  BY UploadAssumption DEF UploadInv
<1>2. UNCHANGED <<bucket, foreign, uploadPlan, marker, report, sources>>
  BY DEF ListAfter
<1>3. /\ old.pc \in {"list", "put"} /\ marker = u /\ report = NoReport
      /\ old.status = "uploaded" => Uploaded(old.evidence) = uploadPlan.missing
  <2>1. CASE old.pc = "list"
    BY <1>1, <2>1 DEF UploaderOK, Working
  <2>2. CASE old.pc = "put" /\ ~Uploading(u)
    <3>1. \A k \in uploadPlan.missing : old.evidence[k] # "none"
      BY <2>2 DEF Uploading, UploaderAt
    <3>2. uploadPlan.missing \subseteq MediaKeys
      BY UploadAssumption DEF UploadInv, UploadTypeOK
    <3>3. uploadPlan.missing \subseteq Uploaded(old.evidence)
      BY <1>1, <2>2, <3>1, <3>2 DEF UploaderOK, Uploaded
    <3> QED
      BY <1>1, <2>2, <3>3 DEF UploaderOK, Working
  <2> QED
    BY <2>1, <2>2 DEF ListAfter, UploaderAt
<1>4. CASE /\ uploader' = [uploader EXCEPT ![u].pc = "after", ![u].inv = Listed]
           /\ changed' = [changed EXCEPT ![u] = {}]
  <2>1. /\ uploader' = [uploader EXCEPT ![u] = new] /\ new \in UploaderStates
        /\ new.pc = "after" /\ new.inv = Listed /\ new.status = old.status
        /\ new.evidence = old.evidence
    BY <1>1, <1>4, Listing DEF UploaderStates, Working
  <2>2. /\ changed' \in [Observers -> SUBSET MediaKeys]
        /\ \A o \in Observers \ {u} : changed'[o] = changed[o]
    BY <1>1, <1>4 DEF BucketOK
  <2>3. Captures(uploader[u].inv, u)'
    BY <1>2, <2>1, Listing DEF Captures
  <2>4. UploaderOK(u)'
    BY <1>1, <1>2, <1>3, <2>1, <2>3 DEF UploaderOK, Working
  <2> QED
    BY <1>2, <1>3, <2>1, <2>2, <2>4, UploaderMoves DEF BucketOK
<1>5. CASE /\ uploader' = [uploader EXCEPT ![u].pc = "report", ![u].status = "failed"]
           /\ UNCHANGED changed
  <2>1. /\ uploader' = [uploader EXCEPT ![u] = new] /\ new \in UploaderStates
        /\ new.pc = "report" /\ new.status = "failed" /\ new.evidence = old.evidence
    BY <1>1, <1>5 DEF UploaderStates, Working
  <2>2. UploaderOK(u)'
    BY <1>1, <1>2, <1>3, <2>1 DEF UploaderOK, Working
  <2> QED
    BY <1>2, <1>3, <1>5, <2>1, <2>2, UploaderMoves DEF BucketOK
<1> QED
  BY <1>4, <1>5 DEF ListAfter

\* Nobody else is at work, and there is no report.
LEMMA WorksAlone ==
    ASSUME UploadInv, NEW u \in Uploaders, uploader[u].pc \in Working
    PROVE  /\ marker = u /\ report = NoReport
           /\ \A v \in Uploaders \ {u} : uploader[v].pc \notin Working
  BY DEF UploadInv, UploaderOK

\* The object is created, whatever becomes of the answer.
LEMMA UploadPut ==
    ASSUME BucketOK, UploadInv, part = "upload", part' = part,
           NEW u \in Uploaders, PutCreates(u) \/ PutAnswerLost(u)
    PROVE  BucketOK' /\ UploadInv'
<1> DEFINE old == uploader[u]
           k == NextObject(u)
<1>1. /\ uploader \in [Uploaders -> UploaderStates] /\ old \in UploaderStates
      /\ UploaderOK(u) /\ u \in Observers /\ u \in Operations
  BY UploadAssumption DEF UploadInv
<1>2. UNCHANGED <<foreign, uploadPlan, marker, report, sources>>
  BY DEF PutCreates, PutAnswerLost
<1>3. /\ old.pc = "put" /\ k \in uploadPlan.missing /\ k \in MediaKeys
      /\ old.evidence[k] = "none" /\ Created(u, k)
  BY NextIsMissing DEF PutCreates, PutAnswerLost, Uploading, UploaderAt
<1>4. /\ marker = u /\ report = NoReport
      /\ \A v \in Uploaders \ {u} : uploader[v].pc \notin Working
  BY <1>3, WorksAlone DEF Working
<1> HIDE DEF k
<1>5. /\ [body |-> "approved", op |-> u] \in Objects
      /\ Change(k, [body |-> "approved", op |-> u], u)
  BY <1>1, <1>3 DEF Created, Objects, MediaObject
<1>6. /\ bucket' \in [MediaKeys -> Objects] /\ changed' \in [Observers -> SUBSET MediaKeys]
      /\ bucket'[k] = [body |-> "approved", op |-> u]
      /\ \A j \in MediaKeys \ {k} : bucket'[j] = bucket[j]
  BY <1>3, <1>5, Writing
<1>7. ReportOK'
  <2>1. \A j \in MediaKeys : bucket'[j] # NoObject /\ bucket'[j].op \in Uploaders
                             => bucket'[j].op = marker
    BY <1>4, <1>6 DEF UploadInv, ReportOK, Present
  <2> QED
    BY <1>2, <1>4, <2>1, NoReportIs DEF UploadInv, ReportOK, Present
<1>8. ASSUME uploader' \in [Uploaders -> UploaderStates], UploaderOK(u)',
             \A v \in Uploaders \ {u} : uploader'[v] = uploader[v]
      PROVE  BucketOK' /\ UploadInv'
  <2>1. UploadTypeOK'
    BY <1>2, <1>8 DEF UploadInv, UploadTypeOK, UploaderStates, Working
  <2>2. \A v \in Uploaders \ {u} : UploaderOK(v)'
    BY <1>2, <1>4, <1>8 DEF UploadInv, UploaderOK, Working
  <2> QED
    BY <1>2, <1>6, <1>7, <1>8, <2>1, <2>2 DEF UploadInv, BucketOK
<1>9. CASE UploaderTo(u, "readback")
  <2>1. /\ uploader' \in [Uploaders -> UploaderStates]
        /\ \A v \in Uploaders \ {u} : uploader'[v] = uploader[v]
        /\ uploader'[u].pc = "readback" /\ uploader'[u].status = old.status
        /\ uploader'[u].evidence = old.evidence
    BY <1>1, <1>9 DEF UploaderTo, UploaderStates, Working
  <2>2. UploaderOK(u)'
    BY <1>1, <1>2, <1>3, <2>1 DEF UploaderOK, Working
  <2> QED
    BY <1>8, <2>1, <2>2
<1>10. CASE Stop(u, k, "concurrency_conflict", "concurrency_conflict")
  <2>1. "concurrency_conflict" \in Outcome
    BY DEF Outcome
  <2>2. /\ uploader' \in [Uploaders -> UploaderStates]
        /\ \A v \in Uploaders \ {u} : uploader'[v] = uploader[v]
    BY <1>1, <1>3, <1>10, <2>1, UploaderStops
  <2>3. UploaderOK(u)'
    BY <1>1, <1>2, <1>3, <1>10, <2>1, StoppedOK
  <2> QED
    BY <1>8, <2>2, <2>3
<1>11. CASE End(u)
  <2>1. /\ uploader' \in [Uploaders -> UploaderStates] /\ uploader'[u].pc = "ended"
        /\ \A v \in Uploaders \ {u} : uploader'[v] = uploader[v]
    BY <1>1, <1>11, UploaderEnds
  <2>2. UploaderOK(u)'
    BY <2>1 DEF UploaderOK, Working
  <2> QED
    BY <1>8, <2>1, <2>2
<1> QED
  BY <1>9, <1>10, <1>11 DEF PutCreates, PutAnswerLost, k

LEMMA UploadReported ==
    ASSUME BucketOK, UploadInv, part = "upload", part' = part,
           NEW u \in Uploaders, WriteReport(u)
    PROVE  UploadInv'
<1> DEFINE old == uploader[u]
<1>1. /\ uploader \in [Uploaders -> UploaderStates] /\ old \in UploaderStates
      /\ UploaderOK(u) /\ old.pc = "report"
  BY DEF UploadInv, WriteReport, UploaderAt
<1>2. /\ marker = u /\ report = NoReport
      /\ \A v \in Uploaders \ {u} : uploader[v].pc \notin Working
  BY <1>1, WorksAlone DEF Working
<1>3. /\ UNCHANGED <<bucket, changed, uploadPlan, marker, sources>>
      /\ report' = [op |-> u, status |-> old.status, evidence |-> old.evidence]
  BY <1>2 DEF WriteReport, bucketVars
<1>4. report'.op = u /\ report'.status = old.status /\ report'.evidence = old.evidence
  BY <1>3
<1>5. /\ uploader' \in [Uploaders -> UploaderStates] /\ uploader'[u].pc = "ended"
      /\ \A v \in Uploaders \ {u} : uploader'[v] = uploader[v]
  BY <1>1, UploaderEnds DEF WriteReport
<1>6. UploadTypeOK'
  BY <1>1, <1>3, <1>4, <1>5 DEF UploadInv, UploadTypeOK, UploaderStates, Working
<1>7. \A v \in Uploaders : UploaderOK(v)'
  BY <1>2, <1>3, <1>5 DEF UploadInv, UploaderOK, Working
<1>8. ReportOK'
  <2>1. old.status \in {"uploaded", "concurrency_conflict"} => Stands(u, old.evidence)
    BY <1>1 DEF UploaderOK
  <2>2. old.status = "uploaded" => Uploaded(old.evidence) = uploadPlan.missing
    BY <1>1 DEF UploaderOK
  <2>3. Stands(u, old.evidence) => Stands(report.op, report.evidence)'
    BY <1>3, <1>4 DEF Stands
  <2> QED
    BY <1>2, <1>3, <1>4, <2>1, <2>2, <2>3 DEF UploadInv, ReportOK, Present
<1> QED
  BY <1>5, <1>6, <1>7, <1>8 DEF UploadInv

LEMMA UploadSteps ==
    ASSUME BucketOK, UploadInv, part = "upload", part' = part, UploadNext
    PROVE  BucketOK' /\ UploadInv'
<1>1. CASE MakePlan \/ SourceEdited \/ \E u \in Uploaders : Claim(u)
  <2>1. bucket' = bucket /\ changed' = changed /\ foreign' \in Nat
    <3>1. CASE SourceEdited
      BY <3>1 DEF SourceEdited, BucketOK
    <3>2. CASE MakePlan \/ \E u \in Uploaders : Claim(u)
      BY <3>2 DEF MakePlan, Claim, bucketVars, BucketOK
    <3> QED
      BY <1>1, <3>1, <3>2
  <2> QED
    BY <1>1, <2>1, UploadPrepared DEF BucketOK
<1>2. ASSUME NEW u \in Uploaders,
             \/ StartUpload(u) \/ CaptureCurrent(u) \/ Freeze(u) \/ PutConflicts(u)
             \/ PutRefused(u) \/ ReadBack(u) \/ ReadBackFails(u) \/ CaptureAfter(u)
             \/ ValidateAfter(u) \/ KillUpload(u) \/ WriteReport(u)
      PROVE  BucketOK' /\ UploadInv'
  <2>1. UNCHANGED <<bucket, changed, foreign>>
    BY <1>2 DEF StartUpload, CaptureCurrent, Freeze, PutConflicts, PutRefused, ReadBack,
         ReadBackFails, CaptureAfter, ValidateAfter, KillUpload, WriteReport, bucketVars
  <2> QED
    BY <1>2, <2>1, UploaderAlone, UploadReported DEF BucketOK
<1> QED
  BY <1>1, <1>2, UploadListed, UploadPut DEF UploadNext, UploadStep

\* Another program writes to the bucket.
LEMMA UploadUnderOthers ==
    ASSUME BucketOK, UploadInv, OtherWrites, UNCHANGED <<part, uploadVars>>
    PROVE  UploadInv'
<1>1. \A u \in Uploaders : SeenBy(u)
  BY OthersWriting, UploadAssumption
<1>2. UNCHANGED <<part, uploadPlan, marker, report, uploader, sources>>
  BY DEF uploadVars
<1>3. \A u \in Uploaders : UploaderOK(u)'
  <2> SUFFICES ASSUME NEW u \in Uploaders PROVE UploaderOK(u)'
    OBVIOUS
  <2>1. Captures(uploader[u].inv, u) => Captures(uploader[u].inv, u)'
    BY <1>1, <1>2 DEF SeenBy, Captures
  <2>2. Stands(u, uploader[u].evidence) => Stands(u, uploader[u].evidence)'
    BY <1>1, <1>2 DEF SeenBy, Stands
  <2> QED
    BY <1>2, <2>1, <2>2 DEF UploadInv, UploaderOK
<1>4. ReportOK'
  <2>1. \A k \in Present' : bucket'[k].op \in Uploaders => bucket'[k].op = marker
    BY OthersWriting, BucketAssumption, UploadAssumption DEF UploadInv, ReportOK, Present
  <2>2. report # NoReport => (Stands(report.op, report.evidence)
                              => Stands(report.op, report.evidence)')
    <3> SUFFICES ASSUME report # NoReport, Stands(report.op, report.evidence)
        PROVE Stands(report.op, report.evidence)'
      OBVIOUS
    <3>1. SeenBy(report.op)
      BY <1>1 DEF UploadInv, ReportOK
    <3> QED
      BY <1>2, <3>1 DEF SeenBy, Stands
  <2> QED
    BY <1>2, <2>1, <2>2, NoReportIs DEF UploadInv, ReportOK
<1> QED
  BY <1>2, <1>3, <1>4 DEF UploadInv, UploadTypeOK, NoUpload

\* The cleanup writes to a bucket no upload uses.
LEMMA UploadUnderCleanup ==
    ASSUME UploadInv, part = "cleanup", UNCHANGED <<part, uploadVars>>,
           \A k \in MediaKeys : bucket'[k] = bucket[k] \/ bucket'[k] = NoObject
                                \/ bucket'[k].op = "restore"
    PROVE  UploadInv'
<1>1. UNCHANGED <<uploadPlan, marker, report, uploader, sources>> /\ NoUpload
  BY DEF uploadVars, UploadInv
<1>2. ReportOK'
  <2>1. \A k \in MediaKeys : bucket'[k] # NoObject => bucket'[k].op \notin Uploaders
    BY <1>1, UploadAssumption, BucketAssumption DEF UploadInv, ReportOK, Present, NoUpload
  <2> QED
    BY <1>1, <2>1, NoReportIs DEF UploadInv, ReportOK, Present, NoUpload
<1> QED
  BY <1>1, <1>2 DEF UploadInv, UploadTypeOK, UploaderOK, NoUpload, Working

-----------------------------------------------------------------------------
(* The cleanup. *)

LEMMA NoCommandTyped ==
    /\ NoCommand \in Commands /\ NoCommand.name = "none" /\ NoCommand.step = "none"
    /\ NoCommand.keys = {} /\ NoCommand.inv = NoInventory
  BY Run0Typed DEF NoCommand, Commands

LEMMA NoInventoryFileIs ==
    /\ NoInventoryFile.objects \in [MediaKeys -> MediaObject \cup {NoObject}]
    /\ NoInventoryFile.status = "none" /\ NoInventoryFile.candidates = {}
  BY DEF NoInventoryFile, Empty

LEMMA NoReceiptIs ==
    /\ NoReceipt \in ApplyReceipts /\ ~NoReceipt.started /\ ~NoReceipt.completed
    /\ NoReceipt.remote = {} /\ NoReceipt.local = {}
  BY DEF NoReceipt, ApplyReceipts

LEMMA CleanupStart == BucketInit /\ CleanupInit => CleanupInv
<1> SUFFICES ASSUME BucketInit, CleanupInit PROVE CleanupInv
  OBVIOUS
<1>1. command = NoCommand /\ applied = NoReceipt /\ inventory = NoInventoryFile
      /\ receipts = {} /\ ~cleanupPlan /\ ~verified
  BY DEF CleanupInit
<1>2. CleanupTypeOK
  <2>1. wiki \subseteq MediaKeys
    BY DEF CleanupInit, Present
  <2>2. backup \in [MediaKeys -> MediaObject \cup {NoObject}]
    BY DEF CleanupInit, Empty
  <2>3. command.inv \in Inventory /\ command.keys \subseteq MediaKeys
    BY <1>1, NoCommandTyped, Run0Typed
  <2> QED
    BY <1>1, <2>1, <2>2, <2>3, NoInventoryFileIs, NoReceiptIs DEF CleanupInit, CleanupTypeOK
<1>3. CommandShape /\ FilesOrdered /\ CommandOK
  BY <1>1, NoCommandTyped, NoReceiptIs DEF CommandShape, FilesOrdered, CommandOK, CommandAt, Applying
<1>4. RemovedIsAccounted /\ AcceptedIsTrue
  BY <1>1, NoReceiptIs DEF RemovedIsAccounted, AcceptedIsTrue
<1> QED
  BY <1>1, <1>2, <1>3, <1>4, NoCommandTyped, NoReceiptIs DEF CleanupInv

\* What was removed stays accounted while others write in front of its eyes.
LEMMA AccountedKept ==
    ASSUME RemovedIsAccounted, AcceptedIsTrue, UNCHANGED <<inventory, backup, applied, verified>>,
           applied.started => SeenBy("apply"), verified => SeenBy("verify")
    PROVE  RemovedIsAccounted' /\ AcceptedIsTrue'
<1>1. RemovedIsAccounted'
  <2> SUFFICES ASSUME applied.started, NEW k \in MediaKeys \ changed'["apply"]
      PROVE  \/ bucket'[k] = inventory.objects[k] /\ k \notin applied.remote
             \/ /\ bucket'[k] = NoObject
                /\ k \in applied.remote \cup Unrecorded
                /\ backup[k] # NoObject /\ backup[k].body = inventory.objects[k].body
    BY DEF RemovedIsAccounted, Unrecorded
  <2>1. k \in MediaKeys \ changed["apply"] /\ bucket'[k] = bucket[k]
    BY DEF SeenBy
  <2> QED
    BY <2>1 DEF RemovedIsAccounted
<1>2. AcceptedIsTrue'
  <2> SUFFICES ASSUME verified, NEW k \in MediaKeys \ changed'["verify"]
      PROVE  bucket'[k] = Remaining[k]
    BY DEF AcceptedIsTrue, Remaining
  <2>1. k \in MediaKeys \ changed["verify"] /\ bucket'[k] = bucket[k]
    BY DEF SeenBy
  <2> QED
    BY <2>1 DEF AcceptedIsTrue
<1> QED
  BY <1>1, <1>2

LEMMA NothingWritten == UNCHANGED <<bucket, changed>> => \A o : SeenBy(o)
  BY DEF SeenBy

\* Only the command moves.
LEMMA CommandMoves ==
    ASSUME CleanupInv, part = "cleanup", part' = part,
           UNCHANGED <<bucket, changed, wiki, local, evidence>>,
           command' \in Commands, CommandShape', CommandOK'
    PROVE  CleanupInv'
<1>1. UNCHANGED <<inventory, backup, receipts, cleanupPlan, applied, verified, restored>>
  BY DEF evidence, saved, later
<1>2. RemovedIsAccounted' /\ AcceptedIsTrue'
  BY <1>1, AccountedKept, NothingWritten DEF CleanupInv
<1>3. CleanupTypeOK'
  BY <1>1 DEF CleanupInv, CleanupTypeOK, Commands
<1>4. FilesOrdered' /\ applied' \in ApplyReceipts
  BY <1>1 DEF CleanupInv, FilesOrdered, Backed
<1> QED
  BY <1>2, <1>3, <1>4 DEF CleanupInv

LEMMA NoCommandOK ==
    ASSUME CommandEnds PROVE command' \in Commands /\ CommandShape' /\ CommandOK'
  BY NoCommandTyped DEF CommandEnds, CommandShape, CommandOK, CommandAt, Applying

LEMMA Capturing ==
    ASSUME NEW name \in {"inventory", "apply", "verify"}, wiki \subseteq MediaKeys, CaptureWiki(name)
    PROVE  /\ command' \in Commands /\ command'.name = name /\ command'.step = "list"
<1>1. Cardinality(wiki) \in Nat
  <2>1. wiki \in SUBSET MediaKeys /\ IsFiniteSet(MediaKeys)
    BY BucketAssumption
  <2>2. IsFiniteSet(wiki)
    BY <2>1, FS_Subset
  <2> QED
    BY <2>2, FS_CardinalityType
<1> QED
  BY <1>1, NoCommandTyped DEF CaptureWiki, Commands

LEMMA CommandAlone ==
    ASSUME BucketOK, CleanupInv, part = "cleanup", part' = part,
           \/ ReadBucket \/ StartInventory \/ StartApply \/ StartVerify \/ StartRestore
           \/ KillCommand
    PROVE  CleanupInv'
<1>1. /\ UNCHANGED <<bucket, changed, wiki, local, evidence>>
      /\ UNCHANGED <<inventory, backup, receipts, cleanupPlan, applied, verified, restored>>
  BY DEF ReadBucket, StartInventory, StartApply, StartVerify, StartRestore, KillCommand,
         bucketVars, evidence, saved, later
<1>2. CASE CommandEnds
  BY <1>1, <1>2, NoCommandOK, CommandMoves
<1>3. CASE ReadBucket /\ command' = [command EXCEPT !.inv = ReadObject(@)]
  <2>1. /\ command \in Commands /\ command.inv \in Inventory
    BY DEF CleanupInv, Commands
  <2>2. /\ ReadObject(command.inv) \in Inventory
        /\ Captures(command.inv, command.name) => Captures(ReadObject(command.inv), command.name)
    BY <1>3, <2>1, Reading DEF ReadBucket
  <2>3. /\ command' \in Commands /\ command'.inv = ReadObject(command.inv)
        /\ command'.name = command.name /\ command'.step = "read"
        /\ command.step = "read"
    BY <1>3, <2>1, <2>2 DEF ReadBucket, Commands
  <2>4. command.name \in {"inventory", "apply", "verify"}
    BY <2>3, NoCommandTyped DEF CleanupInv, CommandShape, Applying
  <2>5. CommandShape'
    BY <2>3, <2>4 DEF CommandShape
  <2>6. CommandOK'
    <3>1. Captures(command.inv, command.name) => Captures(command.inv, command.name)'
      BY <1>1, <2>2, <2>3 DEF Captures
    <3>2. ~Applying /\ ~Applying'
      BY <2>3 DEF Applying
    <3> QED
      BY <1>1, <2>3, <2>4, <3>1, <3>2 DEF CleanupInv, CommandOK, CommandAt, Applying
  <2> QED
    BY <1>1, <2>3, <2>5, <2>6, CommandMoves
<1>4. CASE StartInventory \/ StartApply \/ StartVerify
  <2>1. PICK name \in {"inventory", "apply", "verify"} :
            /\ CaptureWiki(name)
            /\ name = "inventory" => inventory = NoInventoryFile
            /\ name = "apply" => cleanupPlan /\ ~applied.started
            /\ name = "verify" => applied.started /\ ~verified
    <3>1. CASE StartInventory
      BY <3>1 DEF StartInventory
    <3>2. CASE StartApply
      BY <3>2 DEF StartApply
    <3>3. CASE StartVerify
      BY <3>3, NoReceiptIs DEF StartVerify, CleanupInv, FilesOrdered
    <3> QED
      BY <1>4, <3>1, <3>2, <3>3
  <2>2. /\ command' \in Commands /\ command'.name = name /\ command'.step = "list"
    BY <2>1, Capturing DEF CleanupInv, CleanupTypeOK
  <2>3. CommandShape' /\ CommandOK'
    BY <1>1, <2>1, <2>2 DEF CommandShape, CommandOK, CommandAt, Applying
  <2> QED
    BY <1>1, <2>2, <2>3, CommandMoves
<1>5. CASE StartRestore
  <2>1. PICK keys \in SUBSET inventory.candidates :
            /\ keys # {}
            /\ command' = [NoCommand EXCEPT !.name = "restore", !.step = "create", !.keys = keys]
    BY <1>5 DEF StartRestore
  <2>2. keys \subseteq MediaKeys /\ keys # {} /\ applied.started
    BY <1>5, <2>1, CleanupAssumption DEF CleanupInv, CleanupTypeOK, StartRestore
  <2>3. /\ command' \in Commands /\ command'.name = "restore" /\ command'.step = "create"
        /\ command'.keys = keys
    BY <2>1, <2>2, NoCommandTyped DEF Commands
  <2>4. CommandShape' /\ CommandOK'
    BY <1>1, <2>2, <2>3 DEF CommandShape, CommandOK, CommandAt, Applying
  <2> QED
    BY <1>1, <2>3, <2>4, CommandMoves
<1> QED
  BY <1>2, <1>3, <1>4, <1>5 DEF ReadBucket, KillCommand

LEMMA CleanupListed ==
    ASSUME BucketOK, CleanupInv, part = "cleanup", part' = part, ListBucket
    PROVE  BucketOK' /\ CleanupInv'
<1>1. /\ UNCHANGED <<bucket, foreign, wiki, local>>
      /\ UNCHANGED <<inventory, backup, receipts, cleanupPlan, applied, verified, restored>>
  BY DEF ListBucket, evidence, saved, later
<1>2. command \in Commands /\ command.step = "list"
      /\ command.name \in {"inventory", "apply", "verify"}
  <2>1. command.step = "list"
    BY DEF ListBucket
  <2> QED
    BY <2>1, NoCommandTyped DEF CleanupInv, CommandShape, Applying
<1>3. /\ command' \in Commands /\ command'.name = command.name /\ command'.step = "read"
      /\ command'.inv = Listed
  BY <1>2, Listing DEF ListBucket, Commands
<1>4. /\ changed' \in [Observers -> SUBSET MediaKeys]
      /\ \A o \in Observers : o # command.name => changed'[o] = changed[o]
      /\ {"apply", "verify"} \subseteq Observers
  BY CleanupAssumption DEF ListBucket, BucketOK
<1>5. BucketOK'
  BY <1>1, <1>4 DEF BucketOK
<1>6. CommandShape'
  BY <1>2, <1>3 DEF CommandShape
<1>7. CommandOK'
  <2>1. Captures(command.inv, command.name)'
    BY <1>1, <1>3, Listing DEF Captures
  <2> QED
    BY <1>1, <1>2, <1>3, <2>1 DEF CleanupInv, CommandOK, CommandAt, Applying
<1>8. RemovedIsAccounted' /\ AcceptedIsTrue'
  <2>1. applied.started => command.name # "apply"
    BY <1>2 DEF CleanupInv, CommandOK, Applying
  <2>2. verified => command.name # "verify"
    BY DEF CleanupInv, CommandOK
  <2>3. (applied.started => SeenBy("apply")) /\ (verified => SeenBy("verify"))
    BY <1>1, <1>4, <2>1, <2>2 DEF SeenBy
  <2> QED
    BY <1>1, <2>3, AccountedKept DEF CleanupInv
<1>9. CleanupTypeOK' /\ FilesOrdered' /\ applied' \in ApplyReceipts
  BY <1>1, <1>3 DEF CleanupInv, CleanupTypeOK, Commands, FilesOrdered, Backed
<1> QED
  BY <1>3, <1>5, <1>6, <1>7, <1>8, <1>9 DEF CleanupInv

\* Before an apply there is nothing to account for.
LEMMA FilesMove ==
    ASSUME CleanupInv, part = "cleanup", part' = part, ~applied.started,
           UNCHANGED <<bucket, changed, wiki, local, applied, verified, restored>>,
           command' \in Commands, CommandShape', CommandOK', FilesOrdered',
           inventory'.objects \in [MediaKeys -> MediaObject \cup {NoObject}],
           inventory'.candidates \subseteq Legacy,
           backup' \in [MediaKeys -> MediaObject \cup {NoObject}],
           receipts' \subseteq {"minio", "local"}, cleanupPlan' \in BOOLEAN
    PROVE  CleanupInv'
<1>1. ~verified /\ applied.remote = {}
  BY NoReceiptIs DEF CleanupInv, FilesOrdered
<1>2. RemovedIsAccounted' /\ AcceptedIsTrue'
  BY <1>1 DEF RemovedIsAccounted, AcceptedIsTrue
<1>3. CleanupTypeOK'
  BY <1>1 DEF CleanupInv, CleanupTypeOK, Commands
<1> QED
  BY <1>2, <1>3 DEF CleanupInv

LEMMA FilesWritten ==
    ASSUME BucketOK, CleanupInv, part = "cleanup", part' = part,
           \/ WriteInventory \/ StartBackup \/ Download \/ WriteBackupReceipt
           \/ VerifyLocalBackup \/ WritePlan
    PROVE  CleanupInv'
<1>1. /\ UNCHANGED <<bucket, changed, wiki, local, applied, verified, restored>>
      /\ command \in Commands
  BY DEF WriteInventory, StartBackup, Download, WriteBackupReceipt, VerifyLocalBackup, WritePlan,
         bucketVars, later, CleanupInv
<1>2. CASE WriteInventory
  <2>1. /\ inventory = NoInventoryFile /\ UNCHANGED <<backup, receipts, cleanupPlan>>
        /\ CommandEnds
    BY <1>2 DEF WriteInventory, Captured, CommandAt, CleanupInv, CommandOK
  <2>2. "minio" \notin receipts /\ ~cleanupPlan /\ ~applied.started
    BY <2>1, NoInventoryFileIs DEF CleanupInv, FilesOrdered
  <2>3. /\ inventory'.objects \in [MediaKeys -> MediaObject \cup {NoObject}]
        /\ inventory'.candidates \subseteq Legacy
    <3>1. command.inv.seen \in [MediaKeys -> MediaObject \cup {NoObject}]
      BY <1>1 DEF Commands, Inventory
    <3>2. Candidates \subseteq Legacy
      BY DEF Candidates
    <3>3. \/ inventory' = [status |-> "pass", objects |-> command.inv.seen,
                           rows |-> command.rows, candidates |-> Candidates]
          \/ inventory' = NoInventoryFile
      BY <1>2 DEF WriteInventory
    <3> QED
      BY <3>1, <3>2, <3>3, NoInventoryFileIs
  <2>4. FilesOrdered'
    BY <1>1, <2>1, <2>2 DEF CleanupInv, FilesOrdered
  <2> QED
    BY <1>1, <2>1, <2>2, <2>3, <2>4, FilesMove, NoCommandOK DEF CleanupInv, CleanupTypeOK
<1>3. CASE StartBackup
  <2> DEFINE start == [NoCommand EXCEPT !.name = "backup", !.step = "download",
                                        !.keys = inventory.candidates]
  <2>1. /\ command' = start /\ backup' = Empty /\ UNCHANGED <<inventory, receipts, cleanupPlan>>
        /\ inventory.status = "pass" /\ "minio" \notin receipts
    BY <1>3 DEF StartBackup
  <2>2. ~cleanupPlan /\ ~applied.started
    BY <2>1 DEF CleanupInv, FilesOrdered
  <2>3. inventory.candidates \subseteq MediaKeys
    BY CleanupAssumption DEF CleanupInv, CleanupTypeOK
  <2>4. /\ start \in Commands /\ start.name = "backup" /\ start.step = "download"
        /\ start.keys = inventory.candidates
    BY <2>3, NoCommandTyped DEF Commands
  <2> HIDE DEF start
  <2>5. CommandShape' /\ CommandOK'
    BY <2>1, <2>4 DEF CommandShape, CommandOK, CommandAt, Applying
  <2>6. FilesOrdered'
    BY <1>1, <2>1, <2>2 DEF CleanupInv, FilesOrdered
  <2>7. backup' \in [MediaKeys -> MediaObject \cup {NoObject}]
    BY <2>1 DEF Empty
  <2> QED
    BY <1>1, <2>1, <2>2, <2>4, <2>5, <2>6, <2>7, FilesMove DEF CleanupInv, CleanupTypeOK
<1>4. CASE Download
  <2> DEFINE k == Min(command.keys)
  <2>1. /\ command.name = "backup" /\ command.keys # {} /\ command.keys \subseteq MediaKeys
        /\ command.step = "download" /\ inventory.status = "pass" /\ "minio" \notin receipts
        /\ UNCHANGED <<inventory, receipts, cleanupPlan>>
    BY <1>1, <1>4 DEF Download, CommandAt, CleanupInv, CommandOK, Commands
  <2>2. ~cleanupPlan /\ ~applied.started
    BY <2>1 DEF CleanupInv, FilesOrdered
  <2>3. k \in command.keys /\ k \in MediaKeys
    BY <2>1, MinIsMember, BucketAssumption
  <2>4. FilesOrdered'
    BY <1>1, <2>1, <2>2 DEF CleanupInv, FilesOrdered
  <2>5. /\ \/ CommandEnds
           \/ /\ command' = [command EXCEPT !.keys = @ \ {k}]
              /\ backup' = [backup EXCEPT ![k] = bucket[k]]
              /\ bucket[k] # NoObject /\ bucket[k].body = inventory.objects[k].body
        /\ backup' = [backup EXCEPT ![k] = bucket[k]] \/ UNCHANGED backup
    BY <1>4 DEF Download
  <2> HIDE DEF k
  <2>6. backup' \in [MediaKeys -> MediaObject \cup {NoObject}]
    BY <2>3, <2>5 DEF CleanupInv, CleanupTypeOK, BucketOK, Objects
  <2>7. CASE CommandEnds
    BY <1>1, <2>1, <2>2, <2>4, <2>6, <2>7, FilesMove, NoCommandOK DEF CleanupInv, CleanupTypeOK
  <2>8. CASE /\ command' = [command EXCEPT !.keys = @ \ {k}]
             /\ backup' = [backup EXCEPT ![k] = bucket[k]]
             /\ bucket[k] # NoObject /\ bucket[k].body = inventory.objects[k].body
    <3>1. /\ command' \in Commands /\ command'.name = "backup" /\ command'.step = "download"
          /\ command'.keys = command.keys \ {k}
      BY <1>1, <2>1, <2>8 DEF Commands
    <3>2. \A j \in inventory.candidates \ command'.keys : Backed(j)'
      <4> SUFFICES ASSUME NEW j \in inventory.candidates \ command'.keys PROVE Backed(j)'
        OBVIOUS
      <4>1. CASE j = k
        BY <2>1, <2>3, <2>8, <4>1 DEF Backed, CleanupInv, CleanupTypeOK
      <4>2. CASE j # k
        <5>1. Backed(j)
          BY <2>1, <3>1, <4>2 DEF CleanupInv, CommandOK
        <5> QED
          BY <2>1, <2>8, <4>2, <5>1 DEF Backed, CleanupInv, CleanupTypeOK
      <4> QED
        BY <4>1, <4>2
    <3>3. CommandShape' /\ CommandOK'
      BY <2>1, <3>1, <3>2 DEF CommandShape, CommandOK, CommandAt, Applying
    <3> QED
      BY <1>1, <2>1, <2>2, <2>4, <2>6, <3>1, <3>3, FilesMove DEF CleanupInv, CleanupTypeOK
  <2> QED
    BY <2>5, <2>7, <2>8
<1>5. CASE WriteBackupReceipt
  <2>1. /\ command.name = "backup" /\ command.keys = {} /\ inventory.status = "pass"
        /\ "minio" \notin receipts /\ receipts' = receipts \cup {"minio"}
        /\ \A k \in inventory.candidates : Backed(k)
        /\ CommandEnds /\ UNCHANGED <<inventory, backup, cleanupPlan>>
    BY <1>5 DEF WriteBackupReceipt, CommandAt, CleanupInv, CommandOK
  <2>2. ~cleanupPlan /\ ~applied.started
    BY <2>1 DEF CleanupInv, FilesOrdered
  <2>3. FilesOrdered'
    BY <1>1, <2>1, <2>2 DEF CleanupInv, FilesOrdered, Backed
  <2> QED
    BY <1>1, <2>1, <2>2, <2>3, FilesMove, NoCommandOK DEF CleanupInv, CleanupTypeOK
<1>6. CASE VerifyLocalBackup \/ WritePlan
  <2>1. /\ command = NoCommand /\ command' = command /\ UNCHANGED <<inventory, backup>>
        /\ receipts' \subseteq receipts \cup {"local"} /\ receipts \subseteq receipts'
        /\ cleanupPlan' \in BOOLEAN /\ (cleanupPlan => cleanupPlan')
        /\ cleanupPlan' => cleanupPlan \/ "minio" \in receipts
    <3>1. CASE VerifyLocalBackup
      BY <3>1 DEF VerifyLocalBackup, NoCommandRuns, CleanupInv, CleanupTypeOK
    <3>2. CASE WritePlan
      BY <3>2 DEF WritePlan, NoCommandRuns, CleanupInv, CleanupTypeOK
    <3> QED
      BY <1>6, <3>1, <3>2
  <2>2. CommandShape' /\ CommandOK'
    BY <2>1, NoCommandTyped DEF CommandShape, CommandOK, CommandAt, Applying
  <2>3. FilesOrdered'
    BY <1>1, <2>1 DEF CleanupInv, FilesOrdered, Backed
  <2>4. RemovedIsAccounted' /\ AcceptedIsTrue'
    BY <1>1, <2>1, AccountedKept, NothingWritten DEF CleanupInv
  <2>5. CleanupTypeOK'
    BY <1>1, <2>1 DEF CleanupInv, CleanupTypeOK
  <2> QED
    BY <1>1, <2>1, <2>2, <2>3, <2>4, <2>5 DEF CleanupInv
<1> QED
  BY <1>2, <1>3, <1>4, <1>5, <1>6

-----------------------------------------------------------------------------
\* The next removal, of which there may be no row yet.
LEMMA NextRemoval ==
    ASSUME CleanupInv, Applying, command.keys # {}
    PROVE  /\ Min(command.keys) \in command.keys
           /\ Min(command.keys) \in MediaKeys
           /\ Min(command.keys) \in inventory.candidates \ applied.remote
           /\ Unrecorded = {Min(command.keys)} /\ Backed(Min(command.keys))
<1>1. command.keys = inventory.candidates \ applied.remote /\ command.keys \subseteq MediaKeys
  BY DEF CleanupInv, CommandOK, Commands
<1>2. Min(command.keys) \in command.keys
  BY <1>1, MinIsMember, BucketAssumption
<1>3. \A k \in inventory.candidates : Backed(k)
  BY DEF CleanupInv, CommandOK, FilesOrdered, Applying
<1>4. Unrecorded = {Min(command.keys)}
  BY <1>1 DEF Unrecorded
<1> QED
  BY <1>1, <1>2, <1>3, <1>4

LEMMA DriftChecked ==
    ASSUME BucketOK, CleanupInv, part = "cleanup", part' = part, RequireNoDrift, NoDrift
    PROVE  CleanupInv'
<1>1. /\ UNCHANGED <<bucket, changed, wiki, local, verified, restored>>
      /\ UNCHANGED <<inventory, backup, receipts, cleanupPlan>>
      /\ command \in Commands /\ command.name = "apply" /\ command.step = "read"
      /\ command.inv.todo = {} /\ command.inv.seen = inventory.objects
      /\ applied' = [applied EXCEPT !.started = TRUE]
  BY DEF RequireNoDrift, bucketVars, saved, Captured, CommandAt, NoDrift, CleanupInv
<1>2. cleanupPlan /\ ~applied.started /\ applied = NoReceipt /\ ~verified
      /\ Captures(command.inv, "apply")
  BY <1>1 DEF CleanupInv, CommandOK, FilesOrdered, Applying
<1>3. /\ applied' \in ApplyReceipts /\ applied'.started /\ applied'.remote = {}
      /\ applied'.local = {} /\ ~applied'.completed
  BY <1>1, <1>2, NoReceiptIs DEF ApplyReceipts
<1>4. inventory.candidates \subseteq MediaKeys
  BY CleanupAssumption DEF CleanupInv, CleanupTypeOK
<1>5. /\ command' \in Commands /\ command'.name = "apply" /\ command'.step = "remove"
      /\ command'.keys = inventory.candidates
  BY <1>4, NoCommandTyped DEF RequireNoDrift, Commands
<1>6. CommandShape' /\ CommandOK'
  BY <1>1, <1>2, <1>3, <1>5 DEF CommandShape, CommandOK, CommandAt, Applying
<1>7. RemovedIsAccounted'
  <2>1. \A k \in MediaKeys \ changed["apply"] : bucket[k] = inventory.objects[k]
    BY <1>1, <1>2 DEF Captures
  <2> QED
    BY <1>1, <1>3, <2>1 DEF RemovedIsAccounted
<1>8. AcceptedIsTrue' /\ FilesOrdered'
  BY <1>1, <1>2, <1>3 DEF AcceptedIsTrue, CleanupInv, FilesOrdered, Backed
<1>9. CleanupTypeOK'
  BY <1>1, <1>3, <1>5 DEF CleanupInv, CleanupTypeOK, Commands
<1> QED
  BY <1>1, <1>3, <1>5, <1>6, <1>7, <1>8, <1>9 DEF CleanupInv

LEMMA Removing ==
    ASSUME BucketOK, CleanupInv, part = "cleanup", part' = part, RemoveObject
    PROVE  BucketOK' /\ CleanupInv'
<1> DEFINE k == Min(command.keys)
<1>1. /\ UNCHANGED <<foreign, wiki, local>>
      /\ UNCHANGED <<inventory, backup, receipts, cleanupPlan, applied, verified, restored>>
      /\ command \in Commands /\ command.name = "apply" /\ command.step = "remove"
      /\ command.keys # {} /\ command' = [command EXCEPT !.step = "row"]
      /\ Change(k, NoObject, "apply")
  BY DEF RemoveObject, evidence, saved, later, CommandAt, Step, CleanupInv
<1>2. Applying /\ applied.started
  BY <1>1 DEF Applying, CleanupInv, CommandOK
<1>3. /\ k \in command.keys /\ k \in MediaKeys /\ k \in inventory.candidates \ applied.remote
      /\ Unrecorded = {k} /\ Backed(k)
  BY <1>1, <1>2, NextRemoval
<1>4. /\ command' \in Commands /\ command'.name = "apply" /\ command'.step = "row"
      /\ command'.keys = command.keys
  BY <1>1 DEF Commands
<1>5. Min(command'.keys) = k
  BY <1>4
<1> HIDE DEF k
<1>6. /\ bucket' \in [MediaKeys -> Objects] /\ changed' \in [Observers -> SUBSET MediaKeys]
      /\ bucket'[k] = NoObject /\ \A j \in MediaKeys \ {k} : bucket'[j] = bucket[j]
      /\ changed'["apply"] = changed["apply"] /\ changed'["verify"] = changed["verify"] \cup {k}
  BY <1>1, <1>3, Writing, CleanupAssumption DEF Objects
<1>7. CommandShape' /\ CommandOK'
  <2>1. CommandShape' /\ Applying'
    BY <1>4 DEF CommandShape, Applying
  <2> QED
    BY <1>1, <1>2, <1>4, <1>5, <1>6, <2>1 DEF CleanupInv, CommandOK, CommandAt, Applying
<1>8. RemovedIsAccounted'
  <2>1. Unrecorded' = {k}
    BY <1>1, <1>3 DEF Unrecorded
  <2> QED
    BY <1>1, <1>3, <1>6, <2>1 DEF CleanupInv, RemovedIsAccounted, Backed
<1>9. AcceptedIsTrue'
  BY <1>1, <1>6 DEF CleanupInv, AcceptedIsTrue, Remaining
<1>10. CleanupTypeOK' /\ FilesOrdered'
  BY <1>1, <1>4 DEF CleanupInv, CleanupTypeOK, Commands, FilesOrdered, Backed
<1> QED
  BY <1>1, <1>4, <1>6, <1>7, <1>8, <1>9, <1>10 DEF CleanupInv, BucketOK

LEMMA RowAppended ==
    ASSUME BucketOK, CleanupInv, part = "cleanup", part' = part, AppendRemote
    PROVE  CleanupInv'
<1> DEFINE k == Min(command.keys)
<1>1. /\ UNCHANGED <<bucket, changed, wiki, local, verified, restored>>
      /\ UNCHANGED <<inventory, backup, receipts, cleanupPlan>>
      /\ command \in Commands /\ command.name = "apply" /\ command.step = "row"
      /\ applied' = [applied EXCEPT !.remote = @ \cup {k}]
      /\ command' = [command EXCEPT !.keys = @ \ {k}, !.step = "remove"]
      /\ applied \in ApplyReceipts
  BY DEF AppendRemote, bucketVars, saved, CommandAt, CleanupInv
<1>2. /\ Applying /\ applied.started /\ command.keys # {}
      /\ k \notin changed["apply"] => bucket[k] = NoObject
      /\ command.keys = inventory.candidates \ applied.remote
  BY <1>1 DEF Applying, CleanupInv, CommandOK, CommandAt
<1>3. /\ k \in command.keys /\ k \in MediaKeys /\ k \in inventory.candidates \ applied.remote
      /\ Unrecorded = {k} /\ Backed(k)
  BY <1>2, NextRemoval
<1> HIDE DEF k
<1>4. /\ command' \in Commands /\ command'.name = "apply" /\ command'.step = "remove"
      /\ command'.keys = command.keys \ {k}
  BY <1>1 DEF Commands
<1>5. /\ applied' \in ApplyReceipts /\ applied'.started /\ applied'.local = applied.local
      /\ applied'.remote = applied.remote \cup {k}
  BY <1>1, <1>2, <1>3 DEF ApplyReceipts
<1>6. CommandShape' /\ CommandOK'
  <2>1. command'.keys = inventory.candidates \ applied'.remote
    BY <1>2, <1>4, <1>5
  <2> QED
    BY <1>1, <1>2, <1>4, <1>5, <2>1 DEF CleanupInv, CommandShape, CommandOK, CommandAt, Applying
<1>7. RemovedIsAccounted'
  <2> SUFFICES ASSUME NEW j \in MediaKeys \ changed["apply"]
      PROVE  \/ bucket[j] = inventory.objects[j] /\ j \notin applied'.remote
             \/ bucket[j] = NoObject /\ j \in applied'.remote /\ Backed(j)
    BY <1>1 DEF RemovedIsAccounted, Backed
  <2>1. \/ bucket[j] = inventory.objects[j] /\ j \notin applied.remote
        \/ bucket[j] = NoObject /\ j \in applied.remote \cup {k} /\ Backed(j)
    BY <1>2, <1>3 DEF CleanupInv, RemovedIsAccounted, Backed
  <2> QED
    BY <1>2, <1>3, <1>5, <2>1
<1>8. AcceptedIsTrue' /\ FilesOrdered'
  BY <1>1, <1>2, <1>5 DEF CleanupInv, AcceptedIsTrue, Remaining, FilesOrdered, Backed
<1>9. CleanupTypeOK'
  BY <1>1, <1>3, <1>4, <1>5 DEF CleanupInv, CleanupTypeOK, Commands
<1> QED
  BY <1>1, <1>4, <1>5, <1>6, <1>7, <1>8, <1>9 DEF CleanupInv

\* What else an apply does: the drift that stops it, the local paths, the end.
LEMMA ApplyGoesOn ==
    ASSUME BucketOK, CleanupInv, part = "cleanup", part' = part,
           \/ RequireNoDrift /\ ~NoDrift
           \/ RemoveLocal \/ AppendLocal \/ CompleteApply
    PROVE  CleanupInv'
<1>1. /\ UNCHANGED <<bucket, changed, wiki, verified, restored>>
      /\ UNCHANGED <<inventory, backup, receipts, cleanupPlan>>
      /\ command \in Commands /\ applied \in ApplyReceipts
  BY DEF RequireNoDrift, RemoveLocal, AppendLocal, CompleteApply, bucketVars, saved, later,
         evidence, CleanupInv
<1>2. ASSUME applied' \in ApplyReceipts, applied'.started = applied.started,
             applied'.remote = applied.remote, ~applied.started => applied' = applied,
             local' \in [LocalPaths -> {"saved", "edited", "gone"}],
             command' \in Commands, CommandShape', CommandOK'
      PROVE  CleanupInv'
  <2>1. RemovedIsAccounted' /\ AcceptedIsTrue'
    BY <1>1, <1>2 DEF CleanupInv, RemovedIsAccounted, AcceptedIsTrue, Remaining, Unrecorded
  <2>2. FilesOrdered'
    BY <1>1, <1>2 DEF CleanupInv, FilesOrdered, Backed
  <2>3. CleanupTypeOK'
    BY <1>1, <1>2 DEF CleanupInv, CleanupTypeOK, Commands, ApplyReceipts
  <2> QED
    BY <1>1, <1>2, <2>1, <2>2, <2>3 DEF CleanupInv
<1>3. local \in [LocalPaths -> {"saved", "edited", "gone"}]
  BY DEF CleanupInv, CleanupTypeOK
<1>4. CASE CommandEnds /\ UNCHANGED <<local, applied>>
  BY <1>1, <1>2, <1>3, <1>4, NoCommandOK
<1>5. LocalLeft # {} => Min(LocalLeft) \in LocalLeft /\ Min(LocalLeft) \in LocalPaths
  <2>1. LocalLeft \subseteq LocalPaths /\ LocalLeft \subseteq Nat
    BY CleanupAssumption DEF LocalLeft
  <2> QED
    BY <2>1, MinIsMember
<1>6. CASE RemoveLocal /\ Step("local_row")
  <2>1. /\ command.name = "apply" /\ command.step = "remove" /\ LocalLeft # {}
        /\ local' = local \/ local' = [local EXCEPT ![Min(LocalLeft)] = "gone"]
        /\ UNCHANGED applied
    BY <1>6 DEF RemoveLocal, CommandAt, evidence, later
  <2>2. /\ command' \in Commands /\ command'.name = "apply" /\ command'.step = "local_row"
        /\ command'.keys = command.keys
    BY <1>1, <1>6, <2>1 DEF Step, Commands
  <2>3. CommandShape' /\ Applying'
    BY <2>2 DEF CommandShape, Applying
  <2>4. CommandOK'
    BY <1>1, <2>1, <2>2, <2>3 DEF CleanupInv, CommandOK, CommandAt, Applying, LocalLeft
  <2>5. local' \in [LocalPaths -> {"saved", "edited", "gone"}]
    BY <1>3, <1>5, <2>1
  <2> QED
    BY <1>1, <1>2, <2>1, <2>2, <2>3, <2>4, <2>5
<1>7. CASE AppendLocal
  <2>1. /\ command.name = "apply" /\ command.step = "local_row" /\ UNCHANGED local
        /\ command' = [command EXCEPT !.step = "remove"]
        /\ applied' = [applied EXCEPT !.local = @ \cup {Min(LocalLeft)}]
    BY <1>7 DEF AppendLocal, CommandAt, Step
  <2>2. LocalLeft # {} /\ applied.started /\ command.keys = inventory.candidates \ applied.remote
    BY <2>1 DEF CleanupInv, CommandOK, CommandAt, Applying
  <2>3. /\ command' \in Commands /\ command'.name = "apply" /\ command'.step = "remove"
        /\ command'.keys = command.keys
    BY <1>1, <2>1 DEF Commands
  <2>4. /\ applied' \in ApplyReceipts /\ applied'.started = applied.started
        /\ applied'.remote = applied.remote
    BY <1>1, <1>5, <2>1, <2>2 DEF ApplyReceipts
  <2>5. CommandShape' /\ Applying'
    BY <2>3 DEF CommandShape, Applying
  <2>6. CommandOK'
    BY <1>1, <2>1, <2>2, <2>3, <2>4, <2>5 DEF CleanupInv, CommandOK, CommandAt, Applying
  <2> QED
    BY <1>1, <1>2, <1>3, <2>1, <2>2, <2>3, <2>4, <2>5, <2>6
<1>8. CASE CompleteApply
  <2>1. /\ CommandEnds /\ UNCHANGED local /\ applied' = [applied EXCEPT !.completed = TRUE]
        /\ applied.started
    BY <1>8 DEF CompleteApply, CleanupInv, CommandOK, CommandAt, Applying
  <2>2. /\ applied' \in ApplyReceipts /\ applied'.started = applied.started
        /\ applied'.remote = applied.remote
    BY <1>1, <2>1 DEF ApplyReceipts
  <2> QED
    BY <1>1, <1>2, <1>3, <2>1, <2>2, NoCommandOK
<1> QED
  BY <1>4, <1>6, <1>7, <1>8 DEF RequireNoDrift, RemoveLocal, evidence, later

LEMMA Accepting ==
    ASSUME BucketOK, CleanupInv, part = "cleanup", part' = part, Accept
    PROVE  CleanupInv'
<1>1. /\ UNCHANGED <<bucket, changed, wiki, local, applied, restored>>
      /\ UNCHANGED <<inventory, backup, receipts, cleanupPlan>> /\ CommandEnds
      /\ command.name = "verify" /\ command.step = "read" /\ command.inv.todo = {}
      /\ verified' = (command.inv.seen = Remaining /\ command.rows = inventory.rows)
  BY DEF Accept, bucketVars, saved, Captured, CommandAt
<1>2. applied.started /\ Captures(command.inv, "verify")
  BY <1>1 DEF CleanupInv, CommandOK
<1>3. AcceptedIsTrue'
  <2>1. \A k \in MediaKeys \ changed["verify"] : bucket[k] = command.inv.seen[k]
    BY <1>1, <1>2 DEF Captures
  <2> QED
    BY <1>1, <2>1 DEF AcceptedIsTrue, Remaining
<1>4. RemovedIsAccounted'
  BY <1>1 DEF CleanupInv, RemovedIsAccounted, Unrecorded
<1>5. FilesOrdered'
  BY <1>1, <1>2 DEF CleanupInv, FilesOrdered, Backed
<1>6. command' \in Commands /\ CommandShape' /\ CommandOK'
  BY <1>1, NoCommandOK
<1>7. CleanupTypeOK'
  BY <1>1, <1>6 DEF CleanupInv, CleanupTypeOK, Commands
<1> QED
  BY <1>1, <1>3, <1>4, <1>5, <1>6, <1>7 DEF CleanupInv

LEMMA RestoreSteps ==
    ASSUME BucketOK, CleanupInv, part = "cleanup", part' = part,
           RestoreObject \/ AppendRestored
    PROVE  BucketOK' /\ CleanupInv'
<1> DEFINE k == Min(command.keys)
<1>1. /\ UNCHANGED <<foreign, wiki, local, applied, verified>>
      /\ UNCHANGED <<inventory, backup, receipts, cleanupPlan>>
      /\ command \in Commands /\ command.name = "restore"
  BY DEF RestoreObject, AppendRestored, bucketVars, evidence, saved, later, CommandAt, CleanupInv
<1>2. applied.started /\ command.keys # {} /\ command.keys \subseteq inventory.candidates
      /\ command.keys \subseteq MediaKeys
  BY <1>1 DEF CleanupInv, CommandOK, Commands
<1>3. k \in command.keys /\ k \in MediaKeys
  BY <1>2, MinIsMember, BucketAssumption
<1> HIDE DEF k
<1>4. CASE RestoreObject /\ CommandEnds /\ UNCHANGED <<bucket, changed>>
  <2>1. UNCHANGED evidence
    BY <1>4 DEF RestoreObject
  <2> QED
    BY <1>1, <1>4, <2>1, NoCommandOK, CommandMoves DEF BucketOK
<1>5. CASE RestoreObject /\ Change(k, [body |-> backup[k].body, op |-> "restore"], "restore")
           /\ Step("row")
  <2>1. [body |-> backup[k].body, op |-> "restore"] \in Objects
    <3>1. Backed(k)
      BY <1>2, <1>3 DEF CleanupInv, FilesOrdered
    <3>2. backup[k] \in MediaObject
      BY <1>3, <3>1 DEF Backed, CleanupInv, CleanupTypeOK
    <3> QED
      BY <3>2, CleanupAssumption DEF MediaObject, Objects
  <2>2. /\ bucket' \in [MediaKeys -> Objects] /\ changed' \in [Observers -> SUBSET MediaKeys]
        /\ \A j \in MediaKeys \ {k} : bucket'[j] = bucket[j]
        /\ \A o \in {"apply", "verify"} : changed'[o] = changed[o] \cup {k}
    BY <1>3, <1>5, <2>1, Writing, CleanupAssumption
  <2>3. /\ command' \in Commands /\ command'.name = "restore" /\ command'.step = "row"
        /\ command'.keys = command.keys /\ restored' = restored
    BY <1>1, <1>5 DEF RestoreObject, Step, Commands, evidence, later
  <2>4. CommandShape' /\ CommandOK'
    BY <1>1, <1>2, <2>3 DEF CommandShape, CommandOK, CommandAt, Applying
  <2>5. SeenBy("apply") /\ SeenBy("verify")
    BY <2>2 DEF SeenBy
  <2>6. RemovedIsAccounted' /\ AcceptedIsTrue'
    BY <1>1, <2>5, AccountedKept DEF CleanupInv
  <2>7. CleanupTypeOK' /\ FilesOrdered'
    BY <1>1, <2>3 DEF CleanupInv, CleanupTypeOK, Commands, FilesOrdered, Backed
  <2> QED
    BY <1>1, <2>2, <2>3, <2>4, <2>6, <2>7 DEF CleanupInv, BucketOK
<1>6. CASE AppendRestored
  <2> DEFINE left == command.keys \ {k}
  <2>1. /\ UNCHANGED <<bucket, changed>> /\ restored' = (restored \ NotRestored) \cup {k}
        /\ \/ command' = NoCommand
           \/ left # {} /\ command' = [command EXCEPT !.keys = left, !.step = "create"]
    BY <1>6 DEF AppendRestored, bucketVars, k
  <2>2. command' \in Commands /\ CommandShape' /\ CommandOK'
    <3>1. CASE command' = NoCommand
      BY <3>1, NoCommandOK DEF CommandEnds
    <3>2. CASE left # {} /\ command' = [command EXCEPT !.keys = left, !.step = "create"]
      <4>1. /\ command' \in Commands /\ command'.name = "restore" /\ command'.step = "create"
            /\ command'.keys = left
        BY <1>1, <1>2, <3>2 DEF Commands
      <4> QED
        BY <1>1, <1>2, <3>2, <4>1 DEF CommandShape, CommandOK, CommandAt, Applying
    <3> QED
      BY <2>1, <3>1, <3>2
  <2>3. RemovedIsAccounted' /\ AcceptedIsTrue'
    BY <1>1, <2>1, AccountedKept, NothingWritten DEF CleanupInv
  <2>4. CleanupTypeOK' /\ FilesOrdered'
    BY <1>1, <1>3, <2>1, <2>2 DEF CleanupInv, CleanupTypeOK, Commands, FilesOrdered, Backed
  <2> QED
    BY <1>1, <2>1, <2>2, <2>3, <2>4 DEF CleanupInv, BucketOK
<1> QED
  BY <1>4, <1>5, <1>6 DEF RestoreObject, k

LEMMA UsersAtWork ==
    ASSUME BucketOK, CleanupInv, part = "cleanup", part' = part, WikiImported \/ LocalEdited
    PROVE  BucketOK' /\ CleanupInv'
<1>1. /\ UNCHANGED <<bucket, changed, command>>
      /\ UNCHANGED <<inventory, backup, receipts, cleanupPlan, applied, verified, restored>>
  BY DEF WikiImported, LocalEdited, evidence, saved, later
<1>2. foreign' \in Nat
  BY DEF WikiImported, LocalEdited, BucketOK
<1>3. /\ wiki' \subseteq MediaKeys
      /\ local' \in [LocalPaths -> {"saved", "edited", "gone"}]
  <2>1. CASE WikiImported
    BY <2>1 DEF WikiImported, Present, CleanupInv, CleanupTypeOK
  <2>2. CASE LocalEdited
    BY <2>2 DEF LocalEdited, CleanupInv, CleanupTypeOK
  <2> QED
    BY <2>1, <2>2
<1>4. RemovedIsAccounted' /\ AcceptedIsTrue'
  BY <1>1, AccountedKept, NothingWritten DEF CleanupInv
<1>5. CommandShape' /\ CommandOK'
  BY <1>1 DEF CleanupInv, CommandShape, CommandOK, CommandAt, Applying, Captures, LocalLeft, Backed
<1>6. CleanupTypeOK' /\ FilesOrdered'
  BY <1>1, <1>3 DEF CleanupInv, CleanupTypeOK, FilesOrdered, Backed
<1> QED
  BY <1>1, <1>2, <1>4, <1>5, <1>6 DEF CleanupInv, BucketOK

LEMMA CleanupUnderOthers ==
    ASSUME BucketOK, CleanupInv, OtherWrites, UNCHANGED <<part, cleanupVars>>
    PROVE  CleanupInv'
<1>1. SeenBy("apply") /\ SeenBy("verify")
  BY OthersWriting, CleanupAssumption
<1>2. /\ UNCHANGED <<wiki, local, command>>
      /\ UNCHANGED <<inventory, backup, receipts, cleanupPlan, applied, verified, restored>>
  BY DEF cleanupVars, evidence, saved, later
<1>3. RemovedIsAccounted' /\ AcceptedIsTrue'
  BY <1>1, <1>2, AccountedKept DEF CleanupInv
<1>4. CommandOK'
  <2>1. command.name \in {"apply", "verify"} /\ Captures(command.inv, command.name)
        => Captures(command.inv, command.name)'
    BY <1>1, <1>2 DEF SeenBy, Captures
  <2>2. CommandAt("apply", "row") => Min(command.keys) \in MediaKeys
    BY NextRemoval DEF CleanupInv, CommandOK, CommandAt, Applying
  <2>3. CommandAt("apply", "row") =>
            (Min(command.keys) \notin changed'["apply"] => bucket'[Min(command.keys)] = NoObject)
    BY <1>1, <2>2 DEF SeenBy, CleanupInv, CommandOK
  <2> QED
    BY <1>2, <2>1, <2>3 DEF CleanupInv, CommandOK, CommandAt, Applying, LocalLeft, Backed
<1>5. CleanupTypeOK' /\ FilesOrdered' /\ CommandShape'
  BY <1>2 DEF CleanupInv, CleanupTypeOK, FilesOrdered, Backed, CommandShape, Applying
<1> QED
  BY <1>2, <1>3, <1>4, <1>5 DEF CleanupInv

\* What a cleanup writes to the bucket: it removes candidates once an apply has
\* started, and creates restored objects where nothing is.
CleanupWrites ==
    \A k \in MediaKeys :
        \/ bucket'[k] = bucket[k]
        \/ bucket'[k] = NoObject /\ applied.started /\ k \in inventory.candidates
        \/ bucket[k] = NoObject /\ bucket'[k].op = "restore"

LEMMA CleanupWritesThat ==
    ASSUME BucketOK, CleanupInv, CleanupNext PROVE CleanupWrites
<1>1. CASE RemoveObject
  <2>1. command.keys # {} /\ Applying /\ Change(Min(command.keys), NoObject, "apply")
    BY <1>1 DEF RemoveObject, CommandAt, Applying
  <2>2. applied.started
    BY <2>1 DEF CleanupInv, CommandOK, Applying
  <2>3. Min(command.keys) \in MediaKeys /\ Min(command.keys) \in inventory.candidates
    BY <2>1, NextRemoval
  <2> QED
    BY <2>1, <2>2, <2>3, Writing DEF CleanupWrites, Objects
<1>2. CASE RestoreObject
  <2> DEFINE k == Min(command.keys)
  <2>1. command.keys # {} /\ command.keys \subseteq MediaKeys
    BY <1>2 DEF RestoreObject, CommandAt, CleanupInv, CommandOK, Commands
  <2>2. k \in MediaKeys
    BY <2>1, MinIsMember, BucketAssumption
  <2>3. \/ UNCHANGED bucket
        \/ /\ bucket[k] = NoObject
           /\ bucket' = [bucket EXCEPT ![k] = [body |-> backup[k].body, op |-> "restore"]]
    BY <1>2 DEF RestoreObject, Change
  <2> HIDE DEF k
  <2> QED
    BY <2>2, <2>3 DEF CleanupWrites, BucketOK
<1>3. CASE bucket' = bucket
  BY <1>3 DEF CleanupWrites
<1> QED
  BY <1>1, <1>2, <1>3
     DEF CleanupNext, ListBucket, ReadBucket, StartInventory, WriteInventory, StartBackup,
         Download, WriteBackupReceipt, VerifyLocalBackup, WritePlan, StartApply,
         RequireNoDrift, AppendRemote, RemoveLocal, AppendLocal, CompleteApply, StartVerify,
         Accept, StartRestore, AppendRestored, KillCommand, WikiImported, LocalEdited, bucketVars

LEMMA CleanupSteps ==
    ASSUME BucketOK, CleanupInv, part = "cleanup", part' = part, CleanupNext
    PROVE  BucketOK' /\ CleanupInv'
<1>1. CASE ListBucket \/ RemoveObject \/ RestoreObject \/ AppendRestored \/ WikiImported
           \/ LocalEdited
  BY <1>1, CleanupListed, Removing, RestoreSteps, UsersAtWork
<1>2. CASE \/ ReadBucket \/ StartInventory \/ StartApply \/ StartVerify \/ StartRestore
           \/ KillCommand \/ WriteInventory \/ StartBackup \/ Download \/ WriteBackupReceipt
           \/ VerifyLocalBackup \/ WritePlan \/ RequireNoDrift \/ AppendRemote
           \/ RemoveLocal \/ AppendLocal \/ CompleteApply \/ Accept
  <2>1. UNCHANGED <<bucket, changed, foreign>>
    BY <1>2
       DEF ReadBucket, StartInventory, StartApply, StartVerify, StartRestore, KillCommand,
           WriteInventory, StartBackup, Download, WriteBackupReceipt, VerifyLocalBackup,
           WritePlan, RequireNoDrift, AppendRemote, RemoveLocal, AppendLocal, CompleteApply,
           Accept, bucketVars
  <2>2. BucketOK'
    BY <2>1 DEF BucketOK
  <2>3. CleanupInv'
    BY <1>2, CommandAlone, FilesWritten, DriftChecked, ApplyGoesOn, RowAppended, Accepting
  <2> QED
    BY <2>2, <2>3
<1> QED
  BY <1>1, <1>2 DEF CleanupNext

-----------------------------------------------------------------------------
(* The build of a collection. *)

\* Each row of a collection that has as many rows as there are batches, and none
\* of the batches missing, is there once.
LEMMA OnceEach ==
    ASSUME NEW f \in [Batches -> Nat], \A b \in Batches : f[b] >= 1,
           Cardinality(Rows(f)) = Cardinality(Batches)
    PROVE  \A b \in Batches : f[b] = 1
<1> DEFINE column == [b \in Batches |-> {b} \X (1 .. f[b])]
           columns == {{b} \X (1 .. f[b]) : b \in Batches}
<1>1. IsFiniteSet(Batches)
  BY ShadowAssumption
<1>2. \A b \in Batches : IsFiniteSet({b} \X (1 .. f[b]))
  <2> SUFFICES ASSUME NEW b \in Batches PROVE IsFiniteSet({b} \X (1 .. f[b]))
    OBVIOUS
  <2>1. IsFiniteSet({b})
    BY FS_Singleton
  <2>2. f[b] \in Int /\ 1 \in Int
    OBVIOUS
  <2>3. IsFiniteSet(1 .. f[b])
    BY <2>2, FS_Interval
  <2> QED
    BY <2>1, <2>3, FS_Product
<1>3. column \in Surjection(Batches, columns)
  BY DEF Surjection
<1>4. IsFiniteSet(columns)
  BY <1>1, <1>3, FS_Surjection
<1>5. \A T \in columns : IsFiniteSet(T)
  BY <1>2
<1>6. IsFiniteSet(UNION columns)
  BY <1>4, <1>5, FS_UNION
<1>7. IsFiniteSet(Rows(f))
  BY <1>6 DEF Rows
<1>8. IsFiniteSet(Batches \X {1}) /\ Cardinality(Batches \X {1}) = Cardinality(Batches)
  <2>1. IsFiniteSet({1}) /\ Cardinality({1}) = 1
    BY FS_Singleton
  <2>2. /\ IsFiniteSet(Batches \X {1})
        /\ Cardinality(Batches \X {1}) = Cardinality(Batches) * Cardinality({1})
    BY <1>1, <2>1, FS_Product
  <2>3. Cardinality(Batches) * 1 = Cardinality(Batches)
    BY <1>1, FS_CardinalityType
  <2> QED
    BY <2>1, <2>2, <2>3
<1>9. Batches \X {1} \in SUBSET Rows(f)
  BY DEF Rows
<1>10. Rows(f) = Batches \X {1}
  BY <1>7, <1>8, <1>9, FS_Subset
<1> SUFFICES ASSUME NEW b \in Batches, f[b] # 1 PROVE FALSE
  OBVIOUS
<1>11. 2 \in 1 .. f[b] /\ <<b, 2>> \in {b} \X (1 .. f[b])
  OBVIOUS
<1>12. <<b, 2>> \in Rows(f)
  BY <1>11 DEF Rows
<1> QED
  BY <1>10, <1>12

LEMMA BatchNumbers ==
    /\ Cardinality(Batches) \in Nat
    /\ \A b \in Batches : b \in Nat /\ 1 <= b /\ b <= Cardinality(Batches)
    /\ \A n \in 1 .. Cardinality(Batches) + 1 :
          /\ n \in Batches => n + 1 \in 1 .. Cardinality(Batches) + 1
          /\ n \notin Batches => \A b \in Batches : n > b
<1>1. Cardinality(Batches) \in Nat
  BY ShadowAssumption, FS_CardinalityType
<1>2. Batches = 1 .. Cardinality(Batches)
  BY ShadowAssumption
<1> DEFINE last == Cardinality(Batches)
<1>3. last \in Nat /\ \A b : b \in Batches <=> b \in 1 .. last
  BY <1>1, <1>2
<1> HIDE DEF last
<1>4. /\ \A b \in Batches : b \in Nat /\ 1 <= b /\ b <= last
      /\ \A n \in 1 .. last + 1 :
          /\ n \in Batches => n + 1 \in 1 .. last + 1
          /\ n \notin Batches => \A b \in Batches : n > b
  BY <1>3
<1> QED
  BY <1>1, <1>4 DEF last

LEMMA EverFinite ==
    \A c \in Collections, b \in Batches :
        /\ IsFiniteSet(Ever(c, b)) /\ Cardinality(Ever(c, b)) \in Nat
        /\ Cardinality(Ever(c, b)) <= Cardinality(ShadowBuilders)
<1> SUFFICES ASSUME NEW c \in Collections, NEW b \in Batches
             PROVE  /\ IsFiniteSet(Ever(c, b)) /\ Cardinality(Ever(c, b)) \in Nat
                    /\ Cardinality(Ever(c, b)) <= Cardinality(ShadowBuilders)
  OBVIOUS
<1>1. Ever(c, b) \in SUBSET ShadowBuilders
  BY DEF Ever
<1> QED
  BY <1>1, ShadowAssumption, FS_Subset, FS_CardinalityType

LEMMA ShadowStart == ShadowInit => ShadowInv
<1> SUFFICES ASSUME ShadowInit PROVE ShadowInv
  OBVIOUS
<1>1. Zero \in [Batches -> Nat] /\ Once \in [Batches -> Nat]
  BY DEF Zero, Once
<1>2. Build0 \in BuildStates
  BY <1>1, ShadowAssumption, BatchNumbers DEF Build0, BuildStates
<1>3. ShadowTyped
  BY <1>1, <1>2, ShadowAssumption DEF ShadowInit, ShadowTyped
<1>4. \A r \in ShadowBuilders :
          build[r].pc = "idle" /\ build[r].verdict = "failed"
          /\ build[r].next = 1 /\ shadowEvidence[r].verdict = "none"
  BY DEF ShadowInit, Build0
<1>5. (\A r \in ShadowBuilders : BuildOK(r)) /\ \A r, o \in ShadowBuilders : PairOK(r, o)
  BY <1>4 DEF BuildOK, PairOK, Filled, Flushed, CountTaken, BuildAt
<1>6. \A c \in Collections : \A b \in Batches : Zero[b] <= Cardinality(Ever(c, b))
  BY EverFinite DEF Zero
<1>7. \A c \in Collections, b \in Batches :
          rows[c].copies[b] \in Nat /\ unflushed[c][b] = 0
  BY <1>1 DEF ShadowInit, Zero
<1>8. \A c \in Collections \ {Serving} : rows[c].copies = Zero
  BY DEF ShadowInit
<1>9. rows[Serving].exists /\ rows[Serving].copies = Once
  BY ShadowAssumption DEF ShadowInit
<1>10. RowsOK
  BY <1>6, <1>7, <1>8, <1>9 DEF RowsOK
<1> QED
  BY <1>3, <1>5, <1>10 DEF ShadowInv

\* r stops counting for what it no longer goes by, and the rows stay.
LEMMA BuildMoves ==
    ASSUME ShadowInv, NEW r \in ShadowBuilders, ShadowTyped',
           \A c \in Collections : rows'[c].copies = rows[c].copies,
           rows'[Serving].exists, unflushed' = unflushed,
           \A o \in ShadowBuilders \ {r} : /\ build'[o] = build[o]
                                           /\ shadowEvidence'[o] = shadowEvidence[o],
           \A c \in Collections, b \in Batches : r \in Ever(c, b) => r \in Ever(c, b)',
           \A b \in Batches : Filled(r, b)' => Filled(r, b),
           Flushed(r)' => Flushed(r), CountTaken(r)' => CountTaken(r),
           build[r].pc # "idle" => build'[r].target = build[r].target,
           CountTaken(r)' => build'[r].late = build[r].late,
           build'[r].verdict = "pass" => build'[r].pc \in {"evidence", "seal", "ended"},
           shadowEvidence'[r].verdict = "pass" => build'[r].verdict = "pass",
           build'[r].pc \in {"idle", "find", "ensure", "create"} => build'[r].next = 1,
           build'[r].pc \in {"ensure", "create", "insert"} => build'[r].target # Serving
    PROVE  ShadowInv'
<1>1. ShadowTyped /\ RowsOK
  BY DEF ShadowInv
<1>2. \A c \in Collections, b \in Batches : Ever(c, b) \in SUBSET (Ever(c, b)')
  BY DEF Ever, BuildAt
<1>3. \A c \in Collections, b \in Batches :
          IsFiniteSet(Ever(c, b)') /\ Cardinality(Ever(c, b)') \in Nat
  <2> SUFFICES ASSUME NEW c \in Collections, NEW b \in Batches
               PROVE  IsFiniteSet(Ever(c, b)') /\ Cardinality(Ever(c, b)') \in Nat
    OBVIOUS
  <2>1. Ever(c, b)' \in SUBSET ShadowBuilders
    BY DEF Ever
  <2> QED
    BY <2>1, ShadowAssumption, FS_Subset, FS_CardinalityType
<1>4. \A c \in Collections, b \in Batches :
          Cardinality(Ever(c, b)) <= Cardinality(Ever(c, b)')
  BY <1>2, <1>3, FS_Subset
<1>5. \A c \in Collections, b \in Batches : rows[c].copies[b] \in Nat
  BY <1>1 DEF ShadowTyped
<1>6. RowsOK'
  <2>1. \A c \in Collections \ {Serving}, b \in Batches :
            rows'[c].copies[b] <= Cardinality(Ever(c, b)')
    <3> SUFFICES ASSUME NEW c \in Collections \ {Serving}, NEW b \in Batches
                 PROVE  rows'[c].copies[b] <= Cardinality(Ever(c, b)')
      OBVIOUS
    <3>1. rows'[c].copies[b] = rows[c].copies[b]
          /\ rows[c].copies[b] <= Cardinality(Ever(c, b))
      BY <1>1 DEF RowsOK
    <3> QED
      BY <1>3, <1>4, <1>5, <3>1, EverFinite
  <2> QED
    BY <1>1, <2>1, ShadowAssumption DEF RowsOK
<1>7. \A o \in ShadowBuilders \ {r} :
          /\ \A b \in Batches : /\ Filled(o, b)' <=> Filled(o, b)
                                /\ Copies(o, b)' = Copies(o, b)
                                /\ Durable(o, b)' = Durable(o, b)
          /\ Flushed(o)' <=> Flushed(o)
          /\ CountTaken(o)' <=> CountTaken(o)
          /\ build'[o].target = build[o].target
  BY <1>1 DEF Filled, Flushed, CountTaken, BuildAt, Copies, Durable, ShadowTyped, BuildStates
<1>8. CountTaken(r) \/ Flushed(r) \/ (\E b \in Batches : Filled(r, b)) => build[r].pc # "idle"
  BY DEF Filled, Flushed, CountTaken, BuildAt, ShadowInv, BuildOK
<1>9. build[r].pc # "idle" =>
          \A b \in Batches : Copies(r, b)' = Copies(r, b) /\ Durable(r, b)' = Durable(r, b)
  BY <1>1 DEF Copies, Durable, ShadowTyped, BuildStates
<1>10. \A o \in ShadowBuilders \ {r} : BuildOK(o)'
  BY <1>7 DEF ShadowInv, BuildOK
<1>11. BuildOK(r)'
  <2>1. Flushed(r)' => build'[r].target # Serving
    BY <1>8 DEF ShadowInv, BuildOK
  <2>2. \A b \in Batches : Filled(r, b)' => Copies(r, b)' >= 1
    BY <1>8, <1>9 DEF ShadowInv, BuildOK
  <2>3. \A b \in Batches : Flushed(r)' => Durable(r, b)' >= 1
    BY <1>8, <1>9 DEF ShadowInv, BuildOK
  <2>4. \A b \in Batches : CountTaken(r)' => Copies(r, b)' = 1 + build'[r].late[b]
    BY <1>8, <1>9 DEF ShadowInv, BuildOK
  <2> QED
    BY <2>1, <2>2, <2>3, <2>4 DEF BuildOK
<1>12. \A o \in ShadowBuilders \ {r} : PairOK(r, o)' /\ PairOK(o, r)'
  <2> SUFFICES ASSUME NEW o \in ShadowBuilders \ {r}, build'[r].target = build'[o].target
               PROVE  PairOK(r, o)' /\ PairOK(o, r)'
    BY DEF PairOK
  <2>1. build[r].pc # "idle" => PairOK(r, o) /\ build[r].target = build[o].target
    BY <1>7 DEF ShadowInv
  <2>2. \A b \in Batches : Copies(o, b)' = Copies(r, b)' /\ Durable(o, b)' = Durable(r, b)'
    BY DEF Copies, Durable
  <2>3. \A b \in Batches : Filled(r, b)' /\ Filled(o, b)' => Copies(r, b)' >= 2
    BY <1>7, <1>8, <1>9, <2>1 DEF PairOK
  <2>4. \A b \in Batches : Flushed(r)' /\ Flushed(o)' => Durable(r, b)' >= 2
    BY <1>7, <1>8, <1>9, <2>1 DEF PairOK
  <2>5. ~(CountTaken(r)' /\ CountTaken(o)')
    BY <1>7, <1>8, <2>1 DEF PairOK
  <2> QED
    BY <2>2, <2>3, <2>4, <2>5 DEF PairOK
<1>13. \A o, p \in ShadowBuilders \ {r} : PairOK(o, p)'
  BY <1>7 DEF ShadowInv, PairOK
<1>14. PairOK(r, r)'
  BY DEF PairOK
<1> QED
  BY <1>6, <1>10, <1>11, <1>12, <1>13, <1>14 DEF ShadowInv

LEMMA BuildToTyped ==
    ASSUME ShadowInv, NEW r \in ShadowBuilders,
           NEW pc \in {"idle", "find", "ensure", "create", "insert", "read", "count",
                       "settings", "evidence", "seal", "ended"}, BuildTo(r, pc)
    PROVE  /\ build' \in [ShadowBuilders -> BuildStates]
           /\ build'[r] = [build[r] EXCEPT !.pc = pc]
           /\ \A o \in ShadowBuilders \ {r} : build'[o] = build[o]
<1>1. build \in [ShadowBuilders -> BuildStates] /\ build[r] \in BuildStates
  BY DEF ShadowInv, ShadowTyped
<1>2. [build[r] EXCEPT !.pc = pc] \in BuildStates
  BY <1>1 DEF BuildStates
<1>3. build' = [build EXCEPT ![r] = [build[r] EXCEPT !.pc = pc]]
  BY DEF BuildTo
<1> QED
  BY <1>1, <1>2, <1>3

\* A run ends with the target, the verdict and the rows it missed.
LEMMA BuildEnds ==
    ASSUME ShadowInv, NEW r \in ShadowBuilders, EndBuild(r)
    PROVE  /\ build' \in [ShadowBuilders -> BuildStates]
           /\ build'[r].pc = "ended" /\ build'[r].target = build[r].target
           /\ build'[r].verdict = build[r].verdict /\ build'[r].late = build[r].late
           /\ \A o \in ShadowBuilders \ {r} : build'[o] = build[o]
<1> DEFINE end == [Build0 EXCEPT !.pc = "ended", !.target = build[r].target,
                                 !.verdict = build[r].verdict, !.late = build[r].late]
<1>1. build \in [ShadowBuilders -> BuildStates] /\ build[r] \in BuildStates
  BY DEF ShadowInv, ShadowTyped
<1>2. Build0 \in BuildStates
  BY ShadowAssumption, BatchNumbers DEF Build0, BuildStates, Zero
<1>3. /\ end \in BuildStates /\ end.pc = "ended" /\ end.target = build[r].target
      /\ end.verdict = build[r].verdict /\ end.late = build[r].late
  BY <1>1, <1>2 DEF BuildStates
<1>4. build' = [build EXCEPT ![r] = end]
  BY DEF EndBuild
<1> HIDE DEF end
<1> QED
  BY <1>1, <1>3, <1>4

LEMMA BeginBuildKept ==
    ASSUME ShadowInv, NEW r \in ShadowBuilders, BeginBuild(r)
    PROVE  ShadowInv'
<1>1. PICK name \in Collections :
          build' = [build EXCEPT ![r].target = name, ![r].before = settings,
                                 ![r].pc = IF name = settings THEN "evidence" ELSE "find"]
  BY DEF BeginBuild
<1> DEFINE pc == IF name = settings THEN "evidence" ELSE "find"
           new == [build[r] EXCEPT !.target = name, !.before = settings, !.pc = pc]
<1>2. /\ build[r].pc = "idle" /\ UNCHANGED <<rows, unflushed, settings, shadowEvidence>>
      /\ build \in [ShadowBuilders -> BuildStates] /\ build[r] \in BuildStates
      /\ ShadowTyped /\ RowsOK /\ BuildOK(r)
  BY DEF BeginBuild, BuildAt, ShadowInv, ShadowTyped
<1>3. pc \in {"evidence", "find"}
  OBVIOUS
<1> HIDE DEF pc
<1>4. /\ new \in BuildStates /\ new.pc = pc /\ new.target = name
      /\ new.verdict = build[r].verdict /\ new.next = build[r].next
  BY <1>2, <1>3 DEF BuildStates, ShadowTyped
<1>5. build' = [build EXCEPT ![r] = new]
  BY <1>1 DEF pc
<1> HIDE DEF new
<1>6. /\ build' \in [ShadowBuilders -> BuildStates] /\ build'[r] = new
      /\ \A o \in ShadowBuilders \ {r} : build'[o] = build[o]
  BY <1>2, <1>4, <1>5
<1>7. build[r].verdict # "pass" /\ shadowEvidence[r].verdict # "pass" /\ build[r].next = 1
  BY <1>2 DEF BuildOK
<1>8. ShadowTyped'
  BY <1>2, <1>6 DEF ShadowTyped
<1>9. \A c \in Collections, b \in Batches : r \notin Ever(c, b)
  BY <1>2 DEF Ever
<1>10. ~CountTaken(r)' /\ ~Flushed(r)' /\ \A b \in Batches : ~Filled(r, b)'
  BY <1>3, <1>4, <1>6, <1>7 DEF Filled, Flushed, CountTaken, BuildAt
<1> QED
  BY <1>2, <1>3, <1>4, <1>6, <1>7, <1>8, <1>9, <1>10, BuildMoves DEF RowsOK

\* The steps of one run before it has read the rows, and after it has counted them.
LEMMA BuildAlone ==
    ASSUME ShadowInv, NEW r \in ShadowBuilders,
           \/ FindTarget(r) \/ EnsureCollection(r) \/ CreateCollection(r)
           \/ ReadRows(r) \/ CheckSettings(r) \/ BuildFails(r)
           \/ WriteEvidence(r) \/ SealEvidence(r) \/ KillBuild(r)
    PROVE  ShadowInv'
<1>0. /\ ShadowTyped /\ RowsOK /\ BuildOK(r)
      /\ build \in [ShadowBuilders -> BuildStates] /\ build[r] \in BuildStates
  BY DEF ShadowInv, ShadowTyped
\* All that the moves below change, of what a run goes by, is where it stands.
<1>1. ASSUME build' \in [ShadowBuilders -> BuildStates],
             \A o \in ShadowBuilders \ {r} : build'[o] = build[o],
             build'[r].target = build[r].target, ShadowTyped',
             \A c \in Collections : rows'[c].copies = rows[c].copies,
             rows'[Serving].exists, unflushed' = unflushed,
             \A o \in ShadowBuilders \ {r} : shadowEvidence'[o] = shadowEvidence[o],
             shadowEvidence'[r].verdict = "pass" => build'[r].verdict = "pass",
             build'[r].verdict = "pass" => build'[r].pc \in {"evidence", "seal", "ended"},
             build'[r].pc \in {"ensure", "create", "insert"} => build'[r].target # Serving,
             CountTaken(r)' => CountTaken(r) /\ build'[r].late = build[r].late,
             build'[r].pc \in {"read", "count"} => build[r].pc \in {"read", "count"},
             build'[r].pc \in {"idle", "find", "ensure", "create", "insert"} =>
                 build'[r].next = 1,
             build[r].pc \in {"insert", "read", "count", "settings", "evidence", "seal", "ended"}
                 => build'[r].pc \in {"read", "count", "settings", "evidence", "seal", "ended"}
      PROVE  ShadowInv'
  <2>1. \A c \in Collections, b \in Batches : r \in Ever(c, b) => r \in Ever(c, b)'
    BY <1>1 DEF Ever
  <2>2. Flushed(r)' => Flushed(r)
    BY <1>1 DEF Flushed
  <2>3. \A b \in Batches : ~(1 > b)
    BY BatchNumbers
  <2>4. \A b \in Batches : Filled(r, b)' => Filled(r, b)
    BY <1>1, <2>2, <2>3 DEF Filled, BuildAt
  <2> QED
    BY <1>1, <2>1, <2>2, <2>4, BuildMoves
<1>2. ASSUME NEW pc \in {"find", "ensure", "create", "insert", "read", "count",
                         "settings", "evidence", "seal"},
             BuildTo(r, pc)
      PROVE  /\ build' \in [ShadowBuilders -> BuildStates] /\ build'[r].pc = pc
             /\ build'[r].target = build[r].target /\ build'[r].verdict = build[r].verdict
             /\ build'[r].late = build[r].late /\ build'[r].next = build[r].next
             /\ \A o \in ShadowBuilders \ {r} : build'[o] = build[o]
  <2>1. /\ build' \in [ShadowBuilders -> BuildStates]
        /\ build'[r] = [build[r] EXCEPT !.pc = pc]
        /\ \A o \in ShadowBuilders \ {r} : build'[o] = build[o]
    BY <1>2, BuildToTyped
  <2> QED
    BY <1>0, <2>1 DEF BuildStates
<1>3. build[r].verdict = "pass" => build[r].pc \in {"evidence", "seal", "ended"}
  BY <1>0 DEF BuildOK
<1>4. ~rows[build[r].target].exists => build[r].target # Serving
  BY <1>0 DEF RowsOK
<1>5. CASE FindTarget(r)
  <2>1. PICK pc \in {"ensure", "evidence"} :
            /\ BuildTo(r, pc) /\ (pc = "ensure" => ~rows[build[r].target].exists)
    BY <1>5 DEF FindTarget, Refuse
  <2>2. build[r].pc = "find" /\ UNCHANGED <<rows, unflushed, settings, shadowEvidence>>
    BY <1>5 DEF FindTarget, BuildAt
  <2>3. build[r].next = 1
    BY <1>0, <2>2 DEF BuildOK
  <2> QED
    BY <1>0, <1>1, <1>2, <1>3, <1>4, <2>1, <2>2, <2>3
       DEF ShadowTyped, RowsOK, BuildOK, CountTaken, BuildAt
<1>6. CASE EnsureCollection(r)
  <2>1. PICK pc \in {"insert", "create"} : BuildTo(r, pc)
    BY <1>6 DEF EnsureCollection
  <2>2. build[r].pc = "ensure" /\ UNCHANGED <<rows, unflushed, settings, shadowEvidence>>
    BY <1>6 DEF EnsureCollection, BuildAt
  <2>3. build[r].next = 1 /\ build[r].target # Serving
    BY <1>0, <2>2 DEF BuildOK
  <2> QED
    BY <1>0, <1>1, <1>2, <1>3, <2>1, <2>2, <2>3
       DEF ShadowTyped, RowsOK, BuildOK, CountTaken, BuildAt
<1>7. CASE CreateCollection(r)
  <2>1. /\ build[r].pc = "create" /\ BuildTo(r, "insert")
        /\ rows' = [rows EXCEPT ![build[r].target].exists = TRUE]
        /\ UNCHANGED <<unflushed, settings, shadowEvidence>>
    BY <1>7 DEF CreateCollection, BuildAt
  <2>2. build[r].next = 1 /\ build[r].target # Serving /\ build[r].target \in Collections
    BY <1>0, <2>1 DEF BuildOK, BuildStates
  <2>3. rows \in [Collections -> [exists : BOOLEAN, copies : [Batches -> Nat]]]
    BY <1>0 DEF ShadowTyped
  <2>4. rows' \in [Collections -> [exists : BOOLEAN, copies : [Batches -> Nat]]]
        /\ \A c \in Collections : rows'[c].copies = rows[c].copies
    BY <2>1, <2>2, <2>3
  <2>5. rows'[Serving].exists
    BY <1>0, <2>1, <2>2, <2>3, ShadowAssumption DEF RowsOK
  <2> QED
    BY <1>0, <1>1, <1>2, <1>3, <2>1, <2>2, <2>4, <2>5
       DEF ShadowTyped, BuildOK, CountTaken, BuildAt
<1>8. CASE ReadRows(r)
  <2>1. /\ build[r].pc = "read" /\ UNCHANGED <<rows, unflushed, settings, shadowEvidence>>
        /\ \/ BuildTo(r, "evidence")
           \/ \E seen \in SUBSET Batches :
                 build' = [build EXCEPT ![r].pc = "count", ![r].seen = seen]
    BY <1>8 DEF ReadRows, BuildAt, Refuse
  <2>2. CASE BuildTo(r, "evidence")
    BY <1>0, <1>1, <1>2, <1>3, <2>1, <2>2 DEF ShadowTyped, RowsOK, BuildOK, CountTaken, BuildAt
  <2>3. ASSUME NEW seen \in SUBSET Batches,
               build' = [build EXCEPT ![r].pc = "count", ![r].seen = seen]
        PROVE  ShadowInv'
    <3> DEFINE new == [build[r] EXCEPT !.pc = "count", !.seen = seen]
    <3>1. /\ new \in BuildStates /\ new.pc = "count" /\ new.target = build[r].target
          /\ new.verdict = build[r].verdict
      BY <1>0 DEF BuildStates
    <3>2. build' = [build EXCEPT ![r] = new]
      BY <2>3
    <3> HIDE DEF new
    <3>3. /\ build' \in [ShadowBuilders -> BuildStates] /\ build'[r] = new
          /\ \A o \in ShadowBuilders \ {r} : build'[o] = build[o]
      BY <1>0, <3>1, <3>2
    <3> QED
      BY <1>0, <1>1, <1>3, <2>1, <3>1, <3>3
         DEF ShadowTyped, RowsOK, BuildOK, CountTaken, BuildAt
  <2> QED
    BY <2>1, <2>2, <2>3
<1>9. CASE CheckSettings(r)
  <2>1. PICK verdict \in {"pass", "failed"} :
            build' = [build EXCEPT ![r].pc = "evidence", ![r].verdict = verdict]
    BY <1>9 DEF CheckSettings
  <2>2. build[r].pc = "settings" /\ UNCHANGED <<rows, unflushed, settings, shadowEvidence>>
    BY <1>9 DEF CheckSettings, BuildAt
  <2> DEFINE new == [build[r] EXCEPT !.pc = "evidence", !.verdict = verdict]
  <2>3. /\ new \in BuildStates /\ new.pc = "evidence" /\ new.target = build[r].target
        /\ new.late = build[r].late
    BY <1>0 DEF BuildStates
  <2>4. build' = [build EXCEPT ![r] = new]
    BY <2>1
  <2> HIDE DEF new
  <2>5. /\ build' \in [ShadowBuilders -> BuildStates] /\ build'[r] = new
        /\ \A o \in ShadowBuilders \ {r} : build'[o] = build[o]
    BY <1>0, <2>3, <2>4
  <2>6. shadowEvidence[r].verdict # "pass"
    BY <1>0, <2>2 DEF BuildOK
  <2> QED
    BY <1>0, <1>1, <2>2, <2>3, <2>5, <2>6 DEF ShadowTyped, RowsOK, CountTaken, BuildAt
<1>10. CASE BuildFails(r)
  <2>1. /\ build[r].pc \in {"find", "ensure", "create", "insert", "read", "count"}
        /\ BuildTo(r, "evidence") /\ UNCHANGED <<rows, unflushed, settings, shadowEvidence>>
    BY <1>10 DEF BuildFails, Refuse
  <2> QED
    BY <1>0, <1>1, <1>2, <1>3, <2>1 DEF ShadowTyped, RowsOK, BuildOK, CountTaken, BuildAt
<1>11. CASE WriteEvidence(r)
  <2>1. /\ build[r].pc = "evidence" /\ BuildTo(r, "seal")
        /\ shadowEvidence' = [shadowEvidence EXCEPT ![r].verdict = build[r].verdict]
        /\ UNCHANGED <<rows, unflushed, settings>>
    BY <1>11 DEF WriteEvidence, BuildAt
  <2>2. build[r].verdict \in {"pass", "failed"}
    BY <1>0 DEF BuildStates
  <2>3. shadowEvidence \in
            [ShadowBuilders -> [verdict : {"none", "pass", "failed"}, sealed : BOOLEAN]]
    BY <1>0 DEF ShadowTyped
  <2>4. /\ shadowEvidence' \in
               [ShadowBuilders -> [verdict : {"none", "pass", "failed"}, sealed : BOOLEAN]]
        /\ shadowEvidence'[r].verdict = build[r].verdict
        /\ \A o \in ShadowBuilders \ {r} : shadowEvidence'[o] = shadowEvidence[o]
    BY <2>1, <2>2, <2>3
  <2> QED
    BY <1>0, <1>1, <1>2, <2>1, <2>4 DEF ShadowTyped, RowsOK, CountTaken, BuildAt
<1>12. CASE SealEvidence(r)
  <2>1. /\ build[r].pc = "seal" /\ EndBuild(r) /\ UNCHANGED <<rows, unflushed, settings>>
        /\ shadowEvidence' = [shadowEvidence EXCEPT ![r].sealed = TRUE]
    BY <1>12 DEF SealEvidence, BuildAt
  <2>2. shadowEvidence \in
            [ShadowBuilders -> [verdict : {"none", "pass", "failed"}, sealed : BOOLEAN]]
    BY <1>0 DEF ShadowTyped
  <2>3. /\ shadowEvidence' \in
               [ShadowBuilders -> [verdict : {"none", "pass", "failed"}, sealed : BOOLEAN]]
        /\ shadowEvidence'[r].verdict = shadowEvidence[r].verdict
        /\ \A o \in ShadowBuilders \ {r} : shadowEvidence'[o] = shadowEvidence[o]
    BY <2>1, <2>2
  <2> QED
    BY <1>0, <1>1, <2>1, <2>3, BuildEnds DEF ShadowTyped, RowsOK, BuildOK, CountTaken, BuildAt
<1>13. CASE KillBuild(r)
  <2>1. /\ build[r].pc # "idle" /\ EndBuild(r)
        /\ UNCHANGED <<rows, unflushed, settings, shadowEvidence>>
    BY <1>13 DEF KillBuild
  <2> QED
    BY <1>0, <1>1, <2>1, BuildEnds DEF ShadowTyped, RowsOK, BuildOK, CountTaken, BuildAt
<1> QED
  BY <1>5, <1>6, <1>7, <1>8, <1>9, <1>10, <1>11, <1>12, <1>13

\* A flush covers what any run has inserted, and of two that did everything twice.
LEMMA FlushKept ==
    ASSUME ShadowInv, NEW r \in ShadowBuilders, Flush(r)
    PROVE  ShadowInv'
<1> DEFINE t == build[r].target
<1>1. /\ build[r].pc = "insert" /\ build[r].next \notin Batches /\ BuildTo(r, "read")
      /\ unflushed' = [unflushed EXCEPT ![t] = Zero]
      /\ UNCHANGED <<rows, settings, shadowEvidence>>
  BY DEF Flush, BuildAt
<1>2. /\ ShadowTyped /\ RowsOK /\ BuildOK(r) /\ build[r] \in BuildStates /\ t \in Collections
  BY DEF ShadowInv, ShadowTyped, BuildStates
<1>3. \A b \in Batches : Filled(r, b)
  BY <1>1, <1>2, BatchNumbers DEF Filled, BuildAt, BuildStates
<1>4. /\ build' \in [ShadowBuilders -> BuildStates]
      /\ build'[r].pc = "read" /\ build'[r].target = t
      /\ build'[r].verdict = build[r].verdict
      /\ \A o \in ShadowBuilders \ {r} : build'[o] = build[o]
  <2>1. /\ build' \in [ShadowBuilders -> BuildStates]
        /\ build'[r] = [build[r] EXCEPT !.pc = "read"]
        /\ \A o \in ShadowBuilders \ {r} : build'[o] = build[o]
    BY <1>1, BuildToTyped
  <2> QED
    BY <1>2, <2>1 DEF BuildStates
<1>5. unflushed \in [Collections -> [Batches -> Nat]] /\ Zero \in [Batches -> Nat]
  BY <1>2 DEF ShadowTyped, Zero
<1>6. /\ unflushed' \in [Collections -> [Batches -> Nat]]
      /\ \A b \in Batches : unflushed'[t][b] = 0
      /\ \A c \in Collections \ {t} : unflushed'[c] = unflushed[c]
      /\ \A c \in Collections, b \in Batches : unflushed'[c][b] <= unflushed[c][b]
  BY <1>1, <1>2, <1>5 DEF Zero
<1>7. \A c \in Collections, b \in Batches :
          rows[c].copies[b] \in Nat /\ unflushed[c][b] \in Nat /\ unflushed'[c][b] \in Nat
  BY <1>2, <1>6 DEF ShadowTyped
<1>8. ShadowTyped'
  BY <1>1, <1>2, <1>4, <1>6 DEF ShadowTyped
<1>9. \A c \in Collections, b \in Batches : Ever(c, b)' = Ever(c, b)
  <2>1. \A b \in Batches : build[r].next > b
    BY <1>2, <1>1, BatchNumbers DEF BuildStates
  <2> QED
    BY <1>1, <1>4, <2>1 DEF Ever
<1>10. RowsOK'
  BY <1>1, <1>2, <1>6, <1>7, <1>9 DEF RowsOK
<1>11. /\ Flushed(r)' /\ ~CountTaken(r)' /\ build[r].verdict # "pass"
       /\ \A b \in Batches : Copies(r, b)' = Copies(r, b) /\ Durable(r, b)' = Copies(r, b)
  BY <1>1, <1>2, <1>4, <1>6, <1>7 DEF Flushed, CountTaken, BuildAt, BuildOK, Copies, Durable
<1>12. BuildOK(r)'
  BY <1>1, <1>2, <1>3, <1>4, <1>11 DEF BuildOK
<1>13. \A o \in ShadowBuilders \ {r} :
          /\ \A b \in Batches : /\ Filled(o, b)' <=> Filled(o, b)
                                /\ Copies(o, b)' = Copies(o, b) /\ Copies(o, b) \in Nat
                                /\ Durable(o, b)' >= Durable(o, b)
                                /\ Durable(o, b) \in Int /\ Durable(o, b)' \in Int
          /\ Flushed(o)' <=> Flushed(o)
          /\ CountTaken(o)' <=> CountTaken(o)
          /\ build[o].target \in Collections /\ build'[o].target = build[o].target
  <2> SUFFICES ASSUME NEW o \in ShadowBuilders \ {r}
               PROVE  /\ \A b \in Batches :
                            /\ Filled(o, b)' <=> Filled(o, b)
                            /\ Copies(o, b)' = Copies(o, b) /\ Copies(o, b) \in Nat
                            /\ Durable(o, b)' >= Durable(o, b)
                            /\ Durable(o, b) \in Int /\ Durable(o, b)' \in Int
                      /\ Flushed(o)' <=> Flushed(o)
                      /\ CountTaken(o)' <=> CountTaken(o)
                      /\ build[o].target \in Collections /\ build'[o].target = build[o].target
    OBVIOUS
  <2>1. build[o].target \in Collections /\ build'[o] = build[o]
    BY <1>2, <1>4 DEF ShadowTyped, BuildStates
  <2>2. /\ Flushed(o)' <=> Flushed(o)
        /\ CountTaken(o)' <=> CountTaken(o)
        /\ \A b \in Batches : Filled(o, b)' <=> Filled(o, b)
    BY <2>1 DEF Filled, Flushed, CountTaken, BuildAt
  <2> QED
    BY <1>1, <1>6, <1>7, <2>1, <2>2 DEF Copies, Durable
<1>14. \A o \in ShadowBuilders \ {r} : BuildOK(o)'
  <2> SUFFICES ASSUME NEW o \in ShadowBuilders \ {r} PROVE BuildOK(o)'
    OBVIOUS
  <2>1. BuildOK(o)
    BY DEF ShadowInv
  <2> QED
    BY <1>1, <1>4, <1>13, <2>1 DEF BuildOK
<1>15. \A o \in ShadowBuilders \ {r} : PairOK(r, o)' /\ PairOK(o, r)'
  <2> SUFFICES ASSUME NEW o \in ShadowBuilders \ {r}, build'[o].target = t
               PROVE  PairOK(r, o)' /\ PairOK(o, r)'
    BY <1>4 DEF PairOK
  <2>1. PairOK(r, o) /\ PairOK(o, r) /\ build[o].target = t
    BY <1>13 DEF ShadowInv
  <2>2. \A b \in Batches : Copies(o, b)' = Copies(r, b)' /\ Durable(o, b)' = Durable(r, b)'
    BY <1>4 DEF Copies, Durable
  <2>3. \A b \in Batches : Filled(o, b)' => Copies(r, b)' >= 2
    BY <1>3, <1>11, <1>13, <2>1 DEF PairOK
  <2>4. \A b \in Batches : Flushed(o)' => Durable(r, b)' >= 2
    BY <1>11, <1>13, <2>3 DEF Filled
  <2> QED
    BY <1>11, <2>2, <2>3, <2>4 DEF PairOK
<1>16. \A o, p \in ShadowBuilders \ {r} : PairOK(o, p)'
  <2> SUFFICES ASSUME NEW o \in ShadowBuilders \ {r}, NEW p \in ShadowBuilders \ {r}
               PROVE  PairOK(o, p)'
    OBVIOUS
  <2>1. PairOK(o, p)
    BY DEF ShadowInv
  <2> QED
    BY <1>13, <2>1 DEF PairOK
<1> QED
  BY <1>8, <1>10, <1>12, <1>14, <1>15, <1>16 DEF ShadowInv, PairOK

\* The rows are counted: each is there once, but for those that were ignored.  A
\* second run that fills the collection would have left them there twice.
LEMMA CountRowsKept ==
    ASSUME ShadowInv, NEW r \in ShadowBuilders, CountRows(r)
    PROVE  ShadowInv'
<1> DEFINE t == build[r].target
<1>0. PICK ignored \in {Zero, unflushed[t]} :
          LET counted == [b \in Batches |-> rows[t].copies[b] - ignored[b]]
          IN IF /\ Cardinality(Rows(counted)) = Cardinality(build[r].seen)
                /\ build[r].seen = Batches
             THEN build' = [build EXCEPT ![r].pc = "settings", ![r].late = ignored]
             ELSE Refuse(r)
  BY DEF CountRows
<1> DEFINE counted == [b \in Batches |-> rows[t].copies[b] - ignored[b]]
<1>1. /\ build[r].pc = "count" /\ UNCHANGED <<rows, unflushed, settings, shadowEvidence>>
      /\ ShadowTyped /\ RowsOK /\ BuildOK(r)
      /\ build \in [ShadowBuilders -> BuildStates] /\ build[r] \in BuildStates
      /\ t \in Collections
  BY DEF CountRows, BuildAt, ShadowInv, ShadowTyped, BuildStates
<1>2. /\ Flushed(r) /\ ~CountTaken(r) /\ build[r].verdict # "pass"
      /\ shadowEvidence[r].verdict # "pass" /\ t # Serving
  BY <1>1 DEF Flushed, CountTaken, BuildAt, BuildOK
<1>3. /\ ignored \in [Batches -> Nat] /\ rows[t].copies \in [Batches -> Nat]
      /\ \A b \in Batches : ignored[b] <= unflushed[t][b]
      /\ unflushed[t] \in [Batches -> Nat]
  BY <1>1 DEF ShadowTyped, Zero
<1>4. CASE Refuse(r)
  <2>1. /\ build' \in [ShadowBuilders -> BuildStates]
        /\ build'[r] = [build[r] EXCEPT !.pc = "evidence"]
        /\ \A o \in ShadowBuilders \ {r} : build'[o] = build[o]
    BY <1>4, BuildToTyped DEF Refuse
  <2>2. build'[r].pc = "evidence" /\ build'[r].target = t /\ build'[r].verdict # "pass"
    BY <1>1, <1>2, <2>1 DEF BuildStates
  <2>3. ~CountTaken(r)' /\ ~Flushed(r)' /\ \A b \in Batches : ~Filled(r, b)'
    BY <2>2 DEF Filled, Flushed, CountTaken, BuildAt
  <2>4. \A c \in Collections, b \in Batches : r \in Ever(c, b) => r \in Ever(c, b)'
    BY <2>2 DEF Ever
  <2> QED
    BY <1>1, <1>2, <2>1, <2>2, <2>3, <2>4, BuildMoves DEF ShadowTyped, RowsOK
<1>5. CASE /\ Cardinality(Rows(counted)) = Cardinality(build[r].seen)
           /\ build[r].seen = Batches
           /\ build' = [build EXCEPT ![r].pc = "settings", ![r].late = ignored]
  <2>1. \A b \in Batches : Durable(r, b) >= 1 /\ counted[b] >= Durable(r, b)
                           /\ counted[b] \in Int /\ Durable(r, b) \in Int
    BY <1>1, <1>2, <1>3 DEF BuildOK, Durable, Copies
  <2>2. counted \in [Batches -> Nat]
    <3>1. \A b \in Batches : counted[b] >= 1 /\ counted[b] \in Int
      BY <2>1
    <3>2. \A b \in Batches : counted[b] \in Nat
      BY <3>1
    <3> QED
      BY <3>2
  <2>3. \A b \in Batches : counted[b] >= 1
    BY <2>1
  <2>4. \A b \in Batches : counted[b] = 1
    <3> HIDE DEF counted
    <3> QED
      BY <1>5, <2>2, <2>3, OnceEach
  <2>5. \A b \in Batches : Copies(r, b) = 1 + ignored[b] /\ Durable(r, b) = 1
    BY <1>3, <2>1, <2>4 DEF Copies
  <2> DEFINE new == [build[r] EXCEPT !.pc = "settings", !.late = ignored]
  <2>6. /\ new \in BuildStates /\ new.pc = "settings" /\ new.target = t
        /\ new.verdict = build[r].verdict /\ new.late = ignored
    BY <1>1, <1>3 DEF BuildStates
  <2>7. build' = [build EXCEPT ![r] = new]
    BY <1>5
  <2> HIDE DEF new
  <2>8. /\ build' \in [ShadowBuilders -> BuildStates] /\ build'[r] = new
        /\ \A o \in ShadowBuilders \ {r} : build'[o] = build[o]
    BY <1>1, <2>6, <2>7
  <2>9. ShadowTyped'
    BY <1>1, <2>8 DEF ShadowTyped
  <2>10. \A c \in Collections, b \in Batches : Ever(c, b)' = Ever(c, b)
    BY <1>1, <2>6, <2>8 DEF Ever
  <2>11. RowsOK'
    BY <1>1, <2>10 DEF RowsOK
  <2>12. \A o \in ShadowBuilders :
            /\ \A b \in Batches : Copies(o, b)' = Copies(o, b) /\ Durable(o, b)' = Durable(o, b)
            /\ build'[o].target = build[o].target
    BY <1>1, <2>6, <2>8 DEF Copies, Durable
  <2>13. \A o \in ShadowBuilders \ {r} :
            /\ \A b \in Batches : Filled(o, b)' <=> Filled(o, b)
            /\ Flushed(o)' <=> Flushed(o)
            /\ CountTaken(o)' <=> CountTaken(o)
    BY <2>8 DEF Filled, Flushed, CountTaken, BuildAt
  <2>14. /\ Flushed(r)' /\ \A b \in Batches : Filled(r, b) /\ Filled(r, b)'
    BY <1>2, <2>6, <2>8 DEF Filled, Flushed, CountTaken, BuildAt
  <2>15. BuildOK(r)'
    BY <1>1, <1>2, <2>5, <2>6, <2>8, <2>12, <2>14 DEF BuildOK
  <2>16. \A o \in ShadowBuilders \ {r} : BuildOK(o)'
    <3> SUFFICES ASSUME NEW o \in ShadowBuilders \ {r} PROVE BuildOK(o)'
      OBVIOUS
    <3>1. BuildOK(o)
      BY DEF ShadowInv
    <3> QED
      BY <1>1, <2>8, <2>12, <2>13, <3>1 DEF BuildOK
  <2>17. \A o \in ShadowBuilders \ {r} : build[o].target = t => ~Flushed(o)
    BY <1>2, <2>5, ShadowAssumption DEF ShadowInv, PairOK
  <2>18. \A o \in ShadowBuilders \ {r} : PairOK(r, o)' /\ PairOK(o, r)'
    <3> SUFFICES ASSUME NEW o \in ShadowBuilders \ {r}, build[o].target = t
                 PROVE  PairOK(r, o)' /\ PairOK(o, r)'
      BY <2>12 DEF PairOK
    <3>1. PairOK(r, o) /\ PairOK(o, r) /\ ~Flushed(o) /\ ~CountTaken(o)
      BY <2>17 DEF ShadowInv, Flushed
    <3> QED
      BY <2>12, <2>13, <2>14, <3>1 DEF PairOK
  <2>19. \A o, p \in ShadowBuilders \ {r} : PairOK(o, p)'
    <3> SUFFICES ASSUME NEW o \in ShadowBuilders \ {r}, NEW p \in ShadowBuilders \ {r}
                 PROVE  PairOK(o, p)'
      OBVIOUS
    <3>1. PairOK(o, p)
      BY DEF ShadowInv
    <3> QED
      BY <2>12, <2>13, <3>1 DEF PairOK
  <2> QED
    BY <2>9, <2>11, <2>15, <2>16, <2>18, <2>19 DEF ShadowInv, PairOK
<1> QED
  BY <1>0, <1>4, <1>5

\* A batch is in.  Whoever had inserted it too, or is to, finds two of it, and
\* whoever has counted knows it came late.
LEMMA InsertKept ==
    ASSUME ShadowInv, NEW r \in ShadowBuilders, NEW pc \in {"insert", "evidence"},
           Inserted(r), Known(r, pc), UNCHANGED <<settings, shadowEvidence>>,
           NEW t \in Collections, NEW n \in Batches, build[r].target = t, build[r].next = n
    PROVE  ShadowInv'
<1> DEFINE Hit(o) == build[o].target = t /\ CountTaken(o)
<1>1. /\ build[r].pc = "insert" /\ build[r].target = t /\ build[r].next = n
      /\ rows' = [rows EXCEPT ![t].copies[n] = @ + 1]
      /\ unflushed' = [unflushed EXCEPT ![t][n] = @ + 1]
  BY DEF Inserted, BuildAt
<1>2. /\ ShadowTyped /\ RowsOK /\ BuildOK(r) /\ build[r] \in BuildStates
      /\ build \in [ShadowBuilders -> BuildStates]
      /\ t \in Collections /\ t # Serving /\ build[r].verdict # "pass"
  BY <1>1 DEF ShadowInv, ShadowTyped, BuildStates, BuildOK
<1>3. /\ rows \in [Collections -> [exists : BOOLEAN, copies : [Batches -> Nat]]]
      /\ unflushed \in [Collections -> [Batches -> Nat]]
  BY <1>2 DEF ShadowTyped
<1>4. /\ rows' \in [Collections -> [exists : BOOLEAN, copies : [Batches -> Nat]]]
      /\ unflushed' \in [Collections -> [Batches -> Nat]]
      /\ rows'[t].exists = rows[t].exists
      /\ rows'[t].copies = [rows[t].copies EXCEPT ![n] = @ + 1]
      /\ unflushed'[t] = [unflushed[t] EXCEPT ![n] = @ + 1]
      /\ \A c \in Collections \ {t} : rows'[c] = rows[c] /\ unflushed'[c] = unflushed[c]
  <2> DEFINE more == [rows[t] EXCEPT !.copies = [rows[t].copies EXCEPT ![n] = @ + 1]]
  <2>1. [rows[t].copies EXCEPT ![n] = @ + 1] \in [Batches -> Nat]
    BY <1>1, <1>2, <1>3
  <2>2. /\ more \in [exists : BOOLEAN, copies : [Batches -> Nat]]
        /\ more.exists = rows[t].exists
        /\ more.copies = [rows[t].copies EXCEPT ![n] = @ + 1]
    BY <1>2, <1>3, <2>1
  <2>3. rows' = [rows EXCEPT ![t] = more]
    BY <1>1
  <2>4. [unflushed[t] EXCEPT ![n] = @ + 1] \in [Batches -> Nat]
    BY <1>1, <1>2, <1>3
  <2>5. unflushed' = [unflushed EXCEPT ![t] = [unflushed[t] EXCEPT ![n] = @ + 1]]
    BY <1>1
  <2> HIDE DEF more
  <2> QED
    BY <1>2, <1>3, <2>2, <2>3, <2>4, <2>5
<1>5. /\ rows'[t].copies[n] = rows[t].copies[n] + 1
      /\ unflushed'[t][n] = unflushed[t][n] + 1
      /\ \A b \in Batches \ {n} : /\ rows'[t].copies[b] = rows[t].copies[b]
                                  /\ unflushed'[t][b] = unflushed[t][b]
      /\ \A c \in Collections, b \in Batches :
             rows[c].copies[b] \in Nat /\ unflushed[c][b] \in Nat
  BY <1>1, <1>2, <1>3, <1>4
\* The runs.
<1>6. /\ build'[r] \in BuildStates /\ build'[r].pc = pc /\ build'[r].next = n + 1
      /\ build'[r].target = t /\ build'[r].verdict = build[r].verdict
  <2>1. build'[r] = [build[r] EXCEPT !.pc = pc, !.next = @ + 1]
    BY DEF Known
  <2>2. n + 1 \in 1 .. Cardinality(Batches) + 1
    BY <1>1, <1>2, BatchNumbers DEF BuildStates
  <2> QED
    BY <1>2, <2>1, <2>2 DEF BuildStates
<1>7. \A o \in ShadowBuilders \ {r} :
          /\ build'[o] \in BuildStates
          /\ build'[o].pc = build[o].pc /\ build'[o].target = build[o].target
          /\ build'[o].verdict = build[o].verdict /\ build'[o].next = build[o].next
          /\ build'[o].late = IF Hit(o) THEN [build[o].late EXCEPT ![n] = @ + 1]
                              ELSE build[o].late
  <2> SUFFICES ASSUME NEW o \in ShadowBuilders \ {r}
               PROVE  /\ build'[o] \in BuildStates
                      /\ build'[o].pc = build[o].pc /\ build'[o].target = build[o].target
                      /\ build'[o].verdict = build[o].verdict
                      /\ build'[o].next = build[o].next
                      /\ build'[o].late = IF Hit(o) THEN [build[o].late EXCEPT ![n] = @ + 1]
                                          ELSE build[o].late
    OBVIOUS
  <2>1. build[o] \in BuildStates /\ build[o].late \in [Batches -> Nat]
    BY <1>2 DEF BuildStates
  <2>2. CASE ~Hit(o)
    <3>1. build'[o] = build[o]
      BY <2>2 DEF Known
    <3> QED
      BY <2>1, <2>2, <3>1
  <2>3. CASE Hit(o)
    <3>1. build'[o] = [build[o] EXCEPT !.late[n] = @ + 1]
      BY <2>3 DEF Known
    <3> DEFINE more == [build[o].late EXCEPT ![n] = @ + 1]
    <3>2. more \in [Batches -> Nat]
      BY <1>1, <2>1
    <3>3. build'[o] = [build[o] EXCEPT !.late = more]
      BY <3>1
    <3> HIDE DEF more
    <3>4. /\ build'[o] \in BuildStates /\ build'[o].late = more
          /\ build'[o].pc = build[o].pc /\ build'[o].target = build[o].target
          /\ build'[o].verdict = build[o].verdict /\ build'[o].next = build[o].next
      BY <2>1, <3>2, <3>3 DEF BuildStates
    <3> QED
      BY <2>3, <3>4 DEF more
  <2> QED
    BY <2>2, <2>3
<1>8. build' \in [ShadowBuilders -> BuildStates]
  <2>1. build' = [o \in ShadowBuilders |-> build'[o]]
    BY DEF Known
  <2>2. \A o \in ShadowBuilders : build'[o] \in BuildStates
    BY <1>6, <1>7
  <2> QED
    BY <2>1, <2>2
<1>9. ShadowTyped'
  BY <1>2, <1>4, <1>8 DEF ShadowTyped
<1> HIDE DEF Hit
\* r joins those who may have inserted n.
<1>10. \A c \in Collections, b \in Batches : Ever(c, b) \in SUBSET (Ever(c, b)')
  <2>1. n \in Nat
    BY <1>1, BatchNumbers
  <2>2. \A b \in Batches : n > b => n + 1 > b
    BY <2>1, BatchNumbers
  <2> SUFFICES ASSUME NEW c \in Collections, NEW b \in Batches, NEW q \in Ever(c, b)
               PROVE  q \in Ever(c, b)'
    OBVIOUS
  <2>3. CASE q = r
    BY <1>1, <1>6, <2>2, <2>3 DEF Ever
  <2>4. CASE q # r
    BY <1>7, <2>4 DEF Ever
  <2> QED
    BY <2>3, <2>4
<1>11. Ever(t, n) \cup {r} \in SUBSET (Ever(t, n)') /\ r \notin Ever(t, n)
  <2>1. n \in Nat /\ n + 1 > n /\ ~(n > n)
    BY <1>1, BatchNumbers
  <2>2. r \notin Ever(t, n)
    BY <1>1, <2>1 DEF Ever
  <2>3. r \in Ever(t, n)'
    BY <1>6, <2>1 DEF Ever
  <2> QED
    BY <1>10, <2>2, <2>3
<1>12. \A c \in Collections, b \in Batches :
          IsFiniteSet(Ever(c, b)') /\ Cardinality(Ever(c, b)') \in Nat
  <2> SUFFICES ASSUME NEW c \in Collections, NEW b \in Batches
               PROVE  IsFiniteSet(Ever(c, b)') /\ Cardinality(Ever(c, b)') \in Nat
    OBVIOUS
  <2>1. Ever(c, b)' \in SUBSET ShadowBuilders
    BY DEF Ever
  <2> QED
    BY <2>1, ShadowAssumption, FS_Subset, FS_CardinalityType
<1>13. \A c \in Collections, b \in Batches :
          Cardinality(Ever(c, b)) <= Cardinality(Ever(c, b)')
  BY <1>10, <1>12, FS_Subset
<1>14. Cardinality(Ever(t, n)) + 1 <= Cardinality(Ever(t, n)')
  <2>1. IsFiniteSet(Ever(t, n)) /\ IsFiniteSet(Ever(t, n)')
    BY <1>1, <1>2, <1>12, EverFinite
  <2>2. Cardinality(Ever(t, n) \cup {r}) = Cardinality(Ever(t, n)) + 1
    BY <1>11, <2>1, FS_AddElement
  <2>3. Cardinality(Ever(t, n) \cup {r}) <= Cardinality(Ever(t, n)')
    BY <1>11, <2>1, FS_Subset
  <2> QED
    BY <2>2, <2>3
<1>15. RowsOK'
  <2>1. \A c \in Collections \ {Serving}, b \in Batches :
            rows'[c].copies[b] <= Cardinality(Ever(c, b)')
    <3> SUFFICES ASSUME NEW c \in Collections \ {Serving}, NEW b \in Batches
                 PROVE  rows'[c].copies[b] <= Cardinality(Ever(c, b)')
      OBVIOUS
    <3>1. /\ rows[c].copies[b] <= Cardinality(Ever(c, b)) /\ rows[c].copies[b] \in Nat
          /\ Cardinality(Ever(c, b)) \in Nat /\ Cardinality(Ever(c, b)') \in Nat
          /\ Cardinality(Ever(c, b)) <= Cardinality(Ever(c, b)')
      BY <1>2, <1>5, <1>12, <1>13, EverFinite DEF RowsOK
    <3>2. CASE c = t /\ b = n
      BY <1>5, <1>14, <3>1, <3>2
    <3>3. CASE ~(c = t /\ b = n)
      <4>1. rows'[c].copies[b] = rows[c].copies[b]
        BY <1>4, <1>5, <3>3
      <4> QED
        BY <3>1, <4>1
    <3> QED
      BY <3>2, <3>3
  <2>2. \A c \in Collections, b \in Batches : unflushed'[c][b] <= rows'[c].copies[b]
    <3> SUFFICES ASSUME NEW c \in Collections, NEW b \in Batches
                 PROVE  unflushed'[c][b] <= rows'[c].copies[b]
      OBVIOUS
    <3>1. /\ unflushed[c][b] <= rows[c].copies[b]
          /\ rows[c].copies[b] \in Nat /\ unflushed[c][b] \in Nat
      BY <1>2, <1>5 DEF RowsOK
    <3>2. CASE c = t /\ b = n
      BY <1>5, <3>1, <3>2
    <3>3. CASE ~(c = t /\ b = n)
      BY <1>4, <1>5, <3>1, <3>3
    <3> QED
      BY <3>2, <3>3
  <2>3. rows'[Serving].exists /\ rows'[Serving].copies = Once
    BY <1>2, <1>4, ShadowAssumption DEF RowsOK
  <2> QED
    BY <2>1, <2>2, <2>3 DEF RowsOK
\* What each run goes by.
<1>16. \A o \in ShadowBuilders \ {r} :
          /\ Flushed(o)' <=> Flushed(o)
          /\ CountTaken(o)' <=> CountTaken(o)
          /\ \A b \in Batches : Filled(o, b)' <=> Filled(o, b)
          /\ build[o].target \in Collections /\ build[o].late \in [Batches -> Nat]
  BY <1>2, <1>7 DEF Filled, Flushed, CountTaken, BuildAt, BuildStates
<1>17. \A o \in ShadowBuilders : \A b \in Batches :
          /\ Copies(o, b) \in Nat /\ Copies(o, b)' \in Nat
          /\ Durable(o, b) \in Int /\ Durable(o, b)' = Durable(o, b)
          /\ Copies(o, b)' >= Copies(o, b)
          /\ build[o].target = t /\ b = n => Copies(o, b)' = Copies(o, b) + 1
          /\ ~(build[o].target = t /\ b = n) => Copies(o, b)' = Copies(o, b)
  <2> SUFFICES ASSUME NEW o \in ShadowBuilders, NEW b \in Batches
               PROVE  /\ Copies(o, b) \in Nat /\ Copies(o, b)' \in Nat
                      /\ Durable(o, b) \in Int /\ Durable(o, b)' = Durable(o, b)
                      /\ Copies(o, b)' >= Copies(o, b)
                      /\ build[o].target = t /\ b = n => Copies(o, b)' = Copies(o, b) + 1
                      /\ ~(build[o].target = t /\ b = n) => Copies(o, b)' = Copies(o, b)
    OBVIOUS
  <2> DEFINE c == build[o].target
  <2>1. c \in Collections /\ build'[o].target = c
    BY <1>1, <1>2, <1>6, <1>7, <1>16
  <2> HIDE DEF c
  <2>2. rows[c].copies[b] \in Nat /\ unflushed[c][b] \in Nat
    BY <1>5, <2>1
  <2>3. CASE c = t /\ b = n
    <3>1. /\ rows'[c].copies[b] = rows[c].copies[b] + 1
          /\ unflushed'[c][b] = unflushed[c][b] + 1
      BY <1>5, <2>3
    <3>2. rows[c].copies[b] + 1 - (unflushed[c][b] + 1) = rows[c].copies[b] - unflushed[c][b]
      BY <2>2
    <3> QED
      BY <2>1, <2>2, <2>3, <3>1, <3>2 DEF Copies, Durable, c
  <2>4. CASE ~(c = t /\ b = n)
    <3>1. rows'[c].copies[b] = rows[c].copies[b] /\ unflushed'[c][b] = unflushed[c][b]
      BY <1>4, <1>5, <2>1, <2>4
    <3> QED
      BY <2>1, <2>2, <2>4, <3>1 DEF Copies, Durable, c
  <2> QED
    BY <2>3, <2>4
<1>18. /\ ~Flushed(r)' /\ ~CountTaken(r)'
       /\ \A b \in Batches : Filled(r, b)' => Filled(r, b) \/ b = n
  <2>1. n \in Nat /\ \A b \in Batches : n + 1 > b => n > b \/ b = n
    BY <1>1, BatchNumbers
  <2> QED
    BY <1>1, <1>2, <1>6, <2>1 DEF Filled, Flushed, CountTaken, BuildAt
<1>19. \A b \in Batches : Filled(r, b)' => Copies(r, b)' >= 1
  BY <1>1, <1>2, <1>17, <1>18 DEF BuildOK
<1>20. BuildOK(r)'
  BY <1>1, <1>2, <1>6, <1>18, <1>19 DEF BuildOK
<1>21. \A o \in ShadowBuilders \ {r} : BuildOK(o)'
  <2> SUFFICES ASSUME NEW o \in ShadowBuilders \ {r} PROVE BuildOK(o)'
    OBVIOUS
  <2>1. BuildOK(o)
    BY DEF ShadowInv
  <2>2. \A b \in Batches : Filled(o, b)' => Copies(o, b)' >= 1
    BY <1>16, <1>17, <2>1 DEF BuildOK
  <2>3. \A b \in Batches : CountTaken(o)' => Copies(o, b)' = 1 + build'[o].late[b]
    <3> SUFFICES ASSUME NEW b \in Batches, CountTaken(o)
                 PROVE  Copies(o, b)' = 1 + build'[o].late[b]
      BY <1>16
    <3>1. Copies(o, b) = 1 + build[o].late[b] /\ build[o].late[b] \in Nat
      BY <1>16, <2>1 DEF BuildOK
    <3>2. CASE build[o].target = t /\ b = n
      <4>1. build'[o].late[b] = build[o].late[b] + 1
        BY <1>1, <1>7, <1>16, <3>2 DEF Hit
      <4> QED
        BY <1>17, <3>1, <3>2, <4>1
    <3>3. CASE ~(build[o].target = t /\ b = n)
      <4>1. build'[o].late[b] = build[o].late[b]
        BY <1>1, <1>7, <1>16, <3>3 DEF Hit
      <4> QED
        BY <1>17, <3>1, <3>3, <4>1
    <3> QED
      BY <3>2, <3>3
  <2>4. \A b \in Batches : Flushed(o)' => Durable(o, b)' >= 1
    BY <1>16, <1>17, <2>1 DEF BuildOK
  <2> QED
    BY <1>7, <1>16, <2>1, <2>2, <2>3, <2>4 DEF BuildOK
<1>22. \A o \in ShadowBuilders \ {r} : PairOK(r, o)' /\ PairOK(o, r)'
  <2> SUFFICES ASSUME NEW o \in ShadowBuilders \ {r}, build[o].target = t
               PROVE  PairOK(r, o)' /\ PairOK(o, r)'
    BY <1>1, <1>6, <1>7 DEF PairOK
  <2>1. PairOK(r, o) /\ BuildOK(o)
    BY DEF ShadowInv
  <2>2. \A b \in Batches : Copies(o, b)' = Copies(r, b)' /\ Copies(o, b) = Copies(r, b)
    BY <1>1, <1>6, <1>7 DEF Copies
  <2>3. \A b \in Batches : Filled(r, b)' /\ Filled(o, b)' => Copies(r, b)' >= 2
    <3> SUFFICES ASSUME NEW b \in Batches, Filled(r, b)', Filled(o, b)
                 PROVE  Copies(r, b)' >= 2
      BY <1>16
    <3>1. CASE Filled(r, b)
      BY <1>1, <1>17, <2>1, <3>1 DEF PairOK
    <3>2. CASE b = n
      <4>1. Copies(r, b) >= 1
        BY <2>1, <2>2 DEF BuildOK
      <4> QED
        BY <1>1, <1>17, <3>2, <4>1
    <3> QED
      BY <1>18, <3>1, <3>2
  <2> QED
    BY <1>18, <2>2, <2>3 DEF PairOK
<1>23. \A o, p \in ShadowBuilders \ {r} : PairOK(o, p)'
  <2> SUFFICES ASSUME NEW o \in ShadowBuilders \ {r}, NEW p \in ShadowBuilders \ {r}
               PROVE  PairOK(o, p)'
    OBVIOUS
  <2>1. PairOK(o, p)
    BY DEF ShadowInv
  <2> QED
    <3> SUFFICES ASSUME build[o].target = build[p].target, o # p PROVE PairOK(o, p)'
      BY <1>7 DEF PairOK
    <3>1. \A b \in Batches : Filled(o, b)' /\ Filled(p, b)' => Copies(o, b)' >= 2
      BY <1>16, <1>17, <2>1 DEF PairOK
    <3>2. \A b \in Batches : Flushed(o)' /\ Flushed(p)' => Durable(o, b)' >= 2
      BY <1>16, <1>17, <2>1 DEF PairOK
    <3> QED
      BY <1>16, <2>1, <3>1, <3>2 DEF PairOK
<1> QED
  BY <1>9, <1>15, <1>20, <1>21, <1>22, <1>23 DEF ShadowInv, PairOK

LEMMA ShadowStay ==
    ASSUME ShadowInv, UNCHANGED <<rows, unflushed, build, shadowEvidence>>,
           settings' \in Collections
    PROVE  ShadowInv'
<1>1. \A c \in Collections, b \in Batches : Ever(c, b)' = Ever(c, b)
  BY DEF Ever
<1>2. RowsOK'
  BY <1>1 DEF ShadowInv, RowsOK
<1>3. ShadowTyped'
  BY DEF ShadowInv, ShadowTyped
<1>4. \A r \in ShadowBuilders :
          /\ \A b \in Batches : /\ Filled(r, b)' <=> Filled(r, b)
                                /\ Copies(r, b)' = Copies(r, b)
                                /\ Durable(r, b)' = Durable(r, b)
          /\ Flushed(r)' <=> Flushed(r)
          /\ CountTaken(r)' <=> CountTaken(r)
  BY DEF Filled, Flushed, CountTaken, BuildAt, Copies, Durable
<1>5. \A r \in ShadowBuilders : BuildOK(r)'
  BY <1>4 DEF ShadowInv, BuildOK
<1>6. \A r, o \in ShadowBuilders : PairOK(r, o)'
  BY <1>4 DEF ShadowInv, PairOK
<1> QED
  BY <1>2, <1>3, <1>5, <1>6 DEF ShadowInv

LEMMA ShadowSteps ==
    ASSUME ShadowInv, [ShadowNext]_shadowVars
    PROVE  ShadowInv'
<1>1. CASE ActivateShadow
  <2>1. \A r \in ShadowBuilders : build[r].target \in Collections
    BY DEF ShadowInv, ShadowTyped, BuildStates
  <2> QED
    BY <1>1, <2>1, ShadowStay DEF ActivateShadow
<1>2. ASSUME NEW r \in ShadowBuilders, ShadowStep(r) PROVE ShadowInv'
  <2>1. CASE InsertBatch(r) \/ InsertAnswerLost(r)
    <3>1. PICK pc \in {"insert", "evidence"} :
              Inserted(r) /\ Known(r, pc) /\ UNCHANGED <<settings, shadowEvidence>>
      BY <2>1 DEF InsertBatch, InsertAnswerLost
    <3>2. build[r].next \in Batches /\ build[r].target \in Collections
      BY <3>1 DEF Inserted, ShadowInv, ShadowTyped, BuildStates
    <3> QED
      BY <3>1, <3>2, InsertKept
  <2>2. CASE BeginBuild(r) \/ Flush(r) \/ CountRows(r)
    BY <2>2, BeginBuildKept, FlushKept, CountRowsKept
  <2>3. CASE \/ FindTarget(r) \/ EnsureCollection(r) \/ CreateCollection(r)
             \/ ReadRows(r) \/ CheckSettings(r) \/ BuildFails(r)
             \/ WriteEvidence(r) \/ SealEvidence(r) \/ KillBuild(r)
    BY <2>3, BuildAlone
  <2> QED
    BY <1>2, <2>1, <2>2, <2>3 DEF ShadowStep
<1>3. CASE UNCHANGED shadowVars
  <2>1. settings' \in Collections
    BY <1>3 DEF shadowVars, ShadowInv, ShadowTyped
  <2> QED
    BY <1>3, <2>1, ShadowStay DEF shadowVars
<1> QED
  BY <1>1, <1>2, <1>3 DEF ShadowNext

LEMMA ShadowIsTrue == ShadowInv => ShadowTrue
<1> SUFFICES ASSUME ShadowInv PROVE ShadowTrue
  OBVIOUS
<1>1. ShadowTyped /\ RowsOK /\ (\A r \in ShadowBuilders : BuildOK(r))
      /\ \A r, o \in ShadowBuilders : PairOK(r, o)
  BY DEF ShadowInv
<1>2. Cardinality(ShadowBuilders) \in Nat /\ 1 <= Cardinality(ShadowBuilders)
  BY ShadowAssumption, FS_CardinalityType, FS_EmptySet
<1>3. \A c \in Collections, b \in Batches :
          rows[c].copies[b] \in 0 .. Cardinality(ShadowBuilders)
  <2> SUFFICES ASSUME NEW c \in Collections, NEW b \in Batches
               PROVE  rows[c].copies[b] \in 0 .. Cardinality(ShadowBuilders)
    OBVIOUS
  <2>1. CASE c = Serving
    BY <1>1, <1>2, <2>1 DEF RowsOK, Once
  <2>2. CASE c # Serving
    <3>1. rows[c].copies[b] \in Nat /\ rows[c].copies[b] <= Cardinality(Ever(c, b))
      BY <1>1, <2>2 DEF ShadowTyped, RowsOK
    <3> QED
      BY <1>2, <3>1, EverFinite
  <2> QED
    BY <2>1, <2>2
<1>4. \A c \in Collections, b \in Batches :
          unflushed[c][b] \in 0 .. Cardinality(ShadowBuilders)
  <2>1. \A c \in Collections, b \in Batches :
            unflushed[c][b] \in Nat /\ unflushed[c][b] <= rows[c].copies[b]
    BY <1>1 DEF ShadowTyped, RowsOK
  <2> QED
    BY <1>2, <1>3, <2>1
<1>5. \A c \in Collections :
          /\ rows[c].exists \in BOOLEAN
          /\ rows[c].copies \in [Batches -> 0 .. Cardinality(ShadowBuilders)]
          /\ unflushed[c] \in [Batches -> 0 .. Cardinality(ShadowBuilders)]
  <2>1. \A c \in Collections : rows[c].copies \in [Batches -> Nat] /\ rows[c].exists \in BOOLEAN
                               /\ unflushed[c] \in [Batches -> Nat]
    BY <1>1 DEF ShadowTyped
  <2> QED
    BY <1>3, <1>4, <2>1
<1>6. ShadowTypeOK
  BY <1>1, <1>5 DEF ShadowTyped, BuildStates, ShadowTypeOK
<1>7. \A r \in Passed : CountTaken(r)
  BY DEF Passed, CountTaken
<1> QED
  BY <1>1, <1>6, <1>7 DEF ShadowTrue, Passed, BuildOK, PairOK, RowsOK, Copies

-----------------------------------------------------------------------------
(* The tools together. *)

LEMMA UploadWritesThat ==
    ASSUME BucketOK, UploadNext
    PROVE  \A k \in MediaKeys : bucket[k] # NoObject => bucket'[k] = bucket[k]
<1>1. ASSUME NEW u \in Uploaders, PutCreates(u) \/ PutAnswerLost(u)
      PROVE  \A k \in MediaKeys : bucket[k] # NoObject => bucket'[k] = bucket[k]
  <2>1. Created(u, NextObject(u))
    BY <1>1 DEF PutCreates, PutAnswerLost
  <2> QED
    BY <2>1 DEF Created, Change, BucketOK
<1>2. ASSUME NEW u \in Uploaders, UploadStep(u), ~PutCreates(u), ~PutAnswerLost(u)
      PROVE  bucket' = bucket
  BY <1>2 DEF UploadStep, StartUpload, CaptureCurrent, Claim, Freeze, PutConflicts, PutRefused,
       ReadBack, ReadBackFails, ListAfter, CaptureAfter, ValidateAfter, WriteReport,
       KillUpload, bucketVars
<1>3. CASE MakePlan \/ SourceEdited
  BY <1>3 DEF MakePlan, SourceEdited, bucketVars
<1> QED
  BY <1>1, <1>2, <1>3 DEF UploadNext

\* An upload leaves a cleanup that has not begun as it is.
LEMMA CleanupUnderUpload ==
    ASSUME CleanupInv, part = "upload", UNCHANGED <<part, cleanupVars>>
    PROVE  CleanupInv'
<1>1. /\ UNCHANGED <<wiki, local, command, inventory, backup, receipts, cleanupPlan, applied,
                     verified, restored>>
      /\ command = NoCommand /\ ~applied.started /\ ~verified
  BY DEF cleanupVars, evidence, saved, later, CleanupInv
<1>2. RemovedIsAccounted' /\ AcceptedIsTrue'
  BY <1>1 DEF RemovedIsAccounted, AcceptedIsTrue
<1>3. CommandOK' /\ CommandShape'
  BY <1>1, NoCommandTyped DEF CommandOK, CommandShape, CommandAt, Applying
<1>4. CleanupTypeOK' /\ FilesOrdered'
  BY <1>1 DEF CleanupInv, CleanupTypeOK, FilesOrdered, Backed
<1> QED
  BY <1>1, <1>2, <1>3, <1>4 DEF CleanupInv

LEMMA MediaStays ==
    ASSUME BucketOK, UploadInv, CleanupInv, UNCHANGED <<part, mediaVars>>
    PROVE  BucketOK' /\ UploadInv' /\ CleanupInv'
<1>1. /\ UNCHANGED <<part, bucket, changed, foreign, mediaFaults>>
      /\ UNCHANGED <<uploadPlan, marker, report, uploader, sources>>
      /\ UNCHANGED <<wiki, local, command, inventory, backup, receipts, cleanupPlan, applied,
                     verified, restored>>
  BY DEF mediaVars, bucketVars, uploadVars, cleanupVars, evidence, saved, later
<1>2. BucketOK'
  BY <1>1 DEF BucketOK
<1>3. UploadInv'
  <2>1. \A u \in Uploaders : UploaderOK(u)'
    BY <1>1 DEF UploadInv, UploaderOK, Captures, Stands
  <2>2. ReportOK'
    BY <1>1 DEF UploadInv, ReportOK, Stands, Present
  <2> QED
    BY <1>1, <2>1, <2>2 DEF UploadInv, UploadTypeOK, NoUpload
<1>4. CleanupInv'
  <2>1. CommandOK' /\ CommandShape'
    BY <1>1 DEF CleanupInv, CommandOK, CommandShape, CommandAt, Applying, Backed, Captures,
                LocalLeft
  <2>2. RemovedIsAccounted' /\ AcceptedIsTrue'
    BY <1>1, AccountedKept, NothingWritten DEF CleanupInv
  <2> QED
    BY <1>1, <2>1, <2>2 DEF CleanupInv, CleanupTypeOK, FilesOrdered, Backed
<1> QED
  BY <1>2, <1>3, <1>4

LEMMA EvidenceStart == OperationsInit => EvidenceInv
  BY BucketStart, UploadStart, CleanupStart, ShadowStart, ClosureStart
     DEF OperationsInit, EvidenceInv

LEMMA EvidenceSteps == EvidenceInv /\ [OperationsNext]_allVars => EvidenceInv'
<1> SUFFICES ASSUME BucketOK, UploadInv, CleanupInv, ShadowInv, ClosureInv,
                    [OperationsNext]_allVars
             PROVE  EvidenceInv'
  BY DEF EvidenceInv
<1>1. CASE InUpload(UploadNext)
  <2>1. /\ part = "upload" /\ UploadNext /\ UNCHANGED <<part, cleanupVars>>
        /\ UNCHANGED shadowVars /\ UNCHANGED closureVars
    BY <1>1 DEF InUpload, otherVars
  <2> QED
    BY <2>1, UploadSteps, CleanupUnderUpload, ShadowSteps, ClosureStep DEF EvidenceInv
<1>2. CASE InCleanup(CleanupNext)
  <2>1. /\ part = "cleanup" /\ CleanupNext /\ UNCHANGED <<part, uploadVars>>
        /\ UNCHANGED shadowVars /\ UNCHANGED closureVars
    BY <1>2 DEF InCleanup, otherVars
  <2>2. \A k \in MediaKeys : bucket'[k] = bucket[k] \/ bucket'[k] = NoObject
                             \/ bucket'[k].op = "restore"
    BY <2>1, CleanupWritesThat DEF CleanupWrites
  <2> QED
    BY <2>1, <2>2, CleanupSteps, UploadUnderCleanup, ShadowSteps, ClosureStep DEF EvidenceInv
<1>3. CASE InBucket(OtherWrites)
  <2>1. /\ OtherWrites /\ UNCHANGED <<part, uploadVars>> /\ UNCHANGED <<part, cleanupVars>>
        /\ UNCHANGED shadowVars /\ UNCHANGED closureVars
    BY <1>3 DEF InBucket, otherVars
  <2> QED
    BY <2>1, OthersWriting, UploadUnderOthers, CleanupUnderOthers, ShadowSteps, ClosureStep
       DEF EvidenceInv
<1>4. CASE \/ InDeployment("unlink", Next) \/ InDeployment("blind", Blind!Next)
           \/ InBuild(ShadowNext) \/ InDownload(DownloadNext) \/ InClosure(ClosureNext)
           \/ UNCHANGED allVars
  <2>1. UNCHANGED <<part, mediaVars>> /\ [ShadowNext]_shadowVars /\ [ClosureNext]_closureVars
    BY <1>4 DEF InDeployment, InBuild, InDownload, InClosure, allVars, otherVars
  <2> QED
    BY <2>1, MediaStays, ShadowSteps, ClosureStep DEF EvidenceInv
<1> QED
  BY <1>1, <1>2, <1>3, <1>4 DEF OperationsNext

\* What the operators' tools leave as evidence is true, for any number of objects,
\* runs, batches and parts, whatever others do meanwhile and wherever the tools are
\* stopped: the report of an upload, the rows and backups of the cleanup, the pass
\* of a collection build and the receipt of a closure (build_huiji_evb,
\* cleanup_legacy_rag_p2, build_huiji_index, closure).
THEOREM EvidenceSafety == OperationsSpec => []EvidenceTrue
<1>1. EvidenceInv => EvidenceTrue
  <2> SUFFICES ASSUME EvidenceInv PROVE EvidenceTrue
    OBVIOUS
  <2>1. UploadReportTrue
    BY DEF EvidenceInv, UploadInv, ReportOK, UploadReportTrue, ReportHolds, Stands
  <2>2. CleanupAccounted
    BY DEF EvidenceInv, CleanupInv, CleanupAccounted
  <2>3. ShadowTrue
    BY ShadowIsTrue DEF EvidenceInv
  <2>4. ClosedTogether
    BY DEF EvidenceInv, ClosureInv, CloserOK, WholeClosure, ClosedTogether, CloserAt
  <2> QED
    BY <2>1, <2>2, <2>3, <2>4 DEF EvidenceTrue
<1> QED
  BY <1>1, EvidenceStart, EvidenceSteps, PTL DEF OperationsSpec

\* A step that is not another program's changes no object of the bucket, and removes
\* none but a candidate of the cleanup whose drift check has passed
\* (put_object_if_absent, conditional_restore_object, command_apply).
THEOREM NothingOverwrittenSafety == OperationsSpec => NothingOverwritten
<1> DEFINE Kept == \A k \in MediaKeys :
              bucket[k] # NoObject /\ bucket'[k] # bucket[k] /\ foreign' = foreign =>
                  bucket'[k] = NoObject /\ applied.started /\ k \in inventory.candidates
<1>1. EvidenceInv /\ [OperationsNext]_allVars => [Kept]_allVars
  <2> SUFFICES ASSUME BucketOK, CleanupInv, OperationsNext PROVE Kept
    BY DEF EvidenceInv
  <2>1. CASE InUpload(UploadNext)
    BY <2>1, UploadWritesThat DEF InUpload
  <2>2. CASE InCleanup(CleanupNext)
    BY <2>2, CleanupWritesThat DEF InCleanup, CleanupWrites
  <2>3. CASE InBucket(OtherWrites)
    BY <2>3, OthersWriting DEF InBucket
  <2>4. CASE \/ InDeployment("unlink", Next) \/ InDeployment("blind", Blind!Next)
             \/ InBuild(ShadowNext) \/ InDownload(DownloadNext) \/ InClosure(ClosureNext)
    <3>1. bucket' = bucket
      BY <2>4 DEF InDeployment, InBuild, InDownload, InClosure, mediaVars, bucketVars
    <3> QED
      BY <3>1
  <2> QED
    BY <2>1, <2>2, <2>3, <2>4 DEF OperationsNext
<1> QED
  BY <1>1, EvidenceStart, EvidenceSteps, PTL DEF OperationsSpec, NothingOverwritten

=============================================================================
