-------------------------- MODULE ComponentsProofs --------------------------
(***************************************************************************)
(* The five components of Components, each in its own specification.       *)
(* First the bootstrap: the pointer is explained by the journals and the   *)
(* evidence is true.  Then the wiki database: receipts restore what they   *)
(* say, and a dropped database is saved.  Third the publication: what is   *)
(* published stays.  Then the composite request, the corpus of the         *)
(* crawler, and the components together.                                   *)
(***************************************************************************)
EXTENDS Components, TLAPS

-----------------------------------------------------------------------------
(* The bootstrap of generation zero.                                       *)

Runners == [op : {"apply", "recover"}, id : Bootstraps, pc : Steps]

Open == {"prepared", "pointer_written", "verified", "committed"}

(* What the files say when the command for b stands at pc. *)
LedgerAt(b, pc) ==
    /\ pc \in {"temp", "link", "unlink", "written"} => ledger[b] = "prepared"
    /\ pc = "verify" => ledger[b] = "pointer_written"
    /\ pc \in {"compare", "commit"} => ledger[b] = "verified"
    /\ pc \in {"pin", "pinned", "receipt", "receipted", "check"} => ledger[b] = "committed"
    /\ pc = "failed" => ledger[b] \in Open
    /\ pc = "compensate" => ledger[b] = "verification_failed"
    /\ pc \in {"remove", "removed"} => ledger[b] = "compensating"
    /\ pc = "report" => ledger[b] # "committed"

PointerAt(b, pc) ==
    /\ pc \in {"temp", "link", "removed"} => pointer = "none"
    /\ pc \in {"unlink", "written", "compensate", "remove"} => pointer = b
    /\ pc = "report" => pointer # b

EvidenceAt(b, pc) ==
    /\ b \notin failure
    /\ pc \in {"receipt", "receipted", "check"} => pin[b] = "pinned"
    /\ pc = "receipted" => receipt[b] # "none"

Stands(b, pc) == LedgerAt(b, pc) /\ PointerAt(b, pc) /\ EvidenceAt(b, pc)

RunnerOK ==
    \/ runner = NoRunner
    \/ runner \in Runners /\ Stands(runner.id, runner.pc)

LedgersOK ==
    /\ pointer \in Bootstraps \cup {"none", "candidate"}
    /\ temps \subseteq Bootstraps /\ strangers \subseteq Bootstraps
    /\ failure \subseteq Bootstraps
    /\ ledger \in [Bootstraps -> LedgerStates]
    /\ after \in [Bootstraps -> {"none", "pass", "blocked"}]
    /\ pin \in [Bootstraps -> Written] /\ receipt \in [Bootstraps -> Written]

InspectOK ==
    /\ root \in [Bootstraps -> {"absent", "captured", "writing", "partial", "inspected"}]
    /\ before \in [Bootstraps -> Stores] /\ stores \in Stores
    /\ kills \in 0..MaxKills /\ drifts \in 0..MaxDrifts

Truth == PointerExplained /\ BootstrapEvidence

GZInv == LedgersOK /\ InspectOK /\ RunnerOK /\ Truth

-----------------------------------------------------------------------------
(* What the leaves have in common. *)

LEMMA States ==
    LedgerStates = {"none", "prepared", "pointer_written", "verified", "verification_failed",
                    "compensating", "rolled_back", "committed", "conflict"}
  BY DEF LedgerStates, LedgerNext

LEMMA BootstrapNames == ASSUME NEW b \in Bootstraps PROVE b # "none" /\ b # "candidate"
  BY BootstrapAssumption

LEMMA AtFacts ==
    ASSUME NEW b \in Bootstraps, NEW pc \in Steps, At(b, pc)
    PROVE  /\ runner \in Runners /\ runner.id = b /\ runner.pc = pc
           /\ runner # NoRunner
  BY DEF At, Running, Runners, NoRunner

LEMMA Standing ==
    ASSUME GZInv, NEW b \in Bootstraps, NEW pc \in Steps, At(b, pc)
    PROVE  Stands(b, pc)
  BY AtFacts DEF GZInv, RunnerOK

LEMMA RunnerLeaves ==
    ASSUME NEW b \in Bootstraps, NEW p \in Steps, NEW q \in Steps, At(b, p), Goto(q)
    PROVE  runner' \in Runners /\ runner'.id = b /\ runner'.pc = q
  BY AtFacts DEF Goto, Runners

LEMMA GoneStanding ==
    ASSUME NEW b \in Bootstraps, NEW p \in Steps, NEW q \in Steps, At(b, p), Goto(q),
           Stands(b, q)'
    PROVE  RunnerOK'
<1>1. runner' \in Runners /\ runner'.id = b /\ runner'.pc = q  BY RunnerLeaves
<1> QED BY <1>1 DEF RunnerOK

LEMMA TouchOK == ASSUME NEW b, strangers \subseteq Bootstraps, Touch(b)
                 PROVE  strangers' \subseteq Bootstraps
  BY DEF Touch

(* A step that leaves the pointer and the journals, and the evidence.        *)
LEMMA TruthStays ==
    ASSUME Truth, UNCHANGED <<pointer, ledger, after, pin, receipt, failure>>
    PROVE  Truth'
  BY DEF Truth, PointerExplained, BootstrapEvidence

(* An entry in the journal of b, in the state s. *)
LEMMA Appended ==
    ASSUME GZInv, NEW b \in Bootstraps, NEW s \in LedgerStates \ {"none"},
           ledger' = [ledger EXCEPT ![b] = s], Touch(b),
           UNCHANGED <<pointer, temps, after, pin, receipt, failure>>
    PROVE  /\ LedgersOK' /\ ledger'[b] = s
           /\ \A c \in Bootstraps \ {b} : ledger'[c] = ledger[c]
<1>1. ledger' \in [Bootstraps -> LedgerStates]  BY DEF GZInv, LedgersOK
<1>2. strangers' \subseteq Bootstraps  BY TouchOK DEF GZInv, LedgersOK
<1> QED BY <1>1, <1>2 DEF GZInv, LedgersOK

LEMMA AppendedTruth ==
    ASSUME GZInv, NEW b \in Bootstraps, NEW s \in LedgerStates \ {"none"},
           ledger'[b] = s, \A c \in Bootstraps \ {b} : ledger'[c] = ledger[c],
           UNCHANGED <<pointer, after, pin, receipt, failure>>,
           ledger[b] # "committed", b \notin failure,
           s \in {"pointer_written", "verified", "committed"} => pointer = b,
           s \in {"rolled_back", "conflict"} => pointer # b
    PROVE  Truth'
<1>1. PointerExplained'
  <2>1. ASSUME NEW c \in Bootstraps
        PROVE  /\ ledger'[c] \in {"pointer_written", "verified"} => pointer' = c
               /\ ledger'[c] = "committed" => pointer' \in {c, "candidate"}
               /\ pointer' = c => ledger'[c] \notin {"none", "rolled_back", "conflict"}
    <3>1. CASE c = b  BY <3>1
    <3>2. CASE c # b  BY <3>2 DEF GZInv, Truth, PointerExplained
    <3> QED BY <3>1, <3>2
  <2>2. pointer' = "candidate" => \E c \in Bootstraps : ledger'[c] = "committed"
    BY DEF GZInv, Truth, PointerExplained
  <2> QED BY <2>1, <2>2 DEF PointerExplained
<1>2. BootstrapEvidence'
  BY DEF GZInv, Truth, BootstrapEvidence
<1> QED BY <1>1, <1>2 DEF Truth

(* An entry of the command for b itself, which then stands at q.             *)
LEMMA AppendedAt ==
    ASSUME GZInv, NEW b \in Bootstraps, NEW p \in Steps, NEW q \in Steps, At(b, p), Goto(q),
           NEW s \in LedgerStates \ {"none"},
           ledger' = [ledger EXCEPT ![b] = s], Touch(b),
           UNCHANGED <<pointer, temps, inspectVars, evidenceVars, stores, kills, drifts>>,
           ledger[b] # "committed",
           s \in {"pointer_written", "verified", "committed"} => pointer = b,
           s \in {"rolled_back", "conflict"} => pointer # b,
           ledger'[b] = s => Stands(b, q)'
    PROVE  GZInv'
<1>1. UNCHANGED <<pointer, temps, after, pin, receipt, failure, root, before, stores,
                  kills, drifts>>
  BY DEF inspectVars, evidenceVars
<1>2. /\ LedgersOK' /\ ledger'[b] = s
      /\ \A c \in Bootstraps \ {b} : ledger'[c] = ledger[c]
  BY <1>1, Appended
<1>3. InspectOK'  BY <1>1 DEF GZInv, InspectOK
<1>4. RunnerOK'  BY <1>2, GoneStanding
<1>5. b \notin failure  BY Standing DEF Stands, EvidenceAt
<1>6. Truth'  BY <1>1, <1>2, <1>5, AppendedTruth
<1> QED BY <1>2, <1>3, <1>4, <1>6 DEF GZInv

(* A step that writes neither the pointer nor a journal, and no evidence.    *)
LEMMA Elsewhere ==
    ASSUME GZInv, temps' \subseteq Bootstraps, strangers' \subseteq Bootstraps, InspectOK',
           UNCHANGED <<pointer, ledger, after, pin, receipt, failure>>
    PROVE  LedgersOK' /\ Truth'
  BY TruthStays DEF GZInv, LedgersOK

LEMMA RunnerStays ==
    ASSUME GZInv, UNCHANGED <<pointer, ledger, pin, receipt, failure, runner>>
    PROVE  RunnerOK'
  BY DEF GZInv, RunnerOK, Stands, LedgerAt, PointerAt, EvidenceAt

-----------------------------------------------------------------------------
(* inspect *)

LEMMA InspectKeeps == ASSUME GZInv, NEW b \in Bootstraps, Inspect(b) PROVE GZInv'
<1>1. UNCHANGED <<pointer, temps, ledger, after, pin, receipt, failure, stores, runner,
                  drifts>>
  BY DEF Inspect, Capture, CreateRoot, FreezeIntent, InspectEnds, evidenceVars
<1>2. strangers' \subseteq Bootstraps
  BY DEF GZInv, LedgersOK, Inspect, Capture, CreateRoot, FreezeIntent, InspectEnds, Touch
<1>3. root' \in [Bootstraps -> {"absent", "captured", "writing", "partial", "inspected"}]
  BY DEF GZInv, InspectOK, Inspect, Capture, CreateRoot, FreezeIntent, InspectEnds
<1>4. before' \in [Bootstraps -> Stores]
  BY DEF GZInv, InspectOK, Inspect, Capture, CreateRoot, FreezeIntent, InspectEnds
<1>5. kills' \in 0..MaxKills
  BY BootstrapAssumption
  DEF GZInv, InspectOK, Inspect, Capture, CreateRoot, FreezeIntent, InspectEnds
<1>6. InspectOK'  BY <1>1, <1>3, <1>4, <1>5 DEF GZInv, InspectOK
<1>7. temps' \subseteq Bootstraps  BY <1>1 DEF GZInv, LedgersOK
<1> QED BY <1>1, <1>2, <1>6, <1>7, Elsewhere, RunnerStays DEF GZInv

-----------------------------------------------------------------------------
(* The start of a command. *)

LEMMA RunnerStarts ==
    ASSUME NEW op \in {"apply", "recover"}, NEW b \in Bootstraps, NEW q \in Steps,
           runner' = Running(op, b, q), Stands(b, q)'
    PROVE  RunnerOK'
<1>1. runner' \in Runners /\ runner'.id = b /\ runner'.pc = q  BY DEF Running, Runners
<1> QED BY <1>1 DEF RunnerOK

LEMMA ApplyKeeps == ASSUME GZInv, NEW b \in Bootstraps, Apply(b) PROVE GZInv'
<1>1. /\ pointer = "none" /\ ledger[b] = "none" /\ b \notin failure
      /\ ledger' = [ledger EXCEPT ![b] = "prepared"] /\ Touch(b)
      /\ runner' = Running("apply", b, "temp")
  BY DEF Apply, AppendEvent
<1>2. UNCHANGED <<pointer, temps, after, pin, receipt, failure, root, before, stores,
                  kills, drifts>>
  BY DEF Apply, inspectVars, evidenceVars
<1>3. /\ LedgersOK' /\ ledger'[b] = "prepared"
      /\ \A c \in Bootstraps \ {b} : ledger'[c] = ledger[c]
  BY <1>1, <1>2, Appended, States
<1>4. InspectOK'  BY <1>2 DEF GZInv, InspectOK
<1>5. Truth'  BY <1>1, <1>2, <1>3, AppendedTruth, States
<1>6. Stands(b, "temp")'
  BY <1>1, <1>2, <1>3 DEF Stands, LedgerAt, PointerAt, EvidenceAt
<1>7. RunnerOK'  BY <1>1, <1>6, RunnerStarts DEF Steps
<1> QED BY <1>3, <1>4, <1>5, <1>7 DEF GZInv

LEMMA RecoverKeeps == ASSUME GZInv, NEW b \in Bootstraps, Recover(b) PROVE GZInv'
<1>1. UNCHANGED <<pointer, temps, strangers, ledger, after, pin, receipt, failure, root,
                  before, stores, kills, drifts>>
  BY DEF Recover, inspectVars, evidenceVars
<1>2. PICK q \in {"temp", "written", "verify", "compare", "pin"} :
         /\ q = ResumeAt(b) /\ runner' = Running("recover", b, q)
  BY DEF Recover, Recoverable, ResumeAt
<1>3. Stands(b, q)
  BY <1>2, BootstrapNames DEF Recover, Recoverable, ResumeAt, Stands, LedgerAt, PointerAt, EvidenceAt
<1>4. Stands(b, q)'
  BY <1>1, <1>3 DEF Stands, LedgerAt, PointerAt, EvidenceAt
<1>5. RunnerOK'  BY <1>2, <1>4, RunnerStarts DEF Steps
<1>6. InspectOK'  BY <1>1 DEF GZInv, InspectOK
<1>7. LedgersOK' /\ Truth'  BY <1>1, <1>6, Elsewhere DEF GZInv, LedgersOK
<1> QED BY <1>5, <1>6, <1>7 DEF GZInv

-----------------------------------------------------------------------------
(* The pointer. *)

LEMMA WriteTempKeeps == ASSUME GZInv, NEW b \in Bootstraps, WriteTemp(b) PROVE GZInv'
<1>1. /\ At(b, "temp") /\ Touch(b) /\ Goto("link")
      /\ temps' \subseteq Bootstraps
      /\ UNCHANGED <<pointer, ledger, after, pin, receipt, failure, root, before, stores,
                     kills, drifts>>
  BY DEF WriteTemp, inspectVars, evidenceVars, GZInv, LedgersOK
<1>2. Stands(b, "temp")  BY <1>1, Standing DEF Steps
<1>3. Stands(b, "link")'
  BY <1>1, <1>2 DEF Stands, LedgerAt, PointerAt, EvidenceAt
<1>4. RunnerOK'  BY <1>1, <1>3, GoneStanding DEF Steps
<1>5. InspectOK'  BY <1>1 DEF GZInv, InspectOK
<1>6. strangers' \subseteq Bootstraps  BY <1>1, TouchOK DEF GZInv, LedgersOK
<1> QED BY <1>1, <1>4, <1>5, <1>6, Elsewhere DEF GZInv

LEMMA LinkKeeps == ASSUME GZInv, NEW b \in Bootstraps, Link(b) PROVE GZInv'
<1>1. /\ At(b, "link") /\ Touch(b) /\ Goto("unlink")
      /\ pointer = "none" /\ pointer' = b
      /\ UNCHANGED <<temps, ledger, after, pin, receipt, failure, root, before, stores,
                     kills, drifts>>
  BY DEF Link, inspectVars, evidenceVars
<1>2. Stands(b, "link")  BY <1>1, Standing DEF Steps
<1>3. ledger[b] = "prepared" /\ b \notin failure
  BY <1>2 DEF Stands, LedgerAt, EvidenceAt
<1>4. Stands(b, "unlink")'
  BY <1>1, <1>3 DEF Stands, LedgerAt, PointerAt, EvidenceAt
<1>5. RunnerOK'  BY <1>1, <1>4, GoneStanding DEF Steps
<1>6. InspectOK'  BY <1>1 DEF GZInv, InspectOK
<1>7. strangers' \subseteq Bootstraps  BY <1>1, TouchOK DEF GZInv, LedgersOK
<1>8. LedgersOK'  BY <1>1, <1>7 DEF GZInv, LedgersOK
<1>9. PointerExplained'
  BY <1>1, <1>3, BootstrapNames DEF GZInv, Truth, PointerExplained
<1>10. BootstrapEvidence'
  BY <1>1, <1>3 DEF GZInv, Truth, BootstrapEvidence
<1> QED BY <1>5, <1>6, <1>8, <1>9, <1>10 DEF GZInv, Truth

LEMMA UnlinkTempKeeps == ASSUME GZInv, NEW b \in Bootstraps, UnlinkTemp(b) PROVE GZInv'
<1>1. /\ At(b, "unlink") /\ Goto("written")
      /\ temps' \subseteq Bootstraps /\ strangers' \subseteq Bootstraps
      /\ UNCHANGED <<pointer, ledger, after, pin, receipt, failure, root, before, stores,
                     kills, drifts>>
  BY DEF UnlinkTemp, inspectVars, evidenceVars, GZInv, LedgersOK
<1>2. Stands(b, "unlink")  BY <1>1, Standing DEF Steps
<1>3. Stands(b, "written")'
  BY <1>1, <1>2 DEF Stands, LedgerAt, PointerAt, EvidenceAt
<1>4. RunnerOK'  BY <1>1, <1>3, GoneStanding DEF Steps
<1>5. InspectOK'  BY <1>1 DEF GZInv, InspectOK
<1> QED BY <1>1, <1>4, <1>5, Elsewhere DEF GZInv

(* An activation replaces the pointer of a committed bootstrap. *)
LEMMA ActivateKeeps == ASSUME GZInv, NEW b \in Bootstraps, Activate(b) PROVE GZInv'
<1>1. /\ runner' = NoRunner /\ pointer' = "candidate"
      /\ pointer = b /\ ledger[b] = "committed"
      /\ UNCHANGED <<temps, strangers, ledger, after, pin, receipt, failure, root, before,
                     stores, kills, drifts>>
  BY DEF Activate, Idle, ValidReceipt, inspectVars, evidenceVars
<1>2. RunnerOK'  BY <1>1 DEF RunnerOK
<1>3. InspectOK'  BY <1>1 DEF GZInv, InspectOK
<1>4. LedgersOK'  BY <1>1 DEF GZInv, LedgersOK
<1>5. PointerExplained'
  BY <1>1, BootstrapNames DEF GZInv, Truth, PointerExplained
<1>6. BootstrapEvidence'
  BY <1>1, BootstrapNames DEF GZInv, Truth, BootstrapEvidence
<1> QED BY <1>2, <1>3, <1>4, <1>5, <1>6 DEF GZInv, Truth

-----------------------------------------------------------------------------
(* The rest of a bootstrap. *)

LEMMA JournalWrittenKeeps == ASSUME GZInv, NEW b \in Bootstraps, JournalWritten(b) PROVE GZInv'
<1>1. /\ At(b, "written") /\ Goto("verify")
      /\ ledger' = [ledger EXCEPT ![b] = "pointer_written"] /\ Touch(b)
      /\ UNCHANGED <<pointer, temps, inspectVars, evidenceVars, stores, kills, drifts>>
  BY DEF JournalWritten, AppendEvent
<1>2. Stands(b, "written")  BY <1>1, Standing DEF Steps
<1>3. ledger[b] # "committed" /\ pointer = b /\ b \notin failure
  BY <1>2, BootstrapNames DEF Stands, LedgerAt, PointerAt, EvidenceAt
<1>4. ledger'[b] = "pointer_written" => Stands(b, "verify")'
  BY <1>1, <1>2, <1>3 DEF Stands, LedgerAt, PointerAt, EvidenceAt, evidenceVars
<1> QED
  BY <1>1, <1>3, <1>4, AppendedAt, States DEF Steps

LEMMA VerifyKeeps == ASSUME GZInv, NEW b \in Bootstraps, Verify(b) PROVE GZInv'
<1>1. /\ At(b, "verify") /\ Goto("compare")
      /\ ledger' = [ledger EXCEPT ![b] = "verified"] /\ Touch(b)
      /\ UNCHANGED <<pointer, temps, inspectVars, evidenceVars, stores, kills, drifts>>
  BY DEF Verify, AppendEvent
<1>2. Stands(b, "verify")  BY <1>1, Standing DEF Steps
<1>3. ledger[b] \in {"pointer_written", "verified"} /\ b \notin failure
  BY <1>2 DEF Stands, LedgerAt, EvidenceAt
<1>4. pointer = b  BY <1>3 DEF GZInv, Truth, PointerExplained
<1>5. ledger'[b] = "verified" => Stands(b, "compare")'
  BY <1>1, <1>3, <1>4 DEF Stands, LedgerAt, PointerAt, EvidenceAt, evidenceVars
<1> QED
  BY <1>1, <1>3, <1>4, <1>5, AppendedAt, States DEF Steps

LEMMA CommitKeeps == ASSUME GZInv, NEW b \in Bootstraps, Commit(b) PROVE GZInv'
<1>1. /\ At(b, "commit") /\ Goto("pin")
      /\ ledger' = [ledger EXCEPT ![b] = "committed"] /\ Touch(b)
      /\ UNCHANGED <<pointer, temps, inspectVars, evidenceVars, stores, kills, drifts>>
  BY DEF Commit, AppendEvent
<1>2. Stands(b, "commit")  BY <1>1, Standing DEF Steps
<1>3. ledger[b] \in {"pointer_written", "verified"} /\ b \notin failure
  BY <1>2 DEF Stands, LedgerAt, EvidenceAt
<1>4. pointer = b  BY <1>3 DEF GZInv, Truth, PointerExplained
<1>5. ledger'[b] = "committed" => Stands(b, "pin")'
  BY <1>1, <1>3, <1>4 DEF Stands, LedgerAt, PointerAt, EvidenceAt, evidenceVars
<1> QED
  BY <1>1, <1>3, <1>4, <1>5, AppendedAt, States DEF Steps

LEMMA CompareKeeps == ASSUME GZInv, NEW b \in Bootstraps, Compare(b) PROVE GZInv'
<1>1. PICK q \in {"failed", "commit"}, r \in {"pass", "blocked", after[b]} :
         /\ Goto(q) /\ after' = [after EXCEPT ![b] = r] /\ r # "none"
  BY Zenon DEF Compare
<1>2. /\ At(b, "compare") /\ Touch(b)
      /\ UNCHANGED <<pointer, temps, ledger, pin, receipt, failure, root, before, stores,
                     kills, drifts>>
  BY DEF Compare, inspectVars
<1>3. Stands(b, "compare")  BY <1>2, Standing DEF Steps
<1>4. Stands(b, q)'
  BY <1>1, <1>2, <1>3 DEF Stands, LedgerAt, PointerAt, EvidenceAt, Open
<1>5. RunnerOK'  BY <1>1, <1>2, <1>4, GoneStanding DEF Steps
<1>6. InspectOK'  BY <1>2 DEF GZInv, InspectOK
<1>7. strangers' \subseteq Bootstraps  BY <1>2, TouchOK DEF GZInv, LedgersOK
<1>8. LedgersOK'  BY <1>1, <1>2, <1>7 DEF GZInv, LedgersOK
<1>9. PointerExplained'  BY <1>2 DEF GZInv, Truth, PointerExplained
<1>10. BootstrapEvidence'
  BY <1>1, <1>2 DEF GZInv, LedgersOK, Truth, BootstrapEvidence
<1> QED BY <1>5, <1>6, <1>8, <1>9, <1>10 DEF GZInv, Truth

(* A sidecar or a receipt written by the command for b, at a committed       *)
(* journal.                                                                  *)
LEMMA Evidenced ==
    ASSUME GZInv, NEW b \in Bootstraps, NEW p \in Steps, NEW q \in Steps, At(b, p), Goto(q),
           Touch(b), ledger[b] = "committed", b \notin failure,
           NEW w \in Written, NEW x \in Written,
           pin' = [pin EXCEPT ![b] = w], receipt' = [receipt EXCEPT ![b] = x],
           UNCHANGED <<pointer, temps, ledger, after, failure, root, before, stores, kills,
                       drifts>>,
           x # "none" => w = "pinned" /\ after[b] # "none",
           q \in {"pinned", "receipt", "receipted", "check"},
           q \in {"receipt", "receipted", "check"} => w = "pinned",
           q = "receipted" => x # "none"
    PROVE  GZInv'
<1>1. strangers' \subseteq Bootstraps  BY TouchOK DEF GZInv, LedgersOK
<1>2. LedgersOK'  BY <1>1 DEF GZInv, LedgersOK
<1>3. pin'[b] = w /\ receipt'[b] = x  BY DEF GZInv, LedgersOK
<1>4. Stands(b, q)'  BY <1>3 DEF Stands, LedgerAt, PointerAt, EvidenceAt
<1>5. RunnerOK'  BY <1>4, GoneStanding
<1>6. InspectOK'  BY DEF GZInv, InspectOK
<1>7. PointerExplained'  BY DEF GZInv, Truth, PointerExplained
<1>8. BootstrapEvidence'  BY <1>3 DEF GZInv, LedgersOK, Truth, BootstrapEvidence
<1> QED BY <1>2, <1>5, <1>6, <1>7, <1>8 DEF GZInv, Truth

LEMMA PinJournalKeeps == ASSUME GZInv, NEW b \in Bootstraps, PinJournal(b) PROVE GZInv'
<1>1. /\ Touch(b)
      /\ UNCHANGED <<pointer, temps, ledger, after, receipt, failure, root, before, stores,
                     kills, drifts>>
  BY DEF PinJournal, inspectVars
<1>2. receipt' = [receipt EXCEPT ![b] = receipt[b]] /\ receipt[b] \in Written
  BY <1>1 DEF GZInv, LedgersOK
<1>3. receipt[b] # "none" => pin[b] = "pinned" /\ after[b] # "none"
  BY DEF GZInv, Truth, BootstrapEvidence
<1>4. ASSUME NEW p \in {"pin", "pinned"}, At(b, p)
      PROVE  ledger[b] = "committed" /\ b \notin failure
  BY <1>4, Standing DEF Steps, Stands, LedgerAt, EvidenceAt
<1>5. CASE /\ At(b, "pin") /\ pin[b] = "none"
           /\ pin' = [pin EXCEPT ![b] = "torn"] /\ Goto("pinned")
  BY <1>1, <1>2, <1>3, <1>4, <1>5, Evidenced DEF Steps, Written
<1>6. CASE /\ At(b, "pin") /\ pin[b] = "pinned" /\ Goto("receipt") /\ UNCHANGED pin
  <2>1. pin' = [pin EXCEPT ![b] = "pinned"]  BY <1>6 DEF GZInv, LedgersOK
  <2> QED BY <1>1, <1>2, <1>3, <1>4, <1>6, <2>1, Evidenced DEF Steps, Written
<1>7. CASE /\ At(b, "pinned") /\ pin' = [pin EXCEPT ![b] = "pinned"] /\ Goto("receipt")
  BY <1>1, <1>2, <1>3, <1>4, <1>7, Evidenced DEF Steps, Written
<1> QED BY <1>5, <1>6, <1>7 DEF PinJournal

LEMMA WriteReceiptKeeps ==
    ASSUME GZInv, NEW b \in Bootstraps, WriteReceipt(b) PROVE GZInv'
<1>1. /\ Touch(b)
      /\ UNCHANGED <<pointer, temps, ledger, after, pin, failure, root, before, stores,
                     kills, drifts>>
  BY DEF WriteReceipt, inspectVars
<1>2. pin' = [pin EXCEPT ![b] = pin[b]] /\ pin[b] \in Written /\ receipt[b] \in Written
  BY <1>1 DEF GZInv, LedgersOK
<1>3. receipt[b] # "none" => after[b] # "none"
  BY DEF GZInv, Truth, BootstrapEvidence
<1>4. ASSUME NEW p \in {"receipt", "receipted"}, At(b, p)
      PROVE  /\ ledger[b] = "committed" /\ b \notin failure /\ pin[b] = "pinned"
             /\ p = "receipted" => receipt[b] # "none"
  BY <1>4, Standing DEF Steps, Stands, LedgerAt, EvidenceAt
<1>5. CASE /\ At(b, "receipt") /\ receipt[b] = "none" /\ after[b] # "none"
           /\ receipt' = [receipt EXCEPT ![b] = "torn"] /\ Goto("receipted")
  BY <1>1, <1>2, <1>4, <1>5, Evidenced DEF Steps, Written
<1>6. CASE /\ At(b, "receipt") /\ receipt[b] # "none" /\ runner.op = "recover"
           /\ Goto("check") /\ UNCHANGED receipt
  <2>1. receipt' = [receipt EXCEPT ![b] = receipt[b]]  BY <1>6 DEF GZInv, LedgersOK
  <2> QED BY <1>1, <1>2, <1>3, <1>4, <1>6, <2>1, Evidenced DEF Steps, Written
<1>7. CASE /\ At(b, "receipted")
           /\ receipt' = [receipt EXCEPT ![b] = "pinned"] /\ Goto("check")
  BY <1>1, <1>2, <1>3, <1>4, <1>7, Evidenced DEF Steps, Written
<1> QED BY <1>5, <1>6, <1>7 DEF WriteReceipt

(* The command ends. *)
LEMMA Ended ==
    ASSUME GZInv, runner' = NoRunner, InspectOK',
           UNCHANGED <<pointer, temps, strangers, ledger, after, pin, receipt, failure>>
    PROVE  GZInv'
<1>1. RunnerOK'  BY DEF RunnerOK
<1> QED BY <1>1, Elsewhere DEF GZInv, LedgersOK

LEMMA DoneKeeps == ASSUME GZInv, NEW b \in Bootstraps, Done(b) PROVE GZInv'
<1>1. /\ runner' = NoRunner
      /\ UNCHANGED <<pointer, temps, strangers, ledger, after, pin, receipt, failure, root,
                     before, stores, kills, drifts>>
  BY DEF Done, inspectVars, evidenceVars
<1>2. InspectOK'  BY <1>1 DEF GZInv, InspectOK
<1> QED BY <1>1, <1>2, Ended

-----------------------------------------------------------------------------
(* Failures. *)

LEMMA CommandFailsKeeps ==
    ASSUME GZInv, NEW b \in Bootstraps, CommandFails(b) PROVE GZInv'
<1>1. PICK p \in Steps \ {"failed", "compensate", "remove", "removed", "report"} : At(b, p)
  BY DEF CommandFails
<1>2. /\ ledger[b] \in Open /\ b \notin failure
  BY <1>1, Standing DEF Steps, Stands, LedgerAt, EvidenceAt, Open
<1>3. PICK x \in {"none", receipt[b]} : receipt' = [receipt EXCEPT ![b] = x]
  BY Zenon DEF CommandFails
<1>4. /\ UNCHANGED <<pointer, strangers, ledger, after, pin, failure, root, before, stores,
                     drifts>>
      /\ temps' \subseteq Bootstraps
  BY DEF CommandFails, inspectVars, GZInv, LedgersOK
<1>5. kills' \in 0..MaxKills
  BY BootstrapAssumption DEF CommandFails, GZInv, InspectOK
<1>6. InspectOK'  BY <1>4, <1>5 DEF GZInv, InspectOK
<1>7. LedgersOK'  BY <1>3, <1>4 DEF GZInv, LedgersOK, Written
<1>8. PointerExplained'  BY <1>4 DEF GZInv, Truth, PointerExplained
<1>9. BootstrapEvidence'
  BY <1>3, <1>4 DEF GZInv, LedgersOK, Truth, BootstrapEvidence
<1>10. runner' = NoRunner \/ runner' = Running("apply", b, "failed")
  BY Zenon DEF CommandFails
<1>11. Stands(b, "failed")'
  BY <1>2, <1>4 DEF Stands, LedgerAt, PointerAt, EvidenceAt
<1>12. RunnerOK'
  <2>1. CASE runner' = NoRunner  BY <2>1 DEF RunnerOK
  <2>2. CASE runner' = Running("apply", b, "failed")
    BY <2>2, <1>11, RunnerStarts DEF Steps
  <2> QED BY <1>10, <2>1, <2>2
<1> QED BY <1>6, <1>7, <1>8, <1>9, <1>12 DEF GZInv, Truth

LEMMA HandleKeeps == ASSUME GZInv, NEW b \in Bootstraps, Handle(b) PROVE GZInv'
<1>1. /\ At(b, "failed")
      /\ UNCHANGED <<pointer, temps, inspectVars, evidenceVars, stores, kills, drifts>>
  BY DEF Handle
<1>2. b \notin failure  BY <1>1, Standing DEF Steps, Stands, EvidenceAt
<1>3. CASE /\ ledger[b] # "committed" /\ pointer = b
           /\ ledger' = [ledger EXCEPT ![b] = "verification_failed"] /\ Touch(b)
           /\ Goto("compensate")
  <2>1. ledger'[b] = "verification_failed" => Stands(b, "compensate")'
    BY <1>1, <1>2, <1>3 DEF Stands, LedgerAt, PointerAt, EvidenceAt, evidenceVars
  <2> QED BY <1>1, <1>3, <2>1, AppendedAt, States DEF Steps
<1>4. CASE /\ ~(ledger[b] # "committed" /\ pointer = b)
           /\ runner' = IF ledger[b] = "committed" THEN NoRunner
                        ELSE Running("apply", b, "report")
           /\ UNCHANGED <<ledger, strangers>>
  <2>1. UNCHANGED <<pointer, temps, strangers, ledger, after, pin, receipt, failure, root,
                    before, stores, kills, drifts>>
    BY <1>1, <1>4 DEF inspectVars, evidenceVars
  <2>2. InspectOK'  BY <2>1 DEF GZInv, InspectOK
  <2>3. CASE ledger[b] = "committed"
    <3>1. runner' = NoRunner  BY <1>4, <2>3
    <3> QED BY <2>1, <2>2, <3>1, Ended
  <2>4. CASE ledger[b] # "committed"
    <3>1. runner' = Running("apply", b, "report")  BY <1>4, <2>4
    <3>2. Stands(b, "report")'
      BY <1>2, <1>4, <2>1, <2>4 DEF Stands, LedgerAt, PointerAt, EvidenceAt
    <3>3. RunnerOK'  BY <3>1, <3>2, RunnerStarts DEF Steps
    <3> QED BY <2>1, <2>2, <3>3, Elsewhere DEF GZInv, LedgersOK
  <2> QED BY <2>3, <2>4
<1> QED BY <1>3, <1>4 DEF Handle, AppendEvent

LEMMA CompensateKeeps == ASSUME GZInv, NEW b \in Bootstraps, Compensate(b) PROVE GZInv'
<1>1. /\ At(b, "compensate") /\ Goto("remove")
      /\ ledger' = [ledger EXCEPT ![b] = "compensating"] /\ Touch(b)
      /\ UNCHANGED <<pointer, temps, inspectVars, evidenceVars, stores, kills, drifts>>
  BY DEF Compensate, AppendEvent
<1>2. Stands(b, "compensate")  BY <1>1, Standing DEF Steps
<1>3. ledger[b] # "committed" /\ pointer = b /\ b \notin failure
  BY <1>2, BootstrapNames DEF Stands, LedgerAt, PointerAt, EvidenceAt
<1>4. ledger'[b] = "compensating" => Stands(b, "remove")'
  BY <1>1, <1>2, <1>3 DEF Stands, LedgerAt, PointerAt, EvidenceAt, evidenceVars
<1> QED
  BY <1>1, <1>3, <1>4, AppendedAt, States DEF Steps

LEMMA RemovePointerKeeps ==
    ASSUME GZInv, NEW b \in Bootstraps, RemovePointer(b) PROVE GZInv'
<1>1. /\ At(b, "remove") /\ Goto("removed") /\ pointer' = "none"
      /\ UNCHANGED <<temps, strangers, ledger, after, pin, receipt, failure, root, before,
                     stores, kills, drifts>>
  BY DEF RemovePointer, inspectVars, evidenceVars
<1>2. Stands(b, "remove")  BY <1>1, Standing DEF Steps
<1>3. pointer = b /\ ledger[b] = "compensating"
  BY <1>2 DEF Stands, LedgerAt, PointerAt
<1>4. Stands(b, "removed")'
  BY <1>1, <1>2 DEF Stands, LedgerAt, PointerAt, EvidenceAt
<1>5. RunnerOK'  BY <1>1, <1>4, GoneStanding DEF Steps
<1>6. InspectOK'  BY <1>1 DEF GZInv, InspectOK
<1>7. LedgersOK'  BY <1>1 DEF GZInv, LedgersOK
<1>8. PointerExplained'
  BY <1>1, <1>3, BootstrapNames DEF GZInv, Truth, PointerExplained
<1>9. BootstrapEvidence'
  BY <1>1, BootstrapNames DEF GZInv, Truth, BootstrapEvidence
<1> QED BY <1>5, <1>6, <1>7, <1>8, <1>9 DEF GZInv, Truth

LEMMA RolledBackKeeps == ASSUME GZInv, NEW b \in Bootstraps, RolledBack(b) PROVE GZInv'
<1>1. /\ At(b, "removed") /\ Goto("report")
      /\ ledger' = [ledger EXCEPT ![b] = "rolled_back"] /\ Touch(b)
      /\ UNCHANGED <<pointer, temps, inspectVars, evidenceVars, stores, kills, drifts>>
  BY DEF RolledBack, AppendEvent
<1>2. Stands(b, "removed")  BY <1>1, Standing DEF Steps
<1>3. ledger[b] # "committed" /\ pointer # b /\ b \notin failure
  BY <1>2, BootstrapNames DEF Stands, LedgerAt, PointerAt, EvidenceAt
<1>4. ledger'[b] = "rolled_back" => Stands(b, "report")'
  BY <1>1, <1>2, <1>3 DEF Stands, LedgerAt, PointerAt, EvidenceAt, evidenceVars
<1> QED
  BY <1>1, <1>3, <1>4, AppendedAt, States DEF Steps

LEMMA ReportFailureKeeps ==
    ASSUME GZInv, NEW b \in Bootstraps, ReportFailure(b) PROVE GZInv'
<1>1. /\ At(b, "report") /\ Touch(b) /\ runner' = NoRunner
      /\ failure' \in {failure, failure \cup {b}}
      /\ UNCHANGED <<pointer, temps, ledger, after, pin, receipt, root, before, stores, kills,
                     drifts>>
  BY DEF ReportFailure, inspectVars
<1>2. ledger[b] # "committed" /\ pointer # b
  BY <1>1, Standing DEF Steps, Stands, LedgerAt, PointerAt
<1>3. RunnerOK'  BY <1>1 DEF RunnerOK
<1>4. InspectOK'  BY <1>1 DEF GZInv, InspectOK
<1>5. strangers' \subseteq Bootstraps  BY <1>1, TouchOK DEF GZInv, LedgersOK
<1>6. LedgersOK'  BY <1>1, <1>5 DEF GZInv, LedgersOK
<1>7. PointerExplained'  BY <1>1 DEF GZInv, Truth, PointerExplained
<1>8. BootstrapEvidence'
  BY <1>1, <1>2 DEF GZInv, Truth, BootstrapEvidence
<1> QED BY <1>3, <1>4, <1>6, <1>7, <1>8 DEF GZInv, Truth

LEMMA KillKeeps == ASSUME GZInv, Kill PROVE GZInv'
<1>1. /\ runner' = NoRunner /\ kills' = kills + 1 /\ kills < MaxKills
      /\ UNCHANGED <<pointer, temps, strangers, ledger, after, pin, receipt, failure, root,
                     before, stores, drifts>>
  BY DEF Kill, inspectVars, evidenceVars
<1>2. kills' \in 0..MaxKills  BY <1>1, BootstrapAssumption DEF GZInv, InspectOK
<1>3. InspectOK'  BY <1>1, <1>2 DEF GZInv, InspectOK
<1> QED BY <1>1, <1>3, Ended

LEMMA DriftKeeps == ASSUME GZInv, Drift PROVE GZInv'
<1>1. /\ drifts' = drifts + 1 /\ drifts < MaxDrifts
      /\ UNCHANGED <<pointer, temps, strangers, ledger, after, pin, receipt, failure, root,
                     before, runner, kills>>
  BY DEF Drift, inspectVars, evidenceVars
<1>2. stores' \in Stores
  <2>1. \E s \in Stores : s # stores  BY DEF Stores
  <2>2. stores' = CHOOSE s \in Stores : s # stores  BY DEF Drift
  <2> QED BY <2>1, <2>2, Zenon
<1>3. drifts' \in 0..MaxDrifts  BY <1>1, BootstrapAssumption DEF GZInv, InspectOK
<1>4. InspectOK'  BY <1>1, <1>2, <1>3 DEF GZInv, InspectOK
<1>5. LedgersOK' /\ Truth'  BY <1>1, <1>4, Elsewhere DEF GZInv, LedgersOK
<1> QED BY <1>1, <1>4, <1>5, RunnerStays DEF GZInv

-----------------------------------------------------------------------------

LEMMA GZInvInit == ASSUME GZInit PROVE GZInv
<1>1. LedgersOK  BY States DEF GZInit, LedgersOK, Written
<1>2. InspectOK
  <2>1. kills \in 0..MaxKills /\ drifts \in 0..MaxDrifts
    BY BootstrapAssumption DEF GZInit
  <2> QED BY <2>1 DEF GZInit, InspectOK, Stores
<1>3. RunnerOK  BY DEF GZInit, RunnerOK
<1>4. Truth
  BY BootstrapNames DEF GZInit, Truth, PointerExplained, BootstrapEvidence
<1> QED BY <1>1, <1>2, <1>3, <1>4 DEF GZInv

LEMMA GZInvStep == ASSUME GZInv, [GZNext]_gzVars PROVE GZInv'
<1>1. ASSUME NEW b \in Bootstraps, CreatePointer(b) PROVE GZInv'
  BY <1>1, WriteTempKeeps, LinkKeeps, UnlinkTempKeeps, Zenon DEF CreatePointer
<1>2. ASSUME NEW b \in Bootstraps, Finish(b) PROVE GZInv'
  BY <1>2, JournalWrittenKeeps, VerifyKeeps, CompareKeeps, CommitKeeps, PinJournalKeeps,
     WriteReceiptKeeps, DoneKeeps, Zenon DEF Finish
<1>3. ASSUME NEW b \in Bootstraps, Fail(b) PROVE GZInv'
  BY <1>3, CommandFailsKeeps, HandleKeeps, CompensateKeeps, RemovePointerKeeps,
     RolledBackKeeps, ReportFailureKeeps, Zenon DEF Fail
<1>4. CASE UNCHANGED gzVars
  <2>1. UNCHANGED <<pointer, temps, strangers, ledger, after, pin, receipt, failure, root,
                    before, stores, runner, kills, drifts>>
    BY <1>4 DEF gzVars, inspectVars, evidenceVars
  <2>2. InspectOK'  BY <2>1 DEF GZInv, InspectOK
  <2>3. LedgersOK' /\ Truth'  BY <2>1, <2>2, Elsewhere DEF GZInv, LedgersOK
  <2> QED BY <2>1, <2>2, <2>3, RunnerStays DEF GZInv
<1> QED
  BY <1>1, <1>2, <1>3, <1>4, InspectKeeps, ApplyKeeps, RecoverKeeps, ActivateKeeps,
     KillKeeps, DriftKeeps, Zenon DEF GZNext

(* The files and the command keep their kinds. *)
LEMMA GZInvTypes == ASSUME GZInv PROVE GZTypeOK
<1>1. \/ runner = NoRunner
      \/ \E op \in {"apply", "recover"}, b \in Bootstraps, pc \in Steps :
            runner = Running(op, b, pc)
  BY DEF GZInv, RunnerOK, Runners, Running
<1> QED BY <1>1 DEF GZInv, LedgersOK, InspectOK, GZTypeOK

(* Whatever interrupts inspect, apply and recover, in whatever order the     *)
(* operator runs them for however many bootstraps, the pointer is the one    *)
(* the journals tell of (generation_zero.py, create_pointer_cas and          *)
(* bootstrap_journal).                                                       *)
THEOREM PointerSafety == GZSpec => []PointerExplained
<1>1. GZInit => GZInv  BY GZInvInit
<1>2. GZInv /\ [GZNext]_gzVars => GZInv'  BY GZInvStep
<1>3. GZInv => PointerExplained  BY DEF GZInv, Truth
<1> QED BY <1>1, <1>2, <1>3, PTL DEF GZSpec

(* And the files keep their kinds, a receipt is of a committed journal with  *)
(* its sidecar and its comparison, failure evidence of a bootstrap that did  *)
(* not commit and does not hold the pointer, and none has both.              *)
THEOREM EvidenceSafety == GZSpec => [](GZTypeOK /\ BootstrapEvidence)
<1>1. GZInit => GZInv  BY GZInvInit
<1>2. GZInv /\ [GZNext]_gzVars => GZInv'  BY GZInvStep
<1>3. GZInv => GZTypeOK /\ BootstrapEvidence  BY GZInvTypes DEF GZInv, Truth
<1> QED BY <1>1, <1>2, <1>3, PTL DEF GZSpec

-----------------------------------------------------------------------------
(* The wiki database: backup, import and restore.                          *)

Names == {"none", "backup", "restore", "import"}

BackupNames == {"backup", "restore"}

BackupPlaces == {"inventory", "dump", "again", "restored", "receipt"}
RestorePlaces == {"stop", "drop", "load", "loading", "verify", "start"}
ImportPlaces == {"compare", "schema", "empty", "commit"}
Places == {"none", "state", "check", "evidence"}
          \cup BackupPlaces \cup RestorePlaces \cup ImportPlaces

Tools == [name : Names, pc : Places, before : Databases, dump : Databases,
          installed : BOOLEAN]

WholeDbs == [pages : Contents, links : Contents, v3 : {"none", "empty", "full"}]

Saves(d) == \E r \in emergencies : r.dump = d

(* What holds of the tool under way: a backup whose restored copy compared   *)
(* equal has dumped what it inventoried; an import that has read the state   *)
(* has a database to write to; and the emergency backup of a restore is of   *)
(* the database it drops, unless a script wrote to it since.                 *)
Emergency(t) ==
    /\ t.pc \in {"again", "restored", "receipt"} => rewritten \/ t.dump = db
    /\ t.pc \in {"stop", "drop"} /\ Whole(db) => rewritten \/ Saves(db)
    /\ t.pc \in {"load", "loading"} => ~Whole(db)

ToolOK(t) ==
    /\ t \in Tools
    /\ t.pc = "receipt" => t.dump = t.before
    /\ t.pc \in BackupPlaces => t.name \in BackupNames
    /\ t.pc \in RestorePlaces => t.name = "restore"
    /\ t.pc \in ImportPlaces => Whole(db)
    /\ t.name = "restore" => Emergency(t)

FilesOK ==
    /\ db \in Databases /\ rollback \in Receipts /\ emergencies \subseteq Receipts
    /\ dropped \in Databases /\ rewritten \in BOOLEAN

OthersOK ==
    /\ backend \in {"up", "down"} /\ evidence \in {"none", "committed", "already_installed"}
    /\ refused \in BOOLEAN /\ mishaps \in 0 .. MaxMishaps

WikiInv == FilesOK /\ OthersOK /\ ReceiptsRestore /\ DroppedIsSaved /\ ToolOK(tool)

-----------------------------------------------------------------------------
(* A dropped or half loaded database is one of the two. *)
LEMMA Pages ==
    /\ Gone \in Databases /\ Half \in Databases /\ BaseDb \in Databases
    /\ ~Whole(Gone) /\ ~Whole(Half) /\ Whole(BaseDb)
    /\ \A d \in Databases : Whole(d) => d \in WholeDbs
    /\ \A d \in WholeDbs : d \in Databases /\ Whole(d)
  BY WikiAssumption DEF Gone, Half, BaseDb, Databases, WholeDbs, Whole, Contents

LEMMA Importables ==
    ASSUME NEW d \in Databases, Installed(d) \/ Importable(d) PROVE Whole(d)
  BY WikiAssumption DEF Installed, Importable, Whole, Gone, Half

(* A tool that goes on keeps what it read, *)
LEMMA GoesOn ==
    ASSUME NEW t \in Tools, NEW p \in Places
    PROVE  /\ [t EXCEPT !.pc = p] \in Tools
           /\ [t EXCEPT !.pc = p].pc = p
           /\ [t EXCEPT !.pc = p].name = t.name
           /\ [t EXCEPT !.pc = p].before = t.before
           /\ [t EXCEPT !.pc = p].dump = t.dump
  BY DEF Tools

(* and one that ends or starts has read nothing. *)
LEMMA Starts ==
    ASSUME NEW n \in Names, NEW p \in Places
    PROVE  /\ Idling \in Tools /\ Idling.pc = "none" /\ Idling.name = "none"
           /\ [Idling EXCEPT !.name = n, !.pc = p] \in Tools
           /\ [Idling EXCEPT !.name = n, !.pc = p].pc = p
           /\ [Idling EXCEPT !.name = n, !.pc = p].name = n
  BY Pages DEF Idling, Tools, Names, Places

LEMMA IdlingOK == ToolOK(Idling)
  BY Starts DEF ToolOK, BackupPlaces, BackupNames, RestorePlaces, ImportPlaces, Names, Places

(* What an action that leaves the files alone must show. *)
LEMMA Moves ==
    ASSUME WikiInv, ToolOK(tool'), OthersOK',
           UNCHANGED <<db, rollback, emergencies, dropped, rewritten>>
    PROVE  WikiInv'
<1>1. FilesOK'  BY DEF WikiInv, FilesOK, Receipts
<1>2. ReceiptsRestore' /\ DroppedIsSaved'
  BY DEF WikiInv, ReceiptsRestore, DroppedIsSaved, Whole
<1>3. ToolOK(tool)'
  BY DEF ToolOK, Emergency, Saves, Whole
<1> QED BY <1>1, <1>2, <1>3 DEF WikiInv

(* And so does one that only goes on. *)
LEMMA Onward ==
    ASSUME WikiInv, NEW p \in Places, tool' = [tool EXCEPT !.pc = p],
           p = "receipt" => tool.dump = tool.before,
           p \in BackupPlaces => tool.name \in BackupNames,
           p \in RestorePlaces => tool.name = "restore",
           p \in ImportPlaces => Whole(db),
           tool.name = "restore" =>
               /\ p \in {"again", "restored", "receipt"} => rewritten \/ tool.dump = db
               /\ p \in {"stop", "drop"} /\ Whole(db) => rewritten \/ Saves(db)
               /\ p \in {"load", "loading"} => ~Whole(db)
    PROVE  ToolOK(tool')
<1>1. tool \in Tools  BY DEF WikiInv, ToolOK
<1>2. /\ tool' \in Tools /\ tool'.pc = p /\ tool'.name = tool.name
      /\ tool'.dump = tool.dump /\ tool'.before = tool.before
  BY <1>1, GoesOn
<1>3. tool'.name = "restore" => Emergency(tool')
  BY <1>2 DEF Emergency
<1> QED BY <1>2, <1>3, Zenon DEF ToolOK

-----------------------------------------------------------------------------
(* Backups. *)

LEMMA StartBackupKeeps == ASSUME WikiInv, StartBackup PROVE WikiInv'
<1>1. tool' = [Idling EXCEPT !.name = "backup", !.pc = "inventory"]  BY DEF StartBackup
<1>2. ToolOK(tool')
  BY <1>1, Starts DEF ToolOK, BackupPlaces, BackupNames, RestorePlaces, ImportPlaces, Names, Places
<1> QED BY <1>2, Moves DEF StartBackup, WikiInv, OthersOK

LEMMA TakeInventoryKeeps == ASSUME WikiInv, TakeInventory PROVE WikiInv'
<1>1. PICK d \in Databases : d = db  BY DEF WikiInv, FilesOK
<1>2. tool' = Idling \/ tool' = [tool EXCEPT !.pc = "dump", !.before = d]
  BY <1>1 DEF TakeInventory, Ends
<1>3. tool \in Tools  BY DEF WikiInv, ToolOK
<1>4. ASSUME tool' = [tool EXCEPT !.pc = "dump", !.before = d] PROVE ToolOK(tool')
  <2>1. tool' \in Tools /\ tool'.pc = "dump" /\ tool'.name = tool.name
    BY <1>3, <1>4 DEF Tools, Places, BackupPlaces
  <2>2. tool.name \in BackupNames
    BY DEF WikiInv, ToolOK, TakeInventory, ToolAt, BackupPlaces
  <2>3. "dump" \notin RestorePlaces /\ "dump" \notin ImportPlaces
    BY DEF BackupPlaces, BackupNames, RestorePlaces, ImportPlaces
  <2>4. Emergency(tool')  BY <2>1 DEF Emergency
  <2> QED BY ONLY <2>1, <2>2, <2>3, <2>4 DEF ToolOK
<1>5. ToolOK(tool')  BY <1>2, <1>4, IdlingOK
<1> QED BY <1>5, Moves DEF TakeInventory, WikiInv, OthersOK

LEMMA TakeDumpKeeps == ASSUME WikiInv, TakeDump PROVE WikiInv'
<1>1. PICK d \in Databases : d = db  BY DEF WikiInv, FilesOK
<1>2. tool' = [tool EXCEPT !.pc = "again", !.dump = d]
  BY <1>1 DEF TakeDump
<1>3. tool \in Tools  BY DEF WikiInv, ToolOK
<1>4. tool' \in Tools /\ tool'.pc = "again" /\ tool'.dump = d /\ tool'.name = tool.name
  BY <1>2, <1>3 DEF Tools, Places, BackupPlaces
<1>5. ToolOK(tool')
  <2>1. tool.name \in BackupNames  BY DEF WikiInv, ToolOK, TakeDump, ToolAt, BackupPlaces
  <2>2. "again" \notin RestorePlaces /\ "again" \notin ImportPlaces
    BY DEF RestorePlaces, ImportPlaces
  <2>3. Emergency(tool')  BY <1>1, <1>4 DEF Emergency
  <2> QED BY ONLY <1>4, <2>1, <2>2, <2>3 DEF ToolOK
<1> QED BY <1>5, Moves DEF TakeDump, WikiInv, OthersOK

LEMMA CompareSourceKeeps == ASSUME WikiInv, CompareSource PROVE WikiInv'
<1>1. tool.pc = "again" /\ (tool' = [tool EXCEPT !.pc = "restored"] \/ tool' = Idling)
  BY Zenon DEF CompareSource, Ends, ToolAt
<1>2. /\ tool.name = "restore" => rewritten \/ tool.dump = db
      /\ tool.name \in BackupNames
  BY <1>1 DEF WikiInv, ToolOK, Emergency, BackupPlaces
<1>3. tool' = [tool EXCEPT !.pc = "restored"] => ToolOK(tool')
  BY <1>2, Onward DEF Places, BackupPlaces, BackupNames, RestorePlaces, ImportPlaces
<1>4. ToolOK(tool')  BY <1>1, <1>3, IdlingOK
<1> QED BY <1>4, Moves DEF CompareSource, WikiInv, OthersOK

LEMMA CompareRestoredKeeps == ASSUME WikiInv, CompareRestored PROVE WikiInv'
<1>1. /\ tool.pc = "restored"
      /\ \/ tool.dump = tool.before /\ tool' = [tool EXCEPT !.pc = "receipt"]
         \/ tool' = Idling
  BY Zenon DEF CompareRestored, Ends, ToolAt
<1>2. /\ tool.name = "restore" => rewritten \/ tool.dump = db
      /\ tool.name \in BackupNames
  BY <1>1 DEF WikiInv, ToolOK, Emergency, BackupPlaces
<1>3. tool.dump = tool.before /\ tool' = [tool EXCEPT !.pc = "receipt"] => ToolOK(tool')
  BY <1>2, Onward DEF Places, BackupPlaces, BackupNames, RestorePlaces, ImportPlaces
<1>4. ToolOK(tool')  BY <1>1, <1>3, IdlingOK
<1> QED BY <1>4, Moves DEF CompareRestored, WikiInv, OthersOK

(* The receipt is written of a dump that was compared. *)
LEMMA WriteBackupReceiptKeeps == ASSUME WikiInv, WriteBackupReceipt PROVE WikiInv'
<1> DEFINE backup == [inventory |-> tool.before, dump |-> tool.dump]
<1>1. tool.pc = "receipt" /\ tool \in Tools /\ tool.dump = tool.before
  BY DEF WriteBackupReceipt, ToolAt, WikiInv, ToolOK
<1>2. tool.dump \in Databases /\ tool.before \in Databases  BY <1>1 DEF Tools
<1>3. backup \in Receipts /\ backup.dump = backup.inventory /\ backup.dump = tool.dump
  BY <1>1, <1>2 DEF Receipts
<1>4. UNCHANGED <<db, backend, evidence, refused, dropped, rewritten, mishaps>>
  BY DEF WriteBackupReceipt
<1>5. OthersOK'  BY <1>4 DEF WikiInv, OthersOK
<1>6. CASE tool.name = "backup"
  <2>1. rollback' = backup /\ tool' = Idling /\ UNCHANGED emergencies
    BY <1>6 DEF WriteBackupReceipt, Ends
  <2>2. FilesOK'  BY <2>1, <1>3, <1>4 DEF WikiInv, FilesOK, Receipts
  <2>3. ReceiptsRestore'  BY <2>1, <1>3, Zenon DEF WikiInv, ReceiptsRestore
  <2>4. DroppedIsSaved'  BY <2>1, <1>4 DEF WikiInv, DroppedIsSaved, Whole
  <2>5. ToolOK(tool)'
    BY <2>1, Starts DEF ToolOK, BackupPlaces, BackupNames, RestorePlaces, ImportPlaces, Names, Places
  <2> QED BY <1>5, <2>2, <2>3, <2>4, <2>5 DEF WikiInv
<1>7. CASE tool.name # "backup"
  <2>1. /\ emergencies' = emergencies \cup {backup} /\ UNCHANGED rollback
        /\ tool' = [Idling EXCEPT !.name = "restore", !.pc = "stop"]
    BY <1>7 DEF WriteBackupReceipt
  <2>2. FilesOK'  BY <2>1, <1>3, <1>4 DEF WikiInv, FilesOK, Receipts
  <2>3. ReceiptsRestore'  BY <2>1, <1>3, Zenon DEF WikiInv, ReceiptsRestore
  <2>4. DroppedIsSaved'  BY <2>1, <1>4 DEF WikiInv, DroppedIsSaved, Whole
  <2>5. tool.name = "restore"
    BY <1>7, <1>1 DEF WikiInv, ToolOK, BackupNames, BackupPlaces
  <2>6. rewritten \/ tool.dump = db
    BY <1>1, <2>5 DEF WikiInv, ToolOK, Emergency
  <2>7. rewritten' \/ Saves(db)'
    BY <1>3, <1>4, <2>1, <2>6 DEF Saves
  <2>8. ToolOK(tool)'
    BY <2>1, <2>7, Starts DEF ToolOK, Emergency, BackupPlaces, BackupNames, RestorePlaces, ImportPlaces, Names, Places
  <2> QED BY <1>5, <2>2, <2>3, <2>4, <2>8 DEF WikiInv
<1> QED BY <1>6, <1>7

-----------------------------------------------------------------------------
(* Restores. *)

LEMMA StartRestoreKeeps == ASSUME WikiInv, StartRestore PROVE WikiInv'
<1>1. /\ tool' = [Idling EXCEPT !.name = "restore", !.pc = "inventory"]
      /\ refused' = FALSE /\ rewritten' = (rewritten /\ ~Whole(db))
      /\ UNCHANGED <<db, backend, rollback, emergencies, evidence, dropped, mishaps>>
  BY DEF StartRestore
<1>2. FilesOK' /\ OthersOK'  BY <1>1 DEF WikiInv, FilesOK, OthersOK, Receipts
<1>3. ReceiptsRestore'  BY <1>1 DEF WikiInv, ReceiptsRestore
<1>4. DroppedIsSaved'  BY <1>1 DEF WikiInv, DroppedIsSaved, Whole
<1>5. ToolOK(tool)'
  BY <1>1, Starts DEF ToolOK, Emergency, BackupPlaces, BackupNames, RestorePlaces,
                      ImportPlaces, Names, Places
<1> QED BY <1>2, <1>3, <1>4, <1>5 DEF WikiInv

(* A tool at a place of a restore is one. *)
LEMMA Restores ==
    ASSUME WikiInv, tool.pc \in RestorePlaces
    PROVE  tool \in Tools /\ tool.name = "restore" /\ Emergency(tool)
  BY DEF WikiInv, ToolOK

LEMMA StopBackendKeeps == ASSUME WikiInv, StopBackend PROVE WikiInv'
<1>1. tool.pc = "stop" /\ tool' = [tool EXCEPT !.pc = "drop"]
  BY DEF StopBackend, ToolAt
<1>2. tool.name = "restore" /\ Emergency(tool)
  BY <1>1, Restores DEF RestorePlaces
<1>3. Whole(db) => rewritten \/ Saves(db)  BY <1>1, <1>2 DEF Emergency
<1>4. ToolOK(tool')
  BY <1>1, <1>2, <1>3, Onward DEF Places, BackupPlaces, RestorePlaces, ImportPlaces
<1> QED BY <1>4, Moves DEF StopBackend, WikiInv, OthersOK

(* What is dropped is what the emergency backup holds, *)
LEMMA DropDatabaseKeeps == ASSUME WikiInv, DropDatabase PROVE WikiInv'
<1>1. /\ tool.pc = "drop" /\ tool' = [tool EXCEPT !.pc = "load"] /\ db' = Gone
      /\ dropped' = IF Whole(db) THEN db ELSE dropped
      /\ UNCHANGED <<backend, rollback, emergencies, evidence, refused, rewritten, mishaps>>
  BY DEF DropDatabase, ToolAt
<1>2. tool \in Tools /\ tool.name = "restore" /\ Emergency(tool)
  BY <1>1, Restores DEF RestorePlaces
<1>3. FilesOK' /\ OthersOK'
  BY <1>1, Pages DEF WikiInv, FilesOK, OthersOK, Receipts
<1>4. ReceiptsRestore'  BY <1>1 DEF WikiInv, ReceiptsRestore
<1>5. DroppedIsSaved'
  <2>1. CASE Whole(db)
    <3>1. rewritten \/ Saves(db)  BY <1>1, <1>2, <2>1 DEF Emergency
    <3> QED BY <1>1, <2>1, <3>1 DEF DroppedIsSaved, Saves
  <2>2. CASE ~Whole(db)
    BY <1>1, <2>2 DEF WikiInv, DroppedIsSaved
  <2> QED BY <2>1, <2>2
<1>6. ToolOK(tool)'
  <2>1. tool' \in Tools /\ tool'.pc = "load" /\ tool'.name = "restore"
    BY <1>1, <1>2, GoesOn DEF Places, RestorePlaces
  <2>2. ~Whole(db')  BY <1>1, Pages DEF Whole
  <2> QED BY <2>1, <2>2 DEF ToolOK, Emergency, BackupPlaces, RestorePlaces, ImportPlaces, Whole
<1> QED BY <1>3, <1>4, <1>5, <1>6 DEF WikiInv

(* and stays what it holds while the tables are loaded, *)
LEMMA LoadFirstTablesKeeps == ASSUME WikiInv, LoadFirstTables PROVE WikiInv'
<1>1. /\ tool.pc = "load" /\ tool' = [tool EXCEPT !.pc = "loading"] /\ db' = Half
      /\ UNCHANGED <<backend, rollback, emergencies, evidence, refused, dropped, rewritten,
                     mishaps>>
  BY DEF LoadFirstTables, ToolAt
<1>2. tool \in Tools /\ tool.name = "restore" /\ Emergency(tool)
  BY <1>1, Restores DEF RestorePlaces
<1>3. FilesOK' /\ OthersOK'
  BY <1>1, Pages DEF WikiInv, FilesOK, OthersOK, Receipts
<1>4. ReceiptsRestore'  BY <1>1 DEF WikiInv, ReceiptsRestore
<1>5. ~Whole(db)  BY <1>1, <1>2 DEF Emergency
<1>6. DroppedIsSaved'  BY <1>1, <1>5 DEF WikiInv, DroppedIsSaved
<1>7. ToolOK(tool)'
  <2>1. tool' \in Tools /\ tool'.pc = "loading" /\ tool'.name = "restore"
    BY <1>1, <1>2, GoesOn DEF Places, RestorePlaces
  <2>2. ~Whole(db')  BY <1>1, Pages DEF Whole
  <2> QED BY <2>1, <2>2 DEF ToolOK, Emergency, BackupPlaces, RestorePlaces, ImportPlaces, Whole
<1> QED BY <1>3, <1>4, <1>6, <1>7 DEF WikiInv

(* until they all are. *)
LEMMA LoadOtherTablesKeeps == ASSUME WikiInv, LoadOtherTables PROVE WikiInv'
<1>1. /\ tool.pc = "loading" /\ tool' = [tool EXCEPT !.pc = "verify"] /\ db' = rollback.dump
      /\ UNCHANGED <<backend, rollback, emergencies, evidence, refused, dropped, rewritten,
                     mishaps>>
  BY DEF LoadOtherTables, ToolAt
<1>2. tool \in Tools /\ tool.name = "restore" /\ Emergency(tool)
  BY <1>1, Restores DEF RestorePlaces
<1>3. FilesOK' /\ OthersOK'
  BY <1>1 DEF WikiInv, FilesOK, OthersOK, Receipts
<1>4. ReceiptsRestore'  BY <1>1 DEF WikiInv, ReceiptsRestore
<1>5. ~Whole(db)  BY <1>1, <1>2 DEF Emergency
<1>6. DroppedIsSaved'  BY <1>1, <1>5 DEF WikiInv, DroppedIsSaved
<1>7. ToolOK(tool)'
  <2>1. tool' \in Tools /\ tool'.pc = "verify" /\ tool'.name = "restore"
    BY <1>1, <1>2, GoesOn DEF Places, RestorePlaces
  <2> QED BY <2>1 DEF ToolOK, Emergency, BackupPlaces, RestorePlaces, ImportPlaces
<1> QED BY <1>3, <1>4, <1>6, <1>7 DEF WikiInv

LEMMA VerifyRestoredKeeps == ASSUME WikiInv, VerifyRestored PROVE WikiInv'
<1>1. tool.pc = "verify" /\ (tool' = [tool EXCEPT !.pc = "start"] \/ tool' = Idling)
  BY Zenon DEF VerifyRestored, Ends, ToolAt
<1>2. tool.name = "restore"  BY <1>1, Restores DEF RestorePlaces
<1>3. tool' = [tool EXCEPT !.pc = "start"] => ToolOK(tool')
  BY <1>2, Onward DEF Places, BackupPlaces, RestorePlaces, ImportPlaces
<1>4. ToolOK(tool')  BY <1>1, <1>3, IdlingOK
<1> QED BY <1>4, Moves DEF VerifyRestored, WikiInv, OthersOK

LEMMA StartBackendKeeps == ASSUME WikiInv, StartBackend PROVE WikiInv'
  BY IdlingOK, Moves DEF StartBackend, Ends, WikiInv, OthersOK

-----------------------------------------------------------------------------
(* Imports. *)

LEMMA StartImportKeeps == ASSUME WikiInv, StartImport PROVE WikiInv'
<1>1. tool' = [Idling EXCEPT !.name = "import", !.pc = "state"]  BY DEF StartImport
<1>2. ToolOK(tool')
  BY <1>1, Starts DEF ToolOK, BackupPlaces, RestorePlaces, ImportPlaces, Names, Places
<1> QED BY <1>2, Moves DEF StartImport, WikiInv, OthersOK

LEMMA ReadStateKeeps == ASSUME WikiInv, ReadState PROVE WikiInv'
<1>1. PICK i \in BOOLEAN : i = Installed(db)  BY Zenon DEF Installed
<1>2. /\ tool.pc = "state"
      /\ \/ tool' = [tool EXCEPT !.pc = "compare", !.installed = i] /\ Whole(db)
         \/ tool' = Idling
  <2>1. Installed(db) \/ Importable(db) => Whole(db)
    BY Importables DEF WikiInv, FilesOK
  <2> QED BY <1>1, <2>1, Zenon DEF ReadState, Ends, Refuse, ToolAt
<1>3. ASSUME tool' = [tool EXCEPT !.pc = "compare", !.installed = i], Whole(db)
      PROVE  ToolOK(tool')
  <2>1. tool \in Tools  BY DEF WikiInv, ToolOK
  <2>2. tool' \in Tools /\ tool'.pc = "compare"
    BY <2>1, <1>3 DEF Tools, Places, ImportPlaces
  <2> QED BY <2>2, <1>3 DEF ToolOK, Emergency, BackupPlaces, RestorePlaces
<1>4. ToolOK(tool')  BY <1>2, <1>3, IdlingOK
<1> QED BY <1>4, Moves DEF ReadState, Refuse, WikiInv, OthersOK

(* A tool at a place of an import has a database. *)
LEMMA Imports ==
    ASSUME WikiInv, tool.pc \in ImportPlaces PROVE tool \in Tools /\ Whole(db)
  BY DEF WikiInv, ToolOK

LEMMA ReadInventoryKeeps == ASSUME WikiInv, ReadInventory PROVE WikiInv'
<1>1. /\ tool.pc = "compare"
      /\ \/ tool' = [tool EXCEPT !.pc = "schema"] \/ tool' = [tool EXCEPT !.pc = "evidence"]
         \/ tool' = Idling
  BY Zenon DEF ReadInventory, Ends, Refuse, ToolAt
<1>2. Whole(db)  BY <1>1, Imports DEF ImportPlaces
<1>3. tool' = [tool EXCEPT !.pc = "schema"] => ToolOK(tool')
  BY <1>2, Onward DEF Places, BackupPlaces, RestorePlaces, ImportPlaces
<1>4. tool' = [tool EXCEPT !.pc = "evidence"] => ToolOK(tool')
  BY Onward DEF Places, BackupPlaces, RestorePlaces, ImportPlaces
<1>5. ToolOK(tool')  BY <1>1, <1>3, <1>4, IdlingOK
<1> QED BY <1>5, Moves DEF ReadInventory, Refuse, WikiInv, OthersOK

(* What an import or a script writes leaves a whole database. *)
LEMMA Writes ==
    ASSUME WikiInv, Whole(db), db' \in WholeDbs, ToolOK(tool)', OthersOK',
           rewritten' \in BOOLEAN, UNCHANGED <<rollback, emergencies, dropped>>
    PROVE  WikiInv'
<1>1. db' \in Databases /\ Whole(db')  BY Pages
<1>2. Whole(db)'  BY <1>1 DEF Whole
<1>3. FilesOK'  BY <1>1 DEF WikiInv, FilesOK, Receipts
<1>4. ReceiptsRestore'  BY DEF WikiInv, ReceiptsRestore
<1> QED BY <1>2, <1>3, <1>4 DEF WikiInv, DroppedIsSaved

LEMMA InstallSchemaKeeps == ASSUME WikiInv, InstallSchema PROVE WikiInv'
<1>1. /\ tool.pc = "schema" /\ tool' = [tool EXCEPT !.pc = "empty"]
      /\ db' = IF db.v3 = "none" THEN [db EXCEPT !.v3 = "empty"] ELSE db
      /\ UNCHANGED <<backend, rollback, emergencies, evidence, refused, dropped, rewritten,
                     mishaps>>
  BY DEF InstallSchema, ToolAt
<1>2. tool \in Tools /\ Whole(db)  BY <1>1, Imports DEF ImportPlaces
<1>3. db \in WholeDbs  BY <1>2, Pages DEF WikiInv, FilesOK
<1>4. db' \in WholeDbs  BY <1>1, <1>3 DEF WholeDbs
<1>5. Whole(db)'  BY <1>4, Pages DEF Whole
<1>6. tool' \in Tools /\ tool'.pc = "empty" /\ tool'.name = tool.name
  BY <1>1, <1>2, GoesOn DEF Places, ImportPlaces
<1>7. ToolOK(tool)'
  BY <1>5, <1>6 DEF ToolOK, Emergency, BackupPlaces, RestorePlaces
<1>8. OthersOK' /\ rewritten' \in BOOLEAN  BY <1>1 DEF WikiInv, OthersOK, FilesOK
<1> QED BY <1>1, <1>2, <1>4, <1>7, <1>8, Writes

LEMMA CheckEmptyKeeps == ASSUME WikiInv, CheckEmpty PROVE WikiInv'
<1>1. tool.pc = "empty" /\ (tool' = [tool EXCEPT !.pc = "commit"] \/ tool' = Idling)
  BY Zenon DEF CheckEmpty, Ends, Refuse, ToolAt
<1>2. Whole(db)  BY <1>1, Imports DEF ImportPlaces
<1>3. tool' = [tool EXCEPT !.pc = "commit"] => ToolOK(tool')
  BY <1>2, Onward DEF Places, BackupPlaces, RestorePlaces, ImportPlaces
<1>4. ToolOK(tool')  BY <1>1, <1>3, IdlingOK
<1> QED BY <1>4, Moves DEF CheckEmpty, Refuse, WikiInv, OthersOK

LEMMA CommitImportKeeps == ASSUME WikiInv, CommitImport PROVE WikiInv'
<1>1. CASE db.v3 = "none"
  <2>1. tool' = Idling  BY <1>1, Zenon DEF CommitImport, Ends, Refuse
  <2>2. ToolOK(tool')  BY <2>1, IdlingOK
  <2> QED BY <1>1, <2>2, Moves DEF CommitImport, Refuse, WikiInv, OthersOK
<1>2. CASE db.v3 # "none"
  <2>1. /\ tool.pc = "commit" /\ tool' = [tool EXCEPT !.pc = "check"]
        /\ db' = [db EXCEPT !.pages = Target, !.v3 = "full"]
        /\ UNCHANGED <<backend, rollback, emergencies, evidence, refused, dropped, rewritten,
                       mishaps>>
    BY <1>2 DEF CommitImport, ToolAt
  <2>2. tool \in Tools /\ Whole(db)  BY <2>1, Imports DEF ImportPlaces
  <2>3. db \in WholeDbs  BY <2>2, Pages DEF WikiInv, FilesOK
  <2>4. db' \in WholeDbs  BY <2>1, <2>3 DEF WholeDbs, Contents
  <2>5. tool' \in Tools /\ tool'.pc = "check" /\ tool'.name = tool.name
    BY <2>1, <2>2, GoesOn DEF Places
  <2>6. ToolOK(tool)'
    BY <2>5 DEF ToolOK, Emergency, BackupPlaces, RestorePlaces, ImportPlaces
  <2>7. OthersOK' /\ rewritten' \in BOOLEAN  BY <2>1 DEF WikiInv, OthersOK, FilesOK
  <2> QED BY <2>1, <2>2, <2>4, <2>6, <2>7, Writes
<1> QED BY <1>1, <1>2

LEMMA CheckImportKeeps == ASSUME WikiInv, CheckImport PROVE WikiInv'
<1>1. tool.pc = "check" /\ (tool' = [tool EXCEPT !.pc = "evidence"] \/ tool' = Idling)
  BY Zenon DEF CheckImport, Ends, Refuse, ToolAt
<1>3. tool' = [tool EXCEPT !.pc = "evidence"] => ToolOK(tool')
  BY Onward DEF Places, BackupPlaces, RestorePlaces, ImportPlaces
<1>4. ToolOK(tool')  BY <1>1, <1>3, IdlingOK
<1> QED BY <1>4, Moves DEF CheckImport, Refuse, WikiInv, OthersOK

LEMMA WriteEvidenceKeeps == ASSUME WikiInv, WriteEvidence PROVE WikiInv'
<1>1. tool' = Idling  BY Zenon DEF WriteEvidence, Refuse, Ends
<1>2. ToolOK(tool')  BY <1>1, IdlingOK
<1>3. OthersOK'  BY DEF WriteEvidence, Refuse, WikiInv, OthersOK
<1> QED BY <1>2, <1>3, Moves DEF WriteEvidence

-----------------------------------------------------------------------------
(* The world around the tools. *)

LEMMA StopToolKeeps == ASSUME WikiInv, StopTool PROVE WikiInv'
<1>1. mishaps' \in 0 .. MaxMishaps  BY WikiAssumption DEF StopTool, WikiInv, OthersOK
<1> QED BY <1>1, IdlingOK, Moves DEF StopTool, Ends, WikiInv, OthersOK

(* A script that writes during a restore is remembered. *)
LEMMA ScriptWrites ==
    ASSUME WikiInv, Whole(db), db' \in WholeDbs, mishaps < MaxMishaps,
           mishaps' = mishaps + 1, rewritten' = (rewritten \/ tool.name = "restore"),
           UNCHANGED <<backend, rollback, emergencies, evidence, tool, refused, dropped>>
    PROVE  WikiInv'
<1>1. Whole(db)'  BY Pages DEF Whole
<1>2. mishaps' \in 0 .. MaxMishaps
  BY WikiAssumption DEF WikiInv, OthersOK
<1>3. OthersOK'  BY <1>2 DEF WikiInv, OthersOK
<1>4. tool.name = "restore" => tool.pc \notin {"load", "loading"}
  BY DEF WikiInv, ToolOK, Emergency
<1>5. ToolOK(tool)'
  BY <1>1, <1>4 DEF WikiInv, ToolOK, Emergency
<1>6. rewritten' \in BOOLEAN  BY DEF WikiInv, FilesOK
<1> QED BY <1>3, <1>5, <1>6, Writes

LEMMA ScriptImportKeeps ==
    ASSUME WikiInv, NEW c \in Contents, ScriptImport(c) PROVE WikiInv'
<1>1. Whole(db) /\ db' \in {[db EXCEPT !.pages = Target, !.v3 = "full"],
                            [db EXCEPT !.pages = c, !.links = c]}
  BY Zenon DEF ScriptImport
<1>2. db \in WholeDbs  BY <1>1, Pages DEF WikiInv, FilesOK
<1>3. db' \in WholeDbs  BY <1>1, <1>2 DEF WholeDbs, Contents
<1> QED BY <1>3, ScriptWrites DEF ScriptImport

LEMMA ScriptTablesKeeps == ASSUME WikiInv, ScriptTables PROVE WikiInv'
<1>1. Whole(db) /\ db' \in {[db EXCEPT !.v3 = "none"], [db EXCEPT !.v3 = "empty"]}
  BY DEF ScriptTables
<1>2. db \in WholeDbs  BY <1>1, Pages DEF WikiInv, FilesOK
<1>3. db' \in WholeDbs  BY <1>1, <1>2 DEF WholeDbs
<1> QED BY <1>3, ScriptWrites DEF ScriptTables

-----------------------------------------------------------------------------
LEMMA WikiInvInit == ASSUME WikiInit PROVE WikiInv
<1>1. FilesOK  BY Pages DEF WikiInit, FilesOK, NoReceipt, Receipts
<1>2. OthersOK
  <2>1. mishaps \in 0 .. MaxMishaps  BY WikiAssumption DEF WikiInit
  <2>2. refused \in BOOLEAN  BY DEF WikiInit
  <2> QED BY <2>1, <2>2 DEF WikiInit, OthersOK
<1>3. ReceiptsRestore  BY DEF WikiInit, ReceiptsRestore, NoReceipt
<1>4. DroppedIsSaved  BY Pages DEF WikiInit, DroppedIsSaved
<1>5. ToolOK(tool)
  <2>1. tool = Idling  BY DEF WikiInit
  <2> QED BY ONLY <2>1, IdlingOK DEF ToolOK, Emergency, Saves
<1> QED BY <1>1, <1>2, <1>3, <1>4, <1>5 DEF WikiInv

LEMMA WikiInvStep == ASSUME WikiInv, [WikiNext]_wikiVars PROVE WikiInv'
<1>1. CASE Backup
  BY <1>1, StartBackupKeeps, TakeInventoryKeeps, TakeDumpKeeps, CompareSourceKeeps,
     CompareRestoredKeeps, WriteBackupReceiptKeeps, Zenon DEF Backup
<1>2. CASE Restore
  BY <1>2, StartRestoreKeeps, StopBackendKeeps, DropDatabaseKeeps, LoadFirstTablesKeeps,
     LoadOtherTablesKeeps, VerifyRestoredKeeps, StartBackendKeeps, Zenon DEF Restore
<1>3. CASE Import
  BY <1>3, StartImportKeeps, ReadStateKeeps, ReadInventoryKeeps, InstallSchemaKeeps,
     CheckEmptyKeeps, CommitImportKeeps, CheckImportKeeps, WriteEvidenceKeeps, Zenon
  DEF Import
<1>4. CASE StopTool  BY <1>4, StopToolKeeps
<1>5. CASE \E c \in Contents : ScriptImport(c)  BY <1>5, ScriptImportKeeps
<1>6. CASE ScriptTables  BY <1>6, ScriptTablesKeeps
<1>7. CASE UNCHANGED wikiVars
  <2>1. UNCHANGED <<db, rollback, emergencies, dropped, rewritten, tool, backend, evidence,
                    refused, mishaps>>
    BY <1>7 DEF wikiVars
  <2>2. ToolOK(tool')  BY <2>1 DEF WikiInv
  <2>3. OthersOK'  BY <2>1 DEF WikiInv, OthersOK
  <2> QED BY <2>1, <2>2, <2>3, Moves
<1> QED BY <1>1, <1>2, <1>3, <1>4, <1>5, <1>6, <1>7, Zenon DEF WikiNext

(* The variables of the import and the restore keep their kinds. *)
LEMMA WikiInvTypes == ASSUME WikiInv PROVE WikiTypeOK
  BY DEF WikiInv, FilesOK, OthersOK, ToolOK, Tools, Names, WikiTypeOK

(* The inductive invariant: what each tool has compared or written at its    *)
(* place (_build_verified_backup, execute_production_restore, the import).   *)
THEOREM WikiInvariant == WikiSpec => []WikiInv
<1>1. WikiInit => WikiInv  BY WikiInvInit
<1>2. WikiInv /\ [WikiNext]_wikiVars => WikiInv'  BY WikiInvStep
<1> QED BY <1>1, <1>2, PTL DEF WikiSpec

(* Every receipt restores what its inventory says, in every reachable state  *)
(* of backups, imports and restores (mysql_rollback.py, formal_import.py).   *)
THEOREM ReceiptSafety == WikiSpec => [](WikiTypeOK /\ ReceiptsRestore)
<1>1. WikiInv => WikiTypeOK /\ ReceiptsRestore  BY WikiInvTypes DEF WikiInv
<1> QED BY <1>1, WikiInvariant, PTL

(* While a restore leaves no whole database an emergency receipt holds the   *)
(* one it dropped, unless a script wrote to it in between: whatever fails,   *)
(* and however often execute_production_restore is run again.                *)
THEOREM DroppedSafety == WikiSpec => []DroppedIsSaved
<1>1. WikiInv => DroppedIsSaved  BY DEF WikiInv
<1> QED BY <1>1, WikiInvariant, PTL

-----------------------------------------------------------------------------
(* The publication of the images.                                          *)

\* A run under way, or none.
Jobs ==
    [pc : 0..15, build : Builds \cup {"absent"}, failures : 0..MaxTransient,
     unsure : BOOLEAN, deferred : SUBSET Images]

(* What the place of a publication says of the registries: they were empty   *)
(* before it, there is no manifest of another, and no backfill; a copy it is *)
(* unsure of is its own.                                                     *)
PublishOK(j) ==
    /\ j.pc # 0 => j.build \in Builds
    /\ j.pc = 0 => j.deferred = {}
    /\ j.deferred # {} => j.pc \in {7, 8, 9, 10, 15}
    /\ j.deferred \in {{}, {"frontend"}, Images}
    /\ j.deferred = {"frontend"} => j.pc = 15
    /\ j.unsure => j.pc \in {11, 13}
    /\ j.pc >= 3 => manifests = {}
    /\ j.pc \in 3..7 => tag["tcr"]["backend"] = "absent"
    /\ j.pc \in 4..9 => tag["tcr"]["frontend"] = "absent"
    /\ j.pc >= 8 => tag["tcr"]["backend"] = j.build
    /\ j.pc >= 10 => tag["tcr"]["frontend"] = j.build
    /\ j.pc \in 6..11 /\ j.deferred = {} =>
          tag["ghcr"]["backend"] = "absent" \/ (j.unsure /\ tag["ghcr"]["backend"] = j.build)
    /\ j.pc \in 7..13 /\ j.deferred = {} =>
          \/ tag["ghcr"]["frontend"] = "absent"
          \/ j.unsure /\ j.pc = 13 /\ tag["ghcr"]["frontend"] = j.build
    /\ j.pc >= 12 /\ "backend" \notin j.deferred => tag["ghcr"]["backend"] = j.build
    /\ j.pc >= 14 /\ "frontend" \notin j.deferred => tag["ghcr"]["frontend"] = j.build

(* A backfill is of a build with a manifest, so no publication gets past its *)
(* preflight beside it.                                                      *)
BackfillOK(j) ==
    /\ j.pc # 0 => \E m \in manifests : m.build = j.build
    /\ j.pc <= 13
    /\ j.unsure => j.pc \in {6, 9}
    /\ j.pc = 6 => tag["ghcr"]["backend"] = "absent"
                     \/ (j.unsure /\ tag["ghcr"]["backend"] = j.build)
    /\ j.pc >= 7 => tag["ghcr"]["backend"] = j.build
    /\ j.pc = 9 => tag["ghcr"]["frontend"] = "absent"
                     \/ (j.unsure /\ tag["ghcr"]["frontend"] = j.build)
    /\ j.pc >= 10 => tag["ghcr"]["frontend"] = j.build

PublicationInv ==
    /\ PublicationTypeOK /\ ReleasesHold
    /\ PublishOK(job["publish"]) /\ BackfillOK(job["backfill"])

\* The scripts, step by step.
LEMMA PublishingSteps ==
    /\ Publishing[1] = Step("login", "tcr", "none")
    /\ Publishing[2] = Step("absent", "tcr", "backend")
    /\ Publishing[3] = Step("absent", "tcr", "frontend")
    /\ Publishing[4] = Step("login", "ghcr", "none")
    /\ Publishing[5] = Step("absent", "ghcr", "backend")
    /\ Publishing[6] = Step("absent", "ghcr", "frontend")
    /\ Publishing[7] = Step("copy", "tcr", "backend")
    /\ Publishing[8] = Step("verify", "tcr", "backend")
    /\ Publishing[9] = Step("copy", "tcr", "frontend")
    /\ Publishing[10] = Step("verify", "tcr", "frontend")
    /\ Publishing[11] = Step("copy", "ghcr", "backend")
    /\ Publishing[12] = Step("verify", "ghcr", "backend")
    /\ Publishing[13] = Step("copy", "ghcr", "frontend")
    /\ Publishing[14] = Step("verify", "ghcr", "frontend")
    /\ Publishing[15] = Step("write", "none", "none")
  BY DEF Publishing, LogIn, Both, CopyAndVerify, Recorded

LEMMA BackfillingSteps ==
    /\ Backfilling[1] = Step("login", "tcr", "none")
    /\ Backfilling[2] = Step("login", "ghcr", "none")
    /\ Backfilling[3] = Step("source", "tcr", "backend")
    /\ Backfilling[4] = Step("source", "tcr", "frontend")
    /\ Backfilling[5] = Step("ensure", "ghcr", "backend")
    /\ Backfilling[6] = Step("copy", "ghcr", "backend")
    /\ Backfilling[7] = Step("verify", "ghcr", "backend")
    /\ Backfilling[8] = Step("ensure", "ghcr", "frontend")
    /\ Backfilling[9] = Step("copy", "ghcr", "frontend")
    /\ Backfilling[10] = Step("verify", "ghcr", "frontend")
    /\ Backfilling[11] = Step("final", "ghcr", "backend")
    /\ Backfilling[12] = Step("final", "ghcr", "frontend")
    /\ Backfilling[13] = Step("write", "none", "none")
  BY DEF Backfilling, LogIn, Both, CopyAndVerify, Recorded

\* The types, with the lengths of the scripts as numbers.
LEMMA PublicationTypes ==
    PublicationTypeOK <=>
        /\ tag \in [Registries -> [Images -> Builds \cup {"absent"}]]
        /\ job \in [Workflows -> Jobs]
        /\ manifests \subseteq [build : Builds, deferred : SUBSET Images]
        /\ attested \subseteq Builds /\ outages \in 0..MaxOutages
  BY DEF PublicationTypeOK, Jobs, Publishing, LogIn, Both, CopyAndVerify, Recorded

LEMMA PublicationTypesNext ==
    PublicationTypeOK' <=>
        /\ tag' \in [Registries -> [Images -> Builds \cup {"absent"}]]
        /\ job' \in [Workflows -> Jobs]
        /\ manifests' \subseteq [build : Builds, deferred : SUBSET Images]
        /\ attested' \subseteq Builds /\ outages' \in 0..MaxOutages
  BY DEF PublicationTypeOK, Jobs, Publishing, LogIn, Both, CopyAndVerify, Recorded

LEMMA NamesOfImages ==
    /\ "tcr" \in Registries /\ "ghcr" \in Registries
    /\ "backend" \in Images /\ "frontend" \in Images
    /\ "publish" \in Workflows /\ "backfill" \in Workflows
    /\ \A i \in Images : i = "backend" \/ i = "frontend"
    /\ \A r \in Registries : r = "tcr" \/ r = "ghcr"
    /\ \A w \in Workflows : w = "publish" \/ w = "backfill"
  BY DEF Registries, Images, Workflows

\* What a step of a script gives to do.
LEMMA StepFields ==
    ASSUME NEW do, NEW registry, NEW image
    PROVE  /\ Step(do, registry, image).do = do
           /\ Step(do, registry, image).at = registry
           /\ Step(do, registry, image).of = image
  BY DEF Step

\* The places of a publication, by what is done there.
LEMMA PublishCommands ==
    ASSUME job \in [Workflows -> Jobs], NEW j \in Jobs, j = job["publish"], j.pc # 0
    PROVE  /\ Doing("publish").do = "login" => j.pc \in {1, 4}
           /\ Doing("publish").do = "absent" => j.pc \in {2, 3, 5, 6}
           /\ Doing("publish").do = "copy" => j.pc \in {7, 9, 11, 13}
           /\ Doing("publish").do = "verify" => j.pc \in {8, 10, 12, 14}
           /\ Doing("publish").do = "write" <=> j.pc = 15
           /\ Doing("publish").do \notin {"source", "final", "ensure"}
           /\ j.pc \in {1, 2, 3, 7, 8, 9, 10} => Doing("publish").at = "tcr"
           /\ j.pc \in {4, 5, 6, 11, 12, 13, 14} => Doing("publish").at = "ghcr"
           /\ j.pc \in {2, 5, 7, 8, 11, 12} => Doing("publish").of = "backend"
           /\ j.pc \in {3, 6, 9, 10, 13, 14} => Doing("publish").of = "frontend"
           /\ j.pc \in {7, 9, 11, 13} => Doing("publish").do = "copy"
<1>1. Doing("publish") = Publishing[j.pc]
  BY DEF Doing, Script
<1>2. \/ j.pc = 1 \/ j.pc = 2 \/ j.pc = 3 \/ j.pc = 4 \/ j.pc = 5 \/ j.pc = 6 \/ j.pc = 7
      \/ j.pc = 8 \/ j.pc = 9 \/ j.pc = 10 \/ j.pc = 11 \/ j.pc = 12 \/ j.pc = 13
      \/ j.pc = 14 \/ j.pc = 15
  BY DEF Jobs
<1> QED
  BY <1>1, <1>2, PublishingSteps, StepFields

LEMMA BackfillCommands ==
    ASSUME job \in [Workflows -> Jobs], NEW j \in Jobs, j = job["backfill"],
           j.pc \in 1..13
    PROVE  /\ Doing("backfill").do = "login" => j.pc \in {1, 2}
           /\ Doing("backfill").do = "source" => j.pc \in {3, 4}
           /\ Doing("backfill").do = "ensure" => j.pc \in {5, 8}
           /\ Doing("backfill").do = "copy" => j.pc \in {6, 9}
           /\ Doing("backfill").do = "verify" => j.pc \in {7, 10}
           /\ Doing("backfill").do = "final" => j.pc \in {11, 12}
           /\ Doing("backfill").do = "write" <=> j.pc = 13
           /\ Doing("backfill").do # "absent"
           /\ j.pc \in {5, 6, 7, 8, 9, 10} => Doing("backfill").at = "ghcr"
           /\ j.pc \in {5, 6, 7} => Doing("backfill").of = "backend"
           /\ j.pc \in {8, 9, 10} => Doing("backfill").of = "frontend"
           /\ j.pc \in {6, 9} => Doing("backfill").do = "copy"
<1>1. Doing("backfill") = Backfilling[j.pc]
  BY DEF Doing, Script
<1>2. \/ j.pc = 1 \/ j.pc = 2 \/ j.pc = 3 \/ j.pc = 4 \/ j.pc = 5 \/ j.pc = 6 \/ j.pc = 7
      \/ j.pc = 8 \/ j.pc = 9 \/ j.pc = 10 \/ j.pc = 11 \/ j.pc = 12 \/ j.pc = 13
  OBVIOUS
<1> QED
  BY <1>1, <1>2, BackfillingSteps, StepFields

LEMMA PastPublishing ==
    ASSUME NEW j \in Jobs, j = job["publish"], NEW n \in 0..2
    PROVE  Past("publish", n) = IF j.deferred # {} /\ j.pc + n = 11 THEN 15 ELSE j.pc + n
  BY DEF Past, FirstMirrored, Publishing, LogIn, Both, CopyAndVerify, Recorded

LEMMA PastBackfilling ==
    ASSUME NEW n \in Nat PROVE Past("backfill", n) = job["backfill"].pc + n
  BY DEF Past

-----------------------------------------------------------------------------
(* What a step may change. *)

\* A run goes to another place with what it has.
LEMMA RunGoes ==
    ASSUME job \in [Workflows -> Jobs], NEW w \in Workflows, NEW place \in 0..15,
           GoTo(w, place)
    PROVE  \E q \in Jobs : /\ job' = [job EXCEPT ![w] = q] /\ q.pc = place /\ ~q.unsure
                           /\ q.build = job[w].build /\ q.deferred = job[w].deferred
<1>1. PICK q : q = [job[w] EXCEPT !.pc = place, !.unsure = FALSE]
  OBVIOUS
<1>2. job[w] \in Jobs
  OBVIOUS
<1>3. /\ q \in Jobs /\ q.pc = place /\ ~q.unsure
      /\ q.build = job[w].build /\ q.deferred = job[w].deferred
  BY <1>1, <1>2 DEF Jobs
<1>4. job' = [job EXCEPT ![w] = q]
  BY <1>1, <1>2 DEF GoTo
<1> QED
  BY <1>3, <1>4

LEMMA NoRun ==
    /\ NotStarted \in Jobs /\ NotStarted.pc = 0 /\ ~NotStarted.unsure
    /\ NotStarted.deferred = {} /\ PublishOK(NotStarted) /\ BackfillOK(NotStarted)
<1>1. /\ NotStarted \in Jobs /\ NotStarted.pc = 0 /\ ~NotStarted.unsure
      /\ NotStarted.deferred = {}
  BY PublicationAssumption DEF NotStarted, Jobs
<1> QED
  BY <1>1 DEF PublishOK, BackfillOK

\* A tag is set.
LEMMA TagSet ==
    ASSUME tag \in [Registries -> [Images -> Builds \cup {"absent"}]],
           NEW r \in Registries, NEW i \in Images, NEW v \in Builds \cup {"absent"},
           tag' = [tag EXCEPT ![r][i] = v]
    PROVE  /\ tag' \in [Registries -> [Images -> Builds \cup {"absent"}]]
           /\ tag'[r][i] = v
           /\ \A s \in Registries, k \in Images :
                 s # r \/ k # i => tag'[s][k] = tag[s][k]
  OBVIOUS

\* A publication past its look at the first tag has no manifest and no backfill
\* beside it.
LEMMA PublicationAlone ==
    ASSUME PublicationInv, job["publish"].pc >= 3
    PROVE  manifests = {} /\ attested = {} /\ job["backfill"].pc = 0
<1>1. manifests = {}
  BY DEF PublicationInv, PublishOK
<1>2. attested = {}
  BY <1>1 DEF PublicationInv, ReleasesHold
<1>3. job["backfill"].pc = 0
  BY <1>1 DEF PublicationInv, BackfillOK
<1> QED
  BY <1>1, <1>2, <1>3

\* The publication has got another record, and no tag or evidence changed.
LEMMA PublishGoes ==
    ASSUME PublicationInv, NEW q \in Jobs, job' = [job EXCEPT !["publish"] = q], PublishOK(q),
           UNCHANGED <<tag, manifests, attested>>, outages' \in 0..MaxOutages
    PROVE  PublicationInv' /\ NoTagMoves
<1>1. job' \in [Workflows -> Jobs] /\ job'["publish"] = q /\ job'["backfill"] = job["backfill"]
  BY PublicationTypes, NamesOfImages DEF PublicationInv
<1>2. PublicationTypeOK'
  BY <1>1, PublicationTypes, PublicationTypesNext DEF PublicationInv
<1>3. ReleasesHold' /\ PublishOK(q)' /\ BackfillOK(job["backfill"])'
  BY <1>1 DEF PublicationInv, ReleasesHold, PublishOK, BackfillOK
<1>4. NoTagMoves
  BY DEF NoTagMoves
<1> QED
  BY <1>1, <1>2, <1>3, <1>4 DEF PublicationInv

LEMMA BackfillGoes ==
    ASSUME PublicationInv, NEW q \in Jobs, job' = [job EXCEPT !["backfill"] = q], BackfillOK(q),
           UNCHANGED <<tag, manifests, attested>>, outages' \in 0..MaxOutages
    PROVE  PublicationInv' /\ NoTagMoves
<1>1. job' \in [Workflows -> Jobs] /\ job'["backfill"] = q /\ job'["publish"] = job["publish"]
  BY PublicationTypes, NamesOfImages DEF PublicationInv
<1>2. PublicationTypeOK'
  BY <1>1, PublicationTypes, PublicationTypesNext DEF PublicationInv
<1>3. ReleasesHold' /\ BackfillOK(q)' /\ PublishOK(job["publish"])'
  BY <1>1 DEF PublicationInv, ReleasesHold, PublishOK, BackfillOK
<1>4. NoTagMoves
  BY DEF NoTagMoves
<1> QED
  BY <1>1, <1>2, <1>3, <1>4 DEF PublicationInv

\* The publication copies to a tag that is empty.
LEMMA PublishCopies ==
    ASSUME PublicationInv, job["publish"].pc >= 3, NEW r \in Registries, NEW i \in Images,
           NEW v \in Builds, tag[r][i] \in {"absent", v}, tag' = [tag EXCEPT ![r][i] = v],
           NEW q \in Jobs, job' = [job EXCEPT !["publish"] = q], PublishOK(q)',
           UNCHANGED <<manifests, attested>>, outages' \in 0..MaxOutages
    PROVE  PublicationInv' /\ NoTagMoves
<1>1. job' \in [Workflows -> Jobs] /\ job'["publish"] = q /\ job'["backfill"] = job["backfill"]
  BY PublicationTypes, NamesOfImages DEF PublicationInv
<1>2. /\ tag' \in [Registries -> [Images -> Builds \cup {"absent"}]] /\ tag'[r][i] = v
      /\ \A s \in Registries, k \in Images : s # r \/ k # i => tag'[s][k] = tag[s][k]
  BY TagSet, PublicationTypes DEF PublicationInv
<1>3. PublicationTypeOK'
  BY <1>1, <1>2, PublicationTypes, PublicationTypesNext DEF PublicationInv
<1>4. manifests = {} /\ attested = {} /\ job["backfill"].pc = 0
  BY PublicationAlone
<1>5. ReleasesHold'
  BY <1>4 DEF ReleasesHold
<1>6. BackfillOK(job["backfill"])'
  BY <1>1, <1>4 DEF BackfillOK, PublicationInv
<1>7. NoTagMoves
  BY <1>2 DEF NoTagMoves
<1> QED
  BY <1>1, <1>3, <1>5, <1>6, <1>7 DEF PublicationInv

\* The backfill copies a released build to a tag of the mirror.
LEMMA BackfillCopies ==
    ASSUME PublicationInv, NEW i \in Images, NEW m \in manifests, NEW v \in Builds, m.build = v,
           tag["ghcr"][i] \in {"absent", v}, tag' = [tag EXCEPT !["ghcr"][i] = v],
           NEW q \in Jobs, job' = [job EXCEPT !["backfill"] = q], BackfillOK(q)',
           UNCHANGED <<manifests, attested>>, outages' \in 0..MaxOutages
    PROVE  PublicationInv' /\ NoTagMoves
<1>1. job' \in [Workflows -> Jobs] /\ job'["backfill"] = q /\ job'["publish"] = job["publish"]
  BY PublicationTypes, NamesOfImages DEF PublicationInv
<1>2. /\ tag' \in [Registries -> [Images -> Builds \cup {"absent"}]] /\ tag'["ghcr"][i] = v
      /\ \A s \in Registries, k \in Images : s # "ghcr" \/ k # i => tag'[s][k] = tag[s][k]
  BY TagSet, PublicationTypes, NamesOfImages DEF PublicationInv
<1>3. PublicationTypeOK'
  BY <1>1, <1>2, PublicationTypes, PublicationTypesNext DEF PublicationInv
<1>4. ReleasesHold'
  <2>1. ASSUME NEW n \in manifests, NEW k \in Images PROVE tag'["tcr"][k] = n.build
    BY <1>2, NamesOfImages DEF PublicationInv, ReleasesHold
  <2>2. ASSUME NEW n \in manifests, NEW k \in Images, k \notin n.deferred \/ n.build \in attested
        PROVE  tag'["ghcr"][k] = n.build
    <3>1. tag["ghcr"][k] = n.build
      BY <2>2 DEF PublicationInv, ReleasesHold
    <3>2. n.build # "absent"
      BY PublicationTypes, PublicationAssumption DEF PublicationInv
    <3> QED
      BY <1>2, <3>1, <3>2, NamesOfImages
  <2> QED
    BY <2>1, <2>2 DEF PublicationInv, ReleasesHold
<1>5. PublishOK(job["publish"])'
  <2>1. job["publish"].pc < 3 /\ job["publish"] \in Jobs
    BY PublicationAlone, PublicationTypes, NamesOfImages DEF Jobs, PublicationInv
  <2> QED
    BY <1>1, <2>1 DEF PublishOK, PublicationInv, Jobs
<1>6. NoTagMoves
  BY <1>2 DEF NoTagMoves
<1> QED
  BY <1>1, <1>3, <1>4, <1>5, <1>6 DEF PublicationInv

-----------------------------------------------------------------------------
(* The steps of a publication.                                             *)

\* A tag that is as it should be at the place the run is at.
LEMMA PublishGoesOn ==
    ASSUME PublicationInv, NEW n \in 0..2, job["publish"].pc \in 1..14, GoOn("publish", n),
           n # 0 => job["publish"].pc + n <= 15,
           UNCHANGED <<tag, manifests, attested, outages>>,
           NEW j \in Jobs, j = job["publish"],
           \A q \in Jobs :
              /\ q.pc = IF j.deferred # {} /\ j.pc + n = 11 THEN 15 ELSE j.pc + n
              /\ ~q.unsure /\ q.build = j.build /\ q.deferred = j.deferred
              => PublishOK(q)
    PROVE  PublicationInv' /\ NoTagMoves
<1>1. job \in [Workflows -> Jobs] /\ outages \in 0..MaxOutages
  BY PublicationTypes DEF PublicationInv
<1>2. PICK place : place = IF j.deferred # {} /\ j.pc + n = 11 THEN 15 ELSE j.pc + n
  OBVIOUS
<1>3. place \in 0..15 /\ GoTo("publish", place)
  BY <1>2, PastPublishing DEF GoOn
<1>4. PICK q \in Jobs : /\ job' = [job EXCEPT !["publish"] = q] /\ q.pc = place /\ ~q.unsure
                        /\ q.build = job["publish"].build
                        /\ q.deferred = job["publish"].deferred
  BY <1>1, <1>3, RunGoes, NamesOfImages
<1>5. PublishOK(q)
  BY <1>2, <1>4
<1> QED
  BY <1>1, <1>4, <1>5, PublishGoes

LEMMA PublishRunEnds ==
    ASSUME PublicationInv, RunEnds("publish"), UNCHANGED <<tag, manifests, attested>>,
           outages' \in 0..MaxOutages
    PROVE  PublicationInv' /\ NoTagMoves
  BY NoRun, PublishGoes DEF RunEnds

LEMMA PublishLoggedIn ==
    ASSUME PublicationInv, LoggedIn("publish") PROVE PublicationInv' /\ NoTagMoves
<1>1. PICK j \in Jobs : j = job["publish"]
  BY PublicationTypes, NamesOfImages DEF PublicationInv
<1>2. j.pc \in {1, 4}
  BY <1>1, PublishCommands, PublicationTypes DEF LoggedIn, Does, Started, PublicationInv
<1>3. PublishOK(j)
  BY <1>1 DEF PublicationInv
<1>4. ASSUME NEW q \in Jobs, ~q.unsure, q.build = j.build, q.deferred = j.deferred,
             q.pc = IF j.deferred # {} /\ j.pc + 1 = 11 THEN 15 ELSE j.pc + 1
      PROVE  PublishOK(q)
  BY <1>2, <1>3, <1>4 DEF PublishOK
<1> QED
  BY <1>1, <1>2, <1>4, PublishGoesOn DEF LoggedIn

LEMMA PublishProbesAbsent ==
    ASSUME PublicationInv, ProbeAbsent("publish") PROVE PublicationInv' /\ NoTagMoves
<1>1. PICK j \in Jobs : j = job["publish"]
  BY PublicationTypes, NamesOfImages DEF PublicationInv
<1>2. /\ j.pc \in {2, 3, 5, 6}
      /\ j.pc \in {2, 3} => Doing("publish").at = "tcr"
      /\ j.pc \in {5, 6} => Doing("publish").at = "ghcr"
      /\ j.pc \in {2, 5} => Doing("publish").of = "backend"
      /\ j.pc \in {3, 6} => Doing("publish").of = "frontend"
  BY <1>1, PublishCommands, PublicationTypes DEF ProbeAbsent, Does, Started, PublicationInv
<1>3. PublishOK(j)
  BY <1>1 DEF PublicationInv
<1>4. CASE Found("publish") # "absent"
  BY <1>4, PublishRunEnds, PublicationTypes DEF ProbeAbsent, PublicationInv
<1>5. CASE Found("publish") = "absent"
  <2>1. j.pc = 2 => manifests = {}
    <3>1. j.pc = 2 => tag["tcr"]["backend"] = "absent"
      BY <1>2, <1>5 DEF Found
    <3>2. \A m \in manifests : tag["tcr"]["backend"] = m.build /\ m.build \in Builds
      BY NamesOfImages, PublicationTypes DEF PublicationInv, ReleasesHold
    <3> QED
      BY <3>1, <3>2, PublicationAssumption
  <2>2. ASSUME NEW q \in Jobs, ~q.unsure, q.build = j.build, q.deferred = j.deferred,
               q.pc = IF j.deferred # {} /\ j.pc + 1 = 11 THEN 15 ELSE j.pc + 1
        PROVE  PublishOK(q)
    BY <1>2, <1>3, <1>5, <2>1, <2>2 DEF PublishOK, Found
  <2> QED
    BY <1>1, <1>2, <1>5, <2>2, PublishGoesOn DEF ProbeAbsent
<1> QED
  BY <1>4, <1>5

LEMMA PublishProbesExpected ==
    ASSUME PublicationInv, ProbeExpected("publish") PROVE PublicationInv' /\ NoTagMoves
<1>1. PICK j \in Jobs : j = job["publish"]
  BY PublicationTypes, NamesOfImages DEF PublicationInv
<1>2. /\ j.pc \in {8, 10, 12, 14}
      /\ j.pc \in {8, 10} => Doing("publish").at = "tcr"
      /\ j.pc \in {12, 14} => Doing("publish").at = "ghcr"
      /\ j.pc \in {8, 12} => Doing("publish").of = "backend"
      /\ j.pc \in {10, 14} => Doing("publish").of = "frontend"
  BY <1>1, PublishCommands, PublicationTypes DEF ProbeExpected, Does, Started, PublicationInv
<1>3. PublishOK(j)
  BY <1>1 DEF PublicationInv
<1>4. CASE Found("publish") # job["publish"].build
  BY <1>4, PublishRunEnds, PublicationTypes DEF ProbeExpected, PublicationInv
<1>5. CASE Found("publish") = job["publish"].build
  <2>1. ASSUME NEW q \in Jobs, ~q.unsure, q.build = j.build, q.deferred = j.deferred,
               q.pc = IF j.deferred # {} /\ j.pc + 1 = 11 THEN 15 ELSE j.pc + 1
        PROVE  PublishOK(q)
    BY <1>2, <1>3, <2>1 DEF PublishOK, Images
  <2> QED
    BY <1>1, <1>2, <1>5, <2>1, PublishGoesOn DEF ProbeExpected
<1> QED
  BY <1>4, <1>5

\* Where a publication copies to, and what it may find there.
LEMMA PublishTarget ==
    ASSUME PublicationInv, NEW j \in Jobs, j = job["publish"], Does("publish", "copy")
    PROVE  /\ j.pc \in {7, 9, 11, 13} /\ j.build \in Builds
           /\ Doing("publish").at \in Registries /\ Doing("publish").of \in Images
           /\ j.pc \in {7, 9} => Doing("publish").at = "tcr"
           /\ j.pc \in {11, 13} => Doing("publish").at = "ghcr"
           /\ j.pc \in {7, 11} => Doing("publish").of = "backend"
           /\ j.pc \in {9, 13} => Doing("publish").of = "frontend"
           /\ j.pc \in {11, 13} => j.deferred = {}
           /\ Found("publish") \in {"absent", j.build}
           /\ ~j.unsure => Found("publish") = "absent"
<1>1. /\ j.pc \in {7, 9, 11, 13}
      /\ j.pc \in {7, 9} => Doing("publish").at = "tcr"
      /\ j.pc \in {11, 13} => Doing("publish").at = "ghcr"
      /\ j.pc \in {7, 11} => Doing("publish").of = "backend"
      /\ j.pc \in {9, 13} => Doing("publish").of = "frontend"
  BY PublishCommands, PublicationTypes DEF Does, Started, PublicationInv
<1>2. PublishOK(j)
  BY DEF PublicationInv
<1>3. j.pc \in {11, 13} => j.deferred = {}
  BY <1>2 DEF PublishOK
<1>4. /\ Found("publish") \in {"absent", j.build}
      /\ ~j.unsure => Found("publish") = "absent"
  BY <1>1, <1>2, <1>3 DEF PublishOK, Found
<1> QED
  BY <1>1, <1>2, <1>3, <1>4, NamesOfImages DEF PublishOK

\* The run has copied, or may have, and is at the next place or unsure of this one.
LEMMA PublishCopied ==
    ASSUME PublicationInv, NEW j \in Jobs, j = job["publish"], Does("publish", "copy"),
           ~j.unsure,
           tag' = [tag EXCEPT ![Doing("publish").at][Doing("publish").of] = j.build],
           NEW q \in Jobs, job' = [job EXCEPT !["publish"] = q],
           q.build = j.build, q.deferred = j.deferred,
           \/ ~q.unsure /\ q.pc = IF j.deferred # {} /\ j.pc + 1 = 11 THEN 15 ELSE j.pc + 1
           \/ q.unsure /\ q.pc = j.pc /\ j.pc \in {11, 13},
           UNCHANGED <<manifests, attested>>, outages' \in 0..MaxOutages
    PROVE  PublicationInv' /\ NoTagMoves
<1>1. PICK r \in Registries : r = Doing("publish").at
  BY PublishTarget
<1>2. PICK i \in Images : i = Doing("publish").of
  BY PublishTarget
<1>3. /\ j.pc \in {7, 9, 11, 13} /\ j.build \in Builds
      /\ j.pc \in {7, 9} => r = "tcr"
      /\ j.pc \in {11, 13} => r = "ghcr"
      /\ j.pc \in {7, 11} => i = "backend"
      /\ j.pc \in {9, 13} => i = "frontend"
      /\ j.pc \in {11, 13} => j.deferred = {}
      /\ tag[r][i] = "absent"
  BY <1>1, <1>2, PublishTarget DEF Found
<1>4. tag' = [tag EXCEPT ![r][i] = j.build]
  BY <1>1, <1>2
<1>5. /\ tag'[r][i] = j.build
      /\ \A s \in Registries, k \in Images : s # r \/ k # i => tag'[s][k] = tag[s][k]
  BY <1>3, <1>4, TagSet, PublicationTypes DEF PublicationInv
<1>6. PublishOK(j)
  BY DEF PublicationInv
<1>7. PublishOK(q)'
  <2>1. CASE j.pc = 7
    BY <1>3, <1>5, <1>6, <2>1, NamesOfImages DEF PublishOK
  <2>2. CASE j.pc = 9
    BY <1>3, <1>5, <1>6, <2>2, NamesOfImages DEF PublishOK
  <2>3. CASE j.pc = 11
    BY <1>3, <1>5, <1>6, <2>3, NamesOfImages DEF PublishOK
  <2>4. CASE j.pc = 13
    BY <1>3, <1>5, <1>6, <2>4, NamesOfImages DEF PublishOK
  <2> QED
    BY <1>3, <2>1, <2>2, <2>3, <2>4
<1>8. job["publish"].pc >= 3 /\ tag[r][i] \in {"absent", j.build}
  BY <1>3
<1> QED
  BY <1>3, <1>4, <1>7, <1>8, PublishCopies

\* The copy may have arrived, and the run ends.
LEMMA PublishCopiedAndEnded ==
    ASSUME PublicationInv, NEW j \in Jobs, j = job["publish"], MayHaveCopied("publish"),
           RunEnds("publish"), UNCHANGED <<manifests, attested>>, outages' \in 0..MaxOutages
    PROVE  PublicationInv' /\ NoTagMoves
<1>1. CASE UNCHANGED tag
  BY <1>1, PublishRunEnds
<1>2. CASE Does("publish", "copy") /\ ~j.unsure
           /\ tag' = [tag EXCEPT ![Doing("publish").at][Doing("publish").of] = j.build]
  <2>1. /\ j.pc >= 3 /\ j.build \in Builds /\ Doing("publish").at \in Registries
        /\ Doing("publish").of \in Images /\ Found("publish") = "absent"
    BY <1>2, PublishTarget
  <2>2. PublishOK(NotStarted)'
    BY NoRun DEF PublishOK, NotStarted
  <2> QED
    BY <1>2, <2>1, <2>2, NoRun, PublishCopies DEF RunEnds, Found
<1> QED
  BY <1>1, <1>2 DEF MayHaveCopied

LEMMA PublishCopy ==
    ASSUME PublicationInv, Copy("publish") PROVE PublicationInv' /\ NoTagMoves
<1>1. PICK j \in Jobs : j = job["publish"]
  BY PublicationTypes, NamesOfImages DEF PublicationInv
<1>2. j.pc \in {7, 9, 11, 13} /\ ~j.unsure /\ (j.pc \in {11, 13} => j.deferred = {})
  BY <1>1, PublishTarget DEF Copy
<1>3. PICK place : place = IF j.deferred # {} /\ j.pc + 1 = 11 THEN 15 ELSE j.pc + 1
  OBVIOUS
<1>4. place \in 0..15 /\ GoTo("publish", place)
  BY <1>1, <1>2, <1>3, PastPublishing DEF Copy, GoOn
<1>5. PICK q \in Jobs : /\ job' = [job EXCEPT !["publish"] = q] /\ q.pc = place /\ ~q.unsure
                        /\ q.build = j.build /\ q.deferred = j.deferred
  BY <1>1, <1>4, RunGoes, NamesOfImages, PublicationTypes DEF PublicationInv
<1>6. outages' \in 0..MaxOutages
  BY PublicationTypes DEF Copy, PublicationInv
<1> QED
  BY <1>1, <1>2, <1>3, <1>5, <1>6, PublishCopied DEF Copy

LEMMA PublishReconciles ==
    ASSUME PublicationInv, Reconcile("publish") PROVE PublicationInv' /\ NoTagMoves
<1>1. PICK j \in Jobs : j = job["publish"]
  BY PublicationTypes, NamesOfImages DEF PublicationInv
<1>2. /\ j.pc \in {7, 9, 11, 13} /\ j.unsure /\ (j.pc \in {11, 13} => j.deferred = {})
      /\ Found("publish") \in {"absent", j.build}
      /\ j.pc = 11 => Found("publish") = tag["ghcr"]["backend"]
      /\ j.pc = 13 => Found("publish") = tag["ghcr"]["frontend"]
  BY <1>1, PublishTarget DEF Reconcile, Found
<1>3. PublishOK(j)
  BY <1>1 DEF PublicationInv
<1>4. j.pc \in {11, 13} /\ j.deferred = {}
  BY <1>2, <1>3 DEF PublishOK
<1>5. CASE Found("publish") = j.build /\ GoOn("publish", 2)
  <2>1. ASSUME NEW q \in Jobs, ~q.unsure, q.build = j.build, q.deferred = j.deferred,
               q.pc = IF j.deferred # {} /\ j.pc + 2 = 11 THEN 15 ELSE j.pc + 2
        PROVE  PublishOK(q)
    BY <1>2, <1>3, <1>4, <1>5, <2>1 DEF PublishOK
  <2> QED
    BY <1>1, <1>4, <1>5, <2>1, PublishGoesOn DEF Reconcile
<1>6. CASE Found("publish") = "absent" /\ GoOn("publish", 0)
  <2>1. ASSUME NEW q \in Jobs, ~q.unsure, q.build = j.build, q.deferred = j.deferred,
               q.pc = IF j.deferred # {} /\ j.pc + 0 = 11 THEN 15 ELSE j.pc + 0
        PROVE  PublishOK(q)
    BY <1>2, <1>3, <1>4, <1>6, <2>1 DEF PublishOK
  <2> QED
    BY <1>1, <1>4, <1>6, <2>1, PublishGoesOn DEF Reconcile
<1> QED
  BY <1>1, <1>2, <1>5, <1>6 DEF Reconcile

LEMMA PublishRecords ==
    ASSUME PublicationInv, WriteRecord("publish") PROVE PublicationInv' /\ NoTagMoves
<1>1. PICK j \in Jobs : j = job["publish"]
  BY PublicationTypes, NamesOfImages DEF PublicationInv
<1>2. j.pc = 15
  BY <1>1, PublishCommands, PublicationTypes DEF WriteRecord, Does, Started, PublicationInv
<1>3. PublishOK(j)
  BY <1>1 DEF PublicationInv
<1>4. manifests = {} /\ attested = {} /\ job["backfill"].pc = 0
  BY <1>1, <1>2, PublicationAlone
<1>5. PICK m : m = [build |-> j.build, deferred |-> j.deferred]
  OBVIOUS
<1>6. manifests' = {m} /\ UNCHANGED <<tag, attested, outages>> /\ m.build = j.build
      /\ m.deferred = j.deferred
  BY <1>1, <1>4, <1>5 DEF WriteRecord
<1>7. job' = [job EXCEPT !["publish"] = NotStarted]
  BY DEF WriteRecord, RunEnds
<1>8. /\ job' \in [Workflows -> Jobs] /\ job'["publish"] = NotStarted
      /\ job'["backfill"] = job["backfill"]
  BY <1>7, NoRun, PublicationTypes, NamesOfImages DEF PublicationInv
<1>9. m \in [build : Builds, deferred : SUBSET Images]
  BY <1>2, <1>3, <1>5 DEF PublishOK, Jobs
<1>10. PublicationTypeOK'
  BY <1>6, <1>8, <1>9, PublicationTypes, PublicationTypesNext DEF PublicationInv
<1>11. \A i \in Images : /\ tag["tcr"][i] = j.build
                         /\ i \notin j.deferred => tag["ghcr"][i] = j.build
  BY <1>2, <1>3, NamesOfImages DEF PublishOK
<1>12. ReleasesHold'
  BY <1>4, <1>6, <1>11 DEF ReleasesHold
<1>13. PublishOK(NotStarted)' /\ BackfillOK(job["backfill"])'
  BY <1>4, <1>8, NoRun DEF PublishOK, BackfillOK, PublicationInv
<1>14. NoTagMoves
  BY <1>6 DEF NoTagMoves
<1> QED
  BY <1>8, <1>10, <1>12, <1>13, <1>14 DEF PublicationInv

LEMMA PublishAnswered ==
    ASSUME PublicationInv, Answered("publish") PROVE PublicationInv' /\ NoTagMoves
<1>1. ~EnsureTarget("publish")
  BY PublishCommands, PublicationTypes, NamesOfImages
     DEF EnsureTarget, Does, Started, PublicationInv
<1> QED
  BY <1>1, PublishLoggedIn, PublishProbesAbsent, PublishProbesExpected, PublishCopy,
     PublishReconciles, PublishRecords DEF Answered

\* The network fails once more, and there is another failure to go.
LEMMA PublishRetries ==
    ASSUME PublicationInv, NEW j \in Jobs, j = job["publish"], j.pc \in {4, 5, 6, 11, 12, 13, 14},
           j.failures + 1 < MaxTransient, MayHaveCopied("publish"),
           job' = [job EXCEPT !["publish"].failures = @ + 1,
                              !["publish"].unsure = Does("publish", "copy")],
           UNCHANGED <<manifests, attested>>, outages' \in 0..MaxOutages
    PROVE  PublicationInv' /\ NoTagMoves
<1>1. PICK copying \in {TRUE, FALSE} : copying = Does("publish", "copy")
  BY DEF Does, Started
<1>2. Does("publish", "copy") <=> j.pc \in {11, 13}
  <2>1. Does("publish", "copy") => j.pc \in {7, 9, 11, 13}
    BY PublishTarget
  <2>2. j.pc \in {11, 13} => Doing("publish").do = "copy" /\ job["publish"].pc # 0
    BY PublishCommands, PublicationTypes DEF PublicationInv
  <2> QED
    BY <2>1, <2>2 DEF Does, Started
<1>3. PICK q : q = [j EXCEPT !.failures = j.failures + 1, !.unsure = copying]
  OBVIOUS
<1>4. job' = [job EXCEPT !["publish"] = q]
  BY <1>1, <1>3, NamesOfImages, PublicationTypes DEF PublicationInv
<1>5. /\ q \in Jobs /\ q.pc = j.pc /\ q.unsure = copying
      /\ q.build = j.build /\ q.deferred = j.deferred
  <2>1. j.failures + 1 \in 0..MaxTransient
    BY PublicationAssumption DEF Jobs
  <2> QED
    BY <1>3, <2>1 DEF Jobs
<1>6. PublishOK(j)
  BY DEF PublicationInv
<1>7. CASE UNCHANGED tag
  <2>1. PublishOK(q)
    BY <1>1, <1>2, <1>5, <1>6 DEF PublishOK
  <2> QED
    BY <1>4, <1>5, <1>7, <2>1, PublishGoes
<1>8. CASE Does("publish", "copy") /\ ~j.unsure
           /\ tag' = [tag EXCEPT ![Doing("publish").at][Doing("publish").of] = j.build]
  <2>1. q.unsure /\ j.pc \in {11, 13}
    BY <1>1, <1>2, <1>5, <1>8
  <2> QED
    BY <1>4, <1>5, <1>8, <2>1, PublishCopied
<1> QED
  BY <1>7, <1>8 DEF MayHaveCopied

\* The mirror is deferred.
LEMMA PublishDefers ==
    ASSUME PublicationInv, NEW j \in Jobs, j = job["publish"], j.pc \in {4, 5, 6, 11, 12, 13, 14},
           MayHaveCopied("publish"), Defers("publish"),
           UNCHANGED <<manifests, attested>>, outages' \in 0..MaxOutages
    PROVE  PublicationInv' /\ NoTagMoves
<1>1. PublishOK(j)
  BY DEF PublicationInv
<1>2. CASE j.pc < 7
  <2>1. PICK q : q = [j EXCEPT !.pc = 7, !.deferred = Images]
    OBVIOUS
  <2>2. job' = [job EXCEPT !["publish"] = q]
    BY <1>2, <2>1, NamesOfImages, PublicationTypes DEF PublicationInv, Defers, FirstCopy
  <2>3. /\ q \in Jobs /\ q.pc = 7 /\ q.deferred = Images
        /\ q.build = j.build /\ q.unsure = j.unsure
    <3>1. q = [pc |-> 7, build |-> j.build, failures |-> j.failures, unsure |-> j.unsure,
               deferred |-> Images]
      BY <2>1 DEF Jobs
    <3> QED
      BY <3>1 DEF Jobs
  <2>4. UNCHANGED tag
    <3>1. ~Does("publish", "copy")
      BY <1>2, PublishTarget
    <3> QED
      BY <3>1 DEF MayHaveCopied
  <2>5. PublishOK(q)
    BY <1>1, <1>2, <2>3 DEF PublishOK, Images
  <2> QED
    BY <2>2, <2>3, <2>4, <2>5, PublishGoes
<1>3. CASE ~(j.pc < 7)
  <2>1. PICK later \in SUBSET Images : later = Deferred(Doing("publish").of)
    BY NamesOfImages DEF Deferred
  <2>2. /\ j.pc \in {11, 12} => later = Images
        /\ j.pc \in {13, 14} => later = {"frontend"}
    BY <1>3, <2>1, PublishCommands, PublicationTypes DEF Deferred, PublicationInv
  <2>3. PICK q : q = [j EXCEPT !.pc = 15, !.unsure = FALSE, !.deferred = later]
    OBVIOUS
  <2>4. job' = [job EXCEPT !["publish"] = q]
    <3>1. job' = [job EXCEPT !["publish"].pc = 15, !["publish"].unsure = FALSE,
                             !["publish"].deferred = Deferred(Doing("publish").of)]
      BY <1>3 DEF Defers, FirstCopy, Publishing, LogIn, Both, CopyAndVerify, Recorded
    <3> QED
      BY <2>1, <2>3, <3>1, NamesOfImages, PublicationTypes DEF PublicationInv
  <2>5. /\ q \in Jobs /\ q.pc = 15 /\ q.deferred = later
        /\ q.build = j.build /\ ~q.unsure
    <3>1. q = [pc |-> 15, build |-> j.build, failures |-> j.failures, unsure |-> FALSE,
               deferred |-> later]
      BY <2>3 DEF Jobs
    <3> QED
      BY <2>1, <3>1 DEF Jobs
  <2>6. PublishOK(q)
    <3>1. "frontend" \in later /\ (j.pc \notin {13, 14} => "backend" \in later)
      BY <1>3, <2>2, NamesOfImages
    <3>2. j.pc \in {13, 14} => tag["ghcr"]["backend"] = j.build
      BY <1>1, <1>3 DEF PublishOK
    <3>3. later \in {{}, {"frontend"}, Images}
      BY <1>3, <2>2
    <3> QED
      BY <1>1, <1>3, <2>5, <3>1, <3>2, <3>3 DEF PublishOK
  <2>7. CASE UNCHANGED tag
    BY <2>4, <2>5, <2>6, <2>7, PublishGoes
  <2>8. CASE Does("publish", "copy") /\ ~j.unsure
             /\ tag' = [tag EXCEPT ![Doing("publish").at][Doing("publish").of] = j.build]
    <3>1. PICK r \in Registries : r = Doing("publish").at
      BY <2>8, PublishTarget
    <3>2. PICK i \in Images : i = Doing("publish").of
      BY <2>8, PublishTarget
    <3>3. /\ j.pc \in {11, 13} /\ j.build \in Builds /\ r = "ghcr"
          /\ j.pc = 11 => i = "backend"
          /\ j.pc = 13 => i = "frontend"
          /\ tag[r][i] = "absent"
      BY <1>3, <2>8, <3>1, <3>2, PublishTarget DEF Found
    <3>4. tag' = [tag EXCEPT ![r][i] = j.build]
      BY <2>8, <3>1, <3>2
    <3>5. \A s \in Registries, k \in Images : s # r \/ k # i => tag'[s][k] = tag[s][k]
      BY <3>3, <3>4, TagSet, PublicationTypes DEF PublicationInv
    <3>6. PublishOK(q)'
      BY <1>1, <2>2, <2>5, <2>6, <3>3, <3>5, NamesOfImages DEF PublishOK
    <3>7. job["publish"].pc >= 3 /\ tag[r][i] \in {"absent", j.build}
      BY <3>3
    <3> QED
      BY <2>4, <2>5, <3>3, <3>4, <3>6, <3>7, PublishCopies
  <2> QED
    BY <2>7, <2>8 DEF MayHaveCopied
<1> QED
  BY <1>2, <1>3

LEMMA PublishFails ==
    ASSUME PublicationInv, NetworkFails("publish") \/ Stopped("publish")
    PROVE  PublicationInv' /\ NoTagMoves
<1>1. PICK j \in Jobs : j = job["publish"]
  BY PublicationTypes, NamesOfImages DEF PublicationInv
<1>2. /\ outages' \in 0..MaxOutages /\ MayHaveCopied("publish")
      /\ UNCHANGED <<manifests, attested>>
  BY PublicationTypes, PublicationAssumption DEF NetworkFails, Stopped, PublicationInv
<1>3. CASE RunEnds("publish")
  BY <1>1, <1>2, <1>3, PublishCopiedAndEnded
<1>4. CASE NetworkFails("publish") /\ ~RunEnds("publish")
  <2>1. j.pc # 0 /\ Doing("publish").do # "write" /\ Doing("publish").at # "tcr"
    BY <1>1, <1>4 DEF NetworkFails, Started
  <2>2. j.pc # 15 /\ j.pc \notin {1, 2, 3, 7, 8, 9, 10}
    BY <1>1, <2>1, PublishCommands, PublicationTypes DEF PublicationInv
  <2>3. j.pc \in {4, 5, 6, 11, 12, 13, 14}
    BY <2>1, <2>2 DEF Jobs
  <2>4. CASE j.failures + 1 < MaxTransient
    BY <1>1, <1>2, <1>4, <2>1, <2>3, <2>4, PublishRetries DEF NetworkFails
  <2>5. CASE ~(j.failures + 1 < MaxTransient)
    BY <1>1, <1>2, <1>4, <2>1, <2>3, <2>5, PublishDefers DEF NetworkFails
  <2> QED
    BY <2>4, <2>5
<1> QED
  BY <1>3, <1>4 DEF Stopped

-----------------------------------------------------------------------------
(* The steps of a backfill.                                                *)

\* A backfill under way: of a released build, at one of its places.
LEMMA BackfillUnderWay ==
    ASSUME PublicationInv, NEW j \in Jobs, j = job["backfill"], j.pc # 0
    PROVE  /\ j.pc \in 1..13 /\ j.build \in Builds /\ BackfillOK(j)
           /\ \E m \in manifests : m.build = j.build
<1>1. BackfillOK(j)
  BY DEF PublicationInv
<1>2. PICK m \in manifests : m.build = j.build
  BY <1>1 DEF BackfillOK
<1>3. j.build \in Builds
  BY <1>2, PublicationTypes DEF PublicationInv
<1>4. j.pc \in 1..13
  BY <1>1 DEF BackfillOK, Jobs
<1> QED
  BY <1>1, <1>2, <1>3, <1>4

LEMMA BackfillGoesOn ==
    ASSUME PublicationInv, NEW n \in 0..3, NEW j \in Jobs, j = job["backfill"],
           j.pc \in 1..12, GoOn("backfill", n), UNCHANGED <<tag, manifests, attested, outages>>,
           \A q \in Jobs : q.pc = j.pc + n /\ ~q.unsure /\ q.build = j.build => BackfillOK(q)
    PROVE  PublicationInv' /\ NoTagMoves
<1>1. job \in [Workflows -> Jobs] /\ outages \in 0..MaxOutages
  BY PublicationTypes DEF PublicationInv
<1>2. PICK place : place = j.pc + n
  OBVIOUS
<1>3. place \in 0..15 /\ GoTo("backfill", place)
  BY <1>2, PastBackfilling DEF GoOn
<1>4. PICK q \in Jobs : /\ job' = [job EXCEPT !["backfill"] = q] /\ q.pc = place /\ ~q.unsure
                        /\ q.build = job["backfill"].build
                        /\ q.deferred = job["backfill"].deferred
  BY <1>1, <1>3, RunGoes, NamesOfImages
<1>5. BackfillOK(q)
  BY <1>2, <1>4
<1> QED
  BY <1>1, <1>4, <1>5, BackfillGoes

LEMMA BackfillRunEnds ==
    ASSUME PublicationInv, RunEnds("backfill"), UNCHANGED <<tag, manifests, attested>>,
           outages' \in 0..MaxOutages
    PROVE  PublicationInv' /\ NoTagMoves
  BY NoRun, BackfillGoes DEF RunEnds

LEMMA BackfillLoggedIn ==
    ASSUME PublicationInv, LoggedIn("backfill") PROVE PublicationInv' /\ NoTagMoves
<1>1. PICK j \in Jobs : j = job["backfill"]
  BY PublicationTypes, NamesOfImages DEF PublicationInv
<1>2. j.pc # 0 /\ Doing("backfill").do = "login"
  BY <1>1 DEF LoggedIn, Does, Started
<1>3. j.pc \in {1, 2} /\ BackfillOK(j)
  BY <1>1, <1>2, BackfillUnderWay, BackfillCommands, PublicationTypes DEF PublicationInv
<1>4. ASSUME NEW q \in Jobs, q.pc = j.pc + 1, ~q.unsure, q.build = j.build
      PROVE  BackfillOK(q)
  BY <1>3, <1>4 DEF BackfillOK
<1> QED
  BY <1>1, <1>3, <1>4, BackfillGoesOn DEF LoggedIn

LEMMA BackfillProbes ==
    ASSUME PublicationInv, ProbeExpected("backfill") PROVE PublicationInv' /\ NoTagMoves
<1>1. PICK j \in Jobs : j = job["backfill"]
  BY PublicationTypes, NamesOfImages DEF PublicationInv
<1>2. j.pc # 0 /\ Doing("backfill").do \in {"verify", "source", "final"}
  BY <1>1 DEF ProbeExpected, Does, Started
<1>3. j.pc \in {3, 4, 7, 10, 11, 12} /\ BackfillOK(j)
  BY <1>1, <1>2, BackfillUnderWay, BackfillCommands, PublicationTypes DEF PublicationInv
<1>4. CASE Found("backfill") # job["backfill"].build
  BY <1>4, BackfillRunEnds, PublicationTypes DEF ProbeExpected, PublicationInv
<1>5. CASE Found("backfill") = job["backfill"].build
  <2>1. ASSUME NEW q \in Jobs, q.pc = j.pc + 1, ~q.unsure, q.build = j.build
        PROVE  BackfillOK(q)
    BY <1>3, <2>1 DEF BackfillOK
  <2> QED
    BY <1>1, <1>3, <1>5, <2>1, BackfillGoesOn DEF ProbeExpected
<1> QED
  BY <1>4, <1>5

LEMMA BackfillEnsures ==
    ASSUME PublicationInv, EnsureTarget("backfill") PROVE PublicationInv' /\ NoTagMoves
<1>1. PICK j \in Jobs : j = job["backfill"]
  BY PublicationTypes, NamesOfImages DEF PublicationInv
<1>2. j.pc # 0 /\ Doing("backfill").do = "ensure"
  BY <1>1 DEF EnsureTarget, Does, Started
<1>3. j.pc \in 1..13 /\ BackfillOK(j)
  BY <1>1, <1>2, BackfillUnderWay
<1>4. /\ j.pc \in {5, 8}
      /\ Found("backfill") = tag["ghcr"][IF j.pc = 5 THEN "backend" ELSE "frontend"]
  BY <1>1, <1>2, <1>3, BackfillCommands, PublicationTypes DEF PublicationInv, Found
<1>5. CASE Found("backfill") = j.build /\ GoOn("backfill", 3)
  <2>1. ASSUME NEW q \in Jobs, q.pc = j.pc + 3, ~q.unsure, q.build = j.build
        PROVE  BackfillOK(q)
    BY <1>3, <1>4, <1>5, <2>1 DEF BackfillOK
  <2> QED
    BY <1>1, <1>4, <1>5, <2>1, BackfillGoesOn DEF EnsureTarget
<1>6. CASE Found("backfill") = "absent" /\ GoOn("backfill", 1)
  <2>1. ASSUME NEW q \in Jobs, q.pc = j.pc + 1, ~q.unsure, q.build = j.build
        PROVE  BackfillOK(q)
    BY <1>3, <1>4, <1>6, <2>1 DEF BackfillOK
  <2> QED
    BY <1>1, <1>4, <1>6, <2>1, BackfillGoesOn DEF EnsureTarget
<1>7. CASE RunEnds("backfill")
  BY <1>7, BackfillRunEnds, PublicationTypes DEF EnsureTarget, PublicationInv
<1> QED
  BY <1>1, <1>5, <1>6, <1>7 DEF EnsureTarget, Adopts

\* Where a backfill copies to, and what it may find there.
LEMMA BackfillTarget ==
    ASSUME PublicationInv, NEW j \in Jobs, j = job["backfill"], Does("backfill", "copy")
    PROVE  /\ j.pc \in {6, 9} /\ j.build \in Builds /\ BackfillOK(j)
           /\ \E m \in manifests : m.build = j.build
           /\ Doing("backfill").at = "ghcr"
           /\ Doing("backfill").of = IF j.pc = 6 THEN "backend" ELSE "frontend"
           /\ Found("backfill") = tag["ghcr"][IF j.pc = 6 THEN "backend" ELSE "frontend"]
           /\ Found("backfill") \in {"absent", j.build}
           /\ ~j.unsure => Found("backfill") = "absent"
<1>1. j.pc # 0 /\ Doing("backfill").do = "copy"
  BY DEF Does, Started
<1>2. /\ j.pc \in 1..13 /\ j.build \in Builds /\ BackfillOK(j)
      /\ \E m \in manifests : m.build = j.build
  BY <1>1, BackfillUnderWay
<1>3. /\ j.pc \in {6, 9} /\ Doing("backfill").at = "ghcr"
      /\ Doing("backfill").of = IF j.pc = 6 THEN "backend" ELSE "frontend"
  BY <1>1, <1>2, BackfillCommands, PublicationTypes DEF PublicationInv
<1>4. Found("backfill") = tag["ghcr"][IF j.pc = 6 THEN "backend" ELSE "frontend"]
  BY <1>3 DEF Found
<1>5. /\ Found("backfill") \in {"absent", j.build}
      /\ ~j.unsure => Found("backfill") = "absent"
  BY <1>2, <1>3, <1>4 DEF BackfillOK
<1> QED
  BY <1>2, <1>3, <1>4, <1>5

LEMMA BackfillCopied ==
    ASSUME PublicationInv, NEW j \in Jobs, j = job["backfill"], Does("backfill", "copy"),
           ~j.unsure,
           tag' = [tag EXCEPT ![Doing("backfill").at][Doing("backfill").of] = j.build],
           NEW q \in Jobs, job' = [job EXCEPT !["backfill"] = q],
           \/ ~q.unsure /\ q.pc = j.pc + 1 /\ q.build = j.build
           \/ q.unsure /\ q.pc = j.pc /\ q.build = j.build
           \/ q = NotStarted,
           UNCHANGED <<manifests, attested>>, outages' \in 0..MaxOutages
    PROVE  PublicationInv' /\ NoTagMoves
<1>1. PICK i \in Images : i = IF j.pc = 6 THEN "backend" ELSE "frontend"
  BY NamesOfImages
<1>2. /\ j.pc \in {6, 9} /\ j.build \in Builds /\ BackfillOK(j)
      /\ tag["ghcr"][i] = "absent"
      /\ tag' = [tag EXCEPT !["ghcr"][i] = j.build]
  BY <1>1, BackfillTarget
<1>3. PICK m \in manifests : m.build = j.build
  BY BackfillTarget
<1>4. /\ tag'["ghcr"][i] = j.build
      /\ \A s \in Registries, k \in Images : s # "ghcr" \/ k # i => tag'[s][k] = tag[s][k]
  BY <1>2, TagSet, NamesOfImages, PublicationTypes DEF PublicationInv
<1>5. BackfillOK(q)'
  <2>1. CASE q = NotStarted
    BY <2>1, NoRun DEF BackfillOK
  <2>2. CASE q # NotStarted /\ j.pc = 6
    BY <1>1, <1>2, <1>3, <1>4, <2>2, NamesOfImages DEF BackfillOK
  <2>3. CASE q # NotStarted /\ j.pc = 9
    BY <1>1, <1>2, <1>3, <1>4, <2>3, NamesOfImages DEF BackfillOK
  <2> QED
    BY <1>2, <2>1, <2>2, <2>3
<1>6. PICK v \in Builds : v = j.build
  BY <1>2
<1>7. /\ m.build = v /\ tag["ghcr"][i] \in {"absent", v}
      /\ tag' = [tag EXCEPT !["ghcr"][i] = v]
  BY <1>2, <1>3, <1>6
<1> QED
  BY <1>3, <1>5, <1>7, BackfillCopies

LEMMA BackfillCopy ==
    ASSUME PublicationInv, Copy("backfill") PROVE PublicationInv' /\ NoTagMoves
<1>1. PICK j \in Jobs : j = job["backfill"]
  BY PublicationTypes, NamesOfImages DEF PublicationInv
<1>2. j.pc \in {6, 9} /\ ~j.unsure
  BY <1>1, BackfillTarget DEF Copy
<1>3. PICK place : place = j.pc + 1
  OBVIOUS
<1>4. place \in 0..15 /\ GoTo("backfill", place)
  BY <1>1, <1>2, <1>3, PastBackfilling DEF Copy, GoOn
<1>5. PICK q \in Jobs : /\ job' = [job EXCEPT !["backfill"] = q] /\ q.pc = place /\ ~q.unsure
                        /\ q.build = j.build
  BY <1>1, <1>4, RunGoes, NamesOfImages, PublicationTypes DEF PublicationInv
<1>6. outages' \in 0..MaxOutages
  BY PublicationTypes DEF Copy, PublicationInv
<1> QED
  BY <1>1, <1>2, <1>3, <1>5, <1>6, BackfillCopied DEF Copy

LEMMA BackfillReconciles ==
    ASSUME PublicationInv, Reconcile("backfill") PROVE PublicationInv' /\ NoTagMoves
<1>1. PICK j \in Jobs : j = job["backfill"]
  BY PublicationTypes, NamesOfImages DEF PublicationInv
<1>2. /\ j.pc \in {6, 9} /\ BackfillOK(j) /\ Found("backfill") \in {"absent", j.build}
      /\ Found("backfill") = tag["ghcr"][IF j.pc = 6 THEN "backend" ELSE "frontend"]
  BY <1>1, BackfillTarget DEF Reconcile
<1>3. CASE Found("backfill") = j.build /\ GoOn("backfill", 2)
  <2>1. ASSUME NEW q \in Jobs, q.pc = j.pc + 2, ~q.unsure, q.build = j.build
        PROVE  BackfillOK(q)
    BY <1>2, <1>3, <2>1 DEF BackfillOK
  <2> QED
    BY <1>1, <1>2, <1>3, <2>1, BackfillGoesOn DEF Reconcile
<1>4. CASE Found("backfill") = "absent" /\ GoOn("backfill", 0)
  <2>1. ASSUME NEW q \in Jobs, q.pc = j.pc + 0, ~q.unsure, q.build = j.build
        PROVE  BackfillOK(q)
    BY <1>2, <1>4, <2>1 DEF BackfillOK
  <2> QED
    BY <1>1, <1>2, <1>4, <2>1, BackfillGoesOn DEF Reconcile
<1> QED
  BY <1>1, <1>2, <1>3, <1>4 DEF Reconcile

LEMMA BackfillRecords ==
    ASSUME PublicationInv, WriteRecord("backfill") PROVE PublicationInv' /\ NoTagMoves
<1>1. PICK j \in Jobs : j = job["backfill"]
  BY PublicationTypes, NamesOfImages DEF PublicationInv
<1>2. j.pc # 0 /\ Doing("backfill").do = "write"
  BY <1>1 DEF WriteRecord, Does, Started
<1>3. /\ j.pc \in 1..13 /\ j.build \in Builds /\ BackfillOK(j)
      /\ \E m \in manifests : m.build = j.build
  BY <1>1, <1>2, BackfillUnderWay
<1>4. j.pc = 13
  BY <1>1, <1>2, <1>3, BackfillCommands, PublicationTypes DEF PublicationInv
<1>5. \A i \in Images : tag["ghcr"][i] = j.build
  BY <1>3, <1>4, NamesOfImages DEF BackfillOK
<1>6. /\ attested' = attested \cup {j.build} /\ UNCHANGED <<tag, manifests, outages>>
      /\ job' = [job EXCEPT !["backfill"] = NotStarted]
  BY <1>1 DEF WriteRecord, RunEnds
<1>7. /\ job' \in [Workflows -> Jobs] /\ job'["backfill"] = NotStarted
      /\ job'["publish"] = job["publish"]
  BY <1>6, NoRun, PublicationTypes, NamesOfImages DEF PublicationInv
<1>8. PublicationTypeOK'
  BY <1>3, <1>6, <1>7, PublicationTypes, PublicationTypesNext DEF PublicationInv
<1>9. ReleasesHold'
  <2>1. ASSUME NEW m \in manifests, NEW i \in Images,
               i \notin m.deferred \/ m.build \in attested \/ m.build = j.build
        PROVE  tag["ghcr"][i] = m.build
    BY <1>5, <2>1 DEF PublicationInv, ReleasesHold
  <2> QED
    BY <1>3, <1>6, <2>1 DEF PublicationInv, ReleasesHold
<1>10. BackfillOK(NotStarted)' /\ PublishOK(job["publish"])'
  BY <1>6, <1>7, NoRun DEF PublishOK, BackfillOK, PublicationInv
<1>11. NoTagMoves
  BY <1>6 DEF NoTagMoves
<1> QED
  BY <1>7, <1>8, <1>9, <1>10, <1>11 DEF PublicationInv

LEMMA BackfillAnswered ==
    ASSUME PublicationInv, Answered("backfill") PROVE PublicationInv' /\ NoTagMoves
<1>1. ~ProbeAbsent("backfill")
  <2>1. PICK j \in Jobs : j = job["backfill"]
    BY PublicationTypes, NamesOfImages DEF PublicationInv
  <2>2. j.pc # 0 => Doing("backfill").do # "absent"
    BY <2>1, BackfillUnderWay, BackfillCommands, PublicationTypes DEF PublicationInv
  <2> QED
    BY <2>1, <2>2 DEF ProbeAbsent, Does, Started
<1> QED
  BY <1>1, BackfillLoggedIn, BackfillProbes, BackfillEnsures, BackfillCopy,
     BackfillReconciles, BackfillRecords DEF Answered

LEMMA BackfillFails ==
    ASSUME PublicationInv, NetworkFails("backfill") \/ Stopped("backfill")
    PROVE  PublicationInv' /\ NoTagMoves
<1>1. PICK j \in Jobs : j = job["backfill"]
  BY PublicationTypes, NamesOfImages DEF PublicationInv
<1>2. /\ outages' \in 0..MaxOutages /\ MayHaveCopied("backfill") /\ j.pc # 0
      /\ UNCHANGED <<manifests, attested>>
  BY <1>1, PublicationTypes, PublicationAssumption
     DEF NetworkFails, Stopped, Started, PublicationInv
<1>3. /\ j.pc \in 1..13 /\ BackfillOK(j)
  BY <1>1, <1>2, BackfillUnderWay
<1>4. CASE RunEnds("backfill")
  <2>1. job' = [job EXCEPT !["backfill"] = NotStarted]
    BY <1>4 DEF RunEnds
  <2>2. CASE UNCHANGED tag
    BY <1>2, <1>4, <2>2, BackfillRunEnds
  <2>3. CASE ~UNCHANGED tag
    BY <1>1, <1>2, <2>1, <2>3, NoRun, BackfillCopied DEF MayHaveCopied
  <2> QED
    BY <2>2, <2>3
<1>5. CASE NetworkFails("backfill") /\ ~RunEnds("backfill")
  <2>1. /\ j.failures + 1 < MaxTransient
        /\ job' = [job EXCEPT !["backfill"].failures = @ + 1,
                              !["backfill"].unsure = Does("backfill", "copy")]
    BY <1>1, <1>5 DEF NetworkFails
  <2>2. PICK copying \in {TRUE, FALSE} : copying = Does("backfill", "copy")
    BY DEF Does, Started
  <2>3. Does("backfill", "copy") <=> j.pc \in {6, 9}
    <3>1. Does("backfill", "copy") => j.pc \in {6, 9}
      BY <1>1, BackfillTarget
    <3>2. j.pc \in {6, 9} => Doing("backfill").do = "copy" /\ job["backfill"].pc # 0
      BY <1>1, BackfillCommands, PublicationTypes DEF PublicationInv
    <3> QED
      BY <3>1, <3>2 DEF Does, Started
  <2>4. PICK q : q = [j EXCEPT !.failures = j.failures + 1, !.unsure = copying]
    OBVIOUS
  <2>5. job' = [job EXCEPT !["backfill"] = q]
    BY <1>1, <2>1, <2>2, <2>4, NamesOfImages, PublicationTypes DEF PublicationInv
  <2>6. j.failures + 1 \in 0..MaxTransient
    BY <2>1, PublicationAssumption DEF Jobs
  <2>7. /\ q \in Jobs /\ q.pc = j.pc /\ q.unsure = copying /\ q.build = j.build
    BY <2>4, <2>6 DEF Jobs
  <2>8. CASE UNCHANGED tag
    <3>1. BackfillOK(q)
      BY <1>3, <2>2, <2>3, <2>7 DEF BackfillOK
    <3> QED
      BY <1>2, <2>5, <2>7, <2>8, <3>1, BackfillGoes
  <2>9. CASE ~UNCHANGED tag
    <3>1. Does("backfill", "copy") /\ q.unsure
      BY <1>2, <2>2, <2>7, <2>9 DEF MayHaveCopied
    <3> QED
      BY <1>1, <1>2, <2>5, <2>7, <2>9, <3>1, BackfillCopied DEF MayHaveCopied
  <2> QED
    BY <2>8, <2>9
<1> QED
  BY <1>4, <1>5 DEF Stopped

-----------------------------------------------------------------------------
(* The operator, and all steps.                                            *)

LEMMA PublicationStarts ==
    ASSUME PublicationInv, StartPublication PROVE PublicationInv' /\ NoTagMoves
<1>1. PICK b \in Builds :
         job' = [job EXCEPT !["publish"] = [NotStarted EXCEPT !.pc = 1, !.build = b]]
  BY DEF StartPublication
<1>2. PICK q : q = [NotStarted EXCEPT !.pc = 1, !.build = b]
  OBVIOUS
<1>3. /\ q \in Jobs /\ q.pc = 1 /\ q.build = b /\ ~q.unsure /\ q.deferred = {}
  <2>1. q = [pc |-> 1, build |-> b, failures |-> 0, unsure |-> FALSE, deferred |-> {}]
    BY <1>2 DEF NotStarted
  <2> QED
    BY <2>1, PublicationAssumption DEF Jobs
<1>4. PublishOK(q)
  BY <1>3 DEF PublishOK
<1>5. UNCHANGED <<tag, manifests, attested>> /\ outages' \in 0..MaxOutages
  BY PublicationTypes DEF StartPublication, PublicationInv
<1> QED
  BY <1>1, <1>2, <1>3, <1>4, <1>5, PublishGoes

LEMMA BackfillStarts ==
    ASSUME PublicationInv, StartBackfill PROVE PublicationInv' /\ NoTagMoves
<1>1. PICK m \in manifests :
         job' = [job EXCEPT !["backfill"] = [NotStarted EXCEPT !.pc = 1, !.build = m.build]]
  BY DEF StartBackfill
<1>2. PICK q : q = [NotStarted EXCEPT !.pc = 1, !.build = m.build]
  OBVIOUS
<1>3. m.build \in Builds
  BY PublicationTypes DEF PublicationInv
<1>4. /\ q \in Jobs /\ q.pc = 1 /\ q.build = m.build /\ ~q.unsure
  <2>1. q = [pc |-> 1, build |-> m.build, failures |-> 0, unsure |-> FALSE, deferred |-> {}]
    BY <1>2 DEF NotStarted
  <2> QED
    BY <1>3, <2>1, PublicationAssumption DEF Jobs
<1>5. BackfillOK(q)
  BY <1>4 DEF BackfillOK
<1>6. UNCHANGED <<tag, manifests, attested>> /\ outages' \in 0..MaxOutages
  BY PublicationTypes DEF StartBackfill, PublicationInv
<1> QED
  BY <1>1, <1>2, <1>4, <1>5, <1>6, BackfillGoes

LEMMA TagRemoved ==
    ASSUME PublicationInv, RemoveTag PROVE PublicationInv' /\ NoTagMoves
<1>1. /\ UNCHANGED <<job, manifests, attested, outages>> /\ job["publish"].pc = 0
  BY DEF RemoveTag, Started
<1>2. PICK r \in Registries, i \in Images :
         /\ tag' = [tag EXCEPT ![r][i] = "absent"]
         /\ \A m \in manifests : m.build # tag[r][i]
  BY DEF RemoveTag
<1>3. /\ tag' \in [Registries -> [Images -> Builds \cup {"absent"}]]
      /\ tag'[r][i] = "absent"
      /\ \A s \in Registries, k \in Images : s # r \/ k # i => tag'[s][k] = tag[s][k]
  BY <1>2, TagSet, PublicationTypes DEF PublicationInv
<1>4. ASSUME NEW s \in Registries, NEW k \in Images, NEW m \in manifests, tag[s][k] = m.build
      PROVE  tag'[s][k] = m.build
  BY <1>2, <1>3, <1>4
<1>5. PublicationTypeOK'
  BY <1>1, <1>3, PublicationTypes, PublicationTypesNext DEF PublicationInv
<1>6. ReleasesHold'
  BY <1>1, <1>4, NamesOfImages DEF PublicationInv, ReleasesHold
<1>7. PublishOK(job["publish"])'
  BY <1>1, NamesOfImages DEF PublishOK, PublicationInv
<1>8. BackfillOK(job["backfill"])'
  <2>1. PICK j \in Jobs : j = job["backfill"]
    BY PublicationTypes, NamesOfImages DEF PublicationInv
  <2>2. BackfillOK(j)
    BY <2>1 DEF PublicationInv
  <2>3. CASE j.pc = 0
    BY <1>1, <2>1, <2>2, <2>3 DEF BackfillOK
  <2>4. CASE j.pc # 0
    <3>1. PICK m \in manifests : m.build = j.build
      BY <2>2, <2>4 DEF BackfillOK
    <3>2. \A k \in Images : /\ tag["ghcr"][k] = j.build => tag'["ghcr"][k] = j.build
                            /\ tag["ghcr"][k] = "absent" => tag'["ghcr"][k] = "absent"
      BY <1>3, <1>4, <3>1, NamesOfImages
    <3> QED
      BY <1>1, <2>1, <2>2, <3>1, <3>2, NamesOfImages DEF BackfillOK
  <2> QED
    BY <2>3, <2>4
<1>9. NoTagMoves
  BY <1>3 DEF NoTagMoves
<1> QED
  BY <1>1, <1>5, <1>6, <1>7, <1>8, <1>9 DEF PublicationInv

LEMMA PublicationInitial == ASSUME PublicationInit PROVE PublicationInv
<1>1. PublicationTypeOK
  BY NoRun, PublicationTypes, PublicationAssumption DEF PublicationInit
<1>2. ReleasesHold
  BY DEF PublicationInit, ReleasesHold
<1> QED
  BY <1>1, <1>2, NoRun, NamesOfImages DEF PublicationInit, PublicationInv

LEMMA PublicationKeeps ==
    ASSUME PublicationInv, [PublicationNext]_publicationVars
    PROVE  PublicationInv' /\ ((ReleasesHold' /\ NoTagMoves) \/ UNCHANGED publicationVars)
<1>1. CASE UNCHANGED publicationVars
  BY <1>1 DEF publicationVars, PublicationInv, PublicationTypeOK, ReleasesHold, PublishOK,
     BackfillOK
<1>2. CASE PublicationNext
  <2>1. PublicationInv' /\ NoTagMoves
    BY <1>2, PublicationStarts, BackfillStarts, TagRemoved, PublishAnswered, PublishFails,
       BackfillAnswered, BackfillFails, NamesOfImages DEF PublicationNext
  <2> QED
    BY <2>1 DEF PublicationInv
<1> QED
  BY <1>1, <1>2

\* Through failed copies that arrived, kills, clean-ups and runs of both
\* workflows beside one another, no step moves a tag, and a manifest stays true of
\* TCR and of the mirror it calls published, an attestation of the whole mirror
\* (publish_registries.py, backfill_ghcr.py).
THEOREM ImmutableSafety == PublicationSpec => ReleasesImmutable
<1>1. PublicationInit => PublicationInv
  BY PublicationInitial
<1>2. PublicationInv /\ [PublicationNext]_publicationVars =>
         PublicationInv' /\ [ReleasesHold' /\ NoTagMoves]_publicationVars
  BY PublicationKeeps
<1> QED
  BY <1>1, <1>2, PTL DEF PublicationSpec, ReleasesImmutable

-----------------------------------------------------------------------------
(* The composite request.                                                  *)

PlanOK == \E n \in 2..4 : plan \in [1..n -> [kind : Kinds, needs : SUBSET (1..n)]]

AllDone == \A u \in Tasks : Retrieved(u)

(* Who is left out: a search that raised, or, once all are done, a branch    *)
(* that contradicts an earlier one that is kept.  They are found in order.   *)
BranchesOK ==
    /\ \A t \in Tasks : /\ ~Kb(t) => step[t] = "waiting" /\ t \notin excluded
                        /\ step[t] = "raised" => t \in excluded /\ outcome[t] = "failed"
    /\ \A t \in excluded : step[t] # "raised" =>
          /\ AllDone /\ Collides(t)
          /\ \A v \in Tasks \ excluded : v < t /\ Kb(v) => ~Collides(v)

(* The source map shows what the branches that are kept found.               *)
MapOK ==
    stage # "retrieving" =>
        /\ AllDone
        /\ \A t \in Tasks \ excluded : Kb(t) =>
              \A s \in DOMAIN found[t] : s \in DOMAIN sourceMap /\ sourceMap[s] = found[t][s]

(* The error of a branch that fails: its retrieval, the model, or a draft    *)
(* without sources.                                                          *)
Named(t, error) ==
    \/ error = "branch_retrieval_failed" /\ (t \in excluded \/ (Kb(t) /\ outcome[t] = "failed"))
    \/ error = "answer_service_unavailable" /\ ~ready
    \/ error = "branch_execution_failed" /\ ready
    \/ error = "" /\ ready /\ FreeAnswer(t)

(* A branch left out has no answer, a grounded one cites what it found, and  *)
(* a failed one has its reason.                                              *)
VerdictOK ==
    \A t \in Tasks :
        /\ stage = "retrieving" => verdict[t] = "pending"
        /\ t \in excluded => verdict[t] \in {"pending", "failed"}
        /\ IF verdict[t] = "succeeded" /\ mode[t] = "grounded"
           THEN Kb(t) /\ cites[t] # {} /\ cites[t] \subseteq DOMAIN found[t]
           ELSE cites[t] = {}
        /\ verdict[t] = "failed" => Named(t, fault[t])

EndingOK ==
    /\ stage = "ended" <=> ending # "running"
    /\ ending # "running" => (ending \in {"not_committable", "error"} <=> Told = {})

AnswerInv ==
    /\ PlanOK /\ AnswerTypeOK /\ BranchesOK /\ MapOK /\ VerdictOK /\ EndingOK
LEMMA TasksAre ==
    ASSUME PlanOK
    PROVE  \E n \in 2..4 : /\ Tasks = 1..n
                           /\ \A t \in 1..n : plan[t] \in [kind : Kinds, needs : SUBSET (1..n)]
  BY DEF PlanOK, Tasks

LEMMA TaskNumbers == ASSUME PlanOK PROVE Tasks \subseteq 1..4 /\ Nobody \notin Tasks
  BY TasksAre DEF Nobody

LEMMA NoFinding == <<>> \in Findings /\ DOMAIN <<>> = {}
<1>1. <<>> \in [{} -> Prints]
  OBVIOUS
<1>2. {} \in SUBSET Sources
  OBVIOUS
<1> QED
  BY <1>1, <1>2 DEF Findings

LEMMA FindingIs ==
    ASSUME NEW f \in Findings
    PROVE  DOMAIN f \subseteq Sources /\ \A s \in DOMAIN f : f[s] \in Prints
<1>1. PICK S \in SUBSET Sources : f \in [S -> Prints]
  BY DEF Findings
<1> QED
  BY <1>1

LEMMA IsFinding ==
    ASSUME NEW S \in SUBSET Sources, NEW f \in [S -> Prints] PROVE f \in Findings
  BY DEF Findings

\* The first of some subtasks.
LEMMA First ==
    ASSUME NEW S \in SUBSET (1..4), S # {}
    PROVE  Sets!Min(S) \in S /\ \A u \in S : Sets!Min(S) <= u
<1>1. \E n \in S : \A u \in S : n <= u
  <2>1. CASE 1 \in S  BY <2>1
  <2>2. CASE 1 \notin S /\ 2 \in S  BY <2>2
  <2>3. CASE 1 \notin S /\ 2 \notin S /\ 3 \in S  BY <2>3
  <2>4. CASE 1 \notin S /\ 2 \notin S /\ 3 \notin S
    <3>1. \A u \in S : u = 4
      BY <2>4
    <3>2. PICK u \in S : TRUE
      OBVIOUS
    <3> QED
      BY <3>1, <3>2
  <2> QED  BY <2>1, <2>2, <2>3, <2>4
<1> QED
  BY <1>1 DEF Sets!Min

-----------------------------------------------------------------------------
(* The retrievals.                                                         *)

\* The thread of a branch goes on; it may raise, and is then left out.
LEMMA ThreadKeeps ==
    ASSUME AnswerInv, NEW t \in Tasks, ~Retrieved(t),
           UNCHANGED <<planVars, stage, sourceMap, resultVars, ending>>,
           NEW place \in {"searching", "searched", "judged", "retrieved", "raised"},
           step' = [step EXCEPT ![t] = place],
           IF place = "raised" THEN excluded' = excluded \cup {t} ELSE UNCHANGED excluded,
           found' \in [Tasks -> Findings], lacks' \in [Tasks -> BOOLEAN],
           outcome' \in [Tasks -> {"none", "sufficient", "partial", "empty", "failed"}],
           \A u \in Tasks \ {t} : outcome'[u] = outcome[u],
           place = "raised" => outcome'[t] = "failed",
           taken' \in [Tasks -> {Nobody} \cup Tasks],
           debug' \in {"none", "short", "met"}, omitted' \in {Nobody} \cup Tasks
    PROVE  AnswerInv'
<1>1. Tasks' = Tasks /\ plan' = plan /\ \A u \in Tasks : Kb(u)' <=> Kb(u)
  BY DEF Tasks, planVars, Kb
<1>2. Kb(t) /\ step[t] \notin {"retrieved", "raised"}
  BY DEF Retrieved
<1>3. stage = "retrieving"
  BY DEF AnswerInv, MapOK, AllDone
<1>4. \A u \in excluded : step[u] = "raised"
  BY DEF AnswerInv, BranchesOK, AllDone
<1>5. /\ step \in [Tasks -> {"waiting", "searching", "searched", "judged", "retrieved",
                             "raised"}]
      /\ excluded \subseteq Tasks
  BY DEF AnswerInv, AnswerTypeOK
<1>6. /\ step' \in [Tasks -> {"waiting", "searching", "searched", "judged", "retrieved",
                              "raised"}]
      /\ step'[t] = place /\ \A u \in Tasks \ {t} : step'[u] = step[u]
      /\ excluded' \subseteq Tasks
  BY <1>5
<1>7. AnswerTypeOK'
  BY <1>1, <1>6 DEF AnswerInv, AnswerTypeOK, planVars, resultVars
<1>8. BranchesOK'
  <2>1. \A u \in Tasks : /\ ~Kb(u) => step'[u] = "waiting" /\ u \notin excluded'
                         /\ step'[u] = "raised" => u \in excluded' /\ outcome'[u] = "failed"
    <3>1. ASSUME NEW u \in Tasks \ {t}
          PROVE  /\ ~Kb(u) => step[u] = "waiting" /\ u \notin excluded
                 /\ step[u] = "raised" => u \in excluded /\ outcome[u] = "failed"
      BY DEF AnswerInv, BranchesOK
    <3>2. \A u \in Tasks \ {t} : u \in excluded' <=> u \in excluded
      OBVIOUS
    <3> QED
      BY <1>2, <1>6, <3>1, <3>2
  <2>2. \A u \in excluded' : step'[u] = "raised"
    <3>1. t \notin excluded
      BY <1>2, <1>4
    <3>2. CASE place = "raised"
      BY <1>4, <1>5, <1>6, <3>1, <3>2
    <3>3. CASE place # "raised"
      BY <1>4, <1>5, <1>6, <3>1, <3>3
    <3> QED
      BY <3>2, <3>3
  <2> QED
    BY <1>1, <2>1, <2>2 DEF BranchesOK
<1>9. MapOK' /\ EndingOK'
  BY <1>1, <1>3 DEF AnswerInv, MapOK, EndingOK, Told, resultVars
<1>10. VerdictOK'
  <2>1. \A u \in Tasks : verdict[u] = "pending" /\ cites[u] = {}
    BY <1>3 DEF AnswerInv, VerdictOK
  <2> QED
    BY <1>1, <1>3, <2>1 DEF VerdictOK, resultVars
<1>11. PlanOK'
  BY <1>1 DEF AnswerInv, PlanOK
<1> QED
  BY <1>7, <1>8, <1>9, <1>10, <1>11 DEF AnswerInv

\* The types a thread finds.
LEMMA ThreadTypes ==
    ASSUME AnswerInv
    PROVE  /\ found \in [Tasks -> Findings] /\ lacks \in [Tasks -> BOOLEAN]
           /\ outcome \in [Tasks -> {"none", "sufficient", "partial", "empty", "failed"}]
           /\ taken \in [Tasks -> {Nobody} \cup Tasks]
           /\ debug \in {"none", "short", "met"} /\ omitted \in {Nobody} \cup Tasks
  BY DEF AnswerInv, AnswerTypeOK

LEMMA UnderWay ==
    ASSUME AnswerInv, NEW t \in Tasks,
           \/ MayRetrieve(t)
           \/ step[t] \in {"searching", "searched", "judged"}
    PROVE  ~Retrieved(t)
  BY DEF AnswerInv, BranchesOK, Retrieved, MayRetrieve

LEMMA SkipKeeps == ASSUME AnswerInv, NEW t \in Tasks, SkipSearch(t) PROVE AnswerInv'
<1>1. ~Retrieved(t)
  BY UnderWay DEF SkipSearch
<1>2. /\ step' = [step EXCEPT ![t] = "retrieved"] /\ outcome' = [outcome EXCEPT ![t] = "empty"]
      /\ UNCHANGED <<planVars, stage, found, lacks, taken, sharedVars, excluded,
                     sourceMap, resultVars, ending>>
  BY DEF SkipSearch, StepTo
<1>3. /\ outcome' \in [Tasks -> {"none", "sufficient", "partial", "empty", "failed"}]
      /\ \A u \in Tasks \ {t} : outcome'[u] = outcome[u]
  BY <1>2, ThreadTypes
<1> QED
  BY <1>1, <1>2, <1>3, ThreadTypes, ThreadKeeps DEF sharedVars

LEMMA BeginKeeps == ASSUME AnswerInv, NEW t \in Tasks, BeginSearch(t) PROVE AnswerInv'
<1>1. ~Retrieved(t)
  BY UnderWay DEF BeginSearch
<1>2. /\ step' = [step EXCEPT ![t] = "searching"] /\ debug' = "none" /\ omitted' = Nobody
      /\ UNCHANGED <<planVars, stage, found, lacks, outcome, taken, excluded, sourceMap,
                     resultVars, ending>>
  BY DEF BeginSearch, StepTo, payloadVars
<1> QED
  BY <1>1, <1>2, ThreadTypes, ThreadKeeps

LEMMA EndKeeps == ASSUME AnswerInv, NEW t \in Tasks, EndSearch(t) PROVE AnswerInv'
<1>1. ~Retrieved(t)
  BY UnderWay DEF EndSearch
<1>2. PICK sources \in Findings, short \in BOOLEAN, more \in BOOLEAN :
        /\ found' = [found EXCEPT ![t] = sources]
        /\ lacks' = [lacks EXCEPT ![t] = short]
        /\ debug' = IF short THEN "short" ELSE "met"
        /\ omitted' = IF more THEN t ELSE Nobody
  BY DEF EndSearch
<1>3. /\ found' \in [Tasks -> Findings] /\ lacks' \in [Tasks -> BOOLEAN]
      /\ debug' \in {"none", "short", "met"} /\ omitted' \in {Nobody} \cup Tasks
  BY <1>2, ThreadTypes
<1>4. /\ step' = [step EXCEPT ![t] = "searched"]
      /\ UNCHANGED <<planVars, stage, outcome, taken, excluded, sourceMap, resultVars,
                     ending>>
  BY DEF EndSearch, StepTo
<1> QED
  BY <1>1, <1>3, <1>4, ThreadTypes, ThreadKeeps

LEMMA FailKeeps == ASSUME AnswerInv, NEW t \in Tasks, FailSearch(t) PROVE AnswerInv'
<1>1. ~Retrieved(t)
  BY UnderWay DEF FailSearch
<1>2. /\ step' = [step EXCEPT ![t] = "retrieved"] /\ outcome' = [outcome EXCEPT ![t] = "failed"]
      /\ UNCHANGED <<planVars, stage, found, lacks, taken, sharedVars, excluded,
                     sourceMap, resultVars, ending>>
  BY DEF FailSearch, StepTo
<1>3. /\ outcome' \in [Tasks -> {"none", "sufficient", "partial", "empty", "failed"}]
      /\ \A u \in Tasks \ {t} : outcome'[u] = outcome[u]
  BY <1>2, ThreadTypes
<1> QED
  BY <1>1, <1>2, <1>3, ThreadTypes, ThreadKeeps DEF sharedVars

LEMMA RaiseKeeps == ASSUME AnswerInv, NEW t \in Tasks, RaiseSearch(t) PROVE AnswerInv'
<1>1. ~Retrieved(t)
  BY UnderWay DEF RaiseSearch
<1>2. /\ step' = [step EXCEPT ![t] = "raised"] /\ outcome' = [outcome EXCEPT ![t] = "failed"]
      /\ excluded' = excluded \cup {t} /\ found' = [found EXCEPT ![t] = <<>>]
      /\ UNCHANGED <<planVars, stage, lacks, taken, sharedVars, sourceMap, resultVars,
                     ending>>
  BY DEF RaiseSearch, StepTo
<1>3. /\ outcome' \in [Tasks -> {"none", "sufficient", "partial", "empty", "failed"}]
      /\ outcome'[t] = "failed" /\ \A u \in Tasks \ {t} : outcome'[u] = outcome[u]
  BY <1>2, ThreadTypes
<1>4. found' \in [Tasks -> Findings]
  BY <1>2, NoFinding, ThreadTypes
<1> QED
  BY <1>1, <1>2, <1>3, <1>4, ThreadTypes, ThreadKeeps DEF sharedVars

LEMMA JudgedKeeps == ASSUME AnswerInv, NEW t \in Tasks, JudgeOutcome(t) PROVE AnswerInv'
<1>1. ~Retrieved(t)
  BY UnderWay DEF JudgeOutcome
<1>2. PICK result : result = Classified(DOMAIN found[t], debug = "short")
  OBVIOUS
<1>3. result \in {"none", "sufficient", "partial", "empty", "failed"}
  BY <1>2 DEF Classified
<1>4. /\ step' = [step EXCEPT ![t] = "judged"] /\ outcome' = [outcome EXCEPT ![t] = result]
      /\ UNCHANGED <<planVars, stage, found, lacks, taken, sharedVars, excluded,
                     sourceMap, resultVars, ending>>
  BY <1>2 DEF JudgeOutcome, StepTo
<1>5. /\ outcome' \in [Tasks -> {"none", "sufficient", "partial", "empty", "failed"}]
      /\ \A u \in Tasks \ {t} : outcome'[u] = outcome[u]
  BY <1>3, <1>4, ThreadTypes
<1> QED
  BY <1>1, <1>4, <1>5, ThreadTypes, ThreadKeeps DEF sharedVars

LEMMA TakeKeeps == ASSUME AnswerInv, NEW t \in Tasks, TakeActions(t) PROVE AnswerInv'
<1>1. ~Retrieved(t)
  BY UnderWay DEF TakeActions
<1>2. PICK whose : whose = IF Supplemented(t, outcome[t]) THEN Nobody ELSE omitted
  OBVIOUS
<1>3. whose \in {Nobody} \cup Tasks
  BY <1>2, ThreadTypes
<1>4. /\ step' = [step EXCEPT ![t] = "retrieved"] /\ taken' = [taken EXCEPT ![t] = whose]
      /\ UNCHANGED <<planVars, stage, found, lacks, outcome, sharedVars, excluded,
                     sourceMap, resultVars, ending>>
  BY <1>2 DEF TakeActions, StepTo
<1>5. taken' \in [Tasks -> {Nobody} \cup Tasks]
  BY <1>3, <1>4, ThreadTypes
<1> QED
  BY <1>1, <1>4, <1>5, ThreadTypes, ThreadKeeps DEF sharedVars


-----------------------------------------------------------------------------
(* The source map.                                                         *)

\* With more branches left out a branch contradicts fewer.
LEMMA FewerCollide ==
    ASSUME found' = found, excluded \subseteq excluded', NEW t \in Nat
    PROVE  /\ Collides(t)' => Collides(t)
           /\ (\A u \in excluded' \ excluded : t <= u) => (Collides(t)' <=> Collides(t))
<1>1. Collides(t)' => Collides(t)
  BY DEF Collides
<1>2. ASSUME \A u \in excluded' \ excluded : t <= u, Collides(t) PROVE Collides(t)'
  <2>1. PICK u \in 1..(t - 1) \ excluded :
          \E s \in DOMAIN found[u] \cap DOMAIN found[t] : found[u][s] # found[t][s]
    BY <1>2 DEF Collides
  <2>2. u \notin excluded'
    BY <1>2
  <2> QED
    BY <2>1, <2>2 DEF Collides
<1> QED
  BY <1>1, <1>2

LEMMA LeaveOutKeeps == ASSUME AnswerInv, LeaveOut PROVE AnswerInv'
<1>1. Collided \subseteq 1..4 /\ Collided # {}
  BY TaskNumbers DEF AnswerInv, LeaveOut, Collided
<1>2. PICK m \in Collided : /\ m = Sets!Min(Collided) /\ \A u \in Collided : m <= u
  BY <1>1, First
<1>3. m \in Tasks \ excluded /\ Kb(m) /\ Collides(m) /\ m \in 1..4
  BY <1>1, <1>2 DEF Collided
<1>4. /\ stage = "retrieving" /\ AllDone /\ excluded' = excluded \cup {m}
      /\ UNCHANGED <<planVars, stage, step, payloadVars, sharedVars, sourceMap, resultVars,
                     ending>>
  BY <1>2 DEF LeaveOut, AllRetrieved, AllDone
<1>5. Tasks' = Tasks /\ plan' = plan /\ (\A u \in Tasks : Kb(u)' <=> Kb(u)) /\ AllDone'
  BY <1>4 DEF Tasks, planVars, Kb, AllDone, Retrieved
<1>6. AnswerTypeOK'
  BY <1>3, <1>4, <1>5 DEF AnswerInv, AnswerTypeOK, planVars, payloadVars, sharedVars, resultVars
<1>7. BranchesOK'
  <2>1. \A u \in Tasks : /\ ~Kb(u) => step[u] = "waiting" /\ u \notin excluded'
                         /\ step[u] = "raised" => u \in excluded' /\ outcome[u] = "failed"
    BY <1>3, <1>4 DEF AnswerInv, BranchesOK
  <2>2. \A u \in excluded : step[u] # "raised" => u < m
    <3>1. ASSUME NEW u \in excluded, step[u] # "raised" PROVE u < m
      <4>1. ~(m < u)
        BY <1>3, <3>1 DEF AnswerInv, BranchesOK
      <4>2. u \in 1..4
        BY <1>3, TaskNumbers DEF AnswerInv, AnswerTypeOK
      <4> QED
        BY <1>3, <4>1, <4>2
    <3> QED
      BY <3>1
  <2>3. ASSUME NEW u \in excluded', step[u] # "raised"
        PROVE  Collides(u)' /\ \A v \in Tasks \ excluded' : v < u /\ Kb(v) => ~Collides(v)'
    <3>1. u <= m /\ u \in 1..4
      <4>1. u \in 1..4
        BY <1>3, <1>4, TaskNumbers DEF AnswerInv, AnswerTypeOK
      <4>2. CASE u = m  BY <1>3, <4>1, <4>2
      <4>3. CASE u # m
        <5>1. u < m
          BY <1>4, <2>2, <2>3, <4>3
        <5> QED
          BY <1>3, <4>1, <5>1
      <4> QED  BY <4>2, <4>3
    <3>2. Collides(u)
      BY <1>3, <1>4, <2>3 DEF AnswerInv, BranchesOK
    <3>3. found' = found /\ excluded \subseteq excluded' /\ excluded' \ excluded \subseteq {m}
      BY <1>4 DEF payloadVars
    <3>4. Collides(u)'
      <4>1. \A w \in excluded' \ excluded : u <= w
        BY <3>1, <3>3
      <4> QED
        BY <3>1, <3>2, <3>3, <4>1, FewerCollide
    <3>5. ASSUME NEW v \in Tasks \ excluded', v < u, Kb(v) PROVE ~Collides(v)'
      <4>1. v \in 1..4 /\ v \in Tasks \ excluded
        BY <3>3, TaskNumbers DEF AnswerInv
      <4>2. v < m
        BY <1>3, <3>1, <3>5, <4>1
      <4>3. ~Collides(v)
        BY <1>2, <1>3, <3>5, <4>1, <4>2 DEF Collided
      <4> QED
        BY <3>3, <4>1, <4>3, FewerCollide
    <3> QED
      BY <3>4, <3>5
  <2> QED
    BY <1>4, <1>5, <2>1, <2>3 DEF BranchesOK, payloadVars
<1>8. MapOK' /\ EndingOK'
  BY <1>4, <1>5 DEF AnswerInv, MapOK, EndingOK, Told, resultVars
<1>9. VerdictOK'
  <2>1. \A u \in Tasks : verdict[u] = "pending" /\ cites[u] = {}
    BY <1>4 DEF AnswerInv, VerdictOK
  <2> QED
    BY <1>4, <1>5, <2>1 DEF VerdictOK, resultVars
<1>10. PlanOK'
  BY <1>5 DEF AnswerInv, PlanOK
<1> QED
  BY <1>6, <1>7, <1>8, <1>9, <1>10 DEF AnswerInv

\* A later step that leaves the retrievals alone leaves their rules alone.
LEMMA RetrievalsStay ==
    ASSUME AnswerInv, UNCHANGED <<planVars, step, found, lacks, outcome, taken, debug,
                                  omitted, excluded>>
    PROVE  /\ PlanOK' /\ BranchesOK' /\ Tasks' = Tasks
           /\ \A u \in Tasks : /\ Kb(u)' <=> Kb(u)
                               /\ (Kb(u) /\ Collides(u))' <=> (Kb(u) /\ Collides(u))
           /\ AllDone' <=> AllDone
<1>1. Tasks' = Tasks /\ plan' = plan /\ \A u \in Tasks : Kb(u)' <=> Kb(u)
  BY DEF Tasks, planVars, Kb
<1>2. (AllDone' <=> AllDone) /\ \A u : Collides(u)' <=> Collides(u)
  BY <1>1 DEF AllDone, Retrieved, Collides
<1>3. PlanOK'
  BY <1>1 DEF AnswerInv, PlanOK
<1>4. BranchesOK'
  BY <1>1, <1>2 DEF AnswerInv, BranchesOK, AnswerTypeOK
<1> QED
  BY <1>1, <1>2, <1>3, <1>4

\* Why a branch fails depends on nothing an answer or a verdict changes.
LEMMA NamesStay ==
    ASSUME UNCHANGED <<planVars, found, outcome, excluded>>, NEW u, NEW error
    PROVE  Named(u, error)' <=> Named(u, error)
<1>1. /\ Kb(u)' <=> Kb(u)
      /\ Supplemented(u, RouteOutcome(u))' <=> Supplemented(u, RouteOutcome(u))
  BY DEF Kb, Supplemented, RouteOutcome, planVars
<1>2. Allotted(u)' = Allotted(u)
  BY <1>1 DEF Allotted
<1> QED
  BY <1>1, <1>2 DEF Named, FreeAnswer, planVars

LEMMA AllocateKeeps == ASSUME AnswerInv, Allocate PROVE AnswerInv'
<1> DEFINE kept == {t \in Tasks \ excluded : Kb(t)}
           with(s) == {t \in kept : s \in DOMAIN found[t]}
           shown == UNION {DOMAIN found[t] : t \in kept}
<1>1. /\ stage = "retrieving" /\ stage' = "answering" /\ AllDone /\ Collided = {}
      /\ sourceMap' = [s \in shown |-> found[Sets!Min(with(s))][s]]
      /\ UNCHANGED <<planVars, step, payloadVars, sharedVars, excluded, resultVars, ending>>
  BY DEF Allocate, AllRetrieved, AllDone
<1>2. kept \subseteq 1..4 /\ kept \subseteq Tasks
  BY TaskNumbers DEF AnswerInv
<1>3. \A t \in Tasks : found[t] \in Findings
  BY DEF AnswerInv, AnswerTypeOK
<1>4. ASSUME NEW t \in kept, NEW s \in DOMAIN found[t]
      PROVE  /\ s \in shown /\ s \in Sources
             /\ found[Sets!Min(with(s))][s] = found[t][s] /\ found[t][s] \in Prints
  <2>1. t \in with(s) /\ with(s) \subseteq 1..4 /\ with(s) \subseteq kept
    BY <1>2
  <2>2. PICK h \in with(s) : h = Sets!Min(with(s)) /\ \A u \in with(s) : h <= u
    <3> HIDE DEF with
    <3> QED
      BY <2>1, First
  <2>3. h <= t /\ h \in kept /\ s \in DOMAIN found[h] /\ h \in 1..4 /\ t \in 1..4
    BY <1>2, <2>1, <2>2
  <2>4. ~Collides(t)
    BY <1>1 DEF Collided
  <2>5. found[h][s] = found[t][s]
    <3>1. CASE h = t  BY <3>1
    <3>2. CASE h # t
      <4>1. h \in 1..(t - 1) \ excluded
        BY <2>3, <3>2
      <4> QED
        BY <2>3, <2>4, <4>1 DEF Collides
    <3> QED  BY <3>1, <3>2
  <2>6. s \in Sources /\ found[t][s] \in Prints
    BY <1>2, <1>3, <1>4, FindingIs
  <2> QED
    BY <1>4, <2>2, <2>5, <2>6
<1>5. sourceMap' \in Findings
  <2>1. shown \in SUBSET Sources
    BY <1>4
  <2>2. \A s \in shown : found[Sets!Min(with(s))][s] \in Prints
    <3> TAKE s \in shown
    <3>1. PICK t \in kept : s \in DOMAIN found[t]
      OBVIOUS
    <3> HIDE DEF kept, with, shown
    <3> QED
      BY <1>4, <3>1
  <2>3. [s \in shown |-> found[Sets!Min(with(s))][s]] \in [shown -> Prints]
    <3> HIDE DEF kept, with, shown
    <3> QED
      BY <2>2
  <2> HIDE DEF kept, with, shown
  <2> QED
    BY <1>1, <2>1, <2>3, IsFinding
<1>6. /\ PlanOK' /\ BranchesOK' /\ Tasks' = Tasks /\ (AllDone' <=> AllDone)
      /\ \A u \in Tasks : Kb(u)' <=> Kb(u)
  BY <1>1, RetrievalsStay DEF payloadVars, sharedVars
<1>7. AnswerTypeOK'
  BY <1>1, <1>5, <1>6 DEF AnswerInv, AnswerTypeOK, planVars, payloadVars, sharedVars, resultVars
<1>8. MapOK'
  <2>1. ASSUME NEW t \in Tasks \ excluded, Kb(t), NEW s \in DOMAIN found[t]
        PROVE  s \in DOMAIN sourceMap' /\ sourceMap'[s] = found[t][s]
    <3>1. t \in kept
      BY <2>1
    <3> HIDE DEF kept, with, shown
    <3> QED
      BY <1>1, <1>4, <3>1
  <2> QED
    BY <1>1, <1>6, <2>1 DEF MapOK, payloadVars
<1>9. VerdictOK'
  <2>1. \A u \in Tasks : verdict[u] = "pending" /\ cites[u] = {}
    BY <1>1 DEF AnswerInv, VerdictOK
  <2> QED
    BY <1>1, <1>6, <2>1 DEF VerdictOK, resultVars
<1>10. EndingOK'
  BY <1>1, <1>6 DEF AnswerInv, EndingOK, Told, resultVars
<1> QED
  BY <1>6, <1>7, <1>8, <1>9, <1>10 DEF AnswerInv


-----------------------------------------------------------------------------
(* The answers.                                                            *)

\* A branch is answered, and its answer is one the verdict may rest on.
LEMMA AnswerMoves ==
    ASSUME AnswerInv, NEW t \in Tasks, MayAnswer(t),
           NEW said \in {"succeeded", "empty", "denied", "failed"},
           NEW grounding \in {"none", "grounded", "ungrounded"},
           NEW cited \in SUBSET Sources,
           NEW error \in {"", "branch_retrieval_failed", "answer_service_unavailable",
                          "branch_execution_failed"},
           Answer(t, said, grounding, cited, error),
           t \in excluded => said = "failed",
           IF said = "succeeded" /\ Kb(t) /\ grounding = "grounded"
             THEN cited # {} /\ cited \subseteq DOMAIN found[t] ELSE cited = {},
           said = "failed" => Named(t, error)
    PROVE  AnswerInv'
<1>1. PICK how \in {"none", "grounded", "ungrounded"} :
        how = IF Kb(t) THEN grounding ELSE "none"
  OBVIOUS
<1>2. /\ verdict' = [verdict EXCEPT ![t] = said] /\ mode' = [mode EXCEPT ![t] = how]
      /\ cites' = [cites EXCEPT ![t] = cited] /\ fault' = [fault EXCEPT ![t] = error]
      /\ UNCHANGED <<planVars, stage, step, payloadVars, sharedVars, excluded, sourceMap,
                     ending>>
  BY <1>1 DEF Answer
<1>3. stage = "answering" /\ ending = "running"
  BY DEF MayAnswer, AnswerInv, EndingOK
<1>4. /\ PlanOK' /\ BranchesOK' /\ Tasks' = Tasks /\ (AllDone' <=> AllDone)
      /\ \A u \in Tasks : Kb(u)' <=> Kb(u)
  BY <1>2, RetrievalsStay DEF payloadVars, sharedVars
<1>5. /\ verdict \in [Tasks -> {"pending", "succeeded", "empty", "denied", "failed"}]
      /\ mode \in [Tasks -> {"none", "grounded", "ungrounded"}]
      /\ cites \in [Tasks -> SUBSET Sources]
      /\ fault \in [Tasks -> {"", "branch_retrieval_failed", "answer_service_unavailable",
                            "branch_execution_failed", "citation_validation_failed"}]
  BY DEF AnswerInv, AnswerTypeOK
<1>6. /\ verdict' \in [Tasks -> {"pending", "succeeded", "empty", "denied", "failed"}]
      /\ mode' \in [Tasks -> {"none", "grounded", "ungrounded"}]
      /\ cites' \in [Tasks -> SUBSET Sources]
      /\ fault' \in [Tasks -> {"", "branch_retrieval_failed", "answer_service_unavailable",
                            "branch_execution_failed", "citation_validation_failed"}]
  BY <1>2, <1>5
<1>7. AnswerTypeOK'
  BY <1>2, <1>4, <1>6 DEF AnswerInv, AnswerTypeOK, planVars, payloadVars, sharedVars
<1>8. MapOK' /\ EndingOK'
  BY <1>2, <1>3, <1>4 DEF AnswerInv, MapOK, EndingOK, payloadVars
<1>9. VerdictOK'
  <2>1. ASSUME NEW u \in Tasks
        PROVE  /\ u \in excluded => verdict'[u] \in {"pending", "failed"}
               /\ IF verdict'[u] = "succeeded" /\ mode'[u] = "grounded"
                  THEN Kb(u) /\ cites'[u] # {} /\ cites'[u] \subseteq DOMAIN found[u]
                  ELSE cites'[u] = {}
               /\ verdict'[u] = "failed" => Named(u, fault'[u])
    <3>1. CASE u = t
      <4>1. verdict'[t] = said /\ mode'[t] = how /\ cites'[t] = cited /\ fault'[t] = error
        BY <1>2, <1>5
      <4>2. CASE Kb(t)
        <5>1. how = grounding
          BY <1>1, <4>2
        <5> QED
          BY <3>1, <4>1, <4>2, <5>1
      <4>3. CASE ~Kb(t)
        <5>1. how = "none"
          BY <1>1, <4>3
        <5> QED
          BY <3>1, <4>1, <4>3, <5>1
      <4> QED
        BY <4>2, <4>3
    <3>2. CASE u # t
      <4>1. /\ verdict'[u] = verdict[u] /\ mode'[u] = mode[u] /\ cites'[u] = cites[u]
            /\ fault'[u] = fault[u]
        BY <1>2, <1>5, <3>2
      <4> QED
        BY <4>1 DEF AnswerInv, VerdictOK
    <3> QED
      BY <3>1, <3>2
  <2>2. \A u, e : Named(u, e)' <=> Named(u, e)
    BY <1>2, NamesStay DEF payloadVars
  <2> QED
    BY <1>2, <1>3, <1>4, <2>1, <2>2 DEF VerdictOK, payloadVars
<1> QED
  BY <1>4, <1>7, <1>8, <1>9 DEF AnswerInv

LEMMA BranchAnswerKeeps ==
    ASSUME AnswerInv, NEW t \in Tasks, BranchAnswer(t) PROVE AnswerInv'
<1>1. CASE AnswerNotRetrieved(t)
  <2>1. /\ MayAnswer(t) /\ Named(t, "branch_retrieval_failed")
        /\ Answer(t, "failed", "none", {}, "branch_retrieval_failed")
    BY <1>1 DEF AnswerNotRetrieved, Retrievable, RouteOutcome, Named
  <2> QED
    BY <2>1, AnswerMoves
<1>2. CASE AnswerLocally(t)
  <2>1. PICK said \in {"denied", "succeeded"} : Answer(t, said, "none", {}, "")
    <3>1. CASE plan[t].kind = "general"  BY <1>2, <3>1 DEF AnswerLocally
    <3>2. CASE plan[t].kind # "general"  BY <1>2, <3>2 DEF AnswerLocally
    <3> QED  BY <3>1, <3>2
  <2>2. MayAnswer(t) /\ t \notin excluded
    BY <1>2 DEF AnswerLocally, Local, Kb, AnswerInv, BranchesOK
  <2> QED
    BY <2>1, <2>2, AnswerMoves
<1>3. CASE AnswerEmpty(t)
  <2>1. MayAnswer(t) /\ t \notin excluded /\ Answer(t, "empty", "none", {}, "")
    BY <1>3 DEF AnswerEmpty, Retrievable
  <2> QED
    BY <2>1, AnswerMoves
<1>4. CASE AnswerUnavailable(t)
  <2>1. /\ MayAnswer(t) /\ Named(t, "answer_service_unavailable")
        /\ Answer(t, "failed", "none", {}, "answer_service_unavailable")
    BY <1>4 DEF AnswerUnavailable, NeedsModel, Named
  <2> QED
    BY <2>1, AnswerMoves
<1>5. CASE AnswerRaises(t)
  <2>1. /\ MayAnswer(t) /\ Named(t, "branch_execution_failed")
        /\ Answer(t, "failed", "none", {}, "branch_execution_failed")
    BY <1>5 DEF AnswerRaises, NeedsModel, Named
  <2> QED
    BY <2>1, AnswerMoves
<1>6. CASE AnswerFreely(t)
  <2>1. /\ MayAnswer(t) /\ t \notin excluded
        /\ Answer(t, "succeeded", "ungrounded", {}, "")
    BY <1>6 DEF AnswerFreely, NeedsModel, Retrievable
  <2> QED
    BY <2>1, AnswerMoves
<1>7. CASE AnswerGrounded(t)
  <2>1. MayAnswer(t) /\ t \notin excluded /\ Kb(t) /\ Allotted(t) = DOMAIN found[t]
    BY <1>7 DEF AnswerGrounded, NeedsModel, Retrievable, Allotted
  <2>2. PICK X \in Published(Allotted(t)) : Answer(t, "succeeded", "grounded", X, "")
    BY <1>7 DEF AnswerGrounded
  <2>3. DOMAIN found[t] \subseteq Sources
    BY FindingIs DEF AnswerInv, AnswerTypeOK
  <2>4. X \in SUBSET Sources /\ X # {} /\ X \subseteq DOMAIN found[t]
    BY <2>1, <2>2, <2>3 DEF Published, ValidCitations
  <2> QED
    BY <2>1, <2>2, <2>4, AnswerMoves
<1>8. CASE AnswerMislabelled(t)
  <2>1. MayAnswer(t) /\ Named(t, "") /\ Answer(t, "failed", "none", {}, "")
    BY <1>8 DEF AnswerMislabelled, NeedsModel, Named
  <2> QED
    BY <2>1, AnswerMoves
<1> QED
  BY <1>1, <1>2, <1>3, <1>4, <1>5, <1>6, <1>7, <1>8 DEF BranchAnswer

\* Every citation that was published passes the last validation.
LEMMA NoneWithdrawn == ASSUME AnswerInv PROVE Withdrawn = {}
<1>1. ASSUME NEW t \in Tasks, verdict[t] = "succeeded", mode[t] = "grounded"
      PROVE  ValidCitations(cites[t], Allotted(t))
  <2>1. Kb(t) /\ cites[t] # {} /\ cites[t] \subseteq DOMAIN found[t]
    BY <1>1 DEF AnswerInv, VerdictOK
  <2>2. t \notin excluded
    BY <1>1 DEF AnswerInv, VerdictOK
  <2> QED
    BY <2>1, <2>2 DEF ValidCitations, Allotted
<1> QED
  BY <1>1 DEF Withdrawn

\* The outcome of a turn with answers is one of four.
LEMMA OutcomeOf ==
    ASSUME NEW modes PROVE
      /\ modes = {} => TurnOutcome(modes) = "not_committable"
      /\ modes # {} => TurnOutcome(modes) \in {"local", "grounded", "ungrounded", "mixed"}
  BY DEF TurnOutcome

LEMMA ConcludeKeeps == ASSUME AnswerInv, Conclude PROVE AnswerInv'
<1>1. /\ stage = "answering" /\ stage' = "ended"
      /\ UNCHANGED <<planVars, step, payloadVars, sharedVars, excluded, sourceMap>>
  BY DEF Conclude
<1>2. UNCHANGED <<verdict, mode, cites, fault>>
  <2>1. /\ verdict' = [t \in Tasks |-> verdict[t]] /\ mode' = [t \in Tasks |-> mode[t]]
        /\ cites' = [t \in Tasks |-> cites[t]] /\ fault' = [t \in Tasks |-> fault[t]]
    BY NoneWithdrawn DEF Conclude
  <2> QED
    BY <2>1 DEF AnswerInv, AnswerTypeOK
<1>3. ending' = IF \A t \in Tasks : step[t] = "raised" THEN "error"
                ELSE TurnOutcome({mode[t] : t \in Told})
  <2>1. \A t \in Tasks : mode'[t] = mode[t]
    BY <1>2
  <2>2. {mode'[t] : t \in Told \ Withdrawn} = {mode[t] : t \in Told}
    BY <2>1, NoneWithdrawn DEF Told
  <2> QED
    BY <2>2 DEF Conclude
<1>4. /\ PlanOK' /\ BranchesOK' /\ Tasks' = Tasks /\ (AllDone' <=> AllDone)
      /\ \A u \in Tasks : Kb(u)' <=> Kb(u)
  BY <1>1, RetrievalsStay DEF payloadVars, sharedVars
<1>5. /\ ending' \in {"error", "not_committable", "local", "grounded", "ungrounded", "mixed"}
      /\ ending' \in {"not_committable", "error"} <=> Told = {}
  <2>1. CASE \A t \in Tasks : step[t] = "raised"
    <3>1. \A t \in Tasks : verdict[t] \in {"pending", "failed"}
      BY <2>1 DEF AnswerInv, BranchesOK, VerdictOK
    <3> QED
      BY <1>3, <2>1, <3>1 DEF Told
  <2>2. CASE ~\A t \in Tasks : step[t] = "raised"
    <3>1. ending' = TurnOutcome({mode[t] : t \in Told})
      BY <1>3, <2>2
    <3>2. {mode[t] : t \in Told} = {} <=> Told = {}
      OBVIOUS
    <3>3. CASE Told = {}
      <4>1. ending' = "not_committable"
        BY <3>1, <3>2, <3>3, OutcomeOf
      <4> QED  BY <3>3, <4>1
    <3>4. CASE Told # {}
      <4>1. ending' \in {"local", "grounded", "ungrounded", "mixed"}
        BY <3>1, <3>2, <3>4, OutcomeOf
      <4> QED  BY <3>4, <4>1
    <3> QED
      BY <3>3, <3>4
  <2> QED
    BY <2>1, <2>2
<1>6. AnswerTypeOK'
  BY <1>1, <1>2, <1>4, <1>5 DEF AnswerInv, AnswerTypeOK, planVars, payloadVars, sharedVars
<1>7. MapOK'
  BY <1>1, <1>4 DEF AnswerInv, MapOK, payloadVars
<1>8. VerdictOK'
  <2>1. \A u, e : Named(u, e)' <=> Named(u, e)
    BY <1>1, NamesStay DEF payloadVars
  <2> QED
    BY <1>1, <1>2, <1>4, <2>1 DEF AnswerInv, VerdictOK, payloadVars
<1>9. EndingOK'
  <2>1. Told' = Told
    BY <1>2, <1>4 DEF Told
  <2> QED
    BY <1>1, <1>5, <2>1 DEF EndingOK
<1> QED
  BY <1>4, <1>6, <1>7, <1>8, <1>9 DEF AnswerInv

LEMMA AnswerStarts == ASSUME AnswerInit PROVE AnswerInv
<1>1. PlanOK
  <2>1. PICK n \in 2..MaxTasks : plan \in [1..n -> [kind : Kinds, needs : SUBSET (1..n)]]
    BY DEF AnswerInit
  <2>2. n \in 2..4
    BY CompositeAssumption
  <2> QED
    BY <2>1, <2>2 DEF PlanOK
<1>2. Tasks \subseteq 1..4
  BY <1>1, TaskNumbers
<1>3. AnswerTypeOK
  <2>1. forced \in 0..4
    <3>1. forced \in {0} \cup Tasks
      BY DEF AnswerInit
    <3> QED
      BY <1>2, <3>1
  <2>2. found \in [Tasks -> Findings] /\ sourceMap \in Findings
    BY NoFinding DEF AnswerInit
  <2>3. /\ step \in [Tasks -> {"waiting", "searching", "searched", "judged", "retrieved",
                             "raised"}]
        /\ lacks \in [Tasks -> BOOLEAN]
        /\ outcome \in [Tasks -> {"none", "sufficient", "partial", "empty", "failed"}]
        /\ taken \in [Tasks -> {Nobody} \cup Tasks]
    BY DEF AnswerInit
  <2>4. /\ verdict \in [Tasks -> {"pending", "succeeded", "empty", "denied", "failed"}]
        /\ mode \in [Tasks -> {"none", "grounded", "ungrounded"}]
        /\ cites \in [Tasks -> SUBSET Sources]
        /\ fault \in [Tasks -> {"", "branch_retrieval_failed", "answer_service_unavailable",
                              "branch_execution_failed", "citation_validation_failed"}]
    BY DEF AnswerInit
  <2> QED
    BY <2>1, <2>2, <2>3, <2>4 DEF AnswerInit, AnswerTypeOK
<1>4. BranchesOK /\ MapOK /\ VerdictOK /\ EndingOK
  BY DEF AnswerInit, BranchesOK, MapOK, VerdictOK, EndingOK
<1> QED
  BY <1>1, <1>3, <1>4 DEF AnswerInv

LEMMA AnswerKeeps == ASSUME AnswerInv, [AnswerNext]_answerVars PROVE AnswerInv'
<1>1. ASSUME NEW t \in Tasks, Retrieval(t) PROVE AnswerInv'
  BY <1>1, SkipKeeps, BeginKeeps, EndKeeps, FailKeeps, RaiseKeeps, JudgedKeeps, TakeKeeps
  DEF Retrieval
<1>2. CASE UNCHANGED answerVars
  <2>1. /\ PlanOK' /\ BranchesOK' /\ Tasks' = Tasks /\ (AllDone' <=> AllDone)
        /\ \A u \in Tasks : Kb(u)' <=> Kb(u)
    BY <1>2, RetrievalsStay DEF answerVars, planVars, payloadVars, sharedVars
  <2>2. AnswerTypeOK'
    BY <1>2, <2>1 DEF AnswerInv, AnswerTypeOK, answerVars, planVars, payloadVars, sharedVars,
                      resultVars
  <2>3. MapOK'
    BY <1>2, <2>1 DEF AnswerInv, MapOK, answerVars, payloadVars
  <2>4. VerdictOK'
    <3>1. \A u, e : Named(u, e)' <=> Named(u, e)
      BY <1>2, NamesStay DEF answerVars, payloadVars
    <3> QED
      BY <1>2, <2>1, <3>1 DEF AnswerInv, VerdictOK, answerVars, payloadVars, resultVars
  <2>5. EndingOK'
    BY <1>2, <2>1 DEF AnswerInv, EndingOK, Told, answerVars, resultVars
  <2> QED
    BY <2>1, <2>2, <2>3, <2>4, <2>5 DEF AnswerInv
<1> QED
  BY <1>1, <1>2, LeaveOutKeeps, AllocateKeeps, BranchAnswerKeeps, ConcludeKeeps
  DEF AnswerNext

LEMMA InvAnswers == ASSUME AnswerInv PROVE AnswerContract
<1>1. CitationsClosed
  <2>1. ASSUME NEW t \in Tasks, verdict[t] = "succeeded", mode[t] = "grounded"
        PROVE  /\ cites[t] # {}
               /\ \A s \in cites[t] : /\ s \in DOMAIN found[t] /\ s \in DOMAIN sourceMap
                                      /\ sourceMap[s] = found[t][s]
    <3>1. Kb(t) /\ cites[t] # {} /\ cites[t] \subseteq DOMAIN found[t] /\ t \notin excluded
      BY <2>1 DEF AnswerInv, VerdictOK
    <3>2. stage # "retrieving"
      BY <2>1 DEF AnswerInv, VerdictOK
    <3> QED
      BY <3>1, <3>2 DEF AnswerInv, MapOK
  <2> QED
    BY <2>1 DEF CitationsClosed, AnswerInv, VerdictOK
<1>2. AnswersSurvive
  <2>1. ASSUME NEW t \in Tasks, t \in excluded
        PROVE  Kb(t) /\ (outcome[t] = "failed" \/ Collides(t))
    BY <2>1 DEF AnswerInv, BranchesOK
  <2>2. ASSUME NEW t \in Tasks, verdict[t] = "failed" PROVE FailureNamed(t)
    <3>1. Named(t, fault[t])
      BY <2>2 DEF AnswerInv, VerdictOK
    <3> QED
      BY <2>1, <3>1 DEF Named, FailureNamed
  <2> QED
    BY <2>2 DEF AnswersSurvive, AnswerInv, EndingOK
<1> QED
  BY <1>1, <1>2 DEF AnswerContract

(* The answers of a composite request (CompositeAnswer, execution.py): for   *)
(* any sources and contents, and whatever searches, models, drafts and       *)
(* allocations fail, a grounded branch cites what its own search found and   *)
(* the map shows, the turn is committed exactly when some branch has an      *)
(* answer, and a failed branch reports the failure it met.                   *)
THEOREM AnswerSafety == AnswerSpec => []AnswerContract
<1>1. AnswerInit => AnswerInv
  BY AnswerStarts
<1>2. AnswerInv /\ [AnswerNext]_answerVars => AnswerInv'
  BY AnswerKeeps
<1>3. AnswerInv => AnswerContract
  BY InvAnswers
<1> QED
  BY <1>1, <1>2, <1>3, PTL DEF AnswerSpec

-----------------------------------------------------------------------------
(* The crawler.                                                            *)

PagesAndFiles == WikiPages \cup WikiFiles

Crawls ==
    [pc : {"next", "scan", "index", "fetch", "data", "mark", "upsert"},
     kind : {"full", "limited"}, ns : Namespaces, scanned : SUBSET Namespaces,
     seen : SUBSET PagesAndFiles, todo : SUBSET WikiPages,
     page : {"none"} \cup PagesAndFiles, rev : Never..(MaxChanges + 1)]

CrawlKinds ==
    /\ CrawlTypeOK
    /\ wiki \in [WikiPages -> [kind : {"absent", "page", "redirect", "gone"},
                               rev : 0..(changes + 1)]]
    /\ fullRun \in [status : {"none", "running", "completed", "failed"},
                    scans : SUBSET Namespaces]
    /\ crawl = NoCrawl \/ crawl \in Crawls
    /\ crawl # NoCrawl /\ crawl.pc \in {"index", "data", "mark"} => crawl.rev # Never

TextOf(p, r) == <<p, r>> \in text \/ "wikitext" \in damaged
DataOf(p, r) == p \in DataPages => <<p, r>> \in data \/ "data_pages" \in damaged

(* A page in hand has its records before its row. *)
RecordsFirst ==
    /\ FetchedIsRecorded
    /\ Crawling("data") \/ Crawling("mark") => TextOf(crawl.page, crawl.rev)
    /\ Crawling("mark") => DataOf(crawl.page, crawl.rev)

Fresh(p) == status[p] = "active" /\ lastrevid[p] = wiki[p].rev

(* The scan of a full crawl meets every page that stays as it is. *)
QuietIsFresh ==
    /\ \A p \in quiet : wiki[p].kind = "page"
    /\ crawl # NoCrawl => (limited <=> crawl.kind = "limited")
    /\ ~limited => \A ns \in fullRun.scans : \A p \in quiet \cap InNamespace(ns) : Fresh(p)
    /\ ~limited /\ (Crawling("scan") \/ Crawling("index")) =>
          /\ quiet \cap InNamespace(crawl.ns) \subseteq settled
          /\ \A p \in quiet \cap crawl.seen : Fresh(p)
    /\ ~limited /\ Crawling("index") /\ crawl.page \in quiet =>
          crawl.rev = wiki[crawl.page].rev

CrawlInv == CrawlKinds /\ RecordsFirst /\ QuietIsFresh

Revisions == Never..(MaxChanges + 1)

LEMMA RowKinds ==
    ASSUME CrawlKinds
    PROVE  /\ lastrevid \in [WikiPages -> Revisions] /\ fetched \in [WikiPages -> Revisions]
           /\ listed \in [WikiPages -> Revisions]
           /\ status \in [WikiPages -> {"none", "active", "missing"}]
           /\ \A p \in WikiPages : /\ wiki[p].rev \in 0..(MaxChanges + 1)
                                  /\ wiki[p].rev \in Revisions
           /\ text \cup data \subseteq WikiPages \X (0..(MaxChanges + 1))
           /\ resources \subseteq WikiFiles /\ manifest \subseteq WikiFiles
           /\ unfinished \subseteq damaged /\ faults \in 0..MaxFaults
           /\ fullRun \in [status : {"none", "running", "completed", "failed"},
                           scans : SUBSET Namespaces]
  BY CrawlAssumption DEF CrawlKinds, CrawlTypeOK, Revisions, Never

\* The crawl under way.
LEMMA CrawlIs ==
    ASSUME CrawlKinds, crawl # NoCrawl
    PROVE  /\ crawl \in Crawls
           /\ crawl.pc \in {"next", "scan", "index", "fetch", "data", "mark", "upsert"}
           /\ crawl.kind \in {"full", "limited"} /\ crawl.ns \in Namespaces
           /\ crawl.scanned \in SUBSET Namespaces /\ crawl.seen \in SUBSET PagesAndFiles
           /\ crawl.todo \in SUBSET WikiPages /\ crawl.page \in {"none"} \cup PagesAndFiles
           /\ crawl.rev \in Revisions
  BY DEF CrawlKinds, Crawls, Revisions

\* A crawl as it is written down.
LEMMA IsCrawl ==
    ASSUME NEW pc \in {"next", "scan", "index", "fetch", "data", "mark", "upsert"},
           NEW kind \in {"full", "limited"}, NEW ns \in Namespaces,
           NEW scanned \in SUBSET Namespaces, NEW seen \in SUBSET PagesAndFiles,
           NEW todo \in SUBSET WikiPages, NEW page \in {"none"} \cup PagesAndFiles,
           NEW rev \in Revisions
    PROVE  LET c == [pc |-> pc, kind |-> kind, ns |-> ns, scanned |-> scanned,
                     seen |-> seen, todo |-> todo, page |-> page, rev |-> rev]
           IN  c \in Crawls /\ c # NoCrawl
<1> DEFINE c == [pc |-> pc, kind |-> kind, ns |-> ns, scanned |-> scanned,
                 seen |-> seen, todo |-> todo, page |-> page, rev |-> rev]
<1>1. c \in Crawls
  BY DEF Crawls, Revisions
<1>2. c.pc # NoCrawl.pc
  BY DEF NoCrawl
<1>3. c # NoCrawl
  <2> HIDE DEF c
  <2> QED
    BY <1>2
<1> QED
  BY <1>1, <1>3

\* What a record appended to a file leaves of the files.
LEMMA AppendsKeeps ==
    ASSUME CrawlKinds, NEW file, Appends(file)
    PROVE  unfinished' \subseteq damaged' /\ damaged' = damaged
  BY DEF Appends, CrawlKinds, CrawlTypeOK

\* A step of the crawl keeps the types of what it does not touch.
LEMMA KindsStay ==
    ASSUME CrawlKinds, UNCHANGED <<siteVars, status, lastrevid, changes>>,
           fetched' \in [WikiPages -> Revisions], listed' \in [WikiPages -> Revisions],
           text' \cup data' \subseteq WikiPages \X (0..(MaxChanges + 1)),
           resources' \subseteq WikiFiles, manifest' \subseteq WikiFiles,
           unfinished' \subseteq damaged', faults' \in 0..MaxFaults,
           fullRun' \in [status : {"none", "running", "completed", "failed"},
                         scans : SUBSET Namespaces],
           \/ crawl' = NoCrawl
           \/ /\ crawl' \in Crawls
              /\ crawl'.pc \in {"index", "data", "mark"} => crawl'.rev # Never
    PROVE  CrawlKinds'
<1>1. CrawlTypeOK'
  BY DEF CrawlKinds, CrawlTypeOK, siteVars, Revisions
<1> QED
  BY <1>1 DEF CrawlKinds, siteVars

\* What is recorded stays recorded.
LEMMA RecordsGrow ==
    ASSUME RecordsFirst, fetched' = fetched, text \subseteq text', data \subseteq data',
           damaged \subseteq damaged'
    PROVE  FetchedIsRecorded'
  BY DEF RecordsFirst, FetchedIsRecorded

LEMMA RecordsOf ==
    ASSUME text \subseteq text', data \subseteq data', damaged \subseteq damaged', NEW p, NEW r
    PROVE  (TextOf(p, r) => TextOf(p, r)') /\ (DataOf(p, r) => DataOf(p, r)')
  BY DEF TextOf, DataOf

\* Outside the scans nothing changes what a scan established.
LEMMA QuietStays ==
    ASSUME QuietIsFresh, UNCHANGED <<wiki, quiet, status, lastrevid, limited>>,
           fullRun'.scans = fullRun.scans,
           \/ crawl' = NoCrawl
           \/ /\ crawl # NoCrawl /\ crawl'.kind = crawl.kind
              /\ crawl'.pc \notin {"scan", "index"}
    PROVE  QuietIsFresh'
<1>1. ~Crawling("scan")' /\ ~Crawling("index")'
  BY DEF Crawling
<1>2. crawl' # NoCrawl => (limited' <=> crawl'.kind = "limited")
  BY DEF QuietIsFresh
<1>3. \A p : Fresh(p)' <=> Fresh(p)
  BY DEF Fresh
<1> QED
  BY <1>1, <1>2, <1>3 DEF QuietIsFresh

-----------------------------------------------------------------------------
(* The scans.                                                              *)

LEMMA StartCrawlKeeps ==
    ASSUME CrawlInv, NEW how \in {"full", "limited"}, StartCrawl(how) PROVE CrawlInv'
<1>1. /\ crawl' \in Crawls /\ crawl' # NoCrawl /\ crawl'.pc = "next" /\ crawl'.kind = how
  <2>1. crawl' = [pc |-> "next", kind |-> how, ns |-> "main", scanned |-> {},
                  seen |-> {}, todo |-> {}, page |-> "none", rev |-> Never]
    BY DEF StartCrawl
  <2>2. Never \in Revisions /\ "main" \in Namespaces
    BY CrawlAssumption DEF Never, Revisions, Namespaces
  <2> QED
    BY <2>1, <2>2, IsCrawl
<1>2. UNCHANGED <<wiki, settled, pageTable, resources, recordVars, fileVars, faults, changes>>
  BY DEF StartCrawl
<1>3. /\ quiet' \subseteq WikiPages
      /\ fullRun' \in [status : {"none", "running", "completed", "failed"},
                       scans : SUBSET Namespaces]
  <2>1. CASE how = "full"
    BY <2>1 DEF StartCrawl, Listable
  <2>2. CASE how # "full"
    BY <2>2, RowKinds DEF StartCrawl, CrawlInv, CrawlKinds, CrawlTypeOK
  <2> QED
    BY <2>1, <2>2
<1>4. CrawlKinds'
  <2>1. CrawlTypeOK'
    BY <1>2, <1>3 DEF CrawlInv, CrawlKinds, CrawlTypeOK, pageTable, recordVars, fileVars
  <2> QED
    BY <1>1, <1>2, <1>3, <2>1 DEF CrawlInv, CrawlKinds
<1>5. RecordsFirst'
  <2>1. FetchedIsRecorded'
    BY <1>2, RecordsGrow DEF CrawlInv, pageTable, recordVars, fileVars
  <2> QED
    BY <1>1, <2>1 DEF RecordsFirst, Crawling
<1>6. QuietIsFresh'
  <2>1. ~Crawling("scan")' /\ ~Crawling("index")'
    BY <1>1 DEF Crawling
  <2>2. CASE how = "full"
    <3>1. fullRun'.scans = {} /\ ~limited' /\ quiet' = Listable
      BY <2>2 DEF StartCrawl
    <3>2. \A p \in quiet' : wiki'[p].kind = "page"
      BY <1>2, <3>1 DEF Listable
    <3> QED
      BY <1>1, <2>1, <2>2, <3>1, <3>2 DEF QuietIsFresh
  <2>3. CASE how # "full"
    <3>1. limited' /\ quiet' = quiet /\ how = "limited"
      BY <2>3 DEF StartCrawl
    <3> QED
      BY <1>1, <1>2, <2>1, <3>1 DEF QuietIsFresh, CrawlInv
  <2> QED
    BY <2>2, <2>3
<1> QED
  BY <1>4, <1>5, <1>6 DEF CrawlInv

\* A step within the scans changes the place of the crawl.
LEMMA CrawlGoes ==
    ASSUME CrawlKinds, crawl # NoCrawl,
           NEW pc \in {"next", "scan", "index", "fetch", "data", "mark", "upsert"},
           NEW page \in {"none"} \cup PagesAndFiles, NEW rev \in Revisions,
           NEW ns \in Namespaces, NEW scanned \in SUBSET Namespaces,
           NEW seen \in SUBSET PagesAndFiles, NEW todo \in SUBSET WikiPages,
           crawl' = [pc |-> pc, kind |-> crawl.kind, ns |-> ns, scanned |-> scanned,
                     seen |-> seen, todo |-> todo, page |-> page, rev |-> rev]
    PROVE  /\ crawl' \in Crawls /\ crawl' # NoCrawl /\ crawl'.pc = pc
           /\ crawl'.kind = crawl.kind /\ crawl'.ns = ns /\ crawl'.scanned = scanned
           /\ crawl'.seen = seen /\ crawl'.todo = todo /\ crawl'.page = page
           /\ crawl'.rev = rev
<1>1. crawl.kind \in {"full", "limited"}
  BY CrawlIs
<1>2. PICK kind \in {"full", "limited"} : kind = crawl.kind
  BY <1>1
<1>3. crawl' = [pc |-> pc, kind |-> kind, ns |-> ns, scanned |-> scanned,
                seen |-> seen, todo |-> todo, page |-> page, rev |-> rev]
  BY <1>2
<1>4. crawl' \in Crawls
  BY <1>2, <1>3 DEF Crawls, Revisions
<1>5. crawl'.pc # NoCrawl.pc
  BY <1>3 DEF NoCrawl
<1> QED
  BY <1>2, <1>3, <1>4, <1>5

LEMMA StartScanKeeps ==
    ASSUME CrawlInv, NEW space \in Namespaces, StartScan(space) PROVE CrawlInv'
<1>1. /\ crawl # NoCrawl /\ crawl.pc = "next"
      /\ CrawlKinds
      /\ settled' = Listable \cap InNamespace(space)
      /\ UNCHANGED <<wiki, quiet, pageTable, resources, runVars, recordVars, fileVars,
                     faults, changes>>
  BY DEF StartScan, Crawling, CrawlInv
<1>2. crawl' = [pc |-> "scan", kind |-> crawl.kind, ns |-> space, scanned |-> crawl.scanned,
                seen |-> {}, todo |-> crawl.todo, page |-> crawl.page, rev |-> crawl.rev]
  BY <1>1, CrawlIs DEF StartScan, Crawls
<1>3. /\ crawl' \in Crawls /\ crawl' # NoCrawl /\ crawl'.pc = "scan"
      /\ crawl'.kind = crawl.kind /\ crawl'.ns = space /\ crawl'.seen = {}
  <2>1. {} \in SUBSET PagesAndFiles
    OBVIOUS
  <2> QED
    BY <1>1, <1>2, <2>1, CrawlIs, CrawlGoes
<1>4. CrawlKinds'
  <2>1. settled' \subseteq WikiPages
    BY <1>1 DEF Listable
  <2>2. CrawlTypeOK'
    BY <1>1, <2>1 DEF CrawlKinds, CrawlTypeOK, pageTable, recordVars, fileVars, runVars
  <2> QED
    BY <1>1, <1>3, <2>2 DEF CrawlKinds, runVars
<1>5. RecordsFirst'
  <2>1. FetchedIsRecorded'
    BY <1>1, RecordsGrow DEF CrawlInv, pageTable, recordVars, fileVars
  <2> QED
    BY <1>3, <2>1 DEF RecordsFirst, Crawling
<1>6. QuietIsFresh'
  <2>1. \A p \in quiet : p \in Listable
    BY DEF CrawlInv, QuietIsFresh, Listable, CrawlKinds, CrawlTypeOK
  <2>2. \A p : Fresh(p)' <=> Fresh(p)
    BY <1>1 DEF Fresh, pageTable
  <2>3. quiet' \cap InNamespace(crawl.ns)' \subseteq settled'
    <3>1. InNamespace(crawl.ns)' = InNamespace(space)
      BY <1>3 DEF InNamespace
    <3> QED
      BY <1>1, <2>1, <3>1
  <2>4. ~Crawling("index")' /\ crawl # NoCrawl /\ crawl'.seen = {}
    BY <1>1, <1>3 DEF Crawling
  <2>5. \A ns : InNamespace(ns)' = InNamespace(ns)
    BY DEF InNamespace
  <2>6. /\ \A p \in quiet' : wiki'[p].kind = "page"
        /\ crawl' # NoCrawl => (limited' <=> crawl'.kind = "limited")
        /\ ~limited' => \A ns \in fullRun'.scans :
                         \A p \in quiet' \cap InNamespace(ns)' : Fresh(p)'
    BY <1>1, <1>3, <2>2, <2>5 DEF QuietIsFresh, CrawlInv, runVars
  <2> QED
    BY <2>3, <2>4, <2>6 DEF QuietIsFresh
<1> QED
  BY <1>4, <1>5, <1>6 DEF CrawlInv

LEMMA RecordPageKeeps ==
    ASSUME CrawlInv, NEW p \in WikiPages, RecordPage(p) PROVE CrawlInv'
<1>1. /\ crawl # NoCrawl /\ crawl.pc = "scan" /\ p \in ToList /\ CrawlKinds
      /\ p \in InNamespace(crawl.ns)
      /\ UNCHANGED <<siteVars, pageTable, resources, runVars, text, data, manifest, faults,
                     changes>>
  BY DEF RecordPage, Crawling, CrawlInv, ToList
<1>2. wiki[p].rev \in Revisions /\ wiki[p].rev # Never
  BY <1>1, RowKinds DEF Never
<1>3. crawl' = [pc |-> "index", kind |-> crawl.kind, ns |-> crawl.ns,
                scanned |-> crawl.scanned, seen |-> crawl.seen, todo |-> crawl.todo,
                page |-> p, rev |-> wiki[p].rev]
  BY <1>1, CrawlIs DEF RecordPage, Crawls
<1>4. /\ crawl' \in Crawls /\ crawl' # NoCrawl /\ crawl'.pc = "index"
      /\ crawl'.kind = crawl.kind /\ crawl'.ns = crawl.ns /\ crawl'.seen = crawl.seen
      /\ crawl'.page = p /\ crawl'.rev = wiki[p].rev
  <2>1. p \in {"none"} \cup PagesAndFiles
    BY DEF PagesAndFiles
  <2> QED
    BY <1>1, <1>2, <1>3, <2>1, CrawlIs, CrawlGoes
<1>5. unfinished' \subseteq damaged' /\ damaged' = damaged
  BY <1>1, AppendsKeeps DEF RecordPage
<1>6. CrawlKinds'
  <2>1. listed' \in [WikiPages -> Revisions]
    <3>1. listed' = [listed EXCEPT ![p] = wiki[p].rev] \/ listed' = listed
      BY DEF RecordPage
    <3> QED
      BY <1>1, <1>2, <3>1, RowKinds
  <2> QED
    BY <1>1, <1>2, <1>4, <1>5, <2>1, RowKinds, KindsStay DEF pageTable, runVars
<1>7. RecordsFirst'
  <2>1. FetchedIsRecorded'
    BY <1>1, <1>5, RecordsGrow DEF CrawlInv, pageTable
  <2> QED
    BY <1>4, <2>1 DEF RecordsFirst, Crawling
<1>8. QuietIsFresh'
  <2>1. \A q : Fresh(q)' <=> Fresh(q)
    BY <1>1 DEF Fresh, pageTable, siteVars
  <2>2. Crawling("scan") /\ wiki' = wiki /\ quiet' = quiet /\ settled' = settled
        /\ limited' = limited /\ fullRun' = fullRun
    BY <1>1 DEF Crawling, siteVars, runVars
  <2>3. /\ InNamespace(crawl.ns)' = InNamespace(crawl.ns)
        /\ \A ns : InNamespace(ns)' = InNamespace(ns)
    BY <1>4 DEF InNamespace
  <2>4. /\ \A q \in quiet' : wiki'[q].kind = "page"
        /\ crawl' # NoCrawl => (limited' <=> crawl'.kind = "limited")
        /\ ~limited' => \A ns \in fullRun'.scans :
                         \A q \in quiet' \cap InNamespace(ns)' : Fresh(q)'
    BY <1>1, <1>4, <2>1, <2>2, <2>3 DEF QuietIsFresh, CrawlInv
  <2>5. ~limited' => /\ quiet' \cap InNamespace(crawl.ns)' \subseteq settled'
                     /\ \A q \in quiet' \cap crawl'.seen : Fresh(q)'
    BY <1>4, <2>1, <2>2, <2>3 DEF QuietIsFresh, CrawlInv
  <2>6. crawl'.rev = wiki'[crawl'.page].rev
    BY <1>4, <2>2
  <2> QED
    BY <2>4, <2>5, <2>6 DEF QuietIsFresh
<1> QED
  BY <1>6, <1>7, <1>8 DEF CrawlInv

LEMMA IndexPageKeeps ==
    ASSUME CrawlInv, NEW p \in WikiPages, IndexPage(p) PROVE CrawlInv'
<1>1. /\ crawl # NoCrawl /\ crawl.pc = "index" /\ crawl.page = p /\ CrawlKinds
      /\ status' = [status EXCEPT ![p] = "active"]
      /\ lastrevid' = [lastrevid EXCEPT ![p] = crawl.rev]
      /\ UNCHANGED <<siteVars, fetched, resources, runVars, recordVars, fileVars, faults,
                     changes>>
  BY DEF IndexPage, Crawling, CrawlInv
<1>2. crawl.rev \in Revisions /\ crawl.rev # Never /\ Never \in Revisions
  BY <1>1, CrawlIs, CrawlAssumption DEF CrawlKinds, Never, Revisions
<1>3. PICK left \in SUBSET WikiPages :
        crawl' = [pc |-> "scan", kind |-> crawl.kind, ns |-> crawl.ns,
                  scanned |-> crawl.scanned, seen |-> crawl.seen \cup {p}, todo |-> left,
                  page |-> "none", rev |-> Never]
  <2>1. PICK left : left = IF fetched[p] # crawl.rev THEN crawl.todo \cup {p} ELSE crawl.todo
    OBVIOUS
  <2>2. left \in SUBSET WikiPages
    BY <1>1, <2>1, CrawlIs
  <2>3. crawl' = [pc |-> "scan", kind |-> crawl.kind, ns |-> crawl.ns,
                  scanned |-> crawl.scanned, seen |-> crawl.seen \cup {p}, todo |-> left,
                  page |-> "none", rev |-> Never]
    BY <1>1, <2>1, CrawlIs DEF IndexPage, Put, Crawls
  <2> QED
    BY <2>2, <2>3
<1>4. /\ crawl' \in Crawls /\ crawl' # NoCrawl /\ crawl'.pc = "scan"
      /\ crawl'.kind = crawl.kind /\ crawl'.ns = crawl.ns /\ crawl'.seen = crawl.seen \cup {p}
  <2> DEFINE seen == crawl.seen \cup {p}
  <2>1. seen \in SUBSET PagesAndFiles /\ left \in SUBSET WikiPages
    BY <1>1, <1>3, CrawlIs DEF PagesAndFiles
  <2>2. crawl' = [pc |-> "scan", kind |-> crawl.kind, ns |-> crawl.ns,
                  scanned |-> crawl.scanned, seen |-> seen, todo |-> left,
                  page |-> "none", rev |-> Never]
    BY <1>3
  <2> HIDE DEF seen
  <2>3. /\ crawl'.pc = "scan" /\ crawl'.kind = crawl.kind /\ crawl'.ns = crawl.ns
        /\ crawl'.seen = seen
    BY <2>2
  <2>4. crawl' \in Crawls /\ crawl' # NoCrawl
    BY <1>1, <1>2, <2>1, <2>2, CrawlIs, CrawlGoes
  <2> QED
    BY <2>3, <2>4 DEF seen
<1>5. CrawlKinds'
  <2>1. /\ status' \in [WikiPages -> {"none", "active", "missing"}]
        /\ lastrevid' \in [WikiPages -> Revisions]
    BY <1>1, <1>2, RowKinds
  <2>2. \A q \in WikiPages : lastrevid'[q] = Never <=> status'[q] = "none"
    <3>1. \A q \in WikiPages : lastrevid[q] = Never <=> status[q] = "none"
      BY <1>1 DEF CrawlKinds, CrawlTypeOK
    <3> QED
      BY <1>1, <1>2, <3>1, RowKinds
  <2>3. CrawlTypeOK'
    BY <1>1, <2>1, <2>2 DEF CrawlKinds, CrawlTypeOK, siteVars, recordVars, fileVars, runVars,
                            Revisions
  <2> QED
    BY <1>1, <1>4, <2>3 DEF CrawlKinds, siteVars, runVars
<1>6. RecordsFirst'
  <2>1. FetchedIsRecorded'
    BY <1>1, RecordsGrow DEF CrawlInv, recordVars, fileVars
  <2> QED
    BY <1>4, <2>1 DEF RecordsFirst, Crawling
<1>7. QuietIsFresh'
  <2>1. /\ wiki' = wiki /\ quiet' = quiet /\ settled' = settled /\ limited' = limited
        /\ fullRun' = fullRun /\ Crawling("index") /\ ~Crawling("index")'
    BY <1>1, <1>4 DEF Crawling, siteVars, runVars
  <2>2. ASSUME ~limited, NEW q \in quiet, Fresh(q) \/ q = p PROVE Fresh(q)'
    <3>1. q \in WikiPages
      BY <1>1, <2>2 DEF CrawlKinds, CrawlTypeOK
    <3>2. CASE q = p
      <4>1. crawl.rev = wiki[p].rev
        BY <1>1, <2>1, <2>2, <3>2 DEF CrawlInv, QuietIsFresh
      <4> QED
        BY <1>1, <2>1, <3>1, <3>2, <4>1, RowKinds DEF Fresh
    <3>3. CASE q # p
      BY <1>1, <2>1, <2>2, <3>1, <3>3, RowKinds DEF Fresh
    <3> QED
      BY <3>2, <3>3
  <2>3. ~limited => \A ns \in fullRun.scans : \A q \in quiet \cap InNamespace(ns) : Fresh(q)'
    BY <2>2 DEF CrawlInv, QuietIsFresh
  <2>4. ~limited => \A q \in quiet \cap (crawl.seen \cup {p}) : Fresh(q)'
    BY <2>1, <2>2 DEF CrawlInv, QuietIsFresh
  <2> QED
    BY <1>1, <1>4, <2>1, <2>3, <2>4 DEF QuietIsFresh, CrawlInv, InNamespace
<1> QED
  BY <1>5, <1>6, <1>7 DEF CrawlInv

LEMMA EndScanKeeps == ASSUME CrawlInv, EndScan PROVE CrawlInv'
<1>1. /\ crawl # NoCrawl /\ crawl.pc = "scan" /\ CrawlKinds
      /\ LimitReached \/ settled \subseteq crawl.seen
      /\ settled' = {}
      /\ UNCHANGED <<wiki, quiet, lastrevid, fetched, resources, limited, recordVars,
                     fileVars, faults, changes>>
  BY DEF EndScan, Crawling, CrawlInv
<1>2. crawl' = [pc |-> "next", kind |-> crawl.kind, ns |-> crawl.ns,
                scanned |-> crawl.scanned \cup {crawl.ns}, seen |-> {}, todo |-> crawl.todo,
                page |-> crawl.page, rev |-> crawl.rev]
  BY <1>1, CrawlIs DEF EndScan, Crawls
<1>3. /\ crawl' \in Crawls /\ crawl' # NoCrawl /\ crawl'.pc = "next"
      /\ crawl'.kind = crawl.kind
  <2>1. crawl.scanned \cup {crawl.ns} \in SUBSET Namespaces
    BY <1>1, CrawlIs
  <2> QED
    BY <1>1, <1>2, <2>1, CrawlIs, CrawlGoes
<1>4. /\ status' = [p \in WikiPages |->
                     IF p \in InNamespace(crawl.ns) \ crawl.seen /\ status[p] # "none"
                     THEN "missing" ELSE status[p]]
      /\ status' \in [WikiPages -> {"none", "active", "missing"}]
      /\ \A p \in WikiPages : status'[p] = "none" <=> status[p] = "none"
  <2>1. status' = [p \in WikiPages |->
                     IF p \in InNamespace(crawl.ns) \ crawl.seen /\ status[p] # "none"
                     THEN "missing" ELSE status[p]]
    BY DEF EndScan
  <2> QED
    BY <1>1, <2>1, RowKinds
<1>5. /\ fullRun' \in [status : {"none", "running", "completed", "failed"},
                       scans : SUBSET Namespaces]
      /\ IF crawl.kind = "full" THEN fullRun'.scans = fullRun.scans \cup {crawl.ns}
         ELSE fullRun' = fullRun
  <2>1. CASE crawl.kind = "full"
    <3>1. fullRun' = [status |-> fullRun.status, scans |-> fullRun.scans \cup {crawl.ns}]
      BY <1>1, <2>1, RowKinds DEF EndScan
    <3>2. fullRun.scans \cup {crawl.ns} \in SUBSET Namespaces
      BY <1>1, RowKinds, CrawlIs
    <3>3. fullRun.status \in {"none", "running", "completed", "failed"}
      BY <1>1, RowKinds
    <3> QED
      BY <2>1, <3>1, <3>2, <3>3
  <2>2. CASE crawl.kind # "full"
    BY <1>1, <2>2, RowKinds DEF EndScan
  <2> QED
    BY <2>1, <2>2
<1>6. CrawlKinds'
  <2>1. CrawlTypeOK'
    BY <1>1, <1>4, <1>5 DEF CrawlKinds, CrawlTypeOK, recordVars, fileVars
  <2> QED
    BY <1>1, <1>3, <1>5, <2>1 DEF CrawlKinds
<1>7. RecordsFirst'
  <2>1. FetchedIsRecorded'
    BY <1>1, RecordsGrow DEF CrawlInv, recordVars, fileVars
  <2> QED
    BY <1>3, <2>1 DEF RecordsFirst, Crawling
<1>8. QuietIsFresh'
  <2>1. ~Crawling("scan")' /\ ~Crawling("index")'
    BY <1>3 DEF Crawling
  <2>2. ASSUME ~limited
        PROVE  /\ crawl.kind = "full" /\ quiet \cap InNamespace(crawl.ns) \subseteq crawl.seen
               /\ \A p \in quiet \cap crawl.seen : Fresh(p)
    <3>1. crawl.kind # "limited" /\ Crawling("scan")
      BY <1>1, <2>2 DEF CrawlInv, QuietIsFresh, Crawling
    <3>2. settled \subseteq crawl.seen
      BY <1>1, <3>1 DEF LimitReached
    <3>3. crawl.kind = "full"
      BY <1>1, <3>1, CrawlIs
    <3> QED
      BY <2>2, <3>1, <3>2, <3>3 DEF CrawlInv, QuietIsFresh
  <2>3. ASSUME ~limited, NEW p \in quiet, Fresh(p) PROVE Fresh(p)'
    <3>1. p \in WikiPages /\ ~(p \in InNamespace(crawl.ns) \ crawl.seen)
      BY <1>1, <2>2, <2>3 DEF CrawlKinds, CrawlTypeOK
    <3>2. status'[p] = status[p]
      BY <1>4, <3>1
    <3> QED
      BY <1>1, <2>3, <3>2 DEF Fresh
  <2>4. ASSUME ~limited, NEW ns \in fullRun'.scans, NEW p \in quiet \cap InNamespace(ns)
        PROVE  Fresh(p)'
    <3>1. CASE ns \in fullRun.scans
      BY <2>3, <2>4, <3>1 DEF CrawlInv, QuietIsFresh
    <3>2. CASE ns \notin fullRun.scans
      <4>1. ns = crawl.ns
        BY <1>5, <2>2, <2>4, <3>2
      <4> QED
        BY <2>2, <2>3, <2>4, <4>1
    <3> QED
      BY <3>1, <3>2
  <2> QED
    BY <1>1, <1>3, <2>1, <2>4 DEF QuietIsFresh, CrawlInv, InNamespace
<1> QED
  BY <1>6, <1>7, <1>8 DEF CrawlInv

-----------------------------------------------------------------------------
(* The fetches.                                                            *)

LEMMA StartFetchKeeps == ASSUME CrawlInv, StartFetch PROVE CrawlInv'
<1>1. /\ crawl # NoCrawl /\ crawl.pc = "next" /\ CrawlKinds
      /\ UNCHANGED <<siteVars, pageTable, resources, runVars, recordVars, fileVars, faults,
                     changes>>
  BY DEF StartFetch, Crawling, CrawlInv
<1>2. crawl' = [pc |-> "fetch", kind |-> crawl.kind, ns |-> crawl.ns,
                scanned |-> crawl.scanned, seen |-> {}, todo |-> crawl.todo,
                page |-> crawl.page, rev |-> crawl.rev]
  BY <1>1, CrawlIs DEF StartFetch, Crawls
<1>3. crawl' \in Crawls /\ crawl' # NoCrawl /\ crawl'.pc = "fetch" /\ crawl'.kind = crawl.kind
  <2>1. {} \in SUBSET PagesAndFiles
    OBVIOUS
  <2> QED
    BY <1>1, <1>2, <2>1, CrawlIs, CrawlGoes
<1>4. CrawlKinds'
  BY <1>1, <1>3, RowKinds, KindsStay DEF pageTable, recordVars, fileVars, runVars
<1>5. RecordsFirst'
  <2>1. FetchedIsRecorded'
    BY <1>1, RecordsGrow DEF CrawlInv, pageTable, recordVars, fileVars
  <2> QED
    BY <1>3, <2>1 DEF RecordsFirst, Crawling
<1>6. QuietIsFresh'
  BY <1>1, <1>3, QuietStays DEF CrawlInv, siteVars, pageTable, runVars
<1> QED
  BY <1>4, <1>5, <1>6 DEF CrawlInv

LEMMA FetchTextKeeps ==
    ASSUME CrawlInv, NEW p \in WikiPages, FetchText(p) PROVE CrawlInv'
<1>1. PICK r \in {wiki[p].rev, EmptyAnswer} :
        /\ faults' = IF r = EmptyAnswer THEN faults + 1 ELSE faults
        /\ faults' <= MaxFaults
        /\ text' = IF Kept("wikitext") THEN text \cup {<<p, r>>} ELSE text
        /\ crawl' = [crawl EXCEPT !.pc = IF p \in DataPages THEN "data" ELSE "mark",
                                  !.page = p, !.rev = r]
  BY DEF FetchText
<1>2. /\ crawl # NoCrawl /\ crawl.pc = "fetch" /\ CrawlKinds
      /\ UNCHANGED <<siteVars, pageTable, resources, runVars, listed, relisted, data,
                     manifest, changes>>
  BY DEF FetchText, Crawling, CrawlInv
<1>3. r \in 0..(MaxChanges + 1) /\ r \in Revisions /\ r # Never
  <2>1. EmptyAnswer \in 0..(MaxChanges + 1)
    BY CrawlAssumption DEF EmptyAnswer
  <2>2. r \in 0..(MaxChanges + 1)
    BY <1>1, <1>2, <2>1, RowKinds
  <2> QED
    BY <2>2, CrawlAssumption DEF Revisions, Never
<1>4. PICK pc \in {"data", "mark"} :
        /\ pc = IF p \in DataPages THEN "data" ELSE "mark"
        /\ crawl' = [pc |-> pc, kind |-> crawl.kind, ns |-> crawl.ns,
                     scanned |-> crawl.scanned, seen |-> crawl.seen, todo |-> crawl.todo,
                     page |-> p, rev |-> r]
  <2>1. PICK pc : pc = IF p \in DataPages THEN "data" ELSE "mark"
    OBVIOUS
  <2>2. crawl' = [pc |-> pc, kind |-> crawl.kind, ns |-> crawl.ns,
                  scanned |-> crawl.scanned, seen |-> crawl.seen, todo |-> crawl.todo,
                  page |-> p, rev |-> r]
    BY <1>1, <1>2, <2>1, CrawlIs DEF Crawls
  <2> QED
    BY <2>1, <2>2
<1>5. /\ crawl' \in Crawls /\ crawl' # NoCrawl /\ crawl'.pc = pc
      /\ crawl'.kind = crawl.kind /\ crawl'.page = p /\ crawl'.rev = r
  <2>1. p \in {"none"} \cup PagesAndFiles
    BY DEF PagesAndFiles
  <2>2. pc \in {"next", "scan", "index", "fetch", "data", "mark", "upsert"}
    BY <1>4
  <2> QED
    BY <1>2, <1>3, <1>4, <2>1, <2>2, CrawlIs, CrawlGoes
<1>6. unfinished' \subseteq damaged' /\ damaged' = damaged
  BY <1>2, AppendsKeeps DEF FetchText
<1>7. text \subseteq text' /\ TextOf(p, r)'
  <2>1. "wikitext" \in unfinished => "wikitext" \in damaged
    BY <1>2, RowKinds
  <2> QED
    BY <1>1, <1>6, <2>1 DEF Kept, TextOf
<1>8. CrawlKinds'
  <2>1. text' \cup data' \subseteq WikiPages \X (0..(MaxChanges + 1))
    BY <1>1, <1>2, <1>3, RowKinds
  <2>2. faults' \in 0..MaxFaults
    <3>1. faults \in 0..MaxFaults
      BY <1>2, RowKinds
    <3> QED
      BY <1>1, <3>1, CrawlAssumption
  <2> QED
    BY <1>2, <1>3, <1>5, <1>6, <2>1, <2>2, RowKinds, KindsStay DEF pageTable, runVars
<1>9. RecordsFirst'
  <2>1. FetchedIsRecorded'
    BY <1>2, <1>6, <1>7, RecordsGrow DEF CrawlInv, pageTable
  <2>2. TextOf(crawl.page, crawl.rev)'
    BY <1>5, <1>7 DEF TextOf
  <2>3. pc = "mark" => DataOf(crawl.page, crawl.rev)'
    BY <1>4, <1>5 DEF DataOf
  <2> QED
    BY <1>5, <2>1, <2>2, <2>3 DEF RecordsFirst, Crawling
<1>10. QuietIsFresh'
  <2>1. crawl'.pc \notin {"scan", "index"}
    BY <1>4, <1>5
  <2> QED
    BY <1>2, <1>5, <2>1, QuietStays DEF CrawlInv, siteVars, pageTable, runVars
<1> QED
  BY <1>8, <1>9, <1>10 DEF CrawlInv

LEMMA FetchDataKeeps ==
    ASSUME CrawlInv, NEW p \in WikiPages, FetchData(p) PROVE CrawlInv'
<1>1. /\ crawl # NoCrawl /\ crawl.pc = "data" /\ crawl.page = p /\ CrawlKinds
      /\ UNCHANGED <<siteVars, pageTable, resources, runVars, listed, relisted, text,
                     manifest, faults, changes>>
  BY DEF FetchData, Crawling, CrawlInv
<1>2. crawl' = [pc |-> "mark", kind |-> crawl.kind, ns |-> crawl.ns,
                scanned |-> crawl.scanned, seen |-> crawl.seen, todo |-> crawl.todo,
                page |-> crawl.page, rev |-> crawl.rev]
  BY <1>1, CrawlIs DEF FetchData, Crawls
<1>3. /\ crawl' \in Crawls /\ crawl' # NoCrawl /\ crawl'.pc = "mark"
      /\ crawl'.kind = crawl.kind /\ crawl'.page = p /\ crawl'.rev = crawl.rev
  BY <1>1, <1>2, CrawlIs, CrawlGoes
<1>4. unfinished' \subseteq damaged' /\ damaged' = damaged
  BY <1>1, AppendsKeeps DEF FetchData
<1>5. crawl.rev \in 0..(MaxChanges + 1) /\ crawl.rev # Never
  <2>1. crawl.rev # Never
    BY <1>1 DEF CrawlKinds
  <2>2. crawl.rev \in Revisions
    BY <1>1, CrawlIs
  <2> QED
    BY <2>1, <2>2, CrawlAssumption DEF Revisions, Never
<1>6. /\ data \subseteq data' /\ data' \subseteq data \cup {<<p, crawl.rev>>}
      /\ <<p, crawl.rev>> \in data' \/ ~Kept("data_pages")
  <2>1. data' = IF Kept("data_pages") THEN data \cup {<<p, crawl.rev>>} ELSE data
    BY DEF FetchData
  <2> QED
    BY <2>1
<1>7. DataOf(p, crawl.rev)'
  <2>1. "data_pages" \in unfinished => "data_pages" \in damaged
    BY <1>1, RowKinds
  <2>2. <<p, crawl.rev>> \in data' \/ "data_pages" \in damaged'
    BY <1>4, <1>6, <2>1 DEF Kept
  <2>3. crawl'.rev = crawl.rev
    BY <1>3
  <2> QED
    BY <2>2, <2>3, <1>3 DEF DataOf
<1>8. CrawlKinds'
  <2>1. text' \cup data' \subseteq WikiPages \X (0..(MaxChanges + 1))
    BY <1>1, <1>5, <1>6, RowKinds
  <2> QED
    BY <1>1, <1>3, <1>4, <1>5, <2>1, RowKinds, KindsStay DEF pageTable, runVars
<1>9. RecordsFirst'
  <2>1. FetchedIsRecorded'
    BY <1>1, <1>4, <1>6, RecordsGrow DEF CrawlInv, pageTable
  <2>2. TextOf(crawl.page, crawl.rev)
    BY <1>1 DEF CrawlInv, RecordsFirst, Crawling
  <2>3. TextOf(crawl.page, crawl.rev)' /\ DataOf(crawl.page, crawl.rev)'
    BY <1>1, <1>3, <1>4, <1>7, <2>2 DEF TextOf, DataOf
  <2> QED
    BY <2>1, <2>3 DEF RecordsFirst
<1>10. QuietIsFresh'
  BY <1>1, <1>3, QuietStays DEF CrawlInv, siteVars, pageTable, runVars
<1> QED
  BY <1>8, <1>9, <1>10 DEF CrawlInv

LEMMA MarkFetchedKeeps ==
    ASSUME CrawlInv, NEW p \in WikiPages, MarkFetched(p) PROVE CrawlInv'
<1>1. /\ crawl # NoCrawl /\ crawl.pc = "mark" /\ crawl.page = p /\ CrawlKinds
      /\ fetched' = [fetched EXCEPT ![p] = crawl.rev]
      /\ UNCHANGED <<siteVars, status, lastrevid, resources, runVars, recordVars, fileVars,
                     faults, changes>>
  BY DEF MarkFetched, Crawling, CrawlInv
<1>2. crawl' = [pc |-> "fetch", kind |-> crawl.kind, ns |-> crawl.ns,
                scanned |-> crawl.scanned, seen |-> crawl.seen, todo |-> crawl.todo \ {p},
                page |-> "none", rev |-> Never]
  BY <1>1, CrawlIs DEF MarkFetched, Put, Crawls
<1>3. crawl' \in Crawls /\ crawl' # NoCrawl /\ crawl'.pc = "fetch" /\ crawl'.kind = crawl.kind
  <2>1. crawl.todo \ {p} \in SUBSET WikiPages /\ Never \in Revisions
    BY <1>1, CrawlIs, CrawlAssumption DEF Never, Revisions
  <2> QED
    BY <1>1, <1>2, <2>1, CrawlIs, CrawlGoes
<1>4. fetched' \in [WikiPages -> Revisions]
  BY <1>1, RowKinds, CrawlIs
<1>5. CrawlKinds'
  BY <1>1, <1>3, <1>4, RowKinds, KindsStay DEF recordVars, fileVars, runVars
<1>6. RecordsFirst'
  <2>1. TextOf(p, crawl.rev) /\ DataOf(p, crawl.rev)
    BY <1>1 DEF CrawlInv, RecordsFirst, Crawling
  <2>2. ASSUME NEW q \in WikiPages, fetched'[q] # Never
        PROVE  /\ <<q, fetched'[q]>> \in text \/ "wikitext" \in damaged
               /\ q \in DataPages => <<q, fetched'[q]>> \in data \/ "data_pages" \in damaged
    <3>1. CASE q = p
      <4>1. fetched'[q] = crawl.rev
        BY <1>1, <3>1, RowKinds
      <4> QED
        BY <2>1, <3>1, <4>1 DEF TextOf, DataOf
    <3>2. CASE q # p
      <4>1. fetched'[q] = fetched[q]
        BY <1>1, <3>2, RowKinds
      <4> QED
        BY <2>2, <4>1 DEF CrawlInv, RecordsFirst, FetchedIsRecorded
    <3> QED
      BY <3>1, <3>2
  <2>3. FetchedIsRecorded'
    BY <1>1, <2>2 DEF FetchedIsRecorded, recordVars, fileVars
  <2> QED
    BY <1>3, <2>3 DEF RecordsFirst, Crawling
<1>7. QuietIsFresh'
  BY <1>1, <1>3, QuietStays DEF CrawlInv, siteVars, runVars
<1> QED
  BY <1>5, <1>6, <1>7 DEF CrawlInv

LEMMA RecordFileKeeps ==
    ASSUME CrawlInv, NEW f \in WikiFiles, RecordFile(f) PROVE CrawlInv'
<1>1. /\ crawl # NoCrawl /\ crawl.pc = "fetch" /\ CrawlKinds
      /\ manifest' = manifest \cup {f} \/ manifest' = manifest
      /\ UNCHANGED <<siteVars, pageTable, resources, runVars, listed, relisted, text, data,
                     faults, changes>>
  BY DEF RecordFile, Crawling, CrawlInv
<1>2. crawl' = [pc |-> "upsert", kind |-> crawl.kind, ns |-> crawl.ns,
                scanned |-> crawl.scanned, seen |-> crawl.seen, todo |-> crawl.todo,
                page |-> f, rev |-> crawl.rev]
  BY <1>1, CrawlIs DEF RecordFile, Crawls
<1>3. crawl' \in Crawls /\ crawl' # NoCrawl /\ crawl'.pc = "upsert" /\ crawl'.kind = crawl.kind
  <2>1. f \in {"none"} \cup PagesAndFiles
    BY DEF PagesAndFiles
  <2> QED
    BY <1>1, <1>2, <2>1, CrawlIs, CrawlGoes
<1>4. unfinished' \subseteq damaged' /\ damaged' = damaged
  BY <1>1, AppendsKeeps DEF RecordFile
<1>5. CrawlKinds'
  <2>1. manifest' \subseteq WikiFiles
    BY <1>1, RowKinds
  <2> QED
    BY <1>1, <1>3, <1>4, <2>1, RowKinds, KindsStay DEF pageTable, runVars
<1>6. RecordsFirst'
  <2>1. FetchedIsRecorded'
    BY <1>1, <1>4, RecordsGrow DEF CrawlInv, pageTable
  <2> QED
    BY <1>3, <2>1 DEF RecordsFirst, Crawling
<1>7. QuietIsFresh'
  BY <1>1, <1>3, QuietStays DEF CrawlInv, siteVars, pageTable, runVars
<1> QED
  BY <1>5, <1>6, <1>7 DEF CrawlInv

LEMMA UpsertFileKeeps ==
    ASSUME CrawlInv, NEW f \in WikiFiles, UpsertFile(f) PROVE CrawlInv'
<1>1. /\ crawl # NoCrawl /\ crawl.pc = "upsert" /\ CrawlKinds
      /\ resources' = resources \cup {f}
      /\ UNCHANGED <<siteVars, pageTable, runVars, recordVars, fileVars, faults, changes>>
  BY DEF UpsertFile, Crawling, CrawlInv
<1>2. crawl' = [pc |-> "fetch", kind |-> crawl.kind, ns |-> crawl.ns,
                scanned |-> crawl.scanned, seen |-> crawl.seen \cup {f},
                todo |-> crawl.todo, page |-> "none", rev |-> Never]
  BY <1>1, CrawlIs DEF UpsertFile, Put, Crawls
<1>3. crawl' \in Crawls /\ crawl' # NoCrawl /\ crawl'.pc = "fetch" /\ crawl'.kind = crawl.kind
  <2>1. crawl.seen \cup {f} \in SUBSET PagesAndFiles /\ Never \in Revisions
    BY <1>1, CrawlIs, CrawlAssumption DEF Never, Revisions, PagesAndFiles
  <2> QED
    BY <1>1, <1>2, <2>1, CrawlIs, CrawlGoes
<1>4. CrawlKinds'
  <2>1. resources' \subseteq WikiFiles
    BY <1>1, RowKinds
  <2> QED
    BY <1>1, <1>3, <2>1, RowKinds, KindsStay DEF pageTable, recordVars, fileVars, runVars
<1>5. RecordsFirst'
  <2>1. FetchedIsRecorded'
    BY <1>1, RecordsGrow DEF CrawlInv, pageTable, recordVars, fileVars
  <2> QED
    BY <1>3, <2>1 DEF RecordsFirst, Crawling
<1>6. QuietIsFresh'
  BY <1>1, <1>3, QuietStays DEF CrawlInv, siteVars, pageTable, runVars
<1> QED
  BY <1>4, <1>5, <1>6 DEF CrawlInv

\* A crawl ends, by itself or not.
LEMMA FinishedKeeps ==
    ASSUME CrawlInv, crawl # NoCrawl,
           NEW how \in {"running", "completed", "failed"}, FinishedAs(how),
           UNCHANGED <<siteVars, pageTable, resources, limited, recordVars, changes>>,
           faults' \in 0..MaxFaults, unfinished' \subseteq damaged', damaged \subseteq damaged'
    PROVE  CrawlInv'
<1>1. CrawlKinds /\ crawl' = NoCrawl
  BY DEF CrawlInv, FinishedAs
<1>2. /\ fullRun' \in [status : {"none", "running", "completed", "failed"},
                       scans : SUBSET Namespaces]
      /\ fullRun'.scans = fullRun.scans
  <2>1. CASE crawl.kind = "full"
    <3>1. fullRun' = [status |-> how, scans |-> fullRun.scans]
      BY <1>1, <2>1, RowKinds DEF FinishedAs
    <3>2. fullRun.scans \in SUBSET Namespaces
      BY <1>1, RowKinds
    <3> QED
      BY <3>1, <3>2
  <2>2. CASE crawl.kind # "full"
    BY <1>1, <2>2, RowKinds DEF FinishedAs
  <2> QED
    BY <2>1, <2>2
<1>3. CrawlKinds'
  BY <1>1, <1>2, RowKinds, KindsStay DEF pageTable, recordVars
<1>4. RecordsFirst'
  <2>1. FetchedIsRecorded'
    BY RecordsGrow DEF CrawlInv, pageTable, recordVars
  <2> QED
    BY <1>1, <2>1 DEF RecordsFirst, Crawling
<1>5. QuietIsFresh'
  BY <1>1, <1>2, QuietStays DEF CrawlInv, siteVars, pageTable
<1> QED
  BY <1>3, <1>4, <1>5 DEF CrawlInv

LEMMA FileFacts ==
    ASSUME CrawlInv
    PROVE  faults \in 0..MaxFaults /\ unfinished \subseteq damaged
  BY RowKinds DEF CrawlInv

LEMMA EndsKeep ==
    ASSUME CrawlInv,
           \/ FinishCrawl
           \/ MeetGonePage
           \/ StopCrawl
           \/ \E file \in Appending : StopInRecord(file)
    PROVE  CrawlInv'
<1>1. CASE FinishCrawl
  <2>1. /\ crawl # NoCrawl /\ FinishedAs("completed")
        /\ UNCHANGED <<siteVars, pageTable, resources, limited, recordVars, fileVars, faults,
                       changes>>
    BY <1>1 DEF FinishCrawl, Crawling
  <2> QED
    BY <2>1, FileFacts, FinishedKeeps DEF fileVars
<1>2. CASE MeetGonePage
  <2>1. /\ crawl # NoCrawl /\ FinishedAs("failed")
        /\ UNCHANGED <<siteVars, pageTable, resources, limited, recordVars, fileVars, faults,
                       changes>>
    BY <1>2 DEF MeetGonePage, Crawling
  <2> QED
    BY <2>1, FileFacts, FinishedKeeps DEF fileVars
<1>3. CASE StopCrawl
  <2>1. PICK how \in {"failed", "running"} : FinishedAs(how)
    BY <1>3 DEF StopCrawl
  <2>2. /\ crawl # NoCrawl /\ faults' \in 0..MaxFaults
        /\ UNCHANGED <<siteVars, pageTable, resources, limited, recordVars, fileVars,
                       changes>>
    BY <1>3, FileFacts, CrawlAssumption DEF StopCrawl
  <2> QED
    BY <2>1, <2>2, FileFacts, FinishedKeeps DEF fileVars
<1>4. ASSUME NEW file \in Appending, StopInRecord(file) PROVE CrawlInv'
  <2>1. PICK how \in {"failed", "running"} : FinishedAs(how)
    BY <1>4 DEF StopInRecord
  <2>2. /\ faults' \in 0..MaxFaults
        /\ unfinished' \subseteq damaged' /\ damaged \subseteq damaged'
        /\ UNCHANGED <<siteVars, pageTable, resources, limited, recordVars, changes>>
    BY <1>4, FileFacts, CrawlAssumption DEF StopInRecord
  <2>3. crawl # NoCrawl
    <3>1. \E pc \in {"scan", "fetch", "data"} : Crawling(pc)
      BY <1>4 DEF Appending
    <3> QED
      BY <3>1 DEF Crawling
  <2> QED
    BY <2>1, <2>2, <2>3, FinishedKeeps
<1> QED
  BY <1>1, <1>2, <1>3, <1>4

-----------------------------------------------------------------------------
(* The wiki.                                                               *)

LEMMA ChangeKeeps ==
    ASSUME CrawlInv, NEW p \in WikiPages, NEW kind \in {"page", "redirect", "gone"},
           ChangePage(p, kind), settled' = settled \/ settled' = settled \ {p}
    PROVE  CrawlInv'
<1>1. /\ CrawlKinds /\ changes < MaxChanges /\ changes' = changes + 1
      /\ quiet' = quiet \ {p}
      /\ UNCHANGED <<pageTable, resources, runVars, recordVars, fileVars, crawl, faults>>
  BY DEF ChangePage, CrawlInv
<1>2. changes \in Nat /\ changes' \in 0..MaxChanges
  BY <1>1, CrawlAssumption DEF CrawlKinds, CrawlTypeOK
<1>3. /\ wiki' \in [WikiPages -> [kind : {"absent", "page", "redirect", "gone"},
                                  rev : 0..(changes' + 1)]]
      /\ \A q \in WikiPages \ {p} : wiki'[q] = wiki[q]
  <2>1. wiki \in [WikiPages -> [kind : {"absent", "page", "redirect", "gone"},
                                rev : 0..(changes + 1)]]
    BY <1>1 DEF CrawlKinds
  <2>2. PICK now : now = [kind |-> kind, rev |-> wiki[p].rev + 1]
    OBVIOUS
  <2>3. wiki' = [wiki EXCEPT ![p] = now]
    BY <2>1, <2>2 DEF ChangePage
  <2>4. wiki[p].rev \in 0..(changes + 1)
    BY <2>1
  <2>5. now \in [kind : {"absent", "page", "redirect", "gone"}, rev : 0..(changes' + 1)]
    BY <1>1, <1>2, <2>2, <2>4
  <2>6. \A q \in WikiPages : wiki[q] \in [kind : {"absent", "page", "redirect", "gone"},
                                          rev : 0..(changes' + 1)]
    <3>1. TAKE q \in WikiPages
    <3>2. wiki[q] \in [kind : {"absent", "page", "redirect", "gone"}, rev : 0..(changes + 1)]
      BY <2>1
    <3>3. 0..(changes + 1) \subseteq 0..(changes' + 1)
      BY <1>1, <1>2
    <3> QED
      BY <3>2, <3>3
  <2> QED
    BY <2>1, <2>3, <2>5, <2>6
<1>4. CrawlKinds'
  <2>1. \A q \in WikiPages : /\ wiki'[q].kind \in {"absent", "page", "redirect", "gone"}
                             /\ wiki'[q].rev \in 0..(MaxChanges + 1)
    <3>1. TAKE q \in WikiPages
    <3>2. wiki'[q] \in [kind : {"absent", "page", "redirect", "gone"}, rev : 0..(changes' + 1)]
      BY <1>3
    <3> QED
      BY <1>2, <3>2, CrawlAssumption
  <2>2. settled' \subseteq WikiPages /\ quiet' \subseteq WikiPages
    BY <1>1 DEF CrawlKinds, CrawlTypeOK
  <2>3. CrawlTypeOK'
    BY <1>1, <1>2, <2>1, <2>2 DEF CrawlKinds, CrawlTypeOK, pageTable, recordVars, fileVars,
                                  runVars
  <2> QED
    BY <1>1, <1>3, <2>3 DEF CrawlKinds, runVars
<1>5. RecordsFirst'
  <2>1. FetchedIsRecorded'
    BY <1>1, RecordsGrow DEF CrawlInv, pageTable, recordVars, fileVars
  <2> QED
    BY <1>1, <2>1 DEF RecordsFirst, CrawlInv, Crawling, TextOf, DataOf, recordVars, fileVars
<1>6. QuietIsFresh'
  <2>1. \A q \in quiet' : q \in quiet /\ q \in WikiPages \ {p} /\ wiki'[q] = wiki[q]
    BY <1>1, <1>3 DEF CrawlKinds, CrawlTypeOK
  <2>2. \A q \in quiet' : Fresh(q) => Fresh(q)'
    BY <1>1, <2>1 DEF Fresh, pageTable
  <2>3. quiet' \cap InNamespace(crawl.ns) \subseteq settled'
        \/ ~(quiet \cap InNamespace(crawl.ns) \subseteq settled)
    BY <1>1
  <2>4. /\ \A q \in quiet' : wiki'[q].kind = "page"
        /\ crawl' # NoCrawl => (limited' <=> crawl'.kind = "limited")
    BY <1>1, <2>1 DEF QuietIsFresh, CrawlInv, runVars
  <2>5. ~limited' =>
          \A ns \in fullRun'.scans : \A q \in quiet' \cap InNamespace(ns) : Fresh(q)'
    BY <1>1, <2>1, <2>2 DEF QuietIsFresh, CrawlInv, runVars
  <2>6. ~limited' /\ (Crawling("scan") \/ Crawling("index")) =>
          /\ quiet' \cap InNamespace(crawl.ns) \subseteq settled'
          /\ \A q \in quiet' \cap crawl.seen : Fresh(q)'
    BY <1>1, <2>1, <2>2, <2>3 DEF QuietIsFresh, CrawlInv, runVars
  <2>7. ~limited' /\ Crawling("index") /\ crawl.page \in quiet' =>
          crawl.rev = wiki'[crawl.page].rev
    BY <1>1, <2>1 DEF QuietIsFresh, CrawlInv, runVars
  <2>8. crawl' = crawl /\ \A pc : Crawling(pc)' <=> Crawling(pc)
    BY <1>1 DEF Crawling
  <2> QED
    BY <2>4, <2>5, <2>6, <2>7, <2>8 DEF QuietIsFresh, InNamespace
<1> QED
  BY <1>4, <1>5, <1>6 DEF CrawlInv

LEMMA WikiChanges ==
    ASSUME CrawlInv, NEW p \in WikiPages, Edit(p) \/ Leave(p) \/ Arrive(p) PROVE CrawlInv'
  BY ChangeKeeps DEF Edit, Leave, Arrive

LEMMA CrawlStarts == ASSUME CrawlInit PROVE CrawlInv
<1>1. /\ changes = 0 /\ faults = 0 /\ crawl = NoCrawl
      /\ wiki \in [WikiPages -> {[kind |-> "page", rev |-> 1], [kind |-> "absent", rev |-> 0]}]
  BY DEF CrawlInit
<1>2. wiki \in [WikiPages -> [kind : {"absent", "page", "redirect", "gone"},
                              rev : 0..(changes + 1)]]
  <2>1. /\ [kind |-> "page", rev |-> 1] \in
             [kind : {"absent", "page", "redirect", "gone"}, rev : 0..(changes + 1)]
        /\ [kind |-> "absent", rev |-> 0] \in
             [kind : {"absent", "page", "redirect", "gone"}, rev : 0..(changes + 1)]
    BY <1>1
  <2> QED
    BY <1>1, <2>1
<1>3. CrawlTypeOK
  <2>1. \A p \in WikiPages : /\ wiki[p].kind \in {"absent", "page", "redirect", "gone"}
                             /\ wiki[p].rev \in 0..(MaxChanges + 1)
    <3>1. TAKE p \in WikiPages
    <3>2. wiki[p] \in [kind : {"absent", "page", "redirect", "gone"}, rev : 0..(changes + 1)]
      BY <1>2
    <3> QED
      BY <1>1, <3>2, CrawlAssumption
  <2>2. \A f \in {lastrevid, fetched, listed} : f \in [WikiPages -> Never..(MaxChanges + 1)]
    BY CrawlAssumption DEF CrawlInit, Never
  <2> QED
    BY <2>1, <2>2, CrawlAssumption DEF CrawlInit, CrawlTypeOK
<1>4. CrawlKinds
  BY <1>1, <1>2, <1>3 DEF CrawlKinds, CrawlInit
<1>5. RecordsFirst /\ QuietIsFresh
  BY DEF RecordsFirst, QuietIsFresh, FetchedIsRecorded, Crawling, CrawlInit
<1> QED
  BY <1>4, <1>5 DEF CrawlInv

LEMMA CrawlKeeps == ASSUME CrawlInv, [CrawlNext]_crawlVars PROVE CrawlInv'
<1>1. CASE UNCHANGED crawlVars
  <2>1. CrawlKinds'
    BY <1>1 DEF CrawlInv, CrawlKinds, CrawlTypeOK, crawlVars, siteVars, pageTable, recordVars,
                fileVars, runVars
  <2>2. RecordsFirst'
    BY <1>1 DEF CrawlInv, RecordsFirst, FetchedIsRecorded, Crawling, TextOf, DataOf, crawlVars,
                pageTable, recordVars, fileVars
  <2>3. QuietIsFresh'
    BY <1>1 DEF CrawlInv, QuietIsFresh, Crawling, Fresh, InNamespace, crawlVars, siteVars,
                pageTable, runVars
  <2> QED
    BY <2>1, <2>2, <2>3 DEF CrawlInv
<1>2. CASE Scan
  BY <1>2, StartScanKeeps, RecordPageKeeps, IndexPageKeeps, EndScanKeeps DEF Scan
<1>3. CASE Fetch
  BY <1>3, StartFetchKeeps, EndsKeep, FetchTextKeeps, FetchDataKeeps, MarkFetchedKeeps,
     RecordFileKeeps, UpsertFileKeeps DEF Fetch
<1> QED
  BY <1>1, <1>2, <1>3, StartCrawlKeeps, EndsKeep, WikiChanges DEF CrawlNext

LEMMA CorpusIsTrue == ASSUME CrawlInv PROVE CorpusTrue
<1>1. ASSUME IntegrityPasses, ~limited, NEW p \in quiet
      PROVE  /\ <<p, wiki[p].rev>> \in text
             /\ p \in DataPages => <<p, wiki[p].rev>> \in data
             /\ listed[p] = wiki[p].rev
  <2>1. p \in WikiPages
    BY DEF CrawlInv, CrawlKinds, CrawlTypeOK
  <2>2. PICK ns \in Namespaces : p \in InNamespace(ns)
    BY <2>1 DEF WikiPages, Namespaces, InNamespace
  <2>3. Fresh(p)
    BY <1>1, <2>2 DEF IntegrityPasses, CrawlInv, QuietIsFresh
  <2> QED
    BY <1>1, <2>1, <2>3 DEF IntegrityPasses, PagePasses, Fresh
<1>2. IntegrityMeansCurrent
  BY <1>1 DEF IntegrityMeansCurrent, JoinedRevision
<1> QED
  BY <1>2 DEF CorpusTrue, CrawlInv, RecordsFirst

(* The corpus of the crawler (Crawl, crawler.py and state.py): for any pages *)
(* and files of the wiki, and however it changes while crawls are cut short, *)
(* killed and resumed, what the state says was fetched is on disk, and a     *)
(* report that passes means the corpus is the wiki.                          *)
THEOREM CorpusSafety == CrawlSpec => []CorpusTrue
<1>1. CrawlInit => CrawlInv
  BY CrawlStarts
<1>2. CrawlInv /\ [CrawlNext]_crawlVars => CrawlInv'
  BY CrawlKeeps
<1>3. CrawlInv => CorpusTrue
  BY CorpusIsTrue
<1> QED
  BY <1>1, <1>2, <1>3, PTL DEF CrawlSpec

-----------------------------------------------------------------------------
(* The components together.                                                *)

ComponentsInv == GZInv /\ CrawlInv /\ WikiInv /\ PublicationInv /\ AnswerInv

LEMMA ComponentsStart == ASSUME Init PROVE ComponentsInv
  BY GZInvInit, CrawlStarts, WikiInvInit, PublicationInitial, AnswerStarts
  DEF Init, ComponentsInv

LEMMA ComponentsKeep == ASSUME ComponentsInv, [Next]_vars PROVE ComponentsInv'
<1>1. \/ GZNext \/ UNCHANGED gzVars
  BY DEF Next, vars, InBootstrap, InCrawl, InWiki, InPublication, InAnswer
<1>2. \/ CrawlNext \/ UNCHANGED crawlVars
  BY DEF Next, vars, InBootstrap, InCrawl, InWiki, InPublication, InAnswer
<1>3. \/ WikiNext \/ UNCHANGED wikiVars
  BY DEF Next, vars, InBootstrap, InCrawl, InWiki, InPublication, InAnswer
<1>4. \/ PublicationNext \/ UNCHANGED publicationVars
  BY DEF Next, vars, InBootstrap, InCrawl, InWiki, InPublication, InAnswer
<1>5. \/ AnswerNext \/ UNCHANGED answerVars
  BY DEF Next, vars, InBootstrap, InCrawl, InWiki, InPublication, InAnswer
<1> QED
  BY <1>1, <1>2, <1>3, <1>4, <1>5, GZInvStep, CrawlKeeps, WikiInvStep, PublicationKeeps,
     AnswerKeeps DEF ComponentsInv

(* In every behaviour of Components each component keeps its types, the      *)
(* corpus is true and the answers are the ones their parts allow             *)
(* (generation_zero.py, crawler.py, formal_import.py, publish_registries.py, *)
(* execution.py).                                                            *)
THEOREM SoundSafety == Spec => []ComponentsSound
<1>1. Init => ComponentsInv
  BY ComponentsStart
<1>2. ComponentsInv /\ [Next]_vars => ComponentsInv'
  BY ComponentsKeep
<1>3. ComponentsInv => ComponentsSound
  BY GZInvTypes, WikiInvTypes, CorpusIsTrue, InvAnswers
  DEF ComponentsInv, ComponentsSound, CrawlInv, CrawlKinds, PublicationInv, AnswerInv
<1> QED
  BY <1>1, <1>2, <1>3, PTL DEF Spec
=============================================================================
