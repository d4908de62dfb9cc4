------------------------------ MODULE PagesProofs ------------------------------
(***************************************************************************)
(* What the parts of PagesAndBuilds promise: what a corpus candidate, the  *)
(* report of its build and the approval of its review claim is so, for any *)
(* number of builds, reviews, kills, writes of the crawler and recoveries  *)
(* of the snapshot; a panel lists the voice lines of one build from the    *)
(* first on, for any number of lines, clients, requests and processes; the *)
(* wiki the browser shows is what the filter, the selection and the        *)
(* address say, whatever the user does and in whatever order answers come; *)
(* a plan of downloads selects what there is room for, and decisions about *)
(* it do what they say.  The last theorem is about the parts together.     *)
(***************************************************************************)
EXTENDS PagesAndBuilds, OrdersAndFolds

-----------------------------------------------------------------------------
(* The build of a candidate and its review.                                 *)

WritingPlaces == {"artifacts", "handoff", "report", "manifest"}
ReadingPlaces == {"inventory", "streams", "judge", "verify"}
BuilderPlaces ==
    {"idle", "gate", "refused", "fingerprint", "create", "check", "result", "ended", "dead"}
        \cup ReadingPlaces \cup WritingPlaces

BuilderRecords ==
    [pc : BuilderPlaces, left : Seq(RawFiles), inventory : [RawFiles -> SUBSET Nat],
     rows : [RawFiles -> SUBSET Nat], state : States \cup {"none"}]

CorpusRecords ==
    [by : SUBSET CorpusRuns, files : SUBSET WritingPlaces, state : States \cup {"none"},
     inventory : [RawFiles -> SUBSET Nat], rows : [RawFiles -> SUBSET Nat]]

ReviewRecords ==
    [by : SUBSET Proposals, allowed : BOOLEAN, tuple : BOOLEAN,
     pointer : {"none", "zero", "later"}]

CorpusTypeOK ==
    /\ raw \in [RawFiles -> Nat]
    /\ builder \in [CorpusRuns -> BuilderRecords]
    /\ corpus \in CorpusRecords
    /\ outcome \in [CorpusRuns -> States \cup {"none"}]
    /\ activePointer \in {"zero", "later"}
    /\ proposer \in [Proposals -> {"idle", "collect", "review", "tuple", "ended"}]
    /\ review \in ReviewRecords
    /\ movedBack \in BOOLEAN

\* Contents that are told from one another by their number of writes: all but a
\* file that was put back.
Numbered(f, moved) == f # "data" \/ ~moved

Left(l, f) == \E i \in DOMAIN l : l[i] = f

\* Nothing is older than what the inventory read, and nothing newer than the file.
InOrderOfReading(b, f) ==
    /\ \A i \in b.inventory[f] : i <= raw[f]
    /\ \A r \in b.rows[f] : r <= raw[f]
    /\ \A i \in b.inventory[f] : \A r \in b.rows[f] : i <= r

\* What a run knows of a file.
FileRead(b, f) ==
    /\ b.pc \in {"idle", "gate", "inventory"} => b.rows[f] = {}
    /\ b.pc \in {"idle", "gate"} => b.inventory[f] = {}
    /\ b.pc = "streams" => b.rows[f] # {} \/ Left(b.left, f)
    /\ b.pc \in {"judge", "verify"} => b.rows[f] # {}
    /\ b.pc \in ReadingPlaces /\ Numbered(f, movedBack) => InOrderOfReading(b, f)
    /\ b.pc = "verify" /\ Numbered(f, movedBack) =>
          b.rows[f] = b.inventory[f] \/ Left(b.left, f)
    /\ b.pc \in {"fingerprint", "create"} \cup WritingPlaces /\ Numbered(f, movedBack) =>
          b.rows[f] = b.inventory[f]

ReadingInv ==
    \A b \in CorpusRuns :
        /\ builder[b].pc \in DOMAIN AfterReading => builder[b].left # <<>>
        /\ \A f \in RawFiles : FileRead(builder[b], f)

\* The files of the root, at each place of the run that writes them.
Handed(state) == IF state = "ready" THEN {"handoff"} ELSE {}

FilesAt(b) ==
    CASE b.pc = "artifacts" -> {}
      [] b.pc = "handoff" -> {"artifacts"}
      [] b.pc = "report" -> {"artifacts"} \cup Handed(b.state)
      [] OTHER -> {"artifacts", "report"} \cup Handed(b.state)

\* A run b, its record r and what it reported, s, as the root has it.
OwnRoot(b, r, s) ==
    /\ r.pc \in WritingPlaces \cup {"check", "result"} => corpus.by = {b}
    /\ r.pc \in WritingPlaces => corpus.files = FilesAt(r)
    /\ r.pc = "handoff" => r.state = "ready"
    /\ r.pc \in {"handoff", "report", "manifest"} => corpus.rows = r.rows
    /\ r.pc \in {"check", "result"} => "manifest" \in corpus.files /\ corpus.state = r.state
    /\ s # "none" => r.pc = "ended"
    /\ s \in {"ready", "diagnostic"} =>
          "manifest" \in corpus.files /\ corpus.by = {b} /\ corpus.state = s

RootOK ==
    /\ corpus.by = {} \/ \E b \in CorpusRuns : corpus.by = {b}
    /\ corpus.by = {} => corpus.files = {}
    /\ "manifest" \notin corpus.files => corpus.state = "none"
    /\ "manifest" \in corpus.files =>
          /\ Verifies
          /\ \A f \in RawFiles : Numbered(f, movedBack) => corpus.rows[f] = corpus.inventory[f]

CandidateInv ==
    /\ RootOK
    /\ \A b \in CorpusRuns : OwnRoot(b, builder[b], outcome[b])

ReviewInv ==
    /\ review.by = {} \/ \E p \in Proposals : review.by = {p}
    /\ review.by = {} => ~review.allowed /\ ~review.tuple
    /\ review.tuple => review.allowed
    /\ review.allowed => review.pointer = "zero" /\ corpus.state = "ready"
    /\ \A p \in Proposals :
          /\ proposer[p] \in {"review", "tuple"} => review.by = {p}
          /\ proposer[p] = "review" => ~review.allowed /\ ~review.tuple
          /\ proposer[p] = "tuple" => review.allowed

CorpusInv == CorpusTypeOK /\ ReadingInv /\ CandidateInv /\ ReviewInv

LEMMA CorpusTypes ==
    ASSUME CorpusTypeOK
    PROVE  /\ raw \in [RawFiles -> Nat]
           /\ builder \in [CorpusRuns -> BuilderRecords]
           /\ outcome \in [CorpusRuns -> States \cup {"none"}]
           /\ \A b \in CorpusRuns : builder[b] \in BuilderRecords
  BY DEF CorpusTypeOK

LEMMA InitCandidate == ASSUME CorpusInit PROVE CorpusInv
<1>1. Builder0 \in BuilderRecords /\ Builder0.pc = "idle"
      /\ Builder0.inventory = Unread /\ Builder0.rows = Unread
  BY DEF Builder0, BuilderRecords, BuilderPlaces, Unread
<1>2. CorpusTypeOK
  BY <1>1 DEF CorpusInit, CorpusTypeOK, CorpusRecords, NoCorpus, Unread, Review0, ReviewRecords
<1>3. ReadingInv
  BY <1>1 DEF CorpusInit, ReadingInv, FileRead, AfterReading, ReadingPlaces, WritingPlaces, Unread
<1>4. CandidateInv
  BY <1>1 DEF CorpusInit, CandidateInv, RootOK, OwnRoot, NoCorpus, WritingPlaces
<1>5. ReviewInv
  BY DEF CorpusInit, ReviewInv, Review0
<1> QED
  BY <1>2, <1>3, <1>4, <1>5 DEF CorpusInv

-----------------------------------------------------------------------------
(* A step of one run that leaves the root and the review alone.             *)

\* No file is put back.
RawGrows == raw' \in [RawFiles -> Nat] /\ \A f \in RawFiles : raw[f] <= raw'[f]

LEMMA RawStays == ASSUME CorpusInv, UNCHANGED raw PROVE RawGrows
  BY DEF CorpusInv, CorpusTypeOK, RawGrows

LEMMA FileStays ==
    ASSUME CorpusInv, RawGrows, UNCHANGED movedBack, NEW q \in BuilderRecords, NEW f \in RawFiles,
           FileRead(q, f)
    PROVE  FileRead(q, f)'
<1>1. /\ raw[f] \in Nat /\ raw'[f] \in Nat /\ raw[f] <= raw'[f]
      /\ q.inventory[f] \subseteq Nat /\ q.rows[f] \subseteq Nat
  BY DEF CorpusInv, CorpusTypeOK, RawGrows, BuilderRecords
<1>2. InOrderOfReading(q, f) => InOrderOfReading(q, f)'
  BY <1>1 DEF InOrderOfReading
<1> QED
  BY <1>2 DEF FileRead

\* The run gets record r and reports s.
LEMMA RunMoves ==
    ASSUME CorpusInv, NEW b \in CorpusRuns, NEW r \in BuilderRecords,
           NEW s \in States \cup {"none"},
           builder' = [builder EXCEPT ![b] = r], outcome' = [outcome EXCEPT ![b] = s],
           RawGrows, UNCHANGED <<corpus, activePointer, movedBack, proposer, review>>,
           r.pc \in DOMAIN AfterReading => r.left # <<>>,
           \A f \in RawFiles : FileRead(r, f),
           OwnRoot(b, r, s)
    PROVE  CorpusInv'
<1>1. CorpusTypeOK'
  BY DEF CorpusInv, CorpusTypeOK, RawGrows
<1>2. /\ builder'[b] = r /\ outcome'[b] = s
      /\ \A c \in CorpusRuns \ {b} : builder'[c] = builder[c] /\ outcome'[c] = outcome[c]
  BY CorpusTypes DEF CorpusInv
<1>3. ReadingInv'
  <2>1. ASSUME NEW c \in CorpusRuns, NEW f \in RawFiles PROVE FileRead(builder[c], f)'
    <3>1. PICK q : q = builder'[c]
      OBVIOUS
    <3>2. FileRead(q, f) /\ q \in BuilderRecords
      BY <1>1, <1>2, <3>1, CorpusTypes DEF CorpusInv, ReadingInv, CorpusTypeOK
    <3> QED
      BY <3>1, <3>2, FileStays
  <2>2. \A c \in CorpusRuns :
           builder'[c].pc \in DOMAIN AfterReading => builder'[c].left # <<>>
    BY <1>2 DEF CorpusInv, ReadingInv
  <2> QED
    BY <2>1, <2>2 DEF ReadingInv, AfterReading
<1>4. CandidateInv'
  <2>1. RootOK'
    BY DEF CorpusInv, CandidateInv, RootOK, Verifies
  <2>2. ASSUME NEW c \in CorpusRuns PROVE OwnRoot(c, builder'[c], outcome'[c])
    BY <1>2 DEF CorpusInv, CandidateInv
  <2>3. ASSUME NEW c \in CorpusRuns PROVE OwnRoot(c, builder[c], outcome[c])'
    BY <2>2 DEF OwnRoot
  <2> QED
    BY <2>1, <2>3 DEF CandidateInv
<1>5. ReviewInv'
  BY DEF CorpusInv, ReviewInv
<1> QED
  BY <1>1, <1>3, <1>4, <1>5 DEF CorpusInv

LEMMA OutcomeKept ==
    ASSUME CorpusInv, NEW b \in CorpusRuns, UNCHANGED outcome
    PROVE  outcome' = [outcome EXCEPT ![b] = outcome[b]] /\ outcome[b] \in States \cup {"none"}
  BY DEF CorpusInv, CorpusTypeOK

\* A run that is over.
LEMMA GoneRecord ==
    ASSUME NEW pc \in {"ended", "dead"}
    PROVE  LET r == [Builder0 EXCEPT !.pc = pc]
           IN  /\ r \in BuilderRecords /\ r.pc = pc
               /\ \A f \in RawFiles : FileRead(r, f)
<1> DEFINE r == [Builder0 EXCEPT !.pc = pc]
<1>1. Builder0 \in BuilderRecords
  BY DEF Builder0, BuilderRecords, BuilderPlaces, Unread
<1>2. r \in BuilderRecords /\ r.pc = pc
  BY <1>1 DEF BuilderRecords, BuilderPlaces
<1>3. \A f \in RawFiles : FileRead(r, f)
  BY <1>2 DEF FileRead, ReadingPlaces, WritingPlaces
<1> QED
  BY <1>2, <1>3

\* A run that ends with a result, which is true of the root.
LEMMA EndsKeeps ==
    ASSUME CorpusInv, NEW b \in CorpusRuns, NEW s \in States \cup {"none"}, Ends(b, s), RawGrows,
           UNCHANGED <<corpus, activePointer, movedBack, proposer, review>>,
           s \in {"ready", "diagnostic"} =>
              "manifest" \in corpus.files /\ corpus.by = {b} /\ corpus.state = s
    PROVE  CorpusInv'
<1>1. PICK r : r = [Builder0 EXCEPT !.pc = "ended"]
  OBVIOUS
<1>2. r \in BuilderRecords /\ r.pc = "ended" /\ \A f \in RawFiles : FileRead(r, f)
  BY <1>1, GoneRecord
<1>3. builder' = [builder EXCEPT ![b] = r] /\ outcome' = [outcome EXCEPT ![b] = s]
  BY <1>1 DEF Ends, BuilderGone
<1>4. OwnRoot(b, r, s)
  BY <1>2 DEF OwnRoot, WritingPlaces
<1> QED
  BY <1>2, <1>3, <1>4, RunMoves DEF AfterReading

LEMMA BlockedKeeps ==
    ASSUME CorpusInv, NEW b \in CorpusRuns, Blocked(b), RawGrows,
           UNCHANGED <<corpus, activePointer, movedBack, proposer, review>>
    PROVE  CorpusInv'
  BY EndsKeeps DEF Blocked, States

LEMMA DeadKeeps ==
    ASSUME CorpusInv, NEW b \in CorpusRuns, BuilderGone(b, "dead"), outcome[b] = "none",
           UNCHANGED <<raw, corpus, activePointer, movedBack, proposer, review, outcome>>
    PROVE  CorpusInv'
<1>1. PICK r : r = [Builder0 EXCEPT !.pc = "dead"]
  OBVIOUS
<1>2. r \in BuilderRecords /\ r.pc = "dead" /\ \A f \in RawFiles : FileRead(r, f)
  BY <1>1, GoneRecord
<1>3. builder' = [builder EXCEPT ![b] = r]
  BY <1>1 DEF BuilderGone
<1>4. OwnRoot(b, r, outcome[b])
  BY <1>2 DEF OwnRoot, WritingPlaces
<1> QED
  BY <1>2, <1>3, <1>4, RunMoves, RawStays, OutcomeKept DEF AfterReading

\* A run goes to another place with what it has.
LEMMA PlaceKeeps ==
    ASSUME CorpusInv, NEW b \in CorpusRuns, NEW pc \in BuilderPlaces, BuilderTo(b, pc),
           UNCHANGED <<raw, corpus, activePointer, movedBack, proposer, review, outcome>>,
           \/ builder[b].pc = "idle" /\ pc \in {"gate", "refused"}
           \/ builder[b].pc = "fingerprint" /\ pc = "create"
           \/ builder[b].pc = "check" /\ pc = "result"
    PROVE  CorpusInv'
<1>1. PICK r : r = [builder[b] EXCEPT !.pc = pc]
  OBVIOUS
<1>2. /\ r \in BuilderRecords /\ r.pc = pc /\ r.inventory = builder[b].inventory
      /\ r.rows = builder[b].rows /\ r.state = builder[b].state /\ r.left = builder[b].left
  BY <1>1, CorpusTypes DEF CorpusInv, BuilderRecords
<1>3. builder' = [builder EXCEPT ![b] = r]
  BY <1>1 DEF BuilderTo
<1>4. \A f \in RawFiles : FileRead(r, f)
  BY <1>2 DEF CorpusInv, ReadingInv, FileRead, ReadingPlaces, WritingPlaces
<1>5. OwnRoot(b, r, outcome[b])
  BY <1>2 DEF CorpusInv, CandidateInv, OwnRoot, WritingPlaces
<1> QED
  BY <1>2, <1>3, <1>4, <1>5, RunMoves, RawStays, OutcomeKept DEF AfterReading

-----------------------------------------------------------------------------
(* The files of the crawl are read.                                         *)

\* The first of what is left, and the rest.
LEMMA HeadAndTail ==
    ASSUME NEW left \in Seq(RawFiles), left # <<>>
    PROVE  /\ Head(left) \in RawFiles /\ Tail(left) \in Seq(RawFiles)
           /\ \A f \in RawFiles : Left(left, f) => f = Head(left) \/ Left(Tail(left), f)
<1>1. Len(left) \in Nat \ {0} /\ DOMAIN left = 1 .. Len(left)
  OBVIOUS
<1>2. Head(left) = left[1] /\ left[1] \in RawFiles
  BY <1>1
<1>3. /\ Tail(left) \in Seq(RawFiles) /\ Len(Tail(left)) = Len(left) - 1
      /\ \A i \in 1 .. Len(Tail(left)) : Tail(left)[i] = left[i + 1]
  BY HeadTailProperties
<1>4. DOMAIN Tail(left) = 1 .. Len(Tail(left))
  BY <1>3
<1>5. ASSUME NEW i \in DOMAIN left, i # 1 PROVE Left(Tail(left), left[i])
  <2>1. /\ i - 1 \in DOMAIN Tail(left) /\ Tail(left)[i - 1] = left[(i - 1) + 1]
        /\ (i - 1) + 1 = i
    BY <1>1, <1>3, <1>4, <1>5
  <2> QED
    BY <2>1 DEF Left
<1> QED
  BY <1>2, <1>3, <1>5 DEF Left

LEMMA OrdersHaveAll ==
    /\ InventoryOrder \in Seq(RawFiles) /\ InventoryOrder # <<>>
    /\ \A f \in RawFiles : Left(InventoryOrder, f)
    /\ StreamOrder4 \in Seq(RawFiles) /\ StreamOrder4 # <<>>
    /\ \A f \in RawFiles : Left(StreamOrder4, f)
<1>1. /\ InventoryOrder \in Seq(RawFiles) /\ InventoryOrder # <<>>
      /\ DOMAIN InventoryOrder = 1 .. 4
      /\ InventoryOrder[1] = "pages" /\ InventoryOrder[2] = "wikitext"
      /\ InventoryOrder[3] = "data" /\ InventoryOrder[4] = "resources"
  BY DEF InventoryOrder, RawFiles
<1>2. /\ StreamOrder4 \in Seq(RawFiles) /\ StreamOrder4 # <<>>
      /\ DOMAIN StreamOrder4 = 1 .. 5
      /\ StreamOrder4[1] = "pages" /\ StreamOrder4[2] = "wikitext"
      /\ StreamOrder4[3] = "data" /\ StreamOrder4[5] = "resources"
  BY DEF StreamOrder4, RawFiles
<1> QED
  BY <1>1, <1>2 DEF Left, RawFiles

\* The run with one more file read: what was read of the others stays.
LEMMA ReadKeeps ==
    ASSUME CorpusTypeOK, NEW b \in BuilderRecords, b.left # <<>>, b.pc \in DOMAIN AfterReading,
           NEW q \in BuilderRecords, NEW file, NEW rest,
           file = Head(b.left), rest = Tail(b.left),
           q.inventory = IF b.pc = "inventory"
                         THEN [b.inventory EXCEPT ![file] = @ \cup {raw[file]}] ELSE b.inventory,
           q.rows = IF b.pc = "streams"
                    THEN [b.rows EXCEPT ![file] = @ \cup {raw[file]}] ELSE b.rows,
           b.pc = "verify" => b.inventory[file] = {raw[file]},
           \/ rest # <<>> /\ q.pc = b.pc /\ q.left = rest
           \/ rest = <<>> /\ q.pc = AfterReading[b.pc] /\ q.left = Afterwards(b.pc),
           NEW f \in RawFiles, FileRead(b, f)
    PROVE  FileRead(q, f)
<1>1. raw[f] \in Nat /\ b.left \in Seq(RawFiles) /\ b.inventory[f] \subseteq Nat
      /\ b.rows[f] \subseteq Nat
  BY DEF CorpusTypeOK, BuilderRecords
<1>2. b.inventory \in [RawFiles -> SUBSET Nat] /\ b.rows \in [RawFiles -> SUBSET Nat]
  BY DEF BuilderRecords
<1>3. Left(b.left, f) => f = file \/ Left(rest, f)
  BY <1>1, HeadAndTail
<1>4. rest = <<>> => ~Left(rest, f)
  BY DEF Left
<1>5. CASE b.pc = "inventory"
  <2>1. q.inventory[f] = IF f = file THEN b.inventory[f] \cup {raw[f]} ELSE b.inventory[f]
    <3>1. q.inventory = [b.inventory EXCEPT ![file] = b.inventory[file] \cup {raw[file]}]
      BY <1>5
    <3> QED
      BY <3>1, <1>2
  <2>2. q.rows = b.rows /\ b.rows[f] = {}
    BY <1>5 DEF FileRead
  <2>3. q.pc \in {"inventory", "streams"} /\ (q.pc = "streams" => q.left = StreamOrder4)
    BY <1>5 DEF AfterReading, Afterwards
  <2>4. q.pc = "streams" => Left(q.left, f)
    BY <2>3, OrdersHaveAll
  <2>5. Numbered(f, movedBack) => InOrderOfReading(q, f)
    BY <1>1, <1>5, <2>1, <2>2 DEF FileRead, InOrderOfReading, ReadingPlaces
  <2> QED
    BY <2>2, <2>3, <2>4, <2>5 DEF FileRead, ReadingPlaces, WritingPlaces
<1>6. CASE b.pc = "streams"
  <2>1. q.rows[f] = IF f = file THEN b.rows[f] \cup {raw[f]} ELSE b.rows[f]
    <3>1. q.rows = [b.rows EXCEPT ![file] = b.rows[file] \cup {raw[file]}]
      BY <1>6
    <3> QED
      BY <3>1, <1>2
  <2>2. q.inventory = b.inventory
    BY <1>6
  <2>3. /\ q.pc \in {"streams", "judge"}
        /\ q.pc = "streams" => q.left = rest
        /\ q.pc = "judge" => rest = <<>>
    BY <1>6 DEF AfterReading
  <2>4. q.rows[f] # {} \/ Left(rest, f)
    BY <1>3, <1>6, <2>1 DEF FileRead
  <2>5. Numbered(f, movedBack) => InOrderOfReading(q, f)
    BY <1>1, <1>6, <2>1, <2>2 DEF FileRead, InOrderOfReading, ReadingPlaces
  <2> QED
    BY <1>4, <2>3, <2>4, <2>5 DEF FileRead, ReadingPlaces, WritingPlaces
<1>7. CASE b.pc = "verify"
  <2>1. q.inventory = b.inventory /\ q.rows = b.rows /\ b.inventory[file] = {raw[file]}
    BY <1>7
  <2>2. /\ q.pc \in {"verify", "fingerprint"}
        /\ q.pc = "verify" => q.left = rest
        /\ q.pc = "fingerprint" => rest = <<>>
    BY <1>7 DEF AfterReading
  <2>3. q.rows[f] # {}
    BY <1>7, <2>1 DEF FileRead
  <2>4. Numbered(f, movedBack) => InOrderOfReading(q, f)
    BY <1>7, <2>1 DEF FileRead, InOrderOfReading, ReadingPlaces
  <2>5. ASSUME Numbered(f, movedBack) PROVE q.rows[f] = q.inventory[f] \/ Left(rest, f)
    <3>1. CASE f = file
      <4>1. q.inventory[f] = {raw[f]}
        BY <2>1, <3>1
      <4>2. ASSUME NEW r \in q.rows[f] PROVE r = raw[f]
        <5>1. r \in Nat
          BY <1>1, <2>1, <4>2
        <5>2. r <= raw[f] /\ raw[f] <= r
          BY <2>4, <2>5, <4>1, <4>2 DEF InOrderOfReading
        <5> QED
          BY <1>1, <5>1, <5>2
      <4> QED
        BY <2>3, <4>1, <4>2
    <3>2. CASE f # file
      BY <1>3, <1>7, <2>1, <2>5, <3>2 DEF FileRead
    <3> QED
      BY <3>1, <3>2
  <2> QED
    BY <1>4, <2>2, <2>3, <2>4, <2>5 DEF FileRead, ReadingPlaces, WritingPlaces
<1> QED
  BY <1>5, <1>6, <1>7 DEF AfterReading

LEMMA ReadNextKeeps ==
    ASSUME CorpusInv, NEW b \in CorpusRuns, builder[b].pc \in DOMAIN AfterReading,
           ~Drifted(b), ReadNext(b),
           UNCHANGED <<raw, corpus, activePointer, movedBack, proposer, review, outcome>>
    PROVE  CorpusInv'
<1> USE DEF CorpusInv
<1>1. PICK file, rest, old : /\ file = Head(builder[b].left) /\ rest = Tail(builder[b].left)
                             /\ old = builder[b]
  OBVIOUS
<1>2. /\ old \in BuilderRecords /\ old.left # <<>> /\ old.left \in Seq(RawFiles)
      /\ raw \in [RawFiles -> Nat] /\ old.pc \in {"inventory", "streams", "verify"}
  BY <1>1, CorpusTypes DEF ReadingInv, BuilderRecords, AfterReading
<1>3. file \in RawFiles /\ rest \in Seq(RawFiles) /\ raw[file] \in Nat
  BY <1>1, <1>2, HeadAndTail
<1>4. PICK inventory, rows :
         /\ inventory = IF old.pc = "inventory"
                        THEN [old.inventory EXCEPT ![file] = @ \cup {raw[file]}] ELSE old.inventory
         /\ rows = IF old.pc = "streams"
                   THEN [old.rows EXCEPT ![file] = @ \cup {raw[file]}] ELSE old.rows
  OBVIOUS
<1>5. /\ inventory \in [RawFiles -> SUBSET Nat] /\ rows \in [RawFiles -> SUBSET Nat]
  BY <1>2, <1>3, <1>4 DEF BuilderRecords
<1>6. PICK read : read = [old EXCEPT !.inventory = inventory, !.rows = rows]
  OBVIOUS
<1>7. /\ read \in BuilderRecords /\ read.inventory = inventory /\ read.rows = rows
      /\ read.pc = old.pc /\ read.state = old.state
  BY <1>2, <1>5, <1>6 DEF BuilderRecords
<1>8. PICK q : q = IF rest # <<>> THEN [read EXCEPT !.left = rest]
                   ELSE [read EXCEPT !.pc = AfterReading[@], !.left = Afterwards(old.pc)]
  OBVIOUS
<1>9. builder' = [builder EXCEPT ![b] = q]
  <2>1. CASE old.pc = "inventory"
    <3>1. read = [old EXCEPT !["inventory"][file] = @ \cup {raw[file]}]
      BY <2>1, <1>2, <1>4, <1>6 DEF BuilderRecords
    <3> QED
      BY <2>1, <3>1, <1>1, <1>8 DEF ReadNext, BuilderAt
  <2>2. CASE old.pc = "streams"
    <3>1. read = [old EXCEPT !["rows"][file] = @ \cup {raw[file]}]
      BY <2>2, <1>2, <1>4, <1>6 DEF BuilderRecords
    <3> QED
      BY <2>2, <3>1, <1>1, <1>8 DEF ReadNext, BuilderAt
  <2>3. CASE old.pc = "verify"
    <3>1. read = old
      BY <2>3, <1>2, <1>4, <1>6 DEF BuilderRecords
    <3> QED
      BY <2>3, <3>1, <1>1, <1>8 DEF ReadNext, BuilderAt
  <2> QED
    BY <2>1, <2>2, <2>3, <1>2
<1>10. /\ q \in BuilderRecords /\ q.inventory = inventory /\ q.rows = rows
       /\ \/ rest # <<>> /\ q.pc = old.pc /\ q.left = rest
          \/ rest = <<>> /\ q.pc = AfterReading[old.pc] /\ q.left = Afterwards(old.pc)
  <2>1. Afterwards(old.pc) \in Seq(RawFiles)
    BY OrdersHaveAll DEF Afterwards
  <2>2. AfterReading[old.pc] \in BuilderPlaces
    BY <1>2 DEF AfterReading, BuilderPlaces, ReadingPlaces
  <2> QED
    BY <1>3, <1>7, <1>8, <2>1, <2>2 DEF BuilderRecords
<1>11. q.pc \in {"inventory", "streams", "verify", "judge", "fingerprint"}
  BY <1>2, <1>10 DEF AfterReading
<1>12. q.pc \in DOMAIN AfterReading => q.left # <<>>
  BY <1>2, <1>10, OrdersHaveAll DEF AfterReading, Afterwards
<1>13. old.pc = "verify" => old.inventory[file] = {raw[file]}
  BY <1>1 DEF Drifted, BuilderAt
<1>14. ASSUME NEW f \in RawFiles PROVE FileRead(q, f)
  <2>1. FileRead(old, f)
    BY <1>1 DEF ReadingInv
  <2>2. file = Head(old.left) /\ rest = Tail(old.left) /\ old.pc \in DOMAIN AfterReading
    BY <1>1
  <2> QED
    BY <1>2, <1>4, <1>10, <1>13, <2>1, <2>2, ReadKeeps
<1>15. OwnRoot(b, q, outcome[b])
  BY <1>1, <1>2, <1>11 DEF CandidateInv, OwnRoot, WritingPlaces
<1> QED
  BY <1>9, <1>10, <1>12, <1>14, <1>15, RunMoves, RawStays, OutcomeKept

-----------------------------------------------------------------------------
(* The root is created and written.                                         *)

\* Run b writes the root that is its own, before there is a manifest.
LEMMA RootWritten ==
    ASSUME CorpusInv, NEW b \in CorpusRuns, NEW r \in BuilderRecords,
           builder' = [builder EXCEPT ![b] = r], corpus' \in CorpusRecords,
           UNCHANGED <<raw, outcome, activePointer, movedBack, proposer, review>>,
           r.pc \notin DOMAIN AfterReading, \A f \in RawFiles : FileRead(r, f),
           corpus.by \in {{}, {b}}, corpus'.by = {b}, "manifest" \notin corpus.files,
           RootOK', outcome[b] = "none", OwnRoot(b, r, "none")'
    PROVE  CorpusInv'
<1>1. CorpusTypeOK'
  BY DEF CorpusInv, CorpusTypeOK
<1>2. builder'[b] = r /\ \A c \in CorpusRuns \ {b} : builder'[c] = builder[c]
  BY CorpusTypes DEF CorpusInv
<1>3. ReadingInv'
  <2>1. ASSUME NEW c \in CorpusRuns, NEW f \in RawFiles PROVE FileRead(builder[c], f)'
    <3>1. PICK q : q = builder'[c]
      OBVIOUS
    <3>2. FileRead(q, f) /\ q \in BuilderRecords
      BY <1>1, <1>2, <3>1, CorpusTypes DEF CorpusInv, ReadingInv, CorpusTypeOK
    <3> QED
      BY <3>1, <3>2, FileStays, RawStays
  <2>2. \A c \in CorpusRuns :
           builder'[c].pc \in DOMAIN AfterReading => builder'[c].left # <<>>
    BY <1>2 DEF CorpusInv, ReadingInv
  <2> QED
    BY <2>1, <2>2 DEF ReadingInv, AfterReading
<1>4. CandidateInv'
  <2>1. ASSUME NEW c \in CorpusRuns, c # b PROVE OwnRoot(c, builder[c], outcome[c])'
    <3>1. OwnRoot(c, builder[c], outcome[c]) /\ builder'[c] = builder[c]
      BY <2>1, <1>2 DEF CorpusInv, CandidateInv
    <3>2. corpus.by # {c}
      BY <2>1
    <3> QED
      BY <3>1, <3>2 DEF OwnRoot, WritingPlaces
  <2>2. OwnRoot(b, builder[b], outcome[b])'
    BY <1>2 DEF OwnRoot
  <2> QED
    BY <2>1, <2>2 DEF CandidateInv
<1>5. ReviewInv'
  BY DEF CorpusInv, ReviewInv, CandidateInv, RootOK
<1> QED
  BY <1>1, <1>3, <1>4, <1>5 DEF CorpusInv

\* What a run knows about the root before it writes.
LEMMA OwnerKnows ==
    ASSUME CorpusInv, NEW b \in CorpusRuns, builder[b].pc \in WritingPlaces
    PROVE  /\ builder[b] \in BuilderRecords /\ OwnRoot(b, builder[b], outcome[b])
           /\ corpus \in CorpusRecords /\ RootOK
           /\ corpus.by = {b} /\ corpus.files = FilesAt(builder[b])
           /\ outcome[b] = "none" /\ "manifest" \notin corpus.files /\ corpus.state = "none"
           /\ \A f \in RawFiles : Numbered(f, movedBack) =>
                 builder[b].rows[f] = builder[b].inventory[f]
<1>1. builder[b] \in BuilderRecords /\ OwnRoot(b, builder[b], outcome[b])
      /\ corpus \in CorpusRecords /\ RootOK
  BY CorpusTypes DEF CorpusInv, CandidateInv, CorpusTypeOK
<1>2. corpus.by = {b} /\ corpus.files = FilesAt(builder[b]) /\ outcome[b] = "none"
  BY <1>1 DEF OwnRoot, WritingPlaces
<1>3. "manifest" \notin corpus.files
  BY <1>2 DEF FilesAt, Handed
<1>4. \A f \in RawFiles : Numbered(f, movedBack) => builder[b].rows[f] = builder[b].inventory[f]
  BY DEF CorpusInv, ReadingInv, FileRead
<1> QED
  BY <1>1, <1>2, <1>3, <1>4 DEF RootOK

\* The place after, with what the run had.
LEMMA PlaceRecord ==
    ASSUME CorpusInv, NEW b \in CorpusRuns, NEW pc \in WritingPlaces,
           builder[b].pc \in {"create"} \cup WritingPlaces,
           NEW r, r = [builder[b] EXCEPT !.pc = pc]
    PROVE  /\ r \in BuilderRecords /\ r.pc = pc /\ r.rows = builder[b].rows
           /\ r.state = builder[b].state /\ r.pc \notin DOMAIN AfterReading
           /\ \A f \in RawFiles : FileRead(r, f)
<1>1. /\ r \in BuilderRecords /\ r.pc = pc /\ r.inventory = builder[b].inventory
      /\ r.rows = builder[b].rows /\ r.state = builder[b].state /\ r.left = builder[b].left
  BY CorpusTypes DEF CorpusInv, BuilderRecords, BuilderPlaces
<1>2. \A f \in RawFiles : FileRead(r, f)
  BY <1>1 DEF CorpusInv, ReadingInv, FileRead, ReadingPlaces, WritingPlaces
<1> QED
  BY <1>1, <1>2 DEF AfterReading, WritingPlaces

LEMMA CreateKeeps ==
    ASSUME CorpusInv, NEW b \in CorpusRuns, CreateRoot(b) PROVE CorpusInv'
<1>1. /\ builder[b].pc = "create"
      /\ UNCHANGED <<raw, activePointer, movedBack, proposer, review>>
  BY DEF CreateRoot, BuilderAt, InputsKept, ReviewKept
<1>2. CASE corpus.by # {}
  BY <1>1, <1>2, BlockedKeeps, RawStays DEF CreateRoot
<1>3. CASE corpus.by = {}
  <2>1. PICK r : r = [builder[b] EXCEPT !.pc = "artifacts"]
    OBVIOUS
  <2>2. /\ r \in BuilderRecords /\ r.pc = "artifacts" /\ r.pc \notin DOMAIN AfterReading
        /\ \A f \in RawFiles : FileRead(r, f)
    BY <1>1, <2>1, PlaceRecord DEF WritingPlaces
  <2>3. /\ builder' = [builder EXCEPT ![b] = r] /\ corpus' = [NoCorpus EXCEPT !.by = {b}]
        /\ UNCHANGED outcome
    BY <1>3, <2>1 DEF CreateRoot, BuilderTo
  <2>4. /\ corpus' \in CorpusRecords /\ corpus'.by = {b} /\ corpus'.files = {}
        /\ corpus'.state = "none"
    BY <2>3 DEF NoCorpus, CorpusRecords, Unread
  <2>5. outcome[b] = "none" /\ corpus.files = {}
    BY <1>1, <1>3 DEF CorpusInv, CandidateInv, OwnRoot, RootOK
  <2>6. RootOK'
    BY <2>4 DEF RootOK
  <2>7. OwnRoot(b, r, "none")'
    BY <2>2, <2>4 DEF OwnRoot, FilesAt, WritingPlaces
  <2> QED
    BY <1>1, <1>3, <2>2, <2>3, <2>4, <2>5, <2>6, <2>7, RootWritten
<1> QED
  BY <1>2, <1>3

LEMMA ArtifactsKeep ==
    ASSUME CorpusInv, NEW b \in CorpusRuns, WriteArtifacts(b) PROVE CorpusInv'
<1>1. /\ builder[b].pc = "artifacts"
      /\ UNCHANGED <<raw, activePointer, movedBack, proposer, review, outcome>>
  BY DEF WriteArtifacts, BuilderAt, InputsKept, ReviewKept
<1>2. PICK to, r : /\ to = IF builder[b].state = "ready" THEN "handoff" ELSE "report"
                   /\ r = [builder[b] EXCEPT !.pc = to]
  OBVIOUS
<1>3. to \in WritingPlaces
  BY <1>2 DEF WritingPlaces
<1>4. /\ r \in BuilderRecords /\ r.pc = to /\ r.pc \notin DOMAIN AfterReading
      /\ r.rows = builder[b].rows /\ r.state = builder[b].state
      /\ \A f \in RawFiles : FileRead(r, f)
  BY <1>1, <1>2, <1>3, PlaceRecord DEF WritingPlaces
<1>5. /\ corpus.by = {b} /\ corpus.files = {} /\ outcome[b] = "none" /\ corpus.state = "none"
      /\ corpus \in CorpusRecords
  BY <1>1, OwnerKnows DEF FilesAt, WritingPlaces
<1>6. /\ builder' = [builder EXCEPT ![b] = r]
      /\ corpus' = [corpus EXCEPT !.files = @ \cup {"artifacts"}, !.by = @ \cup {b},
                                  !.rows = builder[b].rows]
  BY <1>2 DEF WriteArtifacts, BuilderTo
<1>7. /\ corpus' \in CorpusRecords /\ corpus'.by = {b} /\ corpus'.files = {"artifacts"}
      /\ corpus'.state = "none" /\ corpus'.rows = r.rows
  BY <1>4, <1>5, <1>6 DEF CorpusRecords, BuilderRecords, WritingPlaces
<1>8. RootOK'
  BY <1>7 DEF RootOK
<1>9. OwnRoot(b, r, "none")'
  BY <1>2, <1>4, <1>7 DEF OwnRoot, FilesAt, WritingPlaces, Handed
<1> QED
  BY <1>1, <1>4, <1>5, <1>6, <1>7, <1>8, <1>9, RootWritten

LEMMA WritesKeep ==
    ASSUME CorpusInv, NEW b \in CorpusRuns, WriteHandoff(b) \/ WriteReport(b) PROVE CorpusInv'
<1>1. PICK name, to :
         /\ Writes(b, name, to)
         /\ \/ name = "handoff" /\ to = "report"
            \/ name = "report" /\ to = "manifest"
  BY DEF WriteHandoff, WriteReport
<1>2. /\ builder[b].pc = name /\ name \in WritingPlaces /\ to \in WritingPlaces
      /\ UNCHANGED <<raw, activePointer, movedBack, proposer, review, outcome>>
  BY <1>1 DEF Writes, BuilderAt, InputsKept, ReviewKept, WritingPlaces
<1>3. PICK r : r = [builder[b] EXCEPT !.pc = to]
  OBVIOUS
<1>4. /\ r \in BuilderRecords /\ r.pc = to /\ r.pc \notin DOMAIN AfterReading
      /\ r.rows = builder[b].rows /\ r.state = builder[b].state
      /\ \A f \in RawFiles : FileRead(r, f)
  BY <1>2, <1>3, PlaceRecord
<1>5. /\ corpus.by = {b} /\ corpus.files = FilesAt(builder[b]) /\ outcome[b] = "none"
      /\ corpus.state = "none" /\ corpus \in CorpusRecords /\ "manifest" \notin corpus.files
      /\ OwnRoot(b, builder[b], outcome[b])
  BY <1>2, OwnerKnows
<1>6. /\ builder' = [builder EXCEPT ![b] = r]
      /\ corpus' = [corpus EXCEPT !.files = @ \cup {name}]
  BY <1>1, <1>3 DEF Writes, BuilderTo
<1>7. /\ corpus' \in CorpusRecords /\ corpus'.by = {b} /\ corpus'.files = corpus.files \cup {name}
      /\ corpus'.state = "none" /\ corpus'.rows = corpus.rows
  BY <1>2, <1>5, <1>6 DEF CorpusRecords
<1>8. corpus.rows = r.rows /\ (name = "handoff" => r.state = "ready")
  BY <1>1, <1>2, <1>4, <1>5 DEF OwnRoot
<1>9. corpus'.files = FilesAt(r) /\ "manifest" \notin corpus'.files
  BY <1>1, <1>2, <1>4, <1>5, <1>7, <1>8 DEF FilesAt, Handed
<1>10. RootOK'
  BY <1>7, <1>9 DEF RootOK
<1>11. OwnRoot(b, r, "none")'
  BY <1>1, <1>4, <1>7, <1>8, <1>9 DEF OwnRoot, WritingPlaces
<1> QED
  BY <1>2, <1>4, <1>5, <1>6, <1>7, <1>10, <1>11, RootWritten

LEMMA ManifestKeeps ==
    ASSUME CorpusInv, NEW b \in CorpusRuns, WriteManifest(b) PROVE CorpusInv'
<1>1. /\ builder[b].pc = "manifest"
      /\ UNCHANGED <<raw, activePointer, movedBack, proposer, review, outcome>>
  BY DEF WriteManifest, BuilderAt, InputsKept, ReviewKept
<1>2. PICK state, r :
         state = builder[b].state /\ r = [Builder0 EXCEPT !.pc = "check", !.state = state]
  OBVIOUS
<1>3. /\ corpus.by = {b} /\ corpus.files = FilesAt(builder[b]) /\ outcome[b] = "none"
      /\ corpus \in CorpusRecords /\ "manifest" \notin corpus.files
      /\ OwnRoot(b, builder[b], outcome[b]) /\ builder[b] \in BuilderRecords
      /\ \A f \in RawFiles : Numbered(f, movedBack) =>
            builder[b].rows[f] = builder[b].inventory[f]
  BY <1>1, OwnerKnows DEF WritingPlaces
<1>4. r \in BuilderRecords /\ r.pc = "check" /\ r.state = state
  <2>1. Builder0 \in BuilderRecords
    BY DEF Builder0, BuilderRecords, BuilderPlaces, Unread
  <2>2. state \in States \cup {"none"}
    BY <1>2, <1>3 DEF BuilderRecords
  <2> QED
    BY <1>2, <2>1, <2>2 DEF BuilderRecords, BuilderPlaces
<1>5. \A f \in RawFiles : FileRead(r, f)
  BY <1>4 DEF FileRead, ReadingPlaces, WritingPlaces
<1>6. /\ builder' = [builder EXCEPT ![b] = r]
      /\ corpus' = [corpus EXCEPT !.files = @ \cup {"manifest"}, !.state = state,
                                  !.inventory = builder[b].inventory]
  BY <1>2 DEF WriteManifest
<1>7. /\ corpus' \in CorpusRecords /\ corpus'.by = {b}
      /\ corpus'.files = corpus.files \cup {"manifest"}
      /\ corpus'.state = state /\ corpus'.rows = corpus.rows
      /\ corpus'.inventory = builder[b].inventory
  BY <1>2, <1>3, <1>6 DEF CorpusRecords, BuilderRecords, WritingPlaces
<1>8. corpus.rows = builder[b].rows
  BY <1>1, <1>3 DEF OwnRoot
<1>9. corpus'.files = {"artifacts", "report", "manifest"} \cup Handed(state)
  BY <1>1, <1>2, <1>3, <1>7 DEF FilesAt
<1>10. RootOK'
  <2>1. Verifies'
    BY <1>7, <1>9 DEF Verifies, Handed
  <2>2. \A f \in RawFiles : Numbered(f, movedBack) => corpus'.rows[f] = corpus'.inventory[f]
    BY <1>3, <1>7, <1>8
  <2> QED
    BY <1>1, <1>7, <1>9, <2>1, <2>2 DEF RootOK
<1>11. OwnRoot(b, r, "none")'
  BY <1>4, <1>7, <1>9 DEF OwnRoot, WritingPlaces
<1> QED
  BY <1>1, <1>3, <1>4, <1>5, <1>6, <1>7, <1>10, <1>11, RootWritten DEF AfterReading

-----------------------------------------------------------------------------
(* All steps of a run.                                                      *)

\* The run has got record r and nothing else has changed.
LEMMA RecordKeeps ==
    ASSUME CorpusInv, NEW b \in CorpusRuns, NEW pc \in {"inventory", "verify"},
           NEW state \in States \cup {"none"},
           NEW r, r = [builder[b] EXCEPT !.pc = pc, !.left = InventoryOrder, !.state = state],
           \/ builder[b].pc = "gate" /\ pc = "inventory"
           \/ builder[b].pc = "judge" /\ pc = "verify",
           builder' = [builder EXCEPT ![b] = r],
           UNCHANGED <<raw, outcome, corpus, activePointer, movedBack, proposer, review>>
    PROVE  CorpusInv'
<1>1. /\ builder[b] \in BuilderRecords
      /\ \A f \in RawFiles : FileRead(builder[b], f) /\ raw[f] \in Nat
      /\ OwnRoot(b, builder[b], outcome[b])
  BY CorpusTypes DEF CorpusInv, ReadingInv, CandidateInv
<1>2. /\ r \in BuilderRecords /\ r.pc = pc /\ r.left = InventoryOrder
      /\ r.inventory = builder[b].inventory /\ r.rows = builder[b].rows
  BY <1>1, OrdersHaveAll DEF BuilderRecords, BuilderPlaces, ReadingPlaces
<1>3. \A f \in RawFiles : FileRead(r, f)
  BY <1>1, <1>2, OrdersHaveAll DEF FileRead, InOrderOfReading, ReadingPlaces, WritingPlaces
<1>4. OwnRoot(b, r, outcome[b])
  BY <1>1, <1>2 DEF OwnRoot, WritingPlaces
<1> QED
  BY <1>2, <1>3, <1>4, OrdersHaveAll, RunMoves, RawStays, OutcomeKept

LEMMA GateKeeps == ASSUME CorpusInv, NEW b \in CorpusRuns, PassGate(b) PROVE CorpusInv'
<1>1. /\ builder[b].pc = "gate"
      /\ UNCHANGED <<raw, corpus, activePointer, movedBack, proposer, review>>
  BY DEF PassGate, BuilderAt, InputsKept, ReviewKept
<1>2. CASE Blocked(b)
  BY <1>1, <1>2, BlockedKeeps, RawStays
<1>3. CASE /\ builder' = [builder EXCEPT ![b].pc = "inventory", ![b].left = InventoryOrder]
           /\ UNCHANGED outcome
  <2>1. PICK r : r = [builder[b] EXCEPT !.pc = "inventory", !.left = InventoryOrder,
                                        !.state = builder[b].state]
    OBVIOUS
  <2>2. builder[b] \in BuilderRecords /\ builder \in [CorpusRuns -> BuilderRecords]
    BY CorpusTypes DEF CorpusInv
  <2>3. r = [builder[b] EXCEPT !.pc = "inventory", !.left = InventoryOrder]
    BY <2>1, <2>2 DEF BuilderRecords
  <2>4. builder' = [builder EXCEPT ![b] = r]
    BY <1>3, <2>2, <2>3
  <2>5. PICK state \in States \cup {"none"} : state = builder[b].state
    BY <2>2 DEF BuilderRecords
  <2>6. r = [builder[b] EXCEPT !.pc = "inventory", !.left = InventoryOrder, !.state = state]
    BY <2>1, <2>5
  <2>7. UNCHANGED <<raw, outcome, corpus, activePointer, movedBack, proposer, review>>
    BY <1>1, <1>3
  <2> HIDE DEF CorpusInv
  <2> QED
    BY <1>1, <2>4, <2>6, <2>7, RecordKeeps
<1> QED
  BY <1>2, <1>3 DEF PassGate

LEMMA JudgeKeeps == ASSUME CorpusInv, NEW b \in CorpusRuns, Judge(b) PROVE CorpusInv'
<1>1. /\ builder[b].pc = "judge"
      /\ UNCHANGED <<raw, corpus, activePointer, movedBack, proposer, review>>
  BY DEF Judge, BuilderAt, InputsKept, ReviewKept
<1>2. CASE Blocked(b)
  BY <1>1, <1>2, BlockedKeeps, RawStays
<1>3. ASSUME NEW s \in States,
             builder' = [builder EXCEPT ![b].pc = "verify", ![b].state = s,
                                        ![b].left = InventoryOrder],
             UNCHANGED outcome
      PROVE  CorpusInv'
  <2>1. PICK r : r = [builder[b] EXCEPT !.pc = "verify", !.left = InventoryOrder, !.state = s]
    OBVIOUS
  <2>2. builder[b] \in BuilderRecords /\ builder \in [CorpusRuns -> BuilderRecords]
    BY CorpusTypes DEF CorpusInv
  <2>3. r = [builder[b] EXCEPT !.pc = "verify", !.state = s, !.left = InventoryOrder]
    BY <2>1, <2>2 DEF BuilderRecords
  <2>4. builder' = [builder EXCEPT ![b] = r]
    BY <1>3, <2>2, <2>3
  <2>5. s \in States \cup {"none"}
    OBVIOUS
  <2> QED
    BY <1>1, <1>3, <2>1, <2>4, <2>5, RecordKeeps
<1>4. CASE /\ \E s \in States :
                   builder' = [builder EXCEPT ![b].pc = "verify", ![b].state = s,
                                              ![b].left = InventoryOrder]
           /\ UNCHANGED outcome
  <2>1. PICK s \in States :
           builder' = [builder EXCEPT ![b].pc = "verify", ![b].state = s,
                                      ![b].left = InventoryOrder]
    BY <1>4
  <2>2. UNCHANGED outcome
    BY <1>4
  <2> QED
    BY <1>3, <2>1, <2>2
<1> QED
  BY <1>2, <1>4 DEF Judge

LEMMA TornKeeps == ASSUME CorpusInv, NEW b \in CorpusRuns, ReadTorn(b) PROVE CorpusInv'
<1>1. PICK f : f = Head(builder[b].left)
  OBVIOUS
<1>2. builder[b] \in BuilderRecords /\ builder[b].left # <<>>
  BY CorpusTypes DEF CorpusInv, ReadingInv, ReadTorn
<1>3. f \in RawFiles
  BY <1>1, <1>2, HeadAndTail DEF BuilderRecords
<1>4. RawGrows
  BY <1>1, <1>3 DEF ReadTorn, Appended, RawGrows, CorpusInv, CorpusTypeOK
<1> QED
  BY <1>4, BlockedKeeps DEF ReadTorn, ReviewKept

LEMMA RunKeeps == ASSUME CorpusInv, NEW b \in CorpusRuns, BuildStep(b) PROVE CorpusInv'
<1>1. CASE StartBuild(b)
  BY <1>1, PlaceKeeps DEF StartBuild, BuilderAt, BuilderPlaces, InputsKept, CorpusKept, ReviewKept
<1>2. CASE ReadFile(b)
  BY <1>2, ReadNextKeeps, BlockedKeeps, RawStays DEF ReadFile, InputsKept, ReviewKept
<1>3. CASE Fingerprint(b)
  <2>1. builder[b].pc = "fingerprint" /\ outcome[b] = "none"
    BY <1>3 DEF Fingerprint, BuilderAt, CorpusInv, CandidateInv, OwnRoot
  <2> QED
    BY <1>3, <2>1, PlaceKeeps, DeadKeeps DEF Fingerprint, BuilderPlaces, InputsKept, ReviewKept
<1>4. CASE CheckRoot(b)
  <2>1. builder[b].pc = "check"
    BY <1>4 DEF CheckRoot, BuilderAt
  <2> QED
    BY <1>4, <2>1, PlaceKeeps, BlockedKeeps, RawStays
       DEF CheckRoot, BuilderPlaces, InputsKept, ReviewKept
<1>5. CASE WriteResult(b)
  <2>1. builder[b].pc = "result" /\ builder[b] \in BuilderRecords
    BY <1>5, CorpusTypes DEF WriteResult, BuilderAt, CorpusInv
  <2>2. "manifest" \in corpus.files /\ corpus.state = builder[b].state /\ corpus.by = {b}
    BY <2>1 DEF CorpusInv, CandidateInv, OwnRoot
  <2>3. builder[b].state \in States \cup {"none"}
    BY <2>1 DEF BuilderRecords
  <2> QED
    BY <1>5, <2>2, <2>3, EndsKeeps, RawStays DEF WriteResult, InputsKept, ReviewKept
<1>6. CASE WriteFails(b)
  BY <1>6, BlockedKeeps, RawStays DEF WriteFails, InputsKept, ReviewKept
<1>7. CASE KillBuild(b)
  <2>1. outcome[b] = "none"
    BY <1>7 DEF KillBuild, CorpusInv, CandidateInv, OwnRoot
  <2> QED
    BY <1>7, <2>1, DeadKeeps DEF KillBuild, InputsKept, ReviewKept
<1> QED
  BY <1>1, <1>2, <1>3, <1>4, <1>5, <1>6, <1>7, GateKeeps, TornKeeps, JudgeKeeps, CreateKeeps,
     ArtifactsKeep, WritesKeep, ManifestKeeps DEF BuildStep

-----------------------------------------------------------------------------
(* The review, and the environment.                                         *)

\* Only the review and its commands have changed.
LEMMA ReviewMoves ==
    ASSUME CorpusInv, UNCHANGED <<raw, builder, corpus, outcome, activePointer, movedBack>>,
           proposer' \in [Proposals -> {"idle", "collect", "review", "tuple", "ended"}],
           review' \in ReviewRecords, ReviewInv'
    PROVE  CorpusInv'
<1>1. CorpusTypeOK'
  BY DEF CorpusInv, CorpusTypeOK
<1>2. ReadingInv'
  BY DEF CorpusInv, ReadingInv, FileRead, InOrderOfReading, AfterReading
<1>3. CandidateInv'
  BY DEF CorpusInv, CandidateInv, RootOK, OwnRoot, Verifies
<1> QED
  BY <1>1, <1>2, <1>3 DEF CorpusInv

LEMMA ProposalKeeps ==
    ASSUME CorpusInv, NEW p \in Proposals, ProposalStep(p) PROVE CorpusInv'
<1>1. UNCHANGED <<raw, builder, corpus, outcome, activePointer, movedBack>>
  BY DEF ProposalStep, VerifyCandidate, CreateReview, WriteProposal, WriteTuple, KillProposal,
     InputsKept, BuildKept
<1>2. /\ proposer \in [Proposals -> {"idle", "collect", "review", "tuple", "ended"}]
      /\ review \in ReviewRecords /\ ReviewInv /\ activePointer \in {"zero", "later"}
  BY DEF CorpusInv, CorpusTypeOK
<1>3. ASSUME NEW to \in {"collect", "ended"}, ProposerTo(p, to), UNCHANGED review
      PROVE  CorpusInv'
  <2>1. /\ proposer' \in [Proposals -> {"idle", "collect", "review", "tuple", "ended"}]
        /\ proposer'[p] = to /\ \A q \in Proposals \ {p} : proposer'[q] = proposer[q]
    BY <1>2, <1>3 DEF ProposerTo
  <2>2. ReviewInv'
    BY <1>1, <1>2, <1>3, <2>1 DEF ReviewInv
  <2> QED
    BY <1>1, <1>2, <1>3, <2>1, <2>2, ReviewMoves
<1>4. CASE VerifyCandidate(p)
  BY <1>3, <1>4 DEF VerifyCandidate
<1>5. CASE CreateReview(p)
  <2>1. CASE review.by # {}
    BY <1>3, <1>5, <2>1 DEF CreateReview
  <2>2. CASE review.by = {}
    <3>1. /\ proposer' \in [Proposals -> {"idle", "collect", "review", "tuple", "ended"}]
          /\ proposer'[p] = "review" /\ \A q \in Proposals \ {p} : proposer'[q] = proposer[q]
      BY <1>2, <1>5, <2>2 DEF CreateReview, ProposerTo
    <3>2. /\ review' \in ReviewRecords /\ review'.by = {p}
          /\ ~review'.allowed /\ ~review'.tuple
      BY <1>5, <2>2 DEF CreateReview, Review0, ReviewRecords
    <3>3. \A q \in Proposals \ {p} : proposer[q] \notin {"review", "tuple"}
      BY <1>2, <2>2 DEF ReviewInv
    <3>4. ReviewInv'
      BY <3>1, <3>2, <3>3 DEF ReviewInv
    <3> QED
      BY <1>1, <3>1, <3>2, <3>4, ReviewMoves
  <2> QED
    BY <2>1, <2>2
<1>6. CASE WriteProposal(p)
  <2>1. proposer[p] = "review" /\ review.by = {p} /\ ~review.allowed /\ ~review.tuple
    BY <1>2, <1>6 DEF WriteProposal, ProposerAt, ReviewInv
  <2>2. PICK evidence \in BOOLEAN :
           LET allowed == evidence /\ corpus.state = "ready" /\ activePointer = "zero"
           IN /\ review' = [review EXCEPT !.by = @ \cup {p}, !.allowed = allowed,
                                          !.pointer = activePointer]
              /\ ProposerTo(p, IF allowed THEN "tuple" ELSE "ended")
    BY <1>6 DEF WriteProposal
  <2>3. PICK allowed \in BOOLEAN :
           allowed = (evidence /\ corpus.state = "ready" /\ activePointer = "zero")
    OBVIOUS
  <2>4. /\ review' = [review EXCEPT !.by = @ \cup {p}, !.allowed = allowed,
                                     !.pointer = activePointer]
        /\ ProposerTo(p, IF allowed THEN "tuple" ELSE "ended")
    BY <2>2, <2>3
  <2>5. /\ review' \in ReviewRecords /\ review'.by = {p} /\ review'.allowed = allowed
        /\ review'.tuple = review.tuple /\ review'.pointer = activePointer
    BY <1>2, <2>1, <2>4 DEF ReviewRecords
  <2>6. /\ proposer' \in [Proposals -> {"idle", "collect", "review", "tuple", "ended"}]
        /\ proposer'[p] = IF allowed THEN "tuple" ELSE "ended"
        /\ \A q \in Proposals \ {p} : proposer'[q] = proposer[q]
    BY <1>2, <2>4 DEF ProposerTo
  <2>7. \A q \in Proposals \ {p} : proposer[q] \notin {"review", "tuple"}
    BY <1>2, <2>1 DEF ReviewInv
  <2>8. ReviewInv'
    <3>1. allowed => review'.pointer = "zero" /\ corpus'.state = "ready"
      BY <1>1, <2>3, <2>4, <1>2, <2>1 DEF ReviewRecords
    <3>2. ~review'.tuple
      BY <2>1, <2>5
    <3>3. proposer'[p] # "review" /\ (proposer'[p] = "tuple" => allowed)
      BY <2>6
    <3>4. \A q \in Proposals \ {p} : proposer'[q] \notin {"review", "tuple"}
      BY <2>6, <2>7
    <3> QED
      BY <2>5, <3>1, <3>2, <3>3, <3>4 DEF ReviewInv
  <2> QED
    BY <1>1, <2>5, <2>6, <2>8, ReviewMoves
<1>7. CASE WriteTuple(p)
  <2>1. proposer[p] = "tuple" /\ review.by = {p} /\ review.allowed
    BY <1>2, <1>7 DEF WriteTuple, ProposerAt, ReviewInv
  <2>2. /\ review' \in ReviewRecords /\ review'.by = {p} /\ review'.allowed
        /\ review'.pointer = review.pointer
    BY <1>2, <1>7, <2>1 DEF WriteTuple, ReviewRecords
  <2>3. /\ proposer' \in [Proposals -> {"idle", "collect", "review", "tuple", "ended"}]
        /\ proposer'[p] = "ended" /\ \A q \in Proposals \ {p} : proposer'[q] = proposer[q]
    BY <1>2, <1>7 DEF WriteTuple, ProposerTo
  <2>4. \A q \in Proposals \ {p} : proposer[q] \notin {"review", "tuple"}
    BY <1>2, <2>1 DEF ReviewInv
  <2>5. ReviewInv'
    BY <1>1, <1>2, <2>1, <2>2, <2>3, <2>4 DEF ReviewInv
  <2> QED
    BY <1>1, <2>2, <2>3, <2>5, ReviewMoves
<1>8. CASE KillProposal(p)
  BY <1>3, <1>8 DEF KillProposal
<1> QED
  BY <1>4, <1>5, <1>6, <1>7, <1>8 DEF ProposalStep

LEMMA CrawlKeeps == ASSUME CorpusInv, NEW f \in RawFiles, CrawlWrites(f) PROVE CorpusInv'
<1>1. /\ RawGrows
      /\ UNCHANGED <<builder, corpus, outcome, activePointer, movedBack, proposer, review>>
  BY DEF CrawlWrites, Appended, RawGrows, BuildKept, ReviewKept, CorpusInv, CorpusTypeOK
<1>2. CorpusTypeOK'
  BY <1>1 DEF CorpusInv, CorpusTypeOK, RawGrows
<1>3. ReadingInv'
  <2>1. ASSUME NEW c \in CorpusRuns, NEW g \in RawFiles PROVE FileRead(builder[c], g)'
    <3>1. PICK q : q = builder[c]
      OBVIOUS
    <3>2. FileRead(q, g) /\ q \in BuilderRecords
      BY <3>1, CorpusTypes DEF CorpusInv, ReadingInv
    <3> QED
      BY <1>1, <3>1, <3>2, FileStays
  <2> QED
    BY <1>1, <2>1 DEF CorpusInv, ReadingInv, AfterReading
<1>4. CandidateInv' /\ ReviewInv'
  BY <1>1 DEF CorpusInv, CandidateInv, RootOK, OwnRoot, Verifies, ReviewInv
<1> QED
  BY <1>2, <1>3, <1>4 DEF CorpusInv

LEMMA RecoveryKeeps == ASSUME CorpusInv, RecoverSnapshot PROVE CorpusInv'
<1>1. /\ raw' = [raw EXCEPT !["data"] = 0]
      /\ UNCHANGED <<builder, corpus, outcome, activePointer, proposer, review>>
      /\ movedBack' = (movedBack \/ \E b \in CorpusRuns :
                          builder[b].pc \in {"inventory", "streams", "judge", "verify"})
  BY DEF RecoverSnapshot, BuildKept, ReviewKept
<1>2. CorpusTypeOK'
  BY <1>1 DEF CorpusInv, CorpusTypeOK
<1>3. \A f \in RawFiles : Numbered(f, movedBack') => Numbered(f, movedBack)
  BY <1>1 DEF Numbered
<1>4. ReadingInv'
  <2>1. ASSUME NEW c \in CorpusRuns, NEW f \in RawFiles PROVE FileRead(builder[c], f)'
    <3>1. PICK q : q = builder[c]
      OBVIOUS
    <3>2. FileRead(q, f)
      BY <3>1 DEF CorpusInv, ReadingInv
    <3>3. q.pc \in ReadingPlaces /\ Numbered(f, movedBack') => raw'[f] = raw[f]
      BY <1>1, <3>1 DEF ReadingPlaces, Numbered, CorpusInv, CorpusTypeOK
    <3>4. q.pc \in ReadingPlaces /\ Numbered(f, movedBack') => InOrderOfReading(q, f)'
      BY <1>3, <3>2, <3>3 DEF FileRead, InOrderOfReading
    <3>5. FileRead(q, f)'
      BY <1>3, <3>2, <3>4 DEF FileRead
    <3> QED
      BY <1>1, <3>1, <3>5
  <2> QED
    BY <1>1, <2>1 DEF CorpusInv, ReadingInv, AfterReading
<1>5. CandidateInv' /\ ReviewInv'
  BY <1>1, <1>3 DEF CorpusInv, CandidateInv, RootOK, OwnRoot, Verifies, ReviewInv
<1> QED
  BY <1>2, <1>4, <1>5 DEF CorpusInv

LEMMA PointerKeeps == ASSUME CorpusInv, PointerMoves PROVE CorpusInv'
<1>1. /\ activePointer' = "later"
      /\ UNCHANGED <<raw, builder, corpus, outcome, movedBack, proposer, review>>
  BY DEF PointerMoves, BuildKept, ReviewKept
<1> QED
  BY <1>1 DEF CorpusInv, CorpusTypeOK, ReadingInv, FileRead, InOrderOfReading, AfterReading,
     CandidateInv, RootOK, OwnRoot, Verifies, ReviewInv

LEMMA CorpusKeeps == ASSUME CorpusInv, [CorpusNext]_corpusVars PROVE CorpusInv'
<1>1. CASE UNCHANGED corpusVars
  BY <1>1 DEF corpusVars, CorpusInv, CorpusTypeOK, ReadingInv, FileRead, InOrderOfReading,
     AfterReading, CandidateInv, RootOK, OwnRoot, Verifies, ReviewInv
<1> QED
  BY <1>1, RunKeeps, ProposalKeeps, CrawlKeeps, RecoveryKeeps, PointerKeeps DEF CorpusNext

LEMMA InvIsTrue == ASSUME CorpusInv PROVE CandidateTrue
<1>1. ASSUME NEW b \in CorpusRuns PROVE Cardinality({b}) = 1
  BY FS_Singleton
<1>2. ASSUME "manifest" \in corpus.files PROVE Cardinality(corpus.by) = 1
  BY <1>1, <1>2 DEF CorpusInv, CandidateInv, RootOK
<1>3. Cardinality(review.by) <= 1
  <2>1. Cardinality({}) = 0 /\ \A p \in Proposals : Cardinality({p}) = 1
    BY FS_Singleton, FS_EmptySet
  <2>2. review.by = {} \/ \E p \in Proposals : review.by = {p}
    BY DEF CorpusInv, ReviewInv
  <2> QED
    BY <2>1, <2>2
<1>4. "manifest" \in corpus.files =>
         /\ Verifies
         /\ \A f \in RawFiles : f # "data" \/ ~movedBack =>
               corpus.rows[f] = corpus.inventory[f]
  BY DEF CorpusInv, CandidateInv, RootOK, Numbered
<1>5. \A b \in CorpusRuns : outcome[b] \in {"ready", "diagnostic"} =>
         "manifest" \in corpus.files /\ corpus.by = {b} /\ corpus.state = outcome[b]
  BY DEF CorpusInv, CandidateInv, OwnRoot
<1>6. review.allowed => review.pointer = "zero" /\ corpus.state = "ready" /\ Verifies
  BY DEF CorpusInv, CandidateInv, RootOK, ReviewInv
<1>7. review.tuple => review.allowed
  BY DEF CorpusInv, ReviewInv
<1> QED
  BY <1>2, <1>3, <1>4, <1>5, <1>6, <1>7 DEF CandidateTrue

-----------------------------------------------------------------------------

\* A root with a manifest verifies, holds the files of one run, and its rows
\* are of the contents its inventory hashed; a run that reports a candidate has
\* one there, its own and in the state it reports; and what a review approves
\* is a ready candidate, under the pointer of generation zero (build_candidate,
\* verify_candidate_manifest, build_activation_review).
THEOREM CandidateSafety == CorpusSpec => []CandidateTrue
<1>1. CorpusInit => CorpusInv  BY InitCandidate
<1>2. CorpusInv /\ [CorpusNext]_corpusVars => CorpusInv'  BY CorpusKeeps
<1>3. CorpusInv => CandidateTrue  BY InvIsTrue
<1> QED BY <1>1, <1>2, <1>3, PTL DEF CorpusSpec

-----------------------------------------------------------------------------
(* The voice lines.                                                         *)

VoiceCursor == [token : Nat \ {0}, line : VoiceLines \cup {0}]
VoiceGroup ==
    [line : VoiceLines, build : {1, 2}, variants : [Languages -> {0, 1, 2}]]
VoicePage == [lines : Seq(VoiceGroup), next : Nat, more : BOOLEAN, build : {0, 1, 2}]
VoicePanel ==
    [lines : Seq(VoiceGroup), next : Nat, more : BOOLEAN, from : {0, 1, 2},
     loading : BOOLEAN, error : {"none", "retry", "reload-first-page"}, generation : Nat]
VoiceCall ==
    [cursor : Nat \ {0}, build : {1, 2}, generation : Nat, page : VoicePage,
     answer : {"none", "lost", "mismatch", "invalid", "page"}]

VoiceTypes ==
    /\ voiceRows \in Seq(VoiceRow) \ {<<>>}
    /\ voice \in [build : {1, 2}, cursors : Seq(VoiceCursor), process : Nat]
    /\ panel \in VoicePanel
    /\ calls \in SUBSET VoiceCall /\ IsFiniteSet(calls)
    /\ voiceAsked \in Nat

\* The lines of each build.  No step changes them, so the parts of the
\* invariant have them as a parameter.
BuildLines == [build \in {1, 2} |-> Groups(build)]

Lists(g) ==
    \A build \in {1, 2} :
        /\ g[build] \in Seq(VoiceGroup)
        /\ \A i, j \in DOMAIN g[build] : g[build][i].line = g[build][j].line => i = j

Cursors == ToSet(voice.cursors)

\* A token is of one cursor, and one that the process gave for a line is of a
\* line it has.
CursorsDiffer(g) ==
    /\ \A c, d \in Cursors : c.token = d.token => c = d
    /\ \A c \in Cursors : c.line # 0 =>
          \E i \in DOMAIN g[voice.build] : g[voice.build][i].line = c.line

\* The cursor of a page stands at its last line, if it is among those that a
\* process of a build knows.
StandsAt(known, current, lines, next, build) ==
    \A c \in known : c.token = next =>
        build = current /\ lines # <<>> /\ c.line = lines[Len(lines)].line

\* What a request asks for is of a line, and what it is answered follows on.
AsksFor(known, current, c) ==
    /\ \A d \in known : d.token = c.cursor => d.line # 0
    /\ StandsAt(known, current, c.page.lines, c.page.next, c.page.build)

\* A page lists the lines of a build after the first n, and offers more
\* exactly when there are.
PageIs(groups, n, served) ==
    \E m \in Nat :
        /\ n + m <= Len(groups)
        /\ served.lines = SubSeq(groups, n + 1, n + m) /\ served.lines # <<>>
        /\ served.more = (n + m < Len(groups))
        /\ served.more = (served.next # 0)

PanelBegins(g) ==
    /\ panel.from = 0 => panel.lines = <<>> /\ panel.next = 0 /\ calls = {}
    /\ panel.from # 0 => PageIs(g[panel.from], 0, panel)
    /\ StandsAt(Cursors, voice.build, panel.lines, panel.next, panel.from)

CallsAsk == \A c \in calls : AsksFor(Cursors, voice.build, c)

WaitedFor(g) ==
    \A c \in calls :
        /\ c.generation <= panel.generation
        /\ Waits(c) =>
              /\ c.cursor = panel.next /\ c.build = panel.from
              /\ \A d \in calls : Waits(d) => d = c
              /\ c.answer = "page" =>
                    c.page.build = panel.from /\ PageIs(g[panel.from], Len(panel.lines), c.page)

VoiceRel(g) == CursorsDiffer(g) /\ PanelBegins(g) /\ CallsAsk /\ WaitedFor(g)

VoiceInv == VoiceTypes /\ VoiceRel(BuildLines)
-----------------------------------------------------------------------------
(* The lines of a build.                                                    *)

RowsGiven == voiceRows \in Seq(VoiceRow) \ {<<>>}

LEMMA RowsAre ==
    ASSUME RowsGiven, NEW build \in {1, 2}
    PROVE  /\ RowsOf(build) \in Seq(VoiceRow) /\ Len(RowsOf(build)) \in Nat
           /\ DOMAIN RowsOf(build) = 1 .. Len(RowsOf(build))
           /\ \A i \in DOMAIN RowsOf(build) :
                 /\ RowsOf(build)[i] \in VoiceRow
                 /\ RowsOf(build)[i] # Unplayable => RowsOf(build)[i].line \in VoiceLines
                 /\ RowsOf(build)[i].line \in VoiceLines => RowsOf(build)[i].rank \in {1, 2}
<1> PICK rows : rows = RowsOf(build)
  OBVIOUS
<1>1. rows \in Seq(VoiceRow)
  <2>1. Tail(voiceRows) \in Seq(VoiceRow)
    BY HeadTailProperties DEF RowsGiven
  <2> QED  BY <2>1 DEF RowsOf, RowsGiven
<1>2. Len(rows) \in Nat /\ DOMAIN rows = 1 .. Len(rows)
  BY <1>1, LenProperties
<1>3. \A row \in VoiceRow : /\ row # Unplayable => row.line \in VoiceLines
                            /\ row.line \in VoiceLines => row.rank \in {1, 2}
  BY VoiceAssumption DEF VoiceRow, Unplayable
<1>4. \A i \in DOMAIN rows : rows[i] \in VoiceRow
  BY <1>1, <1>2, ElementOfSeq
<1> QED  BY <1>1, <1>2, <1>3, <1>4

\* The best rank among the rows that are of a line in a language.
LEMMA VariantIs ==
    ASSUME RowsGiven, NEW build \in {1, 2}, NEW line \in VoiceLines, NEW language
    PROVE  LET ranks == {row.rank : row \in {r \in ToSet(RowsOf(build)) :
                             r.line = line /\ r.language = language}}
           IN /\ Variant(build, line, language) \in {0, 1, 2}
              /\ Variant(build, line, language) = IF ranks = {} THEN 0 ELSE Min(ranks)
<1> PICK rows, n : rows = RowsOf(build) /\ n = Len(rows)
  OBVIOUS
<1> DEFINE D == 1 .. n
           V == {0, 1, 2}
           Fits(row) == row.line = line /\ row.language = language
           Step(current, row) == IF Fits(row) THEN Preferred(current, row.rank) ELSE current
           fold == CHOOSE it : it = [s \in SUBSET DOMAIN rows |->
                       IF s = {} THEN 0 ELSE Step(it[s \ {Max(s)}], rows[Max(s)])]
           st == [e \in V \X D |-> Step(e[1], rows[e[2]])]
<1>1. Variant(build, line, language) = fold[DOMAIN rows]
  BY DEF Variant, FoldLeft, MapThenFoldSet
<1>2. /\ n \in Nat /\ DOMAIN rows = D
      /\ \A i \in D : rows[i].line \in VoiceLines => rows[i].rank \in {1, 2}
  BY RowsAre
<1>3. ASSUME NEW x \in V, NEW i \in D PROVE Step(x, rows[i]) \in V
  <2>1. Fits(rows[i]) => rows[i].rank \in {1, 2}
    BY <1>2
  <2> QED  BY <2>1 DEF Preferred
<1>4. st \in [V \X D -> V] /\ \A x \in V, i \in D : st[<<x, i>>] = Step(x, rows[i])
  <2> HIDE DEF V, Step, D
  <2> QED  BY <1>3
<1>5. ASSUME NEW s \in SUBSET D, s # {} PROVE Max(s) \in D
  <2>1. s \subseteq 0 .. n
    BY <1>2
  <2>2. Max(s) \in s
    BY <1>2, <1>5, <2>1, MaxOf
  <2> QED  BY <2>2
<1>6. 0 \in V
  OBVIOUS
<1> HIDE DEF st, V, Step, fold
<1>7. PICK it \in [SUBSET D -> V] : InTurns(it, n, 0, st)
  BY <1>2, <1>4, <1>6, TurnsExist
<1>8. it = [s \in SUBSET DOMAIN rows |->
               IF s = {} THEN 0 ELSE Step(it[s \ {Max(s)}], rows[Max(s)])]
  <2>1. ASSUME NEW s \in SUBSET D, s # {}
        PROVE  st[<<it[s \ {Max(s)}], Max(s)>>] = Step(it[s \ {Max(s)}], rows[Max(s)])
    <3>1. Max(s) \in D /\ it[s \ {Max(s)}] \in V
      BY <1>5, <2>1
    <3> QED  BY <1>4, <3>1
  <2> HIDE DEF D
  <2> QED  BY <1>2, <1>7, <2>1 DEF InTurns, D
<1>9. fold = [s \in SUBSET DOMAIN rows |->
                 IF s = {} THEN 0 ELSE Step(fold[s \ {Max(s)}], rows[Max(s)])]
  BY <1>8 DEF fold
<1>10. \A s \in SUBSET D : fold[s] = IF s = {} THEN 0
                                     ELSE Step(fold[s \ {Max(s)}], rows[Max(s)])
  <2> HIDE DEF D
  <2> QED  BY <1>2, <1>9
<1> DEFINE Best(x, k) ==
               /\ x \in {0, 1, 2}
               /\ \A i \in 1 .. k : Fits(rows[i]) => x # 0 /\ x <= rows[i].rank
               /\ x # 0 => \E i \in 1 .. k : Fits(rows[i]) /\ rows[i].rank = x
           T == {k \in Nat : k <= n => Best(fold[1 .. k], k)}
<1>11. 0 \in T
  <2>1. 1 .. 0 = {} /\ {} \in SUBSET D
    OBVIOUS
  <2>2. fold[1 .. 0] = 0
    BY <1>10, <2>1
  <2> QED  BY <2>1, <2>2
<1>12. ASSUME NEW k \in T PROVE k + 1 \in T
  <2>1. SUFFICES ASSUME k + 1 <= n PROVE Best(fold[1 .. (k + 1)], k + 1)
    OBVIOUS
  <2>2. k \in Nat /\ k < n /\ Best(fold[1 .. k], k)
    BY <1>2, <2>1
  <2> PICK R, U, x, y, row : /\ R = 1 .. (k + 1) /\ U = 1 .. k /\ x = fold[U] /\ y = fold[R]
                             /\ row = rows[k + 1]
    OBVIOUS
  <2>3. R \in SUBSET D /\ R # {} /\ Max(R) = k + 1 /\ R \ {k + 1} = U /\ k + 1 \in D
    BY <1>2, <2>1, <2>2, LastTurn
  <2>4. y = IF Fits(row) THEN Preferred(x, row.rank) ELSE x
    <3>1. fold[R] = Step(fold[R \ {Max(R)}], rows[Max(R)])
      BY <1>10, <2>3
    <3>2. y = Step(x, row)
      BY <2>3, <3>1
    <3> QED  BY ONLY <3>2 DEF Step
  <2>5. Best(x, k)
    BY <2>2
  <2>6. Fits(row) => row.rank \in {1, 2}
    BY <1>2, <2>3
  <2>7. \A i \in 1 .. (k + 1) : i \in 1 .. k \/ i = k + 1
    BY <2>2
  <2>8. 1 .. k \subseteq 1 .. (k + 1) /\ k + 1 \in 1 .. (k + 1)
    BY <2>2
  <2>9. \A i \in 1 .. k : Fits(rows[i]) => rows[i].rank \in {1, 2}
    BY <1>2, <2>2
  <2>10. CASE ~Fits(row)
    <3>1. y = x
      BY <2>4, <2>10
    <3> HIDE DEF Fits
    <3> QED  BY <2>5, <2>7, <2>8, <2>10, <3>1
  <2>11. CASE Fits(row)
    <3> PICK r : r = row.rank
      OBVIOUS
    <3>1. r \in {1, 2} /\ x \in {0, 1, 2} /\ y = IF x = 0 \/ r < x THEN r ELSE x
      BY <2>4, <2>5, <2>6, <2>11 DEF Preferred
    <3>2. y # 0 /\ y <= r /\ (x # 0 => y <= x) /\ (y = r \/ (y = x /\ x # 0)) /\ y \in {1, 2}
      BY <3>1
    <3>3. ASSUME NEW i \in 1 .. (k + 1), Fits(rows[i]) PROVE y # 0 /\ y <= rows[i].rank
      <4>1. CASE i = k + 1
        BY <3>2, <4>1
      <4>2. CASE i \in 1 .. k
        <5> PICK p : p = rows[i].rank
          OBVIOUS
        <5>1. x # 0 /\ x <= p /\ p \in {1, 2}
          BY <2>5, <2>9, <3>3, <4>2
        <5> QED  BY <3>1, <3>2, <5>1
      <4> QED  BY <2>7, <4>1, <4>2
    <3>4. \E i \in 1 .. (k + 1) : Fits(rows[i]) /\ rows[i].rank = y
      <4>1. CASE y = r
        BY <2>8, <2>11, <4>1
      <4>2. CASE y = x /\ x # 0
        BY <2>5, <2>8, <4>2
      <4> QED  BY <3>2, <4>1, <4>2
    <3> QED  BY <3>2, <3>3, <3>4
  <2> QED  BY <2>10, <2>11
<1>13. T = Nat
  <2> HIDE DEF T
  <2>1. T \subseteq Nat
    BY DEF T
  <2> QED  BY <1>11, <1>12, <2>1, NatInductive
<1> PICK x : x = fold[D]
  OBVIOUS
<1>14. Best(x, n)
  BY <1>2, <1>13
<1> DEFINE ranks == {row.rank : row \in {r \in ToSet(rows) :
                         r.line = line /\ r.language = language}}
<1>15. \A p : p \in ranks <=> \E i \in 1 .. n : Fits(rows[i]) /\ rows[i].rank = p
  BY <1>2 DEF ToSet
<1>16. ranks = {} => x = 0
  <2> HIDE DEF ranks
  <2> QED  BY <1>14, <1>15
<1>17. ranks # {} => x = Min(ranks)
  <2> HIDE DEF ranks
  <2>1. SUFFICES ASSUME ranks # {} PROVE x = Min(ranks)
    OBVIOUS
  <2>2. \A p \in ranks : p \in {1, 2} /\ x <= p /\ x # 0
    BY <1>2, <1>14, <1>15
  <2>3. x \in ranks
    BY <1>14, <1>15, <2>1, <2>2
  <2>4. ranks \subseteq Nat
    BY <2>2
  <2> PICK m : m = Min(ranks)
    OBVIOUS
  <2>5. m \in ranks /\ m <= x
    BY <2>1, <2>3, <2>4, MinOf
  <2> QED  BY <2>2, <2>3, <2>5
<1> HIDE DEF ranks
<1>18. x \in {0, 1, 2} /\ x = IF ranks = {} THEN 0 ELSE Min(ranks)
  BY <1>14, <1>16, <1>17
<1> QED  BY <1>1, <1>2, <1>18 DEF ranks

\* Each build lists its lines, each once.
LEMMA GroupsAre ==
    ASSUME RowsGiven
    PROVE  Lists(BuildLines)
<1> SUFFICES ASSUME NEW build \in {1, 2}
             PROVE  /\ Groups(build) \in Seq(VoiceGroup)
                    /\ \A i, j \in DOMAIN Groups(build) :
                          Groups(build)[i].line = Groups(build)[j].line => i = j
  BY DEF Lists, BuildLines
<1> PICK rows, n : rows = RowsOf(build) /\ n = Len(rows)
  OBVIOUS
<1> DEFINE playable == {row.line : row \in ToSet(rows) \ {Unplayable}}
           f == [i \in 1 .. n |-> rows[i].line]
<1>1. n \in Nat /\ DOMAIN rows = 1 .. n
  BY RowsAre
<1>2. \A i \in 1 .. n : rows[i] # Unplayable => rows[i].line \in VoiceLines
  BY RowsAre
<1>3. playable \subseteq VoiceLines /\ playable \subseteq {f[i] : i \in 1 .. n}
  BY <1>1, <1>2 DEF ToSet
<1>4. IsFiniteSet(playable)
  <2> HIDE DEF playable
  <2>1. IsFiniteSet(1 .. n)
    BY <1>1, FS_Interval
  <2>2. DOMAIN f = 1 .. n
    OBVIOUS
  <2> HIDE DEF f
  <2> PICK S : S = {f[i] : i \in 1 .. n}
    OBVIOUS
  <2>3. IsFiniteSet(S)
    BY <2>1, <2>2, ValuesFinite
  <2>4. playable \in SUBSET S
    BY <1>3
  <2> QED  BY <2>3, <2>4, FS_Subset
<1> PICK m, numbers : m = Cardinality(playable) /\ numbers = Ascending(playable)
  OBVIOUS
<1>5. /\ m \in Nat /\ DOMAIN numbers = 1 .. m
      /\ \A i \in 1 .. m : numbers[i] \in VoiceLines
      /\ \A i, j \in 1 .. m : i = j <=> numbers[i] = numbers[j]
  <2> HIDE DEF playable
  <2>1. playable \subseteq Nat
    BY <1>3, VoiceAssumption
  <2>2. /\ Cardinality(playable) \in Nat
        /\ DOMAIN Ascending(playable) = 1 .. Cardinality(playable)
        /\ \A i \in 1 .. Cardinality(playable) : Ascending(playable)[i] \in playable
        /\ \A i, j \in 1 .. Cardinality(playable) :
              i = j <=> Ascending(playable)[i] = Ascending(playable)[j]
    BY <1>4, <2>1, AscendingLists
  <2> QED  BY <1>3, <2>2
<1>6. Groups(build) = [i \in 1 .. m |-> Group(build, numbers[i])]
  BY <1>5 DEF Groups
<1>7. \A line \in VoiceLines : Group(build, line) \in VoiceGroup /\ Group(build, line).line = line
  <2> SUFFICES ASSUME NEW line \in VoiceLines
               PROVE  Group(build, line) \in VoiceGroup /\ Group(build, line).line = line
    OBVIOUS
  <2>1. \A language \in Languages : Variant(build, line, language) \in {0, 1, 2}
    BY VariantIs
  <2> QED  BY <2>1 DEF Group, VoiceGroup
<1> PICK l : l = Groups(build)
  OBVIOUS
<1>8. /\ DOMAIN l = 1 .. m /\ l \in [1 .. m -> VoiceGroup]
      /\ \A i \in 1 .. m : l[i].line = numbers[i]
  BY <1>5, <1>6, <1>7
<1>9. l \in Seq(VoiceGroup)
  BY <1>5, <1>8, SeqDef
<1>10. \A i, j \in 1 .. m : l[i].line = l[j].line => i = j
  BY <1>5, <1>8
<1> HIDE DEF playable
<1>11. Groups(build) \in Seq(VoiceGroup) /\ DOMAIN Groups(build) = 1 .. m
  BY <1>8, <1>9
<1>12. \A i, j \in 1 .. m : Groups(build)[i].line = Groups(build)[j].line => i = j
  BY <1>10
<1> QED  BY <1>11, <1>12

\* A step does not change what a build lists.
LEMMA GroupsStay == ASSUME UNCHANGED voiceRows PROVE BuildLines' = BuildLines
<1>1. \A build \in {1, 2} : Groups(build)' = Groups(build)
  BY DEF Groups, Group, Variant, RowsOf, FoldLeft, MapThenFoldSet
<1> QED  BY <1>1 DEF BuildLines

-----------------------------------------------------------------------------
(* Cursors.                                                                 *)

\* There is a token that nothing refers to.
LEMMA FreshIs ==
    ASSUME VoiceTypes
    PROVE  FreshToken \in Nat \ {0} /\ FreshToken \notin Tokens
<1> DEFINE T1 == {c.token : c \in ToSet(voice.cursors)}
           T3 == {c.cursor : c \in calls}
           T4 == {c.page.next : c \in calls}
<1>1. IsFiniteSet(T3) /\ IsFiniteSet(T4)
  <2> DEFINE f == [c \in calls |-> c.cursor]
             h == [c \in calls |-> c.page.next]
  <2>1. IsFiniteSet(calls)
    BY DEF VoiceTypes
  <2>2. IsFiniteSet({f[c] : c \in calls}) /\ IsFiniteSet({h[c] : c \in calls})
    <3>1. DOMAIN f = calls /\ DOMAIN h = calls
      OBVIOUS
    <3> HIDE DEF f, h
    <3> QED  BY <2>1, <3>1, ValuesFinite
  <2> QED  BY <2>2
<1>2. IsFiniteSet(T1)
  <2> PICK n : n = Len(voice.cursors)
    OBVIOUS
  <2>1. n \in Nat /\ DOMAIN voice.cursors = 1 .. n
    BY LenProperties DEF VoiceTypes
  <2> DEFINE f == [i \in 1 .. n |-> voice.cursors[i].token]
  <2>2. IsFiniteSet({f[i] : i \in 1 .. n})
    <3>1. DOMAIN f = 1 .. n
      OBVIOUS
    <3>2. IsFiniteSet(1 .. n)
      BY <2>1, FS_Interval
    <3> HIDE DEF f
    <3> QED  BY <3>1, <3>2, ValuesFinite
  <2>3. T1 = {f[i] : i \in 1 .. n}
    BY <2>1 DEF ToSet
  <2> QED  BY <2>2, <2>3
<1>3. IsFiniteSet({panel.next})
  BY FS_Singleton
<1>4. Tokens = (T1 \cup {panel.next}) \cup T3 \cup T4
  BY DEF Tokens
<1> HIDE DEF T1, T3, T4
<1>5. IsFiniteSet(Tokens)
  BY <1>1, <1>2, <1>3, <1>4, FS_Union
<1> PICK n : n = Cardinality(Tokens)
  OBVIOUS
<1>6. n \in Nat
  BY <1>5, FS_CardinalityType
<1>7. \E t \in 1 .. n + 1 : t \notin Tokens
  <2>1. SUFFICES ASSUME 1 .. n + 1 \subseteq Tokens PROVE FALSE
    OBVIOUS
  <2> PICK I : I = 1 .. n + 1
    OBVIOUS
  <2>2. Cardinality(I) = n + 1
    BY <1>6, FS_Interval
  <2>3. Cardinality(I) <= Cardinality(Tokens)
    <3>1. I \in SUBSET Tokens
      BY <2>1
    <3> QED  BY <1>5, <3>1, FS_Subset
  <2> QED  BY <1>6, <2>2, <2>3
<1>8. FreshToken \in 1 .. n + 1 /\ FreshToken \notin Tokens
  BY <1>7 DEF FreshToken
<1> QED  BY <1>6, <1>8

\* A cursor that is used is the last; those there were stay.
LEMMA UsedIs ==
    ASSUME NEW cursors \in Seq(VoiceCursor), NEW c \in VoiceCursor
    PROVE  /\ Used(cursors, c) \in Seq(VoiceCursor) /\ Used(cursors, c) # <<>>
           /\ ToSet(Used(cursors, c)) \subseteq ToSet(cursors) \cup {c}
<1> DEFINE K == {i \in DOMAIN cursors : cursors[i] # c}
<1> PICK l, n : l = AtPlaces(cursors, K) /\ n = Cardinality(K)
  OBVIOUS
<1>1. DOMAIN cursors = 1 .. Len(cursors)
  BY LenProperties
<1>2. /\ n \in Nat /\ l \in Seq(VoiceCursor) /\ Len(l) = n
      /\ \A i \in 1 .. n : \E k \in K : l[i] = cursors[k]
  <2>1. K \in SUBSET (1 .. Len(cursors))
    BY <1>1
  <2> HIDE DEF K
  <2>2. /\ Cardinality(K) \in Nat /\ AtPlaces(cursors, K) \in Seq(VoiceCursor)
        /\ Len(AtPlaces(cursors, K)) = Cardinality(K)
    BY <2>1, AtPlacesLists
  <2>3. \A i \in 1 .. Cardinality(K) : \E k \in K : AtPlaces(cursors, K)[i] = cursors[k]
    BY <2>1, AtPlacesLists
  <2> QED  BY <2>2, <2>3
<1>3. Used(cursors, c) = Append(l, c)
  BY DEF Used
<1>4. /\ Append(l, c) \in Seq(VoiceCursor) /\ Append(l, c) # <<>>
      /\ DOMAIN Append(l, c) = 1 .. n + 1
      /\ \A i \in 1 .. n : Append(l, c)[i] = l[i]
      /\ Append(l, c)[n + 1] = c
  <2> HIDE DEF K
  <2>1. l \in Seq(VoiceCursor) /\ Len(l) = n /\ n \in Nat
    BY <1>2
  <2>2. /\ Append(l, c) \in Seq(VoiceCursor) /\ Append(l, c) # <<>>
        /\ Len(Append(l, c)) = Len(l) + 1
        /\ \A i \in 1 .. Len(l) : Append(l, c)[i] = l[i]
        /\ Append(l, c)[Len(l) + 1] = c
    BY <2>1, AppendProperties
  <2>3. DOMAIN Append(l, c) = 1 .. Len(Append(l, c))
    BY <2>2, LenProperties
  <2> QED  BY <2>1, <2>2, <2>3
<1>5. \A i \in 1 .. n + 1 : i \in 1 .. n \/ i = n + 1
  BY <1>2
<1>6. \A x \in ToSet(Append(l, c)) : x \in ToSet(cursors) \cup {c}
  <2> SUFFICES ASSUME NEW i \in 1 .. n + 1 PROVE Append(l, c)[i] \in ToSet(cursors) \cup {c}
    BY <1>4 DEF ToSet
  <2>1. CASE i = n + 1
    BY <1>4, <2>1
  <2>2. CASE i \in 1 .. n
    <3>1. \E k \in K : Append(l, c)[i] = cursors[k]
      BY <1>2, <1>4, <2>2
    <3> QED  BY <3>1 DEF ToSet
  <2> QED  BY <1>5, <2>1, <2>2
<1> QED  BY <1>3, <1>4, <1>6

LEMMA TrimmedIs ==
    ASSUME NEW cursors \in Seq(VoiceCursor), cursors # <<>>
    PROVE  /\ Trimmed(cursors) \in Seq(VoiceCursor)
           /\ ToSet(Trimmed(cursors)) \subseteq ToSet(cursors)
<1> PICK n : n = Len(cursors)
  OBVIOUS
<1>1. /\ n \in Nat /\ DOMAIN cursors = 1 .. n
      /\ Tail(cursors) \in Seq(VoiceCursor) /\ DOMAIN Tail(cursors) = 1 .. n - 1
      /\ \A i \in 1 .. n - 1 : Tail(cursors)[i] = cursors[i + 1]
  BY HeadTailProperties, LenProperties
<1>2. \A i \in 1 .. n - 1 : i + 1 \in 1 .. n
  BY <1>1
<1>3. ToSet(Tail(cursors)) \subseteq ToSet(cursors)
  BY <1>1, <1>2 DEF ToSet
<1> QED  BY <1>1, <1>3 DEF Trimmed

\* What is new among the cursors: at most one, with a token of its own.
GivenOut(X) ==
    /\ \A c \in X : c \in VoiceCursor /\ (c \in Cursors \/ c.token \notin Tokens)
    /\ \A c, d \in X : c = d

IssuedAs(cursors, line, c) ==
    /\ GivenOut({c}) /\ c.line = line
    /\ Issue(cursors, line).token = c.token
    /\ Issue(cursors, line).cursors \in Seq(VoiceCursor)
    /\ ToSet(Issue(cursors, line).cursors) \subseteq Cursors \cup {c}

LEMMA IssueIs ==
    ASSUME VoiceTypes, NEW cursors \in Seq(VoiceCursor), ToSet(cursors) \subseteq Cursors,
           NEW line \in VoiceLines \cup {0}
    PROVE  \E c \in VoiceCursor : IssuedAs(cursors, line, c)
<1> DEFINE same == {c \in ToSet(cursors) : c.line = line}
           cursor == IF same # {} THEN CHOOSE c \in same : TRUE
                     ELSE [token |-> FreshToken, line |-> line]
<1>1. /\ Issue(cursors, line).cursors = Trimmed(Used(cursors, cursor))
      /\ Issue(cursors, line).token = cursor.token
  BY DEF Issue
<1>2. /\ cursor \in VoiceCursor /\ cursor.line = line
      /\ cursor \in Cursors \/ cursor.token \notin Tokens
  <2>1. CASE same # {}
    <3>1. cursor \in same
      BY <2>1
    <3>2. cursor \in ToSet(cursors) /\ cursor.line = line
      BY <3>1
    <3> HIDE DEF cursor
    <3>3. cursor \in VoiceCursor
      BY <3>2, ElementOfSeq, LenProperties DEF ToSet
    <3> QED  BY <3>2, <3>3
  <2>2. CASE same = {}
    <3>1. cursor = [token |-> FreshToken, line |-> line]
      BY <2>2
    <3> HIDE DEF cursor
    <3> QED  BY <3>1, FreshIs DEF VoiceCursor
  <2> QED  BY <2>1, <2>2
<1> HIDE DEF cursor
<1> PICK u : u = Used(cursors, cursor)
  OBVIOUS
<1>3. u \in Seq(VoiceCursor) /\ u # <<>> /\ ToSet(u) \subseteq ToSet(cursors) \cup {cursor}
  BY <1>2, UsedIs
<1>4. Trimmed(u) \in Seq(VoiceCursor) /\ ToSet(Trimmed(u)) \subseteq ToSet(u)
  BY <1>3, TrimmedIs
<1>5. GivenOut({cursor})
  BY <1>2 DEF GivenOut
<1> QED  BY <1>1, <1>2, <1>3, <1>4, <1>5 DEF IssuedAs

-----------------------------------------------------------------------------
(* Pages.                                                                   *)

\* Lines of a build, from one on.
LEMMA LinesFrom ==
    ASSUME NEW groups \in Seq(VoiceGroup), NEW n \in Nat, NEW m \in Nat, n + m <= Len(groups)
    PROVE  /\ SubSeq(groups, n + 1, n + m) \in Seq(VoiceGroup)
           /\ Len(SubSeq(groups, n + 1, n + m)) = m
           /\ DOMAIN SubSeq(groups, n + 1, n + m) = 1 .. m
           /\ \A i \in 1 .. m : /\ n + i \in 1 .. Len(groups)
                                /\ SubSeq(groups, n + 1, n + m)[i] = groups[n + i]
<1> PICK a, b, l : a = n + 1 /\ b = n + m /\ l = SubSeq(groups, a, b)
  OBVIOUS
<1>1. Len(groups) \in Nat
  BY LenProperties
<1>2. a \in Int /\ b \in Int /\ \A i \in a .. b : i \in 1 .. Len(groups)
  BY <1>1
<1>3. \A i \in a .. b : groups[i] \in VoiceGroup
  BY <1>2, ElementOfSeq
<1>4. /\ l \in Seq(VoiceGroup) /\ Len(l) = IF a <= b THEN b - a + 1 ELSE 0
      /\ \A i \in 1 .. b - a + 1 : l[i] = groups[a + i - 1]
  BY <1>2, <1>3, SubSeqProperties
<1>5. Len(l) = m /\ b - a + 1 = m
  BY <1>4
<1>6. \A i \in 1 .. m : a + i - 1 = n + i /\ n + i \in 1 .. Len(groups)
  BY <1>1
<1>7. DOMAIN l = 1 .. m
  BY <1>4, <1>5, LenProperties
<1> QED  BY <1>4, <1>5, <1>6, <1>7

\* The panel takes the lines that follow its own.
LEMMA LinesMerge ==
    ASSUME NEW groups \in Seq(VoiceGroup),
           \A i, j \in DOMAIN groups : groups[i].line = groups[j].line => i = j,
           NEW n \in Nat, NEW m \in Nat, n + m <= Len(groups)
    PROVE  MergeLines(SubSeq(groups, 1, n), SubSeq(groups, n + 1, n + m)) = SubSeq(groups, 1, n + m)
<1> PICK a, b : a = SubSeq(groups, 1, n) /\ b = SubSeq(groups, n + 1, n + m)
  OBVIOUS
<1>1. Len(groups) \in Nat /\ DOMAIN groups = 1 .. Len(groups)
  BY LenProperties
<1>2. /\ b \in Seq(VoiceGroup) /\ DOMAIN b = 1 .. m
      /\ \A i \in 1 .. m : n + i \in 1 .. Len(groups) /\ b[i] = groups[n + i]
  BY LinesFrom
<1>3. /\ DOMAIN a = 1 .. n
      /\ \A j \in 1 .. n : j \in 1 .. Len(groups) /\ a[j] = groups[j]
  <2>1. 0 \in Nat /\ 0 + n <= Len(groups) /\ 0 + 1 = 1 /\ 0 + n = n
    BY <1>1
  <2>2. /\ DOMAIN SubSeq(groups, 0 + 1, 0 + n) = 1 .. n
        /\ \A j \in 1 .. n : /\ 0 + j \in 1 .. Len(groups)
                             /\ SubSeq(groups, 0 + 1, 0 + n)[j] = groups[0 + j]
    BY <2>1, LinesFrom
  <2>3. \A j \in 1 .. n : 0 + j = j
    OBVIOUS
  <2>4. a = SubSeq(groups, 0 + 1, 0 + n)
    BY <2>1
  <2> QED  BY <2>2, <2>3, <2>4
<1>4. ASSUME NEW i \in 1 .. m, NEW j \in 1 .. n PROVE a[j].line # b[i].line
  <2>1. n + i # j /\ n + i \in DOMAIN groups /\ j \in DOMAIN groups
    BY <1>1, <1>2, <1>3
  <2>2. groups[n + i].line # groups[j].line
    BY <2>1
  <2> QED  BY <1>2, <1>3, <2>2
<1>5. {i \in DOMAIN b : \A j \in DOMAIN a : a[j].line # b[i].line} = DOMAIN b
  BY <1>2, <1>3, <1>4
<1>6. MergeLines(a, b) = a \o AtPlaces(b, DOMAIN b)
  BY <1>5 DEF MergeLines
<1>7. AtPlaces(b, DOMAIN b) = b
  BY <1>2, AtAllPlaces
<1>8. a \o b = SubSeq(groups, 1, n + m)
  <2> PICK p : p = n + m
    OBVIOUS
  <2>1. 1 \in 1 .. Len(groups) + 1 /\ n \in 1 - 1 .. Len(groups) /\ p \in n .. Len(groups)
    BY <1>1
  <2>2. SubSeq(groups, 1, n) \o SubSeq(groups, n + 1, p) = SubSeq(groups, 1, p)
    BY <2>1, ConcatAdjacentSubSeq
  <2> QED  BY <2>2
<1> QED  BY <1>6, <1>7, <1>8

\* A page has the lines after a place, and a cursor that stands at its last
\* when there are more.
LEMMA PagedIs ==
    ASSUME VoiceTypes, NEW g, g = BuildLines, Lists(g), CursorsDiffer(g),
           NEW cursors \in Seq(VoiceCursor), ToSet(cursors) \subseteq Cursors,
           NEW start \in Nat, start <= Len(g[voice.build])
    PROVE  \E X :
              /\ GivenOut(X)
              /\ \A c \in X : \E i \in DOMAIN g[voice.build] : g[voice.build][i].line = c.line
              /\ LET made == Paged(cursors, start)
                 IN /\ made.process = [voice EXCEPT !.cursors = made.process.cursors]
                    /\ made.process.cursors \in Seq(VoiceCursor)
                    /\ ToSet(made.process.cursors) \subseteq Cursors \cup X
                    /\ made.page \in VoicePage /\ made.page.build = voice.build
                    /\ start < Len(g[voice.build]) => PageIs(g[voice.build], start, made.page)
                    /\ \A c \in Cursors \cup X : c.token = made.page.next =>
                          /\ made.page.lines # <<>>
                          /\ c.line = made.page.lines[Len(made.page.lines)].line
<1> PICK groups, n : groups = g[voice.build] /\ n = Len(groups)
  OBVIOUS
<1>1. voice.build \in {1, 2} /\ voice = [voice EXCEPT !.cursors = voice.cursors]
  BY DEF VoiceTypes
<1>2. groups = Groups(voice.build) /\ groups \in Seq(VoiceGroup)
  BY <1>1 DEF BuildLines, Lists
<1>3. n \in Nat /\ DOMAIN groups = 1 .. n /\ PageLines \in Nat \ {0} /\ start <= n
  BY <1>2, LenProperties, VoiceAssumption
<1> PICK e : e = IF start + PageLines < n THEN start + PageLines ELSE n
  OBVIOUS
<1> PICK m : m = e - start
  OBVIOUS
<1>4. m \in Nat /\ start + m = e /\ e <= n /\ (start < n => m # 0) /\ (e < n => m # 0)
  BY <1>3
<1> PICK lines : lines = SubSeq(groups, start + 1, e)
  OBVIOUS
<1>5. /\ lines \in Seq(VoiceGroup) /\ Len(lines) = m /\ DOMAIN lines = 1 .. m
      /\ \A i \in 1 .. m : start + i \in 1 .. n /\ lines[i] = groups[start + i]
  BY <1>2, <1>3, <1>4, LinesFrom
<1>6. lines # <<>> <=> m # 0
  BY <1>4, <1>5, EmptySeq
<1> PICK issued : issued = Issue(cursors, Last(lines).line)
  OBVIOUS
<1>12. PICK served : served = [NoPage EXCEPT !.lines = lines, !.build = voice.build]
  OBVIOUS
<1> PICK made : made = Paged(cursors, start)
  OBVIOUS
<1>7. /\ served \in VoicePage /\ served.lines = lines
      /\ served.next = 0 /\ served.more = FALSE /\ served.build = voice.build
  <2>1. NoPage \in VoicePage /\ NoPage.next = 0 /\ NoPage.more = FALSE
    <3>1. <<>> \in Seq(VoiceGroup)
      BY EmptySeq
    <3> QED  BY <3>1 DEF NoPage, VoicePage
  <2>2. lines \in Seq(VoiceGroup) /\ voice.build \in {0, 1, 2}
    BY <1>1, <1>5
  <2> QED  BY ONLY <1>12, <2>1, <2>2 DEF VoicePage
<1>8. start + Len(lines) < n <=> e < n
  BY <1>4, <1>5
<1>9. made = IF e < n /\ lines # <<>>
             THEN [process |-> [voice EXCEPT !.cursors = issued.cursors],
                   page |-> [served EXCEPT !.next = issued.token, !.more = TRUE]]
             ELSE [process |-> [voice EXCEPT !.cursors = cursors], page |-> served]
  BY <1>2, <1>8, <1>12 DEF Paged
<1>10. CASE e < n
  <2>1. m # 0 /\ lines # <<>> /\ m \in 1 .. m
    BY <1>4, <1>6, <1>10
  <2> PICK last : last = lines[m]
    OBVIOUS
  <2>2. Last(lines) = last
    BY <1>5 DEF Last
  <2>3. last \in VoiceGroup /\ last = groups[start + m] /\ start + m \in DOMAIN groups
    BY <1>3, <1>5, <2>1, ElementOfSeq
  <2>4. last.line \in VoiceLines /\ last.line \in VoiceLines \cup {0}
    BY <2>3 DEF VoiceGroup
  <2>5. PICK c \in VoiceCursor :
            /\ GivenOut({c}) /\ c.line = last.line
            /\ issued.token = c.token /\ issued.cursors \in Seq(VoiceCursor)
            /\ ToSet(issued.cursors) \subseteq Cursors \cup {c}
    <3> PICK l : l = last.line
      OBVIOUS
    <3>1. \E c \in VoiceCursor : IssuedAs(cursors, l, c)
      <4>1. l \in VoiceLines \cup {0}
        BY <2>4
      <4> QED  BY <4>1, IssueIs
    <3> QED  BY <2>2, <3>1 DEF IssuedAs
  <2> PICK next : next = c.token
    OBVIOUS
  <2>6. next \in Nat \ {0}
    BY <2>5 DEF VoiceCursor
  <2>7. /\ made.process = [voice EXCEPT !.cursors = issued.cursors]
        /\ made.page = [served EXCEPT !.next = next, !.more = TRUE]
    <3>1. made = [process |-> [voice EXCEPT !.cursors = issued.cursors],
                  page |-> [served EXCEPT !.next = issued.token, !.more = TRUE]]
      BY <1>9, <1>10, <2>1
    <3>2. issued.token = next
      BY <2>5
    <3> QED  BY ONLY <3>1, <3>2
  <2>9. /\ made.page \in VoicePage /\ made.page.build = voice.build
        /\ made.page.lines = lines /\ made.page.more = TRUE /\ made.page.next = next
    <3>1. /\ served \in VoicePage /\ served.build = voice.build /\ served.lines = lines
      BY <1>7
    <3> QED  BY ONLY <2>6, <2>7, <3>1 DEF VoicePage
  <2>8. made.process.cursors = issued.cursors
    BY <2>7 DEF VoiceTypes
  <2>10. PageIs(groups, start, made.page)
    <3>2. lines = SubSeq(groups, start + 1, start + m) /\ lines # <<>>
      BY <1>4, <2>1
    <3>3. start + m <= Len(groups) /\ start + m < Len(groups)
      BY <1>4, <1>10
    <3>4. /\ made.page.more = (start + m < Len(groups))
          /\ made.page.more = (made.page.next # 0)
      BY <2>6, <2>9, <3>3
    <3> QED  BY <1>4, <2>9, <3>2, <3>3, <3>4 DEF PageIs
  <2>11. \A d \in Cursors \cup {c} : d.token = next => d.line = last.line
    <3> SUFFICES ASSUME NEW d \in Cursors, d.token = next PROVE d.line = last.line
      BY <2>5
    <3>1. d.token \in Tokens
      BY DEF Tokens, Cursors
    <3>2. c \in Cursors
      BY <2>5, <3>1 DEF GivenOut
    <3>3. d = c
      BY <3>2 DEF CursorsDiffer
    <3> QED  BY <2>5, <3>3
  <2>12. \E i \in DOMAIN groups : groups[i].line = c.line
    BY <2>3, <2>5
  <2>13. made.process = [voice EXCEPT !.cursors = made.process.cursors]
    BY <2>7, <2>8
  <2>14. /\ made.process.cursors \in Seq(VoiceCursor)
         /\ ToSet(made.process.cursors) \subseteq Cursors \cup {c}
    BY <2>5, <2>8
  <2>15. \A d \in Cursors \cup {c} : d.token = made.page.next =>
             made.page.lines # <<>> /\ d.line = made.page.lines[Len(made.page.lines)].line
    <3> PICK known, made2 : known = Cursors \cup {c} /\ made2 = made.page
      OBVIOUS
    <3>1. lines[Len(lines)] = last /\ lines # <<>>
      BY <1>5, <2>1
    <3>2. \A d \in known : d.token = next => d.line = last.line
      BY <2>11
    <3>3. made2.lines = lines /\ made2.next = next
      BY <2>9
    <3>4. \A d \in known : d.token = made2.next =>
             made2.lines # <<>> /\ d.line = made2.lines[Len(made2.lines)].line
      BY ONLY <3>1, <3>2, <3>3
    <3> QED  BY <3>4
  <2> WITNESS {c}
  <2> QED  BY <2>5, <2>9, <2>10, <2>12, <2>13, <2>14, <2>15
<1>11. CASE ~(e < n)
  <2>1. made.process = [voice EXCEPT !.cursors = cursors] /\ made.page = served
    BY <1>9, <1>11
  <2>2. made.process.cursors = cursors
    BY <2>1 DEF VoiceTypes
  <2>3. served \in VoicePage
    BY <1>7
  <2>4. ASSUME start < n PROVE PageIs(groups, start, served)
    <3>1. served.lines = lines /\ served.more = FALSE /\ served.next = 0
      BY ONLY <1>7
    <3>2. lines = SubSeq(groups, start + 1, start + m) /\ lines # <<>>
      BY <1>4, <1>6, <2>4
    <3>3. start + m <= Len(groups) /\ ~(start + m < Len(groups))
      BY <1>4, <1>11
    <3>4. served.more = (start + m < Len(groups)) /\ served.more = (served.next # 0)
      <4>1. (start + m < Len(groups)) = FALSE /\ (served.next # 0) = FALSE
        BY ONLY <3>1, <3>3
      <4> QED  BY ONLY <3>1, <4>1
    <3> QED  BY <1>4, <3>1, <3>2, <3>3, <3>4 DEF PageIs
  <2>5. \A d \in Cursors : d.token # 0
    <3> SUFFICES ASSUME NEW i \in DOMAIN voice.cursors PROVE voice.cursors[i].token # 0
      BY DEF Cursors, ToSet
    <3>1. voice.cursors \in Seq(VoiceCursor) /\ i \in 1 .. Len(voice.cursors)
      BY LenProperties DEF VoiceTypes
    <3>2. voice.cursors[i] \in VoiceCursor
      BY <3>1, ElementOfSeq
    <3> QED  BY <3>2 DEF VoiceCursor
  <2>6. served.next = 0 /\ served.build = voice.build
    BY ONLY <1>7
  <2>7. GivenOut({}) /\ Cursors \cup {} = Cursors
    BY DEF GivenOut
  <2>8. made.process = [voice EXCEPT !.cursors = made.process.cursors]
    BY <2>1, <2>2
  <2> WITNESS {}
  <2> QED  BY <2>1, <2>2, <2>3, <2>4, <2>5, <2>6, <2>7, <2>8
<1> QED  BY <1>10, <1>11

-----------------------------------------------------------------------------
(* The steps.                                                               *)

LEMMA CursorIs ==
    ASSUME NEW cursors \in Seq(VoiceCursor), NEW c \in ToSet(cursors)
    PROVE  c \in VoiceCursor /\ c.token \in Nat \ {0}
<1>1. DOMAIN cursors = 1 .. Len(cursors)
  BY LenProperties
<1>2. PICK i \in 1 .. Len(cursors) : c = cursors[i]
  BY <1>1 DEF ToSet
<1>3. c \in VoiceCursor
  BY <1>2, ElementOfSeq
<1> QED  BY <1>3 DEF VoiceCursor

LEMMA VoiceStarts ==
    ASSUME NEW builds, builds \subseteq Seq(VoiceRow) \ {<<>>}, VoiceInit(builds)
    PROVE  VoiceInv
<1>1. /\ voiceRows \in Seq(VoiceRow) \ {<<>>}
      /\ voice = [build |-> 1, cursors |-> <<>>, process |-> 1]
      /\ panel = NoPanel /\ calls = {} /\ voiceAsked = 0
  BY DEF VoiceInit
<1>2. Cursors = {}
  BY <1>1 DEF Cursors, ToSet
<1>3. VoiceTypes
  <2>1. <<>> \in Seq(VoiceCursor) /\ <<>> \in Seq(VoiceGroup)
    BY EmptySeq
  <2>2. IsFiniteSet({})
    BY FS_EmptySet
  <2>3. voice \in [build : {1, 2}, cursors : Seq(VoiceCursor), process : Nat]
    BY <1>1, <2>1
  <2>4. panel \in VoicePanel
    BY <1>1, <2>1 DEF NoPanel, VoicePanel
  <2> QED  BY <1>1, <2>2, <2>3, <2>4 DEF VoiceTypes
<1> PICK g : g = BuildLines
  OBVIOUS
<1>4. VoiceRel(g)
  <2>1. CursorsDiffer(g)
    BY <1>2 DEF CursorsDiffer
  <2>2. PanelBegins(g)
    <3>1. panel.from = 0 /\ panel.lines = <<>> /\ panel.next = 0
      BY <1>1 DEF NoPanel
    <3> QED  BY <1>1, <1>2, <3>1 DEF PanelBegins, StandsAt
  <2> QED  BY <1>1, <2>1, <2>2 DEF VoiceRel, CallsAsk, WaitedFor
<1> QED  BY <1>3, <1>4 DEF VoiceInv

\* A cursor that is given out takes the place of none that is referred to.
LEMMA CursorsMove ==
    ASSUME NEW g, VoiceRel(g), NEW X, GivenOut(X),
           \A c \in X : c.line # 0 =>
               \E i \in DOMAIN g[voice.build] : g[voice.build][i].line = c.line,
           voice'.build = voice.build, Cursors' \subseteq Cursors \cup X
    PROVE  /\ CursorsDiffer(g)'
           /\ StandsAt(Cursors', voice'.build, panel.lines, panel.next, panel.from)
           /\ \A c \in calls : AsksFor(Cursors', voice'.build, c)
<1>1. ASSUME NEW d \in Cursors', NEW t \in Tokens, d.token = t PROVE d \in Cursors
  BY <1>1 DEF GivenOut
<1>2. \A c \in Cursors : c.token \in Tokens
  BY DEF Tokens, Cursors
<1>3. CursorsDiffer(g)'
  <2>1. ASSUME NEW c \in Cursors', NEW d \in Cursors', c.token = d.token PROVE c = d
    <3>1. CASE c \in Cursors
      <4>1. d \in Cursors
        BY <1>1, <1>2, <2>1, <3>1
      <4> QED  BY <2>1, <3>1, <4>1 DEF VoiceRel, CursorsDiffer
    <3>2. CASE d \in Cursors
      <4>1. c \in Cursors
        BY <1>1, <1>2, <2>1, <3>2
      <4> QED  BY <2>1, <3>2, <4>1 DEF VoiceRel, CursorsDiffer
    <3>3. CASE c \in X /\ d \in X
      BY <3>3 DEF GivenOut
    <3> QED  BY <3>1, <3>2, <3>3
  <2>2. ASSUME NEW c \in Cursors', c.line # 0
        PROVE  \E i \in DOMAIN g[voice.build] : g[voice.build][i].line = c.line
    BY <2>2 DEF VoiceRel, CursorsDiffer
  <2> QED  BY <2>1, <2>2 DEF CursorsDiffer
<1>4. panel.next \in Tokens /\ \A c \in calls : c.cursor \in Tokens /\ c.page.next \in Tokens
  BY DEF Tokens
<1>5. StandsAt(Cursors', voice'.build, panel.lines, panel.next, panel.from)
  <2>1. StandsAt(Cursors, voice.build, panel.lines, panel.next, panel.from)
    BY DEF VoiceRel, PanelBegins
  <2> QED  BY <1>1, <1>4, <2>1 DEF StandsAt
<1>6. ASSUME NEW c \in calls PROVE AsksFor(Cursors', voice'.build, c)
  <2>1. AsksFor(Cursors, voice.build, c)
    BY DEF VoiceRel, CallsAsk
  <2> QED  BY <1>1, <1>4, <2>1 DEF AsksFor, StandsAt
<1> QED  BY <1>3, <1>5, <1>6

\* An answer to a request, or that there is none.
LEMMA AnsweredKeeps ==
    ASSUME VoiceInv, NEW g, g = BuildLines, UNCHANGED <<voiceRows, panel, voiceAsked>>,
           voice' \in [build : {1, 2}, cursors : Seq(VoiceCursor), process : Nat],
           CursorsDiffer(g)',
           StandsAt(Cursors', voice'.build, panel.lines, panel.next, panel.from),
           \A d \in calls : AsksFor(Cursors', voice'.build, d),
           NEW c \in calls, NEW answer \in {"lost", "mismatch", "invalid", "page"},
           NEW served \in VoicePage, Answered(c, answer, served),
           StandsAt(Cursors', voice'.build, served.lines, served.next, served.build),
           Waits(c) /\ answer = "page" =>
               served.build = panel.from /\ PageIs(g[panel.from], Len(panel.lines), served)
    PROVE  VoiceInv'
<1> PICK new : new = [c EXCEPT !.answer = answer, !.page = served]
  OBVIOUS
<1>1. c \in VoiceCall
  BY DEF VoiceInv, VoiceTypes
<1>2. /\ new \in VoiceCall /\ new.cursor = c.cursor /\ new.build = c.build
      /\ new.generation = c.generation /\ new.answer = answer /\ new.page = served
  BY <1>1 DEF VoiceCall
<1>3. calls' = (calls \ {c}) \cup {new}
  BY DEF Answered
<1>4. VoiceTypes'
  <2>1. IsFiniteSet(calls')
    <3>1. IsFiniteSet(calls) /\ IsFiniteSet({new})
      BY FS_Singleton DEF VoiceInv, VoiceTypes
    <3>2. IsFiniteSet(calls \ {c})
      BY <3>1, FS_Difference
    <3> QED  BY <1>3, <3>1, <3>2, FS_Union
  <2> QED  BY <1>2, <1>3, <2>1 DEF VoiceInv, VoiceTypes
<1>5. BuildLines' = g
  BY GroupsStay
<1>6. VoiceRel(g)
  BY DEF VoiceInv
<1>7. PanelBegins(g)'
  <2>1. panel.from # 0
    BY <1>6 DEF VoiceRel, PanelBegins
  <2>2. panel' = panel /\ PageIs(g[panel.from], 0, panel)
    BY <1>6, <2>1 DEF VoiceRel, PanelBegins
  <2> QED  BY <2>1, <2>2 DEF PanelBegins
<1>8. CallsAsk'
  <2>1. AsksFor(Cursors', voice'.build, new)
    BY <1>2 DEF AsksFor
  <2> QED  BY <1>3, <2>1 DEF CallsAsk
<1>9. WaitedFor(g)'
  <2>1. \A d : Waits(d)' <=> Waits(d)
    BY DEF Waits
  <2>2. Waits(new) <=> Waits(c)
    BY <1>2 DEF Waits
  <2>3. \A d, e \in calls : Waits(d) /\ Waits(e) => d = e
    BY <1>6 DEF VoiceRel, WaitedFor
  <2>4. \A d, e \in calls' : Waits(d) /\ Waits(e) => d = e
    BY <1>3, <2>2, <2>3
  <2>5. ASSUME NEW d \in calls'
        PROVE  /\ d.generation <= panel.generation
               /\ Waits(d) =>
                     /\ d.cursor = panel.next /\ d.build = panel.from
                     /\ d.answer = "page" =>
                           /\ d.page.build = panel.from
                           /\ PageIs(g[panel.from], Len(panel.lines), d.page)
    <3>1. CASE d \in calls
      BY <1>6, <3>1 DEF VoiceRel, WaitedFor
    <3>2. CASE d = new
      BY <1>2, <1>6, <2>2, <3>2 DEF VoiceRel, WaitedFor
    <3> QED  BY <1>3, <3>1, <3>2
  <2>6. panel' = panel
    OBVIOUS
  <2> QED  BY <2>1, <2>4, <2>5, <2>6 DEF WaitedFor
<1> QED  BY <1>4, <1>5, <1>7, <1>8, <1>9 DEF VoiceInv, VoiceRel

\* An answer without a page: there is no cursor with it, and the process is as
\* it was.
LEMMA EmptyKeeps ==
    ASSUME VoiceInv, UNCHANGED <<voiceRows, panel, voiceAsked, voice>>,
           NEW c \in calls, NEW answer \in {"lost", "mismatch", "invalid"},
           Answered(c, answer, NoPage)
    PROVE  VoiceInv'
<1> PICK g : g = BuildLines
  OBVIOUS
<1>1. VoiceTypes /\ VoiceRel(g)
  BY DEF VoiceInv
<1>2. Cursors' = Cursors /\ voice' = voice
  BY DEF Cursors
<1>3. voice' \in [build : {1, 2}, cursors : Seq(VoiceCursor), process : Nat]
  BY <1>1, <1>2 DEF VoiceTypes
<1>4. CursorsDiffer(g)'
  BY <1>1, <1>2 DEF VoiceRel, CursorsDiffer
<1>5. /\ StandsAt(Cursors', voice'.build, panel.lines, panel.next, panel.from)
      /\ \A d \in calls : AsksFor(Cursors', voice'.build, d)
  BY <1>1, <1>2 DEF VoiceRel, PanelBegins, CallsAsk
<1>6. NoPage \in VoicePage /\ NoPage.next = 0
  <2>1. <<>> \in Seq(VoiceGroup)
    BY EmptySeq
  <2> QED  BY <2>1 DEF NoPage, VoicePage
<1>7. \A d \in Cursors : d.token # 0
  <2>1. voice.cursors \in Seq(VoiceCursor)
    BY <1>1 DEF VoiceTypes
  <2> QED  BY <2>1, CursorIs DEF Cursors
<1>8. StandsAt(Cursors', voice'.build, NoPage.lines, NoPage.next, NoPage.build)
  BY <1>2, <1>6, <1>7 DEF StandsAt
<1>9. answer \in {"lost", "mismatch", "invalid", "page"} /\ answer # "page"
  OBVIOUS
<1> QED  BY <1>3, <1>4, <1>5, <1>6, <1>8, <1>9, AnsweredKeeps

LEMMA LoseKeeps == ASSUME VoiceInv, NEW c \in calls, LosePage(c) PROVE VoiceInv'
<1>1. Answered(c, "lost", NoPage) /\ UNCHANGED <<voiceRows, panel, voiceAsked, voice>>
  BY DEF LosePage
<1> QED  BY <1>1, EmptyKeeps

\* What the process becomes when it makes a page.
LEMMA MadeIs ==
    ASSUME VoiceTypes, NEW g, g = BuildLines, Lists(g), VoiceRel(g),
           NEW cursors \in Seq(VoiceCursor), ToSet(cursors) \subseteq Cursors,
           NEW start \in Nat, start <= Len(g[voice.build]),
           voice' = Paged(cursors, start).process
    PROVE  /\ voice' \in [build : {1, 2}, cursors : Seq(VoiceCursor), process : Nat]
           /\ voice'.build = voice.build
           /\ CursorsDiffer(g)'
           /\ StandsAt(Cursors', voice'.build, panel.lines, panel.next, panel.from)
           /\ \A d \in calls : AsksFor(Cursors', voice'.build, d)
           /\ LET served == Paged(cursors, start).page
              IN /\ served \in VoicePage /\ served.build = voice.build
                 /\ start < Len(g[voice.build]) => PageIs(g[voice.build], start, served)
                 /\ StandsAt(Cursors', voice'.build, served.lines, served.next, served.build)
<1> PICK made : made = Paged(cursors, start)
  OBVIOUS
<1>1. PICK X :
         /\ GivenOut(X)
         /\ \A c \in X : \E i \in DOMAIN g[voice.build] : g[voice.build][i].line = c.line
         /\ made.process = [voice EXCEPT !.cursors = made.process.cursors]
         /\ made.process.cursors \in Seq(VoiceCursor)
         /\ ToSet(made.process.cursors) \subseteq Cursors \cup X
         /\ made.page \in VoicePage /\ made.page.build = voice.build
         /\ start < Len(g[voice.build]) => PageIs(g[voice.build], start, made.page)
         /\ \A c \in Cursors \cup X : c.token = made.page.next =>
               /\ made.page.lines # <<>>
               /\ c.line = made.page.lines[Len(made.page.lines)].line
  <2>1. CursorsDiffer(g)
    BY DEF VoiceRel
  <2> QED  BY <2>1, PagedIs
<1>2. voice' = made.process
  OBVIOUS
<1>3. /\ voice' \in [build : {1, 2}, cursors : Seq(VoiceCursor), process : Nat]
      /\ voice'.build = voice.build
  <2>1. voice \in [build : {1, 2}, cursors : Seq(VoiceCursor), process : Nat]
    BY DEF VoiceTypes
  <2> PICK l : l = made.process.cursors
    OBVIOUS
  <2>2. voice' = [voice EXCEPT !.cursors = l] /\ l \in Seq(VoiceCursor)
    BY <1>1, <1>2
  <2> QED  BY ONLY <2>1, <2>2
<1>4. Cursors' \subseteq Cursors \cup X
  BY <1>1, <1>2 DEF Cursors
<1>5. /\ CursorsDiffer(g)'
      /\ StandsAt(Cursors', voice'.build, panel.lines, panel.next, panel.from)
      /\ \A c \in calls : AsksFor(Cursors', voice'.build, c)
  BY <1>1, <1>3, <1>4, CursorsMove
<1>6. StandsAt(Cursors', voice'.build, made.page.lines, made.page.next, made.page.build)
  BY <1>1, <1>3, <1>4 DEF StandsAt
<1> QED  BY <1>1, <1>3, <1>5, <1>6

LEMMA ServeKeeps == ASSUME VoiceInv, NEW c \in calls, ServePage(c) PROVE VoiceInv'
<1> PICK g : g = BuildLines
  OBVIOUS
<1>1. VoiceTypes /\ VoiceRel(g)
  BY DEF VoiceInv
<1>2. Lists(g)
  BY <1>1, GroupsAre DEF VoiceTypes, RowsGiven
<1>3. c.answer = "none" /\ UNCHANGED <<voiceRows, panel, voiceAsked>>
  BY DEF ServePage
<1>4. CASE c.build # voice.build \/ ~Known(c.cursor)
  <2>1. /\ UNCHANGED <<voiceRows, panel, voiceAsked, voice>>
        /\ Answered(c, "mismatch", NoPage) \/ Answered(c, "invalid", NoPage)
    BY <1>4 DEF ServePage
  <2> QED  BY <2>1, EmptyKeeps
<1>5. CASE c.build = voice.build /\ Known(c.cursor)
  <2>13. /\ g[voice.build] \in Seq(VoiceGroup)
         /\ \A i, j \in DOMAIN g[voice.build] :
               g[voice.build][i].line = g[voice.build][j].line => i = j
    <3>1. voice.build \in {1, 2}
      BY <1>1 DEF VoiceTypes
    <3> QED  BY <1>2, <3>1 DEF Lists
  <2> PICK groups, n : groups = g[voice.build] /\ n = Len(groups)
    OBVIOUS
  <2>14. \A i, j \in DOMAIN groups : groups[i].line = groups[j].line => i = j
    BY <2>13
  <2>1. voice.build \in {1, 2} /\ groups = Groups(voice.build)
    <3>1. voice.build \in {1, 2}
      BY <1>1 DEF VoiceTypes
    <3> QED  BY <3>1 DEF BuildLines
  <2>2. groups \in Seq(VoiceGroup) /\ n \in Nat /\ DOMAIN groups = 1 .. n
    BY <2>13, LenProperties
  <2> PICK cursor : cursor = CHOOSE d \in Cursors : d.token = c.cursor
    OBVIOUS
  <2>3. cursor \in Cursors /\ cursor.token = c.cursor
    BY <1>5 DEF Known, Cursors
  <2>4. cursor.line # 0
    BY <1>1, <2>3 DEF VoiceRel, CallsAsk, AsksFor
  <2>5. PICK k \in 1 .. n : groups[k].line = cursor.line
    BY <1>1, <2>2, <2>3, <2>4 DEF VoiceRel, CursorsDiffer
  <2>6. {i \in DOMAIN groups : groups[i].line = cursor.line} = {k}
    <3>1. \A i \in DOMAIN groups : groups[i].line = cursor.line => i = k
      BY <2>2, <2>5, <2>14
    <3>2. k \in DOMAIN groups /\ groups[k].line = cursor.line
      BY <2>2, <2>5
    <3> QED  BY <3>1, <3>2
  <2>7. Max({k}) = k /\ k \in Nat /\ k <= n
    <3>1. {k} \subseteq 0 .. n /\ {k} # {}
      BY <2>2
    <3>2. Max({k}) \in {k}
      BY <2>2, <3>1, MaxOf
    <3> QED  BY <2>2, <3>2
  <2> PICK used : used = Used(voice.cursors, cursor)
    OBVIOUS
  <2>8. used \in Seq(VoiceCursor) /\ ToSet(used) \subseteq Cursors
    <3>1. voice.cursors \in Seq(VoiceCursor)
      BY <1>1 DEF VoiceTypes
    <3>2. cursor \in VoiceCursor
      BY <2>3, <3>1, CursorIs DEF Cursors
    <3> QED  BY <2>3, <3>1, <3>2, UsedIs DEF Cursors
  <2> PICK served : served = Paged(used, k).page
    OBVIOUS
  <2>9. Answered(c, "page", served) /\ voice' = Paged(used, k).process
    BY <1>5, <2>1, <2>6, <2>7 DEF ServePage, Cursors
  <2>10. /\ voice' \in [build : {1, 2}, cursors : Seq(VoiceCursor), process : Nat]
         /\ CursorsDiffer(g)'
         /\ StandsAt(Cursors', voice'.build, panel.lines, panel.next, panel.from)
         /\ \A d \in calls : AsksFor(Cursors', voice'.build, d)
         /\ served \in VoicePage /\ served.build = voice.build
         /\ k < n => PageIs(groups, k, served)
         /\ StandsAt(Cursors', voice'.build, served.lines, served.next, served.build)
    BY <1>1, <1>2, <2>7, <2>8, <2>9, MadeIs
  <2>11. ASSUME Waits(c)
         PROVE  served.build = panel.from /\ PageIs(g[panel.from], Len(panel.lines), served)
    <3>1. c.cursor = panel.next /\ c.build = panel.from
      BY <1>1, <2>11 DEF VoiceRel, WaitedFor
    <3>2. panel.from = voice.build
      BY <1>5, <3>1
    <3>3. panel.next # 0
      BY <1>1, <3>1 DEF VoiceTypes, VoiceCall
    <3>4. PageIs(groups, 0, panel)
      BY <1>1, <2>1, <3>2 DEF VoiceRel, PanelBegins
    <3>5. PICK m \in Nat :
             /\ 0 + m <= Len(groups)
             /\ panel.lines = SubSeq(groups, 0 + 1, 0 + m)
             /\ panel.lines # <<>>
             /\ panel.more = (0 + m < Len(groups))
             /\ panel.more = (panel.next # 0)
      BY <3>4 DEF PageIs
    <3>6. /\ Len(panel.lines) = m /\ DOMAIN panel.lines = 1 .. m
          /\ \A i \in 1 .. m : panel.lines[i] = groups[0 + i]
      <4>1. 0 \in Nat
        OBVIOUS
      <4> QED  BY <2>2, <3>5, <4>1, LinesFrom
    <3>7. m < n
      BY <3>3, <3>5
    <3>8. m # 0
      BY <3>5, <3>6, EmptySeq, <1>1 DEF VoiceTypes, VoicePanel
    <3>9. cursor.line = groups[m].line
      <4>1. cursor.line = panel.lines[Len(panel.lines)].line
        BY <1>1, <2>3, <3>1 DEF VoiceRel, PanelBegins, StandsAt
      <4>2. m \in 1 .. m /\ 0 + m = m
        BY <3>8
      <4> QED  BY <3>6, <4>1, <4>2
    <3>10. k = m
      <4>1. m \in DOMAIN groups /\ k \in DOMAIN groups /\ groups[m].line = groups[k].line
        BY <2>2, <2>5, <3>7, <3>8, <3>9
      <4> QED  BY <2>14, <4>1
    <3> QED  BY <2>10, <3>2, <3>6, <3>7, <3>10
  <2>12. "page" \in {"lost", "mismatch", "invalid", "page"}
    OBVIOUS
  <2> QED  BY <1>3, <2>9, <2>10, <2>11, <2>12, AnsweredKeeps
<1> QED  BY <1>4, <1>5

LEMMA FirstKeeps == ASSUME VoiceInv, ShowFirstPage PROVE VoiceInv'
<1> PICK g : g = BuildLines
  OBVIOUS
<1>1. VoiceTypes /\ VoiceRel(g)
  BY DEF VoiceInv
<1>2. Lists(g)
  BY <1>1, GroupsAre DEF VoiceTypes, RowsGiven
<1> PICK groups, n : groups = g[voice.build] /\ n = Len(groups)
  OBVIOUS
<1>3. voice.build \in {1, 2} /\ groups = Groups(voice.build)
  <2>1. voice.build \in {1, 2}
    BY <1>1 DEF VoiceTypes
  <2> QED  BY <2>1 DEF BuildLines
<1>4. /\ groups \in Seq(VoiceGroup) /\ n \in Nat /\ DOMAIN groups = 1 .. n
      /\ \A i, j \in DOMAIN groups : groups[i].line = groups[j].line => i = j
  <2>1. groups \in Seq(VoiceGroup)
    BY <1>2, <1>3 DEF Lists
  <2>2. \A i, j \in DOMAIN g[voice.build] : g[voice.build][i].line = g[voice.build][j].line => i = j
    BY <1>2, <1>3 DEF Lists
  <2> QED  BY <2>1, <2>2, LenProperties
<1> PICK served : served = Paged(voice.cursors, 0).page
  OBVIOUS
<1>5. /\ voiceAsked' = voiceAsked + 1 /\ groups # <<>>
      /\ voice' = Paged(voice.cursors, 0).process
      /\ panel' = [NoPanel EXCEPT !.lines = MergeLines(<<>>, served.lines),
                       !.next = served.next, !.more = served.more,
                       !.from = voice.build, !.generation = panel.generation + 1]
      /\ UNCHANGED <<voiceRows, calls>>
  BY <1>3 DEF ShowFirstPage
<1>6. 0 < n
  BY <1>4, <1>5, EmptySeq
<1>7. /\ voice' \in [build : {1, 2}, cursors : Seq(VoiceCursor), process : Nat]
      /\ voice'.build = voice.build
      /\ CursorsDiffer(g)'
      /\ \A d \in calls : AsksFor(Cursors', voice'.build, d)
      /\ served \in VoicePage /\ served.build = voice.build
      /\ PageIs(groups, 0, served)
      /\ StandsAt(Cursors', voice'.build, served.lines, served.next, served.build)
  <2>1. /\ voice.cursors \in Seq(VoiceCursor) /\ ToSet(voice.cursors) \subseteq Cursors
        /\ 0 \in Nat /\ 0 <= Len(g[voice.build])
    BY <1>1, <1>6 DEF VoiceTypes, Cursors
  <2> QED  BY <1>1, <1>2, <1>5, <1>6, <2>1, MadeIs
<1>8. PICK m \in Nat :
         /\ 0 + m <= Len(groups)
         /\ served.lines = SubSeq(groups, 0 + 1, 0 + m) /\ served.lines # <<>>
         /\ served.more = (0 + m < Len(groups))
         /\ served.more = (served.next # 0)
  BY <1>7 DEF PageIs
<1>9. MergeLines(<<>>, served.lines) = served.lines
  <2>1. SubSeq(groups, 1, 0) = <<>>
    BY SubSeqEmpty
  <2> PICK z \in Nat : z = 0
    OBVIOUS
  <2>2. MergeLines(SubSeq(groups, 1, z), SubSeq(groups, z + 1, z + m)) = SubSeq(groups, 1, z + m)
    <3>1. z + m <= Len(groups)
      BY <1>8
    <3> QED  BY <1>4, <3>1, LinesMerge
  <2>3. served.lines = SubSeq(groups, z + 1, z + m) /\ z + 1 = 1
    BY <1>8
  <2> QED  BY ONLY <2>1, <2>2, <2>3, z = 0
<1>10. /\ panel' \in VoicePanel /\ panel'.lines = served.lines /\ panel'.next = served.next
       /\ panel'.more = served.more /\ panel'.from = voice.build
       /\ panel'.generation = panel.generation + 1
  <2>1. NoPanel \in VoicePanel
    <3>1. <<>> \in Seq(VoiceGroup)
      BY EmptySeq
    <3> QED  BY <3>1 DEF NoPanel, VoicePanel
  <2>2. /\ served.lines \in Seq(VoiceGroup) /\ served.next \in Nat /\ served.more \in BOOLEAN
        /\ panel.generation + 1 \in Nat /\ voice.build \in {0, 1, 2}
    BY <1>1, <1>3, <1>7 DEF VoiceTypes, VoicePanel, VoicePage
  <2>3. panel' = [NoPanel EXCEPT !.lines = served.lines, !.next = served.next, !.more = served.more,
                      !.from = voice.build, !.generation = panel.generation + 1]
    BY <1>5, <1>9
  <2> QED  BY ONLY <2>1, <2>2, <2>3 DEF VoicePanel
<1>11. BuildLines' = g
  BY <1>5, GroupsStay
<1>12. VoiceTypes'
  BY <1>1, <1>5, <1>7, <1>10 DEF VoiceTypes
<1>13. PanelBegins(g)'
  <2>1. panel'.from # 0
    BY <1>3, <1>10
  <2>2. PageIs(groups, 0, panel')
    BY <1>8, <1>10 DEF PageIs
  <2>3. StandsAt(Cursors', voice'.build, panel'.lines, panel'.next, panel'.from)
    BY <1>7, <1>10
  <2> QED  BY <1>10, <2>1, <2>2, <2>3 DEF PanelBegins
<1>14. CallsAsk'
  BY <1>5, <1>7 DEF CallsAsk
<1>15. WaitedFor(g)'
  <2>1. \A c \in calls : c.generation <= panel.generation /\ c.generation \in Nat
    BY <1>1 DEF VoiceRel, WaitedFor, VoiceTypes, VoiceCall
  <2>2. panel.generation \in Nat
    BY <1>1 DEF VoiceTypes, VoicePanel
  <2>3. \A c \in calls : c.generation <= panel'.generation /\ c.generation # panel'.generation
    BY <1>10, <2>1, <2>2
  <2> QED  BY <1>5, <2>3 DEF WaitedFor, Waits
<1> QED  BY <1>7, <1>11, <1>12, <1>13, <1>14, <1>15 DEF VoiceInv, VoiceRel

LEMMA LoadKeeps == ASSUME VoiceInv, LoadNextPage PROVE VoiceInv'
<1> PICK g : g = BuildLines
  OBVIOUS
<1>1. VoiceTypes /\ VoiceRel(g)
  BY DEF VoiceInv
<1> PICK new : new = [cursor |-> panel.next, build |-> panel.from,
                      generation |-> panel.generation + 1, answer |-> "none", page |-> NoPage]
  OBVIOUS
<1>2. /\ voiceAsked' = voiceAsked + 1 /\ panel.next # 0
      /\ panel' = [panel EXCEPT !.loading = TRUE, !.error = "none", !.generation = @ + 1]
      /\ calls' = calls \cup {new} /\ UNCHANGED <<voiceRows, voice>>
  BY DEF LoadNextPage
<1>3. /\ panel' \in VoicePanel /\ panel'.lines = panel.lines /\ panel'.next = panel.next
      /\ panel'.more = panel.more /\ panel'.from = panel.from
      /\ panel'.generation = panel.generation + 1 /\ panel.generation \in Nat
  <2>1. panel \in VoicePanel
    BY <1>1 DEF VoiceTypes
  <2>2. PICK k \in Nat : k = panel.generation + 1
    BY <2>1 DEF VoicePanel
  <2>3. panel' = [panel EXCEPT !.loading = TRUE, !.error = "none", !.generation = k]
    BY <1>2, <2>2
  <2>4. panel.generation \in Nat
    BY <2>1 DEF VoicePanel
  <2>5. panel' \in VoicePanel
    BY ONLY <2>1, <2>3, k \in Nat DEF VoicePanel
  <2>6. /\ panel'.lines = panel.lines /\ panel'.next = panel.next
        /\ panel'.more = panel.more /\ panel'.from = panel.from
        /\ panel'.generation = k
    BY ONLY <2>1, <2>3 DEF VoicePanel
  <2> QED  BY <2>2, <2>4, <2>5, <2>6
<1>4. panel.from # 0 /\ PageIs(g[panel.from], 0, panel)
  BY <1>1, <1>2 DEF VoiceRel, PanelBegins
<1>5. NoPage \in VoicePage /\ NoPage.next = 0
  <2>1. <<>> \in Seq(VoiceGroup)
    BY EmptySeq
  <2> QED  BY <2>1 DEF NoPage, VoicePage
<1>6. /\ new \in VoiceCall /\ new.cursor = panel.next /\ new.build = panel.from
      /\ new.generation = panel.generation + 1 /\ new.answer = "none" /\ new.page = NoPage
  BY <1>1, <1>2, <1>3, <1>4, <1>5 DEF VoiceCall, VoiceTypes, VoicePanel
<1>7. BuildLines' = g
  BY <1>2, GroupsStay
<1>8. VoiceTypes'
  <2>1. IsFiniteSet(calls')
    BY <1>1, <1>2, FS_Singleton, FS_Union DEF VoiceTypes
  <2> QED  BY <1>1, <1>2, <1>3, <1>6, <2>1 DEF VoiceTypes
<1>9. Cursors' = Cursors /\ voice' = voice
  BY <1>2 DEF Cursors
<1>10. CursorsDiffer(g)'
  BY <1>1, <1>9 DEF VoiceRel, CursorsDiffer
<1>11. PanelBegins(g)'
  <2>1. PageIs(g[panel.from], 0, panel')
    BY <1>3, <1>4 DEF PageIs
  <2>2. StandsAt(Cursors', voice'.build, panel'.lines, panel'.next, panel'.from)
    BY <1>1, <1>3, <1>9 DEF VoiceRel, PanelBegins
  <2> QED  BY <1>3, <1>4, <2>1, <2>2 DEF PanelBegins
<1>12. AsksFor(Cursors, voice.build, new)
  <2>1. StandsAt(Cursors, voice.build, panel.lines, panel.next, panel.from)
    BY <1>1 DEF VoiceRel, PanelBegins
  <2>2. panel.lines \in Seq(VoiceGroup)
    BY <1>1 DEF VoiceTypes, VoicePanel
  <2>3. ASSUME panel.lines # <<>> PROVE panel.lines[Len(panel.lines)].line # 0
    <3>1. Len(panel.lines) \in Nat \ {0}
      BY <2>2, <2>3, EmptySeq
    <3>2. Len(panel.lines) \in 1 .. Len(panel.lines)
      BY <3>1
    <3>3. panel.lines[Len(panel.lines)] \in VoiceGroup
      BY <2>2, <3>2, ElementOfSeq
    <3> QED  BY <3>3, VoiceAssumption DEF VoiceGroup
  <2>4. \A d \in Cursors : d.token = new.cursor => d.line # 0
    BY <1>6, <2>1, <2>3 DEF StandsAt
  <2>5. \A d \in Cursors : d.token # 0
    <3>1. voice.cursors \in Seq(VoiceCursor)
      BY <1>1 DEF VoiceTypes
    <3> QED  BY <3>1, CursorIs DEF Cursors
  <2>6. StandsAt(Cursors, voice.build, NoPage.lines, NoPage.next, NoPage.build)
    BY <1>5, <2>5 DEF StandsAt
  <2> QED  BY <1>6, <2>4, <2>6 DEF AsksFor
<1>13. CallsAsk'
  BY <1>1, <1>2, <1>9, <1>12 DEF VoiceRel, CallsAsk
<1>14. WaitedFor(g)'
  <2>1. \A c \in calls : c.generation <= panel.generation /\ c.generation \in Nat
    BY <1>1 DEF VoiceRel, WaitedFor, VoiceTypes, VoiceCall
  <2>2. \A c \in calls : c.generation <= panel'.generation /\ panel'.generation # c.generation
    BY <1>3, <2>1
  <2>3. \A c \in calls' : c.generation <= panel'.generation
    BY <1>2, <1>3, <1>6, <2>2
  <2>4. \A c \in calls' : panel'.generation = c.generation => c = new
    BY <1>2, <2>2
  <2> QED  BY <1>3, <1>6, <2>3, <2>4 DEF WaitedFor, Waits
<1> QED  BY <1>7, <1>8, <1>10, <1>11, <1>13, <1>14 DEF VoiceInv, VoiceRel

\* What the panel takes from an answer, if it waits for it.
LEMMA PanelTakes ==
    ASSUME VoiceInv, NEW g, g = BuildLines, NEW c \in calls, ReceivePage(c), Waits(c)
    PROVE  /\ panel' \in VoicePanel /\ panel'.from = panel.from /\ panel.from # 0
           /\ panel'.generation = panel.generation
           /\ PageIs(g[panel.from], 0, panel')
           /\ StandsAt(Cursors, voice.build, panel'.lines, panel'.next, panel.from)
<1>1. VoiceTypes /\ VoiceRel(g)
  BY DEF VoiceInv
<1>2. Lists(g)
  BY <1>1, GroupsAre DEF VoiceTypes, RowsGiven
<1>3. panel \in VoicePanel /\ c \in VoiceCall
  BY <1>1 DEF VoiceTypes
<1>4. panel.from # 0 /\ PageIs(g[panel.from], 0, panel)
  BY <1>1 DEF VoiceRel, PanelBegins
<1>5. StandsAt(Cursors, voice.build, panel.lines, panel.next, panel.from)
  BY <1>1 DEF VoiceRel, PanelBegins
<1>6. CASE c.answer # "page"
  <2>1. PICK error \in {"retry", "reload-first-page"} :
            panel' = [panel EXCEPT !.error = error, !.loading = FALSE]
    BY <1>3, <1>6 DEF ReceivePage, VoiceCall
  <2>2. /\ panel' \in VoicePanel /\ panel'.lines = panel.lines /\ panel'.next = panel.next
        /\ panel'.more = panel.more /\ panel'.from = panel.from
        /\ panel'.generation = panel.generation
    BY ONLY <1>3, <2>1 DEF VoicePanel
  <2> QED  BY <1>4, <1>5, <2>2 DEF PageIs
<1>7. CASE c.answer = "page"
  <2> PICK served, groups : served = c.page /\ groups = g[panel.from]
    OBVIOUS
  <2>1. panel' = [panel EXCEPT !.lines = MergeLines(panel.lines, served.lines),
                      !.more = served.more, !.next = served.next, !.loading = FALSE]
    BY <1>7 DEF ReceivePage
  <2>2. served \in VoicePage
    BY <1>3 DEF VoiceCall
  <2>3. served.build = panel.from /\ PageIs(groups, Len(panel.lines), served)
    BY <1>1, <1>7 DEF VoiceRel, WaitedFor
  <2>4. groups \in Seq(VoiceGroup)
    BY <1>2, <1>3, <1>4 DEF Lists, VoicePanel
  <2>5. \A i, j \in DOMAIN groups : groups[i].line = groups[j].line => i = j
    <3>1. panel.from \in {1, 2}
      BY <1>3, <1>4 DEF VoicePanel
    <3>2. \A i, j \in DOMAIN g[panel.from] :
             g[panel.from][i].line = g[panel.from][j].line => i = j
      BY <1>2, <3>1 DEF Lists
    <3> QED  BY <3>2
  <2> PICK z \in Nat : z = 0
    OBVIOUS
  <2>6. PICK n \in Nat :
           /\ z + n <= Len(groups)
           /\ panel.lines = SubSeq(groups, z + 1, z + n)
    BY <1>4 DEF PageIs
  <2>7. Len(panel.lines) = n
    BY <2>4, <2>6, LinesFrom
  <2>8. PICK m \in Nat :
           /\ n + m <= Len(groups)
           /\ served.lines = SubSeq(groups, n + 1, n + m) /\ served.lines # <<>>
           /\ served.more = (n + m < Len(groups))
           /\ served.more = (served.next # 0)
    BY <2>3, <2>7 DEF PageIs
  <2> PICK l : l = MergeLines(panel.lines, served.lines)
    OBVIOUS
  <2>9. l = SubSeq(groups, 1, n + m)
    <3>1. MergeLines(SubSeq(groups, 1, n), SubSeq(groups, n + 1, n + m)) = SubSeq(groups, 1, n + m)
      BY <2>4, <2>5, <2>8, LinesMerge
    <3>2. panel.lines = SubSeq(groups, 1, n)
      BY <2>6
    <3> QED  BY <2>8, <3>1, <3>2
  <2> PICK k \in Nat : k = n + m
    OBVIOUS
  <2>10. /\ l \in Seq(VoiceGroup) /\ Len(l) = k
         /\ \A i \in 1 .. k : l[i] = groups[i]
    <3>1. z + k <= Len(groups)
      BY <2>8
    <3>2. /\ SubSeq(groups, z + 1, z + k) \in Seq(VoiceGroup)
          /\ Len(SubSeq(groups, z + 1, z + k)) = k
          /\ \A i \in 1 .. k : SubSeq(groups, z + 1, z + k)[i] = groups[z + i]
      BY <2>4, <3>1, LinesFrom
    <3>3. l = SubSeq(groups, z + 1, z + k)
      BY <2>9
    <3> QED  BY <3>2, <3>3
  <2>11. /\ Len(served.lines) = m /\ m # 0
         /\ \A i \in 1 .. m : served.lines[i] = groups[n + i]
    <3>1. /\ Len(served.lines) = m
          /\ \A i \in 1 .. m : served.lines[i] = groups[n + i]
      <4>1. n + m <= Len(groups) /\ served.lines = SubSeq(groups, n + 1, n + m)
        BY <2>8
      <4>2. /\ Len(SubSeq(groups, n + 1, n + m)) = m
            /\ \A i \in 1 .. m : SubSeq(groups, n + 1, n + m)[i] = groups[n + i]
        BY <2>4, <4>1, LinesFrom
      <4> QED  BY <4>1, <4>2
    <3>2. served.lines \in Seq(VoiceGroup)
      BY <2>2 DEF VoicePage
    <3> QED  BY <2>8, <3>1, <3>2, EmptySeq
  <2>12. l # <<>> /\ l[Len(l)] = served.lines[Len(served.lines)]
    <3>1. k # 0 /\ k \in 1 .. k /\ m \in 1 .. m
      BY <2>11
    <3>2. l # <<>>
      BY <2>10, <3>1, EmptySeq
    <3> QED  BY <2>10, <2>11, <3>1, <3>2
  <2>13. panel' = [panel EXCEPT !.lines = l, !.more = served.more,
                       !.next = served.next, !.loading = FALSE]
    BY <2>1
  <2>14. served.next \in Nat /\ served.more \in BOOLEAN
    BY <2>2 DEF VoicePage
  <2>15. l \in Seq(VoiceGroup)
    BY <2>10
  <2>16. panel' \in VoicePanel
    BY ONLY <1>3, <2>13, <2>14, <2>15 DEF VoicePanel
  <2>17. /\ panel'.lines = l /\ panel'.next = served.next /\ panel'.more = served.more
         /\ panel'.from = panel.from /\ panel'.generation = panel.generation
    BY ONLY <1>3, <2>13 DEF VoicePanel
  <2>18. PageIs(groups, 0, panel')
    <3>1. 0 + k <= Len(groups) /\ l = SubSeq(groups, 0 + 1, 0 + k) /\ l # <<>>
      BY <2>8, <2>9, <2>12
    <3>2. (n + m < Len(groups)) = (0 + k < Len(groups))
      OBVIOUS
    <3>3. served.more = (0 + k < Len(groups)) /\ served.more = (served.next # 0)
      BY <2>8, <3>2
    <3> QED  BY <2>17, <3>1, <3>3 DEF PageIs
  <2>19. StandsAt(Cursors, voice.build, l, served.next, panel.from)
    <3>1. StandsAt(Cursors, voice.build, served.lines, served.next, served.build)
      BY <1>1 DEF VoiceRel, CallsAsk, AsksFor
    <3> QED  BY <2>3, <2>12, <3>1 DEF StandsAt
  <2> QED  BY <1>4, <2>16, <2>17, <2>18, <2>19
<1> QED  BY <1>6, <1>7

LEMMA ReceiveKeeps == ASSUME VoiceInv, NEW c \in calls, ReceivePage(c) PROVE VoiceInv'
<1> PICK g : g = BuildLines
  OBVIOUS
<1>1. VoiceTypes /\ VoiceRel(g)
  BY DEF VoiceInv
<1>2. calls' = calls \ {c} /\ UNCHANGED <<voiceRows, voice, voiceAsked>>
  BY DEF ReceivePage
<1>3. BuildLines' = g /\ Cursors' = Cursors /\ voice' = voice
  BY <1>2, GroupsStay DEF Cursors
<1>4. /\ panel' \in VoicePanel /\ panel'.from = panel.from /\ panel.from # 0
      /\ panel'.generation = panel.generation
      /\ PageIs(g[panel.from], 0, panel')
      /\ StandsAt(Cursors, voice.build, panel'.lines, panel'.next, panel.from)
      /\ Waits(c) \/ panel' = panel
  <2>1. CASE Waits(c)
    BY <2>1, PanelTakes
  <2>2. CASE ~Waits(c)
    <3>1. panel' = panel
      BY <2>2 DEF ReceivePage
    <3>2. panel \in VoicePanel
      BY <1>1 DEF VoiceTypes
    <3>3. panel.from # 0 /\ PageIs(g[panel.from], 0, panel)
      BY <1>1 DEF VoiceRel, PanelBegins
    <3>4. StandsAt(Cursors, voice.build, panel.lines, panel.next, panel.from)
      BY <1>1 DEF VoiceRel, PanelBegins
    <3> QED  BY <3>1, <3>2, <3>3, <3>4
  <2> QED  BY <2>1, <2>2
<1>5. VoiceTypes'
  <2>1. IsFiniteSet(calls')
    BY <1>1, <1>2, FS_Difference DEF VoiceTypes
  <2> QED  BY <1>1, <1>2, <1>4, <2>1 DEF VoiceTypes
<1>6. CursorsDiffer(g)'
  BY <1>1, <1>3 DEF VoiceRel, CursorsDiffer
<1>7. PanelBegins(g)'
  BY <1>3, <1>4 DEF PanelBegins
<1>8. CallsAsk'
  BY <1>1, <1>2, <1>3 DEF VoiceRel, CallsAsk
<1>9. WaitedFor(g)'
  <2>1. \A d \in calls : Waits(d)' <=> Waits(d)
    BY <1>4 DEF Waits
  <2>2. CASE Waits(c)
    <3>1. \A d \in calls' : ~Waits(d)
      BY <1>1, <1>2, <2>2 DEF VoiceRel, WaitedFor
    <3>2. \A d \in calls' : d.generation <= panel'.generation
      BY <1>1, <1>2, <1>4 DEF VoiceRel, WaitedFor
    <3> QED  BY <1>2, <2>1, <3>1, <3>2 DEF WaitedFor
  <2>3. CASE panel' = panel
    BY <1>1, <1>2, <2>1, <2>3 DEF VoiceRel, WaitedFor
  <2> QED  BY <1>4, <2>2, <2>3
<1> QED  BY <1>3, <1>5, <1>6, <1>7, <1>8, <1>9 DEF VoiceInv, VoiceRel

\* Where the cursors of the process are others, and all else is as it was.
LEMMA CursorsKeep ==
    ASSUME VoiceInv, NEW g, g = BuildLines, UNCHANGED <<voiceRows, panel, calls, voiceAsked>>,
           voice' \in [build : {1, 2}, cursors : Seq(VoiceCursor), process : Nat],
           CursorsDiffer(g)',
           StandsAt(Cursors', voice'.build, panel.lines, panel.next, panel.from),
           \A c \in calls : AsksFor(Cursors', voice'.build, c)
    PROVE  VoiceInv'
<1>1. VoiceTypes /\ VoiceRel(g)
  BY DEF VoiceInv
<1>2. BuildLines' = g
  BY GroupsStay
<1>3. VoiceTypes'
  BY <1>1 DEF VoiceTypes
<1>4. PanelBegins(g)'
  BY <1>1 DEF VoiceRel, PanelBegins
<1>5. CallsAsk'
  BY DEF CallsAsk
<1>6. WaitedFor(g)'
  BY <1>1 DEF VoiceRel, WaitedFor, Waits
<1> QED  BY <1>2, <1>3, <1>4, <1>5, <1>6 DEF VoiceInv, VoiceRel

LEMMA OtherKeeps == ASSUME VoiceInv, OtherClient PROVE VoiceInv'
<1> PICK g : g = BuildLines
  OBVIOUS
<1>1. VoiceTypes /\ VoiceRel(g)
  BY DEF VoiceInv
<1> PICK cursors : cursors = Issue(voice.cursors, 0).cursors
  OBVIOUS
<1>2. /\ voice' = [voice EXCEPT !.cursors = cursors]
      /\ UNCHANGED <<voiceRows, panel, calls, voiceAsked>>
  BY DEF OtherClient
<1>3. PICK c \in VoiceCursor : IssuedAs(voice.cursors, 0, c)
  <2>1. voice.cursors \in Seq(VoiceCursor) /\ ToSet(voice.cursors) \subseteq Cursors
    BY <1>1 DEF VoiceTypes, Cursors
  <2>2. 0 \in VoiceLines \cup {0}
    OBVIOUS
  <2> QED  BY <1>1, <2>1, <2>2, IssueIs
<1>4. /\ GivenOut({c}) /\ c.line = 0
      /\ cursors \in Seq(VoiceCursor) /\ ToSet(cursors) \subseteq Cursors \cup {c}
  BY <1>3 DEF IssuedAs
<1>5. /\ voice' \in [build : {1, 2}, cursors : Seq(VoiceCursor), process : Nat]
      /\ voice'.build = voice.build /\ voice'.cursors = cursors
  <2>1. voice \in [build : {1, 2}, cursors : Seq(VoiceCursor), process : Nat]
    BY <1>1 DEF VoiceTypes
  <2> QED  BY ONLY <1>2, <1>4, <2>1
<1>6. Cursors' \subseteq Cursors \cup {c}
  BY <1>4, <1>5 DEF Cursors
<1>7. /\ CursorsDiffer(g)'
      /\ StandsAt(Cursors', voice'.build, panel.lines, panel.next, panel.from)
      /\ \A d \in calls : AsksFor(Cursors', voice'.build, d)
  <2>1. \A d \in {c} : d.line # 0 =>
            \E i \in DOMAIN g[voice.build] : g[voice.build][i].line = d.line
    BY <1>4
  <2> QED  BY <1>1, <1>4, <1>5, <1>6, <2>1, CursorsMove
<1> QED  BY <1>2, <1>5, <1>7, CursorsKeep

LEMMA ReplaceKeeps == ASSUME VoiceInv, ReplaceProcess PROVE VoiceInv'
<1> PICK g : g = BuildLines
  OBVIOUS
<1>1. VoiceTypes
  BY DEF VoiceInv
<1>2. PICK build \in {1, 2} :
         voice' = [voice EXCEPT !.process = @ + 1, !.build = build, !.cursors = <<>>]
  BY DEF ReplaceProcess
<1>3. UNCHANGED <<voiceRows, panel, calls, voiceAsked>>
  BY DEF ReplaceProcess
<1>4. /\ voice' \in [build : {1, 2}, cursors : Seq(VoiceCursor), process : Nat]
      /\ voice'.cursors = <<>>
  <2>1. voice \in [build : {1, 2}, cursors : Seq(VoiceCursor), process : Nat]
    BY <1>1 DEF VoiceTypes
  <2>2. <<>> \in Seq(VoiceCursor)
    BY EmptySeq
  <2>3. PICK k \in Nat : k = voice.process + 1
    BY <2>1
  <2>4. voice' = [voice EXCEPT !.process = k, !.build = build, !.cursors = <<>>]
    BY <1>2, <2>3
  <2> QED  BY ONLY <2>1, <2>2, <2>4, k \in Nat, build \in {1, 2}
<1>5. Cursors' = {}
  BY <1>4 DEF Cursors, ToSet
<1>6. /\ CursorsDiffer(g)'
      /\ StandsAt(Cursors', voice'.build, panel.lines, panel.next, panel.from)
      /\ \A d \in calls : AsksFor(Cursors', voice'.build, d)
  BY <1>5 DEF CursorsDiffer, StandsAt, AsksFor
<1> QED  BY <1>3, <1>4, <1>6, CursorsKeep

LEMMA VoiceKeeps == ASSUME VoiceInv, [VoiceNext]_voiceVars PROVE VoiceInv'
<1>1. CASE UNCHANGED voiceVars
  <2>1. UNCHANGED <<voiceRows, voice, panel, calls, voiceAsked>>
    BY <1>1 DEF voiceVars
  <2> PICK g : g = BuildLines
    OBVIOUS
  <2>2. VoiceTypes /\ VoiceRel(g)
    BY DEF VoiceInv
  <2>3. Cursors' = Cursors /\ voice' = voice
    BY <2>1 DEF Cursors
  <2>4. voice' \in [build : {1, 2}, cursors : Seq(VoiceCursor), process : Nat]
    BY <2>2, <2>3 DEF VoiceTypes
  <2>5. /\ CursorsDiffer(g)'
        /\ StandsAt(Cursors', voice'.build, panel.lines, panel.next, panel.from)
        /\ \A c \in calls : AsksFor(Cursors', voice'.build, c)
    BY <2>2, <2>3 DEF VoiceRel, CursorsDiffer, PanelBegins, CallsAsk
  <2> QED  BY <2>1, <2>4, <2>5, CursorsKeep
<1>2. CASE VoiceNext
  BY <1>2, FirstKeeps, LoadKeeps, OtherKeeps, ReplaceKeeps, ServeKeeps, LoseKeeps, ReceiveKeeps
  DEF VoiceNext
<1> QED  BY <1>1, <1>2

BestVariants(build, groups) ==
    \A i \in DOMAIN groups : \A language \in Languages :
        LET ranks == {row.rank : row \in {r \in ToSet(RowsOf(build)) :
                          r.line = groups[i].line /\ r.language = language}}
        IN groups[i].variants[language] = IF ranks = {} THEN 0 ELSE Min(ranks)

LEMMA VoiceHolds == ASSUME VoiceInv PROVE VoicesInOrder
<1>1. SUFFICES ASSUME panel.from # 0
      PROVE  /\ IsPrefix(panel.lines, Groups(panel.from))
             /\ panel.more = (panel.lines # Groups(panel.from))
             /\ panel.more = (panel.next # 0)
             /\ BestVariants(panel.from, Groups(panel.from))
  BY DEF VoicesInOrder, BestVariants
<1> PICK build, groups : build = panel.from /\ groups = Groups(panel.from)
  OBVIOUS
<1>2. VoiceTypes /\ VoiceRel(BuildLines) /\ RowsGiven
  BY DEF VoiceInv, VoiceTypes, RowsGiven
<1>3. build \in {1, 2} /\ BuildLines[build] = groups
  <2>1. build \in {1, 2}
    BY <1>1, <1>2 DEF VoiceTypes, VoicePanel
  <2> QED  BY <2>1 DEF BuildLines
<1>4. groups \in Seq(VoiceGroup) /\ Len(groups) \in Nat /\ DOMAIN groups = 1 .. Len(groups)
  BY <1>2, <1>3, GroupsAre, LenProperties DEF Lists
<1>5. PageIs(groups, 0, panel)
  BY <1>1, <1>2, <1>3 DEF VoiceRel, PanelBegins
<1> PICK z \in Nat : z = 0
  OBVIOUS
<1>6. PICK m \in Nat :
         /\ z + m <= Len(groups)
         /\ panel.lines = SubSeq(groups, z + 1, z + m)
         /\ panel.more = (z + m < Len(groups))
         /\ panel.more = (panel.next # 0)
  BY <1>5 DEF PageIs
<1>7. Len(panel.lines) = m /\ panel.lines = SubSeq(groups, 1, m) /\ panel.lines \in Seq(VoiceGroup)
  BY <1>4, <1>6, LinesFrom
<1>8. IsPrefix(panel.lines, groups)
  <2>1. SubSeq(panel.lines, 1, Len(panel.lines)) = panel.lines
    BY <1>7, SubSeqFull
  <2> QED  BY <1>6, <1>7, <2>1 DEF IsPrefix
<1>9. panel.more = (panel.lines # groups)
  <2>1. CASE m = Len(groups)
    <3>1. panel.lines = groups
      BY <1>4, <1>7, <2>1, SubSeqFull
    <3>2. ~(z + m < Len(groups))
      BY <1>4, <2>1
    <3> QED  BY <1>6, <3>1, <3>2
  <2>2. CASE m # Len(groups)
    <3>1. panel.lines # groups
      BY <1>7, <2>2
    <3>2. z + m < Len(groups)
      BY <1>4, <1>6, <2>2
    <3> QED  BY <1>6, <3>1, <3>2
  <2> QED  BY <2>1, <2>2
<1>10. BestVariants(build, groups)
  <2>1. SUFFICES ASSUME NEW i \in DOMAIN groups, NEW language \in Languages
        PROVE  LET ranks == {row.rank : row \in {r \in ToSet(RowsOf(build)) :
                                 r.line = groups[i].line /\ r.language = language}}
               IN groups[i].variants[language] = IF ranks = {} THEN 0 ELSE Min(ranks)
    BY DEF BestVariants
  <2> PICK line : line = groups[i].line
    OBVIOUS
  <2>2. line \in VoiceLines
    <3>1. groups[i] \in VoiceGroup
      BY <1>4, <2>1, ElementOfSeq
    <3> QED  BY <3>1 DEF VoiceGroup
  <2>3. groups[i].variants[language] = Variant(build, line, language)
    BY DEF Groups, Group
  <2> QED  BY <1>2, <1>3, <2>2, <2>3, VariantIs
<1>11. panel.more = (panel.next # 0)
  BY <1>6
<1> QED  BY <1>8, <1>9, <1>10, <1>11

\* A panel lists the lines of one build from the first on, in their order, each
\* once and with its best variants, and offers more exactly when there are more
\* (VoicePanel, mergeLines, get_page): for any number of lines, requests,
\* clients and processes, whatever is late, lost or evicted.
THEOREM VoiceSafety ==
    ASSUME NEW builds, builds \subseteq Seq(VoiceRow) \ {<<>>}
    PROVE  VoiceInit(builds) /\ [][VoiceNext]_voiceVars => []VoicesInOrder
<1>1. VoiceInit(builds) => VoiceInv  BY VoiceStarts
<1>2. VoiceInv /\ [VoiceNext]_voiceVars => VoiceInv'  BY VoiceKeeps
<1>3. VoiceInv => VoicesInOrder  BY VoiceHolds
<1> QED BY <1>1, <1>2, <1>3, PTL

-----------------------------------------------------------------------------
(***************************************************************************)
(* What the browser shows.  Every awaited answer fits what is shown when it *)
(* is taken, the list goes on as the filter orders, and the address, the   *)
(* view and the page agree until an answer was taken in a view it was not  *)
(* asked for.                                                              *)
(***************************************************************************)
WikiRoutes == 0 .. Alias
WikiSelection == [filter : Filters, selected : 0 .. LastPage]

\* Only an entry that is a page may have nothing selected.
WikiEntry ==
    {e \in [route : WikiRoutes, selection : WikiSelection \cup {NoSelection}] :
        e.route = Selection => e.selection \in WikiSelection}

WikiShellState ==
    [filter : Filters, selected : 0 .. LastPage, list : Seq(1 .. LastPage), cursor : Nat,
     listLoading : BOOLEAN, more : BOOLEAN, failed : BOOLEAN, page : 0 .. LastPage,
     loading : BOOLEAN]

WikiFlight ==
    [kind : {"list", "more", "preview", "detail"}, filter : Filters, at : Nat,
     step : {"direct", "resolve", "target"}, current : BOOLEAN]

\* The first items are awaited only while there is no list, those of a cursor
\* while it stands; in the selection, the page that is selected is awaited, and
\* on a page that of its route or, for an old route, the page it is of.
FlightFits(f, s, at) ==
    /\ f.kind = "list" =>
          f = Listing("list", s.filter, 0) /\ at = Selection /\ s.list = <<>> /\ s.cursor = 0
    /\ f.kind = "more" => f = Listing("more", s.filter, s.cursor) /\ s.cursor # 0
    /\ f.kind = "preview" => f.at \in 1 .. LastPage /\ (at = Selection => f.at = s.selected)
    /\ f.kind = "detail" =>
          /\ f.at \in 1 .. Alias
          /\ f.current /\ at # Selection => f.at = at \/ (at = Alias /\ f.at = 1)

AnswersFit == \A f \in flights : FlightFits(f, shell, place)

PreviewAwaited ==
    shell.loading /\ place = Selection /\ shell.selected # 0 =>
        \E f \in flights : f.kind = "preview"

\* The list is the beginning of all, the cursor stands at its end.
GoesOn(s, at, all) ==
    /\ IsPrefix(s.list, all)
    /\ s.cursor # 0 => s.cursor = Len(s.list) /\ s.cursor < Len(all)
    /\ s.cursor = 0 /\ ~s.listLoading /\ ~s.failed /\ at = Selection => s.list = all

ListBegins ==
    /\ IsInjective(shell.list)
    /\ imports = listedAt => GoesOn(shell, place, Ordered(shell.filter))

\* An old route is in the address until it is resolved.
AddressAgrees ==
    ~crossed =>
        /\ (visited[entry].route = Selection) = (place = Selection)
        /\ place \in 1 .. LastPage => visited[entry].route = place
        /\ place = Alias => visited[entry].route \in {Alias, 1}
        /\ shell.page # 0 =>
              IF place = Selection THEN shell.page = shell.selected
              ELSE shell.page = visited[entry].route

ShellInv ==
    /\ pages \in SUBSET (1 .. LastPage)
    /\ place \in WikiRoutes
    /\ shell \in WikiShellState
    /\ flights \in SUBSET WikiFlight
    /\ imports \in Nat /\ listedAt \in Nat /\ listedAt <= imports
    /\ AnswersFit /\ PreviewAwaited /\ ListBegins

AddressInv ==
    /\ visited \in Seq(WikiEntry) /\ entry \in DOMAIN visited
    /\ crossed \in BOOLEAN
    /\ AddressAgrees

WikiInv == ShellInv /\ AddressInv
-----------------------------------------------------------------------------
(* The lists.                                                               *)

LEMMA PieceIs ==
    ASSUME NEW E, NEW s \in Seq(E), NEW a \in 0 .. Len(s), NEW b \in a .. Len(s)
    PROVE  /\ SubSeq(s, a + 1, b) \in Seq(E) /\ Len(SubSeq(s, a + 1, b)) = b - a
           /\ DOMAIN SubSeq(s, a + 1, b) = 1 .. (b - a)
           /\ \A i \in 1 .. (b - a) : SubSeq(s, a + 1, b)[i] = s[a + i] /\ a + i \in DOMAIN s
           /\ IsInjective(s) => IsInjective(SubSeq(s, a + 1, b))
<1> PICK n, m, k, l : n = Len(s) /\ m = a + 1 /\ k = b - a /\ l = SubSeq(s, m, b)
  OBVIOUS
<1>1. n \in Nat /\ DOMAIN s = 1 .. n /\ s \in [1 .. n -> E]
  BY LenProperties
<1>2. a \in Nat /\ b \in Nat /\ m \in Int /\ b \in Int /\ k \in Nat /\ m \in Nat /\ k = b - m + 1
  BY <1>1
<1>3. \A i \in m .. b : s[i] \in E
  BY <1>1, <1>2
<1>4. /\ l \in Seq(E) /\ Len(l) = (IF m <= b THEN b - m + 1 ELSE 0)
      /\ \A i \in 1 .. (b - m + 1) : l[i] = s[m + i - 1]
  BY <1>2, <1>3, SubSeqProperties
<1>5. Len(l) = k
  BY <1>2, <1>4
<1>6. DOMAIN l = 1 .. k
  BY <1>4, <1>5, LenProperties
<1>7. \A i \in 1 .. k : l[i] = s[a + i] /\ a + i \in DOMAIN s
  <2>1. ASSUME NEW i \in 1 .. k PROVE l[i] = s[a + i] /\ a + i \in DOMAIN s
    <3>1. m + i - 1 = a + i /\ a + i \in 1 .. n /\ i \in 1 .. (b - m + 1)
      BY <1>1, <1>2
    <3>2. l[i] = s[m + i - 1]
      BY <1>4, <3>1
    <3> QED  BY <1>1, <3>1, <3>2
  <2> QED  BY <2>1
<1>8. IsInjective(s) => IsInjective(l)
  <2>1. ASSUME IsInjective(s), NEW i \in 1 .. k, NEW j \in 1 .. k, l[i] = l[j] PROVE i = j
    <3>1. a + i \in DOMAIN s /\ a + j \in DOMAIN s /\ s[a + i] = s[a + j]
      BY ONLY <1>7, <2>1
    <3>2. \A u, v \in DOMAIN s : s[u] = s[v] => u = v
      BY ONLY <2>1 DEF IsInjective
    <3>3. a + i = a + j
      BY ONLY <3>1, <3>2
    <3> QED  BY <1>2, <3>3
  <2> QED  BY <1>6, <2>1 DEF IsInjective
<1> QED  BY <1>4, <1>5, <1>6, <1>7, <1>8

\* The entries at some places are different ones where all entries are.
LEMMA PlacesDiffer ==
    ASSUME NEW E, NEW s \in Seq(E), IsInjective(s), NEW K \in SUBSET (1 .. Len(s))
    PROVE  IsInjective(AtPlaces(s, K))
<1> PICK n, k, l, order : /\ n = Len(s) /\ k = Cardinality(K) /\ l = AtPlaces(s, K)
                          /\ order = Ascending(K)
  OBVIOUS
<1>1. n \in Nat /\ DOMAIN s = 1 .. n
  BY LenProperties
<1>2. IsFiniteSet(K) /\ K \subseteq Nat
  <2>1. IsFiniteSet(1 .. n)
    BY <1>1, FS_Interval
  <2>2. IsFiniteSet(K)
    BY <2>1, FS_Subset
  <2> QED  BY <1>1, <2>2
<1>3. /\ k \in Nat /\ \A i \in 1 .. k : order[i] \in K
      /\ \A i, j \in 1 .. k : i < j <=> order[i] < order[j]
  BY <1>2, AscendingLists
<1>4. DOMAIN l = 1 .. k /\ \A i \in 1 .. k : l[i] = s[order[i]]
  BY DEF AtPlaces
<1>5. ASSUME NEW i \in 1 .. k, NEW j \in 1 .. k, l[i] = l[j] PROVE i = j
  <2>1. order[i] \in 1 .. n /\ order[j] \in 1 .. n /\ s[order[i]] = s[order[j]]
    BY <1>3, <1>4, <1>5
  <2>2. order[i] = order[j]
    BY <1>1, <2>1 DEF IsInjective
  <2>3. ~(i < j) /\ ~(j < i)
    BY <1>1, <1>3, <2>1, <2>2
  <2> QED  BY <1>3, <2>3
<1> QED  BY <1>4, <1>5 DEF IsInjective

PagesGiven == pages \in SUBSET (1 .. LastPage)

LEMMA OrderedIs ==
    ASSUME PagesGiven, NEW filter
    PROVE  /\ Matching(filter) \subseteq 1 .. LastPage
           /\ Ordered(filter) \in Seq(1 .. LastPage) /\ IsInjective(Ordered(filter))
           /\ Len(Ordered(filter)) \in Nat
           /\ Len(Ordered(filter)) = Cardinality(Matching(filter))
           /\ ToSet(Ordered(filter)) = Matching(filter)
<1> PICK m, n, l : m = Matching(filter) /\ n = Cardinality(m) /\ l = Ordered(filter)
  OBVIOUS
<1>1. m \subseteq 1 .. LastPage
  BY DEF Matching, PagesGiven
<1>2. IsFiniteSet(m) /\ m \subseteq Nat
  <2>1. IsFiniteSet(1 .. LastPage)
    BY FS_Interval, WikiAssumption
  <2>2. IsFiniteSet(m)
    BY <1>1, <2>1, FS_Subset
  <2> QED  BY <1>1, <2>2, WikiAssumption
<1>3. l = Ascending(m)
  BY DEF Ordered
<1>4. /\ n \in Nat /\ l \in Seq(m) /\ Len(l) = n /\ DOMAIN l = 1 .. n
      /\ \A i \in 1 .. n : l[i] \in m
      /\ \A x \in m : \E i \in 1 .. n : l[i] = x
      /\ \A i, j \in 1 .. n : i < j <=> l[i] < l[j]
  <2>1. n = Cardinality(m)
    OBVIOUS
  <2>2. \A i, j \in 1 .. Cardinality(m) :
           i < j <=> Ascending(m)[i] < Ascending(m)[j]
    BY ONLY <1>2, AscendingLists
  <2>3. /\ Cardinality(m) \in Nat
        /\ Ascending(m) \in Seq(m) /\ Len(Ascending(m)) = Cardinality(m)
        /\ DOMAIN Ascending(m) = 1 .. Cardinality(m)
        /\ \A i \in 1 .. Cardinality(m) : Ascending(m)[i] \in m
        /\ \A x \in m : \E i \in 1 .. Cardinality(m) : Ascending(m)[i] = x
    BY ONLY <1>2, AscendingLists
  <2> QED  BY ONLY <1>3, <2>1, <2>2, <2>3
<1>5. l \in Seq(1 .. LastPage)
  BY <1>1, <1>4, SeqMonotonic
<1>6. IsInjective(l)
  <2>1. ASSUME NEW i \in 1 .. n, NEW j \in 1 .. n, l[i] = l[j] PROVE i = j
    <3>1. l[i] \in Nat /\ l[j] \in Nat
      BY <1>2, <1>4
    <3>2. ~(i < j) /\ ~(j < i)
      BY <1>4, <2>1, <3>1
    <3> QED  BY <3>2
  <2> QED  BY <1>4, <2>1 DEF IsInjective
<1>7. ToSet(l) = m
  BY <1>4 DEF ToSet
<1> QED  BY <1>1, <1>4, <1>5, <1>6, <1>7

\* The last place of the items from an offset on.
ItemsEnd(filter, offset) ==
    LET n == Len(Ordered(filter)) IN IF n < offset + PageLimit THEN n ELSE offset + PageLimit

LEMMA ItemsAre ==
    ASSUME PagesGiven, NEW filter, NEW offset \in Nat
    PROVE  /\ Items(filter, offset) = SubSeq(Ordered(filter), offset + 1, ItemsEnd(filter, offset))
           /\ Items(filter, offset) \in Seq(1 .. LastPage) /\ IsInjective(Items(filter, offset))
           /\ Following(filter, offset) \in Nat
           /\ offset <= Len(Ordered(filter)) =>
                 /\ ItemsEnd(filter, offset) \in offset .. Len(Ordered(filter))
                 /\ Following(filter, offset) # 0 =>
                       /\ Following(filter, offset) = ItemsEnd(filter, offset)
                       /\ ItemsEnd(filter, offset) < Len(Ordered(filter))
                 /\ Following(filter, offset) = 0 =>
                       ItemsEnd(filter, offset) = Len(Ordered(filter))
<1> PICK all, n, e, l, next : /\ all = Ordered(filter) /\ n = Len(all)
                              /\ e = ItemsEnd(filter, offset) /\ l = Items(filter, offset)
                              /\ next = Following(filter, offset)
  OBVIOUS
<1>1. /\ all \in Seq(1 .. LastPage) /\ IsInjective(all) /\ n \in Nat
      /\ n = Cardinality(Matching(filter))
  BY OrderedIs
<1>2. PageLimit \in Nat /\ PageLimit # 0
  BY WikiAssumption
<1>3. e = IF n < offset + PageLimit THEN n ELSE offset + PageLimit
  BY DEF ItemsEnd
<1>4. l = SubSeq(all, offset + 1, e)
  BY <1>3 DEF Items
<1>5. next = IF n > offset + PageLimit THEN offset + PageLimit ELSE 0
  BY <1>1 DEF Following
<1>6. next \in Nat
  BY <1>2, <1>5
<1>7. CASE offset <= n
  <2>1. offset \in 0 .. n /\ e \in offset .. n
    BY <1>1, <1>2, <1>3, <1>7
  <2>2. l \in Seq(1 .. LastPage) /\ IsInjective(l)
    <3>1. /\ SubSeq(all, offset + 1, e) \in Seq(1 .. LastPage)
          /\ IsInjective(all) => IsInjective(SubSeq(all, offset + 1, e))
      <4>1. e \in offset .. Len(all) /\ offset \in 0 .. Len(all)
        BY <2>1
      <4> QED  BY <1>1, <4>1, PieceIs
    <3> QED  BY <1>1, <1>4, <3>1
  <2>3. /\ next # 0 => next = e /\ e < n
        /\ next = 0 => e = n
    BY <1>1, <1>2, <1>3, <1>5, <1>7
  <2> QED  BY <1>4, <1>6, <2>1, <2>2, <2>3
<1>8. CASE ~(offset <= n)
  <2>1. offset + 1 \in Int /\ e \in Int /\ e < offset + 1
    BY <1>1, <1>2, <1>3, <1>8
  <2>2. l = <<>>
    BY <1>4, <2>1, SubSeqEmpty
  <2>3. l \in Seq(1 .. LastPage) /\ IsInjective(l)
    BY <2>2, EmptySeq DEF IsInjective
  <2> QED  BY <1>4, <1>6, <1>8, <2>3
<1> QED  BY <1>7, <1>8

LEMMA PrefixIs ==
    ASSUME NEW E, NEW all \in Seq(E), NEW e \in 0 .. Len(all)
    PROVE  IsPrefix(SubSeq(all, 1, e), all)
<1> PICK z, l : z = 0 /\ l = SubSeq(all, 1, e)
  OBVIOUS
<1>1. Len(all) \in Nat
  BY LenProperties
<1>2. z \in 0 .. Len(all) /\ e \in z .. Len(all) /\ e - z = e /\ z + 1 = 1
  BY <1>1
<1>3. SubSeq(all, z + 1, e) \in Seq(E) /\ Len(SubSeq(all, z + 1, e)) = e - z
  BY <1>2, PieceIs
<1>4. l \in Seq(E) /\ Len(l) = e
  BY <1>2, <1>3
<1>5. SubSeq(l, 1, Len(l)) = l
  BY <1>4, SubSeqFull
<1>6. IsPrefix(l, all)
  BY <1>4, <1>5 DEF IsPrefix
<1> QED  BY <1>6

LEMMA FirstGoOn ==
    ASSUME PagesGiven, NEW filter, NEW s, NEW at,
           s.list = Items(filter, 0), s.cursor = Following(filter, 0)
    PROVE  GoesOn(s, at, Ordered(filter))
<1> PICK all, n, z, e, l : /\ all = Ordered(filter) /\ n = Len(all) /\ z = 0
                           /\ e = ItemsEnd(filter, z) /\ l = SubSeq(all, 1, e)
  OBVIOUS
<1>1. all \in Seq(1 .. LastPage) /\ n \in Nat
  BY OrderedIs
<1>2. z \in Nat /\ z <= n /\ z = 0
  BY <1>1
<1>3. /\ Items(filter, z) = SubSeq(all, z + 1, e)
      /\ Following(filter, z) \in Nat
      /\ e \in z .. n
      /\ Following(filter, z) # 0 => Following(filter, z) = e /\ e < n
      /\ Following(filter, z) = 0 => e = n
  BY <1>2, ItemsAre
<1>4. s.list = l /\ s.cursor = Following(filter, z)
  <2>1. z + 1 = 1
    OBVIOUS
  <2> QED  BY <1>2, <1>3, <2>1
<1>5. IsPrefix(l, all)
  BY <1>1, <1>2, <1>3, PrefixIs
<1>6. Len(l) = e
  <2>1. Len(SubSeq(all, z + 1, e)) = e - z
    BY <1>1, <1>2, <1>3, PieceIs
  <2> QED  BY <1>1, <1>2, <1>3, <2>1
<1>7. e = n => l = all
  BY <1>1, SubSeqFull
<1> QED  BY <1>3, <1>4, <1>5, <1>6, <1>7 DEF GoesOn

\* What is added to a list.
Added(list, items) == AtPlaces(items, {i \in DOMAIN items : items[i] \notin ToSet(list)})

LEMMA AddedDiffer ==
    ASSUME NEW E, NEW list \in Seq(E), NEW items \in Seq(E),
           IsInjective(list), IsInjective(items)
    PROVE  list \o Added(list, items) \in Seq(E) /\ IsInjective(list \o Added(list, items))
<1> PICK K, t, n, m, l : /\ K = {i \in DOMAIN items : items[i] \notin ToSet(list)}
                         /\ t = AtPlaces(items, K) /\ n = Len(list) /\ m = Len(t)
                         /\ l = list \o t
  OBVIOUS
<1>1. K \in SUBSET (1 .. Len(items))
  BY LenProperties
<1>2. /\ t \in Seq(E) /\ Len(t) = Cardinality(K)
      /\ \A i \in 1 .. Cardinality(K) : \E k \in K : t[i] = items[k]
  <2>1. items \in Seq(E) /\ t = AtPlaces(items, K)
    OBVIOUS
  <2>2. /\ AtPlaces(items, K) \in Seq(E) /\ Len(AtPlaces(items, K)) = Cardinality(K)
        /\ \A i \in 1 .. Cardinality(K) : \E k \in K : AtPlaces(items, K)[i] = items[k]
    BY ONLY <1>1, <2>1, AtPlacesLists
  <2> QED  BY ONLY <2>1, <2>2
<1>3. IsInjective(t)
  BY <1>1, PlacesDiffer
<1>4. n \in Nat /\ DOMAIN list = 1 .. n /\ m \in Nat /\ DOMAIN t = 1 .. m
  BY <1>2, LenProperties
<1>5. \A i \in 1 .. m : t[i] \notin ToSet(list)
  BY <1>2
<1>6. \A i \in 1 .. n : list[i] \in ToSet(list)
  BY <1>4 DEF ToSet
<1>7. /\ l \in Seq(E) /\ Len(l) = n + m
      /\ \A i \in 1 .. n + m : l[i] = IF i <= n THEN list[i] ELSE t[i - n]
  BY <1>2, ConcatProperties
<1>8. DOMAIN l = 1 .. n + m
  BY <1>7, LenProperties
<1>9. ASSUME NEW i \in 1 .. n + m, NEW j \in 1 .. n + m, l[i] = l[j] PROVE i = j
  <2>1. CASE i <= n /\ j <= n
    <3>1. i \in 1 .. n /\ j \in 1 .. n /\ list[i] = list[j]
      BY <1>4, <1>7, <1>9, <2>1
    <3> QED  BY <1>4, <3>1 DEF IsInjective
  <2>2. CASE ~(i <= n) /\ ~(j <= n)
    <3>1. i - n \in 1 .. m /\ j - n \in 1 .. m /\ t[i - n] = t[j - n]
      BY <1>4, <1>7, <1>9, <2>2
    <3>2. i - n = j - n
      BY <1>3, <1>4, <3>1 DEF IsInjective
    <3> QED  BY <1>4, <3>2
  <2>3. CASE i <= n /\ ~(j <= n)
    <3>1. i \in 1 .. n /\ j - n \in 1 .. m /\ list[i] = t[j - n]
      BY <1>4, <1>7, <1>9, <2>3
    <3> QED  BY <1>5, <1>6, <3>1
  <2>4. CASE ~(i <= n) /\ j <= n
    <3>1. i - n \in 1 .. m /\ j \in 1 .. n /\ t[i - n] = list[j]
      BY <1>4, <1>7, <1>9, <2>4
    <3> QED  BY <1>5, <1>6, <3>1
  <2> QED  BY <2>1, <2>2, <2>3, <2>4
<1>10. IsInjective(l)
  <2>1. \A i, j \in DOMAIN l : l[i] = l[j] => i = j
    BY ONLY <1>8, <1>9
  <2> QED  BY ONLY <2>1 DEF IsInjective
<1>11. Added(list, items) = t
  BY DEF Added
<1> QED  BY <1>7, <1>10, <1>11

\* Of different entries, those after a place are not among those before.
LEMMA PiecesApart ==
    ASSUME NEW E, NEW s \in Seq(E), IsInjective(s), NEW c \in 0 .. Len(s), NEW e \in c .. Len(s)
    PROVE  \A i \in DOMAIN SubSeq(s, c + 1, e) :
               SubSeq(s, c + 1, e)[i] \notin ToSet(SubSeq(s, 1, c))
<1>1. /\ DOMAIN SubSeq(s, c + 1, e) = 1 .. (e - c)
      /\ \A i \in 1 .. (e - c) : SubSeq(s, c + 1, e)[i] = s[c + i] /\ c + i \in DOMAIN s
  BY PieceIs
<1>2. /\ DOMAIN SubSeq(s, 1, c) = 1 .. c
      /\ \A j \in 1 .. c : SubSeq(s, 1, c)[j] = s[j] /\ j \in DOMAIN s
  <2> PICK z : z = 0
    OBVIOUS
  <2>1. Len(s) \in Nat
    BY LenProperties
  <2>2. /\ z \in 0 .. Len(s) /\ c \in z .. Len(s) /\ c - z = c /\ z + 1 = 1
        /\ \A j \in 1 .. c : z + j = j
    BY <2>1
  <2>3. /\ DOMAIN SubSeq(s, z + 1, c) = 1 .. (c - z)
        /\ \A j \in 1 .. (c - z) : SubSeq(s, z + 1, c)[j] = s[z + j] /\ z + j \in DOMAIN s
    BY <2>2, PieceIs
  <2> QED  BY <2>2, <2>3
<1> PICK t, l : t = SubSeq(s, c + 1, e) /\ l = SubSeq(s, 1, c)
  OBVIOUS
<1>3. ASSUME NEW i \in 1 .. (e - c), NEW j \in 1 .. c, t[i] = l[j] PROVE FALSE
  <2>1. s[c + i] = s[j] /\ c + i \in DOMAIN s /\ j \in DOMAIN s
    BY <1>1, <1>2, <1>3
  <2>2. c + i = j
    BY <2>1 DEF IsInjective
  <2>3. Len(s) \in Nat
    BY LenProperties
  <2> QED  BY <2>2, <2>3
<1>4. ToSet(l) = {l[j] : j \in 1 .. c} /\ DOMAIN t = 1 .. (e - c)
  BY <1>1, <1>2 DEF ToSet
<1>5. \A i \in DOMAIN t : t[i] \notin ToSet(l)
  BY <1>3, <1>4
<1> QED  BY <1>5

LEMMA MoreGoOn ==
    ASSUME PagesGiven, NEW filter, NEW s, NEW t, NEW at, NEW before,
           s.list \in Seq(1 .. LastPage), s.cursor \in Nat, s.cursor # 0,
           GoesOn(s, before, Ordered(filter)),
           t.list = s.list \o Added(s.list, Items(filter, s.cursor)),
           t.cursor = Following(filter, s.cursor)
    PROVE  GoesOn(t, at, Ordered(filter))
<1> PICK E, all, n, c, e, list, items, next :
        /\ E = 1 .. LastPage /\ all = Ordered(filter) /\ n = Len(all) /\ c = s.cursor
        /\ e = ItemsEnd(filter, c) /\ list = s.list /\ items = Items(filter, c)
        /\ next = Following(filter, c)
  OBVIOUS
<1>1. all \in Seq(E) /\ IsInjective(all) /\ n \in Nat /\ DOMAIN all = 1 .. n
  <2>1. all \in Seq(E) /\ IsInjective(all) /\ n \in Nat
    BY OrderedIs
  <2> QED  BY <2>1, LenProperties
<1>2. c \in Nat /\ c < n /\ Len(list) = c /\ list \in Seq(E) /\ IsPrefix(list, all)
  BY DEF GoesOn
<1>3. /\ items = SubSeq(all, c + 1, e) /\ items \in Seq(E)
      /\ e \in c .. n
      /\ next # 0 => next = e /\ e < n
      /\ next = 0 => e = n
  <2>1. c <= Len(Ordered(filter)) /\ c \in Nat
    BY <1>1, <1>2
  <2>2. /\ Items(filter, c) = SubSeq(Ordered(filter), c + 1, ItemsEnd(filter, c))
        /\ Items(filter, c) \in Seq(1 .. LastPage)
        /\ ItemsEnd(filter, c) \in c .. Len(Ordered(filter))
        /\ Following(filter, c) # 0 =>
              /\ Following(filter, c) = ItemsEnd(filter, c)
              /\ ItemsEnd(filter, c) < Len(Ordered(filter))
        /\ Following(filter, c) = 0 => ItemsEnd(filter, c) = Len(Ordered(filter))
    BY ONLY PagesGiven, <2>1, ItemsAre
  <2>3. /\ E = 1 .. LastPage /\ all = Ordered(filter) /\ n = Len(all)
        /\ e = ItemsEnd(filter, c) /\ items = Items(filter, c) /\ next = Following(filter, c)
    OBVIOUS
  <2> QED  BY ONLY <2>2, <2>3
<1>4. list = SubSeq(all, 1, c)
  <2>1. SubSeq(list, 1, c) = list
    BY <1>2, SubSeqFull
  <2> QED  BY <1>2, <2>1 DEF IsPrefix
<1>5. c \in 0 .. n
  BY <1>1, <1>2
<1>6. \A i \in DOMAIN items : items[i] \notin ToSet(list)
  <2>1. c \in 0 .. Len(all) /\ e \in c .. Len(all)
    BY <1>3, <1>5
  <2>2. \A i \in DOMAIN SubSeq(all, c + 1, e) :
           SubSeq(all, c + 1, e)[i] \notin ToSet(SubSeq(all, 1, c))
    BY ONLY <1>1, <2>1, PiecesApart
  <2> QED  BY ONLY <1>3, <1>4, <2>2
<1>7. Added(list, items) = items
  <2>1. {i \in DOMAIN items : items[i] \notin ToSet(list)} = DOMAIN items
    BY <1>6
  <2>2. AtPlaces(items, DOMAIN items) = items
    BY <1>3, AtAllPlaces
  <2> QED  BY <2>1, <2>2 DEF Added
<1>8. t.list = SubSeq(all, 1, e)
  <2> PICK one : one = 1
    OBVIOUS
  <2>1. one \in 1 .. Len(all) + 1 /\ c \in one - 1 .. Len(all) /\ e \in c .. Len(all)
    BY <1>1, <1>2, <1>3
  <2>2. SubSeq(all, one, c) \o SubSeq(all, c + 1, e) = SubSeq(all, one, e)
    BY <1>1, <2>1, ConcatAdjacentSubSeq
  <2>3. t.list = list \o items
    BY <1>7
  <2> QED  BY <1>3, <1>4, <2>2, <2>3
<1>9. e \in 0 .. n
  BY <1>1, <1>2, <1>3
<1>10. IsPrefix(t.list, all)
  BY <1>1, <1>8, <1>9, PrefixIs
<1>11. Len(t.list) = e
  <2> PICK z : z = 0
    OBVIOUS
  <2>1. z \in 0 .. Len(all) /\ e \in z .. Len(all) /\ e - z = e /\ z + 1 = 1
    BY <1>1, <1>9
  <2>2. Len(SubSeq(all, z + 1, e)) = e - z
    BY <1>1, <2>1, PieceIs
  <2> QED  BY <1>8, <2>1, <2>2
<1>12. e = n => t.list = all
  BY <1>1, <1>8, SubSeqFull
<1>13. t.cursor = next
  OBVIOUS
<1> QED  BY <1>3, <1>10, <1>11, <1>12, <1>13 DEF GoesOn

LEMMA EmptyGoesOn ==
    ASSUME PagesGiven, NEW filter, NEW s, NEW at,
           s.list = <<>>, s.cursor = 0, s.listLoading \/ at # Selection
    PROVE  GoesOn(s, at, Ordered(filter)) /\ IsInjective(s.list)
<1> PICK all, z : all = Ordered(filter) /\ z = 0
  OBVIOUS
<1>1. all \in Seq(1 .. LastPage) /\ Len(all) \in Nat
  BY OrderedIs
<1>2. z \in 0 .. Len(all)
  BY <1>1
<1>3. IsPrefix(SubSeq(all, 1, z), all)
  BY <1>1, <1>2, PrefixIs
<1>4. SubSeq(all, 1, z) = <<>>
  <2>1. 1 \in Int /\ z \in Int /\ z < 1
    OBVIOUS
  <2> QED  BY ONLY <2>1, SubSeqEmpty
<1>5. GoesOn(s, at, all)
  BY <1>3, <1>4 DEF GoesOn
<1>6. IsInjective(s.list)
  BY DEF IsInjective
<1> QED  BY <1>5, <1>6

\* The pages of the database decide the order.
LEMMA OrderedStays == ASSUME pages' = pages, NEW filter PROVE Ordered(filter)' = Ordered(filter)
<1>1. Matching(filter)' = Matching(filter)
  BY DEF Matching
<1> QED  BY <1>1 DEF Ordered

LEMMA BeginsStill ==
    ASSUME pages' = pages, IsInjective(shell'.list),
           imports' = listedAt' => GoesOn(shell', place', Ordered(shell'.filter))
    PROVE  ListBegins'
<1> PICK filter : filter = shell'.filter
  OBVIOUS
<1>1. Ordered(filter)' = Ordered(filter)
  BY OrderedStays
<1>2. Ordered(shell.filter)' = Ordered(filter)'
  BY DEF Ordered, Matching
<1>3. imports' = listedAt' => GoesOn(shell', place', Ordered(shell.filter)')
  BY <1>1, <1>2
<1> QED  BY <1>3 DEF ListBegins

-----------------------------------------------------------------------------
(* The effects.                                                             *)

LEMMA ListEffectIs ==
    ASSUME NEW s \in WikiShellState
    PROVE  /\ ListEffect(s) \in WikiShellState
           /\ ListEffect(s).filter = s.filter /\ ListEffect(s).selected = s.selected
           /\ ListEffect(s).list = <<>> /\ ListEffect(s).cursor = 0
           /\ ListEffect(s).listLoading /\ ~ListEffect(s).failed
           /\ ListEffect(s).page = s.page /\ (ListEffect(s).loading <=> s.loading)
<1>1. <<>> \in Seq(1 .. LastPage)
  BY EmptySeq
<1> QED  BY <1>1 DEF ListEffect, WikiShellState

LEMMA PreviewEffectIs ==
    ASSUME NEW s \in WikiShellState
    PROVE  /\ PreviewEffect(s) \in WikiShellState
           /\ PreviewEffect(s).filter = s.filter /\ PreviewEffect(s).selected = s.selected
           /\ PreviewEffect(s).list = s.list /\ PreviewEffect(s).cursor = s.cursor
           /\ PreviewEffect(s).listLoading <=> s.listLoading
           /\ PreviewEffect(s).failed <=> s.failed
           /\ PreviewEffect(s).page = 0
<1>1. 0 \in 0 .. LastPage
  BY WikiAssumption
<1> QED  BY <1>1 DEF PreviewEffect, WikiShellState

LEMMA DetailEffectIs ==
    ASSUME NEW s \in WikiShellState
    PROVE  /\ DetailEffect(s) \in WikiShellState
           /\ DetailEffect(s).filter = s.filter /\ DetailEffect(s).selected = s.selected
           /\ DetailEffect(s).list = s.list /\ DetailEffect(s).cursor = s.cursor
           /\ DetailEffect(s).listLoading <=> s.listLoading
           /\ DetailEffect(s).failed <=> s.failed
           /\ DetailEffect(s).page = 0
<1>1. 0 \in 0 .. LastPage
  BY WikiAssumption
<1> QED  BY <1>1 DEF DetailEffect, WikiShellState

LEMMA ListingIs ==
    ASSUME NEW kind \in {"list", "more", "preview", "detail"}, NEW filter \in Filters,
           NEW offset \in Nat
    PROVE  /\ Listing(kind, filter, offset) \in WikiFlight
           /\ Listing(kind, filter, offset).kind = kind
           /\ Listing(kind, filter, offset).at = offset
           /\ Reading(kind, offset) \in WikiFlight
           /\ Reading(kind, offset).kind = kind /\ Reading(kind, offset).at = offset
BY DEF Listing, Reading, WikiFlight, Filters

\* Only the filter and the selection are other ones.
Chosen(s) ==
    /\ s \in WikiShellState
    /\ s.list = shell.list /\ s.cursor = shell.cursor /\ s.page = shell.page
    /\ s.listLoading <=> shell.listLoading
    /\ s.failed <=> shell.failed
    /\ s.loading <=> shell.loading

Previewed(s) == s.selected # shell.selected \/ place # Selection

LEMMA ReselectIs ==
    ASSUME ShellInv, NEW s, Chosen(s), NEW relist \in BOOLEAN, Reselect(s, relist)
    PROVE  /\ shell' \in WikiShellState /\ flights' \in SUBSET WikiFlight
           /\ shell'.filter = s.filter /\ shell'.selected = s.selected
           /\ relist => /\ shell'.list = <<>> /\ shell'.cursor = 0 /\ shell'.listLoading
                        /\ listedAt' = imports
           /\ ~relist => /\ shell'.list = shell.list /\ shell'.cursor = shell.cursor
                         /\ shell'.listLoading <=> shell.listLoading
                         /\ shell'.failed <=> shell.failed
                         /\ listedAt' = listedAt
           /\ Previewed(s) => shell'.page = 0
           /\ ~Previewed(s) => shell'.page = shell.page /\ (shell'.loading <=> shell.loading)
           /\ \A f \in flights' :
                 \/ /\ f \in flights
                    /\ relist => f.kind \notin {"list", "more"}
                    /\ Previewed(s) => f.kind # "preview"
                 \/ relist /\ f = Listing("list", s.filter, 0)
                 \/ Previewed(s) /\ s.selected # 0 /\ f = Reading("preview", s.selected)
           /\ Previewed(s) /\ s.selected # 0 => Reading("preview", s.selected) \in flights'
           /\ ~Previewed(s) => \A f \in flights : f.kind = "preview" => f \in flights'
<1> DEFINE preview == s.selected # shell.selected \/ place # Selection
<1> PICK listed : listed = IF relist THEN ListEffect(s) ELSE s
  OBVIOUS
<1>1. s \in WikiShellState /\ s.filter \in Filters /\ s.selected \in 0 .. LastPage
  BY DEF Chosen, WikiShellState
<1>2. shell' = IF preview THEN PreviewEffect(listed) ELSE listed
  BY DEF Reselect
<1>3. /\ listed \in WikiShellState
      /\ listed.filter = s.filter /\ listed.selected = s.selected
      /\ relist => listed.list = <<>> /\ listed.cursor = 0 /\ listed.listLoading
      /\ ~relist => /\ listed.list = shell.list /\ listed.cursor = shell.cursor
                    /\ listed.listLoading <=> shell.listLoading
                    /\ listed.failed <=> shell.failed
      /\ listed.page = shell.page /\ (listed.loading <=> shell.loading)
  <2>1. CASE relist
    BY <1>1, <2>1, ListEffectIs DEF Chosen
  <2>2. CASE ~relist
    BY <1>1, <2>2 DEF Chosen
  <2> QED  BY <2>1, <2>2
<1>4. /\ PreviewEffect(listed) \in WikiShellState
      /\ PreviewEffect(listed).filter = listed.filter
      /\ PreviewEffect(listed).selected = listed.selected
      /\ PreviewEffect(listed).list = listed.list /\ PreviewEffect(listed).cursor = listed.cursor
      /\ PreviewEffect(listed).listLoading <=> listed.listLoading
      /\ PreviewEffect(listed).failed <=> listed.failed
      /\ PreviewEffect(listed).page = 0
  BY <1>3, PreviewEffectIs
<1>5. /\ shell' \in WikiShellState
      /\ shell'.filter = s.filter /\ shell'.selected = s.selected
      /\ relist => shell'.list = <<>> /\ shell'.cursor = 0 /\ shell'.listLoading
      /\ ~relist => /\ shell'.list = shell.list /\ shell'.cursor = shell.cursor
                    /\ shell'.listLoading <=> shell.listLoading
                    /\ shell'.failed <=> shell.failed
      /\ preview => shell'.page = 0
      /\ ~preview => shell'.page = shell.page /\ (shell'.loading <=> shell.loading)
  <2>1. CASE preview
    <3>1. shell' = PreviewEffect(listed)
      BY <1>2, <2>1
    <3> QED  BY ONLY <1>3, <1>4, <2>1, <3>1
  <2>2. CASE ~preview
    <3>1. shell' = listed
      BY <1>2, <2>2
    <3> QED  BY ONLY <1>3, <2>2, <3>1
  <2> QED  BY <2>1, <2>2
<1>6. listedAt' = IF relist THEN imports ELSE listedAt
  BY DEF Reselect
<1>7. flights' = (flights \ ((IF relist THEN SupersededList ELSE {})
                       \cup (IF preview THEN Of({"preview"}) ELSE {})))
              \cup (IF relist THEN {Listing("list", s.filter, 0)} ELSE {})
              \cup (IF preview THEN PreviewFlights(s) ELSE {})
  BY DEF Reselect
<1>8. /\ SupersededList = {f \in flights : f.kind \in {"list", "more"}}
      /\ Of({"preview"}) = {f \in flights : f.kind \in {"preview"}}
  BY DEF SupersededList, Of
<1>9. PreviewFlights(s) = IF s.selected = 0 THEN {} ELSE {Reading("preview", s.selected)}
  BY DEF PreviewFlights
<1>10. Listing("list", s.filter, 0) \in WikiFlight /\ Reading("preview", s.selected) \in WikiFlight
  <2>1. s.selected \in Nat /\ 0 \in Nat
    BY <1>1, WikiAssumption
  <2> QED  BY <1>1, <2>1, ListingIs
<1>11. flights \in SUBSET WikiFlight
  BY DEF ShellInv
<1> PICK first, shown : /\ first = Listing("list", s.filter, 0)
                        /\ shown = Reading("preview", s.selected)
  OBVIOUS
<1>12. /\ \A f \in flights' :
                 \/ /\ f \in flights
                    /\ relist => f.kind \notin {"list", "more"}
                    /\ preview => f.kind # "preview"
                 \/ relist /\ f = first
                 \/ preview /\ s.selected # 0 /\ f = shown
       /\ preview /\ s.selected # 0 => shown \in flights'
       /\ ~preview => \A f \in flights : f.kind = "preview" => f \in flights'
  BY <1>7, <1>8, <1>9
<1>13. flights' \in SUBSET WikiFlight
  BY <1>10, <1>11, <1>12
<1>14. Previewed(s) <=> preview
  BY DEF Previewed
<1> QED  BY <1>5, <1>6, <1>12, <1>13, <1>14

LEMMA ReselectKeeps ==
    ASSUME ShellInv, NEW s, Chosen(s), NEW relist \in BOOLEAN, Reselect(s, relist),
           s.filter # shell.filter => relist, place # Selection => relist,
           place' = Selection, UNCHANGED <<pages, imports>>
    PROVE  /\ ShellInv' /\ shell'.filter = s.filter /\ shell'.selected = s.selected
           /\ shell'.page # 0 => place = Selection /\ shell'.page = shell.page
                                 /\ shell'.selected = shell.selected
<1>1. /\ shell' \in WikiShellState /\ flights' \in SUBSET WikiFlight
      /\ shell'.filter = s.filter /\ shell'.selected = s.selected
      /\ relist => /\ shell'.list = <<>> /\ shell'.cursor = 0 /\ shell'.listLoading
                   /\ listedAt' = imports
      /\ ~relist => /\ shell'.list = shell.list /\ shell'.cursor = shell.cursor
                    /\ shell'.listLoading <=> shell.listLoading
                    /\ shell'.failed <=> shell.failed
                    /\ listedAt' = listedAt
      /\ Previewed(s) => shell'.page = 0
      /\ ~Previewed(s) => shell'.page = shell.page /\ (shell'.loading <=> shell.loading)
  BY ReselectIs
<1>2. /\ \A f \in flights' :
            \/ /\ f \in flights
               /\ relist => f.kind \notin {"list", "more"}
               /\ Previewed(s) => f.kind # "preview"
            \/ relist /\ f = Listing("list", s.filter, 0)
            \/ Previewed(s) /\ s.selected # 0 /\ f = Reading("preview", s.selected)
      /\ Previewed(s) /\ s.selected # 0 => Reading("preview", s.selected) \in flights'
      /\ ~Previewed(s) => \A f \in flights : f.kind = "preview" => f \in flights'
  BY ReselectIs
<1>3. s.filter \in Filters /\ s.selected \in 0 .. LastPage /\ s.selected \in Nat /\ 0 \in Nat
  BY WikiAssumption DEF Chosen, WikiShellState
<1>4. /\ Listing("list", s.filter, 0).kind = "list"
      /\ Reading("preview", s.selected).kind = "preview"
      /\ Reading("preview", s.selected).at = s.selected
  BY <1>3, ListingIs
<1>5. AnswersFit'
  <2>1. ASSUME NEW f \in flights' PROVE FlightFits(f, shell', Selection)
    <3>1. CASE /\ f \in flights
               /\ relist => f.kind \notin {"list", "more"}
               /\ Previewed(s) => f.kind # "preview"
      <4>1. FlightFits(f, shell, place)
        BY <3>1 DEF ShellInv, AnswersFit
      <4>2. f.kind \in {"list", "more"} =>
               shell'.filter = shell.filter /\ shell'.list = shell.list
               /\ shell'.cursor = shell.cursor
        BY <1>1, <3>1
      <4>3. f.kind = "preview" => place = Selection /\ shell'.selected = shell.selected
        BY <1>1, <3>1 DEF Previewed
      <4>4. /\ f.kind = "list" => /\ f = Listing("list", shell'.filter, 0)
                                  /\ shell'.list = <<>> /\ shell'.cursor = 0
            /\ f.kind = "more" => /\ f = Listing("more", shell'.filter, shell'.cursor)
                                  /\ shell'.cursor # 0
            /\ f.kind = "preview" => f.at \in 1 .. LastPage /\ f.at = shell'.selected
            /\ f.kind = "detail" => f.at \in 1 .. Alias
        BY ONLY <4>1, <4>2, <4>3 DEF FlightFits
      <4> QED  BY ONLY <4>4 DEF FlightFits
    <3>2. CASE relist /\ f = Listing("list", s.filter, 0)
      BY <1>1, <1>4, <3>2 DEF FlightFits
    <3>3. CASE Previewed(s) /\ s.selected # 0 /\ f = Reading("preview", s.selected)
      <4>1. f.at \in 1 .. LastPage
        BY <1>3, <1>4, <3>3
      <4> QED  BY <1>1, <1>4, <3>3, <4>1 DEF FlightFits
    <3> QED  BY <1>2, <3>1, <3>2, <3>3
  <2> QED  BY <2>1 DEF AnswersFit
<1>6. PreviewAwaited'
  <2>1. ASSUME shell'.loading, shell'.selected # 0 PROVE \E f \in flights' : f.kind = "preview"
    <3>1. CASE Previewed(s)
      BY <1>1, <1>2, <1>4, <2>1, <3>1
    <3>2. CASE ~Previewed(s)
      <4>1. shell.loading /\ place = Selection /\ shell.selected # 0
        BY <1>1, <2>1, <3>2 DEF Previewed
      <4>2. \E f \in flights : f.kind = "preview"
        BY <4>1 DEF ShellInv, PreviewAwaited
      <4> QED  BY <1>2, <3>2, <4>2
    <3> QED  BY <3>1, <3>2
  <2> QED  BY <2>1 DEF PreviewAwaited
<1>7. ListBegins'
  <2>1. CASE relist
    <3>1. PagesGiven
      BY DEF ShellInv, PagesGiven
    <3>2. GoesOn(shell', place', Ordered(shell'.filter)) /\ IsInjective(shell'.list)
      BY <1>1, <2>1, <3>1, EmptyGoesOn
    <3> QED  BY <3>2, BeginsStill
  <2>2. CASE ~relist
    <3>1. /\ shell'.filter = shell.filter /\ shell'.list = shell.list
          /\ shell'.cursor = shell.cursor /\ listedAt' = listedAt /\ place = Selection
          /\ shell'.listLoading <=> shell.listLoading
          /\ shell'.failed <=> shell.failed
      BY <1>1, <2>2
    <3>2. ListBegins
      BY DEF ShellInv
    <3>4. IsInjective(shell'.list)
      BY <3>1, <3>2 DEF ListBegins
    <3>5. imports = listedAt => GoesOn(shell', Selection, Ordered(shell.filter))
      <4>1. imports = listedAt => GoesOn(shell, Selection, Ordered(shell.filter))
        BY <3>1, <3>2 DEF ListBegins
      <4> QED  BY ONLY <3>1, <4>1 DEF GoesOn
    <3>6. imports' = listedAt' => GoesOn(shell', place', Ordered(shell'.filter))
      BY <3>1, <3>5
    <3> QED  BY <3>4, <3>6, BeginsStill
  <2> QED  BY <2>1, <2>2
<1>8. ShellInv'
  <2>1. listedAt' \in Nat /\ listedAt' <= imports'
    BY <1>1 DEF ShellInv
  <2>2. Selection \in WikiRoutes
    BY WikiAssumption DEF Selection, WikiRoutes, Alias
  <2> QED  BY <1>1, <1>5, <1>6, <1>7, <2>1, <2>2 DEF ShellInv
<1>9. shell'.page # 0 => place = Selection /\ shell'.page = shell.page
                         /\ shell'.selected = shell.selected
  BY <1>1 DEF Previewed
<1> QED  BY <1>1, <1>8, <1>9

-----------------------------------------------------------------------------
(* What the user does.                                                     *)

LEMMA EntryIs ==
    ASSUME AddressInv, NEW at \in DOMAIN visited
    PROVE  /\ visited[at] \in WikiEntry /\ visited[at].route \in WikiRoutes
           /\ visited[at].selection \in WikiSelection \cup {NoSelection}
           /\ visited[at].route = Selection => visited[at].selection \in WikiSelection
<1>1. visited \in Seq(WikiEntry)
  BY DEF AddressInv
<1>2. at \in 1 .. Len(visited)
  BY <1>1, LenProperties
<1>3. visited[at] \in WikiEntry
  BY <1>1, <1>2, ElementOfSeq
<1> QED  BY <1>3 DEF WikiEntry

LEMMA ReplacedIs ==
    ASSUME AddressInv, NEW e \in WikiEntry
    PROVE  /\ [visited EXCEPT ![entry] = e] \in Seq(WikiEntry)
           /\ entry \in DOMAIN [visited EXCEPT ![entry] = e]
           /\ [visited EXCEPT ![entry] = e][entry] = e
<1>1. visited \in Seq(WikiEntry) /\ entry \in DOMAIN visited
  BY DEF AddressInv
<1>2. entry \in 1 .. Len(visited)
  BY <1>1, LenProperties
<1>3. [visited EXCEPT ![entry] = e] \in Seq(WikiEntry)
  BY <1>1, <1>2, ExceptSeq
<1> QED  BY <1>1, <1>3

\* The selection of a state is what an entry may have.
LEMMA SelectionIs ==
    ASSUME NEW s \in WikiShellState
    PROVE  /\ SelectionOf(s) \in WikiSelection
           /\ Entry(Selection, SelectionOf(s)) \in WikiEntry
           /\ Entry(Selection, SelectionOf(s)).route = Selection
<1>1. SelectionOf(s) \in WikiSelection
  BY DEF SelectionOf, WikiSelection, WikiShellState
<1>2. Selection \in WikiRoutes
  BY WikiAssumption DEF Selection, WikiRoutes, Alias
<1> QED  BY <1>1, <1>2 DEF Entry, WikiEntry

\* A step to the selection, or in it: the page that is shown was selected.
LEMMA SelectionKeeps ==
    ASSUME WikiInv, ShellInv', place' = Selection, crossed' = crossed,
           visited' \in Seq(WikiEntry), entry' \in DOMAIN visited',
           \/ visited'[entry'].route = Selection
           \/ visited'[entry'] = visited[entry] /\ place = Selection,
           shell'.page # 0 => place = Selection /\ shell'.page = shell.page
                              /\ shell'.selected = shell.selected
    PROVE  WikiInv'
<1>1. AddressAgrees /\ crossed \in BOOLEAN
  BY DEF WikiInv, AddressInv
<1>2. Selection \notin 1 .. LastPage /\ Selection # Alias
  BY WikiAssumption DEF Selection, Alias
<1>3. ASSUME ~crossed PROVE visited'[entry'].route = Selection
  BY <1>1, <1>3 DEF AddressAgrees
<1>4. ASSUME ~crossed, shell'.page # 0 PROVE shell'.page = shell'.selected
  BY <1>1, <1>4 DEF AddressAgrees
<1>5. AddressAgrees'
  BY <1>2, <1>3, <1>4 DEF AddressAgrees
<1> QED  BY <1>1, <1>5 DEF WikiInv, AddressInv

\* The same for a step that writes the selection to the address.
LEMMA ChosenKeeps ==
    ASSUME WikiInv, NEW s, Chosen(s), NEW relist \in BOOLEAN, Reselect(s, relist),
           s.filter # shell.filter => relist, place # Selection => relist,
           place' = Selection, UNCHANGED <<pages, imports, crossed, entry>>,
           visited' = Replaced(entry, Selection, SelectionOf(shell'))
    PROVE  WikiInv'
<1>1. /\ ShellInv'
      /\ shell'.page # 0 => place = Selection /\ shell'.page = shell.page
                            /\ shell'.selected = shell.selected
  BY ReselectKeeps DEF WikiInv
<1>2. shell' \in WikiShellState
  BY <1>1 DEF ShellInv
<1> PICK e : e = Entry(Selection, SelectionOf(shell'))
  OBVIOUS
<1>3. e \in WikiEntry /\ e.route = Selection
  BY <1>2, SelectionIs
<1>4. visited' = [visited EXCEPT ![entry] = e]
  BY DEF Replaced
<1>5. AddressInv
  BY DEF WikiInv
<1>6. /\ [visited EXCEPT ![entry] = e] \in Seq(WikiEntry)
      /\ entry \in DOMAIN [visited EXCEPT ![entry] = e]
      /\ [visited EXCEPT ![entry] = e][entry] = e
  BY <1>3, <1>5, ReplacedIs
<1>7. /\ visited' \in Seq(WikiEntry) /\ entry' \in DOMAIN visited'
      /\ visited'[entry'].route = Selection
  BY <1>3, <1>4, <1>6
<1> QED  BY <1>1, <1>7, SelectionKeeps

LEMMA ShellIs ==
    ASSUME ShellInv
    PROVE  /\ shell \in WikiShellState /\ Chosen(shell)
           /\ shell.filter \in Filters /\ shell.selected \in 0 .. LastPage
           /\ shell.list \in Seq(1 .. LastPage) /\ shell.cursor \in Nat
           /\ ToSet(shell.list) \subseteq 1 .. LastPage
<1>1. shell \in WikiShellState
  BY DEF ShellInv
<1>2. /\ shell.filter \in Filters /\ shell.selected \in 0 .. LastPage
      /\ shell.list \in Seq(1 .. LastPage) /\ shell.cursor \in Nat
  BY <1>1 DEF WikiShellState
<1> PICK l : l = shell.list
  OBVIOUS
<1>3. l \in Seq(1 .. LastPage)
  BY <1>2
<1>4. DOMAIN l = 1 .. Len(l) /\ \A i \in 1 .. Len(l) : l[i] \in 1 .. LastPage
  BY <1>3, LenProperties, ElementOfSeq
<1>5. ToSet(l) \subseteq 1 .. LastPage
  BY <1>4 DEF ToSet
<1> QED  BY <1>1, <1>2, <1>5 DEF Chosen

\* Another filter and another selection.
LEMMA ChosenIs ==
    ASSUME ShellInv, NEW filter \in Filters, NEW p \in 0 .. LastPage
    PROVE  /\ Chosen([shell EXCEPT !.filter = filter])
           /\ [shell EXCEPT !.filter = filter].filter = filter
           /\ Chosen([shell EXCEPT !.selected = p])
           /\ [shell EXCEPT !.selected = p].filter = shell.filter
           /\ Chosen([shell EXCEPT !.filter = filter, !.selected = p])
           /\ [shell EXCEPT !.filter = filter, !.selected = p].filter = filter
BY ShellIs DEF Chosen, WikiShellState

LEMMA FilterKeeps ==
    ASSUME WikiInv, NEW filter \in Filters, ChooseFilter(filter),
           UNCHANGED <<pages, imports, crossed>>
    PROVE  WikiInv'
<1> PICK s : s = [shell EXCEPT !.filter = filter]
  OBVIOUS
<1>1. Chosen(s) /\ s.filter = filter
  <2>1. ShellInv /\ 0 \in 0 .. LastPage
    BY WikiAssumption DEF WikiInv
  <2> QED  BY <2>1, ChosenIs
<1>2. /\ place = Selection /\ Reselect(s, TRUE) /\ place' = place /\ entry' = entry
      /\ visited' = Replaced(entry, Selection, SelectionOf(shell'))
  BY DEF ChooseFilter
<1> QED  BY <1>1, <1>2, ChosenKeeps

LEMMA SelectKeeps ==
    ASSUME WikiInv, NEW p \in ToSet(shell.list), SelectPage(p),
           UNCHANGED <<pages, imports, crossed>>
    PROVE  WikiInv'
<1> PICK s : s = [shell EXCEPT !.selected = p]
  OBVIOUS
<1>1. Chosen(s) /\ s.filter = shell.filter
  <2>1. ShellInv
    BY DEF WikiInv
  <2>2. p \in 0 .. LastPage /\ shell.filter \in Filters
    BY <2>1, ShellIs, WikiAssumption
  <2> QED  BY <2>1, <2>2, ChosenIs
<1>2. /\ place = Selection /\ Reselect(s, FALSE) /\ place' = place /\ entry' = entry
      /\ visited' = Replaced(entry, Selection, SelectionOf(shell'))
  BY DEF SelectPage
<1> QED  BY <1>1, <1>2, ChosenKeeps

LEMMA RetryKeeps ==
    ASSUME WikiInv, RetryList, UNCHANGED <<pages, imports, crossed>>
    PROVE  WikiInv'
<1>1. /\ place = Selection /\ Reselect(shell, TRUE) /\ place' = place /\ entry' = entry
      /\ visited' = visited
  BY DEF RetryList
<1>2. ShellInv /\ Chosen(shell)
  BY ShellIs DEF WikiInv
<1>3. /\ ShellInv'
      /\ shell'.page # 0 => place = Selection /\ shell'.page = shell.page
                            /\ shell'.selected = shell.selected
  BY <1>1, <1>2, ReselectKeeps
<1>4. visited' \in Seq(WikiEntry) /\ entry' \in DOMAIN visited'
  BY <1>1 DEF WikiInv, AddressInv
<1> QED  BY <1>1, <1>3, <1>4, SelectionKeeps

LEMMA ReturnKeeps ==
    ASSUME WikiInv, ReturnToSelection, UNCHANGED <<pages, imports, crossed>>
    PROVE  WikiInv'
<1>1. /\ place' = Selection /\ Reselect(shell, TRUE) /\ entry' = entry
      /\ visited' = Replaced(entry, Selection, SelectionOf(shell))
  BY DEF ReturnToSelection, EnterSelection
<1>2. ShellInv /\ Chosen(shell)
  BY ShellIs DEF WikiInv
<1>3. shell'.filter = shell.filter /\ shell'.selected = shell.selected
  BY <1>1, <1>2, ReselectKeeps
<1>4. visited' = Replaced(entry, Selection, SelectionOf(shell'))
  BY <1>1, <1>3 DEF SelectionOf
<1> QED  BY <1>1, <1>2, <1>4, ChosenKeeps

LEMMA MoreKeeps ==
    ASSUME WikiInv, LoadMore, UNCHANGED <<pages, imports, crossed>>
    PROVE  WikiInv'
<1> PICK new : new = Listing("more", shell.filter, shell.cursor)
  OBVIOUS
<1>1. /\ shell.cursor # 0 /\ shell' = [shell EXCEPT !.more = TRUE]
      /\ flights' = flights \cup {new}
      /\ UNCHANGED <<visited, entry, place, listedAt>>
  BY DEF LoadMore
<1>2. ShellInv /\ AddressInv
  BY DEF WikiInv
<1>3. shell \in WikiShellState /\ shell.filter \in Filters /\ shell.cursor \in Nat
  BY <1>2, ShellIs
<1>4. /\ shell' \in WikiShellState
      /\ shell'.filter = shell.filter /\ shell'.selected = shell.selected
      /\ shell'.list = shell.list /\ shell'.cursor = shell.cursor /\ shell'.page = shell.page
      /\ shell'.listLoading <=> shell.listLoading
      /\ shell'.failed <=> shell.failed
      /\ shell'.loading <=> shell.loading
  BY <1>1, <1>3 DEF WikiShellState
<1>5. new \in WikiFlight /\ new.kind = "more"
  BY <1>3, ListingIs
<1>6. AnswersFit'
  <2>1. ASSUME NEW f \in flights PROVE FlightFits(f, shell', place)
    <3>1. FlightFits(f, shell, place)
      BY <1>2 DEF ShellInv, AnswersFit
    <3> QED  BY ONLY <1>4, <3>1 DEF FlightFits
  <2>2. FlightFits(new, shell', place)
    BY <1>1, <1>4, <1>5 DEF FlightFits
  <2> QED  BY <1>1, <2>1, <2>2 DEF AnswersFit
<1>7. PreviewAwaited'
  BY <1>1, <1>2, <1>4 DEF ShellInv, PreviewAwaited
<1>8. ListBegins'
  <2>1. ListBegins
    BY <1>2 DEF ShellInv
  <2>2. IsInjective(shell'.list)
    BY <1>4, <2>1 DEF ListBegins
  <2>3. imports' = listedAt' => GoesOn(shell', place', Ordered(shell'.filter))
    BY <1>1, <1>4, <2>1 DEF ListBegins, GoesOn
  <2> QED  BY <2>2, <2>3, BeginsStill
<1>9. AddressInv'
  BY <1>1, <1>2, <1>4 DEF AddressInv, AddressAgrees
<1>10. ShellInv'
  BY <1>1, <1>2, <1>4, <1>5, <1>6, <1>7, <1>8 DEF ShellInv
<1> QED  BY <1>9, <1>10 DEF WikiInv

\* The end of a list that is kept stays where it is.
LEMMA BeginsAlike ==
    ASSUME ShellInv, UNCHANGED <<pages, imports, listedAt>>,
           shell'.filter = shell.filter, shell'.list = shell.list, shell'.cursor = shell.cursor,
           place' # Selection
    PROVE  ListBegins'
<1>1. ListBegins
  BY DEF ShellInv
<1>2. IsInjective(shell'.list)
  BY <1>1 DEF ListBegins
<1>3. imports' = listedAt' => GoesOn(shell', place', Ordered(shell'.filter))
  <2>1. imports = listedAt => GoesOn(shell, place, Ordered(shell.filter))
    BY <1>1 DEF ListBegins
  <2> QED  BY <2>1 DEF GoesOn
<1> QED  BY <1>2, <1>3, BeginsStill

LEMMA DetailKeeps ==
    ASSUME WikiInv, NEW route \in 1 .. Alias, EnterDetail(route),
           UNCHANGED <<pages, imports, crossed>>,
           visited' \in Seq(WikiEntry), entry' \in DOMAIN visited', visited'[entry'].route = route
    PROVE  WikiInv'
<1> PICK new : new = Reading("detail", route)
  OBVIOUS
<1>1. /\ place' = route /\ shell' = DetailEffect(shell) /\ listedAt' = listedAt
      /\ flights' = (flights \ Of({"list", "detail"})) \cup Outdated \cup {new}
  BY DEF EnterDetail
<1>2. ShellInv /\ AddressInv
  BY DEF WikiInv
<1>3. shell \in WikiShellState
  BY <1>2, ShellIs
<1>4. /\ shell' \in WikiShellState
      /\ shell'.filter = shell.filter /\ shell'.selected = shell.selected
      /\ shell'.list = shell.list /\ shell'.cursor = shell.cursor /\ shell'.page = 0
  BY <1>1, <1>3, DetailEffectIs
<1>5. Selection = 0 /\ Alias = LastPage + 1 /\ LastPage \in Nat /\ LastPage # 0
  BY WikiAssumption DEF Selection, Alias
<1>6. route \in WikiRoutes /\ route # Selection /\ route \in Nat
  BY <1>5 DEF WikiRoutes
<1>7. new \in WikiFlight /\ new.kind = "detail" /\ new.at = route
  <2>1. "any" \in Filters
    BY DEF Filters
  <2> QED  BY <1>6, <2>1, ListingIs
<1>8. ASSUME NEW f \in Of({"detail"})
      PROVE  /\ f \in flights /\ f.kind = "detail"
             /\ [f EXCEPT !.current = FALSE] \in WikiFlight
             /\ [f EXCEPT !.current = FALSE].kind = "detail"
             /\ [f EXCEPT !.current = FALSE].at = f.at
             /\ ~[f EXCEPT !.current = FALSE].current
  <2>1. f \in flights /\ f.kind = "detail"
    BY <1>8 DEF Of
  <2>2. f \in WikiFlight
    BY <1>2, <2>1 DEF ShellInv
  <2> QED  BY <2>1, <2>2 DEF WikiFlight
<1>9. Outdated = {[f EXCEPT !.current = FALSE] : f \in Of({"detail"})}
  BY DEF Outdated
<1>10. \A f \in flights' : \/ f \in flights /\ f.kind \notin {"list", "detail"}
                           \/ \E d \in Of({"detail"}) : f = [d EXCEPT !.current = FALSE]
                           \/ f = new
  BY <1>1, <1>9 DEF Of
<1>11. AnswersFit'
  <2>1. ASSUME NEW f \in flights' PROVE FlightFits(f, shell', route)
    <3>1. CASE f \in flights /\ f.kind \notin {"list", "detail"}
      <4>1. FlightFits(f, shell, place)
        BY <1>2, <3>1 DEF ShellInv, AnswersFit
      <4> QED  BY <1>4, <1>6, <3>1, <4>1 DEF FlightFits
    <3>2. ASSUME NEW d \in Of({"detail"}), f = [d EXCEPT !.current = FALSE]
          PROVE  FlightFits(f, shell', route)
      <4>1. /\ d \in flights /\ d.kind = "detail"
            /\ f.kind = "detail" /\ f.at = d.at /\ ~f.current
        BY <1>8, <3>2
      <4>2. FlightFits(d, shell, place)
        BY <1>2, <4>1 DEF ShellInv, AnswersFit
      <4>3. f.at \in 1 .. Alias
        BY <4>1, <4>2 DEF FlightFits
      <4> QED  BY <4>1, <4>3 DEF FlightFits
    <3>3. CASE f = new
      BY <1>7, <3>3 DEF FlightFits
    <3> QED  BY <1>10, <3>1, <3>2, <3>3
  <2> QED  BY <1>1, <2>1 DEF AnswersFit
<1>12. flights' \in SUBSET WikiFlight
  <2>1. flights \in SUBSET WikiFlight
    BY <1>2 DEF ShellInv
  <2> QED  BY <1>7, <1>8, <1>10, <2>1
<1>13. PreviewAwaited'
  BY <1>1, <1>6 DEF PreviewAwaited
<1>14. ListBegins'
  BY <1>1, <1>2, <1>4, <1>6, BeginsAlike
<1>15. ShellInv'
  BY <1>1, <1>2, <1>4, <1>6, <1>11, <1>12, <1>13, <1>14 DEF ShellInv
<1>16. AddressInv'
  <2>1. AddressAgrees'
    BY <1>1, <1>4, <1>6 DEF AddressAgrees
  <2>2. crossed' \in BOOLEAN
    BY <1>2 DEF AddressInv
  <2> QED  BY <2>1, <2>2 DEF AddressInv
<1> QED  BY <1>15, <1>16 DEF WikiInv

LEMMA OpenKeeps ==
    ASSUME WikiInv, OpenDetail, UNCHANGED <<pages, imports, crossed>>
    PROVE  WikiInv'
<1> PICK e, begin, p : e = Entry(shell.selected, SelectionOf(shell))
                       /\ begin = SubSeq(visited, 1, entry) /\ p = shell.selected
  OBVIOUS
<1>1. /\ p \in ToSet(shell.list)
      /\ visited' = Append(begin, e) /\ entry' = entry + 1 /\ EnterDetail(p)
  BY DEF OpenDetail
<1>2. ShellInv /\ visited \in Seq(WikiEntry) /\ entry \in DOMAIN visited
  BY DEF WikiInv, AddressInv
<1>3. shell \in WikiShellState /\ ToSet(shell.list) \subseteq 1 .. LastPage
  BY <1>2, ShellIs
<1>4. p \in 1 .. LastPage /\ p \in 1 .. Alias /\ p \in WikiRoutes /\ p # Selection
  <2>1. p \in 1 .. LastPage
    BY <1>1, <1>3
  <2> QED  BY <2>1, WikiAssumption DEF Alias, WikiRoutes, Selection
<1>5. e \in WikiEntry /\ e.route = p
  <2>1. SelectionOf(shell) \in WikiSelection
    BY <1>3, SelectionIs
  <2> QED  BY <1>4, <2>1 DEF Entry, WikiEntry
<1>6. begin \in Seq(WikiEntry) /\ Len(begin) = entry /\ entry \in Nat
  <2> PICK z : z = 0
    OBVIOUS
  <2>1. DOMAIN visited = 1 .. Len(visited) /\ Len(visited) \in Nat
    BY <1>2, LenProperties
  <2>2. /\ z \in 0 .. Len(visited) /\ entry \in z .. Len(visited) /\ entry - z = entry
        /\ z + 1 = 1 /\ entry \in Nat
    BY <1>2, <2>1
  <2>3. /\ SubSeq(visited, z + 1, entry) \in Seq(WikiEntry)
        /\ Len(SubSeq(visited, z + 1, entry)) = entry - z
    BY <1>2, <2>2, PieceIs
  <2> QED  BY <2>2, <2>3
<1>7. /\ Append(begin, e) \in Seq(WikiEntry) /\ Len(Append(begin, e)) = entry + 1
      /\ Append(begin, e)[Len(begin) + 1] = e
  BY <1>5, <1>6, AppendProperties
<1>8. DOMAIN Append(begin, e) = 1 .. (entry + 1)
  BY <1>7, LenProperties
<1>9. /\ visited' \in Seq(WikiEntry) /\ entry' \in DOMAIN visited'
      /\ visited'[entry'].route = p
  <2>1. entry + 1 \in 1 .. (entry + 1)
    BY <1>6
  <2> QED  BY <1>1, <1>5, <1>6, <1>7, <1>8, <2>1
<1> QED  BY <1>1, <1>4, <1>9, DetailKeeps

LEMMA TravelKeeps ==
    ASSUME WikiInv, NEW to, Travel(to), UNCHANGED <<pages, imports, crossed>>
    PROVE  WikiInv'
<1> PICK e, s : e = visited[to]
                /\ s = [shell EXCEPT !.filter = e.selection.filter,
                                     !.selected = e.selection.selected]
  OBVIOUS
<1>1. /\ to \in DOMAIN visited /\ entry' = to /\ visited' = visited
      /\ IF e.route = Selection
         THEN IF place = Selection
              THEN Reselect(s, s.filter # shell.filter) /\ place' = place
              ELSE place' = Selection /\ Reselect(s, TRUE)
         ELSE EnterDetail(e.route)
  BY DEF Travel, EnterSelection
<1>2. ShellInv /\ AddressInv
  BY DEF WikiInv
<1>3. /\ e.route \in WikiRoutes
      /\ e.route = Selection => e.selection \in WikiSelection
  BY <1>1, <1>2, EntryIs
<1>4. /\ visited' \in Seq(WikiEntry) /\ entry' \in DOMAIN visited'
      /\ visited'[entry'].route = e.route
  BY <1>1, <1>2 DEF AddressInv
<1>5. CASE e.route = Selection
  <2>1. e.selection.filter \in Filters /\ e.selection.selected \in 0 .. LastPage
    BY <1>3, <1>5 DEF WikiSelection
  <2>2. Chosen(s)
    BY <1>2, <2>1, ChosenIs
  <2>3. PICK relist \in BOOLEAN : /\ Reselect(s, relist) /\ place' = Selection
                                  /\ s.filter # shell.filter => relist
                                  /\ place # Selection => relist
    <3>1. CASE place = Selection
      <4>1. Reselect(s, s.filter # shell.filter) /\ place' = Selection
        BY <1>1, <1>5, <3>1
      <4>2. (s.filter # shell.filter) \in BOOLEAN
        OBVIOUS
      <4> QED  BY <3>1, <4>1, <4>2
    <3>2. CASE place # Selection
      <4>1. Reselect(s, TRUE) /\ place' = Selection
        BY <1>1, <1>5, <3>2
      <4> QED  BY <3>2, <4>1
    <3> QED  BY <3>1, <3>2
  <2>4. /\ ShellInv'
        /\ shell'.page # 0 => place = Selection /\ shell'.page = shell.page
                              /\ shell'.selected = shell.selected
    BY <1>2, <2>2, <2>3, ReselectKeeps
  <2> QED  BY <1>4, <1>5, <2>3, <2>4, SelectionKeeps
<1>6. CASE e.route # Selection
  <2>1. e.route \in 1 .. Alias
    BY <1>3, <1>6, WikiAssumption DEF WikiRoutes, Selection, Alias
  <2> QED  BY <1>1, <1>4, <1>6, <2>1, DetailKeeps
<1> QED  BY <1>5, <1>6

\* WikiShell when it is mounted.
LEMMA ShellStarts ==
    ASSUME NEW state \in WikiSelection \cup {NoSelection}
    PROVE  /\ Shell0(state) \in WikiShellState
           /\ Shell0(state).list = <<>> /\ Shell0(state).cursor = 0 /\ Shell0(state).page = 0
           /\ ~Shell0(state).loading
<1> PICK selection : selection = IF state = NoSelection THEN AtFirst ELSE state
  OBVIOUS
<1>1. selection \in WikiSelection
  <2>1. AtFirst \in WikiSelection
    <3>1. "character" \in Filters /\ 0 \in 0 .. LastPage
      BY WikiAssumption DEF Filters
    <3> QED  BY <3>1 DEF AtFirst, WikiSelection
  <2> QED  BY <2>1
<1>2. <<>> \in Seq(1 .. LastPage) /\ 0 \in 0 .. LastPage /\ 0 \in Nat
  BY EmptySeq, WikiAssumption
<1> PICK s : s = [filter |-> selection.filter, selected |-> selection.selected, list |-> <<>>,
                  cursor |-> 0, listLoading |-> FALSE, more |-> FALSE, failed |-> FALSE,
                  page |-> 0, loading |-> FALSE]
  OBVIOUS
<1>3. selection.filter \in Filters /\ selection.selected \in 0 .. LastPage
  BY <1>1 DEF WikiSelection
<1>4. s \in WikiShellState /\ s.list = <<>> /\ s.cursor = 0 /\ s.page = 0 /\ ~s.loading
  BY <1>2, <1>3 DEF WikiShellState
<1>5. Shell0(state) = s
  BY DEF Shell0
<1> QED  BY <1>4, <1>5

LEMMA WikiStarts ==
    ASSUME NEW routes, routes \subseteq WikiRoutes, BrowserInit(routes)
    PROVE  WikiInv
<1> PICK s, e, route : /\ route \in routes /\ s = Shell0(AtFirst)
          /\ e = Entry(route, IF route = Selection THEN AtFirst ELSE NoSelection)
          /\ visited = <<e>> /\ place = route
          /\ shell = (IF route = Selection THEN ListEffect(s) ELSE DetailEffect(s))
          /\ flights = {IF route = Selection THEN Listing("list", "character", 0)
                        ELSE Reading("detail", route)}
  BY DEF BrowserInit
<1>1. /\ pages = 1 .. LastPage /\ entry = 1 /\ imports = 0 /\ listedAt = 0 /\ crossed = FALSE
  BY DEF BrowserInit
<1>2. Selection = 0 /\ Alias = LastPage + 1 /\ LastPage \in Nat /\ LastPage # 0
  BY WikiAssumption DEF Selection, Alias
<1>3. AtFirst \in WikiSelection /\ AtFirst.filter = "character" /\ AtFirst.selected = 0
  <2>1. "character" \in Filters /\ 0 \in 0 .. LastPage
    BY WikiAssumption DEF Filters
  <2> QED  BY <2>1 DEF AtFirst, WikiSelection
<1>4. s \in WikiShellState /\ s.list = <<>> /\ s.cursor = 0 /\ s.page = 0 /\ ~s.loading
  BY <1>3, ShellStarts
<1>5. s.filter = "character" /\ s.selected = 0
  <2>1. AtFirst # NoSelection
    BY DEF AtFirst, NoSelection
  <2> QED  BY <1>3, <2>1 DEF Shell0
<1>6. route \in WikiRoutes /\ (route # Selection => route \in 1 .. Alias) /\ route \in Nat
  BY <1>2 DEF WikiRoutes
<1>7. e \in WikiEntry /\ e.route = route
  BY <1>3, <1>6 DEF Entry, WikiEntry
<1>8. visited \in Seq(WikiEntry) /\ DOMAIN visited = {1} /\ visited[entry] = e
  <2>1. <<e>> \in Seq(WikiEntry)
    BY <1>7
  <2> QED  BY <1>1, <2>1
<1>9. /\ shell \in WikiShellState /\ shell.filter = "character" /\ shell.selected = 0
      /\ shell.list = <<>> /\ shell.cursor = 0 /\ shell.page = 0
      /\ route = Selection => shell.listLoading /\ ~shell.loading
  <2>1. CASE route = Selection
    <3>1. shell = ListEffect(s)
      BY <2>1
    <3> QED  BY <1>4, <1>5, <3>1, ListEffectIs
  <2>2. CASE route # Selection
    <3>1. shell = DetailEffect(s)
      BY <2>2
    <3> QED  BY <1>4, <1>5, <2>2, <3>1, DetailEffectIs
  <2> QED  BY <2>1, <2>2
<1>10. \A f \in flights : f \in WikiFlight /\ FlightFits(f, shell, place)
  <2>1. "character" \in Filters /\ 0 \in Nat
    BY DEF Filters
  <2>2. CASE route = Selection
    <3>1. flights = {Listing("list", "character", 0)}
      BY <2>2
    <3>2. /\ Listing("list", "character", 0) \in WikiFlight
          /\ Listing("list", "character", 0).kind = "list"
      BY <2>1, ListingIs
    <3> QED  BY <1>9, <2>2, <3>1, <3>2 DEF FlightFits
  <2>3. CASE route # Selection
    <3>1. flights = {Reading("detail", route)}
      BY <2>3
    <3>2. /\ Reading("detail", route) \in WikiFlight
          /\ Reading("detail", route).kind = "detail" /\ Reading("detail", route).at = route
      BY <1>6, <2>1, ListingIs
    <3> QED  BY <1>6, <2>3, <3>1, <3>2 DEF FlightFits
  <2> QED  BY <2>2, <2>3
<1>11. PreviewAwaited
  BY <1>9 DEF PreviewAwaited
<1>12. ListBegins
  <2>1. PagesGiven
    BY <1>1 DEF PagesGiven
  <2>2. shell.listLoading \/ place # Selection
    BY <1>9
  <2>3. GoesOn(shell, place, Ordered(shell.filter)) /\ IsInjective(shell.list)
    BY <1>9, <2>1, <2>2, EmptyGoesOn
  <2> QED  BY <2>3 DEF ListBegins
<1>13. ShellInv
  BY <1>1, <1>6, <1>9, <1>10, <1>11, <1>12 DEF ShellInv, AnswersFit
<1>14. AddressInv
  <2>1. AddressAgrees
    BY <1>2, <1>7, <1>8, <1>9 DEF AddressAgrees
  <2> QED  BY <1>1, <1>8, <2>1 DEF AddressInv
<1> QED  BY <1>13, <1>14 DEF WikiInv

LEMMA ReloadKeeps ==
    ASSUME WikiInv, Reload, UNCHANGED <<pages, imports, crossed>>
    PROVE  WikiInv'
<1> PICK s, e : e = visited[entry] /\ s = Shell0(e.selection)
  OBVIOUS
<1>1. /\ place' = e.route /\ visited' = visited /\ entry' = entry /\ listedAt' = imports
      /\ IF e.route = Selection
         THEN /\ shell' = PreviewEffect(ListEffect(s))
              /\ flights' = {Listing("list", s.filter, 0)} \cup PreviewFlights(s)
         ELSE /\ shell' = DetailEffect(s)
              /\ flights' = {Reading("detail", e.route)}
  BY DEF Reload
<1>2. Selection = 0 /\ Alias = LastPage + 1 /\ LastPage \in Nat /\ LastPage # 0
  BY WikiAssumption DEF Selection, Alias
<1>3. ShellInv /\ AddressInv /\ entry \in DOMAIN visited
  BY DEF WikiInv, AddressInv
<1>4. e.route \in WikiRoutes /\ e.selection \in WikiSelection \cup {NoSelection}
  BY <1>3, EntryIs
<1>5. s \in WikiShellState /\ s.list = <<>> /\ s.cursor = 0 /\ s.page = 0
  BY <1>4, ShellStarts
<1>6. /\ s.filter \in Filters /\ s.selected \in 0 .. LastPage
      /\ s.selected \in Nat /\ 0 \in Nat
  BY <1>2, <1>5 DEF WikiShellState
<1>7. (e.route # Selection => e.route \in 1 .. Alias) /\ e.route \in Nat
  BY <1>2, <1>4 DEF WikiRoutes
<1>8. /\ shell' \in WikiShellState /\ shell'.filter = s.filter /\ shell'.selected = s.selected
      /\ shell'.list = <<>> /\ shell'.cursor = 0 /\ shell'.page = 0
      /\ e.route = Selection => shell'.listLoading
  <2>1. CASE e.route = Selection
    <3> PICK l : l = ListEffect(s)
      OBVIOUS
    <3>1. /\ l \in WikiShellState /\ l.filter = s.filter /\ l.selected = s.selected
          /\ l.list = <<>> /\ l.cursor = 0 /\ l.listLoading
      BY <1>5, ListEffectIs
    <3>2. shell' = PreviewEffect(l)
      BY <1>1, <2>1
    <3> QED  BY <3>1, <3>2, PreviewEffectIs
  <2>2. CASE e.route # Selection
    <3>1. shell' = DetailEffect(s)
      BY <1>1, <2>2
    <3> QED  BY <1>5, <2>2, <3>1, DetailEffectIs
  <2> QED  BY <2>1, <2>2
<1>9. PreviewFlights(s) = IF s.selected = 0 THEN {} ELSE {Reading("preview", s.selected)}
  BY DEF PreviewFlights
<1>10. /\ Listing("list", s.filter, 0) \in WikiFlight
       /\ Listing("list", s.filter, 0).kind = "list"
       /\ Reading("preview", s.selected) \in WikiFlight
       /\ Reading("preview", s.selected).kind = "preview"
       /\ Reading("preview", s.selected).at = s.selected
  BY <1>6, ListingIs
<1>11. \A f \in flights' : f \in WikiFlight /\ FlightFits(f, shell', place')
  <2>1. CASE e.route = Selection
    <3>1. ASSUME NEW f \in flights'
          PROVE  \/ f = Listing("list", s.filter, 0)
                 \/ s.selected # 0 /\ f = Reading("preview", s.selected)
      BY <1>1, <1>9, <2>1, <3>1
    <3>2. FlightFits(Listing("list", s.filter, 0), shell', place')
      BY <1>1, <1>8, <1>10, <2>1 DEF FlightFits
    <3>3. s.selected # 0 => FlightFits(Reading("preview", s.selected), shell', place')
      BY <1>6, <1>8, <1>10 DEF FlightFits
    <3> QED  BY <1>10, <3>1, <3>2, <3>3
  <2>2. CASE e.route # Selection
    <3>1. "any" \in Filters
      BY DEF Filters
    <3>2. /\ Reading("detail", e.route) \in WikiFlight
          /\ Reading("detail", e.route).kind = "detail" /\ Reading("detail", e.route).at = e.route
      BY <1>7, <3>1, ListingIs
    <3>3. FlightFits(Reading("detail", e.route), shell', place')
      BY <1>1, <1>7, <2>2, <3>2 DEF FlightFits
    <3> QED  BY <1>1, <2>2, <3>2, <3>3
  <2> QED  BY <2>1, <2>2
<1>12. PreviewAwaited'
  <2>1. e.route = Selection /\ s.selected # 0 => Reading("preview", s.selected) \in flights'
    BY <1>1, <1>9
  <2> QED  BY <1>1, <1>8, <1>10, <2>1 DEF PreviewAwaited
<1>13. ListBegins'
  <2>1. PagesGiven
    BY <1>3 DEF ShellInv, PagesGiven
  <2>2. shell'.listLoading \/ place' # Selection
    BY <1>1, <1>8
  <2>3. GoesOn(shell', place', Ordered(shell'.filter)) /\ IsInjective(shell'.list)
    BY <1>8, <2>1, <2>2, EmptyGoesOn
  <2> QED  BY <2>3, BeginsStill
<1>14. ShellInv'
  <2>1. listedAt' \in Nat /\ listedAt' <= imports'
    BY <1>1, <1>3 DEF ShellInv
  <2> QED  BY <1>1, <1>3, <1>4, <1>8, <1>11, <1>12, <1>13, <2>1 DEF ShellInv, AnswersFit
<1>15. AddressInv'
  <2>1. AddressAgrees'
    BY <1>1, <1>8 DEF AddressAgrees
  <2> QED  BY <1>1, <1>3, <2>1 DEF AddressInv
<1> QED  BY <1>14, <1>15 DEF WikiInv

-----------------------------------------------------------------------------
(* What arrives.                                                            *)

\* A step that leaves the list alone.
LEMMA BeginsSame ==
    ASSUME ShellInv, UNCHANGED <<pages, place, imports, listedAt>>,
           shell'.filter = shell.filter, shell'.list = shell.list, shell'.cursor = shell.cursor,
           shell'.failed \/ /\ shell'.listLoading <=> shell.listLoading
                            /\ shell'.failed <=> shell.failed
    PROVE  ListBegins'
<1>1. ListBegins
  BY DEF ShellInv
<1>2. IsInjective(shell'.list)
  BY <1>1 DEF ListBegins
<1>3. imports' = listedAt' => GoesOn(shell', place', Ordered(shell'.filter))
  BY <1>1 DEF ListBegins, GoesOn
<1> QED  BY <1>2, <1>3, BeginsStill

\* An answer is of a request that fits.
LEMMA AnswerIs ==
    ASSUME WikiInv, NEW f \in flights
    PROVE  /\ ShellInv /\ AddressInv /\ PagesGiven
           /\ f \in WikiFlight /\ FlightFits(f, shell, place)
           /\ shell \in WikiShellState /\ flights \in SUBSET WikiFlight
           /\ f.kind = "list" => f.filter = shell.filter
           /\ f.kind = "more" => f.filter = shell.filter /\ f.at = shell.cursor
<1>1. ShellInv /\ AddressInv /\ PagesGiven
  BY DEF WikiInv, ShellInv, PagesGiven
<1>2. f \in WikiFlight /\ FlightFits(f, shell, place)
  BY <1>1 DEF ShellInv, AnswersFit
<1>3. f.kind = "list" => f.filter = shell.filter
  BY <1>2 DEF FlightFits, Listing
<1>4. f.kind = "more" => f.filter = shell.filter /\ f.at = shell.cursor
  BY <1>2 DEF FlightFits, Listing
<1>5. shell \in WikiShellState /\ flights \in SUBSET WikiFlight
  BY <1>1 DEF ShellInv
<1> QED  BY <1>1, <1>2, <1>3, <1>4, <1>5

ArriveStays == UNCHANGED <<pages, entry, wikiMoves, imports, listedAt>>

LEMMA ListKeeps ==
    ASSUME WikiInv, NEW f \in flights, ListArrives(f), ArriveStays
    PROVE  WikiInv'
<1> PICK filter, items, kept, next :
        /\ filter = shell.filter /\ items = Items(filter, 0) /\ next = Following(filter, 0)
        /\ kept = (IF shell.selected \in ToSet(items) THEN shell.selected
                   ELSE IF items = <<>> THEN 0 ELSE Head(items))
  OBVIOUS
<1> PICK s : s = [shell EXCEPT !.list = items, !.cursor = next, !.selected = kept,
                               !.listLoading = FALSE]
  OBVIOUS
<1> DEFINE preview == kept # shell.selected
<1>1. f.kind = "list"
  BY DEF ListArrives
<1>2. /\ ShellInv /\ AddressInv /\ PagesGiven /\ shell \in WikiShellState
      /\ f.filter = filter /\ flights \in SUBSET WikiFlight
  BY <1>1, AnswerIs
<1>3. /\ place = Selection /\ shell.cursor = 0
      /\ \A g \in flights : g.kind = "list" => g = f
  <2>1. \A g \in flights : FlightFits(g, shell, place)
    BY <1>2 DEF ShellInv, AnswersFit
  <2> QED  BY <1>1, <2>1 DEF FlightFits
<1>4. /\ shell' = IF preview THEN PreviewEffect(s) ELSE s
      /\ flights' = (flights \ ({f} \cup (IF preview THEN Of({"preview"}) ELSE {})))
                         \cup (IF preview THEN PreviewFlights(s) ELSE {})
      /\ visited' = IF preview THEN Replaced(entry, Selection, SelectionOf(s)) ELSE visited
      /\ UNCHANGED <<place, crossed>>
  BY <1>2 DEF ListArrives
<1>5. items \in Seq(1 .. LastPage) /\ IsInjective(items) /\ next \in Nat
  <2> PICK z : z = 0
    OBVIOUS
  <2>1. z \in Nat
    OBVIOUS
  <2>2. /\ Items(filter, z) \in Seq(1 .. LastPage) /\ IsInjective(Items(filter, z))
        /\ Following(filter, z) \in Nat
    BY <1>2, <2>1, ItemsAre
  <2> QED  BY <2>2
<1>6. kept \in 0 .. LastPage
  <2>1. shell.selected \in 0 .. LastPage /\ 0 \in 0 .. LastPage
    BY <1>2, WikiAssumption DEF WikiShellState
  <2>2. items # <<>> => Head(items) \in 1 .. LastPage
    BY <1>5, HeadTailProperties
  <2> QED  BY <2>1, <2>2, WikiAssumption
<1>7. /\ s \in WikiShellState /\ s.filter = filter /\ s.selected = kept /\ s.list = items
      /\ s.cursor = next /\ s.page = shell.page
      /\ s.loading <=> shell.loading
  BY <1>2, <1>5, <1>6 DEF WikiShellState
<1>8. /\ shell' \in WikiShellState /\ shell'.filter = filter /\ shell'.selected = kept
      /\ shell'.list = items /\ shell'.cursor = next
      /\ preview => shell'.page = 0
      /\ ~preview => shell'.page = shell.page /\ (shell'.loading <=> shell.loading)
  <2>1. CASE preview
    <3>1. shell' = PreviewEffect(s)
      BY <1>4, <2>1
    <3> QED  BY <1>7, <2>1, <3>1, PreviewEffectIs
  <2>2. CASE ~preview
    <3>1. shell' = s
      BY <1>4, <2>2
    <3> QED  BY ONLY <1>7, <2>2, <3>1
  <2> QED  BY <2>1, <2>2
<1>9. PreviewFlights(s) = IF kept = 0 THEN {} ELSE {Reading("preview", kept)}
  BY <1>7 DEF PreviewFlights
<1>10. /\ Reading("preview", kept) \in WikiFlight
       /\ Reading("preview", kept).kind = "preview" /\ Reading("preview", kept).at = kept
  <2>1. kept \in Nat /\ "any" \in Filters
    BY <1>6, WikiAssumption DEF Filters
  <2> QED  BY <2>1, ListingIs
<1> PICK new : new = Reading("preview", kept)
  OBVIOUS
<1>11. /\ \A g \in flights' : \/ g \in flights /\ g # f /\ (preview => g.kind # "preview")
                              \/ preview /\ kept # 0 /\ g = new
       /\ preview /\ kept # 0 => new \in flights'
       /\ ~preview => \A g \in flights : g # f => g \in flights'
  BY <1>4, <1>9 DEF Of
<1>12. AnswersFit'
  <2>1. ASSUME NEW g \in flights' PROVE FlightFits(g, shell', place)
    <3>1. CASE g \in flights /\ g # f /\ (preview => g.kind # "preview")
      <4>1. FlightFits(g, shell, place)
        BY <1>2, <3>1 DEF ShellInv, AnswersFit
      <4>2. g.kind # "list" /\ g.kind # "more"
        BY <1>3, <3>1, <4>1 DEF FlightFits
      <4>3. g.kind = "preview" => shell'.selected = shell.selected
        BY <1>8, <3>1
      <4> QED  BY ONLY <4>1, <4>2, <4>3 DEF FlightFits
    <3>2. CASE kept # 0 /\ g = new
      <4>1. kept \in 1 .. LastPage
        BY <1>6, <3>2
      <4> QED  BY <1>8, <1>10, <3>2, <4>1 DEF FlightFits
    <3> QED  BY <1>11, <3>1, <3>2
  <2>2. place' = place
    BY <1>4
  <2> QED  BY <2>1, <2>2 DEF AnswersFit
<1>13. flights' \in SUBSET WikiFlight
  BY <1>2, <1>10, <1>11
<1>14. PreviewAwaited'
  <2>1. ASSUME shell'.loading, shell'.selected # 0 PROVE \E g \in flights' : g.kind = "preview"
    <3>1. CASE preview
      BY <1>8, <1>10, <1>11, <2>1, <3>1
    <3>2. CASE ~preview
      <4>1. shell.loading /\ place = Selection /\ shell.selected # 0
        BY <1>3, <1>8, <2>1, <3>2
      <4>2. PICK g \in flights : g.kind = "preview"
        BY <1>2, <4>1 DEF ShellInv, PreviewAwaited
      <4>3. g \in flights'
        BY <1>1, <1>11, <3>2, <4>2
      <4> QED  BY <4>2, <4>3
    <3> QED  BY <3>1, <3>2
  <2> QED  BY <2>1 DEF PreviewAwaited
<1>15. ListBegins'
  <2>1. GoesOn(shell', place', Ordered(filter))
    <3>1. shell'.list = Items(filter, 0) /\ shell'.cursor = Following(filter, 0)
      BY <1>8
    <3> QED  BY <1>2, <3>1, FirstGoOn
  <2>2. GoesOn(shell', place', Ordered(shell'.filter)) /\ IsInjective(shell'.list)
    BY <1>5, <1>8, <2>1
  <2> QED  BY <2>2, BeginsStill DEF ArriveStays
<1>16. ShellInv'
  BY <1>2, <1>4, <1>8, <1>12, <1>13, <1>14, <1>15 DEF ShellInv, ArriveStays
<1>17. /\ visited' \in Seq(WikiEntry) /\ entry' \in DOMAIN visited'
       /\ \/ visited'[entry'].route = Selection
          \/ visited'[entry'] = visited[entry] /\ place = Selection
  <2>1. CASE preview
    <3> PICK e : e = Entry(Selection, SelectionOf(s))
      OBVIOUS
    <3>1. e \in WikiEntry /\ e.route = Selection
      BY <1>7, SelectionIs
    <3>2. visited' = [visited EXCEPT ![entry] = e]
      BY <1>4, <2>1 DEF Replaced
    <3>3. /\ [visited EXCEPT ![entry] = e] \in Seq(WikiEntry)
          /\ entry \in DOMAIN [visited EXCEPT ![entry] = e]
          /\ [visited EXCEPT ![entry] = e][entry] = e
      BY <1>2, <3>1, ReplacedIs
    <3> QED  BY <3>1, <3>2, <3>3 DEF ArriveStays
  <2>2. CASE ~preview
    <3>1. visited' = visited /\ entry' = entry
      BY <1>4, <2>2 DEF ArriveStays
    <3> QED  BY <1>2, <1>3, <3>1 DEF AddressInv
  <2> QED  BY <2>1, <2>2
<1>18. shell'.page # 0 => place = Selection /\ shell'.page = shell.page
                          /\ shell'.selected = shell.selected
  BY <1>3, <1>8
<1>19. place' = Selection /\ crossed' = crossed
  BY <1>3, <1>4
<1> QED  BY <1>16, <1>17, <1>18, <1>19, SelectionKeeps

LEMMA ItemsKeep ==
    ASSUME WikiInv, NEW f \in flights, MoreArrives(f), ArriveStays
    PROVE  WikiInv'
<1> PICK filter, items, list, cursor, next :
        /\ filter = shell.filter /\ cursor = shell.cursor /\ items = Items(filter, cursor)
        /\ list = shell.list \o Added(shell.list, items) /\ next = Following(filter, cursor)
  OBVIOUS
<1>1. f.kind = "more"
  BY DEF MoreArrives
<1>2. /\ ShellInv /\ AddressInv /\ PagesGiven /\ shell \in WikiShellState
      /\ f.filter = filter /\ f.at = cursor /\ flights \in SUBSET WikiFlight
  BY <1>1, AnswerIs
<1>3. \A g \in flights : FlightFits(g, shell, place)
  BY <1>2 DEF ShellInv, AnswersFit
<1>4. cursor # 0 /\ \A g \in flights : g.kind # "list" /\ (g.kind = "more" => g = f)
  BY <1>1, <1>3 DEF FlightFits
<1>5. /\ shell' = [shell EXCEPT !.list = list, !.cursor = next, !.failed = FALSE, !.more = FALSE]
      /\ flights' = flights \ {f}
      /\ UNCHANGED <<visited, place, crossed>>
  <2>1. /\ shell' = [shell EXCEPT
               !.list = @ \o Unlisted(Items(f.filter, f.at)),
               !.cursor = Following(f.filter, f.at), !.failed = FALSE, !.more = FALSE]
        /\ flights' = flights \ {f}
        /\ UNCHANGED <<visited, place, crossed>>
    BY DEF MoreArrives
  <2>2. Items(f.filter, f.at) = items /\ Following(f.filter, f.at) = next
    BY <1>2
  <2>3. Unlisted(items) = Added(shell.list, items)
    BY DEF Unlisted, Added
  <2> QED  BY <2>1, <2>2, <2>3
<1>6. shell.list \in Seq(1 .. LastPage) /\ cursor \in Nat /\ filter \in Filters
  BY <1>2, ShellIs
<1>7. items \in Seq(1 .. LastPage) /\ IsInjective(items) /\ next \in Nat
  <2>1. /\ Items(filter, cursor) \in Seq(1 .. LastPage) /\ IsInjective(Items(filter, cursor))
        /\ Following(filter, cursor) \in Nat
    BY <1>2, <1>6, ItemsAre
  <2> QED  BY <2>1
<1>8. list \in Seq(1 .. LastPage) /\ IsInjective(list)
  <2>1. IsInjective(shell.list)
    BY <1>2 DEF ShellInv, ListBegins
  <2>2. /\ shell.list \o Added(shell.list, items) \in Seq(1 .. LastPage)
        /\ IsInjective(shell.list \o Added(shell.list, items))
    BY <1>6, <1>7, <2>1, AddedDiffer
  <2> QED  BY <2>2
<1>9. /\ shell' \in WikiShellState /\ shell'.filter = filter /\ shell'.list = list
      /\ shell'.cursor = next /\ shell'.selected = shell.selected /\ shell'.page = shell.page
      /\ shell'.loading <=> shell.loading
  BY <1>2, <1>5, <1>7, <1>8 DEF WikiShellState
<1>10. AnswersFit'
  <2>1. ASSUME NEW g \in flights' PROVE FlightFits(g, shell', place)
    <3>1. g \in flights /\ g.kind # "list" /\ g.kind # "more" /\ FlightFits(g, shell, place)
      BY <1>3, <1>4, <1>5
    <3> QED  BY ONLY <1>9, <3>1 DEF FlightFits
  <2> QED  BY <1>5, <2>1 DEF AnswersFit
<1>11. PreviewAwaited'
  <2>1. PreviewAwaited
    BY <1>2 DEF ShellInv
  <2>2. \A g \in flights : g.kind = "preview" => g \in flights'
    BY <1>1, <1>5
  <2> QED  BY <1>5, <1>9, <2>1, <2>2 DEF PreviewAwaited
<1>12. ListBegins'
  <2>1. imports = listedAt => GoesOn(shell', place', Ordered(filter))
    <3>1. SUFFICES ASSUME imports = listedAt PROVE GoesOn(shell', place', Ordered(filter))
      OBVIOUS
    <3>2. GoesOn(shell, place, Ordered(filter))
      BY <1>2, <3>1 DEF ShellInv, ListBegins
    <3>3. /\ shell'.list = shell.list \o Added(shell.list, Items(filter, shell.cursor))
          /\ shell'.cursor = Following(filter, shell.cursor)
      BY <1>9
    <3>4. shell.cursor \in Nat /\ shell.cursor # 0
      BY <1>4, <1>6
    <3> QED  BY <1>2, <1>6, <3>2, <3>3, <3>4, MoreGoOn
  <2>2. imports' = listedAt' => GoesOn(shell', place', Ordered(shell'.filter))
    BY <1>9, <2>1 DEF ArriveStays
  <2>3. IsInjective(shell'.list)
    BY <1>8, <1>9
  <2> QED  BY <2>2, <2>3, BeginsStill DEF ArriveStays
<1>13. ShellInv'
  BY <1>2, <1>5, <1>9, <1>10, <1>11, <1>12 DEF ShellInv, ArriveStays
<1>14. AddressInv'
  BY <1>2, <1>5, <1>9 DEF AddressInv, AddressAgrees, ArriveStays
<1> QED  BY <1>13, <1>14 DEF WikiInv

LEMMA PreviewKeeps ==
    ASSUME WikiInv, NEW f \in flights, PreviewArrives(f), ArriveStays
    PROVE  WikiInv'
<1>1. /\ f.kind = "preview" /\ f.at \in pages
      /\ shell' = [shell EXCEPT !.page = f.at, !.loading = FALSE]
      /\ flights' = flights \ {f}
      /\ crossed' = (crossed \/ place \notin {Selection, f.at})
      /\ UNCHANGED <<visited, place>>
  BY DEF PreviewArrives
<1>2. /\ ShellInv /\ AddressInv /\ shell \in WikiShellState
      /\ FlightFits(f, shell, place) /\ flights \in SUBSET WikiFlight
  BY AnswerIs
<1>3. /\ f.at \in 0 .. LastPage /\ f.at \in 1 .. LastPage
      /\ place = Selection => f.at = shell.selected
  BY <1>1, <1>2, WikiAssumption DEF FlightFits
<1>4. /\ shell' \in WikiShellState /\ shell'.filter = shell.filter /\ shell'.list = shell.list
      /\ shell'.cursor = shell.cursor /\ shell'.selected = shell.selected
      /\ shell'.page = f.at /\ ~shell'.loading
      /\ shell'.listLoading <=> shell.listLoading
      /\ shell'.failed <=> shell.failed
  BY <1>1, <1>2, <1>3 DEF WikiShellState
<1>5. AnswersFit'
  <2>1. ASSUME NEW g \in flights' PROVE FlightFits(g, shell', place)
    <3>1. FlightFits(g, shell, place)
      BY <1>1, <1>2 DEF ShellInv, AnswersFit
    <3> QED  BY ONLY <1>4, <3>1 DEF FlightFits
  <2> QED  BY <1>1, <2>1 DEF AnswersFit
<1>6. PreviewAwaited'
  BY <1>4 DEF PreviewAwaited
<1>7. ListBegins'
  BY <1>1, <1>2, <1>4, BeginsSame DEF ArriveStays
<1>8. ShellInv'
  BY <1>1, <1>2, <1>4, <1>5, <1>6, <1>7 DEF ShellInv, ArriveStays
<1>9. AddressInv'
  <2>1. AddressAgrees /\ crossed \in BOOLEAN
    BY <1>2 DEF AddressInv
  <2>2. ASSUME ~crossed'
        PROVE  /\ ~crossed
               /\ place # Selection => place = f.at
    BY <1>1, <2>1, <2>2
  <2>3. AddressAgrees'
    BY <1>1, <1>3, <1>4, <2>1, <2>2 DEF AddressAgrees, ArriveStays
  <2>4. crossed' \in BOOLEAN
    BY <1>1, <2>1
  <2> QED  BY <1>1, <1>2, <2>3, <2>4 DEF AddressInv, ArriveStays
<1> QED  BY <1>8, <1>9 DEF WikiInv

\* The page of the address is put in its entry.
LEMMA RouteIs ==
    ASSUME AddressInv, NEW p \in 1 .. LastPage
    PROVE  /\ [visited EXCEPT ![entry].route = p] \in Seq(WikiEntry)
           /\ entry \in DOMAIN [visited EXCEPT ![entry].route = p]
           /\ [visited EXCEPT ![entry].route = p][entry].route = p
<1> PICK e : e = [visited[entry] EXCEPT !.route = p]
  OBVIOUS
<1>1. entry \in DOMAIN visited
  BY DEF AddressInv
<1>2. visited[entry] \in WikiEntry
  BY <1>1, EntryIs
<1>3. p \in WikiRoutes /\ p # Selection
  BY WikiAssumption DEF WikiRoutes, Alias, Selection
<1>4. e \in WikiEntry /\ e.route = p
  BY <1>2, <1>3 DEF WikiEntry
<1>5. [visited EXCEPT ![entry].route = p] = [visited EXCEPT ![entry] = e]
  OBVIOUS
<1> QED  BY <1>4, <1>5, ReplacedIs

LEMMA AcceptKeeps ==
    ASSUME WikiInv, NEW f \in flights, f.kind = "detail", f.current, f.at \in pages,
           Accept(f, f.at), place' = place, ArriveStays
    PROVE  WikiInv'
<1> PICK p, s : p = f.at /\ s = [shell EXCEPT !.page = p, !.selected = p, !.loading = FALSE]
  OBVIOUS
<1> DEFINE reselected == place = Selection /\ p # shell.selected
<1>1. /\ crossed' = (crossed \/ place = Selection)
      /\ shell' = IF reselected THEN [PreviewEffect(s) EXCEPT !.loading = FALSE] ELSE s
      /\ flights' = (flights \ ({f} \cup (IF reselected THEN Of({"preview"}) ELSE {})))
                         \cup (IF reselected THEN PreviewFlights(s) ELSE {})
      /\ visited' = IF reselected THEN Replaced(entry, Selection, SelectionOf(s))
                    ELSE [visited EXCEPT ![entry].route = p]
  BY DEF Accept
<1>2. /\ ShellInv /\ AddressInv /\ shell \in WikiShellState
      /\ FlightFits(f, shell, place) /\ flights \in SUBSET WikiFlight
  BY AnswerIs
<1>3. Selection = 0 /\ Alias = LastPage + 1 /\ LastPage \in Nat /\ LastPage # 0
  BY WikiAssumption DEF Selection, Alias
<1>4. /\ p \in 1 .. LastPage /\ p \in 0 .. LastPage /\ p \in Nat /\ p # Alias /\ p # Selection
      /\ place # Selection => p = place \/ (place = Alias /\ p = 1)
  <2>1. p \in 1 .. LastPage
    BY <1>2 DEF ShellInv
  <2>2. place # Selection => p = place \/ (place = Alias /\ p = 1)
    BY <1>2 DEF FlightFits
  <2> QED  BY <1>3, <2>1, <2>2
<1>5. /\ s \in WikiShellState /\ s.filter = shell.filter /\ s.list = shell.list
      /\ s.cursor = shell.cursor /\ s.selected = p /\ s.page = p /\ ~s.loading
      /\ s.listLoading <=> shell.listLoading
      /\ s.failed <=> shell.failed
  BY <1>2, <1>4 DEF WikiShellState
<1>6. /\ shell' \in WikiShellState /\ shell'.filter = shell.filter /\ shell'.list = shell.list
      /\ shell'.cursor = shell.cursor /\ shell'.selected = p /\ ~shell'.loading
      /\ shell'.listLoading <=> shell.listLoading
      /\ shell'.failed <=> shell.failed
      /\ ~reselected => shell'.page = p
  <2>1. CASE reselected
    <3> PICK shown : shown = PreviewEffect(s)
      OBVIOUS
    <3>1. /\ shown \in WikiShellState /\ shown.filter = s.filter /\ shown.list = s.list
          /\ shown.cursor = s.cursor /\ shown.selected = s.selected
          /\ shown.listLoading <=> s.listLoading
          /\ shown.failed <=> s.failed
      BY <1>5, PreviewEffectIs
    <3>2. shell' = [shown EXCEPT !.loading = FALSE]
      BY <1>1, <2>1
    <3> QED  BY ONLY <1>5, <2>1, <3>1, <3>2 DEF WikiShellState
  <2>2. CASE ~reselected
    <3>1. shell' = s
      BY <1>1, <2>2
    <3> QED  BY ONLY <1>5, <2>2, <3>1
  <2> QED  BY <2>1, <2>2
<1> PICK new : new = Reading("preview", p)
  OBVIOUS
<1>7. PreviewFlights(s) \subseteq {new}
  BY <1>5 DEF PreviewFlights
<1>8. new \in WikiFlight /\ new.kind = "preview" /\ new.at = p
  <2>1. "any" \in Filters
    BY DEF Filters
  <2> QED  BY <1>4, <2>1, ListingIs
<1>9. \A g \in flights' : \/ g \in flights /\ (reselected => g.kind # "preview")
                          \/ g = new
  BY <1>1, <1>7 DEF Of
<1>10. AnswersFit'
  <2>1. ASSUME NEW g \in flights' PROVE FlightFits(g, shell', place)
    <3>1. CASE g \in flights /\ (reselected => g.kind # "preview")
      <4>1. FlightFits(g, shell, place)
        BY <1>2, <3>1 DEF ShellInv, AnswersFit
      <4>2. g.kind = "preview" /\ place = Selection => shell'.selected = shell.selected
        BY <1>6, <3>1
      <4> QED  BY ONLY <1>6, <4>1, <4>2 DEF FlightFits
    <3>2. CASE g = new
      BY <1>4, <1>6, <1>8, <3>2 DEF FlightFits
    <3> QED  BY <1>9, <3>1, <3>2
  <2> QED  BY <2>1 DEF AnswersFit
<1>11. flights' \in SUBSET WikiFlight
  BY <1>2, <1>8, <1>9
<1>12. PreviewAwaited'
  BY <1>6 DEF PreviewAwaited
<1>13. ListBegins'
  BY <1>2, <1>6, BeginsSame DEF ArriveStays
<1>14. ShellInv'
  BY <1>2, <1>6, <1>10, <1>11, <1>12, <1>13 DEF ShellInv, ArriveStays
<1>15. /\ visited' \in Seq(WikiEntry) /\ entry' \in DOMAIN visited'
       /\ ~reselected => visited'[entry'].route = p
  <2>1. CASE reselected
    <3> PICK e : e = Entry(Selection, SelectionOf(s))
      OBVIOUS
    <3>1. e \in WikiEntry
      BY <1>5, SelectionIs
    <3>2. visited' = [visited EXCEPT ![entry] = e]
      BY <1>1, <2>1 DEF Replaced
    <3>3. /\ [visited EXCEPT ![entry] = e] \in Seq(WikiEntry)
          /\ entry \in DOMAIN [visited EXCEPT ![entry] = e]
      BY <1>2, <3>1, ReplacedIs
    <3> QED  BY <2>1, <3>2, <3>3 DEF ArriveStays
  <2>2. CASE ~reselected
    <3>1. visited' = [visited EXCEPT ![entry].route = p] /\ entry' = entry
      BY <1>1, <2>2 DEF ArriveStays
    <3>2. /\ [visited EXCEPT ![entry].route = p] \in Seq(WikiEntry)
          /\ entry \in DOMAIN [visited EXCEPT ![entry].route = p]
          /\ [visited EXCEPT ![entry].route = p][entry].route = p
      BY <1>2, <1>4, RouteIs
    <3> QED  BY <3>1, <3>2
  <2> QED  BY <2>1, <2>2
<1>16. AddressInv'
  <2>1. crossed \in BOOLEAN
    BY <1>2 DEF AddressInv
  <2>2. crossed' \in BOOLEAN
    BY <1>1, <2>1
  <2>3. ASSUME ~crossed' PROVE place # Selection /\ shell'.page = p /\ visited'[entry'].route = p
    BY <1>1, <1>6, <1>15, <2>1, <2>3
  <2>4. AddressAgrees'
    BY <1>3, <1>4, <2>3 DEF AddressAgrees
  <2> QED  BY <1>15, <2>2, <2>4 DEF AddressInv
<1> QED  BY <1>14, <1>16 DEF WikiInv

\* A request for a detail goes on, or ends, and nothing else changes but the
\* address.
LEMMA DetailGoesOn ==
    ASSUME WikiInv, NEW f \in flights, f.kind = "detail", UNCHANGED <<shell, place>>, ArriveStays,
           NEW new \in WikiFlight, new.kind = "detail", FlightFits(new, shell, place),
           flights' \subseteq (flights \ {f}) \cup {new}, flights \ {f} \subseteq flights',
           AddressInv'
    PROVE  WikiInv'
<1>1. ShellInv
  BY DEF WikiInv
<1>2. AnswersFit'
  <2>1. \A g \in flights : FlightFits(g, shell, place)
    BY <1>1 DEF ShellInv, AnswersFit
  <2>2. ASSUME NEW g \in flights' PROVE FlightFits(g, shell, place)
    BY <2>1
  <2> QED  BY <2>2 DEF AnswersFit
<1>3. PreviewAwaited'
  <2>1. PreviewAwaited
    BY <1>1 DEF ShellInv
  <2>2. \A g \in flights : g.kind = "preview" => g \in flights'
    OBVIOUS
  <2> QED  BY <2>1, <2>2 DEF PreviewAwaited
<1>4. ListBegins'
  BY <1>1, BeginsSame DEF ArriveStays
<1>5. flights' \in SUBSET WikiFlight
  BY <1>1 DEF ShellInv
<1>6. ShellInv'
  BY <1>1, <1>2, <1>3, <1>4, <1>5 DEF ShellInv, ArriveStays
<1> QED  BY <1>6 DEF WikiInv

LEMMA DetailArrivesKeeps ==
    ASSUME WikiInv, NEW f \in flights, DetailArrives(f), ArriveStays
    PROVE  WikiInv'
<1>1. /\ f.kind = "detail" /\ f.at \in pages /\ place' = place
      /\ IF f.current THEN Accept(f, f.at)
         ELSE flights' = flights \ {f} /\ UNCHANGED <<shell, visited, crossed>>
  BY DEF DetailArrives
<1>2. CASE f.current
  BY <1>1, <1>2, AcceptKeeps
<1>3. CASE ~f.current
  <2>1. flights' = flights \ {f} /\ UNCHANGED <<shell, visited, crossed>>
    BY <1>1, <1>3
  <2>2. AddressInv /\ f \in WikiFlight /\ FlightFits(f, shell, place)
    BY AnswerIs
  <2>3. AddressInv'
    BY <1>1, <2>1, <2>2 DEF AddressInv, AddressAgrees, ArriveStays
  <2>4. /\ flights' \subseteq (flights \ {f}) \cup {f} /\ flights \ {f} \subseteq flights'
        /\ UNCHANGED <<shell, place>>
    BY <1>1, <2>1
  <2> QED  BY <1>1, <2>2, <2>3, <2>4, DetailGoesOn
<1> QED  BY <1>2, <1>3

LEMMA MissingKeeps ==
    ASSUME WikiInv, NEW f \in flights, DetailIsMissing(f), ArriveStays
    PROVE  WikiInv'
<1> PICK new : new = [f EXCEPT !.step = "resolve"]
  OBVIOUS
<1>1. /\ f.kind = "detail" /\ flights' = (flights \ {f}) \cup {new}
      /\ UNCHANGED <<shell, visited, place, crossed>>
  BY DEF DetailIsMissing
<1>2. AddressInv /\ f \in WikiFlight /\ FlightFits(f, shell, place)
  BY AnswerIs
<1>3. /\ new \in WikiFlight /\ new.kind = "detail" /\ new.at = f.at
      /\ new.current <=> f.current
  BY <1>1, <1>2 DEF WikiFlight
<1>4. FlightFits(new, shell, place)
  BY ONLY <1>1, <1>2, <1>3 DEF FlightFits
<1>5. AddressInv'
  BY <1>1, <1>2 DEF AddressInv, AddressAgrees, ArriveStays
<1>6. /\ flights' \subseteq (flights \ {f}) \cup {new} /\ flights \ {f} \subseteq flights'
      /\ UNCHANGED <<shell, place>>
  BY <1>1
<1> QED  BY <1>1, <1>3, <1>4, <1>5, <1>6, DetailGoesOn

LEMMA ResolvedKeeps ==
    ASSUME WikiInv, NEW f \in flights, DetailIsResolved(f), ArriveStays
    PROVE  WikiInv'
<1> PICK new : new = [f EXCEPT !.at = 1, !.step = "target"]
  OBVIOUS
<1>1. /\ f.kind = "detail" /\ f.at = Alias /\ flights' = (flights \ {f}) \cup {new}
      /\ visited' = [visited EXCEPT ![entry].route = 1]
      /\ crossed' = (crossed \/ ~f.current \/ place = Selection)
      /\ UNCHANGED <<shell, place>>
  <2>1. Resolved(f.at) = 1 /\ f.at = Alias
    BY DEF DetailIsResolved, Resolved
  <2> QED  BY <2>1 DEF DetailIsResolved
<1>2. /\ ShellInv /\ AddressInv /\ f \in WikiFlight /\ FlightFits(f, shell, place)
      /\ shell \in WikiShellState
  BY AnswerIs
<1>3. Selection = 0 /\ Alias = LastPage + 1 /\ LastPage \in Nat /\ LastPage # 0
  BY WikiAssumption DEF Selection, Alias
<1>4. /\ new \in WikiFlight /\ new.kind = "detail" /\ new.at = 1
      /\ new.current <=> f.current
  BY <1>1, <1>2 DEF WikiFlight
<1>5. f.current /\ place # Selection => place = Alias
  BY <1>1, <1>2, <1>3 DEF FlightFits
<1>6. FlightFits(new, shell, place)
  <2>1. 1 \in 1 .. Alias
    BY <1>3
  <2> QED  BY <1>4, <1>5, <2>1 DEF FlightFits
<1>7. AddressInv'
  <2>1. AddressAgrees /\ crossed \in BOOLEAN
    BY <1>2 DEF AddressInv
  <2>2. 1 \in 1 .. LastPage
    BY <1>3
  <2>3. /\ visited' \in Seq(WikiEntry) /\ entry' \in DOMAIN visited'
        /\ visited'[entry'].route = 1
    BY <1>1, <1>2, <2>2, RouteIs DEF ArriveStays
  <2>4. crossed' \in BOOLEAN
    BY <1>1, <2>1
  <2>5. ASSUME ~crossed' PROVE ~crossed /\ f.current /\ place = Alias /\ place # Selection
    BY <1>1, <1>5, <2>1, <2>5
  <2>6. ASSUME ~crossed', shell'.page # 0 PROVE shell'.page = 1
    <3>1. shell.page = visited[entry].route /\ visited[entry].route \in {Alias, 1}
      BY <1>1, <2>1, <2>5, <2>6 DEF AddressAgrees
    <3>2. shell.page \in 0 .. LastPage
      BY <1>2 DEF WikiShellState
    <3> QED  BY <1>1, <1>3, <3>1, <3>2
  <2>7. AddressAgrees'
    BY <1>1, <1>3, <2>3, <2>5, <2>6 DEF AddressAgrees
  <2> QED  BY <2>3, <2>4, <2>7 DEF AddressInv
<1>8. /\ flights' \subseteq (flights \ {f}) \cup {new} /\ flights \ {f} \subseteq flights'
      /\ UNCHANGED <<shell, place>> /\ f.kind = "detail"
  BY <1>1
<1>9. new \in WikiFlight /\ new.kind = "detail"
  BY <1>4
<1> QED  BY <1>6, <1>7, <1>8, <1>9, DetailGoesOn

LEMMA FailsKeeps ==
    ASSUME WikiInv, NEW f \in flights, FlightFails(f), ArriveStays
    PROVE  WikiInv'
<1>1. /\ flights' = flights \ {f}
      /\ shell' = CASE f.kind = "list" -> [shell EXCEPT !.failed = TRUE, !.listLoading = FALSE]
                    [] f.kind = "more" -> [shell EXCEPT !.failed = TRUE, !.more = FALSE]
                    [] f.kind = "preview" \/ (f.kind = "detail" /\ f.current) ->
                           [shell EXCEPT !.loading = FALSE]
                    [] OTHER -> shell
      /\ UNCHANGED <<visited, place, crossed>>
  BY DEF FlightFails
<1>2. ShellInv /\ AddressInv /\ shell \in WikiShellState /\ f \in WikiFlight
  BY AnswerIs
<1>3. f.kind \in {"list", "more", "preview", "detail"}
  BY <1>2 DEF WikiFlight
<1>4. /\ shell' \in WikiShellState /\ shell'.filter = shell.filter /\ shell'.list = shell.list
      /\ shell'.cursor = shell.cursor /\ shell'.selected = shell.selected
      /\ shell'.page = shell.page
      /\ shell'.failed \/ /\ shell'.listLoading <=> shell.listLoading
                          /\ shell'.failed <=> shell.failed
      /\ shell'.loading => shell.loading /\ f.kind # "preview"
  <2>1. CASE f.kind = "list"
    <3>1. shell' = [shell EXCEPT !.failed = TRUE, !.listLoading = FALSE]
      BY <1>1, <2>1
    <3> QED  BY <1>2, <2>1, <3>1 DEF WikiShellState
  <2>2. CASE f.kind = "more"
    <3>1. shell' = [shell EXCEPT !.failed = TRUE, !.more = FALSE]
      BY <1>1, <2>2
    <3> QED  BY <1>2, <2>2, <3>1 DEF WikiShellState
  <2>3. CASE f.kind = "preview" \/ (f.kind = "detail" /\ f.current)
    <3>1. shell' = [shell EXCEPT !.loading = FALSE]
      BY <1>1, <2>3
    <3> QED  BY <1>2, <2>3, <3>1 DEF WikiShellState
  <2>4. CASE f.kind = "detail" /\ ~f.current
    <3>1. shell' = shell
      BY <1>1, <2>4
    <3> QED  BY <1>2, <2>4, <3>1
  <2> QED  BY <1>3, <2>1, <2>2, <2>3, <2>4
<1>5. AnswersFit'
  <2>1. ASSUME NEW g \in flights' PROVE FlightFits(g, shell', place)
    <3>1. FlightFits(g, shell, place)
      BY <1>1, <1>2 DEF ShellInv, AnswersFit
    <3> QED  BY ONLY <1>4, <3>1 DEF FlightFits
  <2> QED  BY <1>1, <2>1 DEF AnswersFit
<1>6. PreviewAwaited'
  <2>1. PreviewAwaited
    BY <1>2 DEF ShellInv
  <2>2. \A g \in flights : g.kind = "preview" => g = f \/ g \in flights'
    BY <1>1
  <2> QED  BY <1>1, <1>4, <2>1, <2>2 DEF PreviewAwaited
<1>7. ListBegins'
  BY <1>1, <1>2, <1>4, BeginsSame DEF ArriveStays
<1>8. ShellInv'
  BY <1>1, <1>2, <1>4, <1>5, <1>6, <1>7 DEF ShellInv, ArriveStays
<1>9. AddressInv'
  BY <1>1, <1>2, <1>4 DEF AddressInv, AddressAgrees, ArriveStays
<1> QED  BY <1>8, <1>9 DEF WikiInv

\* Another database: the list is of an earlier import.
LEMMA ReimportKeeps == ASSUME WikiInv, Reimport PROVE WikiInv'
<1>1. /\ imports' = imports + 1 /\ pages' \in SUBSET (1 .. LastPage)
      /\ UNCHANGED <<visited, entry, place, shell, flights, listedAt, crossed>>
  BY DEF Reimport
<1>2. ShellInv /\ AddressInv
  BY DEF WikiInv
<1>3. imports' # listedAt' /\ listedAt' <= imports' /\ imports' \in Nat
  BY <1>1, <1>2 DEF ShellInv
<1>4. AnswersFit' /\ PreviewAwaited'
  BY <1>1, <1>2 DEF ShellInv, AnswersFit, PreviewAwaited
<1>5. ListBegins'
  BY <1>1, <1>2, <1>3 DEF ShellInv, ListBegins
<1>6. ShellInv'
  BY <1>1, <1>2, <1>3, <1>4, <1>5 DEF ShellInv
<1>7. AddressInv'
  BY <1>1, <1>2 DEF AddressInv, AddressAgrees
<1> QED  BY <1>6, <1>7 DEF WikiInv

-----------------------------------------------------------------------------

LEMMA WikiKeeps == ASSUME WikiInv, [BrowserNext]_browserVars PROVE WikiInv'
<1>1. CASE Moves /\ UserMoves
  <2>1. UNCHANGED <<pages, imports, crossed>>
    BY <1>1 DEF Moves
  <2>2. ASSUME NEW filter \in Filters, ChooseFilter(filter) PROVE WikiInv'
    BY <2>1, <2>2, FilterKeeps
  <2>3. ASSUME NEW p \in ToSet(shell.list), SelectPage(p) PROVE WikiInv'
    BY <2>1, <2>3, SelectKeeps
  <2>4. ASSUME NEW to, Travel(to) PROVE WikiInv'
    BY <2>1, <2>4, TravelKeeps
  <2> QED
    BY <1>1, <2>1, <2>2, <2>3, <2>4, MoreKeeps, RetryKeeps, OpenKeeps, ReturnKeeps, ReloadKeeps
    DEF UserMoves
<1>2. ASSUME NEW f \in flights, Arrive(f) PROVE WikiInv'
  <2>1. ArriveStays
    BY <1>2 DEF Arrive, ArriveStays
  <2> QED
    BY <1>2, <2>1, ListKeeps, ItemsKeep, PreviewKeeps, DetailArrivesKeeps, MissingKeeps,
       ResolvedKeeps, FailsKeeps DEF Arrive
<1>3. CASE Reimport
  BY <1>3, ReimportKeeps
<1>4. CASE UNCHANGED browserVars
  <2>1. UNCHANGED <<pages, visited, entry, place, shell, flights, imports, listedAt, crossed>>
    BY <1>4 DEF browserVars
  <2>2. ShellInv /\ AddressInv
    BY DEF WikiInv
  <2>3. AnswersFit' /\ PreviewAwaited'
    BY <2>1, <2>2 DEF ShellInv, AnswersFit, PreviewAwaited
  <2>4. ListBegins'
    BY <2>1, <2>2, BeginsSame
  <2>5. ShellInv'
    BY <2>1, <2>2, <2>3, <2>4 DEF ShellInv
  <2>6. AddressInv'
    BY <2>1, <2>2 DEF AddressInv, AddressAgrees
  <2> QED  BY <2>5, <2>6 DEF WikiInv
<1> QED  BY <1>1, <1>2, <1>3, <1>4 DEF BrowserNext

LEMMA WikiHolds == ASSUME WikiInv PROVE WikiShown
<1> PICK all, list : all = Ordered(shell.filter) /\ list = shell.list
  OBVIOUS
<1>1. ShellInv /\ AddressInv /\ PagesGiven
  BY DEF WikiInv, ShellInv, PagesGiven
<1>2. list \in Seq(1 .. LastPage) /\ shell.cursor \in Nat
  BY <1>1, ShellIs
<1>3. /\ all \in Seq(1 .. LastPage) /\ Len(all) \in Nat
      /\ ToSet(all) = Matching(shell.filter)
  BY <1>1, OrderedIs
<1>4. IsInjective(list) /\ (imports = listedAt => GoesOn(shell, place, all))
  BY <1>1 DEF ShellInv, ListBegins
<1>5. ASSUME imports = 0
      PROVE  /\ ToSet(list) \subseteq Matching(shell.filter)
             /\ IsPrefix(list, all)
             /\ ~shell.listLoading /\ ~shell.failed /\ place = Selection =>
                   (shell.cursor = 0) = (list = all)
  <2>1. imports = listedAt
    BY <1>1, <1>5 DEF ShellInv
  <2>2. GoesOn(shell, place, all)
    BY <1>4, <2>1
  <2>3. IsPrefix(list, all)
    BY <2>2 DEF GoesOn
  <2>4. list = SubSeq(all, 1, Len(list)) /\ Len(list) <= Len(all) /\ Len(list) \in Nat
    BY <1>2, <2>3, SubSeqFull, LenProperties DEF IsPrefix
  <2>5. \A i \in DOMAIN list : list[i] \in ToSet(all)
    <3> PICK z, n : z = 0 /\ n = Len(list)
      OBVIOUS
    <3>1. z \in 0 .. Len(all) /\ n \in z .. Len(all) /\ n - z = n /\ z + 1 = 1
      BY <1>3, <2>4
    <3>2. /\ DOMAIN SubSeq(all, z + 1, n) = 1 .. (n - z)
          /\ \A i \in 1 .. (n - z) : SubSeq(all, z + 1, n)[i] = all[z + i] /\ z + i \in DOMAIN all
      BY <1>3, <3>1, PieceIs
    <3>3. list = SubSeq(all, z + 1, n)
      BY <2>4, <3>1
    <3> QED  BY <3>1, <3>2, <3>3 DEF ToSet
  <2>6. ToSet(list) \subseteq Matching(shell.filter)
    BY <1>3, <2>5 DEF ToSet
  <2>7. ~shell.listLoading /\ ~shell.failed /\ place = Selection =>
            (shell.cursor = 0) = (list = all)
    BY <1>2, <1>3, <2>2 DEF GoesOn
  <2> QED  BY <2>3, <2>6, <2>7
<1>6. imports = listedAt => IsPrefix(list, all)
  BY <1>4 DEF GoesOn
<1>7. ~crossed =>
          /\ (visited[entry].route = Selection) = (place = Selection)
          /\ shell.page # 0 =>
                IF place = Selection THEN shell.page = shell.selected
                ELSE shell.page = visited[entry].route
  BY <1>1 DEF AddressInv, AddressAgrees
<1>8. shell.loading /\ place = Selection /\ shell.selected # 0 =>
          \E f \in flights : f.kind \in {"preview", "detail"}
  BY <1>1 DEF ShellInv, PreviewAwaited
<1> QED  BY <1>4, <1>5, <1>6, <1>7, <1>8 DEF WikiShown

\* What the browser shows is true (WikiShell), for any number of pages, any
\* length of a list, any moves of the user, answers in any order and imports.
THEOREM WikiSafety ==
    ASSUME NEW routes, routes \subseteq WikiRoutes
    PROVE  BrowserInit(routes) /\ [][BrowserNext]_browserVars => []WikiShown
<1>1. BrowserInit(routes) => WikiInv
  BY WikiStarts
<1>2. WikiInv /\ [BrowserNext]_browserVars => WikiInv'
  BY WikiKeeps
<1>3. WikiInv => WikiShown
  BY WikiHolds
<1> QED  BY <1>1, <1>2, <1>3, PTL

-----------------------------------------------------------------------------
(* The plan of the media that may be downloaded.                            *)

\* Any request: finitely many resources, each with any rows, whoever the owners,
\* and any size.
PlanRows(owners) == Seq([owner : owners, priority : Nat])

PlanResources(owners) ==
    [rows : PlanRows(owners), size : Nat, at : {"nowhere", "local", "bucket"}]

PlanCapacity ==
    [free : Nat \cup {Unknown}, cloud : Nat \cup {Unknown}, growth : Nat \cup {Unknown},
     incomplete : BOOLEAN]

PlanQuestion(q) ==
    \E owners : \E S \in SUBSET Nat :
        /\ IsFiniteSet(S)
        /\ q \in [phase : {"p0", "p1"}, capacity : PlanCapacity,
                  resources : [S -> PlanResources(owners)]]

\* What is answered is the plan of the request; a decision about it has its effect.
PlanInv ==
    /\ PlanQuestion(planRequest)
    /\ planStage \in {"requested", "planned", "kept", "approved", "expanded"}
    /\ planStage # "requested" => plan = Planned(planRequest)
    /\ planStage = "kept" => plan.overflow = {}
    /\ planStage = "expanded" =>
          plan.overflow = Represented(planRequest) \ WithinBudget(planRequest)

LEMMA QuestionIs ==
    ASSUME NEW q, PlanQuestion(q)
    PROVE  /\ IsFiniteSet(Resources(q)) /\ Resources(q) \subseteq Nat
           /\ q.phase \in {"p0", "p1"}
           /\ \A r \in Resources(q) : q.resources[r].size \in Nat
           /\ \E owners : \A r \in Resources(q) : q.resources[r].rows \in PlanRows(owners)
           /\ q.capacity \in PlanCapacity
<1>1. PICK owners : \E S \in SUBSET Nat :
          /\ IsFiniteSet(S)
          /\ q \in [phase : {"p0", "p1"}, capacity : PlanCapacity,
                    resources : [S -> PlanResources(owners)]]
  BY DEF PlanQuestion
<1>2. PICK S \in SUBSET Nat :
          /\ IsFiniteSet(S)
          /\ q \in [phase : {"p0", "p1"}, capacity : PlanCapacity,
                    resources : [S -> PlanResources(owners)]]
  BY <1>1
<1>3. Resources(q) = S
  BY <1>2 DEF Resources
<1>4. \A r \in S : q.resources[r].size \in Nat /\ q.resources[r].rows \in PlanRows(owners)
  BY <1>2 DEF PlanResources
<1> QED  BY <1>2, <1>3, <1>4

LEMMA EligibleRowsAre ==
    ASSUME NEW q, PlanQuestion(q), NEW r \in Resources(q)
    PROVE  EligibleRows(q, r) # <<>> =>
              EligibleRows(q, r)[1].priority \in Nat /\ OwnersOf(q, r) # {}
<1> PICK rows : rows = q.resources[r].rows
  OBVIOUS
<1> PICK owners : rows \in PlanRows(owners)
  BY QuestionIs
<1> DEFINE K == {i \in DOMAIN rows : q.phase = "p1" \/ rows[i].owner # "story"}
           E == [owner : owners, priority : Nat]
<1>1. rows \in Seq(E)
  BY DEF PlanRows
<1>2. K \in SUBSET (1 .. Len(rows))
  BY <1>1, LenProperties
<1>3. EligibleRows(q, r) = AtPlaces(rows, K)
  BY DEF EligibleRows
<1> PICK s : s = EligibleRows(q, r)
  OBVIOUS
<1>4. s \in Seq(E)
  <2> HIDE DEF K, E
  <2> QED  BY <1>1, <1>2, <1>3, AtPlacesLists
<1>5. ASSUME s # <<>> PROVE s[1] \in E /\ 1 \in DOMAIN s
  <2> HIDE DEF E
  <2>1. Len(s) \in Nat /\ Len(s) # 0 /\ DOMAIN s = 1 .. Len(s)
    BY <1>4, <1>5, LenProperties, EmptySeq
  <2>2. 1 \in 1 .. Len(s)
    BY <2>1
  <2> QED  BY <1>4, <2>1, <2>2, ElementOfSeq
<1>6. ASSUME s # <<>> PROVE OwnersOf(q, r) # {}
  <2>1. s[1] \in ToSet(s)
    BY <1>5, <1>6 DEF ToSet
  <2>2. s[1].owner \in OwnersOf(q, r)
    BY <2>1 DEF OwnersOf
  <2> QED  BY <2>2
<1> QED  BY <1>5, <1>6

LEMMA EligibleAre ==
    ASSUME NEW q, PlanQuestion(q)
    PROVE  /\ Represented(q) \subseteq Eligible(q) /\ Eligible(q) \subseteq Resources(q)
           /\ \A S \in SUBSET Eligible(q) : IsFiniteSet(S)
<1>1. Represented(q) \subseteq Eligible(q) /\ Eligible(q) \subseteq Resources(q)
  BY DEF Represented, Eligible
<1>2. ASSUME NEW S \in SUBSET Eligible(q) PROVE IsFiniteSet(S)
  <2>1. S \in SUBSET Resources(q)
    BY <1>1
  <2> QED  BY <2>1, QuestionIs, FS_Subset
<1> QED  BY <1>1, <1>2

Turns(q, S) == {e \in S \X S : Before(q, e[1], e[2])}

\* The order of selection is one: no two resources are in the same place.
LEMMA TurnsOrder ==
    ASSUME NEW q, PlanQuestion(q), NEW S \in SUBSET Eligible(q)
    PROVE  Orders(Turns(q, S), S)
<1> DEFINE p(x) == EligibleRows(q, x)[1].priority
<1>1. \A x \in S : x \in Nat /\ p(x) \in Nat
  <2> SUFFICES ASSUME NEW x \in S PROVE x \in Nat /\ p(x) \in Nat
    OBVIOUS
  <2>1. x \in Resources(q) /\ EligibleRows(q, x) # <<>>
    BY DEF Eligible
  <2> HIDE DEF p
  <2> QED  BY <2>1, QuestionIs, EligibleRowsAre DEF p
<1>2. \A x, y \in S : <<x, y>> \in Turns(q, S) <=> (p(x) < p(y) \/ (p(x) = p(y) /\ x < y))
  BY DEF Turns, Before
<1> HIDE DEF p
<1>3. \A x \in S : <<x, x>> \notin Turns(q, S)
  BY <1>1, <1>2
<1>4. ASSUME NEW x \in S, NEW y \in S
      PROVE  x = y \/ <<x, y>> \in Turns(q, S) \/ <<y, x>> \in Turns(q, S)
  <2> PICK m, n : m = p(x) /\ n = p(y)
    OBVIOUS
  <2>1. m \in Nat /\ n \in Nat /\ x \in Nat /\ y \in Nat
    BY <1>1
  <2>2. <<x, y>> \in Turns(q, S) <=> (m < n \/ (m = n /\ x < y))
    BY <1>2
  <2>3. <<y, x>> \in Turns(q, S) <=> (n < m \/ (n = m /\ y < x))
    BY <1>2
  <2> QED  BY ONLY <2>1, <2>2, <2>3
<1>5. ASSUME NEW x \in S, NEW y \in S, NEW z \in S,
             <<x, y>> \in Turns(q, S), <<y, z>> \in Turns(q, S)
      PROVE  <<x, z>> \in Turns(q, S)
  BY <1>1, <1>2, <1>5
<1> QED  BY <1>3, <1>4, <1>5 DEF Orders

\* Each resource of a set has its turn.
LEMMA InTurnIs ==
    ASSUME NEW q, PlanQuestion(q), NEW S \in SUBSET Eligible(q)
    PROVE  \E n \in Nat :
              /\ InTurn(q, S) \in Seq(S) /\ Len(InTurn(q, S)) = n
              /\ DOMAIN InTurn(q, S) = 1 .. n
              /\ \A i \in 1 .. n : InTurn(q, S)[i] \in S
              /\ \A x \in S : \E i \in 1 .. n : InTurn(q, S)[i] = x
              /\ \A i, j \in 1 .. n : i = j <=> InTurn(q, S)[i] = InTurn(q, S)[j]
<1>1. IsFiniteSet(S) /\ Orders(Turns(q, S), S)
  BY EligibleAre, TurnsOrder
<1> PICK l, n, R : l = InOrder(S, R) /\ n = Cardinality(S) /\ R = Turns(q, S)
  OBVIOUS
<1>2. InTurn(q, S) = l
  BY DEF InTurn, Turns
<1>3. /\ n \in Nat /\ l \in Seq(S) /\ Len(l) = n /\ DOMAIN l = 1 .. n
      /\ \A i \in 1 .. n : l[i] \in S
      /\ \A x \in S : \E i \in 1 .. n : l[i] = x
      /\ \A i, j \in 1 .. n : i = j <=> l[i] = l[j]
  <2>1. IsFiniteSet(S) /\ Orders(R, S)
    BY <1>1
  <2>2. /\ Cardinality(S) \in Nat
        /\ InOrder(S, R) \in Seq(S) /\ Len(InOrder(S, R)) = Cardinality(S)
        /\ DOMAIN InOrder(S, R) = 1 .. Cardinality(S)
        /\ \A i \in 1 .. Cardinality(S) : InOrder(S, R)[i] \in S
        /\ \A x \in S : \E i \in 1 .. Cardinality(S) : InOrder(S, R)[i] = x
        /\ \A i, j \in 1 .. Cardinality(S) :
              /\ i < j <=> <<InOrder(S, R)[i], InOrder(S, R)[j]>> \in R
              /\ i = j <=> InOrder(S, R)[i] = InOrder(S, R)[j]
    BY ONLY <2>1, InOrderLists
  <2> QED  BY ONLY <2>2, l = InOrder(S, R), n = Cardinality(S)
<1> QED  BY <1>2, <1>3

-----------------------------------------------------------------------------
(* What the files of a plan cost.                                           *)

\* A sum is of the terms of its set, whoever else is asked.
LEMMA SumsAgree ==
    ASSUME NEW S, NEW p, NEW q, \A r \in S : NewBytes(p, r) = NewBytes(q, r)
    PROVE  NewBytesOf(p, S) = NewBytesOf(q, S)
<1> DEFINE Some(s) == CHOOSE x \in s : TRUE
           One(it) == it = [s \in SUBSET S |-> IF s = {} THEN 0
                                ELSE NewBytes(p, Some(s)) + it[s \ {Some(s)}]]
           Other(it) == it = [s \in SUBSET S |-> IF s = {} THEN 0
                                ELSE NewBytes(q, Some(s)) + it[s \ {Some(s)}]]
           one == CHOOSE it : One(it)
           other == CHOOSE it : Other(it)
<1>1. NewBytesOf(p, S) = one[S] /\ NewBytesOf(q, S) = other[S]
  BY DEF NewBytesOf, SumOf, FoldSet, MapThenFoldSet
<1>2. ASSUME NEW it PROVE One(it) <=> Other(it)
  <2>1. ASSUME NEW s \in SUBSET S, s # {} PROVE NewBytes(p, Some(s)) = NewBytes(q, Some(s))
    <3>1. Some(s) \in S
      BY <2>1
    <3> HIDE DEF Some
    <3> QED  BY <3>1
  <2> HIDE DEF Some
  <2> QED  BY <2>1
<1>3. one = other
  <2> HIDE DEF One, Other
  <2> QED  BY ONLY <1>2, Zenon
<1> QED  BY <1>1, <1>3

LEMMA SumIs ==
    ASSUME NEW q, NEW S, NEW w, \A r \in S : w[r] = NewBytes(q, r)
    PROVE  NewBytesOf(q, S) = Total(w, S)
<1> DEFINE Some(s) == CHOOSE x \in s : TRUE
           One(it) == it = [s \in SUBSET S |-> IF s = {} THEN 0
                                ELSE NewBytes(q, Some(s)) + it[s \ {Some(s)}]]
           Other(it) == it = [s \in SUBSET S |-> IF s = {} THEN 0
                                ELSE w[Some(s)] + it[s \ {Some(s)}]]
           one == CHOOSE it : One(it)
           other == CHOOSE it : Other(it)
<1>1. NewBytesOf(q, S) = one[S] /\ Total(w, S) = other[S]
  BY DEF NewBytesOf, SumOf, FoldSet, MapThenFoldSet, Total, MapThenSumSet
<1>2. ASSUME NEW it PROVE One(it) <=> Other(it)
  <2>1. ASSUME NEW s \in SUBSET S, s # {} PROVE w[Some(s)] = NewBytes(q, Some(s))
    <3>1. Some(s) \in S
      BY <2>1
    <3> HIDE DEF Some
    <3> QED  BY <3>1
  <2> HIDE DEF Some
  <2> QED  BY <2>1
<1>3. one = other
  <2> HIDE DEF One, Other
  <2> QED  BY ONLY <1>2, Zenon
<1> QED  BY <1>1, <1>3

LEMMA NewBytesSteps ==
    ASSUME NEW q, PlanQuestion(q), NEW S \in SUBSET Resources(q)
    PROVE  /\ NewBytesOf(q, {}) = 0
           /\ NewBytesOf(q, S) \in Nat
           /\ \A r \in Resources(q) : NewBytes(q, r) \in Nat
           /\ \A r \in Resources(q) \ S :
                 NewBytesOf(q, S \cup {r}) = NewBytes(q, r) + NewBytesOf(q, S)
           /\ \A U \in SUBSET S : NewBytesOf(q, U) <= NewBytesOf(q, S)
<1> DEFINE w == [r \in Resources(q) |-> NewBytes(q, r)]
<1> PICK D : D = Resources(q)
  OBVIOUS
<1>1. \A r \in D : NewBytes(q, r) \in Nat
  BY QuestionIs DEF NewBytes
<1>2. w \in [D -> Nat] /\ \A r \in D : w[r] = NewBytes(q, r)
  BY <1>1
<1>3. IsFiniteSet(D)
  BY QuestionIs
<1> HIDE DEF w
<1>4. \A U \in SUBSET D : NewBytesOf(q, U) = Total(w, U)
  BY <1>2, SumIs
<1>5. /\ Total(w, {}) = 0
      /\ Total(w, S) \in Nat
      /\ \A x \in D \ S : Total(w, S \cup {x}) = w[x] + Total(w, S)
      /\ \A U \in SUBSET S : Total(w, U) <= Total(w, S)
  BY <1>2, <1>3, TotalSteps
<1>6. {} \in SUBSET D /\ S \in SUBSET D /\ \A x \in D \ S : S \cup {x} \in SUBSET D
  OBVIOUS
<1>7. \A U \in SUBSET S : U \in SUBSET D
  OBVIOUS
<1> QED  BY <1>1, <1>2, <1>4, <1>5, <1>6, <1>7

-----------------------------------------------------------------------------
(* What a phase selects.                                                    *)

\* What fits is taken in turn: no more than the budget of the phase, and
\* everything that is represented if that is within the budget.
LEMMA WithinBudgetIs ==
    ASSUME NEW q, PlanQuestion(q)
    PROVE  /\ WithinBudget(q) \subseteq Represented(q)
           /\ NewBytesOf(q, WithinBudget(q)) <= PhaseBudget(q)
           /\ NewBytesOf(q, Represented(q)) <= PhaseBudget(q)
                 => WithinBudget(q) = Represented(q)
<1> PICK all, l, budget :
        /\ all = Represented(q) /\ l = InTurn(q, all) /\ budget = PhaseBudget(q)
  OBVIOUS
<1>1. all \in SUBSET Eligible(q) /\ all \in SUBSET Resources(q) /\ budget \in Nat
  BY EligibleAre, PlanAssumption DEF PhaseBudget
<1>2. PICK n \in Nat :
          /\ DOMAIN l = 1 .. n
          /\ \A i \in 1 .. n : l[i] \in all
          /\ \A x \in all : \E i \in 1 .. n : l[i] = x
          /\ \A i, j \in 1 .. n : i = j <=> l[i] = l[j]
  BY <1>1, InTurnIs
<1> DEFINE D == 1 .. n
           V == SUBSET all
           Step(taken, r) == IF NewBytesOf(q, taken) + NewBytes(q, r) <= budget
                             THEN taken \cup {r} ELSE taken
           fold == CHOOSE it : it = [s \in SUBSET DOMAIN l |->
                       IF s = {} THEN {} ELSE Step(it[s \ {Max(s)}], l[Max(s)])]
           st == [e \in V \X D |-> Step(e[1], l[e[2]])]
<1>0. DOMAIN l = D
  BY <1>2
<1>3. WithinBudget(q) = fold[DOMAIN l]
  BY DEF WithinBudget, FoldLeft, MapThenFoldSet
<1>4. ASSUME NEW x \in V, NEW i \in D PROVE Step(x, l[i]) \in V
  BY <1>2
<1>5. st \in [V \X D -> V] /\ \A x \in V, i \in D : st[<<x, i>>] = Step(x, l[i])
  <2> HIDE DEF V, Step, D
  <2> QED  BY <1>4
<1>6. ASSUME NEW s \in SUBSET D, s # {} PROVE Max(s) \in D
  <2>1. s \subseteq 0 .. n
    BY <1>2
  <2>2. Max(s) \in s
    BY <1>2, <1>6, <2>1, MaxOf
  <2> QED  BY <2>2
<1>7. {} \in V
  OBVIOUS
<1> HIDE DEF st, V, Step, fold
<1>8. PICK it \in [SUBSET D -> V] : InTurns(it, n, {}, st)
  BY <1>2, <1>5, <1>7, TurnsExist
<1>9. it = [s \in SUBSET DOMAIN l |-> IF s = {} THEN {} ELSE Step(it[s \ {Max(s)}], l[Max(s)])]
  <2>1. ASSUME NEW s \in SUBSET D, s # {}
        PROVE  st[<<it[s \ {Max(s)}], Max(s)>>] = Step(it[s \ {Max(s)}], l[Max(s)])
    <3>1. Max(s) \in D /\ it[s \ {Max(s)}] \in V
      BY <1>6, <2>1
    <3> QED  BY <1>5, <3>1
  <2> HIDE DEF D
  <2> QED  BY <1>0, <1>8, <2>1 DEF InTurns, D
<1>10. fold = [s \in SUBSET DOMAIN l |->
                  IF s = {} THEN {} ELSE Step(fold[s \ {Max(s)}], l[Max(s)])]
  BY <1>9 DEF fold
<1>11. \A s \in SUBSET D : fold[s] = IF s = {} THEN {} ELSE Step(fold[s \ {Max(s)}], l[Max(s)])
  <2> HIDE DEF D
  <2> QED  BY <1>0, <1>10
<1> DEFINE Upto(k) == {l[i] : i \in 1 .. k}
           Taken(x, k) == /\ x \subseteq Upto(k) /\ x \subseteq all
                          /\ NewBytesOf(q, x) <= budget
                          /\ NewBytesOf(q, all) <= budget => x = Upto(k)
           T == {k \in Nat : k <= n => Taken(fold[1 .. k], k)}
<1>12. 0 \in T
  <2>1. 1 .. 0 = {} /\ {} \in SUBSET D
    OBVIOUS
  <2>2. fold[1 .. 0] = {} /\ Upto(0) = {}
    <3>1. fold[{}] = {}
      <4> HIDE DEF D
      <4> QED  BY <1>11, <2>1
    <3> QED  BY ONLY <2>1, <3>1
  <2>3. NewBytesOf(q, {}) <= budget
    BY <1>1, NewBytesSteps
  <2> HIDE DEF Upto
  <2> QED  BY <2>2, <2>3
<1>13. ASSUME NEW k \in T PROVE k + 1 \in T
  <2>1. SUFFICES ASSUME k + 1 <= n PROVE Taken(fold[1 .. (k + 1)], k + 1)
    OBVIOUS
  <2>2. k \in Nat /\ k < n /\ Taken(fold[1 .. k], k)
    BY <1>2, <2>1
  <2> PICK R, U, x, y, r : /\ R = 1 .. (k + 1) /\ U = 1 .. k /\ x = fold[U] /\ y = fold[R]
                           /\ r = l[k + 1]
    OBVIOUS
  <2>3. R \in SUBSET D /\ R # {} /\ Max(R) = k + 1 /\ R \ {k + 1} = U /\ k + 1 \in D
    BY <1>2, <2>1, <2>2, LastTurn
  <2>4. y = IF NewBytesOf(q, x) + NewBytes(q, r) <= budget THEN x \cup {r} ELSE x
    <3>1. fold[R] = Step(fold[R \ {Max(R)}], l[Max(R)])
      BY <1>11, <2>3
    <3>2. y = Step(x, r)
      BY <2>3, <3>1
    <3> QED  BY ONLY <3>2 DEF Step
  <2>5. Taken(x, k)
    BY <2>2
  <2>6. Upto(k + 1) = Upto(k) \cup {r}
    <3>1. 1 .. (k + 1) = (1 .. k) \cup {k + 1}
      BY <2>2
    <3> QED  BY <3>1
  <2>7. r \notin Upto(k) /\ r \in all
    <3>1. ASSUME NEW i \in 1 .. k PROVE l[i] # l[k + 1]
      <4>1. i \in 1 .. n /\ k + 1 \in 1 .. n /\ i # k + 1
        BY <1>2, <2>2, <2>3
      <4> QED  BY <1>2, <4>1
    <3> QED  BY <1>2, <2>3, <3>1
  <2> PICK u, v : u = Upto(k) /\ v = Upto(k + 1)
    OBVIOUS
  <2>8. /\ x \subseteq u /\ x \subseteq all /\ NewBytesOf(q, x) <= budget
        /\ NewBytesOf(q, all) <= budget => x = u
        /\ v = u \cup {r} /\ r \notin u /\ r \in all
    BY <2>5, <2>6, <2>7
  <2> HIDE DEF Upto, T
  <2>9. /\ NewBytesOf(q, x) \in Nat /\ NewBytes(q, r) \in Nat /\ NewBytesOf(q, all) \in Nat
        /\ NewBytesOf(q, x \cup {r}) = NewBytes(q, r) + NewBytesOf(q, x)
        /\ NewBytesOf(q, x \cup {r}) <= NewBytesOf(q, all)
    <3>1. x \in SUBSET Resources(q) /\ r \in Resources(q) \ x /\ x \cup {r} \in SUBSET all
      BY <1>1, <2>8
    <3>2. /\ NewBytesOf(q, x) \in Nat /\ NewBytes(q, r) \in Nat
          /\ NewBytesOf(q, x \cup {r}) = NewBytes(q, r) + NewBytesOf(q, x)
      BY <3>1, NewBytesSteps
    <3>3. NewBytesOf(q, all) \in Nat /\ NewBytesOf(q, x \cup {r}) <= NewBytesOf(q, all)
      BY <1>1, <3>1, NewBytesSteps
    <3> QED  BY <3>2, <3>3
  <2> PICK a, b, c, d : /\ a = NewBytesOf(q, x) /\ b = NewBytes(q, r) /\ c = NewBytesOf(q, all)
                        /\ d = NewBytesOf(q, x \cup {r})
    OBVIOUS
  <2>10. a \in Nat /\ b \in Nat /\ c \in Nat /\ budget \in Nat /\ d = b + a /\ d <= c
    BY <1>1, <2>9
  <2>11. CASE a + b <= budget
    <3>1. y = x \cup {r}
      BY <2>4, <2>11
    <3>2. NewBytesOf(q, y) <= budget
      BY <2>10, <2>11, <3>1
    <3>3. y \subseteq v /\ y \subseteq all /\ (NewBytesOf(q, all) <= budget => y = v)
      BY <2>8, <3>1
    <3> QED  BY <3>2, <3>3
  <2>12. CASE ~(a + b <= budget)
    <3>1. y = x
      BY <2>4, <2>12
    <3>2. ~(c <= budget)
      BY ONLY <2>10, <2>12
    <3> QED  BY <2>8, <3>1, <3>2
  <2> QED  BY <2>11, <2>12
<1>14. T = Nat
  <2> HIDE DEF T
  <2>1. T \subseteq Nat
    BY DEF T
  <2> QED  BY <1>12, <1>13, <2>1, NatInductive
<1>15. Taken(fold[1 .. n], n)
  BY <1>2, <1>14
<1>16. Upto(n) = all
  BY <1>2
<1>17. WithinBudget(q) = fold[1 .. n]
  BY <1>2, <1>3
<1> HIDE DEF Upto, T
<1> QED  BY <1>15, <1>16, <1>17

\* The last ones are given up, if at all, until enough is free.
LEMMA RetainedIs ==
    ASSUME NEW q, PlanQuestion(q)
    PROVE  /\ Retained(q) \subseteq WithinBudget(q)
           /\ NewBytesOf(q, Retained(q)) <= PhaseBudget(q)
           /\ DiskKnown(q) /\ Retained(q) # {} => LeavesFree(q, Retained(q))
           /\ ~DiskKnown(q) \/ LeavesFree(q, WithinBudget(q)) => Retained(q) = WithinBudget(q)
<1> PICK all, l : all = WithinBudget(q) /\ l = InTurn(q, all)
  OBVIOUS
<1>1. all \in SUBSET Eligible(q) /\ all \in SUBSET Resources(q)
  BY WithinBudgetIs, EligibleAre
<1>2. PICK n \in Nat :
          /\ l \in Seq(all) /\ Len(l) = n /\ DOMAIN l = 1 .. n
          /\ \A i \in 1 .. n : l[i] \in all
          /\ \A x \in all : \E i \in 1 .. n : l[i] = x
  <2>1. \E n \in Nat :
              /\ InTurn(q, all) \in Seq(all) /\ Len(InTurn(q, all)) = n
              /\ DOMAIN InTurn(q, all) = 1 .. n
              /\ \A i \in 1 .. n : InTurn(q, all)[i] \in all
              /\ \A x \in all : \E i \in 1 .. n : InTurn(q, all)[i] = x
              /\ \A i, j \in 1 .. n : i = j <=> InTurn(q, all)[i] = InTurn(q, all)[j]
    BY <1>1, InTurnIs
  <2> QED  BY <2>1
<1> DEFINE First(m) == ToSet(SubSeq(l, 1, m))
           fits == {m \in 0 .. Len(l) : m = 0 \/ LeavesFree(q, First(m))}
<1>3. Retained(q) = IF DiskKnown(q) THEN First(Max(fits)) ELSE ToSet(l)
  BY DEF Retained
<1>4. ToSet(l) = all
  BY <1>2 DEF ToSet
<1>5. ASSUME NEW m \in 0 .. n
      PROVE  First(m) = {l[i] : i \in 1 .. m}
  <2>1. /\ DOMAIN SubSeq(l, 1, m) = 1 .. m
        /\ \A i \in 1 .. m : SubSeq(l, 1, m)[i] = l[i]
    <3>1. 1 \in 1 .. (n + 1) /\ m \in 0 .. n
      BY <1>2
    <3>2. /\ Len(SubSeq(l, 1, m)) = m /\ SubSeq(l, 1, m) \in Seq(all)
          /\ \A i \in 1 .. m : SubSeq(l, 1, m)[i] = l[1 + i - 1]
      BY <1>2, SubSeqProperties
    <3>3. \A i \in 1 .. m : 1 + i - 1 = i
      OBVIOUS
    <3>4. DOMAIN SubSeq(l, 1, m) = 1 .. m
      BY <3>2, LenProperties
    <3> QED  BY <3>2, <3>3, <3>4
  <2> QED  BY <2>1 DEF ToSet
<1> HIDE DEF First
<1>6. fits \subseteq 0 .. n /\ 0 \in fits
  BY <1>2
<1>7. Max(fits) \in fits /\ \A m \in fits : Max(fits) >= m
  <2> HIDE DEF fits
  <2> QED  BY <1>2, <1>6, MaxOf
<1> PICK m : m = Max(fits)
  OBVIOUS
<1>8. m \in 0 .. n /\ (m = 0 \/ LeavesFree(q, First(m))) /\ \A k \in fits : m >= k
  BY <1>2, <1>7
<1>9. First(m) \subseteq all /\ First(0) = {} /\ First(n) = all
  <2>1. \A i \in 1 .. m : i \in 1 .. n
    BY <1>2, <1>8
  <2>2. 0 \in 0 .. n /\ n \in 0 .. n /\ 1 .. 0 = {}
    BY <1>2
  <2>3. First(0) = {l[i] : i \in 1 .. 0}
    BY <1>5, <2>2
  <2>4. First(m) = {l[i] : i \in 1 .. m} /\ First(n) = {l[i] : i \in 1 .. n}
    BY <1>5, <1>8, <2>2
  <2>5. First(m) \subseteq all
    BY <1>2, <2>1, <2>4
  <2>6. First(n) = all
    BY <1>2, <2>4
  <2>7. First(0) = {}
    BY <2>2, <2>3
  <2> QED  BY <2>5, <2>6, <2>7
<1>10. Retained(q) = IF DiskKnown(q) THEN First(m) ELSE all
  BY <1>3, <1>4
<1>11. Retained(q) \subseteq all
  BY <1>9, <1>10
<1>12. DiskKnown(q) /\ Retained(q) # {} => LeavesFree(q, Retained(q))
  BY <1>8, <1>9, <1>10
<1>13. ASSUME LeavesFree(q, all), DiskKnown(q) PROVE Retained(q) = all
  <2>1. n \in fits
    BY <1>2, <1>9, <1>13
  <2>2. m = n
    <3> HIDE DEF fits
    <3>1. m >= n
      BY <1>8, <2>1
    <3> QED  BY <1>2, <1>8, <3>1
  <2> QED  BY <1>9, <1>10, <1>13, <2>2
<1>14. NewBytesOf(q, Retained(q)) <= PhaseBudget(q)
  <2> PICK ret : ret = Retained(q)
    OBVIOUS
  <2>1. ret \in SUBSET all /\ ret \in SUBSET Resources(q)
    BY <1>1, <1>11
  <2>2. NewBytesOf(q, ret) \in Nat /\ NewBytesOf(q, all) \in Nat
    BY <1>1, <2>1, NewBytesSteps
  <2>3. NewBytesOf(q, ret) <= NewBytesOf(q, all)
    BY <1>1, <2>1, NewBytesSteps
  <2>4. NewBytesOf(q, all) <= PhaseBudget(q) /\ PhaseBudget(q) \in Nat
    BY WithinBudgetIs, PlanAssumption DEF PhaseBudget
  <2> QED  BY <2>2, <2>3, <2>4
<1> QED  BY <1>10, <1>11, <1>12, <1>13, <1>14

-----------------------------------------------------------------------------
(* Who is shown.                                                            *)

\* Each owner is shown by what the phase represents, in p0 by one resource only:
\* the first that is of the owner.
LEMMA OwnersShown ==
    ASSUME NEW q, PlanQuestion(q), NEW r \in Eligible(q), NEW o \in OwnersOf(q, r)
    PROVE  /\ \E s \in Represented(q) : o \in OwnersOf(q, s)
           /\ q.phase = "p0" => Cardinality({s \in Represented(q) : o \in NewOwners(q, s)}) = 1
<1> DEFINE S == {s \in Eligible(q) : o \in OwnersOf(q, s)}
<1>1. S \in SUBSET Eligible(q) /\ S # {}
  OBVIOUS
<1>2. IsFiniteSet(S) /\ Orders(Turns(q, S), S) /\ Orders(Turns(q, Eligible(q)), Eligible(q))
  BY <1>1, EligibleAre, TurnsOrder
<1>3. PICK f \in S : \A s \in S \ {f} : <<f, s>> \in Turns(q, S)
  <2> HIDE DEF S
  <2> QED  BY <1>1, <1>2, FirstOf
<1>4. \A s \in S \ {f} : Before(q, f, s)
  BY <1>3 DEF Turns
<1>5. CASE q.phase = "p1"
  <2>1. NewOwners(q, r) = OwnersOf(q, r)
    BY <1>5 DEF NewOwners
  <2>2. r \in Represented(q)
    BY <2>1 DEF Represented
  <2> QED  BY <1>5, <2>2
<1>6. CASE q.phase = "p0"
  <2>1. \A s : NewOwners(q, s) = OwnersOf(q, s)
                   \ UNION {OwnersOf(q, x) : x \in {y \in Eligible(q) : Before(q, y, s)}}
    BY <1>6 DEF NewOwners
  <2>2. ASSUME NEW s \in S, Before(q, s, f) PROVE FALSE
    <3>1. s = f \/ Before(q, f, s)
      BY <1>4
    <3>2. <<s, f>> \in Turns(q, S) /\ (s = f \/ <<f, s>> \in Turns(q, S))
      BY <2>2, <3>1 DEF Turns
    <3> HIDE DEF S
    <3> QED  BY <1>2, <3>2 DEF Orders
  <2>3. o \in NewOwners(q, f)
    BY <2>1, <2>2
  <2>4. f \in Represented(q)
    BY <2>3 DEF Represented
  <2>5. ASSUME NEW s \in Represented(q), o \in NewOwners(q, s) PROVE s = f
    <3>1. s \in S
      BY <2>1, <2>5 DEF Represented
    <3>2. ~Before(q, f, s)
      BY <2>1, <2>5
    <3> QED  BY <1>4, <3>1, <3>2
  <2>6. {s \in Represented(q) : o \in NewOwners(q, s)} = {f}
    BY <2>3, <2>4, <2>5
  <2>7. Cardinality({f}) = 1
    BY FS_Singleton
  <2> QED  BY <2>4, <2>6, <2>7
<1> QED  BY <1>5, <1>6, QuestionIs

-----------------------------------------------------------------------------
(* What a decision changes.                                                 *)

\* A request whose rows are those of another, for a part of its resources that
\* it represents: it represents them all.
PartOf(p, q, A) ==
    /\ p.phase = q.phase /\ DOMAIN p.resources = A
    /\ \A r \in A : p.resources[r] = q.resources[r]

LEMMA RowsOfAPart ==
    ASSUME NEW q, PlanQuestion(q), NEW A \in SUBSET Resources(q),
           NEW p, PartOf(p, q, A)
    PROVE  /\ Resources(p) = A /\ Eligible(p) = Eligible(q) \cap A
           /\ \A r \in A : /\ EligibleRows(p, r) = EligibleRows(q, r)
                           /\ OwnersOf(p, r) = OwnersOf(q, r)
                           /\ NewBytes(p, r) = NewBytes(q, r)
           /\ \A r, s \in A : Before(p, r, s) <=> Before(q, r, s)
<1>1. Resources(p) = A
  BY DEF Resources, PartOf
<1>2. \A r \in A : EligibleRows(p, r) = EligibleRows(q, r)
  BY DEF EligibleRows, PartOf
<1>3. \A r \in A : OwnersOf(p, r) = OwnersOf(q, r) /\ NewBytes(p, r) = NewBytes(q, r)
  BY <1>2 DEF OwnersOf, NewBytes, PartOf
<1>4. \A r, s \in A : Before(p, r, s) <=> Before(q, r, s)
  BY <1>2 DEF Before
<1>5. Eligible(p) = Eligible(q) \cap A
  BY <1>1, <1>2 DEF Eligible
<1> QED  BY <1>1, <1>2, <1>3, <1>4, <1>5

LEMMA RepresentedOfAPart ==
    ASSUME NEW q, PlanQuestion(q), NEW A \in SUBSET Represented(q),
           NEW p, PlanQuestion(p), PartOf(p, q, A)
    PROVE  /\ Represented(p) = A
           /\ \A S \in SUBSET A : NewBytesOf(p, S) = NewBytesOf(q, S)
<1>1. A \in SUBSET Eligible(q) /\ A \in SUBSET Resources(q)
  BY EligibleAre
<1>2. /\ Resources(p) = A /\ Eligible(p) = A
      /\ \A r \in A : OwnersOf(p, r) = OwnersOf(q, r) /\ NewBytes(p, r) = NewBytes(q, r)
      /\ \A r, s \in A : Before(p, r, s) <=> Before(q, r, s)
  BY <1>1, RowsOfAPart
<1>3. ASSUME NEW r \in A PROVE NewOwners(p, r) # {}
  <2>1. NewOwners(q, r) # {} /\ p.phase = q.phase
    BY DEF Represented, PartOf
  <2>2. PICK o : o \in NewOwners(q, r)
    BY <2>1
  <2>3. o \in OwnersOf(p, r)
    BY <1>2, <2>2 DEF NewOwners
  <2>4. CASE q.phase = "p1"
    BY <2>1, <2>3, <2>4 DEF NewOwners
  <2>5. CASE q.phase # "p1"
    <3>1. ASSUME NEW s \in A, Before(p, s, r) PROVE o \notin OwnersOf(p, s)
      <4>1. Before(q, s, r) /\ s \in Eligible(q)
        BY <1>1, <1>2, <3>1
      <4>2. o \notin OwnersOf(q, s)
        BY <2>2, <2>5, <4>1 DEF NewOwners
      <4> QED  BY <1>2, <4>2
    <3>2. o \in NewOwners(p, r)
      BY <1>2, <2>1, <2>3, <2>5, <3>1 DEF NewOwners
    <3> QED  BY <3>2
  <2> QED  BY <2>4, <2>5
<1>4. Represented(p) = A
  BY <1>2, <1>3 DEF Represented
<1>5. ASSUME NEW S \in SUBSET A PROVE NewBytesOf(p, S) = NewBytesOf(q, S)
  <2>1. \A r \in S : NewBytes(p, r) = NewBytes(q, r)
    BY <1>2
  <2> QED  BY <2>1, SumsAgree
<1> QED  BY <1>4, <1>5

\* The request for an approved part.
LEMMA ApprovedPart ==
    ASSUME NEW q, PlanQuestion(q), NEW A \in SUBSET Resources(q),
           NEW p, p = [q EXCEPT !.resources = Restrict(@, A)]
    PROVE  PlanQuestion(p) /\ PartOf(p, q, A) /\ p.capacity = q.capacity
<1> PICK owners : \E S \in SUBSET Nat :
          /\ IsFiniteSet(S)
          /\ q \in [phase : {"p0", "p1"}, capacity : PlanCapacity,
                    resources : [S -> PlanResources(owners)]]
  BY DEF PlanQuestion
<1>1. PICK S \in SUBSET Nat :
          /\ IsFiniteSet(S)
          /\ q \in [phase : {"p0", "p1"}, capacity : PlanCapacity,
                    resources : [S -> PlanResources(owners)]]
  OBVIOUS
<1>2. A \in SUBSET Nat /\ IsFiniteSet(A) /\ A \subseteq S
  <2>1. A \in SUBSET S
    BY <1>1 DEF Resources
  <2> QED  BY <1>1, <2>1, FS_Subset
<1>3. Restrict(q.resources, A) \in [A -> PlanResources(owners)]
  BY <1>1, <1>2 DEF Restrict
<1>4. p.phase = q.phase /\ p.capacity = q.capacity /\ p.resources = Restrict(q.resources, A)
  BY <1>1
<1>5. p \in [phase : {"p0", "p1"}, capacity : PlanCapacity,
             resources : [A -> PlanResources(owners)]]
  BY <1>1, <1>3
<1>6. PlanQuestion(p)
  BY <1>2, <1>5 DEF PlanQuestion
<1>7. PartOf(p, q, A)
  BY <1>4 DEF PartOf, Restrict
<1> QED  BY <1>4, <1>6, <1>7

\* The request on a larger disk.
OnDisk(q, n) == [q EXCEPT !.capacity.free = @ + n]

LEMMA LargerDisk ==
    ASSUME NEW q, PlanQuestion(q), NEW n \in Nat, DiskKnown(q),
           NEW p, p = OnDisk(q, n)
    PROVE  /\ PlanQuestion(p) /\ DiskKnown(p)
           /\ p.capacity.free = q.capacity.free + n /\ p.capacity.growth = q.capacity.growth
           /\ Represented(p) = Represented(q)
           /\ \A T : NewBytesOf(p, T) = NewBytesOf(q, T)
<1> PICK owners : \E S \in SUBSET Nat :
          /\ IsFiniteSet(S)
          /\ q \in [phase : {"p0", "p1"}, capacity : PlanCapacity,
                    resources : [S -> PlanResources(owners)]]
  BY DEF PlanQuestion
<1>1. PICK S \in SUBSET Nat :
          /\ IsFiniteSet(S)
          /\ q \in [phase : {"p0", "p1"}, capacity : PlanCapacity,
                    resources : [S -> PlanResources(owners)]]
  OBVIOUS
<1>2. q.capacity \in PlanCapacity /\ q.capacity.free \in Nat /\ q.capacity.growth \in Nat
  BY <1>1 DEF DiskKnown, PlanCapacity
<1> PICK c : c = [q.capacity EXCEPT !.free = @ + n]
  OBVIOUS
<1>3. c \in PlanCapacity /\ c.free = q.capacity.free + n /\ c.growth = q.capacity.growth
  BY <1>2 DEF PlanCapacity
<1>4. p.phase = q.phase /\ p.resources = q.resources /\ p.capacity = c
  BY <1>1 DEF OnDisk
<1>5. p \in [phase : {"p0", "p1"}, capacity : PlanCapacity,
             resources : [S -> PlanResources(owners)]]
  BY <1>1, <1>3 DEF OnDisk
<1>6. PlanQuestion(p)
  BY <1>1, <1>5 DEF PlanQuestion
<1>7. DiskKnown(p)
  <2>1. p.capacity.free \in Nat /\ p.capacity.growth \in Nat
    <3> PICK f, g : f = q.capacity.free /\ g = q.capacity.growth
      OBVIOUS
    <3>1. f \in Nat /\ g \in Nat /\ c.free = f + n /\ c.growth = g
      BY <1>2, <1>3
    <3>2. c.free \in Nat /\ c.growth \in Nat
      BY ONLY <3>1, n \in Nat
    <3> QED  BY ONLY <1>4, <3>2
  <2>2. \A m \in Nat : m # Unknown
    BY DEF Unknown
  <2> QED  BY <2>1, <2>2 DEF DiskKnown
<1>8. /\ \A r : EligibleRows(p, r) = EligibleRows(q, r)
      /\ Resources(p) = Resources(q)
  BY <1>4 DEF EligibleRows, Resources
<1>9. /\ \A r : OwnersOf(p, r) = OwnersOf(q, r)
      /\ Eligible(p) = Eligible(q)
      /\ \A r, s : Before(p, r, s) <=> Before(q, r, s)
  BY <1>8 DEF OwnersOf, Eligible, Before
<1>10. ASSUME NEW r PROVE NewOwners(p, r) = NewOwners(q, r)
  <2>1. {x \in Eligible(p) : Before(p, x, r)} = {x \in Eligible(q) : Before(q, x, r)}
    BY ONLY <1>9
  <2> PICK T : T = {x \in Eligible(q) : Before(q, x, r)}
    OBVIOUS
  <2>2. UNION {OwnersOf(p, s) : s \in T} = UNION {OwnersOf(q, s) : s \in T}
    BY ONLY <1>9
  <2>3. {x \in Eligible(p) : Before(p, x, r)} = T /\ {x \in Eligible(q) : Before(q, x, r)} = T
    BY <2>1
  <2>4. p.phase = q.phase /\ OwnersOf(p, r) = OwnersOf(q, r)
    BY ONLY <1>4, <1>9
  <2> QED  BY ONLY <2>2, <2>3, <2>4 DEF NewOwners
<1>11. Represented(p) = Represented(q)
  BY <1>9, <1>10 DEF Represented
<1>12. \A r : NewBytes(p, r) = NewBytes(q, r)
  BY <1>4 DEF NewBytes
<1>13. \A T : NewBytesOf(p, T) = NewBytesOf(q, T)
  BY <1>12, SumsAgree
<1> QED  BY <1>3, <1>4, <1>6, <1>7, <1>11, <1>13

LEMMA RoundUpIs ==
    ASSUME NEW n \in Nat, NEW unit \in Nat \ {0}
    PROVE  RoundUp(n, unit) \in Nat /\ RoundUp(n, unit) >= n
<1> PICK m, k : m = n + unit - 1 /\ k = m \div unit
  OBVIOUS
<1>1. m \in Nat /\ unit \in Nat /\ unit > 0
  OBVIOUS
<1>2. k \in Nat /\ m < unit * k + unit
  BY <1>1
<1>3. unit * k \in Nat /\ unit * k = k * unit
  BY <1>1, <1>2
<1>4. RoundUp(n, unit) = k * unit
  BY DEF RoundUp
<1> QED  BY <1>1, <1>2, <1>3, <1>4

-----------------------------------------------------------------------------
(* The plan of a request.                                                   *)

\* What holds of the plan of any request.
LEMMA PlannedIs ==
    ASSUME NEW q, PlanQuestion(q), NEW x, x = Planned(q)
    PROVE  /\ x.selected = Retained(q) /\ x.overflow = Represented(q) \ Retained(q)
           /\ x.selected \cup x.overflow = Represented(q)
           /\ x.selected \cap x.overflow = {}
           /\ NewBytesOf(q, x.selected) <= PhaseBudget(q)
           /\ DiskKnown(q) /\ x.selected # {} => LeavesFree(q, x.selected)
           /\ x.state = "planned" => /\ x.overflow = {}
                                     /\ CapacityKnown(q) /\ Sufficient(q, x.selected)
           /\ x.expansion = Expansion(q, x.selected, x.overflow)
<1>1. /\ x.selected = Retained(q) /\ x.overflow = Represented(q) \ Retained(q)
      /\ x.state = PlanState(q, x.selected, x.overflow)
      /\ x.expansion = Expansion(q, x.selected, x.overflow)
  BY DEF Planned
<1>2. Retained(q) \subseteq Represented(q)
  BY RetainedIs, WithinBudgetIs
<1>3. /\ NewBytesOf(q, x.selected) <= PhaseBudget(q)
      /\ DiskKnown(q) /\ x.selected # {} => LeavesFree(q, x.selected)
  BY <1>1, RetainedIs
<1>4. x.state = "planned" => /\ x.overflow = {}
                             /\ CapacityKnown(q) /\ Sufficient(q, x.selected)
  BY <1>1 DEF PlanState
<1> QED  BY <1>1, <1>2, <1>3, <1>4

\* A disk that has room for everything that is represented gives nothing up.
LEMMA NothingGivenUp ==
    ASSUME NEW q, PlanQuestion(q), DiskKnown(q), LeavesFree(q, Represented(q))
    PROVE  Retained(q) = WithinBudget(q)
<1> PICK a, b, f, g : /\ a = NewBytesOf(q, WithinBudget(q)) /\ b = NewBytesOf(q, Represented(q))
                      /\ f = q.capacity.free /\ g = q.capacity.growth
  OBVIOUS
<1>1. a \in Nat /\ b \in Nat /\ a <= b
  <2>1. /\ Represented(q) \in SUBSET Resources(q)
        /\ WithinBudget(q) \in SUBSET Represented(q) /\ WithinBudget(q) \in SUBSET Resources(q)
    BY EligibleAre, WithinBudgetIs
  <2> QED  BY <2>1, NewBytesSteps
<1>2. f \in Nat /\ g \in Nat
  BY QuestionIs DEF DiskKnown, PlanCapacity
<1>3. MinimumFree \in Nat
  BY PlanAssumption
<1>4. f - g - b >= MinimumFree
  BY DEF LeavesFree
<1>5. f - g - a >= MinimumFree
  BY ONLY <1>1, <1>2, <1>3, <1>4
<1> QED  BY <1>5, RetainedIs DEF LeavesFree

LEMMA ExpansionIs ==
    ASSUME NEW q, PlanQuestion(q), NEW S, NEW T, S \cup T = Represented(q),
           T \subseteq Resources(q)
    PROVE  /\ Expansion(q, S, T) = 0 => DiskKnown(q) /\ LeavesFree(q, Represented(q))
           /\ Expansion(q, S, T) > 0 =>
                 /\ DiskKnown(q) /\ Expansion(q, S, T) \in Nat
                 /\ q.capacity.free + Expansion(q, S, T) - q.capacity.growth
                        - NewBytesOf(q, Represented(q)) >= MinimumFree
<1> PICK b, c, f, g, lacking, margin :
        /\ b = NewBytesOf(q, Represented(q)) /\ c = NewBytesOf(q, T)
        /\ f = q.capacity.free /\ g = q.capacity.growth
        /\ lacking = Larger(0, MinimumFree - (f - g - b))
        /\ margin = Larger(LocalFloor, Fifth(c))
  OBVIOUS
<1>1. b \in Nat /\ c \in Nat
  BY EligibleAre, NewBytesSteps
<1>2. MinimumFree \in Nat /\ LocalFloor \in Nat /\ ExpansionUnit \in Nat \ {0}
  BY PlanAssumption
<1>3. Expansion(q, S, T) = IF ~CapacityKnown(q) THEN Unknown
                           ELSE IF lacking = 0 THEN 0
                           ELSE RoundUp(lacking + margin, ExpansionUnit)
  BY DEF Expansion, Shortfall
<1>4. CASE ~CapacityKnown(q)
  <2>1. Expansion(q, S, T) = -1
    BY <1>3, <1>4 DEF Unknown
  <2> QED  BY <2>1
<1>5. CASE CapacityKnown(q)
  <2>1. DiskKnown(q)
    BY <1>5 DEF CapacityKnown
  <2>2. f \in Nat /\ g \in Nat
    BY <2>1, QuestionIs DEF DiskKnown, PlanCapacity
  <2>3. lacking \in Nat /\ lacking >= MinimumFree - (f - g - b)
    BY <1>1, <1>2, <2>2 DEF Larger
  <2>4. margin \in Nat
    BY <1>1, <1>2 DEF Larger, Fifth
  <2>5. CASE lacking = 0
    <3>1. Expansion(q, S, T) = 0
      BY <1>3, <1>5, <2>5
    <3>2. f - g - b >= MinimumFree
      BY ONLY <1>1, <1>2, <2>2, <2>3, <2>5
    <3> QED  BY <2>1, <3>1, <3>2 DEF LeavesFree
  <2>6. CASE lacking # 0
    <3> PICK e : e = RoundUp(lacking + margin, ExpansionUnit)
      OBVIOUS
    <3>1. Expansion(q, S, T) = e
      BY <1>3, <1>5, <2>6
    <3>2. lacking + margin \in Nat
      BY <2>3, <2>4
    <3>3. e \in Nat /\ e >= lacking + margin
      BY <1>2, <3>2, RoundUpIs
    <3>4. e > 0 /\ f + e - g - b >= MinimumFree
      BY ONLY <1>1, <1>2, <2>2, <2>3, <2>4, <2>6, <3>3
    <3> QED  BY <2>1, <3>1, <3>3, <3>4
  <2> QED  BY <2>5, <2>6
<1> QED  BY <1>4, <1>5

-----------------------------------------------------------------------------
(* What holds whatever is asked and decided.                                *)

LEMMA PlanInvInit ==
    ASSUME NEW requests, \A q \in requests : PlanQuestion(q), PlanInit(requests)
    PROVE  PlanInv
BY DEF PlanInit, PlanInv

LEMMA BuildPlanKeeps ==
    ASSUME PlanInv, BuildPlan
    PROVE  PlanInv'
<1>1. planRequest' = planRequest /\ planStage' = "planned" /\ plan' = Planned(planRequest)
  BY DEF BuildPlan
<1> QED  BY <1>1 DEF PlanInv

\* Any part of a plan may be approved: the plan of the part holds the part.  If it
\* is what was selected, it is selected again.
LEMMA ApprovePartKeeps ==
    ASSUME PlanInv, NEW A \in SUBSET Resources(planRequest), ApprovePart(A)
    PROVE  PlanInv'
<1> PICK q, p, x, y : /\ q = planRequest /\ p = [q EXCEPT !.resources = Restrict(@, A)]
                      /\ x = Planned(q) /\ y = Planned(p)
  OBVIOUS
<1>1. /\ planStage = "planned" /\ A # {} /\ A \subseteq plan.selected \cup plan.overflow
      /\ planRequest' = p
      /\ IF y.selected \cup y.overflow = A
         THEN planStage' = (IF A = plan.selected THEN "kept" ELSE "approved") /\ plan' = y
         ELSE planStage' = "refused" /\ UNCHANGED plan
  BY DEF ApprovePart
<1>2. PlanQuestion(q) /\ plan = x
  BY <1>1 DEF PlanInv
<1>3. /\ x.selected = Retained(q) /\ x.selected \cup x.overflow = Represented(q)
      /\ NewBytesOf(q, x.selected) <= PhaseBudget(q)
      /\ DiskKnown(q) /\ x.selected # {} => LeavesFree(q, x.selected)
  BY <1>2, PlannedIs
<1>4. PlanQuestion(p) /\ PartOf(p, q, A) /\ p.capacity = q.capacity
  BY <1>2, ApprovedPart
<1>5. Represented(p) = A /\ \A S \in SUBSET A : NewBytesOf(p, S) = NewBytesOf(q, S)
  <2>1. A \in SUBSET Represented(q)
    BY <1>1, <1>2, <1>3
  <2> QED  BY <1>2, <1>4, <2>1, RepresentedOfAPart
<1>6. /\ y.selected \cup y.overflow = A /\ y.selected = Retained(p)
      /\ y.overflow = A \ Retained(p)
  BY <1>4, <1>5, PlannedIs
<1>7. planStage' = (IF A = x.selected THEN "kept" ELSE "approved") /\ plan' = y
  BY <1>1, <1>2, <1>6
<1>8. ASSUME A = x.selected PROVE y.overflow = {}
  <2>1. PhaseBudget(p) = PhaseBudget(q) /\ NewBytesOf(p, A) = NewBytesOf(q, A)
    BY <1>4, <1>5 DEF PhaseBudget, PartOf
  <2>2. NewBytesOf(p, Represented(p)) <= PhaseBudget(p)
    BY <1>3, <1>5, <1>8, <2>1
  <2>3. WithinBudget(p) = A
    BY <1>4, <1>5, <2>2, WithinBudgetIs
  <2>4. DiskKnown(p) => LeavesFree(p, A)
    BY <1>1, <1>3, <1>4, <1>8, <2>1 DEF DiskKnown, LeavesFree
  <2>5. Retained(p) = A
    BY <1>4, <2>3, <2>4, RetainedIs
  <2> QED  BY <1>6, <2>5
<1> QED  BY <1>1, <1>4, <1>7, <1>8 DEF PlanInv

\* The recommended disk has room for everything.
LEMMA ExpandDiskKeeps ==
    ASSUME PlanInv, ExpandDisk
    PROVE  PlanInv'
<1> PICK q, p, x, y, n : /\ q = planRequest /\ n = plan.expansion
                         /\ p = OnDisk(q, n)
                         /\ x = Planned(q) /\ y = Planned(p)
  OBVIOUS
<1>1. /\ planStage = "planned" /\ n > 0 /\ planStage' = "expanded"
      /\ planRequest' = p /\ plan' = y
  BY DEF ExpandDisk, OnDisk
<1>2. PlanQuestion(q) /\ plan = x /\ n = x.expansion
  BY <1>1 DEF PlanInv
<1>3. /\ x.selected \cup x.overflow = Represented(q)
      /\ n = Expansion(q, x.selected, x.overflow)
  BY <1>2, PlannedIs
<1>4. /\ DiskKnown(q) /\ n \in Nat
      /\ q.capacity.free + n - q.capacity.growth - NewBytesOf(q, Represented(q)) >= MinimumFree
  <2>1. x.overflow \subseteq Resources(q)
    BY <1>2, <1>3, EligibleAre
  <2> QED  BY <1>1, <1>2, <1>3, <2>1, ExpansionIs
<1>5. /\ PlanQuestion(p) /\ DiskKnown(p)
      /\ p.capacity.free = q.capacity.free + n /\ p.capacity.growth = q.capacity.growth
      /\ Represented(p) = Represented(q)
      /\ NewBytesOf(p, Represented(p)) = NewBytesOf(q, Represented(q))
  <2>1. /\ PlanQuestion(p) /\ DiskKnown(p)
        /\ p.capacity.free = q.capacity.free + n /\ p.capacity.growth = q.capacity.growth
        /\ Represented(p) = Represented(q)
        /\ \A T : NewBytesOf(p, T) = NewBytesOf(q, T)
    <3>1. p = OnDisk(q, n)
      OBVIOUS
    <3> QED  BY ONLY <1>2, <1>4, <3>1, LargerDisk
  <2> QED  BY ONLY <2>1
<1>6. LeavesFree(p, Represented(p))
  <2> PICK f, g, b : /\ f = q.capacity.free /\ g = q.capacity.growth
                     /\ b = NewBytesOf(q, Represented(q))
    OBVIOUS
  <2>1. f + n - g - b >= MinimumFree
    BY ONLY <1>4, f = q.capacity.free, g = q.capacity.growth, b = NewBytesOf(q, Represented(q))
  <2>2. /\ p.capacity.free = f + n /\ p.capacity.growth = g
        /\ NewBytesOf(p, Represented(p)) = b
    BY <1>5
  <2>3. p.capacity.free - p.capacity.growth - NewBytesOf(p, Represented(p)) >= MinimumFree
    <3>1. f \in Nat /\ g \in Nat
      BY <1>2, <1>4, QuestionIs DEF DiskKnown, PlanCapacity
    <3>2. b \in Nat /\ n \in Nat /\ MinimumFree \in Nat
      BY <1>2, <1>4, EligibleAre, NewBytesSteps, PlanAssumption
    <3> PICK m, h, c : /\ m = p.capacity.free /\ h = p.capacity.growth
                       /\ c = NewBytesOf(p, Represented(p))
      OBVIOUS
    <3>3. m = f + n /\ h = g /\ c = b
      BY ONLY <2>2, m = p.capacity.free, h = p.capacity.growth,
              c = NewBytesOf(p, Represented(p))
    <3>4. m - h - c >= MinimumFree
      BY ONLY <2>1, <3>1, <3>2, <3>3
    <3> QED  BY <3>4
  <2> QED  BY ONLY <2>3 DEF LeavesFree
<1>7. Retained(p) = WithinBudget(p)
  BY <1>5, <1>6, NothingGivenUp
<1>8. y.overflow = Represented(p) \ WithinBudget(p)
  BY <1>5, <1>7, PlannedIs
<1> QED  BY <1>1, <1>5, <1>8 DEF PlanInv

LEMMA PlanInvStep ==
    ASSUME PlanInv, [PlanNext]_planVars
    PROVE  PlanInv'
<1>1. CASE BuildPlan
  BY <1>1, BuildPlanKeeps
<1>2. ASSUME NEW A \in SUBSET Resources(planRequest), ApprovePart(A) PROVE PlanInv'
  BY <1>2, ApprovePartKeeps
<1>3. CASE ExpandDisk
  BY <1>3, ExpandDiskKeeps
<1>4. CASE UNCHANGED planVars
  BY <1>4 DEF planVars, PlanInv
<1> QED  BY <1>1, <1>2, <1>3, <1>4 DEF PlanNext

LEMMA PlanInvSound ==
    ASSUME PlanInv
    PROVE  PlanSound
<1>1. SUFFICES ASSUME planStage # "requested" PROVE PlanSound
  BY DEF PlanSound
<1> PICK q, x : q = planRequest /\ x = plan
  OBVIOUS
<1>2. PlanQuestion(q) /\ x = Planned(q) /\ planStage # "refused"
  BY <1>1 DEF PlanInv
<1>3. /\ x.overflow = Represented(q) \ Retained(q)
      /\ x.selected \cup x.overflow = Represented(q)
      /\ x.selected \cap x.overflow = {}
      /\ NewBytesOf(q, x.selected) <= PhaseBudget(q)
      /\ DiskKnown(q) /\ x.selected # {} => LeavesFree(q, x.selected)
      /\ x.state = "planned" => /\ x.overflow = {}
                                /\ CapacityKnown(q) /\ Sufficient(q, x.selected)
      /\ x.expansion = Expansion(q, x.selected, x.overflow)
  BY <1>2, PlannedIs
<1>4. ASSUME NEW o \in UNION {OwnersOf(q, r) : r \in Eligible(q)}
      PROVE  /\ \E r \in Represented(q) : o \in OwnersOf(q, r)
             /\ q.phase = "p0" => Cardinality({r \in Represented(q) : o \in NewOwners(q, r)}) = 1
  <2>1. PICK r \in Eligible(q) : o \in OwnersOf(q, r)
    OBVIOUS
  <2> QED  BY <1>2, <2>1, OwnersShown
<1>5. ASSUME x.expansion = 0 PROVE x.overflow = Represented(q) \ WithinBudget(q)
  <2>1. x.overflow \subseteq Resources(q)
    BY <1>2, <1>3, EligibleAre
  <2>2. DiskKnown(q) /\ LeavesFree(q, Represented(q))
    BY <1>2, <1>3, <1>5, <2>1, ExpansionIs
  <2> QED  BY <1>2, <1>3, <2>2, NothingGivenUp
<1>6. /\ planStage = "kept" => x.overflow = {}
      /\ planStage = "expanded" => x.overflow = Represented(q) \ WithinBudget(q)
  BY DEF PlanInv
<1> QED  BY <1>2, <1>3, <1>4, <1>5, <1>6 DEF PlanSound

\* A plan of media divides what the phase may take into what it selects, within
\* the budget and the room there is, and what overflows; it shows each owner, in
\* p0 once; any part may be approved, and the recommended disk is large enough:
\* for any resources with any rows and sizes, and any capacities
\* (build_media_download_plan, apply_capacity_decision).
THEOREM PlanSafety ==
    ASSUME NEW requests, \A q \in requests : PlanQuestion(q)
    PROVE  PlanInit(requests) /\ [][PlanNext]_planVars => []PlanSound
<1>1. PlanInit(requests) => PlanInv
  BY PlanInvInit
<1>2. PlanInv /\ [PlanNext]_planVars => PlanInv'
  BY PlanInvStep
<1>3. PlanInv => PlanSound
  BY PlanInvSound
<1> QED  BY <1>1, <1>2, <1>3, PTL

-----------------------------------------------------------------------------
(* The parts together.                                                      *)

\* The requests the model checker asks for are requests.
LEMMA RequestsAre == \A q \in PlanRequests \cup {NoResources} : PlanQuestion(q)
<1>1. ASSUME NEW n \in Nat,
             NEW q \in [phase : {"p0", "p1"}, capacity : Capacities,
                        resources : [1 .. n -> Resource]]
      PROVE  PlanQuestion(q)
  <2>1. 1 .. n \in SUBSET Nat /\ IsFiniteSet(1 .. n)
    BY FS_Interval
  <2>2. Capacities \subseteq PlanCapacity
    BY PlanAssumption DEF Capacities, PlanCapacity
  <2> PICK owners : owners = {"page", "story", "activity"}
    OBVIOUS
  <2>3. RowsOfAResource \subseteq PlanRows(owners)
    <3> DEFINE E == [owner : owners, priority : Nat]
    <3>1. \A m \in Nat, o \in owners : Row(o, m) \in E
      BY DEF Row
    <3>2. /\ Row("page", 1) \in E /\ Row("page", 2) \in E
          /\ Row("story", 1) \in E /\ Row("activity", 1) \in E
      <4> HIDE DEF E
      <4> QED  BY <3>1
    <3> HIDE DEF E
    <3>3. \A x \in E, y \in E : <<x>> \in Seq(E) /\ <<x, y>> \in Seq(E)
      OBVIOUS
    <3>4. RowsOfAResource \subseteq Seq(E)
      BY <3>2, <3>3 DEF RowsOfAResource
    <3> QED  BY <3>4 DEF PlanRows, E
  <2>4. Resource \subseteq PlanResources(owners)
    BY <2>3, PlanAssumption DEF Resource, PlanResources
  <2>5. q \in [phase : {"p0", "p1"}, capacity : PlanCapacity,
               resources : [1 .. n -> PlanResources(owners)]]
    BY <2>2, <2>4
  <2> QED  BY <2>1, <2>5 DEF PlanQuestion
<1>2. ASSUME NEW q \in PlanRequests PROVE PlanQuestion(q)
  <2>1. \A n \in 1 .. MaxResources : n \in Nat
    BY PlanAssumption
  <2> QED  BY <1>1, <2>1 DEF PlanRequests
<1>3. PlanQuestion(NoResources)
  <2>1. NoResources.capacity \in PlanCapacity
    BY DEF NoResources, PlanCapacity
  <2>2. IsFiniteSet({}) /\ {} \in SUBSET Nat
    BY FS_EmptySet
  <2>3. <<>> \in [{} -> PlanResources({})]
    OBVIOUS
  <2>4. NoResources \in [phase : {"p0", "p1"}, capacity : PlanCapacity,
                         resources : [{} -> PlanResources({})]]
    BY <2>1, <2>3 DEF NoResources
  <2> QED  BY <2>2, <2>4 DEF PlanQuestion
<1> QED  BY <1>2, <1>3

PagesInv == VoiceInv /\ WikiInv /\ CorpusInv /\ PlanInv

LEMMA PagesStarts ==
    ASSUME PagesInit
    PROVE  PagesInv
<1>1. VoiceInv
  <2> DEFINE builds == IF part = "voice" THEN FirstBuilds ELSE {<<Unplayable>>}
  <2>1. FirstBuilds \subseteq Seq(VoiceRow) \ {<<>>}
    <3>1. ASSUME NEW n \in 1 .. MaxVoiceRows, NEW rows \in [1 .. n -> VoiceRow]
          PROVE  rows \in Seq(VoiceRow) \ {<<>>}
      <4>1. n \in Nat /\ n # 0
        BY VoiceAssumption
      <4>2. rows \in Seq(VoiceRow) /\ Len(rows) = n
        BY <4>1
      <4> QED  BY <4>1, <4>2
    <3> QED  BY <3>1 DEF FirstBuilds
  <2>2. <<Unplayable>> \in Seq(VoiceRow) \ {<<>>}
    <3>1. Unplayable \in VoiceRow
      BY DEF VoiceRow
    <3> QED  BY <3>1
  <2>3. builds \subseteq Seq(VoiceRow) \ {<<>>} /\ VoiceInit(builds)
    BY <2>1, <2>2 DEF PagesInit
  <2> HIDE DEF builds
  <2> QED  BY <2>3, VoiceStarts
<1>2. WikiInv
  <2> DEFINE routes == IF part = "wiki" THEN {Selection, 1, Alias} ELSE {Selection}
  <2>1. LastPage \in Nat \ {0}
    BY WikiAssumption
  <2>2. {Selection, 1, Alias} \subseteq WikiRoutes
    BY <2>1 DEF Selection, Alias, WikiRoutes
  <2>3. routes \subseteq WikiRoutes /\ BrowserInit(routes)
    BY <2>2 DEF PagesInit
  <2> HIDE DEF routes
  <2> QED  BY <2>3, WikiStarts
<1>3. CorpusInv
  BY InitCandidate DEF PagesInit
<1>4. PlanInv
  <2> DEFINE requests == IF part = "plan" THEN PlanRequests ELSE {NoResources}
  <2>1. (\A q \in requests : PlanQuestion(q)) /\ PlanInit(requests)
    BY RequestsAre DEF PagesInit
  <2> HIDE DEF requests
  <2> QED  BY <2>1, PlanInvInit
<1> QED  BY <1>1, <1>2, <1>3, <1>4 DEF PagesInv

\* A step is one of one part.
LEMMA PagesKeeps ==
    ASSUME PagesInv, [PagesNext]_allVars
    PROVE  PagesInv'
<1>1. VoiceInv /\ WikiInv /\ CorpusInv /\ PlanInv
  BY DEF PagesInv
<1>2. /\ [VoiceNext]_voiceVars /\ [BrowserNext]_browserVars
      /\ [CorpusNext]_corpusVars /\ [PlanNext]_planVars
  BY DEF PagesNext, InAnswer, InVoice, InWiki, InCorpus, InPlan, allVars
<1>3. VoiceInv' /\ WikiInv'
  BY <1>1, <1>2, VoiceKeeps, WikiKeeps
<1>4. CorpusInv' /\ PlanInv'
  BY <1>1, <1>2, CorpusKeeps, PlanInvStep
<1> QED  BY <1>3, <1>4 DEF PagesInv

\* In a behaviour of the composition that the model checker follows, the promises
\* of four parts hold at once: the lines of a panel, what the browser shows, what a
\* candidate claims and what may be downloaded.
THEOREM PagesSafety ==
    PagesSpec => [](VoicesInOrder /\ WikiShown /\ CandidateTrue /\ PlanSound)
<1>1. PagesInit => PagesInv
  BY PagesStarts
<1>2. PagesInv /\ [PagesNext]_allVars => PagesInv'
  BY PagesKeeps
<1>3. PagesInv => VoicesInOrder /\ WikiShown /\ CandidateTrue /\ PlanSound
  BY VoiceHolds, WikiHolds, InvIsTrue, PlanInvSound DEF PagesInv
<1> QED  BY <1>1, <1>2, <1>3, PTL DEF PagesSpec

=============================================================================
