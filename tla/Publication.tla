----------------------------- MODULE Publication -----------------------------
(***************************************************************************)
(* The publication of the two images of one commit to two registries       *)
(* (.github/scripts/): publish_registries.py copies a fresh build to TCR,  *)
(* the hard gate, and to the mirror GHCR, and writes a manifest;           *)
(* backfill_ghcr.py completes a mirror the manifest calls deferred, and    *)
(* writes an attestation.  Each is a workflow of which one run at a time   *)
(* works on the commit; the two are not excluded from each other.  An      *)
(* action is one command to a registry, and its failure another action.    *)
(***************************************************************************)
EXTENDS Naturals, FiniteSets
LOCAL INSTANCE Sequences

CONSTANTS
    Builds,        \* what the tags may resolve to: the builds of the runs
    MaxTransient,  \* failures of the network a run allows for GHCR (5 in the code)
    MaxOutages     \* bound of failures and kills (checking only)

ASSUME PublicationAssumption ==
    /\ MaxTransient \in Nat \ {0} /\ MaxOutages \in Nat /\ "absent" \notin Builds

VARIABLES
    tag,        \* what the tag of each registry and image resolves to
    job,        \* of each workflow: the step it is at, its build, its failures
    manifests,  \* the release manifests: a build and the images deferred
    attested,   \* the builds with a mirror attestation
    outages

publicationVars == <<tag, job, manifests, attested, outages>>

-----------------------------------------------------------------------------

Images == {"backend", "frontend"}

Registries == {"tcr", "ghcr"}

Workflows == {"publish", "backfill"}

Step(do, registry, image) == [do |-> do, at |-> registry, of |-> image]

LogIn(registry) == <<Step("login", registry, "none")>>

Both(do, registry) == <<Step(do, registry, "backend"), Step(do, registry, "frontend")>>

CopyAndVerify(registry, image) ==
    <<Step("copy", registry, image), Step("verify", registry, image)>>

Recorded == <<Step("write", "none", "none")>>

(* publish_release: TCR and then the mirror are found empty before TCR and   *)
(* then the mirror are written.                                              *)
Publishing ==
    LogIn("tcr") \o Both("absent", "tcr") \o LogIn("ghcr") \o Both("absent", "ghcr")
      \o CopyAndVerify("tcr", "backend") \o CopyAndVerify("tcr", "frontend")
      \o CopyAndVerify("ghcr", "backend") \o CopyAndVerify("ghcr", "frontend")
      \o Recorded

(* backfill_release *)
Backfilling ==
    LogIn("tcr") \o LogIn("ghcr") \o Both("source", "tcr")
      \o <<Step("ensure", "ghcr", "backend")>> \o CopyAndVerify("ghcr", "backend")
      \o <<Step("ensure", "ghcr", "frontend")>> \o CopyAndVerify("ghcr", "frontend")
      \o Both("final", "ghcr") \o Recorded

Script(w) == IF w = "publish" THEN Publishing ELSE Backfilling

FirstCopy == 7         \* in Publishing: after the preflight,

FirstMirrored == 11    \* and after TCR

NotStarted == [pc |-> 0, build |-> "absent", failures |-> 0, unsure |-> FALSE, deferred |-> {}]

Started(w) == job[w].pc # 0

Doing(w) == Script(w)[job[w].pc]

Does(w, do) == Started(w) /\ Doing(w).do = do

Found(w) == tag[Doing(w).at][Doing(w).of]

GoTo(w, place) == job' = [job EXCEPT ![w].pc = place, ![w].unsure = FALSE]

(* A mirror that was deferred in the preflight is not written. *)
Past(w, steps) ==
    IF w = "publish" /\ job[w].deferred # {} /\ job[w].pc + steps = FirstMirrored
    THEN Len(Publishing) ELSE job[w].pc + steps

GoOn(w, steps) == GoTo(w, Past(w, steps))

RunEnds(w) == job' = [job EXCEPT ![w] = NotStarted]

-----------------------------------------------------------------------------
(* The workflows are started by hand.  A publication builds the images anew, *)
(* a backfill wants a manifest with a deferred mirror.                       *)

UnusedBuild(b) ==
    /\ \A r \in Registries, i \in Images : tag[r][i] # b
    /\ \A m \in manifests : m.build # b

StartPublication ==
    /\ ~Started("publish")
    /\ \E b \in Builds : /\ UnusedBuild(b)
                         /\ job' = [job EXCEPT !["publish"] = [NotStarted EXCEPT !.pc = 1, !.build = b]]
    /\ UNCHANGED <<tag, manifests, attested, outages>>

StartBackfill ==
    /\ ~Started("backfill")
    /\ \E m \in manifests :
          /\ m.deferred # {}
          /\ job' = [job EXCEPT !["backfill"] = [NotStarted EXCEPT !.pc = 1, !.build = m.build]]
    /\ UNCHANGED <<tag, manifests, attested, outages>>

-----------------------------------------------------------------------------
(* The commands, when the registry answers. *)

LoggedIn(w) ==
    /\ Does(w, "login")
    /\ GoOn(w, 1)
    /\ UNCHANGED <<tag, manifests, attested, outages>>

(* The preflight of a publication: a tag with anything in it is a conflict.  *)
ProbeAbsent(w) ==
    /\ Does(w, "absent")
    /\ IF Found(w) = "absent" THEN GoOn(w, 1) ELSE RunEnds(w)
    /\ UNCHANGED <<tag, manifests, attested, outages>>

(* A backfill inspects its source by digest and not by tag: the digest of a  *)
(* released build is found as long as its tag is, and no tag is moved.       *)
ProbeExpected(w) ==
    /\ Does(w, "verify") \/ Does(w, "source") \/ Does(w, "final")
    /\ IF Found(w) = job[w].build THEN GoOn(w, 1) ELSE RunEnds(w)
    /\ UNCHANGED <<tag, manifests, attested, outages>>

\* Mutant of Adopts: a backfill wants an empty tag, as a publication does.
AdoptsNothing(found, build) == FALSE

(* A tag of the mirror that holds the build already is as good as a copy. *)
Adopts(found, build) == found = build

EnsureTarget(w) ==
    /\ Does(w, "ensure")
    /\ \/ Adopts(Found(w), job[w].build) /\ GoOn(w, 3)
       \/ ~Adopts(Found(w), job[w].build) /\ Found(w) = "absent" /\ GoOn(w, 1)
       \/ ~Adopts(Found(w), job[w].build) /\ Found(w) # "absent" /\ RunEnds(w)
    /\ UNCHANGED <<tag, manifests, attested, outages>>

Copy(w) ==
    /\ Does(w, "copy") /\ ~job[w].unsure
    /\ tag' = [tag EXCEPT ![Doing(w).at][Doing(w).of] = job[w].build]
    /\ GoOn(w, 1)
    /\ UNCHANGED <<manifests, attested, outages>>

(* After a copy that failed the tag is read before anything is tried again.  *)
Reconcile(w) ==
    /\ Does(w, "copy") /\ job[w].unsure
    /\ \/ Found(w) = job[w].build /\ GoOn(w, 2)
       \/ Found(w) = "absent" /\ GoOn(w, 0)
       \/ Found(w) \notin {"absent", job[w].build} /\ RunEnds(w)
    /\ UNCHANGED <<tag, manifests, attested, outages>>

(* The manifest, or the attestation, is written and uploaded. *)
WriteRecord(w) ==
    /\ Does(w, "write")
    /\ IF w = "publish"
       THEN /\ manifests' = manifests \cup
                   {[build |-> job[w].build, deferred |-> job[w].deferred]}
            /\ UNCHANGED attested
       ELSE /\ attested' = attested \cup {job[w].build}
            /\ UNCHANGED manifests
    /\ RunEnds(w)
    /\ UNCHANGED <<tag, outages>>

Answered(w) ==
    \/ LoggedIn(w) \/ ProbeAbsent(w) \/ ProbeExpected(w) \/ EnsureTarget(w)
    \/ Copy(w) \/ Reconcile(w) \/ WriteRecord(w)

-----------------------------------------------------------------------------
(* Failures. *)

(* A copy that failed or was interrupted may have reached the tag. *)
MayHaveCopied(w) ==
    \/ UNCHANGED tag
    \/ /\ Does(w, "copy") /\ ~job[w].unsure
       /\ tag' = [tag EXCEPT ![Doing(w).at][Doing(w).of] = job[w].build]

\* Mutant of Deferred: of the images of the mirror only the failed one is deferred.
DeferredAlone(image) == IF image = "none" THEN Images ELSE {image}

(* What is deferred when the budget is spent at an image: it and the ones    *)
(* after it, and in the preflight both.                                      *)
Deferred(image) == IF image = "frontend" THEN {"frontend"} ELSE Images

Defers(w) ==
    IF job[w].pc < FirstCopy
    THEN job' = [job EXCEPT ![w].pc = FirstCopy, ![w].deferred = Images]
    ELSE job' = [job EXCEPT ![w].pc = Len(Publishing), ![w].unsure = FALSE,
                            ![w].deferred = Deferred(Doing(w).of)]

(* A failure of the network.  TCR is allowed none; the failures of all       *)
(* commands to GHCR count together, and the last one defers the mirror, or   *)
(* ends a backfill.                                                          *)
NetworkFails(w) ==
    /\ Started(w) /\ Doing(w).do # "write" /\ outages < MaxOutages
    /\ outages' = outages + 1
    /\ MayHaveCopied(w)
    /\ IF Doing(w).at = "tcr" THEN RunEnds(w)
       ELSE IF job[w].failures + 1 < MaxTransient
       THEN job' = [job EXCEPT ![w].failures = @ + 1, ![w].unsure = Does(w, "copy")]
       ELSE IF w = "publish" THEN Defers(w) ELSE RunEnds(w)
    /\ UNCHANGED <<manifests, attested>>

(* A registry refuses for good, a file cannot be written, or the run is      *)
(* killed or cancelled.                                                      *)
Stopped(w) ==
    /\ Started(w) /\ outages < MaxOutages
    /\ outages' = outages + 1
    /\ MayHaveCopied(w)
    /\ RunEnds(w)
    /\ UNCHANGED <<manifests, attested>>

(* The operator removes a tag of a build that was not released.              *)
RemoveTag ==
    /\ ~Started("publish")
    /\ \E r \in Registries, i \in Images :
          /\ tag[r][i] # "absent"
          /\ \A m \in manifests : m.build # tag[r][i]
          /\ tag' = [tag EXCEPT ![r][i] = "absent"]
    /\ UNCHANGED <<job, manifests, attested, outages>>

-----------------------------------------------------------------------------

PublicationInit ==
    /\ tag = [r \in Registries |-> [i \in Images |-> "absent"]]
    /\ job = [w \in Workflows |-> NotStarted]
    /\ manifests = {} /\ attested = {} /\ outages = 0

PublicationNext ==
    \/ StartPublication \/ StartBackfill \/ RemoveTag
    \/ \E w \in Workflows : Answered(w) \/ NetworkFails(w) \/ Stopped(w)

(* Runs go on, and the operator starts and cleans up again and again. *)
PublicationFairness ==
    /\ \A w \in Workflows : WF_publicationVars(Answered(w))
    /\ SF_publicationVars(StartPublication)
    /\ SF_publicationVars(StartBackfill)
    /\ SF_publicationVars(RemoveTag)

PublicationSpec ==
    PublicationInit /\ [][PublicationNext]_publicationVars /\ PublicationFairness

-----------------------------------------------------------------------------
(* Properties. *)

(* The kinds of values the registries, the runs and the evidence take. *)
PublicationTypeOK ==
    /\ tag \in [Registries -> [Images -> Builds \cup {"absent"}]]
    /\ job \in [Workflows -> [pc : 0 .. Len(Publishing), build : Builds \cup {"absent"},
                              failures : 0 .. MaxTransient, unsure : BOOLEAN,
                              deferred : SUBSET Images]]
    /\ manifests \subseteq [build : Builds, deferred : SUBSET Images]
    /\ attested \subseteq Builds /\ outages \in 0 .. MaxOutages

(* What emit_release_env gives out for a registry can be pulled, now and     *)
(* later: a manifest is true of TCR and of the images it calls published, an *)
(* attestation of both images of the mirror, through failed copies that      *)
(* arrived, kills, clean-ups and publications of other builds.               *)
ReleasesHold ==
    /\ \A m \in manifests, i \in Images :
          /\ tag["tcr"][i] = m.build
          /\ i \notin m.deferred \/ m.build \in attested => tag["ghcr"][i] = m.build
    /\ \A b \in attested : \E m \in manifests : m.build = b

(* No run replaces what a tag resolves to, although the preflight looks long *)
(* before the copy and the backfill is not excluded.                         *)
NoTagMoves ==
    \A r \in Registries, i \in Images :
        tag'[r][i] # tag[r][i] => "absent" \in {tag[r][i], tag'[r][i]}

(* The release contract of the two workflows: no step breaks what the        *)
(* evidence says, or moves a tag.                                            *)
ReleasesImmutable == [][ReleasesHold' /\ NoTagMoves]_publicationVars

(* However often runs fail, once the registries answer and the operator      *)
(* cleans up and starts again, the commit is released in both registries.    *)
ReleaseCompletes ==
    []<>(\E m \in manifests : m.deferred = {} \/ m.build \in attested)
=============================================================================
