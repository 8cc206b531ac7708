--------------------------- MODULE SyncPullProofs ---------------------------
(***************************************************************************)
(* Proofs about module SyncPull, for any events, clients, clocks, page     *)
(* size, overlap and timeout.                                              *)
(***************************************************************************)
EXTENDS SyncPull, FiniteSetTheorems, TLAPS

-----------------------------------------------------------------------------
(* Pages: the order of a key that ends in the event id.                    *)

\* Every set of naturals that is not empty has a least element.
LEMMA LeastOf ==
    ASSUME NEW T \in SUBSET Nat, T # {}
    PROVE  \E x \in T : \A y \in T : x <= y
<1> DEFINE R == {ss \in Nat \X Nat : ss[1] < ss[2]}
<1>1. IsWellFoundedOn(R, Nat)
  BY NatLessThanWellFounded DEF OpToRel
<1> HIDE DEF R
<1>2. PICK x \in T : \A y \in T : ~(<<y, x>> \in R)
  BY <1>1, WFMin, Zenon
<1>3. \A y \in T : ~(y < x)
  BY <1>2 DEF R
<1> QED
  BY <1>3

\* The keys of the events of S: a number and the event's own id.
Keyed(S, key) == \A e \in S : key[e][1] \in Int /\ key[e][2] = e

\* On the keys of a listing, the keyset order is a strict total order.
LEMMA KeyOrder ==
    ASSUME NEW S \in SUBSET Events, NEW key, Keyed(S, key)
    PROVE  /\ \A e \in S : ~Before(key[e], key[e])
           /\ \A e, x \in S : e # x => Before(key[e], key[x]) \/ Before(key[x], key[e])
           /\ \A e, x \in S : Before(key[e], key[x]) => ~Before(key[x], key[e])
           /\ \A e, x, y \in S : Before(key[e], key[x]) /\ Before(key[x], key[y])
                                    => Before(key[e], key[y])
BY EventsAssumption DEF Keyed, Before

\* Fewer events of S lie above a later one.
LEMMA LastExists ==
    ASSUME NEW S \in SUBSET Events, S # {}, NEW key, Keyed(S, key)
    PROVE  \E e \in S : \A x \in S : ~Before(key[e], key[x])
<1> DEFINE Above(e) == {x \in S : Before(key[e], key[x])}
           T == {Cardinality(Above(e)) : e \in S}
<1>1. \A e \in S : IsFiniteSet(Above(e)) /\ Cardinality(Above(e)) \in Nat
  <2>1. IsFiniteSet(S)
    BY EventsAssumption, FS_Subset
  <2>2. \A e \in S : Above(e) \in SUBSET S
    OBVIOUS
  <2> HIDE DEF Above
  <2> QED
    BY <2>1, <2>2, FS_Subset, FS_CardinalityType
<1>2. T \in SUBSET Nat
  BY <1>1
<1>3. T # {}
  OBVIOUS
<1>4. PICK n \in T : \A k \in T : n <= k
  BY <1>2, <1>3, LeastOf
<1>5. PICK e \in S : n = Cardinality(Above(e))
  BY <1>4
<1>6. ASSUME NEW x \in S, Before(key[e], key[x]) PROVE FALSE
  <2>1. Above(x) \in SUBSET Above(e)
    BY <1>6, KeyOrder
  <2>2. x \in Above(e) /\ x \notin Above(x)
    BY <1>6, KeyOrder
  <2>3. Cardinality(Above(e)) <= Cardinality(Above(x))
    BY <1>4, <1>5
  <2> HIDE DEF Above
  <2>4. Cardinality(Above(x)) <= Cardinality(Above(e))
    BY <1>1, <2>1, FS_Subset
  <2>5. Above(x) = Above(e)
    BY <1>1, <2>1, <2>3, <2>4, FS_Subset
  <2> QED
    BY <2>2, <2>5
<1> QED
  BY <1>6

\* LastOf is the greatest event of a listing.
LEMMA LastOfFacts ==
    ASSUME NEW S \in SUBSET Events, S # {}, NEW key, Keyed(S, key)
    PROVE  /\ LastOf(S, key) \in S
           /\ \A x \in S : ~Before(key[LastOf(S, key)], key[x])
           /\ \A x \in S : x # LastOf(S, key) => Before(key[x], key[LastOf(S, key)])
<1>1. /\ LastOf(S, key) \in S
      /\ \A x \in S : ~Before(key[LastOf(S, key)], key[x])
  BY LastExists DEF LastOf
<1> QED
  BY <1>1, KeyOrder

\* What a page leaves out comes after all of the page, and a page is empty
\* only when nothing is left.
LEMMA FirstPageFacts ==
    ASSUME NEW S \in SUBSET Events, NEW key, Keyed(S, key)
    PROVE  /\ FirstPage(S, key) \in SUBSET S
           /\ \A p \in FirstPage(S, key), e \in S \ FirstPage(S, key) : Before(key[p], key[e])
           /\ S # {} => FirstPage(S, key) # {}
<1> DEFINE Below(e) == {x \in S : Before(key[x], key[e])}
           T == {Cardinality(Below(e)) : e \in S}
<1>1. \A e \in S : IsFiniteSet(Below(e)) /\ Cardinality(Below(e)) \in Nat
  <2>1. IsFiniteSet(S)
    BY EventsAssumption, FS_Subset
  <2>2. \A e \in S : Below(e) \in SUBSET S
    OBVIOUS
  <2> HIDE DEF Below
  <2> QED
    BY <2>1, <2>2, FS_Subset, FS_CardinalityType
<1>2. FirstPage(S, key) = {e \in S : Cardinality(Below(e)) < PageSize}
  BY DEF FirstPage
<1>3. ASSUME NEW p \in FirstPage(S, key), NEW e \in S \ FirstPage(S, key)
      PROVE  Before(key[p], key[e])
  <2>1. SUFFICES ASSUME ~Before(key[p], key[e]) PROVE FALSE
    OBVIOUS
  <2>2. p \in S /\ e \in S /\ p # e
    BY <1>2
  <2>3. Before(key[e], key[p])
    BY <2>1, <2>2, KeyOrder
  <2>4. Below(e) \in SUBSET Below(p)
    BY <2>2, <2>3, KeyOrder
  <2>5. Cardinality(Below(p)) < PageSize /\ ~(Cardinality(Below(e)) < PageSize)
    BY <1>2
  <2> HIDE DEF Below
  <2>6. Cardinality(Below(e)) <= Cardinality(Below(p))
    BY <1>1, <2>2, <2>4, FS_Subset
  <2> QED
    BY <1>1, <2>2, <2>5, <2>6, BoundsAssumption
<1>4. ASSUME S # {} PROVE FirstPage(S, key) # {}
  <2>1. T \in SUBSET Nat
    BY <1>1
  <2>2. T # {}
    BY <1>4
  <2>3. PICK n \in T : \A k \in T : n <= k
    BY <2>1, <2>2, LeastOf
  <2>4. PICK e \in S : n = Cardinality(Below(e))
    BY <2>3
  <2>5. ASSUME NEW x \in Below(e) PROVE FALSE
    <3>1. x \in S /\ Before(key[x], key[e])
      OBVIOUS
    <3>2. Below(x) \in SUBSET Below(e)
      BY <3>1, KeyOrder
    <3>3. x \notin Below(x)
      BY <3>1, KeyOrder
    <3>4. Cardinality(Below(e)) <= Cardinality(Below(x))
      BY <2>3, <2>4, <3>1
    <3> HIDE DEF Below
    <3>5. Cardinality(Below(x)) <= Cardinality(Below(e))
      BY <1>1, <3>2, FS_Subset
    <3>6. Below(x) = Below(e)
      BY <1>1, <3>1, <3>2, <3>4, <3>5, FS_Subset
    <3> QED
      BY <2>5, <3>3, <3>6
  <2>6. Below(e) = {}
    BY <2>5
  <2>7. Cardinality(Below(e)) = 0
    BY <2>6, FS_EmptySet
  <2> QED
    BY <1>2, <2>7, BoundsAssumption
<1> QED
  BY <1>2, <1>3, <1>4

-----------------------------------------------------------------------------
(* Nothing slips through the sweep.                                        *)

Times == Nat \cup {NULL}
NotAfter(t) == t # NULL => t <= hubNow

\* The events of the hub that neither the tables nor the staging area hold.
Missing == OnHub \ (Known \cup staged)

\* What a sweep that has listed up to p and started at s leaves to the pages
\* that follow, and to the next sweep.
Covered(p, s) == \A e \in Missing : Before(p, ListKey[e]) \/ created[e] >= s - Overlap

SweepTypeOK ==
    /\ hubNow \in Nat
    /\ created \in [Events -> Times] /\ \A e \in Events : NotAfter(created[e])
    /\ pushing \in [Clients -> Times] /\ \A c \in Clients : NotAfter(pushing[c])
    /\ lastSweep \in Times /\ NotAfter(lastSweep)
    /\ started \in Times /\ NotAfter(started)
    /\ progress # NULL => /\ progress.started \in Nat
                          /\ progress.started <= hubNow
                          /\ progress.position \in Int \X Int
    /\ phase = "list" => at \in Int \X Int

ProgressCovers == progress # NULL => Covered(progress.position, progress.started)

ListCovers ==
    phase = "list" => IF started = NULL THEN at = SweepWindow ELSE Covered(at, started)

ApplyCovers ==
    phase = "apply" => /\ started # NULL
                       /\ \A e \in Missing : created[e] >= started - Overlap

\* The inductive invariant: whatever is missing lies after the position of the
\* sweep under way, of the one that was interrupted, or within the overlap.
SweepInv == SweepTypeOK /\ NothingSlips /\ ProgressCovers /\ ListCovers /\ ApplyCovers

-----------------------------------------------------------------------------
LEMMA InitSweep == Init => SweepInv
BY BoundsAssumption
   DEF Init, SweepInv, SweepTypeOK, NothingSlips, ProgressCovers, ListCovers, ApplyCovers,
       NotAfter, Times, OnHub, Missing, Covered

\* The events on the hub have a storage time and are no positions themselves.
LEMMA HubKeys ==
    ASSUME SweepTypeOK
    PROVE  /\ \A e \in OnHub : created[e] \in Nat /\ created[e] <= hubNow /\ e \in Nat \ {0}
           /\ \A S \in SUBSET OnHub : Keyed(S, ListKey)
           /\ OnHub \in SUBSET Events
           /\ \A e \in OnHub : ListKey[e] = <<created[e], e>>
BY EventsAssumption, BoundsAssumption
   DEF SweepTypeOK, NotAfter, Times, OnHub, Keyed, ListKey

\* A transaction over S makes all of S known and forgets nothing.
LEMMA KnownGrows ==
    ASSUME NEW S, ApplyBatch(S)
    PROVE  Known \cup S \subseteq Known'
<1>1. PICK r \in {Batch(S)} : /\ applied' = applied \cup (S \ r.held)
                              /\ quarantine' = (quarantine \cup r.held) \ applied'
  BY DEF ApplyBatch
<1> HIDE DEF Batch
<1> QED
  BY <1>1 DEF Known

\* A step that leaves the hub and the pull alone, while more becomes known.
LEMMA MoreKnown ==
    ASSUME SweepInv, UNCHANGED <<hubVars, lastSweep, progress>>,
           Known \cup staged \subseteq Known' \cup staged', Known \subseteq Known'
    PROVE  /\ SweepTypeOK' <=> (/\ (started \in Times /\ NotAfter(started))'
                                /\ phase' = "list" => at' \in Int \X Int)
           /\ NothingSlips' /\ ProgressCovers'
           /\ Missing' \subseteq Missing
           /\ \A e \in Missing' : created'[e] = created[e] /\ ListKey'[e] = ListKey[e]
<1>1. /\ OnHub' = OnHub /\ ListKey' = ListKey /\ created' = created
      /\ hubNow' = hubNow /\ pushing' = pushing
  BY DEF OnHub, ListKey, hubVars
<1>2. Missing' \subseteq Missing
  BY <1>1 DEF Missing
<1>3. NothingSlips'
  BY <1>1 DEF SweepInv, NothingSlips
<1>4. ProgressCovers'
  BY <1>1, <1>2 DEF SweepInv, ProgressCovers, Covered
<1>5. SweepTypeOK' <=> (/\ (started \in Times /\ NotAfter(started))'
                        /\ phase' = "list" => at' \in Int \X Int)
  BY <1>1 DEF SweepInv, SweepTypeOK, NotAfter
<1> QED
  BY <1>1, <1>2, <1>3, <1>4, <1>5

\* A push that commits in time puts its rows inside the overlap of every sweep
\* that has started.
LEMMA CommitPushSweep ==
    ASSUME SweepInv, NEW c \in Clients, NEW acknowledged \in BOOLEAN, CommitPush(c, acknowledged)
    PROVE  SweepInv'
<1>1. pushing[c] \in Nat /\ pushing[c] <= hubNow /\ hubNow \in Nat /\ hubNow - pushing[c] <= PushTimeout
  BY DEF CommitPush, SweepInv, SweepTypeOK, NotAfter, Times
<1>2. /\ hubNow' = hubNow
      /\ UNCHANGED <<applied, quarantine, staged, lastSweep, progress, phase, at, started>>
  BY DEF CommitPush, replicaVars, sweepVars, pullVars
<1>3. SweepTypeOK'
  <2>1. created' \in [Events -> Times] /\ \A e \in Events : NotAfter(created[e])'
    BY <1>1, <1>2 DEF CommitPush, SweepInv, SweepTypeOK, NotAfter, Times
  <2>2. pushing' \in [Clients -> Times] /\ \A x \in Clients : NotAfter(pushing[x])'
    BY <1>1, <1>2 DEF CommitPush, SweepInv, SweepTypeOK, NotAfter, Times
  <2> QED
    BY <1>2, <2>1, <2>2 DEF SweepInv, SweepTypeOK, NotAfter
<1>4. ASSUME NEW e \in OnHub'
      PROVE  \/ e \in OnHub /\ created'[e] = created[e] /\ ListKey'[e] = ListKey[e]
             \/ created'[e] = pushing[c]
  BY DEF CommitPush, OnHub, ListKey
<1>5. Known' = Known
  BY <1>2 DEF Known
<1>6. ASSUME NEW s \in Nat, s <= hubNow PROVE pushing[c] >= s - Overlap
  BY <1>1, <1>6, TimeoutAssumption, BoundsAssumption
<1>7. NothingSlips'
  <2> SUFFICES ASSUME NEW e \in (OnHub \ Known)', lastSweep' # NULL
               PROVE  created'[e] >= lastSweep' - Overlap
    BY DEF NothingSlips
  <2>1. lastSweep \in Nat /\ lastSweep <= hubNow
    BY <1>2 DEF SweepInv, SweepTypeOK, NotAfter, Times
  <2> QED
    BY <1>2, <1>4, <1>5, <1>6, <2>1 DEF SweepInv, NothingSlips
<1>8. ASSUME NEW p, NEW s \in Nat, s <= hubNow, Covered(p, s), NEW e \in Missing'
      PROVE  Before(p, ListKey'[e]) \/ created'[e] >= s - Overlap
  <2>1. e \in OnHub' /\ e \notin Known \cup staged
    BY <1>2, <1>5 DEF Missing
  <2> QED
    BY <1>4, <1>6, <1>8, <2>1 DEF Covered, Missing
<1>9. ProgressCovers'
  <2> SUFFICES ASSUME progress # NULL
               PROVE  \A e \in Missing' : \/ Before(progress.position, ListKey'[e])
                                          \/ created'[e] >= progress.started - Overlap
    BY <1>2 DEF ProgressCovers, Covered
  <2>1. progress.started \in Nat /\ progress.started <= hubNow /\ Covered(progress.position, progress.started)
    BY DEF SweepInv, SweepTypeOK, ProgressCovers
  <2> QED
    BY <1>8, <2>1
<1>10. ListCovers'
  <2> SUFFICES ASSUME phase = "list", started # NULL
               PROVE  \A e \in Missing' : \/ Before(at, ListKey'[e])
                                          \/ created'[e] >= started - Overlap
    BY <1>2 DEF ListCovers, Covered, SweepWindow, SweepInv
  <2>1. started \in Nat /\ started <= hubNow /\ Covered(at, started)
    BY DEF SweepInv, SweepTypeOK, NotAfter, Times, ListCovers
  <2> QED
    BY <1>8, <2>1
<1>11. ApplyCovers'
  <2> SUFFICES ASSUME phase = "apply"
               PROVE  started # NULL /\ \A e \in Missing' : created'[e] >= started - Overlap
    BY <1>2 DEF ApplyCovers
  <2>1. started # NULL /\ started \in Nat /\ started <= hubNow
    BY DEF SweepInv, SweepTypeOK, NotAfter, Times, ApplyCovers
  <2>2. ASSUME NEW e \in Missing' PROVE created'[e] >= started - Overlap
    <3>1. e \in OnHub' /\ e \notin Known \cup staged
      BY <1>2, <1>5 DEF Missing
    <3>2. e \in OnHub => created[e] >= started - Overlap
      BY <3>1 DEF SweepInv, ApplyCovers, Missing
    <3> QED
      BY <1>4, <1>6, <2>1, <3>1, <3>2
  <2> QED
    BY <2>1, <2>2
<1> QED
  BY <1>3, <1>7, <1>9, <1>10, <1>11 DEF SweepInv

\* The other steps of the hub change no row and only add to its clock.
LEMMA HubSweep ==
    ASSUME SweepInv, \/ HubTick
                     \/ \E c \in Clients : BeginPush(c) \/ AbortPush(c)
    PROVE  SweepInv'
<1>1. /\ UNCHANGED <<created, applied, quarantine, staged, lastSweep, progress, phase, at, started>>
      /\ hubNow' \in Nat /\ hubNow' >= hubNow /\ hubNow \in Nat
  BY DEF HubTick, BeginPush, AbortPush, SweepInv, SweepTypeOK, replicaVars, sweepVars, pullVars
<1>2. pushing' \in [Clients -> Times] /\ \A c \in Clients : NotAfter(pushing[c])'
  <2>1. CASE HubTick
    BY <2>1 DEF HubTick, SweepInv, SweepTypeOK, NotAfter, Times
  <2>2. ASSUME NEW c \in Clients, BeginPush(c) \/ AbortPush(c)
        PROVE  pushing' \in [Clients -> Times] /\ \A x \in Clients : NotAfter(pushing[x])'
    BY <2>2 DEF BeginPush, AbortPush, SweepInv, SweepTypeOK, NotAfter, Times
  <2> QED
    BY <2>1, <2>2
<1>3. SweepTypeOK'
  BY <1>1, <1>2 DEF SweepInv, SweepTypeOK, NotAfter, Times
<1>4. NothingSlips' /\ ProgressCovers' /\ ListCovers' /\ ApplyCovers'
  BY <1>1 DEF SweepInv, NothingSlips, ProgressCovers, ListCovers, ApplyCovers, Covered, Missing,
              OnHub, Known, ListKey, SweepWindow
<1> QED
  BY <1>3, <1>4 DEF SweepInv

\* The steps of a pull outside the sweep, and a pull that fails.
LEMMA OutsideSweep ==
    ASSUME SweepInv,
           BeginPull \/ RetryPage \/ BeginCursorPass \/ CursorPage \/ FinishPull \/ FailPull
    PROVE  SweepInv'
<1>1. /\ UNCHANGED <<hubVars, lastSweep, progress>> /\ staged' = staged
      /\ started' \in {started, NULL} /\ phase' \notin {"list", "apply"}
  BY DEF BeginPull, RetryPage, BeginCursorPass, CursorPage, FinishPull, FailPull, sweepVars
<1>2. Known \subseteq Known'
  <2>1. CASE RetryPage
    BY <2>1, KnownGrows DEF RetryPage
  <2>2. CASE CursorPage
    BY <2>2, KnownGrows DEF CursorPage, ApplyPulled
  <2>3. CASE BeginPull \/ BeginCursorPass \/ FinishPull \/ FailPull
    BY <2>3 DEF BeginPull, BeginCursorPass, FinishPull, FailPull, replicaVars, Known
  <2> QED
    BY <2>1, <2>2, <2>3
<1>3. (started \in Times /\ NotAfter(started))'
  BY <1>1 DEF SweepInv, SweepTypeOK, NotAfter, Times, hubVars
<1>4. SweepTypeOK' /\ NothingSlips' /\ ProgressCovers'
  BY <1>1, <1>2, <1>3, MoreKnown
<1> QED
  BY <1>1, <1>4 DEF SweepInv, ListCovers, ApplyCovers

\* A sweep starts at its window, or where an interrupted one had got to.
LEMMA BeginSweepSweep ==
    ASSUME SweepInv, BeginSweep
    PROVE  SweepInv'
<1>1. /\ UNCHANGED <<hubVars, lastSweep, progress>> /\ staged' = staged /\ Known' = Known
      /\ phase' = "list"
  BY DEF BeginSweep, sweepVars, replicaVars, Known
<1>2. SweepWindow \in Int \X Int /\ SweepWindow' = SweepWindow
  BY <1>1, BoundsAssumption DEF SweepWindow, Origin, SweepInv, SweepTypeOK, Times
<1>3. (started \in Times /\ NotAfter(started))' /\ at' \in Int \X Int
  BY <1>1, <1>2 DEF BeginSweep, SweepInv, SweepTypeOK, NotAfter, Times, hubVars
<1>4. /\ SweepTypeOK' /\ NothingSlips' /\ ProgressCovers'
  BY <1>1, <1>3, MoreKnown
<1>5. ListCovers'
  <2>1. CASE progress = NULL
    BY <1>1, <1>2, <2>1 DEF BeginSweep, ListCovers
  <2>2. CASE progress # NULL
    <3>1. started' = progress.started /\ at' = progress.position /\ started' # NULL
      BY <2>2, BoundsAssumption DEF BeginSweep, SweepInv, SweepTypeOK
    <3>2. Covered(progress.position, progress.started)'
      BY <1>1, <1>4, <2>2 DEF ProgressCovers
    <3> QED
      BY <1>1, <3>1, <3>2 DEF ListCovers, Covered
  <2> QED
    BY <2>1, <2>2
<1> QED
  BY <1>1, <1>4, <1>5 DEF SweepInv, ApplyCovers

\* What a page of the listing leaves missing comes after its last event, or is
\* recent enough for the next sweep.
LEMMA ListPageMissing ==
    ASSUME SweepInv, phase = "list",
           NEW e \in Missing,
           e \notin FirstPage(After(OnHub, ListKey), ListKey) \ Known
    PROVE  /\ SweepStart \in Nat /\ SweepStart <= hubNow
           /\ \/ created[e] >= SweepStart - Overlap
              \/ /\ e \in After(OnHub, ListKey) \ FirstPage(After(OnHub, ListKey), ListKey)
                 /\ FirstPage(After(OnHub, ListKey), ListKey) # {}
                 /\ Before(ListKey[LastOf(FirstPage(After(OnHub, ListKey), ListKey), ListKey)], ListKey[e])
<1> DEFINE rest == After(OnHub, ListKey)
           page == FirstPage(rest, ListKey)
<1>1. SweepStart \in Nat /\ SweepStart <= hubNow
  BY DEF SweepInv, SweepTypeOK, NotAfter, Times, SweepStart
<1>2. rest \in SUBSET OnHub /\ rest \in SUBSET Events /\ Keyed(rest, ListKey)
  BY HubKeys DEF SweepInv, After
<1>3. e \in OnHub /\ e \notin Known /\ e \notin page
  BY DEF Missing
<1>4. CASE e \in rest
  <2> HIDE DEF rest
  <2>1. e \in rest \ page /\ page # {} /\ page \in SUBSET rest
    BY <1>2, <1>3, <1>4, FirstPageFacts
  <2>2. page \in SUBSET Events /\ Keyed(page, ListKey)
    BY <1>2, <2>1 DEF Keyed
  <2>3. LastOf(page, ListKey) \in page
    BY <2>1, <2>2, LastOfFacts
  <2>4. Before(ListKey[LastOf(page, ListKey)], ListKey[e])
    BY <1>2, <2>1, <2>3, FirstPageFacts
  <2> QED
    BY <1>1, <2>1, <2>4 DEF rest
<1>5. CASE e \notin rest
  <2>1. ~Before(at, ListKey[e])
    BY <1>3, <1>5 DEF After
  <2>2. CASE started = NULL
    <3>1. at = SweepWindow
      BY <2>2 DEF SweepInv, ListCovers
    <3>2. ListKey[e] = <<created[e], e>> /\ created[e] \in Nat /\ e \in Nat \ {0}
      BY <1>3, HubKeys DEF SweepInv
    <3>3. lastSweep # NULL => lastSweep \in Nat /\ created[e] >= lastSweep - Overlap
      BY <1>3 DEF SweepInv, NothingSlips, SweepTypeOK, Times
    <3>4. Before(SweepWindow, <<created[e], e>>)
      BY <3>2, <3>3, BoundsAssumption DEF SweepWindow, Before, Origin
    <3> QED
      BY <2>1, <3>1, <3>2, <3>4
  <2>3. CASE started # NULL
    BY <1>1, <2>1, <2>3 DEF SweepInv, ListCovers, Covered, SweepStart
  <2> QED
    BY <2>2, <2>3
<1> QED
  BY <1>4, <1>5

\* A page of the listing phase.
LEMMA ListPageSweep ==
    ASSUME SweepInv, ListPage
    PROVE  SweepInv'
<1> DEFINE rest == After(OnHub, ListKey)
           page == FirstPage(rest, ListKey)
           last == ListKey[LastOf(page, ListKey)]
<1>1. /\ phase = "list" /\ started' = SweepStart
      /\ UNCHANGED <<hubVars, replicaVars, lastSweep>>
      /\ IF page \ Known # {} \/ page # rest
         THEN /\ staged' = staged \cup (page \ Known)
              /\ progress' = [position |-> last, started |-> SweepStart]
         ELSE UNCHANGED <<staged, progress>>
      /\ IF page # rest THEN at' = last /\ UNCHANGED phase ELSE at' = Origin /\ phase' = "apply"
  BY DEF ListPage
<1>2. /\ OnHub' = OnHub /\ ListKey' = ListKey /\ created' = created /\ Known' = Known
      /\ hubNow' = hubNow /\ pushing' = pushing
  BY <1>1 DEF OnHub, ListKey, hubVars, replicaVars, Known
<1>3. staged' = staged \cup (page \ Known)
  BY <1>1
<1>4. rest \in SUBSET OnHub /\ rest \in SUBSET Events /\ Keyed(rest, ListKey)
  BY HubKeys DEF SweepInv, After
<1>5. SweepStart \in Nat /\ SweepStart <= hubNow
  BY DEF SweepInv, SweepTypeOK, NotAfter, Times, SweepStart
<1>6. ASSUME NEW e \in Missing'
      PROVE  /\ e \in Missing
             /\ \/ created[e] >= SweepStart - Overlap
                \/ e \in rest \ page /\ page # {} /\ Before(last, ListKey[e])
  <2>1. e \in Missing /\ e \notin page \ Known
    BY <1>2, <1>3 DEF Missing
  <2> QED
    BY <1>1, <2>1, ListPageMissing
<1> HIDE DEF rest
<1>7. ASSUME page \ Known # {} \/ page # rest PROVE last \in Int \X Int
  <2>1. page \in SUBSET rest /\ page # {}
    BY <1>4, <1>7, FirstPageFacts
  <2>2. page \in SUBSET Events /\ Keyed(page, ListKey)
    BY <1>4, <2>1 DEF Keyed
  <2>3. LastOf(page, ListKey) \in OnHub
    BY <1>4, <2>1, <2>2, LastOfFacts
  <2> HIDE DEF page
  <2> QED
    BY <2>3, HubKeys DEF SweepInv
<1>8. SweepTypeOK'
  <2>1. (started \in Times /\ NotAfter(started))'
    BY <1>1, <1>2, <1>5 DEF NotAfter, Times
  <2>2. progress' # NULL => /\ progress'.started \in Nat
                            /\ progress'.started <= hubNow'
                            /\ progress'.position \in Int \X Int
    <3> HIDE DEF page, last
    <3> QED
      BY <1>1, <1>2, <1>5, <1>7 DEF SweepInv, SweepTypeOK
  <2>3. phase' = "list" => at' \in Int \X Int
    <3> HIDE DEF page, last
    <3> QED
      BY <1>1, <1>7
  <2> QED
    BY <1>1, <1>2, <2>1, <2>2, <2>3 DEF SweepInv, SweepTypeOK, NotAfter
<1> HIDE DEF page, last
<1>9. NothingSlips'
  BY <1>1, <1>2 DEF SweepInv, NothingSlips
<1>10. \A e \in Missing' : Before(last, ListKey'[e]) \/ created'[e] >= SweepStart - Overlap
  BY <1>2, <1>6
<1>11. ProgressCovers'
  <2>1. CASE page \ Known # {} \/ page # rest
    <3>1. progress'.position = last /\ progress'.started = SweepStart
      BY <1>1, <2>1
    <3> QED
      BY <1>10, <3>1 DEF ProgressCovers, Covered
  <2>2. CASE ~(page \ Known # {} \/ page # rest)
    BY <1>1, <1>2, <1>6, <2>2 DEF SweepInv, ProgressCovers, Covered
  <2> QED
    BY <2>1, <2>2
<1>12. ListCovers'
  <2> SUFFICES ASSUME phase' = "list" PROVE started' # NULL /\ Covered(at, started)'
    BY DEF ListCovers
  <2>1. at' = last
    BY <1>1
  <2> QED
    BY <1>1, <1>5, <1>10, <2>1, BoundsAssumption DEF Covered
<1>13. ApplyCovers'
  <2> SUFFICES ASSUME phase' = "apply"
               PROVE  started' # NULL /\ \A e \in Missing' : created'[e] >= started' - Overlap
    BY DEF ApplyCovers
  <2>1. page = rest
    BY <1>1
  <2> QED
    BY <1>1, <1>2, <1>5, <1>6, <2>1, BoundsAssumption
<1> QED
  BY <1>8, <1>9, <1>11, <1>12, <1>13 DEF SweepInv

\* A chunk of the staged events goes into the tables.
LEMMA ApplyStagedSweep ==
    ASSUME SweepInv, ApplyStaged
    PROVE  SweepInv'
<1> DEFINE chunk == FirstPage(staged, PullKey)
<1>1. /\ UNCHANGED <<hubVars, lastSweep, progress>> /\ UNCHANGED <<phase, at, started>>
      /\ ApplyBatch((chunk \ Known) \ quarantine) /\ staged' = staged \ chunk
      /\ phase = "apply"
  BY DEF ApplyStaged, ApplyPulled, pullVars
<1> HIDE DEF chunk
<1>2. Known \cup ((chunk \ Known) \ quarantine) \subseteq Known'
  BY <1>1, KnownGrows
<1>3. Known \cup staged \subseteq Known' \cup staged' /\ Known \subseteq Known'
  BY <1>1, <1>2 DEF Known
<1>4. (started \in Times /\ NotAfter(started))'
  BY <1>1 DEF SweepInv, SweepTypeOK, NotAfter, hubVars
<1>5. SweepTypeOK' /\ NothingSlips' /\ ProgressCovers'
  BY <1>1, <1>3, <1>4, MoreKnown
<1>6. ApplyCovers'
  BY <1>1, <1>3, MoreKnown DEF SweepInv, ApplyCovers
<1> QED
  BY <1>1, <1>5, <1>6 DEF SweepInv, ListCovers

\* The sweep is recorded at the time it started.
LEMMA FinishSweepSweep ==
    ASSUME SweepInv, FinishSweep
    PROVE  SweepInv'
<1>1. /\ UNCHANGED <<hubVars, replicaVars, staged>> /\ staged = {} /\ phase = "apply"
      /\ lastSweep' = started /\ progress' = NULL /\ phase' = "last_retry" /\ started' = NULL
  BY DEF FinishSweep
<1>2. /\ OnHub' = OnHub /\ Known' = Known /\ created' = created /\ hubNow' = hubNow
      /\ pushing' = pushing
  BY <1>1 DEF OnHub, hubVars, replicaVars, Known
<1>3. NothingSlips'
  BY <1>1, <1>2 DEF SweepInv, NothingSlips, ApplyCovers, Missing
<1>4. SweepTypeOK'
  BY <1>1, <1>2 DEF SweepInv, SweepTypeOK, NotAfter, Times
<1> QED
  BY <1>1, <1>3, <1>4 DEF SweepInv, ProgressCovers, ListCovers, ApplyCovers

LEMMA NextSweep == SweepInv /\ [Next]_vars => SweepInv'
<1> SUFFICES ASSUME SweepInv, [Next]_vars PROVE SweepInv'
  OBVIOUS
<1>1. CASE HubStep
  BY <1>1, HubSweep, CommitPushSweep DEF HubStep
<1>2. CASE PullStep \/ FailPull
  BY <1>2, OutsideSweep, BeginSweepSweep, ListPageSweep, ApplyStagedSweep, FinishSweepSweep
     DEF PullStep
<1>3. CASE UNCHANGED vars
  BY <1>3 DEF vars, hubVars, replicaVars, sweepVars, pullVars, SweepInv, SweepTypeOK, NothingSlips,
     ProgressCovers, ListCovers, ApplyCovers, Covered, Missing, OnHub, Known, ListKey, SweepWindow, NotAfter
<1> QED
  BY <1>1, <1>2, <1>3 DEF Next

\* No event slips through: whenever a push commits within the timeout, and
\* wherever earlier pulls failed, what the replica lacks lies in the window of
\* the next sweep.  The overlap has to be at least the timeout, and nothing
\* else is assumed of the page size, the clocks or the number of clients.
THEOREM NothingSlipsHolds == Spec => []NothingSlips
<1>1. SweepInv => NothingSlips
  BY DEF SweepInv
<1> QED
  BY <1>1, InitSweep, NextSweep, PTL DEF Spec

-----------------------------------------------------------------------------
(* What a transaction over a batch computes.                               *)

\* What a transaction knows before its first event.
Fresh == [done |-> {}, held |-> {}, node |-> node, clock |-> clock]

\* One event more: the last one of s, after all the others.
TakeLast(f, s) == Ingest(f[s \ {BatchOrder(s)}], BatchOrder(s))

\* f gives the result for every set of D by the recursion of the fold.
Runs(f, D) == f = [s \in D |-> IF s = {} THEN Fresh ELSE TakeLast(f, s)]

\* Batch is the function that the recursion defines, at S.
LEMMA BatchIsRun ==
    ASSUME NEW S
    PROVE  Batch(S) = (CHOOSE f : Runs(f, SUBSET S))[S]
BY DEF Batch, MapThenFoldSet, Runs, TakeLast, Fresh

\* BatchOrder names an event of the batch, the greatest.
LEMMA BatchOrderFacts ==
    ASSUME NEW s \in SUBSET Events, s # {}
    PROVE  /\ BatchOrder(s) \in s
           /\ \A x \in s : x # BatchOrder(s) => Before(PullKey[x], PullKey[BatchOrder(s)])
<1>1. Keyed(s, PullKey)
  BY EventsAssumption DEF Keyed, PullKey
<1> QED
  BY <1>1, LastOfFacts DEF BatchOrder

\* The recursion is on ever smaller sets, so there is a function it defines.
LEMMA RunExists ==
    ASSUME NEW S \in SUBSET Events
    PROVE  \E f : Runs(f, SUBSET S)
<1> DEFINE D(n) == {s \in SUBSET S : Cardinality(s) <= n}
           T == {n \in Nat : ~\E f : Runs(f, D(n))}
<1>1. \A s \in SUBSET S : IsFiniteSet(s) /\ Cardinality(s) \in Nat /\ s \in SUBSET Events
  <2>1. \A s \in SUBSET S : s \in SUBSET Events
    OBVIOUS
  <2>2. \A s \in SUBSET Events : IsFiniteSet(s)
    BY EventsAssumption, FS_Subset
  <2> QED
    BY <2>1, <2>2, FS_CardinalityType
<1>2. ASSUME NEW s \in SUBSET S, s # {}
      PROVE  /\ s \ {BatchOrder(s)} \in SUBSET S
             /\ Cardinality(s) # 0 /\ Cardinality(s \ {BatchOrder(s)}) = Cardinality(s) - 1
  BY <1>1, <1>2, BatchOrderFacts, FS_RemoveElement, FS_EmptySet
<1>3. T = {}
  <2>1. SUFFICES ASSUME T # {} PROVE FALSE
    OBVIOUS
  <2>2. T \in SUBSET Nat
    OBVIOUS
  <2>3. PICK n \in T : \A k \in T : n <= k
    BY <2>1, <2>2, LeastOf
  <2>4. n \in Nat /\ ~\E f : Runs(f, D(n))
    BY <2>3
  <2>5. CASE n = 0
    <3> DEFINE f == [s \in D(n) |-> Fresh]
    <3>1. \A s \in D(n) : s = {}
      BY <1>1, <2>5, FS_EmptySet
    <3>2. [s \in D(n) |-> IF s = {} THEN Fresh ELSE TakeLast(f, s)] = f
      BY <3>1
    <3> QED
      BY <2>4, <3>2 DEF Runs
  <2>6. CASE n # 0
    <3>1. n - 1 \in Nat /\ n - 1 \notin T
      <4> HIDE DEF T
      <4> QED
        BY <2>3, <2>4, <2>6
    <3>2. PICK f : Runs(f, D(n - 1))
      BY <3>1
    <3> DEFINE g == [s \in D(n) |-> IF s = {} THEN Fresh ELSE TakeLast(f, s)]
               h == [s \in D(n) |-> IF s = {} THEN Fresh ELSE TakeLast(g, s)]
    <3>3. \A s \in D(n - 1) : s \in D(n) /\ g[s] = f[s]
      <4>1. \A s \in D(n - 1) : s \in D(n)
        BY <1>1, <2>4
      <4>2. \A s \in D(n - 1) : f[s] = IF s = {} THEN Fresh ELSE TakeLast(f, s)
        BY <3>2 DEF Runs
      <4>3. \A s \in D(n) : g[s] = IF s = {} THEN Fresh ELSE TakeLast(f, s)
        OBVIOUS
      <4> HIDE DEF D, g
      <4> QED
        BY <4>1, <4>2, <4>3
    <3>4. ASSUME NEW s \in D(n), s # {} PROVE TakeLast(g, s) = TakeLast(f, s)
      <4>1. s \ {BatchOrder(s)} \in D(n - 1)
        BY <1>1, <1>2, <2>4, <3>4
      <4> HIDE DEF D, g
      <4> QED
        BY <3>3, <4>1 DEF TakeLast
    <3>5. h = g
      <4> DEFINE B(k, s) == IF s = {} THEN Fresh ELSE TakeLast(k, s)
      <4>1. \A s \in D(n) : B(g, s) = B(f, s)
        BY <3>4
      <4>2. h = [s \in D(n) |-> B(g, s)] /\ g = [s \in D(n) |-> B(f, s)]
        OBVIOUS
      <4> HIDE DEF D, B, g, h
      <4> QED
        BY <4>1, <4>2
    <3> HIDE DEF g
    <3> QED
      BY <2>4, <3>5 DEF Runs
  <2> QED
    BY <2>5, <2>6
<1>4. Cardinality(S) \in Nat /\ D(Cardinality(S)) = SUBSET S
  BY <1>1, FS_Subset
<1> QED
  BY <1>3, <1>4

\* The result for every part of a batch, as applyPullBatch's loop computes it.
Result(S) == CHOOSE f : Runs(f, SUBSET S)

LEMMA ResultEquation ==
    ASSUME NEW S \in SUBSET Events
    PROVE  /\ Batch(S) = Result(S)[S]
           /\ Result(S)[{}] = Fresh
           /\ \A s \in SUBSET S : s # {} => Result(S)[s] = TakeLast(Result(S), s)
<1>1. Runs(Result(S), SUBSET S)
  BY RunExists DEF Result
<1>2. \A s \in SUBSET S : Result(S)[s] = IF s = {} THEN Fresh ELSE TakeLast(Result(S), s)
  BY <1>1 DEF Runs
<1>3. Batch(S) = Result(S)[S]
  BY BatchIsRun DEF Result
<1> QED
  BY <1>2, <1>3

\* A transaction's bookkeeping.
Tallies == [done : SUBSET Events, held : SUBSET Events,
            node : [Nodes -> {"none", "live", "deleted"}], clock : Nat]

PullTypeOK ==
    /\ applied \in SUBSET Events /\ quarantine \in SUBSET Events /\ staged \in SUBSET Events
    /\ node \in [Nodes -> {"none", "live", "deleted"}]
    /\ clock \in Nat
    /\ cursor \in Nat \X Nat

\* One event: it is counted once, as done or as held, and the clock never
\* goes back.
LEMMA IngestFacts ==
    ASSUME NEW r \in Tallies, NEW e \in Events
    PROVE  /\ Ingest(r, e) \in Tallies
           /\ Ingest(r, e).clock >= r.clock
           /\ \/ e \in applied /\ Ingest(r, e) = r
              \/ /\ e \notin applied /\ Accepted(r, e)
                 /\ Ingest(r, e).done = r.done \cup {e} /\ Ingest(r, e).held = r.held
                 /\ Ingest(r, e).clock = IF Lamport[e] > r.clock THEN Lamport[e] ELSE r.clock
                 /\ \A n \in Nodes : Ingest(r, e).node[n] =
                        IF n = Subject[e] THEN NodeAfter(r.node[n], Kind[e]) ELSE r.node[n]
              \/ /\ e \notin applied /\ ~Accepted(r, e)
                 /\ Ingest(r, e).done = r.done /\ Ingest(r, e).held = r.held \cup {e}
                 /\ Ingest(r, e).clock = r.clock /\ Ingest(r, e).node = r.node
<1>1. Lamport[e] \in Nat /\ Subject[e] \in Nodes /\ Kind[e] \in {"create", "edit", "delete"}
  BY EventsAssumption
<1>2. \A t \in {"none", "live", "deleted"} : NodeAfter(t, Kind[e]) \in {"none", "live", "deleted"}
  BY <1>1 DEF NodeAfter
<1>3. CASE e \in applied
  BY <1>3 DEF Ingest, Tallies
<1>4. CASE e \notin applied /\ Accepted(r, e)
  <2> DEFINE q == [r EXCEPT !.done = @ \cup {e},
                            !.node[Subject[e]] = NodeAfter(@, Kind[e]),
                            !.clock = IF Lamport[e] > @ THEN Lamport[e] ELSE @]
  <2>1. Ingest(r, e) = q
    BY <1>4 DEF Ingest
  <2>2. /\ q \in Tallies /\ q.done = r.done \cup {e} /\ q.held = r.held
        /\ q.clock = IF Lamport[e] > r.clock THEN Lamport[e] ELSE r.clock
        /\ \A n \in Nodes : q.node[n] = IF n = Subject[e] THEN NodeAfter(r.node[n], Kind[e]) ELSE r.node[n]
    <3> HIDE DEF NodeAfter
    <3> QED
      BY <1>1, <1>2 DEF Tallies
  <2>3. q.clock >= r.clock
    BY <1>1, <2>2 DEF Tallies
  <2> QED
    BY <1>4, <2>1, <2>2, <2>3
<1>5. CASE e \notin applied /\ ~Accepted(r, e)
  BY <1>5 DEF Ingest, Tallies
<1> QED
  BY <1>3, <1>4, <1>5

\* Induction over the parts of a batch that hold everything before an event.
LEMMA PartsInduction ==
    ASSUME NEW S \in SUBSET Events, NEW G, {} \in G,
           \A s \in SUBSET S : s # {} /\ s \ {BatchOrder(s)} \in G => s \in G
    PROVE  S \in G
<1> DEFINE Bad == {s \in SUBSET S : s \notin G}
           T == {Cardinality(s) : s \in Bad}
<1>1. SUFFICES ASSUME S \notin G PROVE FALSE
  OBVIOUS
<1>2. \A s \in SUBSET S : IsFiniteSet(s) /\ Cardinality(s) \in Nat /\ s \in SUBSET Events
  <2>1. \A s \in SUBSET S : s \in SUBSET Events
    OBVIOUS
  <2>2. \A s \in SUBSET Events : IsFiniteSet(s)
    BY EventsAssumption, FS_Subset
  <2> QED
    BY <2>1, <2>2, FS_CardinalityType
<1>3. T \in SUBSET Nat
  BY <1>2
<1>4. T # {}
  BY <1>1
<1>5. PICK n \in T : \A k \in T : n <= k
  BY <1>3, <1>4, LeastOf
<1>6. PICK s \in SUBSET S : s \notin G /\ n = Cardinality(s)
  BY <1>5
<1>7. s # {} /\ s \in SUBSET Events
  BY <1>6
<1> DEFINE t == s \ {BatchOrder(s)}
<1>8. t \in SUBSET S /\ Cardinality(t) = Cardinality(s) - 1
  BY <1>2, <1>7, BatchOrderFacts, FS_RemoveElement
<1> HIDE DEF t
<1>9. t \in G
  <2>1. SUFFICES ASSUME t \notin G PROVE FALSE
    OBVIOUS
  <2>2. Cardinality(t) \in T
    BY <1>8, <2>1
  <2> HIDE DEF T
  <2> QED
    BY <1>2, <1>5, <1>6, <1>8, <2>2
<1> QED
  BY <1>6, <1>7, <1>9 DEF t

\* A part of the batch and its last event.
LEMMA PartStep ==
    ASSUME NEW S \in SUBSET Events, NEW s \in SUBSET S, s # {}
    PROVE  /\ BatchOrder(s) \in s /\ BatchOrder(s) \in Events
           /\ s \ {BatchOrder(s)} \in SUBSET S
           /\ Result(S)[s] = Ingest(Result(S)[s \ {BatchOrder(s)}], BatchOrder(s))
           /\ \A x \in s \ {BatchOrder(s)} : Before(PullKey[x], PullKey[BatchOrder(s)])
BY BatchOrderFacts, ResultEquation DEF TakeLast

\* A transaction over S settles every event of S that was not applied before,
\* one way or the other, and its clock does not go back.
LEMMA BatchFacts ==
    ASSUME PullTypeOK, NEW S \in SUBSET Events
    PROVE  /\ Batch(S) \in Tallies
           /\ Batch(S).clock >= clock
           /\ Batch(S).done \cup Batch(S).held = S \ applied
           /\ Batch(S).done \cap Batch(S).held = {}
<1> DEFINE F == Result(S)
           G == {s \in SUBSET S : /\ F[s] \in Tallies
                                  /\ F[s].clock >= clock
                                  /\ F[s].done \cup F[s].held = s \ applied
                                  /\ F[s].done \cap F[s].held = {}}
<1>1. {} \in G
  <2>1. F[{}] = Fresh
    BY ResultEquation
  <2>2. Fresh \in Tallies /\ Fresh.clock >= clock /\ Fresh.done = {} /\ Fresh.held = {}
    BY DEF PullTypeOK, Fresh, Tallies
  <2> HIDE DEF F
  <2> QED
    BY <2>1, <2>2
<1>2. ASSUME NEW s \in SUBSET S, s # {}, s \ {BatchOrder(s)} \in G
      PROVE  s \in G
  <2> DEFINE m == BatchOrder(s)
             r == F[s \ {m}]
  <2>1. m \in s /\ m \in Events /\ F[s] = Ingest(r, m)
    BY <1>2, PartStep
  <2>2. r \in Tallies /\ r.clock >= clock /\ r.done \cup r.held = (s \ {m}) \ applied
        /\ r.done \cap r.held = {}
    BY <1>2
  <2> HIDE DEF F, m, r
  <2>3. Ingest(r, m) \in Tallies /\ Ingest(r, m).clock >= clock
    <3>1. Ingest(r, m) \in Tallies /\ Ingest(r, m).clock >= r.clock
      BY <2>1, <2>2, IngestFacts
    <3>2. Ingest(r, m).clock \in Nat /\ r.clock \in Nat /\ clock \in Nat
      BY <2>2, <3>1 DEF Tallies, PullTypeOK
    <3> QED
      BY <2>2, <3>1, <3>2
  <2>4. /\ Ingest(r, m).done \cup Ingest(r, m).held = s \ applied
        /\ Ingest(r, m).done \cap Ingest(r, m).held = {}
    <3>1. m \notin r.done \cup r.held
      BY <2>2
    <3>2. \/ m \in applied /\ Ingest(r, m).done = r.done /\ Ingest(r, m).held = r.held
          \/ m \notin applied /\ Ingest(r, m).done = r.done \cup {m} /\ Ingest(r, m).held = r.held
          \/ m \notin applied /\ Ingest(r, m).done = r.done /\ Ingest(r, m).held = r.held \cup {m}
      BY <2>1, <2>2, IngestFacts
    <3> QED
      BY <2>1, <2>2, <3>1, <3>2
  <2> QED
    BY <2>1, <2>3, <2>4
<1> HIDE DEF G
<1>3. S \in G
  BY <1>1, <1>2, PartsInduction
<1> QED
  BY <1>3, ResultEquation DEF G

-----------------------------------------------------------------------------
(* The cursor and the clock.                                               *)

\* The inductive invariant: an event is applied or quarantined, not both.
CursorInv == PullTypeOK /\ applied \cap quarantine = {} /\ CursorWithinReach

LEMMA InitCursor == Init => CursorInv
BY BoundsAssumption DEF Init, CursorInv, PullTypeOK, CursorWithinReach, Origin

\* The tables after a transaction.
LEMMA ApplyBatchFacts ==
    ASSUME PullTypeOK, applied \cap quarantine = {}, NEW S \in SUBSET Events, ApplyBatch(S)
    PROVE  /\ applied' \in SUBSET Events /\ quarantine' \in SUBSET Events
           /\ applied' \cap quarantine' = {}
           /\ node' = Batch(S).node /\ node' \in [Nodes -> {"none", "live", "deleted"}]
           /\ clock' = Batch(S).clock /\ clock' \in Nat /\ clock' >= clock
           /\ applied' = applied \cup (S \ Batch(S).held)
           /\ quarantine' = (quarantine \cup Batch(S).held) \ applied'
<1>1. /\ applied' = applied \cup (S \ Batch(S).held)
      /\ quarantine' = (quarantine \cup Batch(S).held) \ applied'
      /\ node' = Batch(S).node /\ clock' = Batch(S).clock
  BY DEF ApplyBatch
<1>2. Batch(S) \in Tallies /\ Batch(S).clock >= clock
  BY BatchFacts
<1>3. /\ Batch(S).held \in SUBSET Events /\ Batch(S).clock \in Nat
      /\ Batch(S).node \in [Nodes -> {"none", "live", "deleted"}]
  BY <1>2 DEF Tallies
<1> QED
  BY <1>1, <1>2, <1>3 DEF PullTypeOK

\* A page is a part of what it is taken from.
LEMMA PageWithin ==
    ASSUME NEW S \in SUBSET Events, NEW key
    PROVE  FirstPage(S, key) \in SUBSET S /\ After(S, key) \in SUBSET S
BY DEF FirstPage, After

\* The cursor is left where it was, or on an event within reach of the clock
\* that the page has left behind.
LEMMA CursorPageCursor ==
    ASSUME CursorInv, CursorPage
    PROVE  CursorInv'
<1> DEFINE page == FirstPage(After(OnHub, PullKey), PullKey)
           accepted == {e \in page : ClockAccepted(e, clock')}
<1>1. page \in SUBSET Events /\ page \ quarantine \in SUBSET Events
  BY PageWithin DEF OnHub
<1>2. /\ ApplyBatch(page \ quarantine) /\ staged' = staged
      /\ cursor' = IF accepted = {} THEN cursor ELSE PullKey[LastOf(accepted, PullKey)]
  BY DEF CursorPage, ApplyPulled, AdvancePullCursor, sweepVars
<1> HIDE DEF page
<1>3. /\ applied' \in SUBSET Events /\ quarantine' \in SUBSET Events
      /\ applied' \cap quarantine' = {}
      /\ node' \in [Nodes -> {"none", "live", "deleted"}]
      /\ clock' \in Nat /\ clock' >= clock /\ clock \in Nat
  BY <1>1, <1>2, ApplyBatchFacts DEF CursorInv, PullTypeOK
<1>4. cursor' \in Nat \X Nat /\ cursor'[1] <= clock' + MaxJump
  <2>1. CASE accepted = {}
    BY <1>2, <1>3, <2>1, BoundsAssumption DEF CursorInv, CursorWithinReach, PullTypeOK
  <2>2. CASE accepted # {}
    <3>1. accepted \in SUBSET Events /\ accepted \in SUBSET page
      BY <1>1
    <3>2. Keyed(accepted, PullKey)
      <4> HIDE DEF accepted
      <4> QED
        BY <3>1, EventsAssumption DEF Keyed, PullKey
    <3> DEFINE e == LastOf(accepted, PullKey)
    <3>3. e \in accepted
      BY <2>2, <3>1, <3>2, LastOfFacts
    <3>4. e \in Events /\ ClockAccepted(e, clock')
      BY <3>1, <3>3
    <3>5. cursor' = PullKey[e]
      BY <1>2, <2>2
    <3> HIDE DEF e
    <3> QED
      BY <1>3, <3>4, <3>5, EventsAssumption, BoundsAssumption DEF PullKey, ClockAccepted
  <2> QED
    BY <2>1, <2>2
<1> QED
  BY <1>2, <1>3, <1>4 DEF CursorInv, PullTypeOK, CursorWithinReach

LEMMA NextCursor == CursorInv /\ [Next]_vars => CursorInv'
<1> SUFFICES ASSUME CursorInv, [Next]_vars PROVE CursorInv'
  OBVIOUS
<1>1. ASSUME UNCHANGED <<replicaVars, cursor>>, staged' \in SUBSET Events
      PROVE  CursorInv'
  BY <1>1 DEF CursorInv, PullTypeOK, CursorWithinReach, replicaVars
<1>2. ASSUME NEW S \in SUBSET Events, ApplyBatch(S), UNCHANGED cursor, staged' \in SUBSET Events
      PROVE  CursorInv'
  <2>1. clock \in Nat /\ cursor[1] \in Nat
    BY DEF CursorInv, PullTypeOK
  <2> QED
    BY <1>2, <2>1, ApplyBatchFacts, BoundsAssumption DEF CursorInv, PullTypeOK, CursorWithinReach
<1>3. CASE HubStep
  BY <1>1, <1>3 DEF HubStep, BeginPush, AbortPush, CommitPush, HubTick, sweepVars, CursorInv, PullTypeOK
<1>4. CASE BeginPull \/ BeginCursorPass \/ BeginSweep \/ FinishSweep \/ FinishPull \/ FailPull \/ UNCHANGED vars
  BY <1>1, <1>4 DEF BeginPull, BeginCursorPass, BeginSweep, FinishSweep, FinishPull, FailPull, vars,
     sweepVars, CursorInv, PullTypeOK
<1>5. CASE RetryPage
  <2>1. FirstPage(After(quarantine, PullKey), PullKey) \in SUBSET Events
    BY PageWithin DEF CursorInv, PullTypeOK
  <2> QED
    BY <1>2, <1>5, <2>1 DEF RetryPage, sweepVars, CursorInv, PullTypeOK
<1>6. CASE CursorPage
  BY <1>6, CursorPageCursor
<1>7. CASE ListPage
  <2>1. FirstPage(After(OnHub, ListKey), ListKey) \in SUBSET Events
    BY PageWithin DEF OnHub
  <2>2. staged' \in SUBSET Events
    BY <1>7, <2>1 DEF ListPage, CursorInv, PullTypeOK
  <2> QED
    BY <1>1, <1>7, <2>2 DEF ListPage
<1>8. CASE ApplyStaged
  <2>1. (FirstPage(staged, PullKey) \ Known) \ quarantine \in SUBSET Events
    BY PageWithin DEF CursorInv, PullTypeOK
  <2>2. staged' \in SUBSET Events
    BY <1>8 DEF ApplyStaged, CursorInv, PullTypeOK
  <2> QED
    BY <1>2, <1>8, <2>1, <2>2 DEF ApplyStaged, ApplyPulled
<1> QED
  BY <1>3, <1>4, <1>5, <1>6, <1>7, <1>8 DEF Next, PullStep

LEMMA CursorInvHolds == Spec => []CursorInv
BY InitCursor, NextCursor, PTL DEF Spec

\* The saved cursor never runs away from the local clock: an event stamped far
\* in the future is refused without moving the cursor, and the clock the
\* cursor was measured against never goes back, whatever a batch holds.
THEOREM CursorWithinReachHolds == Spec => []CursorWithinReach
<1>1. CursorInv => CursorWithinReach
  BY DEF CursorInv
<1> QED
  BY <1>1, CursorInvHolds, PTL

-----------------------------------------------------------------------------
(* The retry of the quarantine.                                            *)

\* The clock of a node's creation is below the clocks of all other events of
\* the node: a client stamps an event above everything it has seen, and has
\* seen the creation of the node it is about.
CreationFirst ==
    \A x, e \in Events :
        x # e /\ Kind[x] = "create" /\ Subject[x] = Subject[e] => Lamport[x] < Lamport[e]

\* An event that is refused stays refused when a later one is taken: a clock
\* out of reach then is out of reach for the later event as well, and neither
\* the creation it waits for nor the node it needs can come after it.
LEMMA StillRefused ==
    ASSUME CreationFirst, NEW r \in Tallies, NEW e \in Events, NEW m \in Events,
           ~Accepted(r, e), Before(PullKey[e], PullKey[m])
    PROVE  ~Accepted(Ingest(r, m), e)
<1> DEFINE q == Ingest(r, m)
<1>1. /\ Lamport[e] \in Nat /\ Lamport[m] \in Nat /\ Lamport[e] <= Lamport[m] /\ e # m
      /\ Subject[e] \in Nodes /\ Subject[m] \in Nodes
      /\ Kind[m] \in {"create", "edit", "delete"}
  BY EventsAssumption DEF Before, PullKey
<1>2. ~(Kind[m] = "create" /\ Subject[m] = Subject[e])
  BY <1>1 DEF CreationFirst
<1>3. CASE m \in applied /\ q = r
  BY <1>3
<1>4. CASE /\ m \notin applied /\ ~Accepted(r, m)
           /\ q.done = r.done /\ q.held = r.held \cup {m} /\ q.clock = r.clock /\ q.node = r.node
  <2> HIDE DEF q
  <2>1. BehindCreate(r, e) => BehindCreate(q, e)
    BY <1>4 DEF BehindCreate
  <2> QED
    BY <1>4, <2>1 DEF Accepted, q
<1>5. CASE /\ m \notin applied /\ Accepted(r, m)
           /\ q.done = r.done \cup {m} /\ q.held = r.held
           /\ q.clock = IF Lamport[m] > r.clock THEN Lamport[m] ELSE r.clock
           /\ \A n \in Nodes : q.node[n] = IF n = Subject[m] THEN NodeAfter(r.node[n], Kind[m]) ELSE r.node[n]
  <2> HIDE DEF q
  <2>0. r.clock \in Nat
    BY DEF Tallies
  <2>1. CASE ~ClockAccepted(e, r.clock)
    <3>1. ~ClockAccepted(e, q.clock)
      BY <1>1, <1>5, <2>0, <2>1, BoundsAssumption DEF ClockAccepted, Accepted
    <3> QED
      BY <3>1 DEF Accepted, q
  <2>2. CASE BehindCreate(r, e)
    <3>1. PICK x \in (quarantine \cup r.held) \ r.done : x # e /\ Kind[x] = "create" /\ Subject[x] = Subject[e]
      BY <2>2 DEF BehindCreate
    <3>2. x # m
      BY <1>2, <3>1
    <3>3. BehindCreate(q, e)
      BY <1>5, <3>1, <3>2 DEF BehindCreate
    <3> QED
      BY <3>3 DEF Accepted, q
  <2>3. CASE Kind[e] = "edit" /\ r.node[Subject[e]] # "live"
    <3>1. q.node[Subject[e]] # "live"
      BY <1>1, <1>2, <1>5, <2>3 DEF NodeAfter
    <3> QED
      BY <2>3, <3>1 DEF Accepted, q
  <2> QED
    BY <2>1, <2>2, <2>3 DEF Accepted
<1> QED
  BY <1>3, <1>4, <1>5, IngestFacts

\* At the end of a transaction all it held back would be refused again, and so
\* would what was refused before it and comes before all of its events.
LEMMA BatchSettles ==
    ASSUME CreationFirst, PullTypeOK, NEW S \in SUBSET Events, NEW e \in Events,
           \/ e \in Batch(S).held
           \/ ~Accepted(Fresh, e) /\ \A m \in S : Before(PullKey[e], PullKey[m])
    PROVE  ~Accepted(Batch(S), e)
<1> DEFINE F == Result(S)
           earlier == ~Accepted(Fresh, e) /\ \A m \in S : Before(PullKey[e], PullKey[m])
           G == {s \in SUBSET S : /\ F[s] \in Tallies
                                  /\ F[s].held \in SUBSET s
                                  /\ e \in F[s].held \/ earlier => ~Accepted(F[s], e)}
<1>1. {} \in G
  <2>1. F[{}] = Fresh
    BY ResultEquation
  <2>2. Fresh \in Tallies /\ Fresh.held = {}
    BY DEF PullTypeOK, Fresh, Tallies
  <2> HIDE DEF F
  <2> QED
    BY <2>1, <2>2
<1>2. ASSUME NEW s \in SUBSET S, s # {}, s \ {BatchOrder(s)} \in G
      PROVE  s \in G
  <2> DEFINE m == BatchOrder(s)
             r == F[s \ {m}]
  <2>1. /\ m \in s /\ m \in Events /\ F[s] = Ingest(r, m)
        /\ \A x \in s \ {m} : Before(PullKey[x], PullKey[m])
    BY <1>2, PartStep
  <2>2. /\ r \in Tallies /\ r.held \in SUBSET (s \ {m})
        /\ e \in r.held \/ earlier => ~Accepted(r, e)
    BY <1>2
  <2> HIDE DEF F, m, r
  <2>3. Ingest(r, m) \in Tallies /\ Ingest(r, m).held \in SUBSET s
    <3>1. Ingest(r, m).held = r.held \/ Ingest(r, m).held = r.held \cup {m}
      BY <2>1, <2>2, IngestFacts
    <3> QED
      BY <2>1, <2>2, <3>1, IngestFacts
  <2>4. ASSUME e \in r.held \/ earlier PROVE ~Accepted(Ingest(r, m), e)
    <3>1. Before(PullKey[e], PullKey[m])
      BY <2>1, <2>2, <2>4
    <3> QED
      BY <2>1, <2>2, <2>4, <3>1, StillRefused
  <2>5. ASSUME e \in Ingest(r, m).held, e \notin r.held PROVE ~Accepted(Ingest(r, m), e)
    <3>1. /\ e = m /\ ~Accepted(r, m)
          /\ Ingest(r, m).done = r.done /\ Ingest(r, m).held = r.held \cup {m}
          /\ Ingest(r, m).clock = r.clock /\ Ingest(r, m).node = r.node
      BY <2>1, <2>2, <2>5, IngestFacts
    <3>2. BehindCreate(r, m) => BehindCreate(Ingest(r, m), m)
      BY <3>1 DEF BehindCreate
    <3> QED
      BY <3>1, <3>2 DEF Accepted
  <2> QED
    BY <2>1, <2>3, <2>4, <2>5
<1> HIDE DEF G
<1>3. S \in G
  BY <1>1, <1>2, PartsInduction
<1> QED
  BY <1>3, ResultEquation DEF G

\* Behind the position of the last retry, everything quarantined is refused.
LastRetrySettles ==
    phase = "last_retry" =>
        /\ at \in Nat \X Nat
        /\ \A e \in quarantine : Before(at, PullKey[e]) \/ ~Accepted(Fresh, e)

RetryInv == CursorInv /\ LastRetrySettles /\ RetrySettles

\* A page of the last retry.
LEMMA RetryPageSettles ==
    ASSUME CreationFirst, RetryInv, phase = "last_retry", RetryPage
    PROVE  LastRetrySettles'
<1> DEFINE rest == After(quarantine, PullKey)
           page == FirstPage(rest, PullKey)
           r == Batch(page)
           last == LastOf(page, PullKey)
<1>1. /\ page # {} /\ ApplyBatch(page) /\ at' = PullKey[last]
  BY DEF RetryPage
<1>2. /\ quarantine \in SUBSET Events /\ applied \cap quarantine = {} /\ PullTypeOK
      /\ at \in Nat \X Nat
  BY DEF RetryInv, CursorInv, PullTypeOK, LastRetrySettles
<1>3. rest \in SUBSET quarantine /\ rest \in SUBSET Events /\ Keyed(rest, PullKey)
  <2>1. rest \in SUBSET quarantine
    BY DEF After
  <2> HIDE DEF rest
  <2> QED
    BY <1>2, <2>1, EventsAssumption DEF Keyed, PullKey
<1>4. \A m \in rest : Before(at, PullKey[m])
  BY DEF After
<1>r. \A x \in quarantine : x \notin rest => ~Before(at, PullKey[x])
  BY DEF After
<1> HIDE DEF rest
<1>5. /\ page \in SUBSET rest
      /\ \A p \in page, x \in rest \ page : Before(PullKey[p], PullKey[x])
  BY <1>3, FirstPageFacts
<1>6. page \in SUBSET Events /\ Keyed(page, PullKey)
  BY <1>3, <1>5 DEF Keyed
<1>7. last \in page
  BY <1>1, <1>6, LastOfFacts
<1> HIDE DEF page, last
<1>8. at' \in Nat \X Nat
  BY <1>1, <1>6, <1>7, EventsAssumption DEF PullKey
<1>9. /\ r \in Tallies /\ r.done \cup r.held = page \ applied /\ r.done \cap r.held = {}
  BY <1>2, <1>6, BatchFacts
<1>10. /\ applied' = applied \cup (page \ r.held)
       /\ quarantine' = (quarantine \cup r.held) \ applied'
       /\ node' = r.node /\ clock' = r.clock
  BY <1>1, <1>2, <1>6, ApplyBatchFacts
<1>11. quarantine' = quarantine \ r.done /\ quarantine' = (quarantine \cup r.held) \ r.done
  BY <1>2, <1>3, <1>5, <1>9, <1>10
<1>12. ASSUME NEW e \in quarantine', ~Before(at', PullKey[e]) PROVE ~Accepted(Fresh, e)'
  <2>1. e \in quarantine /\ e \in Events /\ e \notin r.done
    BY <1>2, <1>11
  <2>2. e \in r.held \/ (~Accepted(Fresh, e) /\ \A m \in page : Before(PullKey[e], PullKey[m]))
    <3>1. CASE e \in page
      BY <1>2, <1>9, <2>1, <3>1
    <3>2. CASE e \in rest \ page
      BY <1>1, <1>5, <1>7, <1>12, <3>2
    <3>3. CASE e \notin rest
      <4>1. ~Before(at, PullKey[e])
        BY <1>r, <2>1, <3>3
      <4>2. ~Accepted(Fresh, e)
        BY <2>1, <4>1 DEF RetryInv, LastRetrySettles
      <4>3. ASSUME NEW m \in page PROVE Before(PullKey[e], PullKey[m])
        <5>1. Before(at, PullKey[m]) /\ m \in Events
          BY <1>3, <1>4, <1>5
        <5> QED
          BY <1>2, <2>1, <4>1, <5>1, EventsAssumption DEF Before, PullKey
      <4> QED
        BY <4>2, <4>3
    <3> QED
      BY <3>1, <3>2, <3>3
  <2>3. ~Accepted(r, e)
    BY <1>2, <1>6, <2>1, <2>2, BatchSettles
  <2> HIDE DEF r
  <2>4. ~(/\ ClockAccepted(e, r.clock)
          /\ ~\E x \in (quarantine \cup r.held) \ r.done :
                  x # e /\ Kind[x] = "create" /\ Subject[x] = Subject[e]
          /\ Kind[e] = "edit" => r.node[Subject[e]] = "live")
    BY <2>3 DEF Accepted, BehindCreate
  <2>5. Accepted(Fresh, e)' = (/\ ClockAccepted(e, clock')
                               /\ ~\E x \in (quarantine' \cup {}) \ {} :
                                      x # e /\ Kind[x] = "create" /\ Subject[x] = Subject[e]
                               /\ Kind[e] = "edit" => node'[Subject[e]] = "live")
    BY DEF Accepted, BehindCreate, Fresh, ClockAccepted
  <2> QED
    BY <1>10, <1>11, <2>4, <2>5
<1> QED
  BY <1>8, <1>12 DEF LastRetrySettles

LEMMA NextRetry ==
    ASSUME CreationFirst
    PROVE  RetryInv /\ [Next]_vars => RetryInv'
<1> SUFFICES ASSUME RetryInv, [Next]_vars PROVE RetryInv'
  OBVIOUS
<1>1. CursorInv'
  BY NextCursor DEF RetryInv
<1>2. ASSUME UNCHANGED <<replicaVars, pullVars>> PROVE RetryInv'
  BY <1>1, <1>2 DEF RetryInv, LastRetrySettles, RetrySettles, replicaVars, pullVars,
     Accepted, BehindCreate, Fresh
<1>3. ASSUME phase' \notin {"last_retry", "complete"} PROVE RetryInv'
  BY <1>1, <1>3 DEF RetryInv, LastRetrySettles, RetrySettles
<1>4. CASE HubStep \/ UNCHANGED vars
  BY <1>2, <1>4 DEF HubStep, BeginPush, AbortPush, CommitPush, HubTick, vars
<1>5. CASE BeginPull \/ BeginCursorPass \/ CursorPage \/ BeginSweep \/ ListPage \/ ApplyStaged \/ FailPull
  BY <1>3, <1>5 DEF BeginPull, BeginCursorPass, CursorPage, BeginSweep, ListPage, ApplyStaged, FailPull, pullVars
<1>6. CASE RetryPage
  <2>1. CASE phase = "retry"
    BY <1>3, <1>6, <2>1 DEF RetryPage
  <2>2. CASE phase = "last_retry"
    <3>1. LastRetrySettles'
      BY <1>6, <2>2, RetryPageSettles
    <3>2. RetrySettles'
      BY <1>6, <2>2 DEF RetryPage, RetrySettles
    <3> QED
      BY <1>1, <3>1, <3>2 DEF RetryInv
  <2> QED
    BY <1>6, <2>1, <2>2 DEF RetryPage
<1>7. CASE FinishSweep
  <2>1. phase' = "last_retry" /\ at' = <<0, 0>> /\ UNCHANGED replicaVars
    BY <1>7 DEF FinishSweep, Origin
  <2>2. \A e \in quarantine' : Before(at', PullKey[e])
    BY <1>1, <2>1, EventsAssumption DEF CursorInv, PullTypeOK, Before, PullKey
  <2>3. LastRetrySettles' /\ RetrySettles'
    BY <2>1, <2>2 DEF LastRetrySettles, RetrySettles
  <2> QED
    BY <1>1, <2>3 DEF RetryInv
<1>8. CASE FinishPull
  <2>1. /\ phase = "last_retry" /\ phase' = "complete" /\ UNCHANGED replicaVars
        /\ After(quarantine, PullKey) = {}
    BY <1>8 DEF FinishPull
  <2>2. \A e \in quarantine : ~Accepted(Fresh, e)
    BY <2>1 DEF RetryInv, LastRetrySettles, After
  <2>3. RetrySettles'
    BY <2>1, <2>2 DEF RetrySettles, replicaVars, Accepted, BehindCreate, Fresh
  <2>4. LastRetrySettles'
    BY <2>1 DEF LastRetrySettles
  <2> QED
    BY <1>1, <2>3, <2>4 DEF RetryInv
<1> QED
  BY <1>4, <1>5, <1>6, <1>7, <1>8 DEF Next, PullStep

\* When a pull is complete nothing in the quarantine would be accepted any
\* more: the last retry goes through it once, in clock order and page by page,
\* and one way through is enough, provided the creation of a node has the
\* lowest clock of the node's events.
THEOREM RetrySettlesHolds ==
    ASSUME CreationFirst
    PROVE  Spec => []RetrySettles
<1>1. Init => RetryInv
  BY InitCursor DEF Init, RetryInv, LastRetrySettles, RetrySettles
<1>2. RetryInv => RetrySettles
  BY DEF RetryInv
<1> QED
  BY <1>1, <1>2, NextRetry, PTL DEF Spec
=============================================================================
