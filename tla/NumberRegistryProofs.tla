------------------------ MODULE NumberRegistryProofs ------------------------
(***************************************************************************)
(* Proofs about module NumberRegistry, for any clients, tasks, links, batch *)
(* size and bounds.  They hold as long as no administrator decided against *)
(* a task whose number the hub had granted: such a decision moves the task *)
(* in a store and leaves the grant in the hub's log, and it is made        *)
(* without the push lock.                                                  *)
(***************************************************************************)
EXTENDS NumberRegistry, SequenceTheorems, NaturalsInduction, WellFoundedInduction, TLAPS

-----------------------------------------------------------------------------
(* The inductive invariant: of a store with the numbers t, the log l and   *)
(* the push state p, beside a hub with the events H.                       *)

Paths == Seq(1..MaxNumber)
IsNumber(num) == num \in Paths /\ Len(num) >= 1 /\ Len(num) <= MaxDepth + 1

\* The event is the one of some piece of work.
IsOf(e, w) == e.id = w.id /\ e.op = w.op /\ e.uid = w.uid /\ e.to = w.to

WorkIds == {w.id : w \in Work}
Entry == {e \in [id : WorkIds, op : {w.op : w \in Work}, uid : Tasks, num : Paths,
                 to : Tasks \cup {NULL}, ref : Paths, status : {"pending", "pushed", "applied"}] :
             \E w \in Work : IsOf(e, w)}

HubEvent == {h \in [id : WorkIds, op : {w.op : w \in Work}, uid : Tasks, num : Paths,
                    to : Tasks \cup {NULL}, ref : Paths, epoch : Nat] :
                \E w \in Work : IsOf(h, w)}

PushState ==
    [pc : {"idle", "read", "send", "mark", "renumber"}, cursor : Nat, redo : Nat \cup {NULL},
     progressed : BOOLEAN, batch : UNION {[D -> Entry] : D \in SUBSET Nat},
     result : [accepted : SUBSET WorkIds, mismatched : SUBSET WorkIds,
               blocked : SUBSET WorkIds, renumbers : SUBSET Nat]]

RegistryTypeOK ==
    /\ at \in [Clients -> [Tasks -> Paths \cup {NULL}]]
    /\ seq \in [Clients -> [Namespaces -> Nat]]
    /\ log \in [Clients -> Seq(Entry)]
    /\ push \in [Clients -> PushState]
    /\ DOMAIN links = Clients
    /\ hub \subseteq HubEvent /\ epoch \in Nat

\* The hub has granted the task the number, or some number.
GrantIn(H, u, num) == \E h \in H : h.op = "create" /\ h.id = u /\ h.num = num
GrantedIn(H, u) == \E h \in H : h.op = "create" /\ h.id = u

\* The hub has an event once, gives a number once, and gives a child a number
\* below the one its parent has; a link names its target by that number.
HubOK(H) ==
    /\ \A g, h \in H : g.id = h.id => g = h
    /\ \A g, h \in H : g.op = "create" /\ h.op = "create" /\ g.num = h.num => g = h
    /\ \A h \in H : h.op = "create" =>
          /\ IsNumber(h.num) /\ h.ref = ParentOf(h.num)
          /\ IF h.to = NULL THEN Len(h.num) = 1 ELSE GrantIn(H, h.to, h.ref)
    /\ \A h \in H : h.op = "link" => GrantIn(H, h.to, h.ref)

\* The task at s is directly above the one at num.
Above(s, num) == s # NULL /\ IsPrefix(s, num) /\ Len(s) = Len(num) - 1

\* The tasks of a store form trees, and their numbers are paths in them.
TreeOf(t) ==
    /\ t \in [Tasks -> Paths \cup {NULL}]
    /\ \A u \in Tasks : t[u] # NULL => IsNumber(t[u])
    /\ \A u, v \in Tasks : t[u] # NULL /\ t[u] = t[v] => u = v
    /\ \A w \in Work : w.op = "create" /\ t[w.uid] # NULL =>
          IF w.to = NULL THEN Len(t[w.uid]) = 1 ELSE Above(t[w.to], t[w.uid])
    /\ \A u \in Tasks : t[u] # NULL =>
          \A k \in 1..Len(t[u]) : \E v \in Tasks :
              t[v] # NULL /\ IsPrefix(t[v], t[u]) /\ Len(t[v]) = k

\* Whatever lies above a granted task is granted.
GrantedUp(t, H) ==
    \A u, v \in Tasks :
        t[u] # NULL /\ t[v] # NULL /\ IsPrefix(t[u], t[v]) /\ GrantedIn(H, v) => GrantedIn(H, u)

\* A pending creation, and a pending link, name tasks by the numbers they have;
\* a creation that is not pending has its number from the hub.
EntryOK(e, t, H) ==
    /\ e.op = "create" /\ e.status = "pending" =>
          /\ t[e.uid] # NULL /\ t[e.uid] = e.num /\ e.ref = ParentOf(e.num)
          /\ GrantedIn(H, e.id) => GrantIn(H, e.id, e.num)
    /\ e.op = "create" /\ e.status # "pending" => t[e.uid] # NULL /\ GrantIn(H, e.id, t[e.uid])
    /\ e.op = "link" /\ e.status = "pending" => t[e.to] # NULL /\ t[e.to] = e.ref

\* The log of client c has every event once; the events of others come from
\* the hub, and the hub has no event of c that c has not.
LogOK(c, l, t, H) ==
    /\ l \in Seq(Entry)
    /\ \A i, j \in DOMAIN l : l[i].id = l[j].id => i = j
    /\ \A i \in DOMAIN l : EntryOK(l[i], t, H)
    /\ \A u \in Tasks : t[u] # NULL => \E i \in DOMAIN l : l[i].id = u
    /\ \A i \in DOMAIN l, w \in Work : l[i].id = w.id /\ w.by # c => \E h \in H : h.id = w.id
    /\ \A h \in H, w \in Work : h.id = w.id /\ w.by = c => \E i \in DOMAIN l : l[i].id = w.id

\* What a batch says of a creation is what the log says, unless the task was
\* moved meanwhile, and then its old number is another task's on the hub; what
\* lies above the task, and the target of a link, is granted.
SentOK(b, e, t, H) ==
    /\ b \in Entry /\ b.id = e.id /\ e.status = "pending"
    /\ b.op = "create" =>
          /\ \/ b.num = e.num /\ b.ref = e.ref
             \/ ~GrantedIn(H, b.id) /\ \E h \in H : h.op = "create" /\ h.num = b.num /\ h.id # b.id
          /\ b.to # NULL => GrantIn(H, b.to, b.ref)
          /\ \A u \in Tasks :
                u # b.uid /\ t[u] # NULL /\ IsPrefix(t[u], t[b.uid]) => GrantedIn(H, u)
    /\ b.op = "link" => GrantIn(H, b.to, b.ref)

BatchOK(p, l, t, H) ==
    p.pc = "send" => \A i \in DOMAIN p.batch : i \in DOMAIN l /\ SentOK(p.batch[i], l[i], t, H)

\* What the hub answered still holds.
ResultOK(p, l, H) ==
    /\ p.pc \in {"mark", "renumber"} =>
         /\ \A id \in p.result.accepted : \E h \in H : h.id = id
         /\ \A i \in p.result.renumbers :
               i \in DOMAIN l /\ l[i].op = "create" /\ ~GrantedIn(H, l[i].id)
    /\ p.pc = "renumber" => p.result.renumbers # {}

StoreOK(c, t, l, p, H) ==
    TreeOf(t) /\ GrantedUp(t, H) /\ LogOK(c, l, t, H) /\ BatchOK(p, l, t, H) /\ ResultOK(p, l, H)

CollisionInv ==
    \A k \in collisions :
        /\ k.incoming # k.held /\ k.incoming \in Tasks
        /\ GrantIn(hub, k.held, k.num)

LinksInv == \A c \in Clients : \A l \in links[c] : \A w \in Work : w.id = l.event => l.target = w.to

RegistryInv ==
    /\ RegistryTypeOK /\ HubOK(hub) /\ CollisionInv /\ LinksInv
    /\ \A c \in Clients : StoreOK(c, at[c], log[c], push[c], hub)

\* sync_node_collisions has five columns.
CollisionRows ==
    \A k \in collisions : k = [incoming |-> k.incoming, held |-> k.held, num |-> k.num,
                               winner |-> k.winner, moved |-> k.moved]

NumbersInv == CollisionRows /\ (NoneOverruled => RegistryInv)

-----------------------------------------------------------------------------
(* Paths.                                                                  *)

\* One path is a prefix of another when it agrees with it as far as it goes.
LEMMA PrefixElements ==
    ASSUME NEW S, NEW s \in Seq(S), NEW t \in Seq(S)
    PROVE  IsPrefix(s, t) <=> Len(s) <= Len(t) /\ \A i \in 1..Len(s) : s[i] = t[i]
<1>0. Len(s) \in Nat /\ Len(t) \in Nat
  BY LenProperties
<1>1. CASE Len(s) <= Len(t)
  <2>1. /\ SubSeq(s, 1, Len(s)) \in Seq(S) /\ Len(SubSeq(s, 1, Len(s))) = Len(s)
        /\ \A i \in 1..Len(s) : SubSeq(s, 1, Len(s))[i] = s[i]
    BY <1>0, SubSeqProperties
  <2>2. /\ SubSeq(t, 1, Len(s)) \in Seq(S) /\ Len(SubSeq(t, 1, Len(s))) = Len(s)
        /\ \A i \in 1..Len(s) : SubSeq(t, 1, Len(s))[i] = t[i]
    BY <1>0, <1>1, SubSeqProperties
  <2>3. SubSeq(s, 1, Len(s)) = SubSeq(t, 1, Len(s)) <=> \A i \in 1..Len(s) : s[i] = t[i]
    <3>1. ASSUME \A i \in 1..Len(s) : s[i] = t[i]
          PROVE  SubSeq(s, 1, Len(s)) = SubSeq(t, 1, Len(s))
      BY <2>1, <2>2, <3>1, SeqEqual
    <3> QED
      BY <2>1, <2>2, <3>1
  <2> QED
    BY <1>1, <2>3 DEF IsPrefix
<1> QED
  BY <1>0, <1>1 DEF IsPrefix

LEMMA ParentElements ==
    ASSUME NEW S, NEW s \in Seq(S), Len(s) >= 1
    PROVE  /\ ParentOf(s) \in Seq(S) /\ Len(ParentOf(s)) = Len(s) - 1
           /\ \A i \in 1..Len(s) - 1 : ParentOf(s)[i] = s[i]
<1>0. Len(s) \in Nat /\ Len(s) - 1 \in Nat
  BY LenProperties
<1>1. \A i \in 1..Len(s) - 1 : s[i] \in S
  BY <1>0, ElementOfSeq
<1> DEFINE n == Len(s) - 1
<1>2. /\ n \in Int /\ 1 \in Int /\ n - 1 + 1 = n
      /\ \A i \in 1..n : s[i] \in S
      /\ (IF 1 <= n THEN n - 1 + 1 ELSE 0) = n
  <2>1. n \in Nat
    BY <1>0
  <2>2. \A i \in 1..n : s[i] \in S
    BY <1>1
  <2> HIDE DEF n
  <2> QED
    BY <2>1, <2>2
<1>3. ParentOf(s) = SubSeq(s, 1, n)
  BY DEF ParentOf
<1> HIDE DEF n
<1>4. /\ SubSeq(s, 1, n) \in Seq(S)
      /\ Len(SubSeq(s, 1, n)) = n
      /\ \A i \in 1..n - 1 + 1 : SubSeq(s, 1, n)[i] = s[1 + i - 1]
  BY <1>2, SubSeqProperties
<1>5. \A i \in 1..n : SubSeq(s, 1, n)[i] = s[i]
  <2> TAKE i \in 1..n
  <2>1. 1 + i - 1 = i
    BY <1>2
  <2> QED
    BY <1>2, <1>4, <2>1
<1> QED
  BY <1>3, <1>4, <1>5 DEF n

LEMMA AppendElements ==
    ASSUME NEW S, NEW p \in Seq(S), NEW n \in S
    PROVE  /\ Append(p, n) \in Seq(S) /\ Len(Append(p, n)) = Len(p) + 1
           /\ \A i \in 1..Len(p) : Append(p, n)[i] = p[i]
           /\ Append(p, n)[Len(p) + 1] = n
           /\ ParentOf(Append(p, n)) = p
<1>0. Len(p) \in Nat
  BY LenProperties
<1>1. /\ Append(p, n) \in Seq(S) /\ Len(Append(p, n)) = Len(p) + 1
      /\ \A i \in 1..Len(p) : Append(p, n)[i] = p[i]
      /\ Append(p, n)[Len(p) + 1] = n
  BY AppendProperties
<1> DEFINE s == Append(p, n)
<1>a. s \in Seq(S) /\ Len(s) >= 1 /\ Len(s) - 1 = Len(p)
  BY <1>0, <1>1
<1>2. /\ ParentOf(s) \in Seq(S) /\ Len(ParentOf(s)) = Len(p)
      /\ \A i \in 1..Len(p) : ParentOf(s)[i] = s[i]
  <2> HIDE DEF s
  <2>1. /\ ParentOf(s) \in Seq(S) /\ Len(ParentOf(s)) = Len(s) - 1
        /\ \A i \in 1..Len(s) - 1 : ParentOf(s)[i] = s[i]
    BY <1>a, ParentElements
  <2> QED
    BY <1>a, <2>1
<1>3. ParentOf(Append(p, n)) = p
  BY <1>1, <1>2, SeqEqual
<1> QED
  BY <1>1, <1>3

\* Moving a path from the number old to the number new beside it changes one
\* element.
LEMMA RebaseElements ==
    ASSUME NEW S, NEW p \in Seq(S), NEW n \in S, NEW old \in Seq(S), NEW num \in Seq(S),
           Len(old) = Len(p) + 1, \A i \in 1..Len(p) : old[i] = p[i], IsPrefix(old, num)
    PROVE  /\ Rebase(num, old, Append(p, n)) \in Seq(S)
           /\ Len(Rebase(num, old, Append(p, n))) = Len(num)
           /\ \A i \in 1..Len(num) :
                 Rebase(num, old, Append(p, n))[i] = IF i = Len(old) THEN n ELSE num[i]
<1> DEFINE d == Len(old)
           new == Append(p, n)
           rest == SubSeq(num, d + 1, Len(num))
<1>0. Len(p) \in Nat /\ Len(num) \in Nat /\ d \in Nat /\ d = Len(p) + 1
  BY LenProperties
<1>1. d <= Len(num) /\ \A i \in 1..d : old[i] = num[i]
  BY PrefixElements
<1>2. /\ new \in Seq(S) /\ Len(new) = d
      /\ \A i \in 1..Len(p) : new[i] = p[i]
      /\ new[d] = n
  BY <1>0, AppendElements
<1>3. /\ rest \in Seq(S) /\ Len(rest) = Len(num) - d
      /\ \A i \in 1..(Len(num) - d) : rest[i] = num[d + i]
  <2>1. CASE d + 1 <= Len(num)
    <3>1. \A i \in d + 1 .. Len(num) : num[i] \in S
      BY <1>0, ElementOfSeq
    <3>2. /\ rest \in Seq(S) /\ Len(rest) = Len(num) - (d + 1) + 1
          /\ \A i \in 1..(Len(num) - (d + 1) + 1) : rest[i] = num[(d + 1) + i - 1]
      BY <1>0, <2>1, <3>1, SubSeqProperties
    <3> QED
      BY <1>0, <2>1, <3>2
  <2>2. CASE d = Len(num)
    <3>1. rest = <<>>
      BY <1>0, <2>2, SubSeqEmpty
    <3> QED
      BY <1>0, <2>2, <3>1, EmptySeq
  <2> QED
    BY <1>0, <1>1, <2>1, <2>2
<1> HIDE DEF d, new, rest
<1>4. /\ new \o rest \in Seq(S) /\ Len(new \o rest) = Len(new) + Len(rest)
      /\ \A i \in 1..Len(new) + Len(rest) :
            (new \o rest)[i] = IF i <= Len(new) THEN new[i] ELSE rest[i - Len(new)]
  BY <1>2, <1>3, ConcatProperties
<1>5. Len(new) + Len(rest) = Len(num)
  BY <1>0, <1>2, <1>3
<1>6. \A i \in 1..Len(num) : (new \o rest)[i] = IF i = d THEN n ELSE num[i]
  <2> TAKE i \in 1..Len(num)
  <2>0. /\ i \in Nat
        /\ (new \o rest)[i] = IF i <= d THEN new[i] ELSE rest[i - d]
    <3>1. i \in 1..Len(new) + Len(rest) /\ i \in Nat
      BY <1>0, <1>5
    <3> QED
      BY <1>2, <1>4, <3>1
  <2>1. CASE i < d
    <3>1. i \in 1..Len(p) /\ i \in 1..d
      BY <1>0, <2>0, <2>1
    <3>2. new[i] = p[i] /\ old[i] = p[i] /\ old[i] = num[i]
      BY <1>1, <1>2, <3>1
    <3> QED
      BY <1>0, <2>0, <2>1, <3>2
  <2>2. CASE i = d
    <3>1. d <= d
      BY <1>0
    <3>2. (new \o rest)[i] = new[d]
      BY <2>0, <2>2, <3>1
    <3> QED
      BY <1>2, <2>2, <3>2
  <2>3. CASE i > d
    <3>1. i - d \in 1..(Len(num) - d) /\ d + (i - d) = i
      BY <1>0, <1>1, <2>3
    <3>2. rest[i - d] = num[i]
      BY <1>3, <3>1
    <3> QED
      BY <1>0, <2>0, <2>3, <3>2
  <2> QED
    BY <1>0, <2>0, <2>1, <2>2, <2>3
<1>7. Rebase(num, old, Append(p, n)) = new \o rest
  BY DEF Rebase, new, rest, d
<1> QED
  BY <1>4, <1>5, <1>6, <1>7 DEF d

-----------------------------------------------------------------------------
(* The next free number.                                                   *)

\* Every set of naturals that is not empty has a least element.
LEMMA LeastOf ==
    ASSUME NEW T \in SUBSET Nat, T # {}
    PROVE  \E x \in T : \A y \in T : x <= y
<1> DEFINE R == {ss \in Nat \X Nat : ss[1] < ss[2]}
<1>1. IsWellFoundedOn(R, Nat)
  BY NatLessThanWellFounded DEF OpToRel
<1> HIDE DEF R
<1>2. PICK x \in T : \A y \in T : ~(<<y, x>> \in R)
  BY <1>1, WFMin, Zenon
<1>3. \A y \in T : ~(y < x)
  BY <1>2 DEF R
<1> QED
  BY <1>3

\* And a greatest one, when it is bounded.
LEMMA GreatestOf ==
    ASSUME NEW T \in SUBSET Nat, T # {}, NEW b \in Nat, \A y \in T : y <= b
    PROVE  \E x \in T : \A y \in T : y <= x
<1> DEFINE B == {z \in Nat : \A y \in T : y <= z}
<1>1. PICK x \in B : \A z \in B : x <= z
  <2>1. b \in B
    OBVIOUS
  <2> QED
    BY <2>1, LeastOf
<1>2. CASE x \in T
  BY <1>1, <1>2
<1>3. CASE x \notin T
  <2>1. PICK y \in T : TRUE
    OBVIOUS
  <2>2. \A z \in T : z <= x /\ z # x
    BY <1>1, <1>3
  <2>3. x - 1 \in B /\ ~(x <= x - 1)
    BY <1>1, <2>1, <2>2
  <2> QED
    BY <1>1, <2>3
<1> QED
  BY <1>2, <1>3

LEMMA NamespaceIsPath ==
    \A p : p \in Namespaces <=> p \in Seq(1..MaxNumber) /\ Len(p) <= MaxDepth
<1> TAKE p
<1>0. MaxDepth \in Nat
  BY NumberRegistryAssumption
<1>1. ASSUME p \in Namespaces PROVE p \in Seq(1..MaxNumber) /\ Len(p) <= MaxDepth
  <2>1. PICK k \in 0..MaxDepth : p \in [1..k -> 1..MaxNumber]
    BY <1>1 DEF Namespaces
  <2>a. k \in Nat
    BY <1>0, <2>1
  <2>2. p \in Seq(1..MaxNumber) /\ k \in Nat
    <3> DEFINE S == 1..MaxNumber
    <3>1. Seq(S) = UNION {[1..n -> S] : n \in Nat}
      BY SeqDef
    <3>2. p \in [1..k -> S]
      BY <2>1
    <3> HIDE DEF S
    <3>3. p \in Seq(S)
      BY <2>a, <3>1, <3>2
    <3> QED
      BY <2>a, <3>3 DEF S
  <2>3. Len(p) = k
    <3>1. Len(p) \in Nat /\ DOMAIN p = 1..Len(p)
      BY <2>2, LenProperties
    <3>2. DOMAIN p = 1..k
      BY <2>1
    <3>3. (k >= 1 => k \in 1..Len(p)) /\ (Len(p) >= 1 => Len(p) \in 1..k)
      BY <2>2, <3>1, <3>2
    <3> DEFINE L == Len(p)
    <3>4. L \in Nat /\ (k >= 1 => 1 <= L /\ k <= L) /\ (L >= 1 => L <= k)
      BY <2>a, <3>1, <3>3
    <3> HIDE DEF L
    <3>5. L = k
      BY <2>a, <3>4
    <3> QED
      BY <3>5 DEF L
  <2> QED
    BY <1>0, <2>1, <2>2, <2>3
<1>2. ASSUME p \in Seq(1..MaxNumber), Len(p) <= MaxDepth PROVE p \in Namespaces
  <2>1. p \in [1..Len(p) -> 1..MaxNumber] /\ Len(p) \in Nat
    BY <1>2, LenProperties
  <2>2. Len(p) \in 0..MaxDepth
    BY <1>0, <1>2, <2>1
  <2> QED
    BY <2>1, <2>2 DEF Namespaces
<1> QED
  BY <1>1, <1>2

\* NextSequence gives a number that no task of the store has.
LEMMA NextIsFree ==
    ASSUME RegistryTypeOK, NEW c \in Clients, NEW p \in Namespaces,
           NextSequence(c, p) <= MaxNumber
    PROVE  /\ NextSequence(c, p) \in 1..MaxNumber
           /\ \A u \in Tasks : at[c][u] # Append(p, NextSequence(c, p))
<1> DEFINE v == seq[c][p] + 1
           taken == TakenIn(c, p)
           n == NextSequence(c, p)
           top == CHOOSE x \in taken \cup {v} : \A m \in taken \cup {v} : m <= x
<1>0. MaxNumber \in Nat /\ v \in Nat /\ v >= 1
  BY NumberRegistryAssumption DEF RegistryTypeOK
<1>1. taken \in SUBSET (1..MaxNumber)
  BY DEF TakenIn
<1>2. \A m \in 1..MaxNumber : m \notin taken => \A u \in Tasks : at[c][u] # Append(p, m)
  BY DEF TakenIn
<1>3. n = IF v \notin taken THEN v ELSE 1 + top
  BY DEF NextSequence
<1> HIDE DEF taken, n, v
<1>4. top \in taken \cup {v} /\ \A m \in taken \cup {v} : m <= top
  <2>1. taken \cup {v} \in SUBSET Nat /\ taken \cup {v} # {}
    BY <1>0, <1>1
  <2>2. MaxNumber + v \in Nat /\ \A m \in taken \cup {v} : m <= MaxNumber + v
    BY <1>0, <1>1
  <2>3. \E x \in taken \cup {v} : \A m \in taken \cup {v} : m <= x
    BY <2>1, <2>2, GreatestOf
  <2> QED
    BY <2>3
<1> HIDE DEF top
<1>5. n \in Nat /\ n >= 1 /\ n \notin taken
  BY <1>0, <1>1, <1>3, <1>4
<1>6. n <= MaxNumber
  BY DEF n
<1> QED
  BY <1>0, <1>2, <1>5, <1>6 DEF n

\* The counters stay numbers.
LEMMA HighestIsNat ==
    \A numbers, p : HighestIn(numbers, p) \in Nat
<1> TAKE numbers, p
<1> DEFINE taken == {n \in 1..MaxNumber : Append(p, n) \in numbers}
<1>1. CASE taken = {}
  BY <1>1 DEF HighestIn
<1>2. CASE taken # {}
  <2>1. taken \in SUBSET Nat /\ MaxNumber \in Nat /\ \A n \in taken : n <= MaxNumber
    BY NumberRegistryAssumption
  <2>2. HighestIn(numbers, p) = CHOOSE n \in taken : \A m \in taken : m <= n
    BY <1>2 DEF HighestIn
  <2> HIDE DEF taken
  <2>3. \E n \in taken : \A m \in taken : m <= n
    BY <1>2, <2>1, GreatestOf
  <2> QED
    BY <2>1, <2>2, <2>3
<1> QED
  BY <1>1, <1>2

-----------------------------------------------------------------------------
(* Moving a subtree.                                                       *)

\* r is the path s, moved when it lies at old or below it.
MovedPath(s, r, old, n) ==
    /\ r \in Paths /\ Len(r) = Len(s)
    /\ IsPrefix(old, s) =>
          \A i \in 1..Len(s) : r[i] = IF i = Len(old) THEN n ELSE s[i]
    /\ ~IsPrefix(old, s) => r = s

\* s is not at the number n beside old, nor below it.
NotBeside(s, old, n) ==
    ~(/\ Len(old) <= Len(s) /\ s[Len(old)] = n
      /\ \A i \in 1..Len(old) - 1 : s[i] = old[i])

\* A move keeps every path above or below what it was above or below.
LEMMA MoveKeepsOrder ==
    ASSUME NEW old \in Paths, Len(old) >= 1, NEW n,
           NEW s \in Paths, NEW t \in Paths, NEW r, NEW q,
           MovedPath(s, r, old, n), MovedPath(t, q, old, n),
           NotBeside(s, old, n), NotBeside(t, old, n)
    PROVE  IsPrefix(r, q) <=> IsPrefix(s, t)
<1> DEFINE d == Len(old)
           ls == Len(s)
           lt == Len(t)
<1>0. d \in Nat /\ d >= 1 /\ ls \in Nat /\ lt \in Nat /\ r \in Paths /\ q \in Paths
      /\ Len(r) = ls /\ Len(q) = lt
  BY LenProperties DEF Paths, MovedPath
<1>1. IsPrefix(s, t) <=> ls <= lt /\ \A i \in 1..ls : s[i] = t[i]
  BY PrefixElements DEF Paths
<1>2. IsPrefix(r, q) <=> ls <= lt /\ \A i \in 1..ls : r[i] = q[i]
  BY <1>0, PrefixElements DEF Paths
<1>3. IsPrefix(old, s) <=> d <= ls /\ \A i \in 1..d : old[i] = s[i]
  BY PrefixElements DEF Paths
<1>4. IsPrefix(old, t) <=> d <= lt /\ \A i \in 1..d : old[i] = t[i]
  BY PrefixElements DEF Paths
<1>5. /\ IsPrefix(old, s) => \A i \in 1..ls : r[i] = IF i = d THEN n ELSE s[i]
      /\ IsPrefix(old, t) => \A i \in 1..lt : q[i] = IF i = d THEN n ELSE t[i]
      /\ ~IsPrefix(old, s) => r = s
      /\ ~IsPrefix(old, t) => q = t
  BY DEF MovedPath
<1>6. /\ ~(d <= ls /\ s[d] = n /\ \A i \in 1..d - 1 : s[i] = old[i])
      /\ ~(d <= lt /\ t[d] = n /\ \A i \in 1..d - 1 : t[i] = old[i])
  BY DEF NotBeside
<1> HIDE DEF d, ls, lt
<1>7. CASE IsPrefix(old, s) /\ IsPrefix(old, t)
  <2>1. d <= ls /\ d <= lt /\ s[d] = t[d]
    <3>1. d \in 1..d
      BY <1>0
    <3> QED
      BY <1>3, <1>4, <1>7, <3>1
  <2>2. CASE ls <= lt
    <3>1. \A i \in 1..ls : r[i] = q[i] <=> s[i] = t[i]
      <4> TAKE i \in 1..ls
      <4>1. i \in 1..lt
        BY <1>0, <2>2
      <4>2. r[i] = (IF i = d THEN n ELSE s[i]) /\ q[i] = (IF i = d THEN n ELSE t[i])
        BY <1>5, <1>7, <4>1
      <4> QED
        BY <2>1, <4>2
    <3>2. (\A i \in 1..ls : r[i] = q[i]) <=> (\A i \in 1..ls : s[i] = t[i])
      BY <3>1
    <3> QED
      BY <1>1, <1>2, <2>2, <3>2
  <2> QED
    BY <1>1, <1>2, <2>2
<1>8. CASE IsPrefix(old, s) /\ ~IsPrefix(old, t)
  <2>1. ASSUME ls <= lt, \A i \in 1..ls : s[i] = t[i] PROVE FALSE
    <3>1. d <= lt /\ \A i \in 1..d : i \in 1..ls
      BY <1>0, <1>3, <1>8, <2>1
    <3>2. \A i \in 1..d : old[i] = t[i]
      BY <1>3, <1>8, <2>1, <3>1
    <3> QED
      BY <1>4, <1>8, <3>1, <3>2
  <2>2. ASSUME ls <= lt, \A i \in 1..ls : r[i] = q[i] PROVE FALSE
    <3>1. d <= lt /\ d \in 1..ls /\ \A i \in 1..d - 1 : i \in 1..ls /\ i \in 1..d /\ i # d
      BY <1>0, <1>3, <1>8, <2>2
    <3>2. t[d] = n
      BY <1>5, <1>8, <2>2, <3>1
    <3>3. \A i \in 1..d - 1 : t[i] = old[i]
      BY <1>3, <1>5, <1>8, <2>2, <3>1
    <3> QED
      BY <1>6, <3>1, <3>2, <3>3
  <2> QED
    BY <1>1, <1>2, <2>1, <2>2
<1>9. CASE ~IsPrefix(old, s) /\ IsPrefix(old, t)
  <2>1. CASE ls < d
    <3>1. ls <= lt /\ \A i \in 1..ls : i \in 1..lt /\ i # d
      BY <1>0, <1>4, <1>9, <2>1
    <3>2. \A i \in 1..ls : r[i] = s[i] /\ q[i] = t[i]
      BY <1>5, <1>9, <3>1
    <3> QED
      BY <1>1, <1>2, <3>1, <3>2
  <2>2. CASE d <= ls
    <3>1. ASSUME ls <= lt, \A i \in 1..ls : s[i] = t[i] PROVE FALSE
      <4>1. \A i \in 1..d : i \in 1..ls
        BY <1>0, <2>2
      <4>2. \A i \in 1..d : old[i] = s[i]
        BY <1>4, <1>9, <3>1, <4>1
      <4> QED
        BY <1>3, <1>9, <2>2, <4>2
    <3>2. ASSUME ls <= lt, \A i \in 1..ls : r[i] = q[i] PROVE FALSE
      <4>1. d \in 1..ls /\ d \in 1..lt
            /\ \A i \in 1..d - 1 : i \in 1..ls /\ i \in 1..lt /\ i \in 1..d /\ i # d
        BY <1>0, <2>2, <3>2
      <4>2. s[d] = n
        BY <1>5, <1>9, <3>2, <4>1
      <4>3. \A i \in 1..d - 1 : s[i] = old[i]
        BY <1>4, <1>5, <1>9, <3>2, <4>1
      <4> QED
        BY <1>6, <2>2, <4>2, <4>3
    <3> QED
      BY <1>1, <1>2, <3>1, <3>2
  <2> QED
    BY <1>0, <2>1, <2>2
<1>10. CASE ~IsPrefix(old, s) /\ ~IsPrefix(old, t)
  BY <1>5, <1>10
<1> QED
  BY <1>7, <1>8, <1>9, <1>10

-----------------------------------------------------------------------------
(* The order of paths.                                                     *)

LEMMA PathFacts ==
    ASSUME NEW s \in Paths
    PROVE  s # NULL /\ Len(s) \in Nat /\ s \in Seq(Nat)
<1>1. MaxNumber \in Nat /\ NULL \notin Seq(Nat)
  BY NumberRegistryAssumption
<1>2. Len(s) \in Nat /\ s \in [1..Len(s) -> 1..MaxNumber]
  BY LenProperties DEF Paths
<1>3. s \in [1..Len(s) -> Nat]
  BY <1>1, <1>2
<1>4. s \in Seq(Nat)
  <2> DEFINE S == Nat
  <2>1. Seq(S) = UNION {[1..n -> S] : n \in Nat}
    BY SeqDef
  <2>2. s \in [1..Len(s) -> S]
    BY <1>3
  <2>3. s \in Seq(S)
    BY <1>2, <2>1, <2>2
  <2> QED
    BY <2>3
<1> QED
  BY <1>1, <1>2, <1>4

LEMMA PrefixPath ==
    ASSUME NEW s \in Paths, NEW t \in Paths
    PROVE  IsPrefix(s, t) <=> Len(s) <= Len(t) /\ \A i \in 1..Len(s) : s[i] = t[i]
BY PrefixElements DEF Paths

LEMMA PrefixReflexive ==
    ASSUME NEW s \in Paths
    PROVE  IsPrefix(s, s)
BY PathFacts, PrefixPath

LEMMA PrefixTransitive ==
    ASSUME NEW s \in Paths, NEW t \in Paths, NEW r \in Paths, IsPrefix(s, t), IsPrefix(t, r)
    PROVE  IsPrefix(s, r)
<1>1. Len(s) \in Nat /\ Len(t) \in Nat /\ Len(r) \in Nat
  BY PathFacts
<1>2. Len(s) <= Len(t) /\ \A i \in 1..Len(s) : s[i] = t[i]
  BY PrefixPath
<1>3. Len(t) <= Len(r) /\ \A i \in 1..Len(t) : t[i] = r[i]
  BY PrefixPath
<1>4. Len(s) <= Len(r) /\ \A i \in 1..Len(s) : i \in 1..Len(t)
  BY <1>1, <1>2, <1>3
<1>5. \A i \in 1..Len(s) : s[i] = r[i]
  BY <1>2, <1>3, <1>4
<1> QED
  BY <1>4, <1>5, PrefixPath

\* Two prefixes of a path that are as long as each other are the same.
LEMMA PrefixesOfOne ==
    ASSUME NEW s \in Paths, NEW t \in Paths, NEW r \in Paths,
           IsPrefix(s, r), IsPrefix(t, r), Len(s) = Len(t)
    PROVE  s = t
<1>1. \A i \in 1..Len(s) : s[i] = r[i]
  BY PrefixPath
<1>2. \A i \in 1..Len(t) : t[i] = r[i]
  BY PrefixPath
<1>3. \A i \in 1..Len(s) : s[i] = t[i]
  BY <1>1, <1>2
<1> QED
  BY <1>3, SeqEqual DEF Paths

LEMMA PrefixAntisymmetric ==
    ASSUME NEW s \in Paths, NEW t \in Paths, IsPrefix(s, t), IsPrefix(t, s)
    PROVE  s = t
<1>1. Len(s) = Len(t)
  BY PathFacts, PrefixPath
<1> QED
  BY <1>1, PrefixReflexive, PrefixesOfOne

\* Of two prefixes of a path the shorter one is a prefix of the longer one.
LEMMA PrefixesCompare ==
    ASSUME NEW s \in Paths, NEW t \in Paths, NEW r \in Paths,
           IsPrefix(s, r), IsPrefix(t, r), Len(s) <= Len(t)
    PROVE  IsPrefix(s, t)
<1>1. \A i \in 1..Len(s) : s[i] = r[i]
  BY PrefixPath
<1>2. \A i \in 1..Len(t) : t[i] = r[i]
  BY PrefixPath
<1>3. \A i \in 1..Len(s) : i \in 1..Len(t)
  BY PathFacts
<1>4. \A i \in 1..Len(s) : s[i] = t[i]
  BY <1>1, <1>2, <1>3
<1> QED
  BY <1>4, PrefixPath

LEMMA PrefixLength ==
    ASSUME NEW s \in Paths, NEW t \in Paths, IsPrefix(s, t)
    PROVE  Len(s) <= Len(t)
BY PrefixPath

LEMMA ParentPath ==
    ASSUME NEW t \in Paths, Len(t) >= 1
    PROVE  /\ ParentOf(t) \in Paths /\ Len(ParentOf(t)) = Len(t) - 1
           /\ IsPrefix(ParentOf(t), t) /\ ~IsPrefix(t, ParentOf(t))
<1>0. Len(t) \in Nat
  BY PathFacts
<1>1. /\ ParentOf(t) \in Paths /\ Len(ParentOf(t)) = Len(t) - 1
      /\ \A i \in 1..Len(t) - 1 : ParentOf(t)[i] = t[i]
  BY ParentElements DEF Paths
<1> DEFINE q == ParentOf(t)
<1>2. q \in Paths /\ Len(q) = Len(t) - 1 /\ Len(q) <= Len(t) /\ ~(Len(t) <= Len(q))
      /\ \A i \in 1..Len(q) : q[i] = t[i]
  BY <1>0, <1>1
<1> HIDE DEF q
<1>3. IsPrefix(q, t)
  BY <1>2, PrefixPath
<1>4. ~IsPrefix(t, q)
  BY <1>2, PrefixPath
<1> QED
  BY <1>2, <1>3, <1>4 DEF q

LEMMA AboveIsParent ==
    ASSUME NEW s \in Paths, NEW t \in Paths, Len(t) >= 1
    PROVE  Above(s, t) <=> s = ParentOf(t)
<1>1. ParentOf(t) \in Paths /\ Len(ParentOf(t)) = Len(t) - 1 /\ IsPrefix(ParentOf(t), t)
  BY ParentPath
<1>2. ASSUME Above(s, t) PROVE s = ParentOf(t)
  BY <1>1, <1>2, PrefixesOfOne DEF Above
<1>3. ASSUME s = ParentOf(t) PROVE Above(s, t)
  BY <1>1, <1>3, PathFacts DEF Above
<1> QED
  BY <1>2, <1>3

\* What is above a task and not the task itself is above its parent.
LEMMA StrictlyAbove ==
    ASSUME NEW s \in Paths, NEW t \in Paths, Len(t) >= 1, IsPrefix(s, t), s # t
    PROVE  IsPrefix(s, ParentOf(t)) /\ Len(s) < Len(t)
<1>1. ParentOf(t) \in Paths /\ Len(ParentOf(t)) = Len(t) - 1 /\ IsPrefix(ParentOf(t), t)
  BY ParentPath
<1>2. Len(s) \in Nat /\ Len(t) \in Nat /\ Len(s) <= Len(t)
  BY PathFacts, PrefixLength
<1>3. Len(s) # Len(t)
  <2> SUFFICES ASSUME Len(s) = Len(t) PROVE FALSE
    OBVIOUS
  <2>1. s = t
    BY PrefixReflexive, PrefixesOfOne
  <2> QED
    BY <2>1
<1>4. Len(s) <= Len(ParentOf(t)) /\ Len(s) < Len(t)
  BY <1>1, <1>2, <1>3
<1> QED
  BY <1>1, <1>4, PrefixesCompare

-----------------------------------------------------------------------------
(* Trees of numbers.                                                       *)

\* r is store t with the tasks from old down moved to the number n beside it.
Shifted(t, r, old, n) ==
    /\ r \in [Tasks -> Paths \cup {NULL}]
    /\ \A u \in Tasks : r[u] = NULL <=> t[u] = NULL
    /\ \A u \in Tasks : t[u] # NULL => MovedPath(t[u], r[u], old, n)

FreeBeside(t, old, n) == \A u \in Tasks : t[u] # NULL => NotBeside(t[u], old, n)

LEMMA StorePaths ==
    ASSUME NEW t, TreeOf(t), NEW u \in Tasks, t[u] # NULL
    PROVE  t[u] \in Paths /\ IsNumber(t[u]) /\ Len(t[u]) >= 1 /\ Len(t[u]) \in Nat
BY PathFacts DEF TreeOf, IsNumber

\* A number no task has, has no task below it.
LEMMA NothingBelow ==
    ASSUME NEW t, TreeOf(t), NEW s \in Paths, Len(s) >= 1, \A u \in Tasks : t[u] # s,
           NEW v \in Tasks, t[v] # NULL
    PROVE  ~IsPrefix(s, t[v])
<1> SUFFICES ASSUME IsPrefix(s, t[v]) PROVE FALSE
  OBVIOUS
<1>1. t[v] \in Paths /\ Len(s) \in Nat /\ Len(t[v]) \in Nat /\ Len(s) <= Len(t[v])
  BY StorePaths, PathFacts, PrefixLength
<1>2. Len(s) \in 1..Len(t[v])
  BY <1>1
<1>3. PICK x \in Tasks : t[x] # NULL /\ IsPrefix(t[x], t[v]) /\ Len(t[x]) = Len(s)
  BY <1>2 DEF TreeOf
<1>4. t[x] = s
  BY <1>1, <1>3, StorePaths, PrefixesOfOne
<1> QED
  BY <1>4

LEMMA ShiftKeepsOrder ==
    ASSUME NEW t, NEW r, NEW old \in Paths, Len(old) >= 1, NEW n, TreeOf(t),
           Shifted(t, r, old, n), FreeBeside(t, old, n),
           NEW u \in Tasks, NEW v \in Tasks, t[u] # NULL, t[v] # NULL
    PROVE  IsPrefix(r[u], r[v]) <=> IsPrefix(t[u], t[v])
<1>1. t[u] \in Paths /\ t[v] \in Paths
  BY StorePaths
<1>2. MovedPath(t[u], r[u], old, n) /\ MovedPath(t[v], r[v], old, n)
  BY DEF Shifted
<1>3. NotBeside(t[u], old, n) /\ NotBeside(t[v], old, n)
  BY DEF FreeBeside
<1> QED
  BY <1>1, <1>2, <1>3, MoveKeepsOrder

\* A store stays a tree when a subtree moves to a free number.
LEMMA ShiftKeepsTree ==
    ASSUME NEW t, NEW r, NEW old \in Paths, Len(old) >= 1, NEW n, TreeOf(t),
           Shifted(t, r, old, n), FreeBeside(t, old, n)
    PROVE  TreeOf(r)
<1>1. r \in [Tasks -> Paths \cup {NULL}]
  BY DEF Shifted
<1>2. \A u \in Tasks : r[u] # NULL =>
         t[u] # NULL /\ r[u] \in Paths /\ Len(r[u]) = Len(t[u])
  BY DEF Shifted, MovedPath
<1>2a. \A u \in Tasks : t[u] # NULL => r[u] # NULL
  BY DEF Shifted
<1>3. \A u \in Tasks : r[u] # NULL => IsNumber(r[u])
  BY <1>2, StorePaths DEF IsNumber
<1>4. ASSUME NEW u \in Tasks, NEW v \in Tasks, r[u] # NULL, r[u] = r[v]
      PROVE  u = v
  <2>1. t[u] # NULL /\ t[v] # NULL /\ r[u] \in Paths /\ r[v] \in Paths
        /\ t[u] \in Paths /\ t[v] \in Paths
    BY <1>2, <1>4, StorePaths
  <2>2. IsPrefix(r[u], r[v]) /\ IsPrefix(r[v], r[u])
    BY <1>4, <2>1, PrefixReflexive
  <2>3. IsPrefix(t[u], t[v]) /\ IsPrefix(t[v], t[u])
    BY <2>1, <2>2, ShiftKeepsOrder
  <2>4. t[u] = t[v]
    BY <2>1, <2>3, PrefixAntisymmetric
  <2> QED
    BY <2>1, <2>4 DEF TreeOf
<1>5. ASSUME NEW w \in Work, w.op = "create", r[w.uid] # NULL
      PROVE  IF w.to = NULL THEN Len(r[w.uid]) = 1 ELSE Above(r[w.to], r[w.uid])
  <2>1. w.uid \in Tasks /\ w.to \in Tasks \cup {NULL}
    BY NumberRegistryAssumption
  <2>2. t[w.uid] # NULL /\ Len(r[w.uid]) = Len(t[w.uid])
    BY <1>2, <1>5, <2>1
  <2>3. CASE w.to = NULL
    BY <1>5, <2>2, <2>3 DEF TreeOf
  <2>4. CASE w.to # NULL
    <3>1. t[w.to] # NULL /\ IsPrefix(t[w.to], t[w.uid]) /\ Len(t[w.to]) = Len(t[w.uid]) - 1
      BY <1>5, <2>2, <2>4 DEF TreeOf, Above
    <3>2. w.to \in Tasks
      BY <2>1, <2>4
    <3>3. r[w.to] # NULL /\ Len(r[w.to]) = Len(t[w.to])
      BY <1>2, <1>2a, <3>1, <3>2
    <3>4. IsPrefix(r[w.to], r[w.uid])
      BY <2>1, <2>2, <3>1, <3>2, ShiftKeepsOrder
    <3> QED
      BY <2>2, <2>4, <3>1, <3>3, <3>4 DEF Above
  <2> QED
    BY <2>3, <2>4
<1>6. ASSUME NEW u \in Tasks, r[u] # NULL, NEW k \in 1..Len(r[u])
      PROVE  \E v \in Tasks : r[v] # NULL /\ IsPrefix(r[v], r[u]) /\ Len(r[v]) = k
  <2>1. t[u] # NULL /\ k \in 1..Len(t[u])
    BY <1>2, <1>6
  <2>2. PICK v \in Tasks : t[v] # NULL /\ IsPrefix(t[v], t[u]) /\ Len(t[v]) = k
    BY <2>1 DEF TreeOf
  <2>3. r[v] # NULL /\ Len(r[v]) = k
    BY <1>2, <1>2a, <2>2
  <2>4. IsPrefix(r[v], r[u])
    BY <2>1, <2>2, ShiftKeepsOrder
  <2> QED
    BY <2>3, <2>4
<1> QED
  BY <1>1, <1>3, <1>4, <1>5, <1>6 DEF TreeOf

\* And when a task is added at a free number: below its parent, or at the top.
LEMMA LeafKeepsTree ==
    ASSUME NEW t, NEW r, TreeOf(t), NEW w \in Work, w.op = "create", t[w.uid] = NULL,
           NEW s, IsNumber(s), \A u \in Tasks : t[u] # s,
           IF w.to = NULL THEN Len(s) = 1 ELSE t[w.to] = ParentOf(s),
           r = [t EXCEPT ![w.uid] = s]
    PROVE  TreeOf(r)
<1> DEFINE x == w.uid
<1>0. x \in Tasks /\ w.to \in Tasks \cup {NULL} /\ w.id = x
  BY NumberRegistryAssumption
<1>1. t \in [Tasks -> Paths \cup {NULL}] /\ s \in Paths /\ Len(s) >= 1 /\ Len(s) \in Nat /\ s # NULL
  BY PathFacts DEF TreeOf, IsNumber
<1>2. r \in [Tasks -> Paths \cup {NULL}]
  BY <1>1
<1>3. r[x] = s /\ \A u \in Tasks : u # x => r[u] = t[u]
  BY <1>0, <1>1
<1> HIDE DEF x
<1>4. \A u \in Tasks : r[u] # NULL => IsNumber(r[u])
  BY <1>3 DEF TreeOf
<1>5. \A u, v \in Tasks : r[u] # NULL /\ r[u] = r[v] => u = v
  BY <1>3 DEF TreeOf
<1>6. w.to # NULL => t[w.to] # NULL /\ w.to # x /\ Above(t[w.to], s)
  <2> SUFFICES ASSUME w.to # NULL PROVE t[w.to] # NULL /\ w.to # x /\ Above(t[w.to], s)
    OBVIOUS
  <2>1. t[w.to] = ParentOf(s)
    OBVIOUS
  <2>2. t[w.to] \in Paths /\ t[w.to] # NULL
    BY <1>1, <2>1, ParentPath, PathFacts
  <2>3. Above(t[w.to], s)
    BY <1>1, <2>1, <2>2, AboveIsParent
  <2> QED
    BY <2>2, <2>3 DEF x
<1>7. ASSUME NEW y \in Work, y.op = "create", r[y.uid] # NULL
      PROVE  IF y.to = NULL THEN Len(r[y.uid]) = 1 ELSE Above(r[y.to], r[y.uid])
  <2>1. y.uid \in Tasks /\ y.to \in Tasks \cup {NULL} /\ y.id = y.uid
    BY <1>7, NumberRegistryAssumption
  <2>2. CASE y.uid = x
    <3>1. y = w
      BY <1>0, <2>1, <2>2, NumberRegistryAssumption
    <3>2. w.to # NULL => r[w.to] = t[w.to]
      BY <1>0, <1>3, <1>6
    <3> QED
      BY <1>3, <1>6, <3>1, <3>2, <2>2
  <2>3. CASE y.uid # x
    <3>1. r[y.uid] = t[y.uid] /\ t[y.uid] # NULL
      BY <1>3, <1>7, <2>1, <2>3
    <3>2. IF y.to = NULL THEN Len(t[y.uid]) = 1 ELSE Above(t[y.to], t[y.uid])
      BY <1>7, <3>1 DEF TreeOf
    <3>3. y.to # NULL => y.to # x
      BY <3>2 DEF Above, x
    <3> QED
      BY <1>3, <2>1, <3>1, <3>2, <3>3
  <2> QED
    BY <2>2, <2>3
<1>8. ASSUME NEW u \in Tasks, r[u] # NULL, NEW k \in 1..Len(r[u])
      PROVE  \E v \in Tasks : r[v] # NULL /\ IsPrefix(r[v], r[u]) /\ Len(r[v]) = k
  <2>1. CASE u # x
    <3>1. r[u] = t[u] /\ t[u] # NULL /\ k \in 1..Len(t[u])
      BY <1>3, <1>8, <2>1
    <3>2. PICK v \in Tasks : t[v] # NULL /\ IsPrefix(t[v], t[u]) /\ Len(t[v]) = k
      BY <3>1 DEF TreeOf
    <3>3. v # x
      BY <3>2 DEF x
    <3> QED
      BY <1>3, <3>1, <3>2, <3>3
  <2>2. CASE u = x /\ k = Len(s)
    <3>1. IsPrefix(s, s)
      BY <1>1, PrefixReflexive
    <3> QED
      BY <1>0, <1>1, <1>3, <2>2, <3>1
  <2>3. CASE u = x /\ k # Len(s)
    <3>1. k \in 1..Len(s) /\ k \in Nat
      BY <1>1, <1>3, <1>8, <2>3
    <3>2. w.to # NULL
      <4>1. w.to = NULL => Len(s) = 1
        OBVIOUS
      <4> DEFINE L == Len(s)
      <4>2. L \in Nat /\ k \in 1..L /\ k # L
        BY <1>1, <2>3, <3>1
      <4>3. L # 1
        <5> HIDE DEF L
        <5> QED
          BY <4>2
      <4> QED
        BY <4>1, <4>3
    <3> DEFINE q == t[w.to]
    <3>3. w.to \in Tasks /\ q # NULL /\ q \in Paths /\ IsPrefix(q, s) /\ Len(q) = Len(s) - 1
      BY <1>0, <1>6, <3>2, StorePaths DEF Above
    <3>4. k \in 1..Len(q)
      BY <1>1, <2>3, <3>1, <3>3
    <3>5. PICK v \in Tasks : t[v] # NULL /\ IsPrefix(t[v], q) /\ Len(t[v]) = k
      BY <3>3, <3>4 DEF TreeOf
    <3>6. IsPrefix(t[v], s)
      BY <1>1, <3>3, <3>5, StorePaths, PrefixTransitive
    <3>7. v # x
      BY <3>5 DEF x
    <3> QED
      BY <1>3, <2>3, <3>5, <3>6, <3>7
  <2> QED
    BY <2>1, <2>2, <2>3
<1> QED
  BY <1>2, <1>4, <1>5, <1>7, <1>8 DEF TreeOf

-----------------------------------------------------------------------------
(* Events and grants.                                                      *)

Event(e) == \E w \in Work : IsOf(e, w)

LEMMA EventOf ==
    ASSUME NEW e, Event(e)
    PROVE  /\ e.uid \in Tasks /\ e.to \in Tasks \cup {NULL} /\ e.id \in WorkIds
           /\ e.op \in {w.op : w \in Work}
           /\ e.op = "create" => e.id = e.uid
           /\ e.op = "link" => e.to \in Tasks
           /\ e.id \in Tasks => e.op = "create"
<1>1. PICK w \in Work : IsOf(e, w)
  BY DEF Event
<1>2. w.uid \in Tasks /\ w.to \in Tasks \cup {NULL}
      /\ (w.op = "create" => w.id = w.uid) /\ (w.op = "link" => w.to # NULL)
  BY NumberRegistryAssumption
<1>3. w.id \in Tasks => w.op = "create"
  <2> SUFFICES ASSUME w.id \in Tasks PROVE w.op = "create"
    OBVIOUS
  <2>1. PICK x \in Work : x.op = "create" /\ x.id = w.id
    BY DEF Tasks
  <2> QED
    BY <2>1, NumberRegistryAssumption
<1> QED
  BY <1>1, <1>2, <1>3 DEF IsOf, WorkIds

LEMMA SameEvent ==
    ASSUME NEW e, NEW f, Event(e), Event(f), e.id = f.id
    PROVE  e.op = f.op /\ e.uid = f.uid /\ e.to = f.to
BY NumberRegistryAssumption DEF Event, IsOf

LEMMA EntryEvent ==
    /\ \A e \in Entry : Event(e)
    /\ \A h \in HubEvent : Event(h)
BY DEF Entry, HubEvent, Event

LEMMA GrantUnique ==
    ASSUME NEW H, HubOK(H), NEW u, NEW v, NEW num, GrantIn(H, u, num), GrantIn(H, v, num)
    PROVE  u = v
BY DEF HubOK, GrantIn

LEMMA GrantOnce ==
    ASSUME NEW H, HubOK(H), NEW u, NEW m, NEW n, GrantIn(H, u, m), GrantIn(H, u, n)
    PROVE  m = n
BY DEF HubOK, GrantIn

LEMMA GrantIsGranted ==
    ASSUME NEW H, NEW u
    PROVE  GrantedIn(H, u) <=> \E num : GrantIn(H, u, num)
BY DEF GrantedIn, GrantIn

\* The grants of a hub that grows stay.
LEMMA GrantsStay ==
    ASSUME NEW H, NEW G, H \subseteq G
    PROVE  /\ \A u, num : GrantIn(H, u, num) => GrantIn(G, u, num)
           /\ \A u : GrantedIn(H, u) => GrantedIn(G, u)
BY DEF GrantIn, GrantedIn

\* A task of a store whose creation is not pending there is granted its number.
LEMMA KnownGranted ==
    ASSUME NEW c, NEW l, NEW t, NEW H, LogOK(c, l, t, H), NEW u \in Tasks, t[u] # NULL,
           \A i \in DOMAIN l : l[i].op = "create" /\ l[i].status = "pending" => l[i].uid # u
    PROVE  GrantIn(H, u, t[u])
<1>1. PICK i \in DOMAIN l : l[i].id = u
  BY DEF LogOK
<1>2. l[i] \in Entry
  BY ElementOfSeq, LenProperties DEF LogOK
<1>3. l[i].op = "create" /\ l[i].uid = u
  BY <1>1, <1>2, EntryEvent, EventOf
<1>4. EntryOK(l[i], t, H)
  BY DEF LogOK
<1> QED
  BY <1>1, <1>3, <1>4 DEF EntryOK

LEMMA LogEntry ==
    ASSUME NEW c, NEW l, NEW t, NEW H, LogOK(c, l, t, H), NEW i \in DOMAIN l
    PROVE  l[i] \in Entry /\ Event(l[i]) /\ EntryOK(l[i], t, H) /\ i \in Nat
<1>1. l[i] \in Entry /\ i \in Nat
  BY ElementOfSeq, LenProperties DEF LogOK
<1> QED
  BY <1>1, EntryEvent DEF LogOK

\* A task of a store that is granted at all is granted the number it has there.
LEMMA GrantedHere ==
    ASSUME NEW c, NEW l, NEW t, NEW H, LogOK(c, l, t, H), NEW u \in Tasks, t[u] # NULL,
           GrantedIn(H, u)
    PROVE  GrantIn(H, u, t[u])
<1>1. PICK i \in DOMAIN l : l[i].id = u
  BY DEF LogOK
<1>2. Event(l[i]) /\ EntryOK(l[i], t, H)
  BY LogEntry
<1>3. l[i].op = "create" /\ l[i].uid = u
  BY <1>1, <1>2, EventOf
<1> QED
  BY <1>1, <1>2, <1>3 DEF EntryOK

LEMMA UngrantedIs ==
    ASSUME NEW c, NEW u
    PROVE  u \in Ungranted(c) <=>
             \E i \in DOMAIN log[c] : /\ log[c][i].op = "create"
                                      /\ log[c][i].status = "pending" /\ log[c][i].uid = u
BY DEF Ungranted, Pending, Entries

\* When nothing at a number or above it is pending, all there is granted.
LEMMA NotPendingNumber ==
    ASSUME NEW c \in Clients, LogOK(c, log[c], at[c], hub), NEW num, ~PendingNumber(c, num),
           NEW u \in Tasks, at[c][u] # NULL, IsPrefix(at[c][u], num)
    PROVE  GrantIn(hub, u, at[c][u])
<1>1. u \notin Ungranted(c)
  BY DEF PendingNumber
<1>2. \A i \in DOMAIN log[c] :
        log[c][i].op = "create" /\ log[c][i].status = "pending" => log[c][i].uid # u
  BY <1>1, UngrantedIs
<1> QED
  BY <1>2, KnownGranted

-----------------------------------------------------------------------------
(* A store gets an event, and perhaps a task with it.                      *)

LEMMA LogAppend ==
    ASSUME NEW c, NEW l, NEW t, NEW r, NEW H, LogOK(c, l, t, H), NEW e \in Entry,
           \A u \in Tasks : t[u] # NULL => r[u] = t[u],
           \A u \in Tasks : r[u] # NULL /\ t[u] = NULL => u = e.id,
           \A i \in DOMAIN l : l[i].id # e.id, EntryOK(e, r, H),
           \A w \in Work : w.id = e.id /\ w.by # c => \E h \in H : h.id = w.id
    PROVE  LogOK(c, Append(l, e), r, H)
<1> DEFINE m == Append(l, e)
           n == Len(l)
<1>0. n \in Nat /\ DOMAIN l = 1..n /\ l \in Seq(Entry)
  BY LenProperties DEF LogOK
<1>1. m \in Seq(Entry) /\ Len(m) = n + 1 /\ \A i \in 1..n : m[i] = l[i]
  BY <1>0, AppendProperties
<1>2. m[n + 1] = e /\ DOMAIN m = 1..(n + 1)
  BY <1>0, <1>1, AppendProperties, LenProperties
<1> HIDE DEF m, n
<1>3. DOMAIN m = DOMAIN l \cup {n + 1} /\ n + 1 \notin DOMAIN l
  BY <1>0, <1>2
<1>4. \A i \in DOMAIN l : m[i] = l[i]
  BY <1>0, <1>1
<1>5. \A i, j \in DOMAIN m : m[i].id = m[j].id => i = j
  BY <1>2, <1>3, <1>4 DEF LogOK
<1>6. \A i \in DOMAIN l : EntryOK(l[i], r, H)
  <2> TAKE i \in DOMAIN l
  <2>1. EntryOK(l[i], t, H) /\ Event(l[i])
    BY LogEntry
  <2>2. l[i].uid \in Tasks /\ (l[i].op = "link" => l[i].to \in Tasks)
    BY <2>1, EventOf
  <2> QED
    BY <2>1, <2>2 DEF EntryOK
<1>7. \A i \in DOMAIN m : EntryOK(m[i], r, H)
  BY <1>2, <1>3, <1>4, <1>6
<1>8. \A u \in Tasks : r[u] # NULL => \E i \in DOMAIN m : m[i].id = u
  <2> TAKE u \in Tasks
  <2>1. CASE t[u] = NULL
    BY <1>2, <1>3, <2>1
  <2>2. CASE t[u] # NULL
    BY <1>3, <1>4, <2>2 DEF LogOK
  <2> QED
    BY <2>1, <2>2
<1>9. \A i \in DOMAIN m, w \in Work : m[i].id = w.id /\ w.by # c => \E h \in H : h.id = w.id
  <2>1. \A i \in DOMAIN l, w \in Work : l[i].id = w.id /\ w.by # c => \E h \in H : h.id = w.id
    BY DEF LogOK
  <2> TAKE i \in DOMAIN m, w \in Work
  <2>2. CASE i \in DOMAIN l
    BY <1>4, <2>1, <2>2
  <2>3. CASE i = n + 1
    BY <1>2, <2>3
  <2> QED
    BY <1>3, <2>2, <2>3
<1>10. \A h \in H, w \in Work : h.id = w.id /\ w.by = c => \E i \in DOMAIN m : m[i].id = w.id
  BY <1>3, <1>4 DEF LogOK
<1> QED
  BY <1>1, <1>5, <1>7, <1>8, <1>9, <1>10 DEF LogOK, m

LEMMA StoreAppend ==
    ASSUME NEW c, NEW l, NEW t, NEW r, NEW p, NEW H, StoreOK(c, t, l, p, H), NEW e \in Entry,
           \A u \in Tasks : t[u] # NULL => r[u] = t[u],
           \A u \in Tasks : r[u] # NULL /\ t[u] = NULL => u = e.id,
           \A i \in DOMAIN l : l[i].id # e.id, EntryOK(e, r, H),
           \A w \in Work : w.id = e.id /\ w.by # c => \E h \in H : h.id = w.id,
           TreeOf(r), GrantedUp(r, H),
           \A u, v \in Tasks :
               t[u] = NULL /\ r[u] # NULL /\ t[v] # NULL /\ IsPrefix(r[u], t[v])
                   => GrantedIn(H, u)
    PROVE  StoreOK(c, r, Append(l, e), p, H)
<1> DEFINE m == Append(l, e)
<1>0. LogOK(c, l, t, H) /\ BatchOK(p, l, t, H) /\ ResultOK(p, l, H)
  BY DEF StoreOK
<1>1. LogOK(c, m, r, H)
  BY <1>0, LogAppend
<1>2. \A i \in DOMAIN l : i \in DOMAIN m /\ m[i] = l[i]
  <2>1. l \in Seq(Entry) /\ Len(l) \in Nat /\ DOMAIN l = 1..Len(l)
    BY <1>0, LenProperties DEF LogOK
  <2>2. m \in Seq(Entry) /\ Len(m) = Len(l) + 1 /\ \A i \in 1..Len(l) : m[i] = l[i]
    BY <2>1, AppendProperties
  <2>3. DOMAIN m = 1..(Len(l) + 1)
    BY <2>2, LenProperties
  <2> QED
    BY <2>1, <2>2, <2>3
<1> HIDE DEF m
<1>3. BatchOK(p, m, r, H)
  <2> SUFFICES ASSUME p.pc = "send", NEW i \in DOMAIN p.batch
               PROVE  i \in DOMAIN m /\ SentOK(p.batch[i], m[i], r, H)
    BY DEF BatchOK
  <2> DEFINE b == p.batch[i]
  <2>1. i \in DOMAIN l /\ SentOK(b, l[i], t, H)
    BY <1>0 DEF BatchOK
  <2>2. EntryOK(l[i], t, H) /\ Event(l[i]) /\ Event(b)
    BY <1>0, <2>1, LogEntry, EntryEvent DEF SentOK
  <2> HIDE DEF b
  <2>3. b.op = "create" => t[b.uid] # NULL /\ b.uid \in Tasks
    BY <2>1, <2>2, SameEvent, EventOf DEF SentOK, EntryOK
  <2>4. b.op = "create" =>
          \A u \in Tasks : u # b.uid /\ r[u] # NULL /\ IsPrefix(r[u], r[b.uid]) => GrantedIn(H, u)
    BY <2>1, <2>3 DEF SentOK
  <2>5. SentOK(b, l[i], r, H)
    BY <2>1, <2>4 DEF SentOK
  <2> QED
    BY <1>2, <2>1, <2>5 DEF b
<1>4. ResultOK(p, m, H)
  BY <1>0, <1>2 DEF ResultOK
<1> QED
  BY <1>1, <1>3, <1>4 DEF StoreOK, m

\* A step that changes one store and leaves the hub alone.
LEMMA OneStore ==
    ASSUME RegistryInv, NEW c \in Clients, NEW t, NEW l, NEW p \in PushState,
           StoreOK(c, t, l, p, hub),
           at' = [at EXCEPT ![c] = t], log' = [log EXCEPT ![c] = l], push' = [push EXCEPT ![c] = p],
           seq' \in [Clients -> [Namespaces -> Nat]], hub' = hub, epoch' = epoch,
           collisions' = collisions, DOMAIN links' = Clients, LinksInv'
    PROVE  RegistryInv'
<1>1. t \in [Tasks -> Paths \cup {NULL}] /\ l \in Seq(Entry)
  BY DEF StoreOK, TreeOf, LogOK
<1>2. RegistryTypeOK
  BY DEF RegistryInv
<1>3. /\ at' \in [Clients -> [Tasks -> Paths \cup {NULL}]]
      /\ at'[c] = t /\ \A d \in Clients : d # c => at'[d] = at[d]
  <2> DEFINE S == [Tasks -> Paths \cup {NULL}]
  <2>1. t \in S /\ at \in [Clients -> S]
    BY <1>1, <1>2 DEF RegistryTypeOK
  <2> HIDE DEF S
  <2>2. at' \in [Clients -> S] /\ at'[c] = t /\ \A d \in Clients : d # c => at'[d] = at[d]
    BY <2>1
  <2> QED
    BY <2>2 DEF S
<1>4. /\ log' \in [Clients -> Seq(Entry)]
      /\ log'[c] = l /\ \A d \in Clients : d # c => log'[d] = log[d]
  <2> DEFINE S == Seq(Entry)
  <2>1. l \in S /\ log \in [Clients -> S]
    BY <1>1, <1>2 DEF RegistryTypeOK
  <2> HIDE DEF S
  <2>2. log' \in [Clients -> S] /\ log'[c] = l /\ \A d \in Clients : d # c => log'[d] = log[d]
    BY <2>1
  <2> QED
    BY <2>2 DEF S
<1>5. /\ push' \in [Clients -> PushState]
      /\ push'[c] = p /\ \A d \in Clients : d # c => push'[d] = push[d]
  <2>1. push \in [Clients -> PushState]
    BY <1>2 DEF RegistryTypeOK
  <2> QED
    BY <2>1
<1>6. RegistryTypeOK'
  BY <1>2, <1>3, <1>4, <1>5 DEF RegistryTypeOK
<1>7. HubOK(hub)' /\ CollisionInv'
  BY DEF RegistryInv, CollisionInv
<1>8. ASSUME NEW d \in Clients PROVE StoreOK(d, at[d], log[d], push[d], hub)'
  <2>1. CASE d = c
    BY <1>3, <1>4, <1>5, <2>1
  <2>2. CASE d # c
    BY <1>3, <1>4, <1>5, <2>2 DEF RegistryInv
  <2> QED
    BY <2>1, <2>2
<1> QED
  BY <1>6, <1>7, <1>8 DEF RegistryInv

LEMMA IdsAre ==
    ASSUME NEW c, NEW id
    PROVE  id \in Ids(c) <=> \E i \in DOMAIN log[c] : log[c][i].id = id
BY DEF Ids, Entries

\* What the invariant says of one client.
LEMMA OfClient ==
    ASSUME RegistryInv, NEW c \in Clients
    PROVE  /\ RegistryTypeOK /\ HubOK(hub) /\ hub \subseteq HubEvent
           /\ StoreOK(c, at[c], log[c], push[c], hub)
           /\ TreeOf(at[c]) /\ GrantedUp(at[c], hub) /\ LogOK(c, log[c], at[c], hub)
           /\ push[c] \in PushState
           /\ at = [at EXCEPT ![c] = at[c]] /\ log = [log EXCEPT ![c] = log[c]]
           /\ push = [push EXCEPT ![c] = push[c]]
<1>1. RegistryTypeOK /\ HubOK(hub) /\ StoreOK(c, at[c], log[c], push[c], hub)
  BY DEF RegistryInv
<1>2. TreeOf(at[c]) /\ GrantedUp(at[c], hub) /\ LogOK(c, log[c], at[c], hub)
  BY <1>1 DEF StoreOK
<1>3. /\ DOMAIN at = Clients /\ at = [d \in Clients |-> at[d]]
      /\ DOMAIN log = Clients /\ log = [d \in Clients |-> log[d]]
  BY <1>1 DEF RegistryTypeOK
<1>4. push \in [Clients -> PushState] /\ hub \subseteq HubEvent
  BY <1>1 DEF RegistryTypeOK
<1>5. push = [push EXCEPT ![c] = push[c]] /\ push[c] \in PushState
  BY <1>4
<1>6. at = [at EXCEPT ![c] = at[c]] /\ log = [log EXCEPT ![c] = log[c]]
  BY <1>3
<1> QED
  BY <1>1, <1>2, <1>4, <1>5, <1>6

LEMMA EmptyPath == Root \in Paths /\ Len(Root) = 0
BY EmptySeq DEF Root, Paths

\* An edit or a link made here.
LEMMA ChangeKeeps ==
    ASSUME RegistryInv, NEW c \in Clients, NEW w \in Work, LocalWrite(c, w), Change(c, w)
    PROVE  RegistryInv'
<1> DEFINE ref == IF w.to = NULL THEN Root ELSE at[c][w.to]
           e == [id |-> w.id, op |-> w.op, uid |-> w.uid, num |-> at[c][w.uid],
                 to |-> w.to, ref |-> ref, status |-> "pending"]
<1>0. /\ RegistryTypeOK /\ StoreOK(c, at[c], log[c], push[c], hub) /\ push[c] \in PushState
      /\ TreeOf(at[c]) /\ GrantedUp(at[c], hub)
      /\ at = [at EXCEPT ![c] = at[c]] /\ push = [push EXCEPT ![c] = push[c]]
  BY OfClient
<1>1. w.uid \in Tasks /\ w.to \in Tasks \cup {NULL} /\ (w.op = "link" => w.to # NULL)
  BY NumberRegistryAssumption
<1>2. at[c][w.uid] \in Paths /\ ref \in Paths
  BY <1>0, <1>1, StorePaths, EmptyPath DEF Change
<1>3. e \in Entry
  <2>1. IsOf(e, w)
    BY DEF IsOf
  <2>2. e \in [id : WorkIds, op : {x.op : x \in Work}, uid : Tasks, num : Paths,
               to : Tasks \cup {NULL}, ref : Paths, status : {"pending", "pushed", "applied"}]
    BY <1>1, <1>2 DEF WorkIds
  <2> QED
    BY <2>1, <2>2 DEF Entry
<1>4. EntryOK(e, at[c], hub)
  BY <1>1 DEF EntryOK, Change
<1>5. \A i \in DOMAIN log[c] : log[c][i].id # e.id
  BY IdsAre DEF LocalWrite
<1>6. \A x \in Work : x.id = e.id /\ x.by # c => \E h \in hub : h.id = x.id
  BY NumberRegistryAssumption DEF LocalWrite
<1>7. StoreOK(c, at[c], Append(log[c], e), push[c], hub)
  <2> HIDE DEF e
  <2> QED
    BY <1>0, <1>3, <1>4, <1>5, <1>6, StoreAppend
<1>8. log' = [log EXCEPT ![c] = Append(log[c], e)]
  BY DEF Change, Emit
<1>9. /\ at' = [at EXCEPT ![c] = at[c]] /\ push' = [push EXCEPT ![c] = push[c]]
      /\ seq' = seq /\ hub' = hub /\ epoch' = epoch /\ collisions' = collisions /\ links' = links
  BY <1>0 DEF Change, LocalWrite
<1>10. seq' \in [Clients -> [Namespaces -> Nat]] /\ DOMAIN links' = Clients /\ LinksInv'
  BY <1>0, <1>9 DEF RegistryTypeOK, RegistryInv, LinksInv
<1> HIDE DEF e
<1> QED
  BY <1>0, <1>7, <1>8, <1>9, <1>10, OneStore

\* A task created here, at the next free number below its parent.
LEMMA CreateKeeps ==
    ASSUME RegistryInv, NEW c \in Clients, NEW w \in Work, LocalWrite(c, w), Create(c, w)
    PROVE  RegistryInv'
<1> DEFINE parent == IF w.to = NULL THEN Root ELSE at[c][w.to]
           n == NextSequence(c, parent)
           num == Append(parent, n)
           t == at[c]
           r == [t EXCEPT ![w.uid] = num]
           e == [id |-> w.id, op |-> w.op, uid |-> w.uid, num |-> num,
                 to |-> w.to, ref |-> parent, status |-> "pending"]
<1>0. /\ RegistryTypeOK /\ HubOK(hub) /\ StoreOK(c, t, log[c], push[c], hub)
      /\ push[c] \in PushState /\ TreeOf(t) /\ GrantedUp(t, hub) /\ LogOK(c, log[c], t, hub)
      /\ hub \subseteq HubEvent /\ push = [push EXCEPT ![c] = push[c]]
  BY OfClient
<1>1. w.uid \in Tasks /\ w.to \in Tasks \cup {NULL} /\ w.id = w.uid /\ w.op = "create" /\ w.by = c
  BY NumberRegistryAssumption DEF Create, LocalWrite
<1>2. parent \in Namespaces /\ n <= MaxNumber
  BY DEF Create
<1>3. parent \in Paths /\ Len(parent) <= MaxDepth /\ Len(parent) \in Nat /\ MaxDepth \in Nat
  BY <1>2, NamespaceIsPath, PathFacts, NumberRegistryAssumption DEF Paths
<1>4. n \in 1..MaxNumber /\ \A u \in Tasks : t[u] # num
  BY <1>0, <1>2, NextIsFree
<1> HIDE DEF parent, n, num
<1>5. num \in Paths /\ Len(num) = Len(parent) + 1 /\ ParentOf(num) = parent
  BY <1>3, <1>4, AppendElements DEF Paths, num
<1>6. IsNumber(num) /\ num # NULL
  BY <1>3, <1>5, PathFacts DEF IsNumber
<1>7. \A i \in DOMAIN log[c] : log[c][i].id # w.id
  BY IdsAre DEF LocalWrite
<1>8. t[w.uid] = NULL
  BY <1>0, <1>1, <1>7 DEF LogOK
<1>9. \A h \in hub : h.id # w.id
  BY <1>0, <1>1, <1>7 DEF LogOK
<1>10. ~GrantedIn(hub, w.uid)
  BY <1>1, <1>9 DEF GrantedIn
<1>11. IF w.to = NULL THEN Len(num) = 1 ELSE t[w.to] = ParentOf(num)
  <2>1. CASE w.to = NULL
    <3>1. Len(parent) = 0
      BY <2>1, EmptyPath DEF parent
    <3> QED
      BY <1>5, <2>1, <3>1
  <2>2. CASE w.to # NULL
    BY <1>5, <2>2 DEF parent
  <2> QED
    BY <2>1, <2>2
<1>12. r = [t EXCEPT ![w.uid] = num] /\ t \in [Tasks -> Paths \cup {NULL}]
  BY <1>0 DEF TreeOf
<1>13. r[w.uid] = num /\ \A u \in Tasks : u # w.uid => r[u] = t[u]
  BY <1>1, <1>12
<1> HIDE DEF r
<1>14. TreeOf(r)
  <2> HIDE DEF t
  <2> QED
    BY <1>0, <1>1, <1>4, <1>6, <1>8, <1>11, <1>12, LeafKeepsTree
<1>15. \A v \in Tasks : t[v] # NULL => ~IsPrefix(num, t[v])
  <2> HIDE DEF t
  <2>1. num \in Paths /\ Len(num) >= 1
    BY <1>6 DEF IsNumber
  <2> QED
    BY <1>0, <1>4, <2>1, NothingBelow
<1>16. GrantedUp(r, hub)
  <2> SUFFICES ASSUME NEW u \in Tasks, NEW v \in Tasks, r[u] # NULL, r[v] # NULL,
                      IsPrefix(r[u], r[v]), GrantedIn(hub, v)
               PROVE  GrantedIn(hub, u)
    BY DEF GrantedUp
  <2>1. v # w.uid
    BY <1>10
  <2>2. r[v] = t[v] /\ t[v] # NULL
    BY <1>13, <2>1
  <2>3. u # w.uid
    BY <1>13, <1>15, <2>2
  <2>4. r[u] = t[u]
    BY <1>13, <2>3
  <2> QED
    BY <1>0, <2>2, <2>4 DEF GrantedUp
<1>17. e \in Entry
  <2>1. IsOf(e, w)
    BY DEF IsOf
  <2>2. e \in [id : WorkIds, op : {x.op : x \in Work}, uid : Tasks, num : Paths,
               to : Tasks \cup {NULL}, ref : Paths, status : {"pending", "pushed", "applied"}]
    BY <1>1, <1>3, <1>5 DEF WorkIds
  <2> QED
    BY <2>1, <2>2 DEF Entry
<1>18. EntryOK(e, r, hub)
  BY <1>1, <1>5, <1>6, <1>10, <1>13 DEF EntryOK
<1>19. \A x \in Work : x.id = e.id /\ x.by # c => \E h \in hub : h.id = x.id
  BY <1>1, NumberRegistryAssumption
<1>20. e.id = w.uid
  BY <1>1
<1>21. /\ \A u \in Tasks : t[u] # NULL => r[u] = t[u]
       /\ \A u \in Tasks : r[u] # NULL /\ t[u] = NULL => u = e.id
       /\ \A u, v \in Tasks :
            t[u] = NULL /\ r[u] # NULL /\ t[v] # NULL /\ IsPrefix(r[u], t[v]) => GrantedIn(hub, u)
  BY <1>8, <1>13, <1>15, <1>20
<1>22. StoreOK(c, r, Append(log[c], e), push[c], hub)
  <2>1. \A i \in DOMAIN log[c] : log[c][i].id # e.id
    BY <1>7
  <2> HIDE DEF e, t
  <2> QED
    BY <1>0, <1>14, <1>16, <1>17, <1>18, <1>19, <1>21, <2>1, StoreAppend
<1>23. log' = [log EXCEPT ![c] = Append(log[c], e)]
  BY DEF Create, Emit, parent, n, num
<1>24. at' = [at EXCEPT ![c] = r]
  BY DEF Create, parent, n, num, r
<1>25. /\ push' = [push EXCEPT ![c] = push[c]]
       /\ hub' = hub /\ epoch' = epoch /\ collisions' = collisions /\ links' = links
  BY <1>0 DEF LocalWrite
<1>26. seq' \in [Clients -> [Namespaces -> Nat]]
  <2>1. seq' = [seq EXCEPT ![c][parent] = n] /\ seq \in [Clients -> [Namespaces -> Nat]] /\ n \in Nat
    BY <1>0, <1>4 DEF Create, parent, n, RegistryTypeOK
  <2> QED
    BY <1>2, <2>1
<1>27. DOMAIN links' = Clients /\ LinksInv'
  BY <1>0, <1>25 DEF RegistryTypeOK, RegistryInv, LinksInv
<1> HIDE DEF e, t
<1> QED
  BY <1>0, <1>22, <1>23, <1>24, <1>25, <1>26, <1>27, OneStore

-----------------------------------------------------------------------------
(* Pull.                                                                   *)

\* A task that holds the number here, or a prefix of it, when the store does
\* not refuse the number, is the one the hub granted it.
LEMMA NotRefused ==
    ASSUME RegistryInv, NEW c \in Clients, NEW num, ~Refused(c, num),
           NEW u \in Tasks, at[c][u] # NULL, IsPrefix(at[c][u], num)
    PROVE  GrantIn(hub, u, at[c][u]) /\ GrantedIn(hub, u)
<1>1. LogOK(c, log[c], at[c], hub)
  BY OfClient
<1>2. ~PendingNumber(c, num)
  BY DEF Refused
<1> QED
  BY <1>1, <1>2, NotPendingNumber, GrantIsGranted

\* The entry Mirror appends.
Applied(h) == [id |-> h.id, op |-> h.op, uid |-> h.uid, num |-> h.num,
               to |-> h.to, ref |-> h.ref, status |-> "applied"]

LEMMA AppliedEntry ==
    ASSUME NEW h \in HubEvent
    PROVE  Applied(h) \in Entry
<1>1. PICK w \in Work : IsOf(h, w)
  BY DEF HubEvent
<1>2. IsOf(Applied(h), w)
  BY <1>1 DEF IsOf, Applied
<1>3. Applied(h) \in [id : WorkIds, op : {x.op : x \in Work}, uid : Tasks, num : Paths,
                      to : Tasks \cup {NULL}, ref : Paths, status : {"pending", "pushed", "applied"}]
  BY DEF HubEvent, Applied
<1> QED
  BY <1>2, <1>3 DEF Entry

LEMMA ApplyChangeKeeps ==
    ASSUME RegistryInv, NEW c \in Clients, NEW h \in hub, Apply(c, h), h.op # "create"
    PROVE  RegistryInv'
<1> DEFINE e == Applied(h)
<1>0. /\ RegistryTypeOK /\ HubOK(hub) /\ StoreOK(c, at[c], log[c], push[c], hub)
      /\ push[c] \in PushState /\ TreeOf(at[c]) /\ GrantedUp(at[c], hub) /\ hub \subseteq HubEvent
      /\ at = [at EXCEPT ![c] = at[c]] /\ push = [push EXCEPT ![c] = push[c]]
  BY OfClient
<1>1. ApplyChange(c, h) /\ h.id \notin Ids(c)
  BY DEF Apply
<1>2. e \in Entry /\ e.id = h.id
  BY <1>0, AppliedEntry DEF Applied
<1>3. EntryOK(e, at[c], hub)
  BY DEF EntryOK, Applied
<1>4. \A i \in DOMAIN log[c] : log[c][i].id # e.id
  BY <1>1, <1>2, IdsAre
<1>5. \A x \in Work : x.id = e.id /\ x.by # c => \E g \in hub : g.id = x.id
  BY <1>2
<1>6. StoreOK(c, at[c], Append(log[c], e), push[c], hub)
  <2> HIDE DEF e
  <2> QED
    BY <1>0, <1>2, <1>3, <1>4, <1>5, StoreAppend
<1>7. log' = [log EXCEPT ![c] = Append(log[c], e)]
  BY DEF Apply, Mirror, Applied
<1>8. /\ at' = [at EXCEPT ![c] = at[c]] /\ push' = [push EXCEPT ![c] = push[c]]
      /\ seq' = seq /\ hub' = hub /\ epoch' = epoch /\ collisions' = collisions
  BY <1>0, <1>1 DEF ApplyChange, Apply
<1> DEFINE new == {[event |-> h.id, target |-> u] : u \in IF h.op = "link" THEN TaskAt(c, h.ref) ELSE {}}
<1>9. links' = [links EXCEPT ![c] = @ \cup new] /\ DOMAIN links = Clients
  BY <1>0, <1>1 DEF ApplyChange, RegistryTypeOK
<1>10. \A l \in new : \A w \in Work : w.id = l.event => l.target = w.to
  <2> SUFFICES ASSUME h.op = "link", NEW u \in TaskAt(c, h.ref), NEW w \in Work, w.id = h.id
               PROVE  u = w.to
    OBVIOUS
  <2>1. u \in Tasks /\ at[c][u] = h.ref /\ h.ref \in Paths /\ ~Refused(c, h.ref)
    BY <1>0, <1>1 DEF TaskAt, ApplyChange, ChangeApplies, HubEvent
  <2>2. at[c][u] # NULL /\ IsPrefix(at[c][u], h.ref)
    BY <2>1, PathFacts, PrefixReflexive
  <2>3. GrantIn(hub, u, h.ref)
    BY <2>1, <2>2, NotRefused
  <2>4. GrantIn(hub, h.to, h.ref)
    BY <1>0 DEF HubOK
  <2>5. u = h.to
    BY <1>0, <2>3, <2>4, GrantUnique
  <2>6. h.to = w.to
    BY <1>0, NumberRegistryAssumption DEF HubEvent, IsOf
  <2> QED
    BY <2>5, <2>6
<1> HIDE DEF new
<1>11. DOMAIN links' = Clients /\ links'[c] = links[c] \cup new
       /\ \A d \in Clients : d # c => links'[d] = links[d]
  BY <1>9
<1>12. LinksInv'
  <2>1. LinksInv
    BY DEF RegistryInv
  <2> QED
    BY <1>10, <1>11, <2>1 DEF LinksInv
<1>13. seq' \in [Clients -> [Namespaces -> Nat]]
  BY <1>0, <1>8 DEF RegistryTypeOK
<1> HIDE DEF e
<1> QED
  BY <1>0, <1>6, <1>7, <1>8, <1>11, <1>12, <1>13, OneStore

\* A creation from the hub finds its number free, and its parent above it.
LEMMA ApplyCreateKeeps ==
    ASSUME RegistryInv, NEW c \in Clients, NEW h \in hub, Apply(c, h), h.op = "create"
    PROVE  RegistryInv'
<1> DEFINE e == Applied(h)
           x == h.uid
           num == h.num
           t == at[c]
           r == [t EXCEPT ![x] = num]
<1>0. /\ RegistryTypeOK /\ HubOK(hub) /\ StoreOK(c, t, log[c], push[c], hub)
      /\ push[c] \in PushState /\ TreeOf(t) /\ GrantedUp(t, hub) /\ LogOK(c, log[c], t, hub)
      /\ hub \subseteq HubEvent /\ push = [push EXCEPT ![c] = push[c]]
  BY OfClient
<1>1. ApplyCreate(c, h) /\ h.id \notin Ids(c) /\ t[x] = NULL
  BY DEF Apply, ApplyCreate, CreateApplies
<1>2. PICK w \in Work : IsOf(h, w)
  BY <1>0 DEF HubEvent
<1>3. w.uid = x /\ w.op = "create" /\ w.to = h.to /\ w.id = h.id /\ h.id = x
      /\ x \in Tasks /\ h.to \in Tasks \cup {NULL}
  BY <1>2, NumberRegistryAssumption DEF IsOf
<1>4. /\ IsNumber(num) /\ num \in Paths /\ Len(num) >= 1 /\ num # NULL
      /\ h.ref = ParentOf(num) /\ h.ref \in Paths
      /\ IF h.to = NULL THEN Len(num) = 1 ELSE GrantIn(hub, h.to, h.ref)
  BY <1>0, PathFacts DEF HubOK, IsNumber, HubEvent
<1>5. GrantIn(hub, x, num) /\ GrantedIn(hub, x)
  BY <1>3 DEF GrantIn, GrantedIn
<1>6. \A u \in Tasks : t[u] # num
  <2> SUFFICES ASSUME NEW u \in Tasks, t[u] = num PROVE FALSE
    OBVIOUS
  <2>1. ~Refused(c, num)
    BY <1>1 DEF ApplyCreate, CreateApplies, TaskAt
  <2>2. t[u] # NULL /\ IsPrefix(t[u], num)
    BY <1>4, PrefixReflexive
  <2>3. GrantIn(hub, u, num)
    BY <2>1, <2>2, NotRefused
  <2> QED
    BY <1>0, <1>1, <1>4, <1>5, <2>3, GrantUnique
\* The parent's number is held by the granted parent.
<1>7. ASSUME h.ref # Root PROVE \E u \in Tasks : t[u] = h.ref /\ GrantIn(hub, u, h.ref) /\ GrantedIn(hub, u)
  <2>1. ~Refused(c, h.ref)
    BY <1>1, <1>7 DEF ApplyCreate, CreateApplies
  <2>2. PICK u \in Tasks : t[u] = h.ref
    BY <1>1, <1>7 DEF ApplyCreate, CreateApplies, TaskAt
  <2>3. t[u] # NULL /\ IsPrefix(t[u], h.ref)
    BY <1>4, <2>2, PrefixReflexive, PathFacts
  <2> QED
    BY <2>1, <2>2, <2>3, NotRefused
<1>8. IF w.to = NULL THEN Len(num) = 1 ELSE t[w.to] = ParentOf(num)
  <2>1. CASE w.to = NULL
    BY <1>3, <1>4, <2>1
  <2>2. CASE w.to # NULL
    <3>1. GrantIn(hub, h.to, h.ref)
      BY <1>3, <1>4, <2>2
    <3>2. Len(h.ref) >= 1
      BY <1>0, <3>1 DEF GrantIn, HubOK, IsNumber
    <3>3. h.ref # Root
      BY <3>2, EmptyPath
    <3>4. PICK u \in Tasks : t[u] = h.ref /\ GrantIn(hub, u, h.ref)
      BY <1>7, <3>3
    <3>5. u = h.to
      BY <1>0, <3>1, <3>4, GrantUnique
    <3> QED
      BY <1>3, <1>4, <2>2, <3>4, <3>5
  <2> QED
    BY <2>1, <2>2
<1>9. r = [t EXCEPT ![w.uid] = num] /\ t \in [Tasks -> Paths \cup {NULL}]
  BY <1>0, <1>3 DEF TreeOf
<1>10. r[x] = num /\ \A u \in Tasks : u # x => r[u] = t[u]
  BY <1>3, <1>9
<1> HIDE DEF r
<1>11. TreeOf(r)
  <2>1. t[w.uid] = NULL
    BY <1>1, <1>3
  <2> HIDE DEF t, num, x
  <2> QED
    BY <1>0, <1>3, <1>4, <1>6, <1>8, <1>9, <2>1, LeafKeepsTree
<1>12. GrantedUp(r, hub)
  <2> SUFFICES ASSUME NEW u \in Tasks, NEW v \in Tasks, r[u] # NULL, r[v] # NULL,
                      IsPrefix(r[u], r[v]), GrantedIn(hub, v)
               PROVE  GrantedIn(hub, u)
    BY DEF GrantedUp
  <2>1. CASE u = x
    BY <1>5, <2>1
  <2>2. CASE u # x /\ v # x
    BY <1>0, <1>10, <2>2 DEF GrantedUp
  <2>3. CASE u # x /\ v = x
    <3>1. r[u] = t[u] /\ t[u] # NULL /\ t[u] \in Paths /\ IsPrefix(t[u], num) /\ t[u] # num
      BY <1>0, <1>6, <1>10, <2>3, StorePaths
    <3>2. IsPrefix(t[u], h.ref) /\ Len(t[u]) < Len(num) /\ Len(t[u]) >= 1
      BY <1>0, <1>4, <3>1, StrictlyAbove, StorePaths
    <3>3. h.ref # Root
      <4>1. Len(t[u]) <= Len(h.ref) /\ Len(t[u]) \in Nat
        BY <1>4, <3>1, <3>2, PrefixLength, PathFacts
      <4> QED
        BY <3>2, <4>1, EmptyPath
    <3>4. PICK y \in Tasks : t[y] = h.ref /\ GrantedIn(hub, y)
      BY <1>7, <3>3
    <3>5. t[y] # NULL
      BY <1>4, <3>4, PathFacts
    <3> QED
      BY <1>0, <3>1, <3>2, <3>4, <3>5 DEF GrantedUp
  <2> QED
    BY <2>1, <2>2, <2>3
<1>13. e \in Entry /\ e.id = x
  BY <1>0, <1>3, AppliedEntry DEF Applied
<1>14. EntryOK(e, r, hub)
  <2>1. e.op = "create" /\ e.status = "applied" /\ e.uid = x /\ e.id = x
    BY <1>3 DEF Applied
  <2> QED
    BY <1>4, <1>5, <1>10, <2>1 DEF EntryOK
<1>15. \A i \in DOMAIN log[c] : log[c][i].id # e.id
  BY <1>1, <1>3, <1>13, IdsAre
<1>16. \A y \in Work : y.id = e.id /\ y.by # c => \E g \in hub : g.id = y.id
  BY <1>3, <1>13
<1>17. /\ \A u \in Tasks : t[u] # NULL => r[u] = t[u]
       /\ \A u \in Tasks : r[u] # NULL /\ t[u] = NULL => u = e.id
       /\ \A u, v \in Tasks :
            t[u] = NULL /\ r[u] # NULL /\ t[v] # NULL /\ IsPrefix(r[u], t[v]) => GrantedIn(hub, u)
  BY <1>1, <1>5, <1>10, <1>13
<1>18. StoreOK(c, r, Append(log[c], e), push[c], hub)
  <2> HIDE DEF e, t, x, num
  <2> QED
    BY <1>0, <1>11, <1>12, <1>13, <1>14, <1>15, <1>16, <1>17, StoreAppend
<1>19. log' = [log EXCEPT ![c] = Append(log[c], e)]
  BY DEF Apply, Mirror, Applied
<1>20. at' = [at EXCEPT ![c] = r]
  <2>1. TaskAt(c, num) = {}
    BY <1>6 DEF TaskAt
  <2> QED
    BY <1>1, <2>1 DEF ApplyCreate, r
<1>21. /\ push' = [push EXCEPT ![c] = push[c]]
       /\ hub' = hub /\ epoch' = epoch /\ collisions' = collisions /\ links' = links
  BY <1>0, <1>1 DEF Apply, ApplyCreate
<1>22. seq' \in [Clients -> [Namespaces -> Nat]]
  <2>1. Last(num) \in Nat
    <3>1. Len(num) \in 1..Len(num)
      BY <1>4, PathFacts
    <3>2. num[Len(num)] \in 1..MaxNumber
      BY <1>4, <3>1, ElementOfSeq DEF Paths
    <3> QED
      BY <3>2, NumberRegistryAssumption DEF Last
  <2> DEFINE last == Last(num)
  <2>2. seq \in [Clients -> [Namespaces -> Nat]]
        /\ seq' = [seq EXCEPT ![c][h.ref] = IF last > @ THEN last ELSE @] /\ last \in Nat
    BY <1>0, <1>1, <2>1 DEF ApplyCreate, RegistryTypeOK
  <2> HIDE DEF last
  <2> QED
    BY <2>2
<1>23. DOMAIN links' = Clients /\ LinksInv'
  BY <1>0, <1>21 DEF RegistryTypeOK, RegistryInv, LinksInv
<1> HIDE DEF e, t
<1> QED
  BY <1>0, <1>18, <1>19, <1>20, <1>21, <1>22, <1>23, OneStore

-----------------------------------------------------------------------------
(* Moving a task that is not granted to its next free number.              *)

MovedTo(s, old, new) == IF IsPrefix(old, s) THEN Rebase(s, old, new) ELSE s

LEMMA RebaseMoves ==
    ASSUME NEW old \in Paths, Len(old) >= 1, NEW n \in 1..MaxNumber, NEW s \in Paths
    PROVE  MovedPath(s, MovedTo(s, old, Append(ParentOf(old), n)), old, n)
<1> DEFINE p == ParentOf(old)
           new == Append(p, n)
<1>1. CASE IsPrefix(old, s)
  <2>0. Len(old) \in Nat
    BY PathFacts
  <2>1. p \in Paths /\ Len(p) = Len(old) - 1 /\ \A i \in 1..Len(old) - 1 : p[i] = old[i]
    BY ParentElements DEF Paths
  <2> HIDE DEF p
  <2>2. Len(old) = Len(p) + 1 /\ \A i \in 1..Len(p) : old[i] = p[i]
    BY <2>0, <2>1
  <2>3. /\ Rebase(s, old, new) \in Paths /\ Len(Rebase(s, old, new)) = Len(s)
        /\ \A i \in 1..Len(s) : Rebase(s, old, new)[i] = IF i = Len(old) THEN n ELSE s[i]
    <3> DEFINE S == 1..MaxNumber
    <3>1. p \in Seq(S) /\ n \in S /\ old \in Seq(S) /\ s \in Seq(S) /\ Paths = Seq(S)
      BY <2>1 DEF Paths
    <3> HIDE DEF S
    <3> QED
      BY <1>1, <2>2, <3>1, RebaseElements
  <2>4. MovedTo(s, old, new) = Rebase(s, old, new)
    BY <1>1 DEF MovedTo
  <2> HIDE DEF new
  <2>5. MovedPath(s, MovedTo(s, old, new), old, n)
    BY <1>1, <2>3, <2>4 DEF MovedPath
  <2> QED
    BY <2>5 DEF new, p
<1>2. CASE ~IsPrefix(old, s)
  <2>1. MovedTo(s, old, new) = s
    BY <1>2 DEF MovedTo
  <2> QED
    BY <1>2, <2>1 DEF MovedPath
<1> QED
  BY <1>1, <1>2

LEMMA NotBesideUp ==
    ASSUME NEW old \in Paths, Len(old) >= 1, NEW n, NEW s \in Paths, NEW t \in Paths,
           IsPrefix(s, t), NotBeside(t, old, n)
    PROVE  NotBeside(s, old, n)
<1> SUFFICES ASSUME Len(old) <= Len(s), s[Len(old)] = n,
                    \A i \in 1..Len(old) - 1 : s[i] = old[i]
             PROVE  FALSE
  BY DEF NotBeside
<1>1. Len(s) <= Len(t) /\ \A i \in 1..Len(s) : s[i] = t[i]
  BY PrefixPath
<1>2. Len(s) \in Nat /\ Len(t) \in Nat /\ Len(old) \in Nat
  BY PathFacts
<1>3. Len(old) <= Len(t) /\ Len(old) \in 1..Len(s) /\ \A i \in 1..Len(old) - 1 : i \in 1..Len(s)
  BY <1>1, <1>2
<1>4. t[Len(old)] = n /\ \A i \in 1..Len(old) - 1 : t[i] = old[i]
  BY <1>1, <1>3
<1> QED
  BY <1>3, <1>4 DEF NotBeside

\* The parent moves with the child.
LEMMA MovedParent ==
    ASSUME NEW old \in Paths, Len(old) >= 1, NEW n \in 1..MaxNumber, NEW s \in Paths,
           Len(s) >= 1, NotBeside(s, old, n)
    PROVE  MovedTo(ParentOf(s), old, Append(ParentOf(old), n))
             = ParentOf(MovedTo(s, old, Append(ParentOf(old), n)))
<1> DEFINE new == Append(ParentOf(old), n)
           q == ParentOf(s)
           a == MovedTo(q, old, new)
           b == MovedTo(s, old, new)
<1>1. q \in Paths /\ Len(q) = Len(s) - 1 /\ IsPrefix(q, s)
  BY ParentPath
<1>2. NotBeside(q, old, n)
  BY <1>1, NotBesideUp
<1> HIDE DEF q
<1>3. MovedPath(q, a, old, n) /\ MovedPath(s, b, old, n)
  BY <1>1, RebaseMoves
<1> HIDE DEF a, b, new
<1>4. a \in Paths /\ b \in Paths /\ Len(a) = Len(q) /\ Len(b) = Len(s)
  BY <1>3 DEF MovedPath
<1>5. IsPrefix(a, b)
  BY <1>1, <1>2, <1>3, MoveKeepsOrder
<1>6. Above(a, b)
  BY <1>1, <1>4, <1>5, PathFacts DEF Above
<1>7. a = ParentOf(b)
  BY <1>4, <1>6, AboveIsParent
<1> QED
  BY <1>7 DEF a, b, new, q

\* The numbers of the store after Renumber(c, u).
NewNumber(c, u) == Append(ParentOf(at[c][u]), NextSequence(c, ParentOf(at[c][u])))
NumbersAfter(c, u) ==
    [x \in Tasks |-> IF x \in Below(c, at[c][u])
                     THEN Rebase(at[c][x], at[c][u], NewNumber(c, u)) ELSE at[c][x]]

LogAfter(c, u) ==
    [i \in DOMAIN log[c] |-> Readdressed(c, u, at[c][u], NewNumber(c, u), log[c][i])]

LEMMA RenumberShifts ==
    ASSUME RegistryInv, NEW c \in Clients, NEW u \in Tasks, at[c][u] # NULL,
           NextSequence(c, ParentOf(at[c][u])) <= MaxNumber
    PROVE  /\ at[c][u] \in Paths /\ Len(at[c][u]) >= 1
           /\ NextSequence(c, ParentOf(at[c][u])) \in 1..MaxNumber
           /\ \A x \in Tasks : at[c][x] # NULL =>
                NumbersAfter(c, u)[x] = MovedTo(at[c][x], at[c][u], NewNumber(c, u))
           /\ Shifted(at[c], NumbersAfter(c, u), at[c][u], NextSequence(c, ParentOf(at[c][u])))
           /\ FreeBeside(at[c], at[c][u], NextSequence(c, ParentOf(at[c][u])))
<1> DEFINE t == at[c]
           old == t[u]
           p == ParentOf(old)
           n == NextSequence(c, p)
           new == Append(p, n)
           r == NumbersAfter(c, u)
<1>0. RegistryTypeOK /\ TreeOf(t)
  BY OfClient
<1>1. old \in Paths /\ Len(old) >= 1 /\ Len(old) \in Nat /\ Len(old) <= MaxDepth + 1 /\ MaxDepth \in Nat
  BY <1>0, StorePaths, NumberRegistryAssumption DEF IsNumber
<1>2. p \in Paths /\ Len(p) = Len(old) - 1 /\ \A i \in 1..Len(old) - 1 : p[i] = old[i]
  BY <1>1, ParentElements DEF Paths
<1>3. p \in Namespaces
  BY <1>1, <1>2, NamespaceIsPath DEF Paths
<1>4. n \in 1..MaxNumber /\ \A x \in Tasks : t[x] # new
  BY <1>0, <1>3, NextIsFree
<1> HIDE DEF n
<1>5. new \in Paths /\ Len(new) = Len(p) + 1 /\ (\A i \in 1..Len(p) : new[i] = p[i])
      /\ new[Len(p) + 1] = n
  BY <1>2, <1>4, AppendElements DEF Paths
<1>6. new = NewNumber(c, u)
  BY DEF NewNumber, n
<1>7. \A x \in Tasks : t[x] # NULL => r[x] = MovedTo(t[x], old, new)
  BY <1>6 DEF NumbersAfter, MovedTo, Below
<1>8. \A x \in Tasks : t[x] = NULL => r[x] = NULL
  BY DEF NumbersAfter, Below
<1>9. \A x \in Tasks : t[x] # NULL => MovedPath(t[x], r[x], old, n)
  BY <1>0, <1>1, <1>4, <1>7, StorePaths, RebaseMoves
<1>10. \A x \in Tasks : t[x] # NULL => r[x] \in Paths /\ r[x] # NULL
  BY <1>9, PathFacts DEF MovedPath
<1>11. Shifted(t, r, old, n)
  <2>1. DOMAIN r = Tasks /\ r = [x \in Tasks |-> r[x]]
    BY DEF NumbersAfter
  <2> HIDE DEF r
  <2>2. \A x \in Tasks : r[x] \in Paths \cup {NULL}
    BY <1>8, <1>10
  <2>3. r \in [Tasks -> Paths \cup {NULL}]
    BY <2>1, <2>2
  <2> QED
    BY <1>8, <1>9, <1>10, <2>3 DEF Shifted
<1>12. FreeBeside(t, old, n)
  <2> SUFFICES ASSUME NEW x \in Tasks, t[x] # NULL, Len(old) <= Len(t[x]), t[x][Len(old)] = n,
                      \A i \in 1..Len(old) - 1 : t[x][i] = old[i]
               PROVE  FALSE
    BY DEF FreeBeside, NotBeside
  <2> HIDE DEF old, p, new
  <2>1. t[x] \in Paths /\ ~IsPrefix(new, t[x])
    <3>1. Len(new) >= 1
      BY <1>1, <1>2, <1>5
    <3> HIDE DEF t
    <3> QED
      BY <1>0, <1>4, <1>5, <3>1, StorePaths, NothingBelow
  <2>2. Len(new) = Len(old) /\ Len(p) + 1 = Len(old)
    BY <1>1, <1>2, <1>5
  <2>3. \A i \in 1..Len(new) : new[i] = t[x][i]
    <3> TAKE i \in 1..Len(new)
    <3>1. i = Len(old) \/ i \in 1..Len(old) - 1
      BY <1>1, <2>2
    <3>2. CASE i = Len(old)
      BY <1>5, <2>2, <3>2
    <3>3. CASE i \in 1..Len(old) - 1
      BY <1>2, <1>5, <3>3
    <3> QED
      BY <3>1, <3>2, <3>3
  <2> QED
    BY <1>5, <2>1, <2>2, <2>3, PrefixPath
<1> QED
  BY <1>1, <1>4, <1>6, <1>7, <1>11, <1>12 DEF n

\* What requeueRenumberedEvents makes of an entry of the log, when the moved
\* task is not granted: nothing below it is granted, so everything below it is
\* still pending and takes its new number.
LEMMA ReaddressedEntry ==
    ASSUME RegistryInv, NEW c \in Clients, NEW u \in Tasks, at[c][u] # NULL,
           NextSequence(c, ParentOf(at[c][u])) <= MaxNumber, ~GrantedIn(hub, u),
           NEW i \in DOMAIN log[c], NEW e, e = log[c][i],
           NEW f, f = Readdressed(c, u, at[c][u], NewNumber(c, u), e)
    PROVE  /\ f \in Entry /\ f.id = e.id /\ f.op = e.op /\ f.uid = e.uid /\ f.to = e.to
           /\ f.status = e.status
           /\ EntryOK(f, NumbersAfter(c, u), hub)
           /\ e.op = "create" /\ ~IsPrefix(at[c][u], at[c][e.uid]) => f.num = e.num /\ f.ref = e.ref
<1> DEFINE t == at[c]
           old == t[u]
           n == NextSequence(c, ParentOf(old))
           new == NewNumber(c, u)
           r == NumbersAfter(c, u)
           moved == e.uid \in Below(c, old)
<1>0. TreeOf(t) /\ GrantedUp(t, hub) /\ LogOK(c, log[c], t, hub)
  BY OfClient
<1>1. e \in Entry /\ Event(e) /\ EntryOK(e, t, hub)
  BY <1>0, LogEntry
<1>2. /\ e.uid \in Tasks /\ (e.op = "create" => e.id = e.uid) /\ (e.op = "link" => e.to \in Tasks)
      /\ (e.id = u => e.op = "create" /\ e.uid = u)
  BY <1>1, EventOf
<1>3. e.num \in Paths /\ e.ref \in Paths
  BY <1>1 DEF Entry
<1>4. /\ old \in Paths /\ Len(old) >= 1 /\ n \in 1..MaxNumber
      /\ (\A x \in Tasks : t[x] # NULL => r[x] = MovedTo(t[x], old, new))
      /\ Shifted(t, r, old, n) /\ FreeBeside(t, old, n)
  BY RenumberShifts
<1>5. new = Append(ParentOf(old), n)
  BY DEF NewNumber
<1>6. moved <=> t[e.uid] # NULL /\ IsPrefix(old, t[e.uid])
  BY <1>2 DEF Below
<1>7. IsPrefix(old, old)
  BY <1>4, PrefixReflexive
<1>8. moved => ~GrantedIn(hub, e.uid)
  BY <1>0, <1>2, <1>6 DEF GrantedUp
<1>9. e.id = u => e.status = "pending" /\ moved
  <2> SUFFICES ASSUME e.id = u PROVE e.status = "pending" /\ moved
    OBVIOUS
  <2>1. ~GrantIn(hub, e.id, t[e.uid])
    BY GrantIsGranted
  <2> QED
    BY <1>1, <1>2, <1>6, <1>7, <2>1 DEF EntryOK
<1>10. /\ f.id = e.id /\ f.op = e.op /\ f.uid = e.uid /\ f.to = e.to
       /\ f.num = IF e.id = u \/ (e.status = "pending" /\ moved)
                  THEN Rebase(t[e.uid], old, new) ELSE e.num
       /\ f.ref = IF e.status = "pending" /\ (e.op = "link" \/ (e.op = "create" /\ moved))
                     /\ IsPrefix(old, e.ref)
                  THEN Rebase(e.ref, old, new) ELSE e.ref
       /\ f.status = IF e.id = u THEN "pending" ELSE e.status
       /\ f = [id |-> f.id, op |-> f.op, uid |-> f.uid, num |-> f.num, to |-> f.to,
               ref |-> f.ref, status |-> f.status]
  BY <1>1 DEF Readdressed, Entry
<1>11. f.status = e.status
  BY <1>9, <1>10
<1>12. f.num = IF e.status = "pending" /\ moved THEN r[e.uid] ELSE e.num
  <2>1. moved => r[e.uid] = Rebase(t[e.uid], old, new)
    BY <1>2, <1>4, <1>6 DEF MovedTo
  <2> HIDE DEF moved, r, new, old
  <2> QED
    BY <1>9, <1>10, <2>1
<1>13. \A x \in Tasks : r[x] # NULL => t[x] # NULL /\ r[x] \in Paths
  <2> HIDE DEF r, t
  <2> QED
    BY <1>4 DEF Shifted, MovedPath
<1>13a. \A x \in Tasks : t[x] # NULL => r[x] # NULL
  <2> HIDE DEF r, t
  <2> QED
    BY <1>4 DEF Shifted
<1>14. f.num \in Paths
  BY <1>2, <1>3, <1>6, <1>12, <1>13, <1>13a
<1>15. MovedTo(e.ref, old, new) \in Paths
  <2> HIDE DEF old, n, new
  <2>1. MovedPath(e.ref, MovedTo(e.ref, old, new), old, n)
    BY <1>3, <1>4, <1>5, RebaseMoves
  <2> QED
    BY <2>1 DEF MovedPath
<1>16. f.ref = IF e.status = "pending" /\ (e.op = "link" \/ (e.op = "create" /\ moved))
               THEN MovedTo(e.ref, old, new) ELSE e.ref
  BY <1>10 DEF MovedTo
<1>17. f.ref \in Paths
  BY <1>3, <1>15, <1>16
<1>18. f \in Entry
  <2>1. PICK w \in Work : IsOf(e, w)
    BY <1>1 DEF Event
  <2>2. IsOf(f, w)
    BY <1>10, <2>1 DEF IsOf
  <2>3. e.id \in WorkIds /\ e.op \in {x.op : x \in Work} /\ e.to \in Tasks \cup {NULL}
        /\ e.status \in {"pending", "pushed", "applied"}
    BY <1>1 DEF Entry
  <2>4. f \in [id : WorkIds, op : {x.op : x \in Work}, uid : Tasks, num : Paths,
               to : Tasks \cup {NULL}, ref : Paths, status : {"pending", "pushed", "applied"}]
    <3>1. /\ f.id \in WorkIds /\ f.op \in {x.op : x \in Work} /\ f.uid \in Tasks /\ f.num \in Paths
          /\ f.to \in Tasks \cup {NULL} /\ f.ref \in Paths
          /\ f.status \in {"pending", "pushed", "applied"}
      BY <1>2, <1>10, <1>11, <1>14, <1>17, <2>3
    <3> QED
      BY <1>10, <3>1
  <2> QED
    BY <2>2, <2>4 DEF Entry
\* A pending creation.
<1>19. ASSUME e.op = "create", e.status = "pending"
       PROVE  /\ r[e.uid] # NULL /\ r[e.uid] = f.num /\ f.ref = ParentOf(f.num)
              /\ GrantedIn(hub, e.id) => GrantIn(hub, e.id, f.num)
  <2>1. /\ t[e.uid] # NULL /\ t[e.uid] = e.num /\ e.ref = ParentOf(e.num)
        /\ GrantedIn(hub, e.id) => GrantIn(hub, e.id, e.num)
    BY <1>1, <1>19 DEF EntryOK
  <2>2. CASE moved
    <3>1. NotBeside(e.num, old, n) /\ Len(e.num) >= 1
      BY <1>0, <1>2, <1>4, <2>1, StorePaths DEF FreeBeside
    <3>2. r[e.uid] = MovedTo(e.num, old, new)
      BY <1>2, <1>4, <2>1
    <3>3. MovedTo(ParentOf(e.num), old, new) = ParentOf(MovedTo(e.num, old, new))
      <4> HIDE DEF old, n, new
      <4> QED
        BY <1>3, <1>4, <1>5, <3>1, MovedParent
    <3>4. f.ref = MovedTo(e.ref, old, new) /\ f.num = r[e.uid]
      BY <1>12, <1>16, <1>19, <2>2
    <3> QED
      BY <1>2, <1>8, <1>13a, <1>19, <2>1, <2>2, <3>2, <3>3, <3>4
  <2>3. CASE ~moved
    <3>1. r[e.uid] = t[e.uid]
      BY <1>2, <1>4, <1>6, <2>1, <2>3 DEF MovedTo
    <3>2. f.num = e.num /\ f.ref = e.ref
      BY <1>12, <1>16, <1>19, <2>3
    <3> QED
      BY <2>1, <3>1, <3>2
  <2> QED
    BY <2>2, <2>3
\* A creation that is not pending.
<1>20. ASSUME e.op = "create", e.status # "pending"
       PROVE  r[e.uid] # NULL /\ GrantIn(hub, e.id, r[e.uid])
  <2>1. t[e.uid] # NULL /\ GrantIn(hub, e.id, t[e.uid]) /\ GrantedIn(hub, e.uid)
    BY <1>1, <1>2, <1>20, GrantIsGranted DEF EntryOK
  <2>2. ~moved
    BY <1>8, <2>1
  <2>3. r[e.uid] = t[e.uid]
    BY <1>2, <1>4, <1>6, <2>1, <2>2 DEF MovedTo
  <2> QED
    BY <2>1, <2>3
\* A pending link.
<1>21. ASSUME e.op = "link", e.status = "pending"
       PROVE  r[e.to] # NULL /\ r[e.to] = f.ref
  <2>1. t[e.to] # NULL /\ t[e.to] = e.ref /\ e.to \in Tasks
    BY <1>1, <1>2, <1>21 DEF EntryOK
  <2>2. r[e.to] = MovedTo(e.ref, old, new)
    BY <1>4, <2>1
  <2>3. f.ref = MovedTo(e.ref, old, new)
    BY <1>16, <1>21
  <2> QED
    BY <1>13a, <2>1, <2>2, <2>3
<1>22. EntryOK(f, r, hub)
  <2> HIDE DEF r, t
  <2> QED
    BY <1>10, <1>11, <1>19, <1>20, <1>21 DEF EntryOK
<1>23. e.op = "create" /\ ~IsPrefix(old, t[e.uid]) => f.num = e.num /\ f.ref = e.ref
  BY <1>6, <1>12, <1>16
<1> QED
  BY <1>10, <1>11, <1>18, <1>22, <1>23

\* The hub has granted the number to a task other than u.
GrantedNumber(H, num, u) == \E h \in H : h.op = "create" /\ h.num = num /\ h.id # u

\* A task that is not granted moves: in the middle of a push only when the hub
\* has its old number for another task.
LEMMA RenumberKeeps ==
    ASSUME RegistryInv, NEW c \in Clients, NEW u \in Tasks, Renumber(c, u), ~GrantedIn(hub, u),
           NEW p \in PushState, push' = [push EXCEPT ![c] = p],
           BatchOK(p, log[c], at[c], hub), ResultOK(p, log[c], hub),
           p.pc = "send" => GrantedNumber(hub, at[c][u], u),
           hub' = hub, epoch' = epoch, collisions' = collisions, links' = links
    PROVE  RegistryInv'
<1> DEFINE t == at[c]
           old == t[u]
           n == NextSequence(c, ParentOf(old))
           r == NumbersAfter(c, u)
           l == log[c]
           m == LogAfter(c, u)
<1>0. /\ RegistryTypeOK /\ TreeOf(t) /\ GrantedUp(t, hub) /\ LogOK(c, l, t, hub)
  BY OfClient
<1>1. old # NULL /\ n <= MaxNumber
  BY DEF Renumber
<1>2. at' = [at EXCEPT ![c] = r] /\ log' = [log EXCEPT ![c] = m]
  BY DEF Renumber, NumbersAfter, NewNumber, LogAfter
<1>3. /\ old \in Paths /\ Len(old) >= 1 /\ n \in 1..MaxNumber
      /\ Shifted(t, r, old, n) /\ FreeBeside(t, old, n)
  BY <1>1, RenumberShifts
<1>4. TreeOf(r)
  <2> HIDE DEF t, old, n, r
  <2> QED
    BY <1>0, <1>3, ShiftKeepsTree
<1>5. \A x, y \in Tasks : t[x] # NULL /\ t[y] # NULL => (IsPrefix(r[x], r[y]) <=> IsPrefix(t[x], t[y]))
  <2> HIDE DEF t, old, n, r
  <2> QED
    BY <1>0, <1>3, ShiftKeepsOrder
<1>6. \A x \in Tasks : r[x] # NULL <=> t[x] # NULL
  <2> HIDE DEF t, old, n, r
  <2> QED
    BY <1>3 DEF Shifted
<1>7. GrantedUp(r, hub)
  <2> HIDE DEF t, r
  <2> QED
    BY <1>0, <1>5, <1>6 DEF GrantedUp
<1>8. \A i \in DOMAIN l :
        /\ m[i] \in Entry /\ m[i].id = l[i].id /\ m[i].op = l[i].op /\ m[i].uid = l[i].uid
        /\ m[i].status = l[i].status
        /\ EntryOK(m[i], r, hub)
        /\ l[i].op = "create" /\ ~IsPrefix(old, t[l[i].uid]) => m[i].num = l[i].num /\ m[i].ref = l[i].ref
  <2> TAKE i \in DOMAIN l
  <2>1. m[i] = Readdressed(c, u, old, NewNumber(c, u), l[i])
    BY DEF LogAfter
  <2> QED
    BY <1>1, <2>1, ReaddressedEntry
<1>9. DOMAIN m = DOMAIN l /\ m \in Seq(Entry)
  <2>1. DOMAIN m = DOMAIN l /\ m = [i \in DOMAIN l |-> m[i]]
    BY DEF LogAfter
  <2>2. l \in Seq(Entry) /\ Len(l) \in Nat /\ DOMAIN l = 1..Len(l)
    BY <1>0, LenProperties DEF LogOK
  <2> HIDE DEF m, l
  <2>3. m \in [1..Len(l) -> Entry]
    BY <1>8, <2>1, <2>2
  <2> DEFINE S == Entry
  <2>4. Seq(S) = UNION {[1..k -> S] : k \in Nat}
    BY SeqDef
  <2>5. m \in [1..Len(l) -> S]
    BY <2>3
  <2> HIDE DEF S
  <2>6. m \in Seq(S)
    BY <2>2, <2>4, <2>5
  <2> QED
    BY <2>1, <2>6 DEF S
<1> HIDE DEF m, l, r, t, old, n
<1>10. LogOK(c, m, r, hub)
  <2>1. \A i, j \in DOMAIN m : m[i].id = m[j].id => i = j
    BY <1>0, <1>8, <1>9 DEF LogOK
  <2>2. \A x \in Tasks : r[x] # NULL => \E i \in DOMAIN m : m[i].id = x
    BY <1>0, <1>6, <1>8, <1>9 DEF LogOK
  <2>3. ASSUME NEW i \in DOMAIN m, NEW w \in Work, m[i].id = w.id, w.by # c
        PROVE  \E h \in hub : h.id = w.id
    <3>1. i \in DOMAIN l /\ l[i].id = w.id
      BY <1>8, <1>9, <2>3
    <3> QED
      BY <1>0, <2>3, <3>1 DEF LogOK
  <2>4. ASSUME NEW h \in hub, NEW w \in Work, h.id = w.id, w.by = c
        PROVE  \E i \in DOMAIN m : m[i].id = w.id
    <3>1. PICK i \in DOMAIN l : l[i].id = w.id
      BY <1>0, <2>4 DEF LogOK
    <3> QED
      BY <1>8, <1>9, <3>1
  <2> QED
    BY <1>8, <1>9, <2>1, <2>2, <2>3, <2>4 DEF LogOK
<1>11. BatchOK(p, m, r, hub)
  <2> SUFFICES ASSUME p.pc = "send", NEW i \in DOMAIN p.batch
               PROVE  i \in DOMAIN m /\ SentOK(p.batch[i], m[i], r, hub)
    BY DEF BatchOK
  <2> DEFINE b == p.batch[i]
             e == l[i]
             f == m[i]
  <2>1. i \in DOMAIN l /\ SentOK(b, e, t, hub)
    BY DEF BatchOK, l, t
  <2>2. EntryOK(e, t, hub) /\ Event(e) /\ Event(b) /\ b.id = e.id /\ e.status = "pending"
    BY <1>0, <2>1, LogEntry, EntryEvent DEF SentOK
  <2>3. b.op = e.op /\ b.uid = e.uid /\ b.uid \in Tasks /\ (b.op = "create" => b.id = b.uid)
    BY <2>2, SameEvent, EventOf
  <2>4. f.id = e.id /\ f.status = e.status
    BY <1>8, <2>1
  <2> HIDE DEF b, e, f
  <2>5. CASE b.op = "create"
    <3>0. t[b.uid] # NULL /\ t[b.uid] = e.num
      BY <2>2, <2>3, <2>5 DEF EntryOK
    <3>1. \A x \in Tasks : x # b.uid /\ r[x] # NULL /\ IsPrefix(r[x], r[b.uid]) => GrantedIn(hub, x)
      BY <1>5, <1>6, <2>1, <2>3, <2>5, <3>0 DEF SentOK
    <3>2. \/ b.num = f.num /\ b.ref = f.ref
          \/ ~GrantedIn(hub, b.id) /\ \E h \in hub : h.op = "create" /\ h.num = b.num /\ h.id # b.id
      <4>1. CASE ~IsPrefix(old, t[b.uid])
        <5>1. f.num = e.num /\ f.ref = e.ref
          BY <1>8, <2>1, <2>3, <2>5, <4>1 DEF e, f
        <5> QED
          BY <2>1, <2>5, <5>1 DEF SentOK
      <4>2. CASE IsPrefix(old, t[b.uid])
        <5>1. b.uid = u
          <6>1. u # b.uid => GrantedIn(hub, u)
            BY <1>1, <2>1, <2>5, <4>2 DEF SentOK, old
          <6> QED
            BY <6>1
        <5>2. e.num = old /\ b.id = u
          BY <2>3, <2>5, <3>0, <5>1 DEF old
        <5>3. \E h \in hub : h.op = "create" /\ h.num = old /\ h.id # u
          BY DEF GrantedNumber, old, t
        <5> QED
          BY <2>1, <2>5, <5>2, <5>3 DEF SentOK
      <4> QED
        BY <4>1, <4>2
    <3> QED
      BY <2>1, <2>4, <2>5, <3>1, <3>2, <1>9 DEF SentOK, b, f
  <2>6. CASE b.op # "create"
    BY <2>1, <2>4, <2>6, <1>9 DEF SentOK, b, f
  <2> QED
    BY <2>5, <2>6
<1>12. ResultOK(p, m, hub)
  <2>1. ResultOK(p, l, hub)
    BY DEF l
  <2>2. ASSUME NEW i \in p.result.renumbers, i \in DOMAIN l, l[i].op = "create", ~GrantedIn(hub, l[i].id)
        PROVE  i \in DOMAIN m /\ m[i].op = "create" /\ ~GrantedIn(hub, m[i].id)
    BY <1>8, <1>9, <2>2
  <2> QED
    BY <2>1, <2>2 DEF ResultOK
<1>13. StoreOK(c, r, m, p, hub)
  BY <1>4, <1>7, <1>10, <1>11, <1>12 DEF StoreOK
<1>14. seq' \in [Clients -> [Namespaces -> Nat]]
  <2> DEFINE pp == ParentOf(at[c][u])
             k == NextSequence(c, pp)
             new == Append(pp, k)
             numbers == {NumbersAfter(c, u)[x] : x \in Tasks} \ {NULL}
             s == [q \in Namespaces |->
                     IF q = pp THEN k
                     ELSE IF IsPrefix(new, q) /\ HighestIn(numbers, q) > seq[c][q]
                          THEN HighestIn(numbers, q) ELSE seq[c][q]]
  <2>1. seq' = [seq EXCEPT ![c] = s]
    BY DEF Renumber, NumbersAfter, NewNumber
  <2>2. seq \in [Clients -> [Namespaces -> Nat]] /\ k \in Nat
    BY <1>0, <1>3 DEF RegistryTypeOK, n, old, t
  <2>3. \A q : HighestIn(numbers, q) \in Nat
    BY HighestIsNat
  <2> HIDE DEF pp, k, new, numbers
  <2>4. s \in [Namespaces -> Nat]
    BY <2>2, <2>3
  <2> HIDE DEF s
  <2> QED
    BY <2>1, <2>2, <2>4
<1>15. DOMAIN links' = Clients /\ LinksInv'
  BY <1>0 DEF RegistryTypeOK, RegistryInv, LinksInv
<1> QED
  BY <1>2, <1>13, <1>14, <1>15, OneStore

-----------------------------------------------------------------------------
(* Push.                                                                   *)

Batches == UNION {[D -> Entry] : D \in SUBSET Nat}
Results == [accepted : SUBSET WorkIds, mismatched : SUBSET WorkIds,
            blocked : SUBSET WorkIds, renumbers : SUBSET Nat]

LEMMA PushStateIs ==
    PushState = [pc : {"idle", "read", "send", "mark", "renumber"}, cursor : Nat,
                 redo : Nat \cup {NULL}, progressed : BOOLEAN, batch : Batches, result : Results]
BY DEF PushState, Batches, Results

LEMMA EmptyBatch == <<>> \in Batches
<1>1. <<>> \in [{} -> Entry]
  OBVIOUS
<1>2. {} \in SUBSET Nat
  OBVIOUS
<1> HIDE DEF Entry
<1> QED
  BY <1>1, <1>2 DEF Batches

LEMMA IdleIs == Idle \in PushState /\ NoResult \in Results
<1>1. NoResult \in Results
  BY DEF NoResult, Results
<1>2. <<>> \in Batches
  BY EmptyBatch
<1> QED
  BY <1>1, <1>2, PushStateIs DEF Idle

\* A step of a push that changes nothing but its own state.
LEMMA PushAlone ==
    ASSUME RegistryInv, NEW c \in Clients, NEW p \in PushState, push' = [push EXCEPT ![c] = p],
           BatchOK(p, log[c], at[c], hub), ResultOK(p, log[c], hub),
           at' = at, seq' = seq, log' = log, links' = links, hub' = hub, epoch' = epoch,
           collisions' = collisions
    PROVE  RegistryInv'
<1>1. /\ RegistryTypeOK /\ StoreOK(c, at[c], log[c], push[c], hub)
      /\ at = [at EXCEPT ![c] = at[c]] /\ log = [log EXCEPT ![c] = log[c]]
  BY OfClient
<1>2. StoreOK(c, at[c], log[c], p, hub)
  BY <1>1 DEF StoreOK
<1>3. at' = [at EXCEPT ![c] = at[c]] /\ log' = [log EXCEPT ![c] = log[c]]
  BY <1>1
<1>4. seq' \in [Clients -> [Namespaces -> Nat]] /\ DOMAIN links' = Clients /\ LinksInv'
  BY <1>1 DEF RegistryTypeOK, RegistryInv, LinksInv
<1> QED
  BY <1>2, <1>3, <1>4, OneStore

LEMMA QuietPush ==
    ASSUME NEW p, p.pc \in {"idle", "read"}
    PROVE  \A l, t, H : BatchOK(p, l, t, H) /\ ResultOK(p, l, H)
BY DEF BatchOK, ResultOK

LEMMA StartPushKeeps ==
    ASSUME RegistryInv, NEW c \in Clients, StartPush(c)
    PROVE  RegistryInv'
<1> DEFINE p == [push[c] EXCEPT !.pc = "read"]
<1>1. push[c] \in PushState
  BY OfClient
<1>2. p \in PushState /\ p.pc = "read"
  BY <1>1, PushStateIs
<1>3. push' = [push EXCEPT ![c] = p]
  BY DEF StartPush
<1> HIDE DEF p
<1>4. BatchOK(p, log[c], at[c], hub) /\ ResultOK(p, log[c], hub)
  BY <1>2, QuietPush
<1> QED
  BY <1>2, <1>3, <1>4, PushAlone DEF StartPush

LEMMA NothingLeftKeeps ==
    ASSUME RegistryInv, NEW c \in Clients, NothingLeft(c)
    PROVE  RegistryInv'
<1>1. push[c] \in PushState /\ push[c].pc = "read" /\ push \in [Clients -> PushState]
  BY OfClient DEF NothingLeft, RegistryTypeOK
<1>2. PICK p : p \in PushState /\ p.pc \in {"idle", "read"} /\ push' = [push EXCEPT ![c] = p]
  <2>1. CASE push[c].redo # NULL /\ push[c].progressed
    <3> DEFINE p == [push[c] EXCEPT !.cursor = push[c].redo, !.redo = NULL, !.progressed = FALSE]
    <3>1. push' = [push EXCEPT ![c] = p]
      BY <2>1, <1>1 DEF NothingLeft
    <3>2. p \in PushState /\ p.pc = "read"
      BY <1>1, <2>1, PushStateIs
    <3> QED
      BY <3>1, <3>2
  <2>2. CASE ~(push[c].redo # NULL /\ push[c].progressed)
    <3>1. push' = [push EXCEPT ![c] = Idle]
      BY <2>2 DEF NothingLeft
    <3>2. Idle.pc = "idle"
      BY DEF Idle
    <3> QED
      BY <3>1, <3>2, IdleIs
  <2> QED
    BY <2>1, <2>2
<1>3. BatchOK(p, log[c], at[c], hub) /\ ResultOK(p, log[c], hub)
  BY <1>2, QuietPush
<1> QED
  BY <1>2, <1>3, PushAlone DEF NothingLeft

LEMMA CrashKeeps ==
    ASSUME RegistryInv, NEW c \in Clients, Crash(c)
    PROVE  RegistryInv'
<1>1. Idle \in PushState /\ Idle.pc = "idle"
  BY IdleIs DEF Idle
<1>2. BatchOK(Idle, log[c], at[c], hub) /\ ResultOK(Idle, log[c], hub)
  BY <1>1, QuietPush
<1> QED
  BY <1>1, <1>2, PushAlone DEF Crash

\* What is read to be sent waits for nothing that is not granted.
LEMMA ReadBatchKeeps ==
    ASSUME RegistryInv, NEW c \in Clients, ReadBatch(c)
    PROVE  RegistryInv'
<1> DEFINE q == push[c]
           l == log[c]
           t == at[c]
           read == BatchFrom(c, q.cursor)
           holds == {i \in read : HeldWith(c, i)}
           deferred == {i \in read \ holds : Awaits(c, l[i])}
           send == read \ (holds \cup deferred)
           top == CHOOSE i \in read : \A j \in read : j <= i
           p == [q EXCEPT !.pc = IF send = {} THEN "read" ELSE "send", !.cursor = top,
                          !.redo = Note(q, deferred), !.batch = [i \in send |-> l[i]]]
<1>0. q \in PushState /\ TreeOf(t) /\ LogOK(c, l, t, hub)
  BY OfClient
<1>1. push' = [push EXCEPT ![c] = p] /\ read # {}
  BY DEF ReadBatch
<1>2. Len(l) \in Nat /\ DOMAIN l = 1..Len(l) /\ l \in Seq(Entry)
  BY <1>0, LenProperties DEF LogOK
<1>3. read \subseteq DOMAIN l /\ \A i \in read : l[i].status = "pending"
  BY DEF BatchFrom
<1>4. send \subseteq read /\ \A i \in send : ~Awaits(c, l[i])
  OBVIOUS
<1> HIDE DEF read, deferred, send
<1>5. top \in Nat
  <2>1. read \in SUBSET Nat /\ \A i \in read : i <= Len(l)
    BY <1>2, <1>3
  <2>2. \E i \in read : \A j \in read : j <= i
    BY <1>1, <1>2, <2>1, GreatestOf
  <2> QED
    BY <2>1, <2>2
<1> HIDE DEF top
<1> DEFINE batch == [i \in send |-> l[i]]
<1>6. batch \in Batches
  <2>1. send \in SUBSET Nat
    BY <1>2, <1>3, <1>4
  <2>2. batch \in [send -> Entry]
    BY <1>0, <1>3, <1>4, LogEntry
  <2> HIDE DEF batch
  <2> QED
    BY <2>1, <2>2 DEF Batches
<1>7. Note(q, deferred) \in Nat \cup {NULL}
  BY <1>0, PushStateIs DEF Note
<1>8. /\ p \in PushState /\ p.batch = batch /\ p.pc \in {"read", "send"}
      /\ p.pc \notin {"mark", "renumber"}
  <2> HIDE DEF batch
  <2>1. p = [q EXCEPT !.pc = IF send = {} THEN "read" ELSE "send", !.cursor = top,
                      !.redo = Note(q, deferred), !.batch = batch]
    BY DEF batch
  <2> HIDE DEF p, q
  <2> QED
    BY <1>0, <1>5, <1>6, <1>7, <2>1, PushStateIs
<1> HIDE DEF p
<1>9. ASSUME NEW i \in send
      PROVE  i \in DOMAIN l /\ SentOK(l[i], l[i], t, hub)
  <2> DEFINE e == l[i]
  <2>0. i \in DOMAIN l /\ e.status = "pending" /\ ~Awaits(c, e)
    BY <1>3, <1>4, <1>9
  <2>1. e \in Entry /\ Event(e) /\ EntryOK(e, t, hub)
    BY <1>0, <2>0, LogEntry
  <2>2. e.uid \in Tasks /\ e.to \in Tasks \cup {NULL} /\ (e.op = "link" => e.to \in Tasks)
    BY <2>1, EventOf
  <2> HIDE DEF e
  <2>3. CASE e.op = "create"
    <3>1. t[e.uid] # NULL /\ t[e.uid] = e.num /\ e.ref = ParentOf(e.num)
      BY <2>0, <2>1, <2>3 DEF EntryOK
    <3>2. ~PendingNumber(c, ParentOf(t[e.uid]))
      BY <2>0, <2>3 DEF Awaits
    <3>3. t[e.uid] \in Paths /\ Len(t[e.uid]) >= 1
      BY <1>0, <2>2, <3>1, StorePaths
    <3>4. ASSUME e.to # NULL PROVE GrantIn(hub, e.to, e.ref)
      <4>1. e.to \in Tasks
        BY <2>2, <3>4
      <4>2. PICK w \in Work : IsOf(e, w)
        BY <2>1 DEF Event
      <4>3. Above(t[e.to], t[e.uid])
        BY <1>0, <2>3, <3>1, <3>4, <4>2 DEF TreeOf, IsOf
      <4>4. t[e.to] # NULL /\ t[e.to] \in Paths
        BY <1>0, <4>1, <4>3, StorePaths DEF Above
      <4>5. t[e.to] = ParentOf(t[e.uid])
        BY <3>3, <4>3, <4>4, AboveIsParent
      <4>6. IsPrefix(t[e.to], ParentOf(t[e.uid]))
        BY <4>4, <4>5, PrefixReflexive
      <4>7. GrantIn(hub, e.to, t[e.to])
        BY <1>0, <3>2, <4>1, <4>4, <4>6, NotPendingNumber
      <4> QED
        BY <3>1, <4>5, <4>7
    <3>5. ASSUME NEW u \in Tasks, u # e.uid, t[u] # NULL, IsPrefix(t[u], t[e.uid])
          PROVE  GrantedIn(hub, u)
      <4>1. t[u] \in Paths /\ t[u] # t[e.uid]
        BY <1>0, <2>2, <3>5, StorePaths DEF TreeOf
      <4>2. IsPrefix(t[u], ParentOf(t[e.uid]))
        BY <3>3, <3>5, <4>1, StrictlyAbove
      <4>3. GrantIn(hub, u, t[u])
        BY <1>0, <3>2, <3>5, <4>2, NotPendingNumber
      <4> QED
        BY <4>3, GrantIsGranted
    <3> QED
      BY <2>0, <2>1, <2>3, <3>4, <3>5 DEF SentOK, e
  <2>4. CASE e.op = "link"
    <3>1. t[e.to] # NULL /\ t[e.to] = e.ref /\ e.to \in Tasks
      BY <2>0, <2>1, <2>2, <2>4 DEF EntryOK
    <3>2. ~PendingNumber(c, e.ref)
      BY <2>0, <2>4 DEF Awaits
    <3>3. IsPrefix(t[e.to], e.ref)
      BY <1>0, <3>1, StorePaths, PrefixReflexive
    <3>4. GrantIn(hub, e.to, e.ref)
      BY <1>0, <3>1, <3>2, <3>3, NotPendingNumber
    <3> QED
      BY <2>0, <2>1, <2>4, <3>4 DEF SentOK, e
  <2>5. CASE e.op # "create" /\ e.op # "link"
    BY <2>0, <2>1, <2>5 DEF SentOK, e
  <2> QED
    BY <2>3, <2>4, <2>5
<1>10. BatchOK(p, l, t, hub)
  <2>1. DOMAIN batch = send /\ \A i \in send : batch[i] = l[i]
    OBVIOUS
  <2> HIDE DEF batch
  <2> QED
    BY <1>8, <1>9, <2>1 DEF BatchOK
<1>11. ResultOK(p, l, hub)
  BY <1>8 DEF ResultOK
<1> QED
  BY <1>1, <1>8, <1>10, <1>11, PushAlone DEF ReadBatch

LEMMA AfterBatchIs ==
    ASSUME NEW p \in PushState, NEW r
    PROVE  AfterBatch(p, r) \in PushState /\ AfterBatch(p, r).pc \in {"idle", "read"}
<1>1. Idle \in PushState /\ Idle.pc = "idle" /\ NoResult \in Results /\ <<>> \in Batches
  BY IdleIs, EmptyBatch DEF Idle
<1>2. CASE r.renumbers # {}
  <2>1. [Idle EXCEPT !.pc = "read", !.progressed = TRUE] \in PushState
        /\ [Idle EXCEPT !.pc = "read", !.progressed = TRUE].pc = "read"
    BY <1>1, PushStateIs
  <2> QED
    BY <1>2, <2>1 DEF AfterBatch
<1>3. CASE ~(r.renumbers # {}) /\ r.accepted \cup r.mismatched = {}
  BY <1>1, <1>3 DEF AfterBatch
<1>4. CASE ~(r.renumbers # {}) /\ ~(r.accepted \cup r.mismatched = {})
  <2> DEFINE q == [p EXCEPT !.pc = "read", !.progressed = TRUE, !.batch = <<>>, !.result = NoResult]
  <2>1. q \in PushState /\ q.pc = "read"
    BY <1>1, PushStateIs
  <2>2. AfterBatch(p, r) = q
    BY <1>4 DEF AfterBatch
  <2> QED
    BY <2>1, <2>2
<1> QED
  BY <1>2, <1>3, <1>4

\* markPushed marks what the hub has, and the hub has a task where the store
\* has it.
LEMMA MarkPushedKeeps ==
    ASSUME RegistryInv, NEW c \in Clients, MarkPushed(c)
    PROVE  RegistryInv'
<1> DEFINE q == push[c]
           l == log[c]
           t == at[c]
           m == [i \in DOMAIN l |-> IF l[i].id \in Acknowledged(q)
                                    THEN [l[i] EXCEPT !.status = "pushed"] ELSE l[i]]
           p == IF q.result.renumbers # {} THEN [q EXCEPT !.pc = "renumber", !.batch = <<>>]
                ELSE AfterBatch(q, q.result)
<1>0. /\ RegistryTypeOK /\ HubOK(hub) /\ hub \subseteq HubEvent /\ q \in PushState
      /\ StoreOK(c, t, l, q, hub) /\ TreeOf(t) /\ GrantedUp(t, hub) /\ LogOK(c, l, t, hub)
      /\ at = [at EXCEPT ![c] = at[c]]
  BY OfClient
<1>1. q.pc = "mark" /\ log' = [log EXCEPT ![c] = m] /\ push' = [push EXCEPT ![c] = p]
  BY DEF MarkPushed
<1>2. /\ \A id \in q.result.accepted : \E h \in hub : h.id = id
      /\ \A i \in q.result.renumbers : i \in DOMAIN l /\ l[i].op = "create" /\ ~GrantedIn(hub, l[i].id)
  BY <1>0, <1>1 DEF StoreOK, ResultOK
<1>3. p \in PushState /\ p.pc # "send" /\ p.pc # "mark"
      /\ (p.pc = "renumber" => p.result = q.result /\ q.result.renumbers # {})
  <2>1. CASE q.result.renumbers # {}
    <3> DEFINE s == [q EXCEPT !.pc = "renumber", !.batch = <<>>]
    <3>1. s \in PushState /\ s.pc = "renumber" /\ s.result = q.result
      BY <1>0, EmptyBatch, PushStateIs
    <3>2. p = s
      BY <2>1
    <3> HIDE DEF p, s
    <3> QED
      BY <2>1, <3>1, <3>2
  <2>2. CASE ~(q.result.renumbers # {})
    <3>1. p = AfterBatch(q, q.result)
      BY <2>2
    <3> HIDE DEF p
    <3> QED
      BY <1>0, <3>1, AfterBatchIs
  <2> QED
    BY <2>1, <2>2
<1> HIDE DEF p
<1>4. DOMAIN m = DOMAIN l
  OBVIOUS
<1>5. ASSUME NEW i \in DOMAIN l
      PROVE  /\ m[i] \in Entry /\ m[i].id = l[i].id /\ m[i].op = l[i].op
             /\ EntryOK(m[i], t, hub)
  <2>1. l[i] \in Entry /\ Event(l[i]) /\ EntryOK(l[i], t, hub)
    BY <1>0, LogEntry
  <2>2. CASE l[i].id \in Acknowledged(q)
    <3> DEFINE e == l[i]
               f == [e EXCEPT !.status = "pushed"]
    <3>1. m[i] = f
      BY <2>2
    <3>2. /\ f.id = e.id /\ f.op = e.op /\ f.uid = e.uid /\ f.to = e.to /\ f.status = "pushed"
          /\ f \in [id : WorkIds, op : {x.op : x \in Work}, uid : Tasks, num : Paths,
                    to : Tasks \cup {NULL}, ref : Paths, status : {"pending", "pushed", "applied"}]
      BY <2>1 DEF Entry
    <3>3. PICK w \in Work : IsOf(e, w)
      BY <2>1 DEF Event
    <3> HIDE DEF e, f
    <3>4. f \in Entry
      BY <3>2, <3>3 DEF Entry, IsOf
    <3>5. PICK h \in hub : h.id = e.id
      BY <1>2, <2>2 DEF Acknowledged, e
    <3>6. h.op = e.op
      BY <1>0, <2>1, <3>5, EntryEvent, SameEvent DEF e
    <3>7. e.op = "create" => GrantedIn(hub, e.id)
      BY <3>5, <3>6 DEF GrantedIn
    <3>8. e.op = "create" => t[e.uid] # NULL /\ GrantIn(hub, e.id, t[e.uid])
      BY <2>1, <3>7 DEF EntryOK, e
    <3>9. EntryOK(f, t, hub)
      BY <3>2, <3>8 DEF EntryOK
    <3> QED
      BY <3>1, <3>2, <3>4, <3>9 DEF e
  <2>3. CASE l[i].id \notin Acknowledged(q)
    <3>1. m[i] = l[i]
      BY <2>3
    <3> QED
      BY <2>1, <3>1
  <2> QED
    BY <2>2, <2>3
<1>6. m \in Seq(Entry)
  <2>1. m = [i \in DOMAIN l |-> m[i]]
    OBVIOUS
  <2>2. Len(l) \in Nat /\ DOMAIN l = 1..Len(l)
    BY <1>0, LenProperties DEF LogOK
  <2> DEFINE S == Entry
  <2> HIDE DEF m, l
  <2>3. m \in [1..Len(l) -> S]
    BY <1>5, <2>1, <2>2
  <2>4. Seq(S) = UNION {[1..k -> S] : k \in Nat}
    BY SeqDef
  <2> HIDE DEF S
  <2>5. m \in Seq(S)
    BY <2>2, <2>3, <2>4
  <2> QED
    BY <2>5 DEF S
<1> HIDE DEF m, l
<1>7. LogOK(c, m, t, hub)
  <2>1. \A i, j \in DOMAIN m : m[i].id = m[j].id => i = j
    BY <1>0, <1>4, <1>5 DEF LogOK
  <2>2. \A x \in Tasks : t[x] # NULL => \E i \in DOMAIN m : m[i].id = x
    BY <1>0, <1>4, <1>5 DEF LogOK
  <2>3. ASSUME NEW i \in DOMAIN m, NEW w \in Work, m[i].id = w.id, w.by # c
        PROVE  \E h \in hub : h.id = w.id
    <3>1. i \in DOMAIN l /\ l[i].id = w.id
      BY <1>4, <1>5, <2>3
    <3> QED
      BY <1>0, <2>3, <3>1 DEF LogOK
  <2>4. ASSUME NEW h \in hub, NEW w \in Work, h.id = w.id, w.by = c
        PROVE  \E i \in DOMAIN m : m[i].id = w.id
    <3>1. PICK i \in DOMAIN l : l[i].id = w.id
      BY <1>0, <2>4 DEF LogOK
    <3> QED
      BY <1>4, <1>5, <3>1
  <2> QED
    BY <1>4, <1>5, <1>6, <2>1, <2>2, <2>3, <2>4 DEF LogOK
<1>8. BatchOK(p, m, t, hub)
  BY <1>3 DEF BatchOK
<1>9. ResultOK(p, m, hub)
  <2>1. ASSUME NEW i \in q.result.renumbers
        PROVE  i \in DOMAIN m /\ m[i].op = "create" /\ ~GrantedIn(hub, m[i].id)
    BY <1>2, <1>4, <1>5
  <2> HIDE DEF q
  <2> QED
    BY <1>2, <1>3, <2>1 DEF ResultOK
<1>10. StoreOK(c, t, m, p, hub)
  BY <1>0, <1>7, <1>8, <1>9 DEF StoreOK
<1>11. at' = [at EXCEPT ![c] = t] /\ seq' = seq /\ links' = links /\ hub' = hub /\ epoch' = epoch
       /\ collisions' = collisions
  BY <1>0 DEF MarkPushed
<1>12. seq' \in [Clients -> [Namespaces -> Nat]] /\ DOMAIN links' = Clients /\ LinksInv'
  BY <1>0, <1>11 DEF RegistryTypeOK, RegistryInv, LinksInv
<1> QED
  BY <1>1, <1>3, <1>10, <1>11, <1>12, OneStore

\* The hub said renumber, and the task is still not granted.
LEMMA RenumberRejectedKeeps ==
    ASSUME RegistryInv, NEW c \in Clients, RenumberRejected(c)
    PROVE  RegistryInv'
<1> DEFINE q == push[c]
           R == q.result.renumbers
           next == CHOOSE i \in R : \A j \in R : i <= j
           rest == R \ {next}
           p == IF rest = {} THEN AfterBatch(q, q.result) ELSE [q EXCEPT !.result.renumbers = rest]
           u == log[c][next].uid
<1>0. /\ RegistryTypeOK /\ q \in PushState /\ StoreOK(c, at[c], log[c], q, hub)
      /\ LogOK(c, log[c], at[c], hub)
  BY OfClient
<1>1. q.pc = "renumber" /\ push' = [push EXCEPT ![c] = p] /\ Renumber(c, u)
  BY DEF RenumberRejected
<1>2. R # {} /\ \A i \in R : i \in DOMAIN log[c] /\ log[c][i].op = "create" /\ ~GrantedIn(hub, log[c][i].id)
  BY <1>0, <1>1 DEF StoreOK, ResultOK
<1>3. R \in SUBSET Nat
  BY <1>0, PushStateIs DEF Results
<1>4. next \in R
  <2> HIDE DEF R
  <2>1. \E i \in R : \A j \in R : i <= j
    BY <1>2, <1>3, LeastOf
  <2> QED
    BY <2>1
<1> HIDE DEF next
<1>5. u \in Tasks /\ ~GrantedIn(hub, u)
  <2>1. next \in DOMAIN log[c] /\ log[c][next].op = "create" /\ ~GrantedIn(hub, log[c][next].id)
    BY <1>2, <1>4
  <2>2. Event(log[c][next])
    BY <1>0, <2>1, LogEntry
  <2> QED
    BY <2>1, <2>2, EventOf
<1>6. p \in PushState /\ (p.pc \in {"idle", "read"} \/
        (p.pc = "renumber" /\ rest # {} /\ p.result.accepted = q.result.accepted /\ p.result.renumbers = rest))
  <2>1. CASE rest = {}
    <3>1. p = AfterBatch(q, q.result)
      BY <2>1
    <3> HIDE DEF p
    <3> QED
      BY <1>0, <3>1, AfterBatchIs
  <2>2. CASE rest # {}
    <3>1. p = [q EXCEPT !.result.renumbers = rest] /\ rest \in SUBSET Nat
      BY <1>3, <2>2
    <3>2. q.result \in Results
      BY <1>0, PushStateIs
    <3> DEFINE s == [q.result EXCEPT !.renumbers = rest]
    <3>3. s \in Results /\ s.accepted = q.result.accepted /\ s.renumbers = rest
      <4> HIDE DEF R, rest
      <4> QED
        BY <3>1, <3>2 DEF Results
    <3>4. p = [q EXCEPT !.result = s]
      BY <3>1
    <3> HIDE DEF p, s, rest
    <3>5. p \in PushState /\ p.pc = q.pc /\ p.result = s
      BY <1>0, <3>3, <3>4, PushStateIs
    <3> QED
      BY <1>1, <2>2, <3>3, <3>5
  <2> QED
    BY <2>1, <2>2
<1>7. BatchOK(p, log[c], at[c], hub) /\ p.pc # "send"
  <2> HIDE DEF p
  <2> QED
    BY <1>6 DEF BatchOK
<1>8. ResultOK(p, log[c], hub)
  <2>1. \A id \in q.result.accepted : \E h \in hub : h.id = id
    BY <1>0, <1>1 DEF StoreOK, ResultOK
  <2>2. rest \subseteq R
    OBVIOUS
  <2> HIDE DEF p, rest, R, q
  <2> QED
    BY <1>2, <1>6, <2>1, <2>2 DEF ResultOK
<1>9. hub' = hub /\ epoch' = epoch /\ collisions' = collisions /\ links' = links
  BY DEF RenumberRejected
<1> HIDE DEF p, u
<1> QED
  BY <1>1, <1>5, <1>6, <1>7, <1>8, <1>9, RenumberKeeps

\* The loser of a collision that was decided for the task with the number is
\* not granted: the hub has its number for the winner.
LEMMA LoserIsUngranted ==
    ASSUME RegistryInv, NoneOverruled, NEW c \in Clients, NEW k \in collisions, MoveLoser(c, k)
    PROVE  k.incoming \in Tasks /\ Renumber(c, k.incoming) /\ ~GrantedIn(hub, k.incoming)
           /\ GrantedNumber(hub, at[c][k.incoming], k.incoming)
<1> DEFINE u == k.incoming
<1>0. HubOK(hub) /\ LogOK(c, log[c], at[c], hub)
  BY OfClient
<1>1. u \in Tasks /\ u # k.held /\ GrantIn(hub, k.held, k.num)
  BY DEF RegistryInv, CollisionInv
<1>2. LoserOf(k, k.winner) = u
  BY DEF MoveLoser, NoneOverruled, LoserOf
<1>3. at[c][u] = k.num /\ Renumber(c, u)
  BY <1>2 DEF MoveLoser
<1>4. at[c][u] # NULL
  BY <1>3 DEF Renumber
<1>5. ~GrantedIn(hub, u)
  <2> SUFFICES ASSUME GrantedIn(hub, u) PROVE FALSE
    OBVIOUS
  <2>1. GrantIn(hub, u, k.num)
    BY <1>0, <1>1, <1>3, <1>4, GrantedHere
  <2> QED
    BY <1>0, <1>1, <2>1, GrantUnique
<1>6. GrantedNumber(hub, at[c][u], u)
  BY <1>1, <1>3 DEF GrantedNumber, GrantIn
<1> QED
  BY <1>1, <1>3, <1>5, <1>6

LEMMA MoveLoserKeeps ==
    ASSUME RegistryInv, NoneOverruled, NEW c \in Clients, NEW k \in collisions, MoveLoser(c, k)
    PROVE  RegistryInv'
<1>1. /\ push[c] \in PushState /\ push = [push EXCEPT ![c] = push[c]]
      /\ BatchOK(push[c], log[c], at[c], hub) /\ ResultOK(push[c], log[c], hub)
  BY OfClient DEF StoreOK
<1>2. /\ k.incoming \in Tasks /\ Renumber(c, k.incoming) /\ ~GrantedIn(hub, k.incoming)
      /\ GrantedNumber(hub, at[c][k.incoming], k.incoming)
  BY LoserIsUngranted
<1>3. push' = [push EXCEPT ![c] = push[c]] /\ hub' = hub /\ epoch' = epoch
      /\ collisions' = collisions /\ links' = links
  BY <1>1 DEF MoveLoser
<1> QED
  BY <1>1, <1>2, <1>3, RenumberKeeps

-----------------------------------------------------------------------------
(* The hub's transaction.                                                  *)

\* What the hub stores of the batch of c.
Inserted(c) == {Stamped(e) : e \in {x \in Range(push[c].batch) : Outcome(x) = "insert"}}

\* A new event on the hub is as in the log of the client that sent it.
Fresh(c, g, i) ==
    /\ i \in DOMAIN push[c].batch /\ i \in DOMAIN log[c]
    /\ g = Stamped(push[c].batch[i]) /\ Outcome(push[c].batch[i]) = "insert"
    /\ g \in HubEvent /\ g.id = log[c][i].id /\ log[c][i].status = "pending"
    /\ \A h \in hub : h.id # g.id
    /\ g.op = "create" =>
          /\ at[c][g.uid] # NULL /\ at[c][g.uid] = g.num /\ g.num = log[c][i].num
          /\ g.id = g.uid /\ g.ref = ParentOf(g.num)
          /\ \A h \in hub : h.op = "create" => h.num # g.num
          /\ g.to # NULL => GrantIn(hub, g.to, g.ref)
          /\ \A u \in Tasks :
                u # g.uid /\ at[c][u] # NULL /\ IsPrefix(at[c][u], at[c][g.uid]) => GrantedIn(hub, u)
    /\ g.op = "link" => GrantIn(hub, g.to, g.ref)

LEMMA InsertedIsFresh ==
    ASSUME RegistryInv, NEW c \in Clients, push[c].pc = "send", NEW g \in Inserted(c)
    PROVE  \E i : Fresh(c, g, i)
<1>1. PICK i \in DOMAIN push[c].batch :
        g = Stamped(push[c].batch[i]) /\ Outcome(push[c].batch[i]) = "insert"
  BY DEF Inserted, Range
<1> DEFINE b == push[c].batch[i]
           e == log[c][i]
           t == at[c]
<1>0. /\ RegistryTypeOK /\ StoreOK(c, t, log[c], push[c], hub) /\ LogOK(c, log[c], t, hub)
      /\ TreeOf(t)
  BY OfClient
<1>2. i \in DOMAIN log[c] /\ SentOK(b, e, t, hub)
  BY <1>0 DEF StoreOK, BatchOK
<1>3. e \in Entry /\ Event(e) /\ EntryOK(e, t, hub) /\ b \in Entry /\ Event(b)
      /\ b.id = e.id /\ e.status = "pending"
  BY <1>0, <1>2, LogEntry, EntryEvent DEF SentOK
<1>4. b.op = e.op /\ b.uid = e.uid /\ (b.op = "create" => b.id = b.uid)
  BY <1>3, SameEvent, EventOf
<1> HIDE DEF b, e
<1>5. /\ g.id = b.id /\ g.op = b.op /\ g.uid = b.uid /\ g.num = b.num /\ g.to = b.to
      /\ g.ref = b.ref /\ g = Stamped(b)
  BY <1>1 DEF Stamped, b
<1>6. g \in HubEvent
  <2>1. PICK w \in Work : IsOf(b, w)
    BY <1>3 DEF Event
  <2>2. IsOf(g, w)
    BY <1>5, <2>1 DEF IsOf
  <2>3. epoch \in Nat
    BY <1>0 DEF RegistryTypeOK
  <2>4. g \in [id : WorkIds, op : {x.op : x \in Work}, uid : Tasks, num : Paths,
               to : Tasks \cup {NULL}, ref : Paths, epoch : Nat]
    BY <1>3, <1>5, <2>3 DEF Entry, Stamped
  <2> QED
    BY <2>2, <2>4 DEF HubEvent
<1>7. Outcome(b) = "insert"
  BY <1>1 DEF b
<1>8. /\ \A h \in hub : h.id # b.id
      /\ b.op = "create" => Holders(b) = {}
  <2>1. ~(b.op = "create" /\ Holders(b) # {})
    BY <1>7 DEF Outcome
  <2>2. b.id \notin {h.id : h \in hub}
    BY <1>7, <2>1 DEF Outcome
  <2> QED
    BY <2>1, <2>2
<1>9. b.op = "create" => \A h \in hub : h.op = "create" => h.num # b.num
  BY <1>8 DEF Holders
<1>10. ASSUME b.op = "create"
       PROVE  /\ b.num = e.num /\ b.ref = e.ref
              /\ t[b.uid] # NULL /\ t[b.uid] = b.num /\ b.ref = ParentOf(b.num)
              /\ b.to # NULL => GrantIn(hub, b.to, b.ref)
              /\ \A u \in Tasks :
                   u # b.uid /\ t[u] # NULL /\ IsPrefix(t[u], t[b.uid]) => GrantedIn(hub, u)
  <2>1. b.num = e.num /\ b.ref = e.ref
    BY <1>2, <1>9, <1>10 DEF SentOK
  <2>2. t[e.uid] # NULL /\ t[e.uid] = e.num /\ e.ref = ParentOf(e.num)
    BY <1>3, <1>4, <1>10 DEF EntryOK
  <2> QED
    BY <1>2, <1>4, <1>10, <2>1, <2>2 DEF SentOK
<1>11. b.op = "link" => GrantIn(hub, b.to, b.ref)
  BY <1>2 DEF SentOK
<1>12. Fresh(c, g, i)
  <2> HIDE DEF t
  <2>1. g.id = e.id /\ e.status = "pending" /\ \A h \in hub : h.id # g.id
    BY <1>3, <1>5, <1>8
  <2>2. g.op = "create" =>
          /\ t[g.uid] # NULL /\ t[g.uid] = g.num /\ g.num = e.num
          /\ g.id = g.uid /\ g.ref = ParentOf(g.num)
          /\ \A h \in hub : h.op = "create" => h.num # g.num
          /\ g.to # NULL => GrantIn(hub, g.to, g.ref)
          /\ \A u \in Tasks :
                u # g.uid /\ t[u] # NULL /\ IsPrefix(t[u], t[g.uid]) => GrantedIn(hub, u)
    BY <1>4, <1>5, <1>9, <1>10
  <2>3. g.op = "link" => GrantIn(hub, g.to, g.ref)
    BY <1>5, <1>11
  <2> QED
    BY <1>1, <1>2, <1>6, <2>1, <2>2, <2>3 DEF Fresh, e, t
<1> QED
  BY <1>12

\* The hub's log stays in order.
LEMMA HubGrows ==
    ASSUME RegistryInv, NEW c \in Clients, push[c].pc = "send"
    PROVE  hub \cup Inserted(c) \subseteq HubEvent /\ HubOK(hub \cup Inserted(c))
<1> DEFINE N == Inserted(c)
           G == hub \cup N
<1>0. HubOK(hub) /\ hub \subseteq HubEvent /\ LogOK(c, log[c], at[c], hub) /\ TreeOf(at[c])
  BY OfClient
<1>1. \A g \in N : \E i : Fresh(c, g, i)
  BY InsertedIsFresh
<1> HIDE DEF N
<1>2. G \subseteq HubEvent
  BY <1>0, <1>1 DEF Fresh
<1>3. ASSUME NEW g \in N, NEW h \in N, g.id = h.id PROVE g = h
  <2>1. PICK i : Fresh(c, g, i)
    BY <1>1
  <2>2. PICK j : Fresh(c, h, j)
    BY <1>1
  <2>3. i \in DOMAIN log[c] /\ j \in DOMAIN log[c] /\ log[c][i].id = log[c][j].id
    BY <1>3, <2>1, <2>2 DEF Fresh
  <2>4. i = j
    BY <1>0, <2>3 DEF LogOK
  <2> QED
    BY <2>1, <2>2, <2>4 DEF Fresh
<1>4. \A g, h \in G : g.id = h.id => g = h
  <2>1. \A g \in N, h \in hub : g.id # h.id
    BY <1>1 DEF Fresh
  <2>2. \A g, h \in hub : g.id = h.id => g = h
    BY <1>0 DEF HubOK
  <2> QED
    BY <1>3, <2>1, <2>2
<1>5. ASSUME NEW g \in N, NEW h \in N, g.op = "create", h.op = "create", g.num = h.num PROVE g = h
  <2>1. g.uid \in Tasks /\ h.uid \in Tasks
    BY <1>2, EntryEvent, EventOf
  <2>2. at[c][g.uid] # NULL /\ at[c][g.uid] = g.num /\ g.id = g.uid
    BY <1>1, <1>5 DEF Fresh
  <2>3. at[c][h.uid] # NULL /\ at[c][h.uid] = h.num /\ h.id = h.uid
    BY <1>1, <1>5 DEF Fresh
  <2>4. g.uid = h.uid
    BY <1>0, <1>5, <2>1, <2>2, <2>3 DEF TreeOf
  <2> QED
    BY <1>3, <2>2, <2>3, <2>4
<1>6. \A g, h \in G : g.op = "create" /\ h.op = "create" /\ g.num = h.num => g = h
  <2>1. \A g \in N, h \in hub : g.op = "create" /\ h.op = "create" => g.num # h.num
    BY <1>1 DEF Fresh
  <2>2. \A g, h \in hub : g.op = "create" /\ h.op = "create" /\ g.num = h.num => g = h
    BY <1>0 DEF HubOK
  <2> QED
    BY <1>5, <2>1, <2>2
<1>7. \A u, num : GrantIn(hub, u, num) => GrantIn(G, u, num)
  BY GrantsStay
<1>8. ASSUME NEW h \in G, h.op = "create"
      PROVE  /\ IsNumber(h.num) /\ h.ref = ParentOf(h.num)
             /\ IF h.to = NULL THEN Len(h.num) = 1 ELSE GrantIn(G, h.to, h.ref)
  <2>1. CASE h \in hub
    BY <1>0, <1>7, <1>8, <2>1 DEF HubOK
  <2>2. CASE h \in N
    <3>1. /\ at[c][h.uid] # NULL /\ at[c][h.uid] = h.num /\ h.id = h.uid /\ h.ref = ParentOf(h.num)
          /\ h.to # NULL => GrantIn(hub, h.to, h.ref)
      BY <1>1, <1>8, <2>2 DEF Fresh
    <3>2. PICK w \in Work : IsOf(h, w)
      BY <1>2, <2>2 DEF HubEvent
    <3>3. h.uid \in Tasks /\ w.op = "create" /\ w.uid = h.uid /\ w.to = h.to
      BY <1>8, <3>2, NumberRegistryAssumption DEF IsOf
    <3>4. IsNumber(h.num)
      BY <1>0, <3>1, <3>3 DEF TreeOf
    <3>5. h.to = NULL => Len(h.num) = 1
      BY <1>0, <3>1, <3>3 DEF TreeOf
    <3> QED
      BY <1>7, <3>1, <3>4, <3>5
  <2> QED
    BY <2>1, <2>2
<1>9. ASSUME NEW h \in G, h.op = "link" PROVE GrantIn(G, h.to, h.ref)
  <2>1. CASE h \in hub
    BY <1>0, <1>7, <1>9, <2>1 DEF HubOK
  <2>2. CASE h \in N
    BY <1>1, <1>7, <1>9, <2>2 DEF Fresh
  <2> QED
    BY <2>1, <2>2
<1>10. HubOK(G)
  <2> HIDE DEF G
  <2> QED
    BY <1>4, <1>6, <1>8, <1>9 DEF HubOK
<1> QED
  BY <1>2, <1>10 DEF N

\* Only the client whose work it is brings an event to the hub first, and no
\* other store has it before.
LEMMA FreshIsOwn ==
    ASSUME RegistryInv, NEW c \in Clients, push[c].pc = "send", NEW g \in Inserted(c), NEW w \in Work,
           w.id = g.id
    PROVE  /\ w.by = c
           /\ \A d \in Clients : d # c => \A i \in DOMAIN log[d] : log[d][i].id # g.id
<1>1. PICK i : Fresh(c, g, i)
  BY InsertedIsFresh
<1>2. i \in DOMAIN log[c] /\ log[c][i].id = w.id /\ \A h \in hub : h.id # w.id
  BY <1>1 DEF Fresh
<1>3. w.by = c
  <2>1. LogOK(c, log[c], at[c], hub)
    BY OfClient
  <2> QED
    BY <1>2, <2>1 DEF LogOK
<1>4. ASSUME NEW d \in Clients, d # c, NEW j \in DOMAIN log[d], log[d][j].id = g.id PROVE FALSE
  <2>1. LogOK(d, log[d], at[d], hub)
    BY OfClient
  <2> QED
    BY <1>2, <1>3, <1>4, <2>1 DEF LogOK
<1> QED
  BY <1>3, <1>4

\* What another store knows of has not been granted by this transaction.
LEMMA OthersGrants ==
    ASSUME RegistryInv, NEW c \in Clients, push[c].pc = "send", NEW d \in Clients, d # c,
           NEW i \in DOMAIN log[d], GrantedIn(hub \cup Inserted(c), log[d][i].id)
    PROVE  GrantedIn(hub, log[d][i].id)
<1>1. PICK g \in hub \cup Inserted(c) : g.op = "create" /\ g.id = log[d][i].id
  BY DEF GrantedIn
<1>2. g \notin Inserted(c)
  <2> SUFFICES ASSUME g \in Inserted(c) PROVE FALSE
    OBVIOUS
  <2>1. PICK j : Fresh(c, g, j)
    BY InsertedIsFresh
  <2>2. PICK w \in Work : w.id = g.id
    BY <2>1 DEF Fresh, HubEvent, IsOf
  <2> QED
    BY <1>1, <2>2, FreshIsOwn
<1> QED
  BY <1>1, <1>2 DEF GrantedIn

LEMMA OtherStores ==
    ASSUME RegistryInv, NEW c \in Clients, push[c].pc = "send", NEW d \in Clients, d # c
    PROVE  StoreOK(d, at[d], log[d], push[d], hub \cup Inserted(c))
<1> DEFINE H == hub
           G == hub \cup Inserted(c)
           t == at[d]
           l == log[d]
           p == push[d]
<1>0. /\ StoreOK(d, t, l, p, H) /\ TreeOf(t) /\ GrantedUp(t, H) /\ LogOK(d, l, t, H)
      /\ BatchOK(p, l, t, H) /\ ResultOK(p, l, H)
  BY OfClient DEF StoreOK
<1>1. /\ \A u, num : GrantIn(H, u, num) => GrantIn(G, u, num)
      /\ \A u : GrantedIn(H, u) => GrantedIn(G, u)
      /\ \A h \in H : h \in G
  BY GrantsStay
<1>2. \A i \in DOMAIN l : GrantedIn(G, l[i].id) => GrantedIn(H, l[i].id)
  BY OthersGrants
<1>3. \A u \in Tasks : t[u] # NULL /\ GrantedIn(G, u) => GrantedIn(H, u)
  BY <1>0, <1>2 DEF LogOK
<1>4. \A h \in G : h \in H \/ \E w \in Work : w.id = h.id /\ w.by = c
  <2> SUFFICES ASSUME NEW h \in Inserted(c) PROVE \E w \in Work : w.id = h.id /\ w.by = c
    OBVIOUS
  <2>1. PICK j : Fresh(c, h, j)
    BY InsertedIsFresh
  <2>2. PICK w \in Work : w.id = h.id
    BY <2>1 DEF Fresh, HubEvent, IsOf
  <2> QED
    BY <2>2, FreshIsOwn
<1> HIDE DEF G, H, t, l, p
<1>5. GrantedUp(t, G)
  BY <1>0, <1>1, <1>3 DEF GrantedUp
<1>6. LogOK(d, l, t, G)
  <2>1. \A i \in DOMAIN l : EntryOK(l[i], t, G)
    <3> TAKE i \in DOMAIN l
    <3>1. EntryOK(l[i], t, H)
      BY <1>0, LogEntry
    <3> QED
      BY <1>1, <1>2, <3>1 DEF EntryOK
  <2>2. ASSUME NEW i \in DOMAIN l, NEW w \in Work, l[i].id = w.id, w.by # d
        PROVE  \E h \in G : h.id = w.id
    <3>1. PICK h \in H : h.id = w.id
      BY <1>0, <2>2 DEF LogOK
    <3> QED
      BY <1>1, <3>1
  <2>3. ASSUME NEW h \in G, NEW w \in Work, h.id = w.id, w.by = d
        PROVE  \E i \in DOMAIN l : l[i].id = w.id
    <3>1. h \in H
      BY <1>4, <2>3, NumberRegistryAssumption
    <3> QED
      BY <1>0, <2>3, <3>1 DEF LogOK
  <2>4. /\ l \in Seq(Entry) /\ \A i, j \in DOMAIN l : l[i].id = l[j].id => i = j
        /\ \A u \in Tasks : t[u] # NULL => \E i \in DOMAIN l : l[i].id = u
    BY <1>0 DEF LogOK
  <2> QED
    BY <2>1, <2>2, <2>3, <2>4 DEF LogOK
<1>7. BatchOK(p, l, t, G)
  <2> SUFFICES ASSUME p.pc = "send", NEW i \in DOMAIN p.batch
               PROVE  i \in DOMAIN l /\ SentOK(p.batch[i], l[i], t, G)
    BY DEF BatchOK
  <2>1. i \in DOMAIN l /\ SentOK(p.batch[i], l[i], t, H)
    BY <1>0 DEF BatchOK
  <2> DEFINE b == p.batch[i]
             e == l[i]
  <2>2. GrantedIn(G, b.id) => GrantedIn(H, b.id)
    BY <1>2, <2>1 DEF SentOK
  <2>3. SentOK(b, e, t, H)
    BY <2>1
  <2> HIDE DEF b, e
  <2>4. SentOK(b, e, t, G)
    BY <1>1, <2>2, <2>3 DEF SentOK
  <2> QED
    BY <2>1, <2>4 DEF b, e
<1>8. ResultOK(p, l, G)
  <2>1. \A id : (\E h \in H : h.id = id) => \E h \in G : h.id = id
    BY <1>1
  <2> QED
    BY <1>0, <1>2, <2>1 DEF ResultOK
<1> QED
  BY <1>0, <1>5, <1>6, <1>7, <1>8 DEF StoreOK, G, t, l, p

\* The store that sent the batch.
LEMMA OwnStore ==
    ASSUME RegistryInv, NEW c \in Clients, push[c].pc = "send"
    PROVE  StoreOK(c, at[c], log[c], push[c], hub \cup Inserted(c))
<1> DEFINE H == hub
           G == hub \cup Inserted(c)
           t == at[c]
           l == log[c]
           p == push[c]
<1>0. /\ StoreOK(c, t, l, p, H) /\ TreeOf(t) /\ GrantedUp(t, H) /\ LogOK(c, l, t, H)
      /\ BatchOK(p, l, t, H) /\ ResultOK(p, l, H)
  BY OfClient DEF StoreOK
<1>1. /\ \A u, num : GrantIn(H, u, num) => GrantIn(G, u, num)
      /\ \A u : GrantedIn(H, u) => GrantedIn(G, u)
      /\ \A h \in H : h \in G
  BY GrantsStay
<1>2. \A g \in Inserted(c) : \E i : Fresh(c, g, i)
  BY InsertedIsFresh
\* A grant of this transaction.
<1>3. ASSUME NEW u, GrantedIn(G, u), ~GrantedIn(H, u)
      PROVE  \E g, i : g \in Inserted(c) /\ Fresh(c, g, i) /\ g.op = "create" /\ g.id = u /\ g.uid = u
  <2>1. PICK g \in G : g.op = "create" /\ g.id = u
    BY <1>3 DEF GrantedIn
  <2>2. g \in Inserted(c)
    BY <1>3, <2>1 DEF GrantedIn
  <2>3. PICK i : Fresh(c, g, i)
    BY <1>2, <2>2
  <2>4. g.uid = u
    BY <2>1, <2>3 DEF Fresh
  <2> QED
    BY <2>1, <2>2, <2>3, <2>4
<1>4. GrantedUp(t, G)
  <2> SUFFICES ASSUME NEW u \in Tasks, NEW v \in Tasks, t[u] # NULL, t[v] # NULL,
                      IsPrefix(t[u], t[v]), GrantedIn(G, v)
               PROVE  GrantedIn(G, u)
    BY DEF GrantedUp
  <2>1. CASE GrantedIn(H, v)
    BY <1>0, <1>1, <2>1 DEF GrantedUp
  <2>2. CASE ~GrantedIn(H, v)
    <3>1. PICK g, i : g \in Inserted(c) /\ Fresh(c, g, i) /\ g.op = "create" /\ g.uid = v
      BY <1>3, <2>2
    <3>2. u # v => GrantedIn(H, u)
      BY <3>1 DEF Fresh
    <3> QED
      BY <1>1, <3>2
  <2> QED
    BY <2>1, <2>2
<1>5. \A i \in DOMAIN l : EntryOK(l[i], t, G)
  <2> TAKE i \in DOMAIN l
  <2> DEFINE e == l[i]
  <2>1. EntryOK(e, t, H)
    BY <1>0, LogEntry
  <2>2. ASSUME e.op = "create", e.status = "pending", GrantedIn(G, e.id)
        PROVE  GrantIn(G, e.id, e.num)
    <3>1. CASE GrantedIn(H, e.id)
      BY <1>1, <2>1, <2>2, <3>1 DEF EntryOK
    <3>2. CASE ~GrantedIn(H, e.id)
      <4>1. PICK g, j : g \in Inserted(c) /\ Fresh(c, g, j) /\ g.op = "create" /\ g.id = e.id
        BY <1>3, <2>2, <3>2
      <4>2. j \in DOMAIN l /\ l[j].id = g.id /\ g.num = l[j].num
        BY <4>1 DEF Fresh
      <4>3. j = i
        BY <1>0, <4>1, <4>2 DEF LogOK
      <4> QED
        BY <4>1, <4>2, <4>3 DEF GrantIn
    <3> QED
      BY <3>1, <3>2
  <2> HIDE DEF e, G, H
  <2>3. EntryOK(e, t, G)
    BY <1>1, <2>1, <2>2 DEF EntryOK
  <2> QED
    BY <2>3 DEF e
<1>6. LogOK(c, l, t, G)
  <2>1. ASSUME NEW i \in DOMAIN l, NEW w \in Work, l[i].id = w.id, w.by # c
        PROVE  \E h \in G : h.id = w.id
    <3>1. PICK h \in H : h.id = w.id
      BY <1>0, <2>1 DEF LogOK
    <3> QED
      BY <1>1, <3>1
  <2>2. ASSUME NEW h \in G, NEW w \in Work, h.id = w.id, w.by = c
        PROVE  \E i \in DOMAIN l : l[i].id = w.id
    <3>1. CASE h \in H
      BY <1>0, <2>2, <3>1 DEF LogOK
    <3>2. CASE h \in Inserted(c)
      BY <1>2, <2>2, <3>2 DEF Fresh
    <3> QED
      BY <3>1, <3>2
  <2>3. /\ l \in Seq(Entry) /\ \A i, j \in DOMAIN l : l[i].id = l[j].id => i = j
        /\ \A u \in Tasks : t[u] # NULL => \E i \in DOMAIN l : l[i].id = u
    BY <1>0 DEF LogOK
  <2> HIDE DEF G, H
  <2> QED
    BY <1>5, <2>1, <2>2, <2>3 DEF LogOK
<1>7. BatchOK(p, l, t, G)
  <2> SUFFICES ASSUME NEW i \in DOMAIN p.batch
               PROVE  i \in DOMAIN l /\ SentOK(p.batch[i], l[i], t, G)
    BY DEF BatchOK
  <2> DEFINE b == p.batch[i]
             e == l[i]
  <2>1. i \in DOMAIN l /\ SentOK(b, e, t, H)
    BY <1>0 DEF BatchOK
  <2>2. ASSUME b.op = "create", ~GrantedIn(H, b.id), NEW h \in H, h.op = "create", h.num = b.num,
               h.id # b.id
        PROVE  ~GrantedIn(G, b.id)
    <3> SUFFICES ASSUME GrantedIn(G, b.id) PROVE FALSE
      OBVIOUS
    <3>1. PICK g, j : g \in Inserted(c) /\ Fresh(c, g, j) /\ g.op = "create" /\ g.id = b.id
      BY <1>3, <2>2
    <3>2. j \in DOMAIN l /\ l[j].id = b.id /\ b.id = e.id /\ g = Stamped(p.batch[j])
      BY <2>1, <3>1 DEF Fresh, SentOK
    <3>3. i = j
      BY <1>0, <2>1, <3>2 DEF LogOK
    <3>4. g.num = b.num
      BY <3>2, <3>3 DEF Stamped
    <3> QED
      BY <2>2, <3>1, <3>4 DEF Fresh
  <2> HIDE DEF b, e, G, H
  <2>3. SentOK(b, e, t, G)
    <3>1. b.op = "create" =>
            \/ b.num = e.num /\ b.ref = e.ref
            \/ ~GrantedIn(G, b.id) /\ \E h \in G : h.op = "create" /\ h.num = b.num /\ h.id # b.id
      <4> SUFFICES ASSUME b.op = "create", ~(b.num = e.num /\ b.ref = e.ref)
                   PROVE  ~GrantedIn(G, b.id) /\ \E h \in G : h.op = "create" /\ h.num = b.num /\ h.id # b.id
        OBVIOUS
      <4>1. PICK h \in H : h.op = "create" /\ h.num = b.num /\ h.id # b.id /\ ~GrantedIn(H, b.id)
        BY <2>1 DEF SentOK
      <4>2. h \in G
        BY <1>1, <4>1
      <4>3. ~GrantedIn(G, b.id)
        BY <2>2, <4>1
      <4> QED
        BY <4>1, <4>2, <4>3
    <3> QED
      BY <1>1, <2>1, <3>1 DEF SentOK
  <2> QED
    BY <2>1, <2>3 DEF b, e
<1>8. ResultOK(p, l, G)
  BY DEF ResultOK
<1> HIDE DEF G, H, t, l, p
<1> QED
  BY <1>0, <1>4, <1>6, <1>7, <1>8 DEF StoreOK, G, t, l, p

LEMMA BatchEntries ==
    ASSUME NEW b \in Batches
    PROVE  DOMAIN b \in SUBSET Nat /\ \A x \in Range(b) : x \in Entry /\ x.id \in WorkIds
<1>1. PICK D \in SUBSET Nat : b \in [D -> Entry]
  BY DEF Batches
<1>2. DOMAIN b = D /\ \A i \in D : b[i] \in Entry
  BY <1>1
<1>3. \A x \in Entry : x.id \in WorkIds
  BY DEF Entry
<1>4. \A x \in Range(b) : x \in Entry
  BY <1>2 DEF Range
<1> QED
  BY <1>1, <1>2, <1>3, <1>4

LEMMA TransactionKeeps ==
    ASSUME RegistryInv, NEW c \in Clients, push[c].pc = "send", HubTransaction(push[c].batch),
           NEW p \in PushState, push' = [push EXCEPT ![c] = p],
           StoreOK(c, at[c], log[c], p, hub \cup Inserted(c)),
           at' = at, seq' = seq, log' = log, links' = links, epoch' = epoch
    PROVE  RegistryInv'
<1> DEFINE G == hub \cup Inserted(c)
<1>0. RegistryTypeOK /\ push \in [Clients -> PushState]
  BY DEF RegistryInv, RegistryTypeOK
<1>1. hub' = G
  BY DEF HubTransaction, Inserted
<1>2. G \subseteq HubEvent /\ HubOK(G)
  BY HubGrows
<1>3. push' \in [Clients -> PushState] /\ push'[c] = p /\ \A d \in Clients : d # c => push'[d] = push[d]
  BY <1>0
<1>4. RegistryTypeOK'
  BY <1>0, <1>1, <1>2, <1>3 DEF RegistryTypeOK
<1>5. ASSUME NEW d \in Clients PROVE StoreOK(d, at[d], log[d], push[d], hub)'
  <2>1. CASE d = c
    BY <1>1, <1>3, <2>1
  <2>2. CASE d # c
    BY <1>1, <1>3, <2>2, OtherStores
  <2> QED
    BY <2>1, <2>2
<1>6. CollisionInv'
  <2>1. \A u, num : GrantIn(hub, u, num) => GrantIn(G, u, num)
    BY GrantsStay
  <2>2. ASSUME NEW k \in collisions'
        PROVE  k.incoming # k.held /\ k.incoming \in Tasks /\ GrantIn(G, k.held, k.num)
    <3>1. CASE k \in collisions
      BY <2>1, <3>1 DEF RegistryInv, CollisionInv
    <3>2. CASE k \notin collisions
      <4>1. PICK e \in Range(push[c].batch) :
              /\ Outcome(e) = "blocked"
              /\ k = [incoming |-> e.id, held |-> (CHOOSE h \in Holders(e) : TRUE).id,
                      num |-> e.num, winner |-> NULL, moved |-> NULL]
        BY <3>2 DEF HubTransaction
      <4>2. e.op = "create" /\ Holders(e) # {}
        BY <4>1 DEF Outcome
      <4> DEFINE g == CHOOSE h \in Holders(e) : TRUE
      <4>3. g \in Holders(e)
        BY <4>2
      <4>4. k.incoming = e.id /\ k.held = g.id /\ k.num = e.num
        BY <4>1
      <4> HIDE DEF g
      <4>5. g \in hub /\ g.op = "create" /\ g.num = e.num /\ g.id # e.id
        BY <4>3 DEF Holders
      <4>6. GrantIn(hub, k.held, k.num)
        BY <4>4, <4>5 DEF GrantIn
      <4>7. e \in Entry
        <5>1. push[c].batch \in Batches
          BY <1>0, PushStateIs
        <5> QED
          BY <4>1, <5>1, BatchEntries
      <4>8. e.id \in Tasks
        BY <4>2, <4>7, EntryEvent, EventOf
      <4> QED
        BY <2>1, <4>4, <4>5, <4>6, <4>8
    <3> QED
      BY <3>1, <3>2
  <2> QED
    BY <1>1, <2>2 DEF CollisionInv
<1>7. LinksInv'
  BY DEF RegistryInv, LinksInv
<1> QED
  BY <1>1, <1>2, <1>4, <1>5, <1>6, <1>7 DEF RegistryInv

LEMMA SendUnacknowledgedKeeps ==
    ASSUME RegistryInv, NEW c \in Clients, SendUnacknowledged(c)
    PROVE  RegistryInv'
<1>1. push[c] \in PushState /\ push = [push EXCEPT ![c] = push[c]] /\ push[c].pc = "send"
  BY OfClient DEF SendUnacknowledged
<1>2. push' = [push EXCEPT ![c] = push[c]]
  BY <1>1 DEF SendUnacknowledged
<1>3. StoreOK(c, at[c], log[c], push[c], hub \cup Inserted(c))
  BY <1>1, OwnStore
<1> QED
  BY <1>1, <1>2, <1>3, TransactionKeeps DEF SendUnacknowledged

\* A creation the hub refuses is not on the hub, before or after.
LEMMA RejectedIsUngranted ==
    ASSUME RegistryInv, NEW c \in Clients, push[c].pc = "send", NEW i \in DOMAIN push[c].batch,
           Outcome(push[c].batch[i]) = "renumber"
    PROVE  /\ i \in DOMAIN log[c] /\ log[c][i].op = "create"
           /\ ~GrantedIn(hub \cup Inserted(c), log[c][i].id)
<1> DEFINE b == push[c].batch[i]
           e == log[c][i]
           t == at[c]
<1>0. /\ HubOK(hub) /\ StoreOK(c, t, log[c], push[c], hub) /\ LogOK(c, log[c], t, hub)
  BY OfClient
<1>1. i \in DOMAIN log[c] /\ SentOK(b, e, t, hub)
  BY <1>0 DEF StoreOK, BatchOK
<1>2. Event(e) /\ EntryOK(e, t, hub) /\ Event(b) /\ b.id = e.id /\ e.status = "pending"
  BY <1>0, <1>1, LogEntry, EntryEvent DEF SentOK
<1>3. Outcome(b) = "renumber"
  OBVIOUS
<1> HIDE DEF b, e
<1>4. b.op = "create" /\ Holders(b) # {}
  BY <1>3 DEF Outcome
<1>5. e.op = "create"
  BY <1>2, <1>4, SameEvent
<1>6. PICK h \in hub : h.op = "create" /\ h.num = b.num /\ h.id # b.id
  BY <1>4 DEF Holders
<1>7. ~GrantedIn(hub, b.id)
  <2> SUFFICES ASSUME GrantedIn(hub, b.id) PROVE FALSE
    OBVIOUS
  <2>1. b.num = e.num
    BY <1>1, <1>4 DEF SentOK
  <2>2. GrantIn(hub, e.id, e.num)
    BY <1>2, <1>5 DEF EntryOK
  <2>3. GrantIn(hub, h.id, e.num)
    BY <1>6, <2>1 DEF GrantIn
  <2> QED
    BY <1>0, <1>2, <1>6, <2>2, <2>3, GrantUnique
<1>8. ASSUME NEW g \in Inserted(c), g.id = e.id PROVE FALSE
  <2>1. PICK j : Fresh(c, g, j)
    BY InsertedIsFresh
  <2>2. j \in DOMAIN log[c] /\ log[c][j].id = log[c][i].id /\ Outcome(push[c].batch[j]) = "insert"
    BY <1>8, <2>1 DEF Fresh, e
  <2>3. i = j
    BY <1>0, <1>1, <2>2 DEF LogOK
  <2> QED
    BY <1>3, <2>2, <2>3 DEF b
<1>9. ~GrantedIn(hub \cup Inserted(c), e.id)
  BY <1>2, <1>7, <1>8 DEF GrantedIn
<1> QED
  BY <1>1, <1>5, <1>9 DEF e

LEMMA SendKeeps ==
    ASSUME RegistryInv, NEW c \in Clients, Send(c)
    PROVE  RegistryInv'
<1> DEFINE q == push[c]
           batch == q.batch
           Of(outcomes) == {e.id : e \in {x \in Range(batch) : Outcome(x) \in outcomes}}
           r == [accepted |-> Of({"insert", "present"}), mismatched |-> Of({"mismatch"}),
                 blocked |-> Of({"blocked"}),
                 renumbers |-> {i \in DOMAIN batch : Outcome(batch[i]) = "renumber"}]
           p == [q EXCEPT !.pc = "mark", !.result = r]
           G == hub \cup Inserted(c)
<1>0. q \in PushState /\ q.pc = "send" /\ push \in [Clients -> PushState]
  BY OfClient DEF Send, RegistryTypeOK
<1>1. push' = [push EXCEPT ![c] = p]
  BY <1>0 DEF Send
<1>2. batch \in Batches
  BY <1>0, PushStateIs
<1>3. DOMAIN batch \in SUBSET Nat /\ \A x \in Range(batch) : x.id \in WorkIds
  BY <1>2, BatchEntries
<1>4. r \in Results
  <2>1. \A o : Of(o) \in SUBSET WorkIds
    BY <1>3
  <2>2. {i \in DOMAIN batch : Outcome(batch[i]) = "renumber"} \in SUBSET Nat
    BY <1>3
  <2> HIDE DEF Of
  <2> QED
    BY <2>1, <2>2 DEF Results
<1>5. \A id \in r.accepted : \E h \in G : h.id = id
  <2> SUFFICES ASSUME NEW e \in Range(batch), Outcome(e) \in {"insert", "present"}
               PROVE  \E h \in G : h.id = e.id
    OBVIOUS
  <2>1. CASE Outcome(e) = "insert"
    <3>1. Stamped(e) \in G /\ Stamped(e).id = e.id
      BY <2>1 DEF Inserted, Stamped
    <3> QED
      BY <3>1
  <2>2. CASE Outcome(e) = "present"
    BY <2>2 DEF Outcome
  <2> QED
    BY <2>1, <2>2
<1>6. \A i \in r.renumbers :
        i \in DOMAIN log[c] /\ log[c][i].op = "create" /\ ~GrantedIn(G, log[c][i].id)
  BY <1>0, RejectedIsUngranted
<1> HIDE DEF r
<1>7. p \in PushState /\ p.pc = "mark" /\ p.result = r
  BY <1>0, <1>4, PushStateIs
<1>8. StoreOK(c, at[c], log[c], q, G)
  BY <1>0, OwnStore
<1> HIDE DEF p
<1>9. StoreOK(c, at[c], log[c], p, G)
  <2>1. BatchOK(p, log[c], at[c], G)
    BY <1>7 DEF BatchOK
  <2>2. ResultOK(p, log[c], G)
    <3> HIDE DEF G
    <3> QED
      BY <1>5, <1>6, <1>7 DEF ResultOK
  <2> HIDE DEF G
  <2> QED
    BY <1>8, <2>1, <2>2 DEF StoreOK
<1> QED
  BY <1>0, <1>1, <1>7, <1>9, TransactionKeeps DEF Send

-----------------------------------------------------------------------------
(* The remaining steps.                                                    *)

LEMMA MarkRestoredKeeps ==
    ASSUME RegistryInv, MarkRestored
    PROVE  RegistryInv'
<1>1. epoch' \in Nat
  BY DEF RegistryInv, RegistryTypeOK, MarkRestored
<1>2. RegistryTypeOK' /\ CollisionInv' /\ LinksInv'
  BY <1>1 DEF RegistryInv, RegistryTypeOK, MarkRestored, CollisionInv, LinksInv
<1> QED
  BY <1>2 DEF RegistryInv, MarkRestored

\* A row of the collisions gets its winner, or the number the loser moved to.
LEMMA CollisionRowKeeps ==
    ASSUME RegistryInv, NEW k \in collisions, NEW j,
           j.incoming = k.incoming, j.held = k.held, j.num = k.num,
           collisions' = (collisions \ {k}) \cup {j},
           at' = at, seq' = seq, log' = log, links' = links, push' = push, hub' = hub, epoch' = epoch
    PROVE  RegistryInv'
<1>1. CollisionInv'
  BY DEF RegistryInv, CollisionInv
<1>2. RegistryTypeOK' /\ LinksInv'
  BY DEF RegistryInv, RegistryTypeOK, LinksInv
<1> QED
  BY <1>1, <1>2 DEF RegistryInv

\* A decision, once made, stays.
LEMMA NoneOverruledBefore ==
    ASSUME CollisionRows, [Next]_vars, NoneOverruled'
    PROVE  NoneOverruled
<1>1. CASE collisions \subseteq collisions'
  BY <1>1 DEF NoneOverruled
<1>2. ASSUME NEW c \in Clients, NEW k \in collisions,
             \/ \E winner \in {k.held, k.incoming} : AcceptCollision(c, k, winner)
             \/ FinishCollision(c, k)
      PROVE  NoneOverruled
  <2>0. k = [incoming |-> k.incoming, held |-> k.held, num |-> k.num,
             winner |-> k.winner, moved |-> k.moved]
    BY DEF CollisionRows
  <2>1. \A x \in collisions \ {k} : x.winner \in {NULL, x.held}
    BY <1>2 DEF AcceptCollision, FinishCollision, NoneOverruled
  <2>2. k.winner \in {NULL, k.held}
    <3>1. CASE \E winner \in {k.held, k.incoming} : AcceptCollision(c, k, winner)
      BY <3>1 DEF AcceptCollision
    <3>2. CASE FinishCollision(c, k)
      <4> DEFINE j == [k EXCEPT !.moved = at[c][LoserOf(k, k.winner)]]
      <4>1. j \in collisions'
        BY <3>2 DEF FinishCollision
      <4>2. j.winner = k.winner /\ j.held = k.held
        BY <2>0
      <4> QED
        BY <4>1, <4>2 DEF NoneOverruled
    <3> QED
      BY <1>2, <3>1, <3>2
  <2> QED
    BY <2>1, <2>2 DEF NoneOverruled
<1>3. CASE ~(collisions \subseteq collisions')
  <2>1. \E c \in Clients : \E k \in collisions :
           \/ \E winner \in {k.held, k.incoming} : AcceptCollision(c, k, winner)
           \/ FinishCollision(c, k)
    BY <1>3 DEF Next, vars, LocalWrite, StartPush, PushStep, NothingLeft, ReadBatch, Send, MarkPushed,
                RenumberRejected, SendUnacknowledged, HubTransaction, Crash, Apply, MarkRestored, MoveLoser
  <2> QED
    BY <1>2, <2>1
<1> QED
  BY <1>1, <1>3

LEMMA RowsStay ==
    ASSUME CollisionRows, [Next]_vars
    PROVE  CollisionRows'
<1>1. CASE \A k \in collisions' : k \in collisions \/ \E a, b, n :
             k = [incoming |-> a, held |-> b, num |-> n, winner |-> NULL, moved |-> NULL]
  BY <1>1 DEF CollisionRows
<1>2. ASSUME NEW c \in Clients, NEW k \in collisions,
             \/ \E winner \in {k.held, k.incoming} : AcceptCollision(c, k, winner)
             \/ FinishCollision(c, k)
      PROVE  CollisionRows'
  <2>0. k = [incoming |-> k.incoming, held |-> k.held, num |-> k.num,
             winner |-> k.winner, moved |-> k.moved]
    BY DEF CollisionRows
  <2>1. PICK j : /\ collisions' = (collisions \ {k}) \cup {j}
                 /\ (\E winner : j = [k EXCEPT !.winner = winner]) \/ (\E m : j = [k EXCEPT !.moved = m])
    BY <1>2 DEF AcceptCollision, FinishCollision
  <2>2. j = [incoming |-> j.incoming, held |-> j.held, num |-> j.num,
             winner |-> j.winner, moved |-> j.moved]
    BY <2>0, <2>1
  <2> QED
    BY <2>1, <2>2 DEF CollisionRows
<1>3. CASE ~(\A k \in collisions' : k \in collisions \/ \E a, b, n :
             k = [incoming |-> a, held |-> b, num |-> n, winner |-> NULL, moved |-> NULL])
  <2>0. \A b : HubTransaction(b) => \A k \in collisions' : k \in collisions \/ \E x, y, n :
             k = [incoming |-> x, held |-> y, num |-> n, winner |-> NULL, moved |-> NULL]
    BY DEF HubTransaction
  <2>1. \E c \in Clients : \E k \in collisions :
           \/ \E winner \in {k.held, k.incoming} : AcceptCollision(c, k, winner)
           \/ FinishCollision(c, k)
    BY <1>3, <2>0 DEF Next, vars, LocalWrite, StartPush, PushStep, NothingLeft, ReadBatch, Send, MarkPushed,
                RenumberRejected, SendUnacknowledged, Crash, Apply, MarkRestored, MoveLoser
  <2> QED
    BY <1>2, <2>1
<1> QED
  BY <1>1, <1>3

LEMMA StepKeepsRegistry ==
    ASSUME RegistryInv, CollisionRows, NoneOverruled, [Next]_vars
    PROVE  RegistryInv'
<1>1. ASSUME NEW c \in Clients, NEW w \in Work, LocalWrite(c, w) PROVE RegistryInv'
  <2>1. Create(c, w) \/ Change(c, w)
    BY <1>1 DEF LocalWrite
  <2> QED
    BY <1>1, <2>1, CreateKeeps, ChangeKeeps
<1>2. ASSUME NEW c \in Clients, StartPush(c) \/ PushStep(c) \/ SendUnacknowledged(c) \/ Crash(c)
      PROVE  RegistryInv'
  BY <1>2, StartPushKeeps, NothingLeftKeeps, ReadBatchKeeps, SendKeeps, MarkPushedKeeps,
     RenumberRejectedKeeps, SendUnacknowledgedKeeps, CrashKeeps DEF PushStep
<1>3. ASSUME NEW c \in Clients, NEW e \in hub, Apply(c, e) PROVE RegistryInv'
  BY <1>3, ApplyCreateKeeps, ApplyChangeKeeps
<1>4. CASE MarkRestored
  BY <1>4, MarkRestoredKeeps
<1>5. ASSUME NEW c \in Clients, NEW k \in collisions, NEW winner, AcceptCollision(c, k, winner)
      PROVE  RegistryInv'
  <2> DEFINE j == [k EXCEPT !.winner = winner]
  <2>1. k = [incoming |-> k.incoming, held |-> k.held, num |-> k.num,
             winner |-> k.winner, moved |-> k.moved]
    BY DEF CollisionRows
  <2>2. j.incoming = k.incoming /\ j.held = k.held /\ j.num = k.num
    BY <2>1
  <2>3. collisions' = (collisions \ {k}) \cup {j}
    BY <1>5 DEF AcceptCollision
  <2> HIDE DEF j
  <2> QED
    BY <1>5, <2>2, <2>3, CollisionRowKeeps DEF AcceptCollision
<1>6. ASSUME NEW c \in Clients, NEW k \in collisions, FinishCollision(c, k)
      PROVE  RegistryInv'
  <2> DEFINE j == [k EXCEPT !.moved = at[c][LoserOf(k, k.winner)]]
  <2>1. k = [incoming |-> k.incoming, held |-> k.held, num |-> k.num,
             winner |-> k.winner, moved |-> k.moved]
    BY DEF CollisionRows
  <2>2. j.incoming = k.incoming /\ j.held = k.held /\ j.num = k.num
    BY <2>1
  <2>3. collisions' = (collisions \ {k}) \cup {j}
    BY <1>6 DEF FinishCollision
  <2> HIDE DEF j
  <2> QED
    BY <1>6, <2>2, <2>3, CollisionRowKeeps DEF FinishCollision
<1>7. CASE UNCHANGED vars
  <2>1. RegistryTypeOK' /\ CollisionInv' /\ LinksInv'
    BY <1>7 DEF RegistryInv, RegistryTypeOK, CollisionInv, LinksInv, vars
  <2> QED
    BY <1>7, <2>1 DEF RegistryInv, vars
<1> QED
  BY <1>1, <1>2, <1>3, <1>4, <1>5, <1>6, <1>7, MoveLoserKeeps DEF Next

LEMMA InitIsRegistry ==
    ASSUME Init
    PROVE  CollisionRows /\ RegistryInv
<1>1. CollisionRows
  BY DEF Init, CollisionRows
<1>2. <<>> \in Seq(Entry) /\ DOMAIN <<>> = {}
  BY EmptySeq
<1>3. RegistryTypeOK
  <2>1. at \in [Clients -> [Tasks -> Paths \cup {NULL}]] /\ seq \in [Clients -> [Namespaces -> Nat]]
    BY DEF Init
  <2>2. log \in [Clients -> Seq(Entry)]
    BY <1>2 DEF Init
  <2>3. push \in [Clients -> PushState]
    BY IdleIs DEF Init
  <2> QED
    BY <2>1, <2>2, <2>3 DEF RegistryTypeOK, Init
<1>4. HubOK(hub) /\ CollisionInv /\ LinksInv
  BY DEF Init, HubOK, CollisionInv, LinksInv
<1>5. ASSUME NEW c \in Clients PROVE StoreOK(c, at[c], log[c], push[c], hub)
  <2>1. at[c] = [u \in Tasks |-> NULL] /\ log[c] = <<>> /\ push[c] = Idle /\ hub = {}
    BY <1>5 DEF Init
  <2>2. \A u \in Tasks : at[c][u] = NULL
    BY <2>1
  <2>3. at[c] \in [Tasks -> Paths \cup {NULL}]
    BY <2>1
  <2>4. TreeOf(at[c])
    <3>1. \A w \in Work : w.uid \in Tasks
      BY NumberRegistryAssumption
    <3> QED
      BY <2>2, <2>3, <3>1 DEF TreeOf
  <2>5. GrantedUp(at[c], hub)
    BY <2>2 DEF GrantedUp
  <2>6. LogOK(c, log[c], at[c], hub)
    BY <1>2, <2>1, <2>2 DEF LogOK
  <2>7. Idle.pc = "idle"
    BY DEF Idle
  <2>8. BatchOK(push[c], log[c], at[c], hub) /\ ResultOK(push[c], log[c], hub)
    BY <2>1, <2>7, QuietPush
  <2> QED
    BY <2>4, <2>5, <2>6, <2>8 DEF StoreOK
<1> QED
  BY <1>1, <1>3, <1>4, <1>5 DEF RegistryInv

\* The stores and the hub stay in agreement under every step as long as no
\* granted task was overruled.
THEOREM RegistryInvariant == Spec => []NumbersInv
<1>1. Init => NumbersInv
  BY InitIsRegistry DEF NumbersInv
<1>2. ASSUME NumbersInv, [Next]_vars PROVE NumbersInv'
  <2>1. CollisionRows /\ CollisionRows'
    BY <1>2, RowsStay DEF NumbersInv
  <2>2. ASSUME NoneOverruled' PROVE RegistryInv'
    <3>1. NoneOverruled
      BY <1>2, <2>1, <2>2, NoneOverruledBefore
    <3> QED
      BY <1>2, <3>1, StepKeepsRegistry DEF NumbersInv
  <2> QED
    BY <2>1, <2>2 DEF NumbersInv
<1> QED
  BY <1>1, <1>2, PTL DEF Spec

\* A store and the hub agree on the number of every task the store counts as
\* granted, and no two tasks of a store have the same number.
THEOREM NumbersAgreeHolds == Spec => [](NoneOverruled => NumbersAgree)
<1>1. ASSUME RegistryInv PROVE NumbersAgree
  <2> SUFFICES ASSUME NEW c \in Clients, NEW u \in Tasks, at[c][u] # NULL
               PROVE  /\ u \in Ungranted(c) \/ Overruled(u) \/ (Granted(u) /\ GrantOf(u) = at[c][u])
                      /\ TaskAt(c, at[c][u]) = {u}
    BY DEF NumbersAgree
  <2>1. HubOK(hub) /\ TreeOf(at[c]) /\ LogOK(c, log[c], at[c], hub)
    BY <1>1, OfClient
  <2>2. TaskAt(c, at[c][u]) = {u}
    BY <2>1 DEF TreeOf, TaskAt
  <2>3. CASE u \notin Ungranted(c)
    <3>1. \A i \in DOMAIN log[c] :
            log[c][i].op = "create" /\ log[c][i].status = "pending" => log[c][i].uid # u
      BY <2>3, UngrantedIs
    <3>2. GrantIn(hub, u, at[c][u])
      BY <2>1, <3>1, KnownGranted
    <3>3. PICK h \in hub : h.op = "create" /\ h.id = u /\ h.num = at[c][u]
      BY <3>2 DEF GrantIn
    <3>4. \A g \in hub : g.op = "create" /\ g.id = u => g = h
      BY <2>1, <3>3 DEF HubOK
    <3>5. GrantOf(u) = at[c][u]
      BY <3>3, <3>4 DEF GrantOf
    <3> QED
      BY <2>2, <3>3, <3>5 DEF Granted
  <2> QED
    BY <2>2, <2>3
<1>2. NumbersInv => (NoneOverruled => NumbersAgree)
  BY <1>1 DEF NumbersInv
<1> QED
  BY <1>2, RegistryInvariant, PTL

LEMMA RegistryIsSame ==
    ASSUME RegistryInv
    PROVE  SameTaskEverywhere
<1>1. ASSUME NEW c \in Clients, NEW w \in Work, w.op = "create", w.to # NULL, at[c][w.uid] # NULL
      PROVE  at[c][w.to] = ParentOf(at[c][w.uid])
  <2>1. TreeOf(at[c]) /\ w.uid \in Tasks /\ w.to \in Tasks
    BY <1>1, OfClient, NumberRegistryAssumption
  <2>2. Above(at[c][w.to], at[c][w.uid])
    BY <1>1, <2>1 DEF TreeOf
  <2>3. at[c][w.to] \in Paths /\ at[c][w.uid] \in Paths /\ Len(at[c][w.uid]) >= 1
    BY <1>1, <2>1, <2>2, StorePaths DEF Above
  <2> QED
    BY <2>2, <2>3, AboveIsParent
<1>2. LinksInv
  BY DEF RegistryInv
<1> QED
  BY <1>1, <1>2 DEF SameTaskEverywhere, LinksInv

\* Links applied from the hub point to the tasks their authors linked, and
\* children lie below the parents they were created under.
THEOREM SameTaskEverywhereHolds == Spec => []SameTaskEverywhere
<1>1. NumbersInv => SameTaskEverywhere
  BY RegistryIsSame DEF NumbersInv, SameTaskEverywhere
<1> QED
  BY <1>1, RegistryInvariant, PTL

-----------------------------------------------------------------------------
(* Nothing is held back, and what is done is on the hub.                   *)

\* An edit or a link that is on the hub, or on its way there, names its task
\* by the number the hub granted it.
ChangeOK(e, H) ==
    e.op # "create" => GrantIn(H, e.uid, e.num) /\ (e.op # "link" => e.ref = Root)

\* A pending edit or link names its task by the number it has here; what is
\* not pending is on the hub.
EntryDue(e, t, H) ==
    /\ e.status = "pending" /\ e.op # "create" =>
          t[e.uid] # NULL /\ t[e.uid] = e.num /\ (e.op # "link" => e.ref = Root)
    /\ e.status # "pending" => \E h \in H : h.id = e.id

StoreDue(t, l, p, H) ==
    /\ \A i \in DOMAIN l : EntryDue(l[i], t, H)
    /\ p.pc = "send" => \A i \in DOMAIN p.batch : ChangeOK(p.batch[i], H)
    /\ p.result.mismatched = {}

DueInv ==
    /\ held = [c \in Clients |-> {}]
    /\ \A h \in hub : ChangeOK(h, hub)
    /\ \A c \in Clients : StoreDue(at[c], log[c], push[c], hub)

\* A step that changes one store and leaves the hub alone.
LEMMA OneStoreDue ==
    ASSUME RegistryInv, DueInv, NEW c \in Clients, NEW t, NEW l, NEW p, StoreDue(t, l, p, hub),
           at' = [at EXCEPT ![c] = t], log' = [log EXCEPT ![c] = l], push' = [push EXCEPT ![c] = p],
           hub' = hub, held' = held
    PROVE  DueInv'
<1>1. DOMAIN at = Clients /\ DOMAIN log = Clients /\ DOMAIN push = Clients
  BY DEF RegistryInv, RegistryTypeOK
<1>2. /\ at'[c] = t /\ log'[c] = l /\ push'[c] = p
      /\ \A d \in Clients : d # c => at'[d] = at[d] /\ log'[d] = log[d] /\ push'[d] = push[d]
  BY <1>1
<1>3. ASSUME NEW d \in Clients PROVE StoreDue(at[d], log[d], push[d], hub)'
  <2>1. CASE d = c
    BY <1>2, <2>1
  <2>2. CASE d # c
    BY <1>2, <2>2 DEF DueInv
  <2> QED
    BY <2>1, <2>2
<1> QED
  BY <1>3 DEF DueInv

\* A store gets an event, and perhaps a task with it.
LEMMA AppendDue ==
    ASSUME NEW c, NEW l, NEW t, NEW r, NEW p, NEW H, LogOK(c, l, t, H), StoreDue(t, l, p, H),
           NEW e \in Entry, EntryDue(e, r, H),
           \A u \in Tasks : t[u] # NULL => r[u] = t[u]
    PROVE  StoreDue(r, Append(l, e), p, H)
<1>1. l \in Seq(Entry) /\ Len(l) \in Nat /\ DOMAIN l = 1..Len(l)
  BY LenProperties DEF LogOK
<1>2. /\ Append(l, e) \in Seq(Entry) /\ Len(Append(l, e)) = Len(l) + 1
      /\ \A i \in 1..Len(l) : Append(l, e)[i] = l[i]
      /\ Append(l, e)[Len(l) + 1] = e
  <2> DEFINE S == Entry
  <2>1. l \in Seq(S) /\ e \in S
    BY <1>1
  <2> HIDE DEF S
  <2>2. /\ Append(l, e) \in Seq(S) /\ Len(Append(l, e)) = Len(l) + 1
        /\ \A i \in 1..Len(l) : Append(l, e)[i] = l[i]
        /\ Append(l, e)[Len(l) + 1] = e
    BY <2>1, AppendProperties
  <2> QED
    BY <2>2 DEF S
<1>3. DOMAIN Append(l, e) = 1..Len(l) + 1
  BY <1>2, LenProperties
<1>4. ASSUME NEW i \in DOMAIN Append(l, e) PROVE EntryDue(Append(l, e)[i], r, H)
  <2>1. CASE i \in 1..Len(l)
    <3>1. l[i].uid \in Tasks /\ EntryDue(l[i], t, H)
      BY <1>1, <2>1, LogEntry, EventOf DEF StoreDue
    <3> QED
      BY <1>2, <2>1, <3>1 DEF EntryDue
  <2>2. CASE i = Len(l) + 1
    BY <1>2, <2>2
  <2> QED
    BY <1>1, <1>3, <2>1, <2>2
<1> QED
  BY <1>4 DEF StoreDue

LEMMA LocalWriteDue ==
    ASSUME RegistryInv, DueInv, NEW c \in Clients, NEW w \in Work, LocalWrite(c, w)
    PROVE  DueInv'
<1>0. /\ RegistryTypeOK /\ LogOK(c, log[c], at[c], hub) /\ TreeOf(at[c])
      /\ at = [at EXCEPT ![c] = at[c]] /\ push = [push EXCEPT ![c] = push[c]]
      /\ StoreDue(at[c], log[c], push[c], hub)
  BY OfClient DEF DueInv
<1>1. w.uid \in Tasks /\ w.to \in Tasks \cup {NULL}
      /\ (w.op \notin {"create", "link"} => w.to = NULL) /\ (w.op = "create" => w.id = w.uid)
  BY NumberRegistryAssumption
<1>2. \A i \in DOMAIN log[c] : log[c][i].id # w.id
  BY IdsAre DEF LocalWrite
<1>3. PICK num, ref : Emit(c, w, num, ref) /\
        \/ Create(c, w) /\ at' = [at EXCEPT ![c][w.uid] = num]
        \/ /\ Change(c, w) /\ at' = at /\ num = at[c][w.uid]
           /\ ref = IF w.to = NULL THEN Root ELSE at[c][w.to]
  BY DEF LocalWrite, Create, Change
<1> DEFINE e == [id |-> w.id, op |-> w.op, uid |-> w.uid, num |-> num,
                 to |-> w.to, ref |-> ref, status |-> "pending"]
<1>4. log' = [log EXCEPT ![c] = Append(log[c], e)]
  BY <1>3 DEF Emit
<1>5. push' = [push EXCEPT ![c] = push[c]] /\ hub' = hub /\ held' = held
  BY <1>0 DEF LocalWrite
<1>6. e \in Entry
  <2>1. RegistryInv'
    BY CreateKeeps, ChangeKeeps DEF LocalWrite
  <2>2. log'[c] \in Seq(Entry)
    BY <2>1 DEF RegistryInv, RegistryTypeOK
  <2>3. log'[c] = Append(log[c], e)
    BY <1>0, <1>4 DEF RegistryTypeOK
  <2>4. log[c] \in Seq(Entry) /\ Len(log[c]) \in Nat
    BY <1>0, LenProperties DEF LogOK
  <2> HIDE DEF e
  <2>5. Len(Append(log[c], e)) = Len(log[c]) + 1 /\ Append(log[c], e)[Len(log[c]) + 1] = e
    BY <2>4, AppendProperties
  <2> DEFINE S == Entry
             s == Append(log[c], e)
  <2>6. s \in Seq(S) /\ Len(s) = Len(log[c]) + 1 /\ s[Len(log[c]) + 1] = e
    BY <2>2, <2>3, <2>5
  <2> HIDE DEF S, s
  <2>7. s[Len(log[c]) + 1] \in S
    BY <2>4, <2>6, ElementOfSeq
  <2> QED
    BY <2>6, <2>7 DEF S
<1>7. CASE Create(c, w) /\ at' = [at EXCEPT ![c][w.uid] = num]
  <2> DEFINE r == [at[c] EXCEPT ![w.uid] = num]
  <2>1. at' = [at EXCEPT ![c] = r]
    BY <1>7
  <2>2. w.op = "create" /\ at[c][w.uid] = NULL
    <3>1. w.op = "create"
      BY <1>7 DEF Create
    <3> QED
      BY <1>0, <1>1, <1>2, <3>1 DEF LogOK
  <2>3. \A u \in Tasks : at[c][u] # NULL => r[u] = at[c][u]
    BY <1>0, <2>2 DEF TreeOf
  <2>4. EntryDue(e, r, hub)
    BY <2>2 DEF EntryDue
  <2> HIDE DEF e, r
  <2>5. StoreDue(r, Append(log[c], e), push[c], hub)
    BY <1>0, <1>6, <2>3, <2>4, AppendDue
  <2> QED
    BY <1>4, <1>5, <2>1, <2>5, OneStoreDue
<1>8. CASE /\ Change(c, w) /\ at' = at /\ num = at[c][w.uid]
           /\ ref = IF w.to = NULL THEN Root ELSE at[c][w.to]
  <2>1. w.op # "create" /\ at[c][w.uid] # NULL
    BY <1>8 DEF Change
  <2>2. EntryDue(e, at[c], hub)
    BY <1>1, <1>8, <2>1 DEF EntryDue
  <2> HIDE DEF e
  <2>3. StoreDue(at[c], Append(log[c], e), push[c], hub)
    BY <1>0, <1>6, <2>2, AppendDue
  <2>4. at' = [at EXCEPT ![c] = at[c]]
    BY <1>0, <1>8
  <2> QED
    BY <1>4, <1>5, <2>3, <2>4, OneStoreDue
<1> QED
  BY <1>3, <1>7, <1>8

LEMMA ApplyDue ==
    ASSUME RegistryInv, DueInv, NEW c \in Clients, NEW h \in hub, Apply(c, h)
    PROVE  DueInv'
<1> DEFINE e == Applied(h)
<1>0. /\ RegistryTypeOK /\ LogOK(c, log[c], at[c], hub) /\ TreeOf(at[c]) /\ hub \subseteq HubEvent
      /\ at = [at EXCEPT ![c] = at[c]] /\ push = [push EXCEPT ![c] = push[c]]
      /\ StoreDue(at[c], log[c], push[c], hub)
  BY OfClient DEF DueInv
<1>1. e \in Entry /\ h.uid \in Tasks
  BY <1>0, AppliedEntry, EntryEvent, EventOf
<1>2. \A r : EntryDue(e, r, hub)
  BY DEF EntryDue, Applied
<1>3. /\ log' = [log EXCEPT ![c] = Append(log[c], e)]
      /\ push' = [push EXCEPT ![c] = push[c]] /\ hub' = hub /\ held' = held
  BY <1>0 DEF Apply, Mirror, Applied
<1>4. at' = at \/ (at[c][h.uid] = NULL /\ at' = [at EXCEPT ![c][h.uid] = h.num])
  BY DEF Apply, ApplyCreate, CreateApplies, ApplyChange
<1> HIDE DEF e
<1>5. CASE at' = at
  <2>1. StoreDue(at[c], Append(log[c], e), push[c], hub)
    BY <1>0, <1>1, <1>2, AppendDue
  <2>2. at' = [at EXCEPT ![c] = at[c]]
    BY <1>0, <1>5
  <2> QED
    BY <1>3, <2>1, <2>2, OneStoreDue
<1>6. CASE at[c][h.uid] = NULL /\ at' = [at EXCEPT ![c][h.uid] = h.num]
  <2> DEFINE r == [at[c] EXCEPT ![h.uid] = h.num]
  <2>1. at' = [at EXCEPT ![c] = r]
    BY <1>6
  <2>2. \A u \in Tasks : at[c][u] # NULL => r[u] = at[c][u]
    BY <1>0, <1>6 DEF TreeOf
  <2> HIDE DEF r
  <2>3. StoreDue(r, Append(log[c], e), push[c], hub)
    BY <1>0, <1>1, <1>2, <2>2, AppendDue
  <2> QED
    BY <1>3, <2>1, <2>3, OneStoreDue
<1> QED
  BY <1>4, <1>5, <1>6

\* A step of a push that changes nothing but its own state.
LEMMA PushAloneDue ==
    ASSUME RegistryInv, DueInv, NEW c \in Clients, NEW p, push' = [push EXCEPT ![c] = p],
           p.pc = "send" => \A i \in DOMAIN p.batch : ChangeOK(p.batch[i], hub),
           p.result.mismatched = {},
           at' = at, log' = log, hub' = hub, held' = held
    PROVE  DueInv'
<1>1. at = [at EXCEPT ![c] = at[c]] /\ log = [log EXCEPT ![c] = log[c]]
  BY OfClient
<1>2. StoreDue(at[c], log[c], p, hub)
  BY DEF DueInv, StoreDue
<1>3. at' = [at EXCEPT ![c] = at[c]] /\ log' = [log EXCEPT ![c] = log[c]]
  BY <1>1
<1> QED
  BY <1>2, <1>3, OneStoreDue

LEMMA IdleIsDue == Idle.pc = "idle" /\ Idle.result.mismatched = {} /\ NoResult.mismatched = {}
BY DEF Idle, NoResult

LEMMA StartPushDue ==
    ASSUME RegistryInv, DueInv, NEW c \in Clients, StartPush(c)
    PROVE  DueInv'
<1> DEFINE p == [push[c] EXCEPT !.pc = "read"]
<1>1. push[c] \in PushState /\ push[c].result.mismatched = {}
  BY OfClient DEF DueInv, StoreDue
<1>2. p.pc = "read" /\ p.result.mismatched = {}
  BY <1>1, PushStateIs
<1>3. push' = [push EXCEPT ![c] = p]
  BY DEF StartPush
<1> HIDE DEF p
<1> QED
  BY <1>2, <1>3, PushAloneDue DEF StartPush

LEMMA NothingLeftDue ==
    ASSUME RegistryInv, DueInv, NEW c \in Clients, NothingLeft(c)
    PROVE  DueInv'
<1>1. /\ push[c] \in PushState /\ push[c].pc = "read" /\ push \in [Clients -> PushState]
      /\ push[c].result.mismatched = {}
  BY OfClient DEF NothingLeft, RegistryTypeOK, DueInv, StoreDue
<1>2. PICK p : p.pc \in {"idle", "read"} /\ p.result.mismatched = {} /\ push' = [push EXCEPT ![c] = p]
  <2>1. CASE push[c].redo # NULL /\ push[c].progressed
    <3> DEFINE p == [push[c] EXCEPT !.cursor = push[c].redo, !.redo = NULL, !.progressed = FALSE]
    <3>1. push' = [push EXCEPT ![c] = p]
      BY <2>1, <1>1 DEF NothingLeft
    <3>2. p.pc = "read" /\ p.result.mismatched = {}
      BY <1>1, PushStateIs
    <3> QED
      BY <3>1, <3>2
  <2>2. CASE ~(push[c].redo # NULL /\ push[c].progressed)
    <3>1. push' = [push EXCEPT ![c] = Idle]
      BY <2>2 DEF NothingLeft
    <3> QED
      BY <3>1, IdleIsDue
  <2> QED
    BY <2>1, <2>2
<1> QED
  BY <1>2, PushAloneDue DEF NothingLeft

LEMMA CrashDue ==
    ASSUME RegistryInv, DueInv, NEW c \in Clients, Crash(c)
    PROVE  DueInv'
BY IdleIsDue, PushAloneDue DEF Crash

\* Nothing is held, so nothing is held back; an edit or a link is sent when its
\* task has its number from the hub.
LEMMA ReadBatchDue ==
    ASSUME RegistryInv, DueInv, NEW c \in Clients, ReadBatch(c)
    PROVE  DueInv'
<1> DEFINE q == push[c]
           l == log[c]
           t == at[c]
           read == BatchFrom(c, q.cursor)
           holds == {i \in read : HeldWith(c, i)}
           deferred == {i \in read \ holds : Awaits(c, l[i])}
           send == read \ (holds \cup deferred)
           top == CHOOSE i \in read : \A j \in read : j <= i
           p == [q EXCEPT !.pc = IF send = {} THEN "read" ELSE "send", !.cursor = top,
                          !.redo = Note(q, deferred), !.batch = [i \in send |-> l[i]]]
<1>0. q \in PushState /\ TreeOf(t) /\ LogOK(c, l, t, hub) /\ StoreDue(t, l, q, hub)
  BY OfClient DEF DueInv
<1>1. push' = [push EXCEPT ![c] = p]
  BY DEF ReadBatch
<1>2. held' = held
  <2>1. held = [d \in Clients |-> {}]
    BY DEF DueInv
  <2>2. HeldCreations(c) = {}
    BY <2>1 DEF HeldCreations
  <2>3. holds = {}
    BY <2>2 DEF HeldWith
  <2>4. held' = [held EXCEPT ![c] = @ \cup {l[i].id : i \in holds}]
    BY DEF ReadBatch
  <2> HIDE DEF holds
  <2> QED
    BY <2>1, <2>3, <2>4
<1>3. read \subseteq DOMAIN l /\ \A i \in read : l[i].status = "pending"
  BY DEF BatchFrom
<1>4. send \subseteq read /\ \A i \in send : ~Awaits(c, l[i])
  OBVIOUS
<1> HIDE DEF read, deferred, send, top
<1> DEFINE batch == [i \in send |-> l[i]]
<1>5. p.batch = batch /\ p.result = q.result
  <2> HIDE DEF batch
  <2>1. p = [q EXCEPT !.pc = IF send = {} THEN "read" ELSE "send", !.cursor = top,
                      !.redo = Note(q, deferred), !.batch = batch]
    BY DEF batch
  <2> HIDE DEF p, q
  <2> QED
    BY <1>0, <2>1, PushStateIs
<1> HIDE DEF p
<1>6. ASSUME NEW i \in send PROVE ChangeOK(l[i], hub)
  <2> DEFINE e == l[i]
  <2>0. i \in DOMAIN l /\ e.status = "pending" /\ ~Awaits(c, e)
    BY <1>3, <1>4, <1>6
  <2>1. Event(e) /\ EntryDue(e, t, hub)
    BY <1>0, <2>0, LogEntry DEF StoreDue
  <2>2. e.uid \in Tasks
    BY <2>1, EventOf
  <2> HIDE DEF e
  <2>3. ASSUME e.op # "create" PROVE GrantIn(hub, e.uid, e.num) /\ (e.op # "link" => e.ref = Root)
    <3>1. t[e.uid] # NULL /\ t[e.uid] = e.num /\ (e.op # "link" => e.ref = Root)
      BY <2>0, <2>1, <2>3 DEF EntryDue
    <3>2. ~PendingNumber(c, t[e.uid])
      BY <2>0, <2>3 DEF Awaits
    <3>3. IsPrefix(t[e.uid], t[e.uid])
      BY <1>0, <2>2, <3>1, StorePaths, PrefixReflexive
    <3>4. GrantIn(hub, e.uid, t[e.uid])
      BY <1>0, <2>2, <3>1, <3>2, <3>3, NotPendingNumber
    <3> QED
      BY <3>1, <3>4
  <2> QED
    BY <2>3 DEF ChangeOK, e
<1>7. p.pc = "send" => \A i \in DOMAIN p.batch : ChangeOK(p.batch[i], hub)
  <2>1. DOMAIN batch = send /\ \A i \in send : batch[i] = l[i]
    OBVIOUS
  <2> HIDE DEF batch
  <2> QED
    BY <1>5, <1>6, <2>1
<1>8. p.result.mismatched = {}
  BY <1>0, <1>5 DEF StoreDue
<1> QED
  BY <1>1, <1>2, <1>7, <1>8, PushAloneDue DEF ReadBatch

\* What is said of a store beside the hub stays true when the hub grows.
LEMMA DueStays ==
    ASSUME NEW H, NEW G, H \subseteq G
    PROVE  /\ \A e : ChangeOK(e, H) => ChangeOK(e, G)
           /\ \A t, l, p : StoreDue(t, l, p, H) => StoreDue(t, l, p, G)
<1>1. \A u, num : GrantIn(H, u, num) => GrantIn(G, u, num)
  BY GrantsStay
<1>2. \A e : ChangeOK(e, H) => ChangeOK(e, G)
  BY <1>1 DEF ChangeOK
<1>3. \A e, t : EntryDue(e, t, H) => EntryDue(e, t, G)
  BY DEF EntryDue
<1> QED
  BY <1>2, <1>3 DEF StoreDue

\* An event that is sent again is the one the hub has.
LEMMA NothingMismatches ==
    ASSUME RegistryInv, DueInv, NEW c \in Clients, push[c].pc = "send",
           NEW i \in DOMAIN push[c].batch
    PROVE  Outcome(push[c].batch[i]) # "mismatch"
<1> DEFINE b == push[c].batch[i]
           e == log[c][i]
           t == at[c]
<1>0. /\ HubOK(hub) /\ hub \subseteq HubEvent /\ StoreOK(c, t, log[c], push[c], hub)
      /\ LogOK(c, log[c], t, hub) /\ StoreDue(t, log[c], push[c], hub)
  BY OfClient DEF DueInv
<1>1. i \in DOMAIN log[c] /\ SentOK(b, e, t, hub) /\ ChangeOK(b, hub)
  BY <1>0 DEF StoreOK, BatchOK, StoreDue
<1>2. Event(e) /\ EntryOK(e, t, hub) /\ Event(b) /\ b.id = e.id /\ e.status = "pending"
  BY <1>0, <1>1, LogEntry, EntryEvent DEF SentOK
<1> HIDE DEF b, e
<1>3. b.op = e.op /\ b.uid = e.uid
  BY <1>2, SameEvent
<1>4. ASSUME NEW h \in hub, h.id = b.id PROVE h.num = b.num /\ h.ref = b.ref
  <2>1. h.op = b.op /\ h.uid = b.uid /\ h.to = b.to
    BY <1>0, <1>2, <1>4, EntryEvent, SameEvent
  <2>2. CASE b.op = "create"
    <3>1. GrantIn(hub, b.id, h.num) /\ GrantedIn(hub, b.id) /\ h.ref = ParentOf(h.num)
      BY <1>0, <1>4, <2>1, <2>2 DEF GrantIn, GrantedIn, HubOK
    <3>2. b.num = e.num /\ b.ref = e.ref
      BY <1>1, <2>2, <3>1 DEF SentOK
    <3>3. GrantIn(hub, b.id, e.num) /\ e.ref = ParentOf(e.num)
      BY <1>2, <1>3, <2>2, <3>1 DEF EntryOK
    <3>4. h.num = e.num
      BY <1>0, <3>1, <3>3, GrantOnce
    <3> QED
      BY <3>1, <3>2, <3>3, <3>4
  <2>3. CASE b.op # "create"
    <3>1. ChangeOK(h, hub)
      BY DEF DueInv
    <3>2. GrantIn(hub, b.uid, h.num) /\ GrantIn(hub, b.uid, b.num)
      BY <1>1, <2>1, <2>3, <3>1 DEF ChangeOK
    <3>3. h.num = b.num
      BY <1>0, <3>2, GrantOnce
    <3>4. CASE b.op = "link"
      <4>1. GrantIn(hub, b.to, b.ref) /\ GrantIn(hub, b.to, h.ref)
        BY <1>0, <1>1, <2>1, <3>4 DEF SentOK, HubOK
      <4> QED
        BY <1>0, <3>3, <4>1, GrantOnce
    <3>5. CASE b.op # "link"
      BY <1>1, <2>1, <2>3, <3>1, <3>3, <3>5 DEF ChangeOK
    <3> QED
      BY <3>4, <3>5
  <2> QED
    BY <2>2, <2>3
<1>5. Outcome(b) # "mismatch"
  <2>1. CASE b.op = "create" /\ Holders(b) # {}
    BY <2>1 DEF Outcome
  <2>2. CASE ~(b.op = "create" /\ Holders(b) # {})
    <3>1. CASE b.id \notin {h.id : h \in hub}
      BY <2>2, <3>1 DEF Outcome
    <3>2. CASE b.id \in {h.id : h \in hub}
      <4>1. \E h \in hub : h.id = b.id /\ h.num = b.num /\ h.ref = b.ref
        BY <1>4, <3>2
      <4>2. Outcome(b) = "present"
        BY <2>2, <3>2, <4>1 DEF Outcome
      <4> QED
        BY <4>2
    <3> QED
      BY <3>1, <3>2
  <2> QED
    BY <2>1, <2>2
<1> QED
  BY <1>5 DEF b

LEMMA TransactionDue ==
    ASSUME RegistryInv, DueInv, NEW c \in Clients, push[c].pc = "send", HubTransaction(push[c].batch),
           NEW p, push' = [push EXCEPT ![c] = p],
           p.pc = "send" => p = push[c], p.result.mismatched = {},
           at' = at, log' = log, held' = held
    PROVE  DueInv'
<1> DEFINE G == hub \cup Inserted(c)
<1>0. push \in [Clients -> PushState]
  BY DEF RegistryInv, RegistryTypeOK
<1>1. hub' = G /\ hub \subseteq G
  BY DEF HubTransaction, Inserted
<1> HIDE DEF G
<1>2. /\ \A e : ChangeOK(e, hub) => ChangeOK(e, G)
      /\ \A t, l, q : StoreDue(t, l, q, hub) => StoreDue(t, l, q, G)
  BY <1>1, DueStays
<1>3. push'[c] = p /\ \A d \in Clients : d # c => push'[d] = push[d]
  BY <1>0
<1>4. ASSUME NEW d \in Clients PROVE StoreDue(at[d], log[d], push[d], hub)'
  <2>1. StoreDue(at[d], log[d], push[d], G)
    BY <1>2 DEF DueInv
  <2>2. CASE d = c
    <3>1. StoreDue(at[c], log[c], p, G)
      BY <2>1, <2>2 DEF StoreDue
    <3> QED
      BY <1>1, <1>3, <2>2, <3>1
  <2>3. CASE d # c
    BY <1>1, <1>3, <2>1, <2>3
  <2> QED
    BY <2>2, <2>3
<1>5. ASSUME NEW g \in G PROVE ChangeOK(g, G)
  <2>1. CASE g \in hub
    BY <1>2, <2>1 DEF DueInv
  <2>2. CASE g \in Inserted(c)
    <3>1. PICK i \in DOMAIN push[c].batch : g = Stamped(push[c].batch[i])
      BY <2>2 DEF Inserted, Range
    <3> DEFINE b == push[c].batch[i]
    <3>2. ChangeOK(b, G)
      BY <1>2 DEF DueInv, StoreDue
    <3> HIDE DEF b
    <3>3. g = Stamped(b)
      BY <3>1 DEF b
    <3> QED
      BY <3>2, <3>3 DEF ChangeOK, Stamped
  <2> QED
    BY <2>1, <2>2 DEF G
<1>6. held' = [d \in Clients |-> {}]
  BY DEF DueInv
<1> QED
  BY <1>1, <1>4, <1>5, <1>6 DEF DueInv

LEMMA SendDue ==
    ASSUME RegistryInv, DueInv, NEW c \in Clients, Send(c)
    PROVE  DueInv'
<1> DEFINE q == push[c]
           batch == q.batch
           Of(outcomes) == {e.id : e \in {x \in Range(batch) : Outcome(x) \in outcomes}}
           r == [accepted |-> Of({"insert", "present"}), mismatched |-> Of({"mismatch"}),
                 blocked |-> Of({"blocked"}),
                 renumbers |-> {i \in DOMAIN batch : Outcome(batch[i]) = "renumber"}]
           p == [q EXCEPT !.pc = "mark", !.result = r]
<1>0. q \in PushState /\ q.pc = "send" /\ push \in [Clients -> PushState]
  BY OfClient DEF Send, RegistryTypeOK
<1>1. push' = [push EXCEPT ![c] = p]
  BY <1>0 DEF Send
<1>2. Of({"mismatch"}) = {}
  BY <1>0, NothingMismatches DEF Range
<1>3. r.mismatched = {}
  BY <1>2
<1> HIDE DEF r
<1>4. p.pc = "mark" /\ p.result = r
  BY <1>0, PushStateIs
<1> HIDE DEF p
<1> QED
  BY <1>0, <1>1, <1>3, <1>4, TransactionDue DEF Send

LEMMA SendUnacknowledgedDue ==
    ASSUME RegistryInv, DueInv, NEW c \in Clients, SendUnacknowledged(c)
    PROVE  DueInv'
<1>1. push[c].pc = "send" /\ push = [push EXCEPT ![c] = push[c]] /\ push[c].result.mismatched = {}
  BY OfClient DEF SendUnacknowledged, DueInv, StoreDue
<1>2. push' = [push EXCEPT ![c] = push[c]]
  BY <1>1 DEF SendUnacknowledged
<1> QED
  BY <1>1, <1>2, TransactionDue DEF SendUnacknowledged

LEMMA AfterBatchDue ==
    ASSUME NEW p \in PushState, NEW r
    PROVE  AfterBatch(p, r).result.mismatched = {}
<1>1. Idle.result.mismatched = {} /\ Idle \in PushState /\ NoResult.mismatched = {}
  BY IdleIsDue, IdleIs
<1>2. CASE r.renumbers # {}
  <2>1. [Idle EXCEPT !.pc = "read", !.progressed = TRUE].result = Idle.result
    BY <1>1, PushStateIs
  <2> QED
    BY <1>1, <1>2, <2>1 DEF AfterBatch
<1>3. CASE ~(r.renumbers # {}) /\ r.accepted \cup r.mismatched = {}
  BY <1>1, <1>3 DEF AfterBatch
<1>4. CASE ~(r.renumbers # {}) /\ ~(r.accepted \cup r.mismatched = {})
  <2>1. [p EXCEPT !.pc = "read", !.progressed = TRUE, !.batch = <<>>, !.result = NoResult].result = NoResult
    BY PushStateIs
  <2> QED
    BY <1>1, <1>4, <2>1 DEF AfterBatch
<1> QED
  BY <1>2, <1>3, <1>4

\* What is marked pushed is on the hub.
LEMMA MarkPushedDue ==
    ASSUME RegistryInv, DueInv, NEW c \in Clients, MarkPushed(c)
    PROVE  DueInv'
<1> DEFINE q == push[c]
           l == log[c]
           t == at[c]
           m == [i \in DOMAIN l |-> IF l[i].id \in Acknowledged(q)
                                    THEN [l[i] EXCEPT !.status = "pushed"] ELSE l[i]]
           p == IF q.result.renumbers # {} THEN [q EXCEPT !.pc = "renumber", !.batch = <<>>]
                ELSE AfterBatch(q, q.result)
<1>0. /\ q \in PushState /\ StoreOK(c, t, l, q, hub) /\ LogOK(c, l, t, hub)
      /\ at = [at EXCEPT ![c] = at[c]] /\ StoreDue(t, l, q, hub)
  BY OfClient DEF DueInv
<1>1. q.pc = "mark" /\ log' = [log EXCEPT ![c] = m] /\ push' = [push EXCEPT ![c] = p]
  BY DEF MarkPushed
<1>2. \A id \in q.result.accepted : \E h \in hub : h.id = id
  BY <1>0, <1>1 DEF StoreOK, ResultOK
<1>3. q.result.mismatched = {}
  BY <1>0 DEF StoreDue
<1>4. held' = held
  <2>1. held = [d \in Clients |-> {}]
    BY DEF DueInv
  <2>2. held' = [held EXCEPT ![c] = @ \cup q.result.mismatched]
    BY DEF MarkPushed
  <2> QED
    BY <1>3, <2>1, <2>2
<1>5. p.pc # "send" /\ p.result.mismatched = {}
  <2>1. CASE q.result.renumbers # {}
    <3> DEFINE s == [q EXCEPT !.pc = "renumber", !.batch = <<>>]
    <3>1. s.pc = "renumber" /\ s.result = q.result
      BY <1>0, PushStateIs
    <3>2. p = s
      BY <2>1
    <3> HIDE DEF p, s
    <3> QED
      BY <1>3, <3>1, <3>2
  <2>2. CASE ~(q.result.renumbers # {})
    <3>1. p = AfterBatch(q, q.result)
      BY <2>2
    <3> HIDE DEF p
    <3> QED
      BY <1>0, <3>1, AfterBatchIs, AfterBatchDue
  <2> QED
    BY <2>1, <2>2
<1> HIDE DEF p
<1>6. ASSUME NEW i \in DOMAIN l PROVE EntryDue(m[i], t, hub)
  <2>1. l[i] \in Entry /\ EntryDue(l[i], t, hub)
    BY <1>0, LogEntry DEF StoreDue
  <2>2. CASE l[i].id \in Acknowledged(q)
    <3> DEFINE f == [l[i] EXCEPT !.status = "pushed"]
    <3>1. f.id = l[i].id /\ f.status = "pushed"
      BY <2>1 DEF Entry
    <3>2. m[i] = f
      BY <2>2
    <3>3. \E h \in hub : h.id = l[i].id
      BY <1>2, <2>2 DEF Acknowledged
    <3> HIDE DEF f, m
    <3> QED
      BY <3>1, <3>2, <3>3 DEF EntryDue
  <2>3. CASE l[i].id \notin Acknowledged(q)
    <3>1. m[i] = l[i]
      BY <2>3
    <3> QED
      BY <2>1, <3>1
  <2> QED
    BY <2>2, <2>3
<1>7. StoreDue(t, m, p, hub)
  <2>1. DOMAIN m = DOMAIN l
    OBVIOUS
  <2> HIDE DEF m, l
  <2> QED
    BY <1>5, <1>6, <2>1 DEF StoreDue
<1>8. at' = [at EXCEPT ![c] = t] /\ hub' = hub
  BY <1>0 DEF MarkPushed
<1> HIDE DEF m, t, l
<1> QED
  BY <1>1, <1>4, <1>7, <1>8, OneStoreDue

\* The pending edits and links of what moves take the new numbers.
LEMMA RenumberDue ==
    ASSUME RegistryInv, DueInv, NEW c \in Clients, NEW u \in Tasks, Renumber(c, u), ~GrantedIn(hub, u),
           NEW p, push' = [push EXCEPT ![c] = p],
           p.pc = "send" => \A i \in DOMAIN p.batch : ChangeOK(p.batch[i], hub),
           p.result.mismatched = {}, hub' = hub, held' = held
    PROVE  DueInv'
<1> DEFINE t == at[c]
           old == t[u]
           new == NewNumber(c, u)
           r == NumbersAfter(c, u)
           l == log[c]
           m == LogAfter(c, u)
<1>0. LogOK(c, l, t, hub) /\ StoreDue(t, l, push[c], hub)
  BY OfClient DEF DueInv
<1>1. old # NULL /\ NextSequence(c, ParentOf(old)) <= MaxNumber
  BY DEF Renumber
<1>2. at' = [at EXCEPT ![c] = r] /\ log' = [log EXCEPT ![c] = m]
  BY DEF Renumber, NumbersAfter, NewNumber, LogAfter
<1>3. \A x \in Tasks : t[x] # NULL => r[x] # NULL
  <2>1. Shifted(t, r, old, NextSequence(c, ParentOf(old)))
    BY <1>1, RenumberShifts
  <2> HIDE DEF t, r, old
  <2> QED
    BY <2>1 DEF Shifted
<1>4. ASSUME NEW i \in DOMAIN l PROVE EntryDue(m[i], r, hub)
  <2> DEFINE e == l[i]
             f == Readdressed(c, u, old, new, e)
  <2>1. m[i] = f
    BY DEF LogAfter
  <2>2. f.id = e.id /\ f.op = e.op /\ f.uid = e.uid /\ f.status = e.status
    BY <1>1, ReaddressedEntry
  <2>3. e \in Entry /\ Event(e) /\ EntryDue(e, t, hub)
    BY <1>0, LogEntry DEF StoreDue
  <2>4. e.uid \in Tasks /\ (e.op # "create" => e.id # u)
    BY <2>3, EventOf
  <2>5. /\ f.num = IF e.id = u \/ (e.status = "pending" /\ e.uid \in Below(c, old))
                   THEN Rebase(t[e.uid], old, new) ELSE e.num
        /\ e.op \notin {"create", "link"} => f.ref = e.ref
    <3> HIDE DEF e, old, new, t
    <3> QED
      BY <2>3 DEF Readdressed, f, Entry, t
  <2> HIDE DEF e, f
  <2>6. ASSUME e.status = "pending", e.op # "create"
        PROVE  r[e.uid] # NULL /\ r[e.uid] = f.num /\ (e.op # "link" => f.ref = Root)
    <3>1. t[e.uid] # NULL /\ t[e.uid] = e.num /\ (e.op # "link" => e.ref = Root)
      BY <2>3, <2>6 DEF EntryDue
    <3>2. r[e.uid] = IF e.uid \in Below(c, old) THEN Rebase(t[e.uid], old, new) ELSE t[e.uid]
      BY <2>4 DEF NumbersAfter
    <3> HIDE DEF r, t, old, new
    <3> QED
      BY <1>3, <2>4, <2>5, <2>6, <3>1, <3>2
  <2> HIDE DEF r, t, m
  <2> QED
    BY <2>1, <2>2, <2>3, <2>6 DEF EntryDue
<1>5. StoreDue(r, m, p, hub)
  <2>1. DOMAIN m = DOMAIN l
    BY DEF LogAfter
  <2> HIDE DEF m, l, r
  <2> QED
    BY <1>4, <2>1 DEF StoreDue
<1> HIDE DEF r, m
<1> QED
  BY <1>2, <1>5, OneStoreDue

LEMMA RenumberRejectedDue ==
    ASSUME RegistryInv, DueInv, NEW c \in Clients, RenumberRejected(c)
    PROVE  DueInv'
<1> DEFINE q == push[c]
           R == q.result.renumbers
           next == CHOOSE i \in R : \A j \in R : i <= j
           rest == R \ {next}
           p == IF rest = {} THEN AfterBatch(q, q.result) ELSE [q EXCEPT !.result.renumbers = rest]
           u == log[c][next].uid
<1>0. /\ RegistryTypeOK /\ q \in PushState /\ StoreOK(c, at[c], log[c], q, hub)
      /\ LogOK(c, log[c], at[c], hub) /\ q.result.mismatched = {}
  BY OfClient DEF DueInv, StoreDue
<1>1. q.pc = "renumber" /\ push' = [push EXCEPT ![c] = p] /\ Renumber(c, u)
  BY DEF RenumberRejected
<1>2. R # {} /\ \A i \in R : i \in DOMAIN log[c] /\ log[c][i].op = "create" /\ ~GrantedIn(hub, log[c][i].id)
  BY <1>0, <1>1 DEF StoreOK, ResultOK
<1>3. R \in SUBSET Nat
  BY <1>0, PushStateIs DEF Results
<1>4. next \in R
  <2> HIDE DEF R
  <2>1. \E i \in R : \A j \in R : i <= j
    BY <1>2, <1>3, LeastOf
  <2> QED
    BY <2>1
<1> HIDE DEF next
<1>5. u \in Tasks /\ ~GrantedIn(hub, u)
  <2>1. next \in DOMAIN log[c] /\ log[c][next].op = "create" /\ ~GrantedIn(hub, log[c][next].id)
    BY <1>2, <1>4
  <2>2. Event(log[c][next])
    BY <1>0, <2>1, LogEntry
  <2> QED
    BY <2>1, <2>2, EventOf
<1>6. p.pc # "send" /\ p.result.mismatched = {}
  <2>1. CASE rest = {}
    <3>1. p = AfterBatch(q, q.result)
      BY <2>1
    <3> HIDE DEF p
    <3> QED
      BY <1>0, <3>1, AfterBatchIs, AfterBatchDue
  <2>2. CASE rest # {}
    <3> DEFINE s == [q.result EXCEPT !.renumbers = rest]
    <3>1. p = [q EXCEPT !.result = s]
      BY <2>2
    <3>2. q.result \in Results
      BY <1>0, PushStateIs
    <3>3. s.mismatched = q.result.mismatched
      <4> HIDE DEF rest
      <4> QED
        BY <3>2 DEF Results
    <3> HIDE DEF p, s
    <3>4. p.pc = q.pc /\ p.result = s
      BY <1>0, <3>1, PushStateIs
    <3> QED
      BY <1>0, <1>1, <3>3, <3>4
  <2> QED
    BY <2>1, <2>2
<1>7. hub' = hub /\ held' = held
  BY DEF RenumberRejected
<1> HIDE DEF p, u
<1> QED
  BY <1>1, <1>5, <1>6, <1>7, RenumberDue

LEMMA MoveLoserDue ==
    ASSUME RegistryInv, DueInv, NoneOverruled, NEW c \in Clients, NEW k \in collisions, MoveLoser(c, k)
    PROVE  DueInv'
<1> DEFINE u == k.incoming
<1>0. /\ push = [push EXCEPT ![c] = push[c]] /\ StoreDue(at[c], log[c], push[c], hub)
  BY OfClient DEF DueInv
<1>1. u \in Tasks /\ Renumber(c, u) /\ ~GrantedIn(hub, u)
  BY LoserIsUngranted
<1>2. push' = [push EXCEPT ![c] = push[c]] /\ hub' = hub /\ held' = held
  BY <1>0 DEF MoveLoser
<1>3. push[c].result.mismatched = {}
      /\ (push[c].pc = "send" => \A i \in DOMAIN push[c].batch : ChangeOK(push[c].batch[i], hub))
  BY <1>0 DEF StoreDue
<1> HIDE DEF u
<1> QED
  BY <1>1, <1>2, <1>3, RenumberDue

LEMMA StepKeepsDue ==
    ASSUME RegistryInv, DueInv, NoneOverruled, [Next]_vars
    PROVE  DueInv'
<1>1. ASSUME NEW c \in Clients, StartPush(c) \/ PushStep(c) \/ SendUnacknowledged(c) \/ Crash(c)
      PROVE  DueInv'
  BY <1>1, StartPushDue, NothingLeftDue, ReadBatchDue, SendDue, MarkPushedDue,
     RenumberRejectedDue, SendUnacknowledgedDue, CrashDue DEF PushStep
<1>2. CASE UNCHANGED <<at, log, held, push, hub>>
  <2>1. \A c \in Clients : StoreDue(at[c], log[c], push[c], hub)'
    BY <1>2 DEF DueInv
  <2> QED
    BY <1>2, <2>1 DEF DueInv
<1>3. ASSUME NEW c \in Clients, NEW k \in collisions,
             (\E winner \in {k.held, k.incoming} : AcceptCollision(c, k, winner)) \/ FinishCollision(c, k)
      PROVE  UNCHANGED <<at, log, held, push, hub>>
  BY <1>3 DEF AcceptCollision, FinishCollision
<1>4. MarkRestored \/ UNCHANGED vars => UNCHANGED <<at, log, held, push, hub>>
  BY DEF MarkRestored, vars
<1> QED
  BY <1>1, <1>2, <1>3, <1>4, LocalWriteDue, ApplyDue, MoveLoserDue DEF Next

LEMMA InitIsDue ==
    ASSUME Init
    PROVE  DueInv
<1>1. ASSUME NEW c \in Clients PROVE StoreDue(at[c], log[c], push[c], hub)
  <2>1. log[c] = <<>> /\ push[c] = Idle
    BY <1>1 DEF Init
  <2>2. DOMAIN <<>> = {}
    BY EmptySeq
  <2> QED
    BY <2>1, <2>2, IdleIsDue DEF StoreDue
<1> QED
  BY <1>1 DEF DueInv, Init

\* A store with nothing pending and nothing to apply.
Done(c) == ~SomethingToPush(c) /\ ~SomethingToApply(c)

LEMMA NothingPending ==
    ASSUME DueInv, NEW c \in Clients, ~SomethingToPush(c)
    PROVE  /\ \A i \in DOMAIN log[c] : log[c][i].status # "pending" /\ \E h \in hub : h.id = log[c][i].id
           /\ \A num : ~Refused(c, num)
<1>1. held[c] = {}
  BY DEF DueInv
<1>2. Pending(c) = {}
  BY <1>1 DEF SomethingToPush
<1>3. \A i \in DOMAIN log[c] : log[c][i].status # "pending"
  BY <1>2 DEF Pending, Entries
<1>4. Ungranted(c) = {}
  BY <1>2 DEF Ungranted
<1>5. \A i \in DOMAIN log[c] : \E h \in hub : h.id = log[c][i].id
  BY <1>3 DEF DueInv, StoreDue, EntryDue
<1> QED
  BY <1>3, <1>4, <1>5 DEF Refused, PendingNumber

\* A creation of the hub that such a store has is there at its number.
LEMMA GrantIsThere ==
    ASSUME RegistryInv, DueInv, NEW c \in Clients, ~SomethingToPush(c),
           NEW h \in hub, h.op = "create", h.id \in Ids(c)
    PROVE  h.uid = h.id /\ h.uid \in Tasks /\ at[c][h.uid] = h.num /\ at[c][h.uid] # NULL
<1>0. HubOK(hub) /\ hub \subseteq HubEvent /\ LogOK(c, log[c], at[c], hub)
  BY OfClient
<1>1. PICK i \in DOMAIN log[c] : log[c][i].id = h.id
  BY IdsAre
<1> DEFINE e == log[c][i]
<1>2. Event(e) /\ EntryOK(e, at[c], hub) /\ Event(h) /\ e.status # "pending"
  BY <1>0, LogEntry, EntryEvent, NothingPending
<1>3. e.id = h.id
  BY <1>1
<1> HIDE DEF e
<1>4. e.op = "create" /\ e.uid = h.uid /\ h.uid = h.id /\ h.uid \in Tasks
  BY <1>2, <1>3, SameEvent, EventOf
<1>5. at[c][h.uid] # NULL /\ GrantIn(hub, h.id, at[c][h.uid])
  BY <1>2, <1>3, <1>4 DEF EntryOK
<1>6. GrantIn(hub, h.id, h.num)
  BY DEF GrantIn
<1> QED
  BY <1>0, <1>4, <1>5, <1>6, GrantOnce

\* Such a store has every creation of the hub: the one it lacks of the least
\* depth would find its parent.
LEMMA HasCreations ==
    ASSUME RegistryInv, DueInv, NEW c \in Clients, Done(c)
    PROVE  \A h \in hub : h.op = "create" => h.id \in Ids(c)
<1> DEFINE missing == {h \in hub : h.op = "create" /\ h.id \notin Ids(c)}
           depths == {Len(h.num) : h \in missing}
<1> SUFFICES ASSUME missing # {} PROVE FALSE
  OBVIOUS
<1>0. /\ HubOK(hub) /\ hub \subseteq HubEvent /\ LogOK(c, log[c], at[c], hub)
      /\ ~SomethingToPush(c) /\ ~SomethingToApply(c)
  BY OfClient DEF Done
<1>1. \A h \in missing : IsNumber(h.num) /\ h.num \in Paths /\ Len(h.num) \in Nat /\ Len(h.num) >= 1
  <2> TAKE h \in missing
  <2>1. IsNumber(h.num)
    BY <1>0 DEF HubOK
  <2> HIDE DEF missing
  <2> QED
    BY <2>1, PathFacts DEF IsNumber
<1>2. PICK h \in missing : \A g \in missing : Len(h.num) <= Len(g.num)
  <2>1. depths \in SUBSET Nat /\ depths # {}
    BY <1>1
  <2> HIDE DEF depths
  <2>2. PICK k \in depths : \A j \in depths : k <= j
    BY <2>1, LeastOf
  <2> QED
    BY <2>2 DEF depths
<1>3. h \in hub /\ h.op = "create" /\ h.id \notin Ids(c) /\ h.ref = ParentOf(h.num)
      /\ (IF h.to = NULL THEN Len(h.num) = 1 ELSE GrantIn(hub, h.to, h.ref))
  BY <1>0, <1>2 DEF HubOK
<1>4. Event(h) /\ h.uid = h.id /\ h.uid \in Tasks
  BY <1>0, <1>3, EntryEvent, EventOf
<1>5. at[c][h.uid] = NULL
  BY <1>0, <1>3, <1>4, IdsAre DEF LogOK
<1>6. h.ref \in Paths /\ Len(h.ref) = Len(h.num) - 1
  BY <1>1, <1>2, <1>3, ParentPath
<1>7. h.ref # Root => TaskAt(c, h.ref) # {}
  <2>1. CASE h.to = NULL
    <3>1. Len(h.ref) = 0
      BY <1>3, <1>6, <2>1
    <3> QED
      BY <1>6, <3>1, EmptySeq DEF Root, Paths
  <2>2. CASE h.to # NULL
    <3>1. PICK g \in hub : g.op = "create" /\ g.id = h.to /\ g.num = h.ref
      BY <1>3, <2>2 DEF GrantIn
    <3>2. g \notin missing
      BY <1>1, <1>2, <1>6, <3>1
    <3>3. g.id \in Ids(c)
      BY <3>1, <3>2
    <3>4. g.uid \in Tasks /\ at[c][g.uid] = h.ref
      BY <1>0, <3>1, <3>3, GrantIsThere
    <3> QED
      BY <3>4 DEF TaskAt
  <2> QED
    BY <2>1, <2>2
<1>8. CreateApplies(c, h)
  BY <1>0, <1>5, <1>7, NothingPending DEF CreateApplies
<1> QED
  BY <1>0, <1>3, <1>8 DEF SomethingToApply

\* And every edit and link, whose tasks are then there.
LEMMA HasEvents ==
    ASSUME RegistryInv, DueInv, NEW c \in Clients, Done(c), NEW h \in hub
    PROVE  h.id \in Ids(c)
<1>0. /\ HubOK(hub) /\ hub \subseteq HubEvent /\ ~SomethingToPush(c) /\ ~SomethingToApply(c)
  BY OfClient DEF Done
<1>1. ASSUME NEW u, NEW num, GrantIn(hub, u, num)
      PROVE  u \in Tasks /\ at[c][u] = num /\ at[c][u] # NULL
  BY <1>0, <1>1, HasCreations, GrantIsThere DEF GrantIn
<1> SUFFICES ASSUME h.id \notin Ids(c) PROVE FALSE
  OBVIOUS
<1>2. h.op # "create"
  BY HasCreations
<1>3. GrantIn(hub, h.uid, h.num)
  BY <1>2 DEF DueInv, ChangeOK
<1>4. at[c][h.uid] # NULL
  BY <1>1, <1>3
<1>5. h.op = "link" => TaskAt(c, h.ref) # {}
  <2> SUFFICES ASSUME h.op = "link" PROVE TaskAt(c, h.ref) # {}
    OBVIOUS
  <2>1. GrantIn(hub, h.to, h.ref)
    BY <1>0 DEF HubOK
  <2> QED
    BY <1>1, <2>1 DEF TaskAt
<1>6. ChangeApplies(c, h)
  BY <1>0, <1>4, <1>5, NothingPending DEF ChangeApplies
<1> QED
  BY <1>0, <1>2, <1>6 DEF SomethingToApply

LEMMA QuietIsComplete ==
    ASSUME RegistryInv, DueInv, \A c \in Clients : Done(c)
    PROVE  \A c, d \in Clients : \A e \in Entries(c) :
              /\ e.id \in {h.id : h \in hub} \cap Ids(d)
              /\ at[d][e.uid] = GrantOf(e.uid)
<1> TAKE c, d \in Clients
<1> TAKE e \in Entries(c)
<1>0. /\ HubOK(hub) /\ hub \subseteq HubEvent /\ LogOK(c, log[c], at[c], hub) /\ Done(c) /\ Done(d)
  BY OfClient
<1>1. PICK i \in DOMAIN log[c] : e = log[c][i]
  BY DEF Entries
<1>2. PICK h \in hub : h.id = e.id
  BY <1>0, <1>1, NothingPending DEF Done
<1>3. h.id \in Ids(d)
  BY <1>0, HasEvents
<1>4. Event(e) /\ Event(h)
  BY <1>0, <1>1, LogEntry, EntryEvent
<1>5. e.uid = h.uid /\ e.op = h.op
  BY <1>2, <1>4, SameEvent
<1>6. PICK g \in hub : g.op = "create" /\ g.id = e.uid
  <2>1. CASE h.op = "create"
    BY <1>4, <1>5, <2>1, EventOf
  <2>2. CASE h.op # "create"
    BY <1>5, <2>2 DEF DueInv, ChangeOK, GrantIn
  <2> QED
    BY <2>1, <2>2
<1>7. at[d][e.uid] = g.num
  BY <1>0, <1>6, HasCreations, GrantIsThere DEF Done
<1>8. GrantOf(e.uid) = g.num
  <2>1. \A x \in hub : x.op = "create" /\ x.id = e.uid => x = g
    BY <1>0, <1>6 DEF HubOK
  <2> QED
    BY <1>6, <2>1 DEF GrantOf
<1> QED
  BY <1>2, <1>3, <1>7, <1>8

\* What the hub has and what the stores still owe it agree under every step, as
\* long as no granted task was overruled: nothing is ever held back, and what
\* is not pending is on the hub.
THEOREM DueInvariant == Spec => [](NoneOverruled => DueInv)
<1> DEFINE QuietInv == NumbersInv /\ (NoneOverruled => DueInv)
<1>1. Init => QuietInv
  BY InitIsRegistry, InitIsDue DEF NumbersInv
<1>2. ASSUME NumbersInv, NumbersInv', NoneOverruled => DueInv, [Next]_vars
      PROVE  (NoneOverruled => DueInv)'
  <2> SUFFICES ASSUME NoneOverruled' PROVE DueInv'
    OBVIOUS
  <2>1. NoneOverruled
    BY <1>2, NoneOverruledBefore DEF NumbersInv
  <2> QED
    BY <1>2, <2>1, StepKeepsDue DEF NumbersInv
<1> QED
  BY <1>1, <1>2, RegistryInvariant, PTL DEF Spec

\* When no push and no pull has anything left to do, every event of every store
\* is on the hub and in every other store, and every task has one number.
THEOREM QuietMeansCompleteHolds == Spec => []QuietMeansComplete
<1>1. NumbersInv /\ (NoneOverruled => DueInv) => QuietMeansComplete
  BY QuietIsComplete DEF NumbersInv, QuietMeansComplete, Done
<1> QED
  BY <1>1, RegistryInvariant, DueInvariant, PTL

-----------------------------------------------------------------------------
(* A hub that was never restored.                                          *)

\* Every creation on the hub is of the present epoch.
NeverRestored ==
    /\ collisions = {} /\ epoch = 0
    /\ \A h \in hub : h.epoch = 0

LEMMA TransactionOfOneEpoch ==
    ASSUME NeverRestored, NEW b, HubTransaction(b), epoch' = epoch
    PROVE  NeverRestored'
<1>1. \A e : \A h \in Holders(e) : ~(h.epoch < epoch)
  BY DEF Holders, NeverRestored
<1>2. \A e : Outcome(e) # "blocked"
  BY <1>1 DEF Outcome
<1>3. collisions' = {}
  BY <1>2 DEF HubTransaction, NeverRestored
<1>4. \A h \in hub' : h.epoch = 0
  BY DEF HubTransaction, NeverRestored, Stamped
<1> QED
  BY <1>3, <1>4 DEF NeverRestored

\* Where no restore is announced there are no collisions to decide, and both
\* hold without a condition.
THEOREM NumbersAgreeUnrestored ==
    ASSUME MaxRestores = 0
    PROVE  Spec => [](NumbersAgree /\ NoneOverruled)
<1>1. Init => NeverRestored
  BY DEF Init, NeverRestored
<1>2. ASSUME NeverRestored, [Next]_vars PROVE NeverRestored'
  <2>1. ~MarkRestored
    BY <1>2 DEF MarkRestored, NeverRestored
  <2>2. CASE UNCHANGED <<hub, epoch, collisions>>
    BY <1>2, <2>2 DEF NeverRestored
  <2>3. CASE \E c \in Clients : Send(c) \/ SendUnacknowledged(c)
    BY <1>2, <2>3, TransactionOfOneEpoch DEF Send, SendUnacknowledged
  <2> QED
    BY <1>2, <2>1, <2>2, <2>3 DEF Next, NeverRestored, vars, LocalWrite, StartPush, PushStep,
       NothingLeft, ReadBatch, MarkPushed, RenumberRejected, Crash, Apply
<1>3. NeverRestored => NoneOverruled
  BY DEF NeverRestored, NoneOverruled
<1> QED
  BY <1>1, <1>2, <1>3, NumbersAgreeHolds, PTL DEF Spec
=============================================================================
