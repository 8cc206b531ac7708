------------------------- MODULE RelayStreamProofs -------------------------
(* What the file relay keeps, for any journal, batch, segment size, key and  *)
(* number of faults, as long as one process at a time publishes.             *)
EXTENDS RelayStream, TLAPS, NaturalsInduction, WellFoundedInduction

\* The segment writer's own premise: one publish pass of a host at a time.
OneWriter == \A p, q \in Procs : p = q

Cursors == [row : BOOLEAN, seq : Nat, epoch : Nat \ {0}, nextRS : Nat \ {0}]
Recs == [rs : Nat, ev : Nat]
Segments == [epoch : Nat, first : Nat, header : BOOLEAN, recs : Seq(Recs)]
Begun == {Idle, [pc |-> "reset"], [pc |-> "repair"]}
Appending == [pc : {"append"}, from : Nat, upto : Nat, done : Nat,
              nextRS : Nat \ {0}, epoch : Nat \ {0}, seg : Nat, recs : Nat]

Positions == [seg : Nat, rs : Nat, epoch : Nat]
Polls == [on : {TRUE}, n : Nat, at : Nat, pos : Positions]

RelayTypeOK ==
    /\ minted \in Nat /\ journal \in Seq(1..minted)
    /\ cursor \in Cursors
    /\ backup # NoBackup => backup \in [journal : Seq(1..minted), cursor : Cursors]
    /\ medium \in Seq(Segments)
    /\ pass \in [Procs -> Begun \cup Appending]
    /\ reader \in Positions
    /\ poll = NoPoll \/ poll \in Polls

\* A file has its header, with an epoch and a base, or nothing at all; its
\* records are of events that were written, or half a frame.
SegmentOK(s) ==
    /\ IF s.header THEN s.epoch >= 1 /\ s.first >= 1 ELSE s.recs = <<>>
    /\ \A k \in 1..Len(s.recs) : s.recs[k].ev <= minted

SegmentsOK == \A i \in 1..Len(medium) : SegmentOK(medium[i])

-----------------------------------------------------------------------------
(* The publisher.                                                          *)

\* Some segment of the medium m carries the event whole.
Carried(m, ev) ==
    \E i \in 1..Len(m) : m[i].header /\ \E k \in 1..Delivered(m[i]) : m[i].recs[k].ev = ev

\* The first n events of the journal j are on the medium.
Published(j, n, m) == n <= Len(j) /\ \A i \in 1..n : Carried(m, j[i])

\* No event of the journal is on the medium without the ones before it.
NoneAlone ==
    \A h, i \in 1..Len(journal) :
        h < i /\ Carried(medium, journal[i]) => Carried(medium, journal[h])

\* A pass that appends has published what it says, and stands at the end of
\* the newest segment, which is whole.
AppendOK(w) ==
    /\ w.from + w.done <= w.upto /\ w.upto <= Len(journal)
    /\ Published(journal, w.from + w.done, medium)
    /\ w.seg = Len(medium) /\ w.seg >= 1
    /\ Newest.header /\ Newest.epoch = w.epoch
    /\ Delivered(Newest) = Len(Newest.recs) /\ Len(Newest.recs) = w.recs
    /\ Newest.first + w.recs = w.nextRS

PublishInv ==
    /\ \A h, i \in 1..Len(journal) : h < i => journal[h] < journal[i]
    /\ Published(journal, cursor.seq, medium) /\ NoneAlone
    /\ backup # NoBackup =>
         /\ Published(backup.journal, backup.cursor.seq, medium)
         /\ Len(backup.journal) <= Len(journal)
         /\ \A i \in 1..Len(backup.journal) : backup.journal[i] = journal[i]
    /\ \A p \in Procs : pass[p].pc = "append" => AppendOK(pass[p])

-----------------------------------------------------------------------------
(* The reader.                                                             *)

\* No segment has a lower epoch than one before it: a publisher restored from
\* a backup did not go back to an epoch it had left.
EpochsRiseIn(m) ==
    \A i, j \in 1..Len(m) : i < j /\ m[i].header /\ m[j].header => m[i].epoch <= m[j].epoch

EpochsRise == EpochsRiseIn(medium)

\* Within an epoch the relay sequence goes up from segment to segment.
SequencesRiseIn(m) ==
    \A i, j \in 1..Len(m) :
        i < j /\ m[i].header /\ m[j].header /\ m[i].epoch = m[j].epoch
            => ResumeRS(m[i]) <= m[j].first

\* The events a reader is done with.
Dealt == applied \cup skipped

\* Every record before segment n of the medium m is of an event in done.
ReadBefore(m, done, n) ==
    \A i \in 1..(n - 1) : \A k \in 1..Delivered(m[i]) : m[i].recs[k].ev \in done

\* A position names a segment there is, no further than the segment goes, and
\* everything up to it is in done.
PositionIn(m, done, pos) ==
    /\ pos.seg <= Len(m)
    /\ pos.seg = 0 => pos.epoch = 0
    /\ pos.seg > 0 =>
         /\ m[pos.seg].header /\ pos.epoch = m[pos.seg].epoch
         /\ pos.rs < ResumeRS(m[pos.seg])
         /\ \A k \in 1..Delivered(m[pos.seg]) :
                m[pos.seg].recs[k].rs <= pos.rs => m[pos.seg].recs[k].ev \in done
    /\ ReadBefore(m, done, pos.seg)

\* A poll stands at a segment of its listing, which the medium still has.
PollListed == poll.on => poll.n <= Len(medium) /\ poll.at \in 1..poll.n

PollOK ==
    /\ PositionIn(medium, Dealt, poll.pos) /\ poll.at \in {poll.pos.seg, poll.pos.seg + 1}
    /\ ReadBefore(medium, Dealt, poll.at)

PubInv ==
    /\ RelayTypeOK /\ SegmentsOK /\ PublishInv /\ PollListed
    /\ EpochsRise => SequencesRiseIn(medium)

ReadInv == PositionIn(medium, Dealt, reader) /\ (poll.on => PollOK)

RelayInv == PubInv /\ (EpochsRise => ReadInv)

-----------------------------------------------------------------------------
(* A scan of one segment.                                                  *)

\* Every set of naturals that is not empty has a least element.
LEMMA LeastOf ==
    ASSUME NEW T \in SUBSET Nat, T # {}
    PROVE  \E x \in T : \A y \in T : x <= y
<1> DEFINE R == {ss \in Nat \X Nat : ss[1] < ss[2]}
<1>1. IsWellFoundedOn(R, Nat)
  BY NatLessThanWellFounded DEF OpToRel
<1> HIDE DEF R
<1>2. PICK x \in T : \A y \in T : ~(<<y, x>> \in R)
  BY <1>1, WFMin, Zenon
<1>3. \A y \in T : ~(y < x)
  BY <1>2 DEF R
<1> QED
  BY <1>3

\* n is where a scan of s stops.
StopsAt(s, n) ==
    /\ \A i \in 1..n : s.recs[i].rs = s.first + i - 1
    /\ n < Len(s.recs) => s.recs[n + 1].rs # s.first + n

\* A scan stops at one place, which Delivered names.
LEMMA DeliveredIs ==
    ASSUME NEW s \in Segments
    PROVE  /\ Delivered(s) \in 0..Len(s.recs)
           /\ StopsAt(s, Delivered(s))
           /\ \A n \in 0..Len(s.recs) : StopsAt(s, n) => n = Delivered(s)
<1>1. s.recs \in Seq(Recs) /\ s.first \in Nat /\ Len(s.recs) \in Nat
  BY DEF Segments
<1>2. \A i \in 1..Len(s.recs) : s.recs[i] \in Recs
  BY <1>1
<1>3. \A i \in 1..Len(s.recs) : s.recs[i].rs \in Nat
  BY <1>2 DEF Recs
<1> DEFINE T == {n \in 0..Len(s.recs) : n = Len(s.recs) \/ s.recs[n + 1].rs # s.first + n}
<1>4. Len(s.recs) \in T /\ T \in SUBSET Nat
  BY <1>1
<1>5. PICK x \in T : \A y \in T : x <= y
  BY <1>4, LeastOf
<1>6. \A i \in 1..x : s.recs[i].rs = s.first + i - 1
  <2> SUFFICES ASSUME NEW i \in 1..x PROVE s.recs[i].rs = s.first + i - 1
    OBVIOUS
  <2>1. i - 1 \in 0..Len(s.recs) /\ i - 1 < x /\ i - 1 # Len(s.recs) /\ (i - 1) + 1 = i
    BY <1>1, <1>5
  <2>2. i - 1 \notin T
    BY <2>1, <1>5, <1>1
  <2> QED
    BY <2>1, <2>2, <1>1
<1>7. x \in 0..Len(s.recs) /\ StopsAt(s, x)
  BY <1>5, <1>6, <1>1 DEF StopsAt
<1>8. \A m, n \in 0..Len(s.recs) : StopsAt(s, m) /\ StopsAt(s, n) => ~(m < n)
  <2> SUFFICES ASSUME NEW m \in 0..Len(s.recs), NEW n \in 0..Len(s.recs),
                      StopsAt(s, m), StopsAt(s, n), m < n
               PROVE  FALSE
    OBVIOUS
  <2>1. m + 1 \in 1..n /\ m < Len(s.recs) /\ s.first + (m + 1) - 1 = s.first + m
    BY <1>1
  <2>2. s.recs[m + 1].rs = s.first + (m + 1) - 1
    BY <2>1 DEF StopsAt
  <2> QED
    BY <2>1, <2>2 DEF StopsAt
<1>9. \A m, n \in 0..Len(s.recs) : StopsAt(s, m) /\ StopsAt(s, n) => m = n
  BY <1>8, <1>1
<1>10. Delivered(s) = CHOOSE n \in 0..Len(s.recs) : StopsAt(s, n)
  BY DEF Delivered, StopsAt
<1>11. Delivered(s) \in 0..Len(s.recs) /\ StopsAt(s, Delivered(s))
  BY <1>7, <1>10, Zenon
<1> QED
  BY <1>9, <1>11

\* What an append to a segment does to its scan: the records before it stay,
\* and after a whole segment the next sequence is delivered too.
Extended(s, rec) == [s EXCEPT !.recs = Append(@, rec)]

LEMMA AppendToSegment ==
    ASSUME NEW s \in Segments, NEW rec \in Recs
    PROVE  LET t == Extended(s, rec) IN
           /\ t \in Segments
           /\ t.epoch = s.epoch /\ t.first = s.first /\ t.header = s.header
           /\ t.recs = Append(s.recs, rec) /\ Len(t.recs) = Len(s.recs) + 1
           /\ \A k \in 1..Len(s.recs) : t.recs[k] = s.recs[k]
           /\ t.recs[Len(s.recs) + 1] = rec
           /\ Delivered(s) <= Delivered(t)
           /\ (Delivered(s) = Len(s.recs) /\ rec.rs = s.first + Len(s.recs))
                => Delivered(t) = Len(t.recs)
           /\ rec.rs # s.first + Len(s.recs) => Delivered(t) = Delivered(s)
<1> DEFINE t == Extended(s, rec)
           n == Delivered(s)
<1>1. s.recs \in Seq(Recs) /\ s.first \in Nat /\ Len(s.recs) \in Nat
  BY DEF Segments
<1>2. /\ t \in Segments
      /\ t.epoch = s.epoch /\ t.first = s.first /\ t.header = s.header
      /\ t.recs = Append(s.recs, rec)
  BY <1>1 DEF Segments, Extended
<1>3. /\ Len(t.recs) = Len(s.recs) + 1
      /\ \A k \in 1..Len(s.recs) : t.recs[k] = s.recs[k]
      /\ t.recs[Len(s.recs) + 1] = rec
  BY <1>1, <1>2
<1>4. n \in 0..Len(s.recs) /\ StopsAt(s, n)
  BY DeliveredIs
<1>5. \A m \in 0..Len(t.recs) : StopsAt(t, m) => m = Delivered(t)
  BY <1>2, DeliveredIs
<1> HIDE DEF t, n
<1>6. CASE n = Len(s.recs) /\ rec.rs = s.first + Len(s.recs)
  <2>1. Len(t.recs) \in 0..Len(t.recs) /\ StopsAt(t, Len(t.recs))
    <3> SUFFICES ASSUME NEW i \in 1..Len(t.recs) PROVE t.recs[i].rs = t.first + i - 1
      BY <1>1, <1>3 DEF StopsAt
    <3>1. CASE i \in 1..Len(s.recs)
      BY <3>1, <1>2, <1>3, <1>4, <1>6 DEF StopsAt
    <3>2. CASE i = Len(s.recs) + 1
      BY <3>2, <1>1, <1>2, <1>3, <1>6
    <3> QED
      BY <3>1, <3>2, <1>1, <1>3
  <2>2. Delivered(t) = Len(t.recs)
    BY <2>1, <1>5
  <2> QED
    BY <2>2, <1>1, <1>2, <1>3, <1>6 DEF t, n
<1>7. CASE ~(n = Len(s.recs) /\ rec.rs = s.first + Len(s.recs))
  <2>1. n \in 0..Len(t.recs)
    BY <1>1, <1>3, <1>4
  <2>2. \A i \in 1..n : t.recs[i].rs = t.first + i - 1
    BY <1>1, <1>2, <1>3, <1>4 DEF StopsAt
  <2>3. t.recs[n + 1].rs # t.first + n
    <3>1. CASE n = Len(s.recs)
      BY <3>1, <1>7, <1>2, <1>3
    <3>2. CASE n < Len(s.recs)
      <4>1. n + 1 \in 1..Len(s.recs)
        BY <3>2, <1>1, <1>4
      <4> QED
        BY <3>2, <4>1, <1>2, <1>3, <1>4 DEF StopsAt
    <3> QED
      BY <3>1, <3>2, <1>1, <1>4
  <2>4. Delivered(t) = n
    BY <2>1, <2>2, <2>3, <1>5 DEF StopsAt
  <2> QED
    BY <2>4, <1>1, <1>2, <1>3, <1>4, <1>7 DEF t, n
<1> QED
  BY <1>6, <1>7

-----------------------------------------------------------------------------
(* What a write may do to the medium.                                      *)

\* Only the newest segment of m grows, and new ones come after it.
Grows(m, m2) ==
    /\ Len(m) <= Len(m2)
    /\ \A i \in 1..Len(m) :
         /\ i < Len(m) => m2[i] = m[i]
         /\ m2[i].epoch = m[i].epoch /\ m2[i].first = m[i].first /\ m2[i].header = m[i].header
         /\ Delivered(m[i]) <= Delivered(m2[i])
         /\ \A k \in 1..Delivered(m[i]) : m2[i].recs[k] = m[i].recs[k]

LEMMA MediumFacts ==
    ASSUME NEW m \in Seq(Segments)
    PROVE  /\ Len(m) \in Nat
           /\ \A i \in 1..Len(m) :
                /\ m[i] \in Segments
                /\ m[i].epoch \in Nat /\ m[i].first \in Nat /\ m[i].header \in BOOLEAN
                /\ m[i].recs \in Seq(Recs) /\ Len(m[i].recs) \in Nat
                /\ Delivered(m[i]) \in 0..Len(m[i].recs)
                /\ \A k \in 1..Delivered(m[i]) : m[i].recs[k].rs = m[i].first + k - 1
<1>1. \A i \in 1..Len(m) : m[i] \in Segments
  OBVIOUS
<1>2. ASSUME NEW i \in 1..Len(m)
      PROVE  /\ Delivered(m[i]) \in 0..Len(m[i].recs)
             /\ \A k \in 1..Delivered(m[i]) : m[i].recs[k].rs = m[i].first + k - 1
  <2>1. m[i] \in Segments
    BY <1>1
  <2> QED
    BY <2>1, DeliveredIs DEF StopsAt
<1>3. \A i \in 1..Len(m) : /\ m[i].epoch \in Nat /\ m[i].first \in Nat /\ m[i].header \in BOOLEAN
                           /\ m[i].recs \in Seq(Recs) /\ Len(m[i].recs) \in Nat
  BY <1>1 DEF Segments
<1> QED
  BY <1>1, <1>2, <1>3

LEMMA GrowsSame ==
    ASSUME NEW m \in Seq(Segments)
    PROVE  Grows(m, m)
<1>1. \A i \in 1..Len(m) : Delivered(m[i]) \in Nat
  BY MediumFacts
<1> QED
  BY <1>1, MediumFacts DEF Grows

LEMMA GrowsTwice ==
    ASSUME NEW l \in Seq(Segments), NEW m \in Seq(Segments), NEW n \in Seq(Segments),
           Grows(l, m), Grows(m, n)
    PROVE  Grows(l, n)
<1>1. Len(l) <= Len(m) /\ Len(m) <= Len(n) /\ Len(l) \in Nat /\ Len(m) \in Nat /\ Len(n) \in Nat
  BY MediumFacts DEF Grows
<1>2. ASSUME NEW i \in 1..Len(l)
      PROVE  /\ i < Len(l) => n[i] = l[i]
             /\ n[i].epoch = l[i].epoch /\ n[i].first = l[i].first /\ n[i].header = l[i].header
             /\ Delivered(l[i]) <= Delivered(n[i])
             /\ \A k \in 1..Delivered(l[i]) : n[i].recs[k] = l[i].recs[k]
  <2>1. i \in 1..Len(m) /\ i \in 1..Len(n)
    BY <1>1
  <2>2. Delivered(l[i]) \in Nat /\ Delivered(m[i]) \in Nat /\ Delivered(n[i]) \in Nat
    BY <2>1, MediumFacts
  <2>3. Delivered(l[i]) <= Delivered(m[i]) /\ Delivered(m[i]) <= Delivered(n[i])
    BY <2>1 DEF Grows
  <2>4. \A k \in 1..Delivered(l[i]) : n[i].recs[k] = l[i].recs[k]
    BY <2>1, <2>2, <2>3 DEF Grows
  <2>5. /\ i < Len(l) => n[i] = l[i]
        /\ n[i].epoch = l[i].epoch /\ n[i].first = l[i].first /\ n[i].header = l[i].header
    BY <1>1, <2>1 DEF Grows
  <2> QED
    BY <2>2, <2>3, <2>4, <2>5
<1> QED
  BY <1>1, <1>2 DEF Grows

\* What was on the medium stays there.
LEMMA GrowsCarries ==
    ASSUME NEW m \in Seq(Segments), NEW m2 \in Seq(Segments), Grows(m, m2),
           NEW ev, Carried(m, ev)
    PROVE  Carried(m2, ev)
<1>1. PICK i \in 1..Len(m) : m[i].header /\ \E k \in 1..Delivered(m[i]) : m[i].recs[k].ev = ev
  BY DEF Carried
<1>2. PICK k \in 1..Delivered(m[i]) : m[i].recs[k].ev = ev
  BY <1>1
<1>3. i \in 1..Len(m2) /\ Delivered(m[i]) \in Nat
  BY MediumFacts DEF Grows
<1>4. Delivered(m2[i]) \in Nat
  BY <1>3, MediumFacts
<1>5. k \in 1..Delivered(m2[i])
  BY <1>3, <1>4 DEF Grows
<1>6. m2[i].header /\ m2[i].recs[k].ev = ev
  BY <1>1, <1>2 DEF Grows
<1> QED
  BY <1>3, <1>5, <1>6 DEF Carried

LEMMA GrowsPublished ==
    ASSUME NEW m \in Seq(Segments), NEW m2 \in Seq(Segments), Grows(m, m2),
           NEW j, NEW n, Published(j, n, m)
    PROVE  Published(j, n, m2)
BY GrowsCarries DEF Published

\* Epochs that rise on the medium rose before it grew.
LEMMA GrowsEpochs ==
    ASSUME NEW m \in Seq(Segments), NEW m2 \in Seq(Segments), Grows(m, m2), EpochsRiseIn(m2)
    PROVE  EpochsRiseIn(m)
<1> SUFFICES ASSUME NEW i \in 1..Len(m), NEW j \in 1..Len(m), i < j, m[i].header, m[j].header
             PROVE  m[i].epoch <= m[j].epoch
  BY DEF EpochsRiseIn
<1>1. i \in 1..Len(m2) /\ j \in 1..Len(m2)
  BY MediumFacts DEF Grows
<1>2. m2[i].header /\ m2[j].header /\ m2[i].epoch = m[i].epoch /\ m2[j].epoch = m[j].epoch
  BY DEF Grows
<1> QED
  BY <1>1, <1>2 DEF EpochsRiseIn

-----------------------------------------------------------------------------
(* A new segment.                                                          *)

LEMMA NewSegmentFacts ==
    ASSUME NEW e \in Nat, NEW f \in Nat
    PROVE  LET s == NewSegment(e, f) IN
           /\ s \in Segments /\ s.epoch = e /\ s.first = f /\ s.header /\ s.recs = <<>>
           /\ Len(s.recs) = 0 /\ Delivered(s) = 0 /\ ResumeRS(s) = f
<1> DEFINE s == NewSegment(e, f)
<1>1. <<>> \in Seq(Recs)
  OBVIOUS
<1>2. s \in Segments /\ s.epoch = e /\ s.first = f /\ s.header /\ s.recs = <<>>
  BY <1>1 DEF NewSegment, Segments
<1>3. Len(s.recs) = 0
  BY <1>2
<1>4. Delivered(s) = 0
  BY <1>2, <1>3, DeliveredIs
<1> QED
  BY <1>2, <1>3, <1>4 DEF ResumeRS

\* A file that was just created carries nothing: one with its header in an
\* epoch of its own, or going on in the epoch of the newest, or half of one.
LEMMA SegmentAdded ==
    ASSUME NEW m \in Seq(Segments), NEW s \in Segments, s.recs = <<>>
    PROVE  LET m2 == Append(m, s) IN
           /\ m2 \in Seq(Segments) /\ Len(m2) = Len(m) + 1 /\ m2[Len(m2)] = s
           /\ \A i \in 1..Len(m) : m2[i] = m[i]
           /\ Grows(m, m2)
           /\ \A ev : Carried(m2, ev) => Carried(m, ev)
<1> DEFINE m2 == Append(m, s)
<1>1. /\ m2 \in Seq(Segments) /\ Len(m2) = Len(m) + 1 /\ m2[Len(m2)] = s
      /\ \A i \in 1..Len(m) : m2[i] = m[i]
      /\ Len(m) \in Nat
  OBVIOUS
<1>2. Delivered(s) = 0
  <2>1. Delivered(s) \in 0..Len(s.recs) /\ Len(s.recs) = 0
    BY DeliveredIs
  <2> QED
    BY <2>1
<1> HIDE DEF m2
<1>3. Grows(m, m2)
  <2>1. \A i \in 1..Len(m) : Delivered(m[i]) \in Nat
    BY MediumFacts
  <2> QED
    BY <1>1, <2>1 DEF Grows
<1>4. ASSUME NEW ev, Carried(m2, ev) PROVE Carried(m, ev)
  <2>1. PICK i \in 1..Len(m2) : m2[i].header /\ \E k \in 1..Delivered(m2[i]) : m2[i].recs[k].ev = ev
    BY <1>4 DEF Carried
  <2>2. i # Len(m2)
    BY <1>1, <1>2, <2>1
  <2>3. i \in 1..Len(m)
    BY <1>1, <2>2
  <2> QED
    BY <1>1, <2>1, <2>3 DEF Carried
<1> QED
  BY <1>1, <1>3, <1>4 DEF m2

\* The tail a writer may go on from: in its epoch, a new segment begins at the
\* sequence the newest one ended with.
GoesOn(m, e, f) ==
    m # <<>> => m[Len(m)].header /\ (m[Len(m)].epoch = e => f = ResumeRS(m[Len(m)]))

LEMMA SegmentRises ==
    ASSUME NEW m \in Seq(Segments), NEW e \in Nat, NEW f \in Nat, GoesOn(m, e, f),
           EpochsRiseIn(m) => SequencesRiseIn(m),
           EpochsRiseIn(Append(m, NewSegment(e, f)))
    PROVE  SequencesRiseIn(Append(m, NewSegment(e, f)))
<1> DEFINE s == NewSegment(e, f)
           m2 == Append(m, s)
<1>1. s \in Segments /\ s.epoch = e /\ s.first = f /\ s.recs = <<>>
  BY NewSegmentFacts
<1>2. /\ m2 \in Seq(Segments) /\ Len(m2) = Len(m) + 1 /\ m2[Len(m2)] = s
      /\ \A i \in 1..Len(m) : m2[i] = m[i]
      /\ Grows(m, m2)
  BY <1>1, SegmentAdded
<1>3. SequencesRiseIn(m) /\ EpochsRiseIn(m)
  BY <1>2, GrowsEpochs
<1>4. EpochsRiseIn(m2)
  OBVIOUS
<1> HIDE DEF s, m2
<1> SUFFICES ASSUME NEW i \in 1..Len(m2), NEW j \in 1..Len(m2), i < j,
                    m2[i].header, m2[j].header, m2[i].epoch = m2[j].epoch
             PROVE  ResumeRS(m2[i]) <= m2[j].first
  BY DEF SequencesRiseIn, s, m2
<1>5. Len(m) \in Nat /\ i \in 1..Len(m) /\ m2[i] = m[i]
  BY <1>2, MediumFacts
<1>6. CASE j \in 1..Len(m)
  BY <1>2, <1>3, <1>5, <1>6 DEF SequencesRiseIn
<1>7. CASE j = Len(m2)
  <2>1. m # <<>> /\ Len(m) \in 1..Len(m)
    BY <1>5
  <2>2. m[Len(m)].header /\ (m[Len(m)].epoch = e => f = ResumeRS(m[Len(m)]))
    BY <2>1 DEF GoesOn
  <2>3. m[i].epoch = e /\ m2[j].first = f
    BY <1>1, <1>2, <1>5, <1>7
  <2>4. m[Len(m)].epoch <= e
    <3>1. Len(m) \in 1..Len(m2) /\ Len(m2) \in 1..Len(m2) /\ Len(m) < Len(m2)
      BY <1>2, <1>5
    <3>2. m2[Len(m)].header /\ m2[Len(m2)].header
      BY <1>2, <1>7, <2>1, <2>2
    <3>3. m2[Len(m)].epoch <= m2[Len(m2)].epoch
      BY <1>4, <3>1, <3>2 DEF EpochsRiseIn
    <3> QED
      BY <3>3, <1>1, <1>2, <2>1
  <2>5. CASE i = Len(m)
    <3>1. ResumeRS(m[i]) \in Nat
      BY <1>5, MediumFacts DEF ResumeRS
    <3> QED
      BY <2>2, <2>3, <2>5, <3>1, <1>5
  <2>6. CASE i < Len(m)
    <3>1. m[i].epoch <= m[Len(m)].epoch
      BY <1>3, <1>5, <2>1, <2>2, <2>6 DEF EpochsRiseIn
    <3>2. m[Len(m)].epoch = e
      BY <2>1, <2>3, <2>4, <3>1, MediumFacts
    <3>3. ResumeRS(m[i]) <= m[Len(m)].first
      BY <1>3, <1>5, <2>1, <2>2, <2>3, <2>6, <3>2 DEF SequencesRiseIn
    <3>4. f = m[Len(m)].first + Delivered(m[Len(m)])
      BY <2>2, <3>2 DEF ResumeRS
    <3>5. /\ m[Len(m)].first \in Nat /\ Delivered(m[Len(m)]) \in Nat
          /\ ResumeRS(m[i]) \in Nat
      BY <1>5, <2>1, MediumFacts DEF ResumeRS
    <3> QED
      BY <2>3, <3>3, <3>4, <3>5, <1>5
  <2> QED
    BY <1>5, <2>5, <2>6
<1> QED
  BY <1>2, <1>5, <1>6, <1>7

-----------------------------------------------------------------------------
(* A record appended to the newest segment.                                *)

LEMMA RecordAdded ==
    ASSUME NEW m \in Seq(Segments), m # <<>>, NEW rec \in Recs
    PROVE  LET n == Len(m)
               m2 == [m EXCEPT ![n].recs = Append(@, rec)] IN
           /\ m2 \in Seq(Segments) /\ Len(m2) = n
           /\ m2[n] = Extended(m[n], rec)
           /\ \A i \in 1..n : i # n => m2[i] = m[i]
           /\ Grows(m, m2)
           /\ \A ev : Carried(m2, ev) => Carried(m, ev) \/ ev = rec.ev
           /\ SequencesRiseIn(m) => SequencesRiseIn(m2)
<1> DEFINE n == Len(m)
           m2 == [m EXCEPT ![n].recs = Append(@, rec)]
           s == m[n]
           t == Extended(s, rec)
<1>1. n \in Nat /\ n \in 1..n /\ n = Len(m) /\ s \in Segments
  BY MediumFacts
<1>2. /\ t \in Segments
      /\ t.epoch = s.epoch /\ t.first = s.first /\ t.header = s.header
      /\ t.recs = Append(s.recs, rec) /\ Len(t.recs) = Len(s.recs) + 1
      /\ \A k \in 1..Len(s.recs) : t.recs[k] = s.recs[k]
      /\ t.recs[Len(s.recs) + 1] = rec
      /\ Delivered(s) <= Delivered(t)
  BY <1>1, AppendToSegment
<1>3. m2 = [m EXCEPT ![n] = t]
  BY DEF Extended
<1>4. /\ m2 \in Seq(Segments) /\ Len(m2) = n /\ m2[n] = t
      /\ \A i \in 1..n : i # n => m2[i] = m[i]
  <2>1. t \in Segments
    BY <1>2
  <2> HIDE DEF n, m2, s, t
  <2> QED
    BY <2>1, <1>1, <1>3
<1>5. /\ s.recs \in Seq(Recs) /\ Len(s.recs) \in Nat /\ s.first \in Nat
      /\ Delivered(s) \in 0..Len(s.recs) /\ Delivered(t) \in 0..(Len(s.recs) + 1)
  BY <1>1, <1>2, DeliveredIs DEF Segments
<1> HIDE DEF n, m2, s, t
<1>6. s = m[n]
  BY DEF s
<1>7. Grows(m, m2)
  <2> SUFFICES ASSUME NEW i \in 1..n
               PROVE  /\ i < n => m2[i] = m[i]
                      /\ m2[i].epoch = m[i].epoch /\ m2[i].first = m[i].first
                      /\ m2[i].header = m[i].header
                      /\ Delivered(m[i]) <= Delivered(m2[i])
                      /\ \A k \in 1..Delivered(m[i]) : m2[i].recs[k] = m[i].recs[k]
    BY <1>1, <1>4 DEF Grows
  <2>1. CASE i = n
    <3>1. m[i] = s /\ m2[i] = t /\ ~(i < n)
      BY <2>1, <1>1, <1>4, <1>6
    <3>2. \A k \in 1..Delivered(s) : k \in 1..Len(s.recs)
      BY <1>5
    <3> QED
      BY <3>1, <3>2, <1>2
  <2>2. CASE i # n
    <3>1. Delivered(m[i]) \in Nat
      BY <1>1, MediumFacts
    <3> QED
      BY <2>2, <3>1, <1>4
  <2> QED
    BY <2>1, <2>2
<1>8. ASSUME NEW ev, Carried(m2, ev) PROVE Carried(m, ev) \/ ev = rec.ev
  <2>1. PICK i \in 1..Len(m2) : m2[i].header /\ \E k \in 1..Delivered(m2[i]) : m2[i].recs[k].ev = ev
    BY <1>8 DEF Carried
  <2>2. PICK k \in 1..Delivered(m2[i]) : m2[i].recs[k].ev = ev
    BY <2>1
  <2>3. CASE i # n
    BY <2>1, <2>3, <1>1, <1>4 DEF Carried
  <2>4. CASE i = n
    <3>1. CASE k = Len(s.recs) + 1
      BY <3>1, <2>2, <2>4, <1>2, <1>4
    <3>2. CASE k <= Len(s.recs)
      <4>1. k \in 1..Len(s.recs) /\ t.recs[k] = s.recs[k]
        BY <3>2, <2>2, <2>4, <1>2, <1>4, <1>5
      <4>2. k \in 1..Delivered(s)
        <5>1. CASE Delivered(t) = Delivered(s)
          BY <5>1, <2>4, <1>4
        <5>2. CASE Delivered(s) = Len(s.recs)
          BY <5>2, <4>1
        <5>3. Delivered(t) = Delivered(s) \/ Delivered(s) = Len(s.recs)
          <6>1. CASE Delivered(s) < Len(s.recs)
            <7>1. StopsAt(s, Delivered(s))
              BY <1>1, DeliveredIs
            <7>2. /\ Delivered(s) \in 0..Len(t.recs)
                  /\ Delivered(s) + 1 \in 1..Len(s.recs)
                  /\ \A h \in 1..Delivered(s) : h \in 1..Len(s.recs)
              BY <6>1, <1>2, <1>5
            <7>3. StopsAt(t, Delivered(s))
              BY <6>1, <7>1, <7>2, <1>2 DEF StopsAt
            <7> QED
              BY <7>2, <7>3, <1>2, DeliveredIs
          <6> QED
            BY <6>1, <1>5
        <5> QED
          BY <5>1, <5>2, <5>3
      <4> QED
        BY <4>1, <4>2, <2>1, <2>2, <2>4, <1>1, <1>2, <1>4, <1>6 DEF Carried
    <3> QED
      BY <3>1, <3>2, <2>4, <1>4, <1>5
  <2> QED
    BY <2>3, <2>4
<1>9. ASSUME SequencesRiseIn(m) PROVE SequencesRiseIn(m2)
  <2> SUFFICES ASSUME NEW i \in 1..n, NEW j \in 1..n, i < j,
                      m2[i].header, m2[j].header, m2[i].epoch = m2[j].epoch
               PROVE  ResumeRS(m2[i]) <= m2[j].first
    BY <1>4 DEF SequencesRiseIn
  <2>1. i # n /\ m2[i] = m[i]
    BY <1>1, <1>4
  <2>2. m2[j].header = m[j].header /\ m2[j].epoch = m[j].epoch /\ m2[j].first = m[j].first
    BY <1>1, <1>7 DEF Grows
  <2> QED
    BY <1>1, <1>9, <2>1, <2>2 DEF SequencesRiseIn
<1>10. m2[n] = Extended(m[n], rec)
  BY <1>4 DEF t, s
<1> QED
  BY <1>4, <1>7, <1>8, <1>9, <1>10 DEF n, m2

\* After a whole segment the next record is delivered, and then on the medium.
LEMMA RecordCarried ==
    ASSUME NEW m \in Seq(Segments), m # <<>>, NEW rec \in Recs, m[Len(m)].header,
           Delivered(m[Len(m)]) = Len(m[Len(m)].recs),
           rec.rs = m[Len(m)].first + Len(m[Len(m)].recs)
    PROVE  LET m2 == [m EXCEPT ![Len(m)].recs = Append(@, rec)] IN
           /\ Carried(m2, rec.ev)
           /\ Delivered(m2[Len(m)]) = Len(m2[Len(m)].recs)
           /\ Len(m2[Len(m)].recs) = Len(m[Len(m)].recs) + 1
<1> DEFINE n == Len(m)
           m2 == [m EXCEPT ![n].recs = Append(@, rec)]
<1>1. n \in Nat /\ n \in 1..n /\ m[n] \in Segments /\ Len(m[n].recs) \in Nat
  BY MediumFacts
<1>2. m2[n] = Extended(m[n], rec) /\ Len(m2) = n
  BY RecordAdded
<1>3. /\ m2[n].header = m[n].header
      /\ Len(m2[n].recs) = Len(m[n].recs) + 1
      /\ m2[n].recs[Len(m[n].recs) + 1] = rec
      /\ Delivered(m2[n]) = Len(m2[n].recs)
  <2>1. /\ Delivered(m[n]) = Len(m[n].recs)
        /\ rec.rs = m[n].first + Len(m[n].recs)
    OBVIOUS
  <2> DEFINE s == m[n]
             t == Extended(s, rec)
  <2>2. /\ t.header = s.header
        /\ Len(t.recs) = Len(s.recs) + 1
        /\ t.recs[Len(s.recs) + 1] = rec
        /\ (Delivered(s) = Len(s.recs) /\ rec.rs = s.first + Len(s.recs))
                => Delivered(t) = Len(t.recs)
    BY <1>1, AppendToSegment
  <2>3. m2[n] = t
    BY <1>2
  <2> HIDE DEF n, m2, t
  <2> QED
    BY <2>1, <2>2, <2>3
<1> HIDE DEF n, m2
<1>4. m[n].header
  BY DEF n
<1>5. Len(m[n].recs) + 1 \in 1..Delivered(m2[n])
  BY <1>1, <1>3
<1>6. Carried(m2, rec.ev)
  BY <1>1, <1>2, <1>3, <1>4, <1>5 DEF Carried
<1> QED
  BY <1>3, <1>6 DEF n, m2

-----------------------------------------------------------------------------
(* Steps of the publisher.                                                 *)

LEMMA AppendingPass ==
    ASSUME RelayTypeOK, NEW p \in Procs, pass[p].pc = "append"
    PROVE  pass[p] \in Appending
<1>1. pass[p] \in Begun \cup Appending
  BY DEF RelayTypeOK
<1>2. pass[p] \notin Begun
  BY DEF Begun, Idle
<1> QED
  BY <1>1, <1>2

\* The events of the journal differ.
LEMMA OnePlace ==
    ASSUME PubInv, NEW h \in 1..Len(journal), NEW i \in 1..Len(journal), journal[h] = journal[i]
    PROVE  h = i
<1>1. \A k \in 1..Len(journal) : journal[k] \in 1..minted /\ journal[k] \in Nat
  BY DEF PubInv, RelayTypeOK
<1>2. ~(h < i) /\ ~(i < h)
  BY <1>1 DEF PubInv, PublishInv
<1> QED
  BY <1>2

\* Nothing is on the medium that was never written.
LEMMA CarriedMinted ==
    ASSUME PubInv, NEW ev, Carried(medium, ev)
    PROVE  ev <= minted
<1>1. PICK i \in 1..Len(medium) : \E k \in 1..Delivered(medium[i]) : medium[i].recs[k].ev = ev
  BY DEF Carried
<1>2. PICK k \in 1..Delivered(medium[i]) : medium[i].recs[k].ev = ev
  BY <1>1
<1>3. medium \in Seq(Segments) /\ SegmentOK(medium[i])
  BY DEF PubInv, RelayTypeOK, SegmentsOK
<1>4. Delivered(medium[i]) \in 0..Len(medium[i].recs) /\ Len(medium[i].recs) \in Nat
  BY <1>3, MediumFacts
<1>5. k \in 1..Len(medium[i].recs)
  BY <1>4
<1> QED
  BY <1>2, <1>3, <1>5 DEF SegmentOK

\* A write that puts at most one more event x on the medium, and x only after
\* the events before it.
LEMMA NoneAloneKept ==
    ASSUME PubInv, journal' = journal, medium' \in Seq(Segments), Grows(medium, medium'), NEW x,
           \A ev : Carried(medium', ev) => Carried(medium, ev) \/ ev = x,
           \A i \in 1..Len(journal) :
               journal[i] = x => \A h \in 1..(i - 1) : Carried(medium, journal[h])
    PROVE  NoneAlone'
<1> SUFFICES ASSUME NEW h \in 1..Len(journal), NEW i \in 1..Len(journal), h < i,
                    Carried(medium', journal[i])
             PROVE  Carried(medium', journal[h])
  BY DEF NoneAlone
<1>1. medium \in Seq(Segments) /\ NoneAlone
  BY DEF PubInv, RelayTypeOK, PublishInv
<1>2. Carried(medium, journal[h])
  <2>1. CASE Carried(medium, journal[i])
    BY <1>1, <2>1 DEF NoneAlone
  <2>2. CASE journal[i] = x
    <3>1. h \in 1..(i - 1)
      BY DEF PubInv, RelayTypeOK
    <3> QED
      BY <2>2, <3>1
  <2> QED
    BY <2>1, <2>2
<1> QED
  BY <1>1, <1>2, GrowsCarries

\* A publisher's step in one: the store stays, the medium grows, the cursor
\* covers what is there, and the pass knows what it did.
LEMMA PublishStep ==
    ASSUME PubInv, UNCHANGED <<journal, minted, backup, reader, poll>>,
           medium' \in Seq(Segments), Grows(medium, medium'), SegmentsOK',
           EpochsRise' => SequencesRiseIn(medium'), NoneAlone',
           cursor' \in Cursors, Published(journal, cursor'.seq, medium'),
           pass' \in [Procs -> Begun \cup Appending],
           \A q \in Procs : pass'[q].pc = "append" => AppendOK(pass[q])'
    PROVE  PubInv'
<1>1. RelayTypeOK'
  BY DEF PubInv, RelayTypeOK
<1>2. medium \in Seq(Segments)
  BY DEF PubInv, RelayTypeOK
<1>3. backup # NoBackup => Published(backup.journal, backup.cursor.seq, medium')
  BY <1>2, GrowsPublished DEF PubInv, PublishInv
<1>4. PublishInv'
  BY <1>3 DEF PubInv, PublishInv
<1>5. PollListed'
  <2>1. Len(medium) \in Nat /\ Len(medium') \in Nat /\ Len(medium) <= Len(medium')
    BY <1>2, MediumFacts DEF Grows
  <2>2. poll = NoPoll \/ poll \in Polls
    BY DEF PubInv, RelayTypeOK
  <2>3. poll = NoPoll => ~poll.on
    BY DEF NoPoll
  <2>4. poll \in Polls => poll.n \in Nat /\ poll.at \in Nat
    BY DEF Polls
  <2>5. poll' = poll /\ PollListed
    BY DEF PubInv
  <2> QED
    BY <2>1, <2>2, <2>3, <2>4, <2>5 DEF PollListed
<1> QED
  BY <1>1, <1>4, <1>5 DEF PubInv, EpochsRise

\* The same when nothing is written.
LEMMA MediumKept ==
    ASSUME PubInv, UNCHANGED <<journal, minted, backup, medium, reader, poll>>,
           cursor' \in Cursors, Published(journal, cursor'.seq, medium),
           pass' \in [Procs -> Begun \cup Appending],
           \A q \in Procs : pass'[q].pc = "append" => AppendOK(pass[q])'
    PROVE  PubInv' /\ Grows(medium, medium')
<1>1. medium' \in Seq(Segments) /\ SegmentsOK' /\ NoneAlone' /\ (EpochsRise' => SequencesRiseIn(medium'))
  BY DEF PubInv, RelayTypeOK, SegmentsOK, SegmentOK, PublishInv, NoneAlone, EpochsRise
<1>2. Grows(medium, medium')
  BY <1>1, GrowsSame
<1> QED
  BY <1>1, <1>2, PublishStep

\* What a pass banks is on the medium.
LEMMA BankedOK ==
    ASSUME PubInv, NEW p \in Procs, pass[p].pc = "append"
    PROVE  LET w == pass[p] IN
           /\ Banked(w) \in Cursors /\ Published(journal, Banked(w).seq, medium)
           /\ w.from + w.done = w.upto =>
                /\ Advanced(w.upto, w.nextRS) \in Cursors
                /\ Published(journal, Advanced(w.upto, w.nextRS).seq, medium)
<1> DEFINE w == pass[p]
<1>1. w \in Appending
  BY AppendingPass DEF PubInv
<1>2. w.from + w.done \in Nat /\ w.nextRS \in Nat \ {0} /\ w.upto \in Nat
  BY <1>1 DEF Appending
<1>3. Published(journal, w.from + w.done, medium) /\ Published(journal, cursor.seq, medium)
  BY DEF PubInv, PublishInv, AppendOK
<1>4. cursor \in Cursors
  BY DEF PubInv, RelayTypeOK
<1> HIDE DEF w
<1>5. ASSUME NEW n \in Nat, Published(journal, n, medium)
      PROVE  /\ Advanced(n, w.nextRS) \in Cursors
             /\ Published(journal, Advanced(n, w.nextRS).seq, medium)
  <2>1. CASE n > cursor.seq
    <3>1. /\ Advanced(n, w.nextRS) = [cursor EXCEPT !.row = TRUE, !.seq = n, !.nextRS = w.nextRS]
      BY <2>1 DEF Advanced
    <3>2. Advanced(n, w.nextRS) \in Cursors /\ Advanced(n, w.nextRS).seq = n
      BY <3>1, <1>2, <1>4 DEF Cursors
    <3> QED
      BY <3>2, <1>5
  <2>2. CASE ~(n > cursor.seq)
    <3>1. Advanced(n, w.nextRS) = [cursor EXCEPT !.row = TRUE]
      BY <2>2 DEF Advanced
    <3>2. Advanced(n, w.nextRS) \in Cursors /\ Advanced(n, w.nextRS).seq = cursor.seq
      BY <3>1, <1>4 DEF Cursors
    <3> QED
      BY <3>2, <1>3
  <2> QED
    BY <2>1, <2>2
<1>6. Banked(w) \in Cursors /\ Published(journal, Banked(w).seq, medium)
  BY <1>2, <1>3, <1>4, <1>5 DEF Banked
<1>7. w.from + w.done = w.upto =>
        /\ Advanced(w.upto, w.nextRS) \in Cursors
        /\ Published(journal, Advanced(w.upto, w.nextRS).seq, medium)
  BY <1>2, <1>3, <1>5
<1> QED
  BY <1>6, <1>7 DEF w

LEMMA StepGiveUp ==
    ASSUME OneWriter, PubInv, NEW p \in Procs, GiveUp(p)
    PROVE  PubInv' /\ Grows(medium, medium')
<1>1. /\ pass' = [pass EXCEPT ![p] = Idle]
      /\ UNCHANGED <<journal, minted, cursor, backup, medium, reader, poll>>
  BY DEF GiveUp, readVars
<1>2. pass \in [Procs -> Begun \cup Appending] /\ cursor \in Cursors /\ Published(journal, cursor.seq, medium)
  BY DEF PubInv, RelayTypeOK, PublishInv
<1>3. pass' \in [Procs -> Begun \cup Appending] /\ \A q \in Procs : pass'[q].pc # "append"
  BY <1>1, <1>2 DEF OneWriter, Begun, Idle
<1> QED
  BY <1>1, <1>2, <1>3, MediumKept

LEMMA StepAdvanceCursor ==
    ASSUME OneWriter, PubInv, NEW p \in Procs, AdvanceRelayPushCursor(p)
    PROVE  PubInv' /\ Grows(medium, medium')
<1>1. /\ pass[p].pc = "append" /\ pass[p].from + pass[p].done = pass[p].upto
      /\ cursor' = Advanced(pass[p].upto, pass[p].nextRS)
      /\ pass' = [pass EXCEPT ![p] = Idle]
      /\ UNCHANGED <<journal, minted, backup, medium, reader, poll>>
  BY DEF AdvanceRelayPushCursor, readVars
<1>2. pass \in [Procs -> Begun \cup Appending]
  BY DEF PubInv, RelayTypeOK
<1>3. pass' \in [Procs -> Begun \cup Appending] /\ \A q \in Procs : pass'[q].pc # "append"
  BY <1>1, <1>2 DEF OneWriter, Begun, Idle
<1>4. cursor' \in Cursors /\ Published(journal, cursor'.seq, medium)
  BY <1>1, BankedOK
<1> QED
  BY <1>1, <1>3, <1>4, MediumKept

LEMMA StepResetPeer ==
    ASSUME OneWriter, PubInv, NEW p \in Procs, ResetPeer(p)
    PROVE  PubInv' /\ Grows(medium, medium')
<1>1. /\ cursor' = [row |-> TRUE, seq |-> 0, epoch |-> cursor.epoch + 1, nextRS |-> 1]
      /\ pass' = [pass EXCEPT ![p] = [pc |-> "reset"]]
      /\ UNCHANGED <<journal, minted, backup, medium, reader, poll>>
  BY DEF ResetPeer, readVars
<1>2. pass \in [Procs -> Begun \cup Appending] /\ cursor \in Cursors /\ journal \in Seq(1..minted)
  BY DEF PubInv, RelayTypeOK
<1>3. pass' \in [Procs -> Begun \cup Appending] /\ \A q \in Procs : pass'[q].pc # "append"
  BY <1>1, <1>2 DEF OneWriter, Begun
<1>4. cursor' \in Cursors /\ cursor'.seq = 0
  BY <1>1, <1>2 DEF Cursors
<1>5. Published(journal, cursor'.seq, medium)
  BY <1>2, <1>4 DEF Published
<1> QED
  BY <1>1, <1>3, <1>4, <1>5, MediumKept

\* The position a repair goes back to has everything before it on the medium.
LEMMA FloorPublished ==
    ASSUME PubInv, NEW rs \in Nat, FloorFor(rs) >= 0
    PROVE  FloorFor(rs) \in Nat /\ Published(journal, FloorFor(rs), medium)
<1> DEFINE has == {i \in 1..Len(medium) :
                     /\ ~Condemned(medium[i], i < Len(medium))
                     /\ \E k \in 1..Len(Records(medium[i])) : medium[i].recs[k].rs = rs}
           c == CHOOSE i \in has : \A j \in has : i <= j
           s == medium[c]
           ev == s.recs[rs - s.first + 1].ev
<1>1. FloorFor(rs) = IF has = {} THEN -1 ELSE IF InJournal(ev) THEN IndexOf(ev) - 1 ELSE -1
  BY DEF FloorFor
<1>2. medium \in Seq(Segments) /\ journal \in Seq(1..minted) /\ NoneAlone
  BY DEF PubInv, RelayTypeOK, PublishInv
<1>3. has # {} /\ has \in SUBSET Nat
  <2>1. Len(medium) \in Nat
    BY <1>2
  <2>2. has \in SUBSET Nat
    BY <2>1
  <2> HIDE DEF has
  <2>3. has # {}
    BY <1>1
  <2> QED
    BY <2>2, <2>3
<1>4. c \in has
  <2> HIDE DEF has
  <2> QED
    BY <1>3, LeastOf
<1>5. InJournal(ev) /\ FloorFor(rs) = IndexOf(ev) - 1
  <2> HIDE DEF has, ev
  <2> QED
    BY <1>1, <1>3
<1>6. c \in 1..Len(medium) /\ s.header
  <2> HIDE DEF c
  <2> QED
    BY <1>4 DEF Condemned
<1>7. /\ s.recs \in Seq(Recs) /\ s.first \in Nat /\ Delivered(s) \in 0..Len(s.recs)
      /\ Len(s.recs) \in Nat
      /\ \A k \in 1..Delivered(s) : s.recs[k].rs = s.first + k - 1
  <2> HIDE DEF c
  <2> QED
    BY <1>2, <1>6, MediumFacts
<1>8. PICK k \in 1..Len(Records(s)) : s.recs[k].rs = rs
  <2> HIDE DEF c
  <2> QED
    BY <1>4
<1> HIDE DEF c, has
<1>9. k \in 1..Delivered(s)
  <2>1. Len(Records(s)) = Delivered(s)
    BY <1>7 DEF Records
  <2> QED
    BY <2>1, <1>8
<1>10. rs - s.first + 1 = k
  <2> HIDE DEF s
  <2>1. s.recs[k].rs = s.first + k - 1
    BY <1>7, <1>9
  <2>2. s.first \in Nat /\ k \in Nat
    BY <1>7, <1>9
  <2> QED
    BY <1>8, <2>1, <2>2
<1>11. Carried(medium, ev)
  BY <1>6, <1>9, <1>10 DEF Carried
<1>12. \E i \in 1..Len(journal) : journal[i] = ev
  <2> HIDE DEF ev
  <2> QED
    BY <1>2, <1>5 DEF InJournal, Range
<1>13. IndexOf(ev) \in 1..Len(journal) /\ journal[IndexOf(ev)] = ev
  <2> HIDE DEF ev
  <2> QED
    BY <1>12 DEF IndexOf
<1> HIDE DEF ev, s
<1>14. FloorFor(rs) \in Nat /\ FloorFor(rs) <= Len(journal)
  BY <1>2, <1>5, <1>13
<1>15. ASSUME NEW h \in 1..FloorFor(rs) PROVE Carried(medium, journal[h])
  <2>1. h \in 1..Len(journal) /\ h < IndexOf(ev)
    BY <1>2, <1>5, <1>13, <1>14
  <2> QED
    BY <2>1, <1>2, <1>11, <1>13 DEF NoneAlone
<1> QED
  BY <1>14, <1>15 DEF Published

LEMMA StepRepublish ==
    ASSUME OneWriter, PubInv, NEW p \in Procs, NEW rs \in Nat, RepublishFrom(p, rs)
    PROVE  PubInv' /\ Grows(medium, medium')
<1>1. /\ FloorFor(rs) >= 0
      /\ cursor' = IF cursor.row THEN [cursor EXCEPT !.seq = FloorFor(rs)] ELSE cursor
      /\ pass' = [pass EXCEPT ![p] = [pc |-> "repair"]]
      /\ UNCHANGED <<journal, minted, backup, medium, reader, poll>>
  BY DEF RepublishFrom, readVars
<1>2. /\ pass \in [Procs -> Begun \cup Appending] /\ cursor \in Cursors
      /\ Published(journal, cursor.seq, medium)
  BY DEF PubInv, RelayTypeOK, PublishInv
<1>3. pass' \in [Procs -> Begun \cup Appending] /\ \A q \in Procs : pass'[q].pc # "append"
  BY <1>1, <1>2 DEF OneWriter, Begun
<1>4. FloorFor(rs) \in Nat /\ Published(journal, FloorFor(rs), medium)
  BY <1>1, FloorPublished
<1>5. cursor' \in Cursors /\ cursor'.seq \in {FloorFor(rs), cursor.seq}
  BY <1>1, <1>2, <1>4 DEF Cursors
<1>6. Published(journal, cursor'.seq, medium)
  BY <1>2, <1>4, <1>5
<1> QED
  BY <1>1, <1>3, <1>5, <1>6, MediumKept

-----------------------------------------------------------------------------
(* Steps that write.                                                       *)

\* Where a pass that appends stands.
LEMMA AppendFacts ==
    ASSUME PubInv, NEW p \in Procs, pass[p].pc = "append"
    PROVE  LET w == pass[p] IN
           /\ w \in Appending /\ AppendOK(w)
           /\ medium \in Seq(Segments) /\ medium # <<>>
           /\ w.seg = Len(medium) /\ Len(medium) \in 1..Len(medium)
           /\ medium[Len(medium)] = Newest /\ Newest \in Segments
<1>1. pass[p] \in Appending
  BY AppendingPass DEF PubInv
<1>2. AppendOK(pass[p])
  BY DEF PubInv, PublishInv
<1>3. medium \in Seq(Segments)
  BY DEF PubInv, RelayTypeOK
<1>4. medium # <<>> /\ Len(medium) \in 1..Len(medium) /\ Len(medium) \in Nat
  BY <1>2, <1>3 DEF AppendOK
<1>5. medium[Len(medium)] \in Segments
  BY <1>3, <1>4
<1> QED
  BY <1>1, <1>2, <1>3, <1>4, <1>5 DEF Newest, AppendOK

\* Any frame put behind the newest segment keeps what the files promise.
LEMMA PutOK ==
    ASSUME PubInv, NEW p \in Procs, pass[p].pc = "append", minted' = minted,
           NEW rec \in Recs, rec.ev <= minted, medium' = Put(pass[p].seg, rec)
    PROVE  /\ medium' \in Seq(Segments) /\ Grows(medium, medium') /\ SegmentsOK'
           /\ EpochsRise' => SequencesRiseIn(medium')
           /\ \A ev : Carried(medium', ev) => Carried(medium, ev) \/ ev = rec.ev
           /\ Len(medium') = Len(medium)
<1> DEFINE n == Len(medium)
<1>1. medium \in Seq(Segments) /\ medium # <<>> /\ pass[p].seg = n /\ n \in 1..n /\ n \in Nat
  BY AppendFacts
<1>2. medium' = [medium EXCEPT ![n].recs = Append(@, rec)]
  BY <1>1 DEF Put
<1>3. /\ medium' \in Seq(Segments) /\ Len(medium') = n
      /\ medium'[n] = Extended(medium[n], rec)
      /\ \A i \in 1..n : i # n => medium'[i] = medium[i]
      /\ Grows(medium, medium')
      /\ \A ev : Carried(medium', ev) => Carried(medium, ev) \/ ev = rec.ev
      /\ SequencesRiseIn(medium) => SequencesRiseIn(medium')
  <2> DEFINE m2 == [medium EXCEPT ![n].recs = Append(@, rec)]
  <2>1. /\ m2 \in Seq(Segments) /\ Len(m2) = n
        /\ m2[n] = Extended(medium[n], rec)
        /\ \A i \in 1..n : i # n => m2[i] = medium[i]
        /\ Grows(medium, m2)
        /\ \A ev : Carried(m2, ev) => Carried(medium, ev) \/ ev = rec.ev
        /\ SequencesRiseIn(medium) => SequencesRiseIn(m2)
    BY <1>1, RecordAdded
  <2>2. medium' = m2
    BY <1>2
  <2> HIDE DEF m2, n
  <2> QED
    BY <2>1, <2>2
<1>4. EpochsRise' => SequencesRiseIn(medium')
  BY <1>1, <1>3, GrowsEpochs DEF PubInv, EpochsRise
<1>5. medium[n] \in Segments /\ SegmentOK(medium[n]) /\ medium[n].header
  <2>1. medium[n] \in Segments /\ SegmentOK(medium[n])
    BY <1>1 DEF PubInv, SegmentsOK
  <2>2. medium[n].header
    BY AppendFacts, Zenon DEF AppendOK
  <2> QED
    BY <2>1, <2>2
<1>6. ASSUME NEW i \in 1..n
      PROVE  /\ IF medium'[i].header THEN medium'[i].epoch >= 1 /\ medium'[i].first >= 1
                ELSE medium'[i].recs = <<>>
             /\ \A k \in 1..Len(medium'[i].recs) : medium'[i].recs[k].ev <= minted
  <2>1. CASE i # n
    BY <2>1, <1>3 DEF PubInv, SegmentsOK, SegmentOK
  <2>2. CASE i = n
    <3> DEFINE s == medium[n]
               t == Extended(s, rec)
    <3>1. s \in Segments /\ SegmentOK(s) /\ s.header /\ Len(s.recs) \in Nat
      BY <1>5 DEF Segments
    <3>2. /\ t.epoch = s.epoch /\ t.first = s.first /\ t.header = s.header
          /\ Len(t.recs) = Len(s.recs) + 1
          /\ \A k \in 1..Len(s.recs) : t.recs[k] = s.recs[k]
          /\ t.recs[Len(s.recs) + 1] = rec
      BY <3>1, AppendToSegment
    <3>3. medium'[i] = t
      BY <2>2, <1>3
    <3> HIDE DEF s, t
    <3>4. \A k \in 1..Len(t.recs) : k \in 1..Len(s.recs) \/ k = Len(s.recs) + 1
      BY <3>1, <3>2
    <3> QED
      BY <3>1, <3>2, <3>3, <3>4 DEF SegmentOK
  <2> QED
    BY <2>1, <2>2
<1>7. SegmentsOK'
  BY <1>3, <1>6 DEF SegmentsOK, SegmentOK
<1> QED
  BY <1>3, <1>4, <1>7

LEMMA StepAppendRecord ==
    ASSUME OneWriter, PubInv, NEW p \in Procs, AppendRecord(p)
    PROVE  PubInv' /\ Grows(medium, medium')
<1> DEFINE w == pass[p]
           n == w.from + w.done
           rec == [rs |-> w.nextRS, ev |-> journal[n + 1]]
           moved == [w EXCEPT !.done = @ + 1, !.nextRS = @ + 1, !.recs = @ + 1]
<1>1. /\ w.pc = "append" /\ n < w.upto
      /\ medium' = Put(w.seg, rec)
      /\ pass' = [pass EXCEPT ![p].done = @ + 1, ![p].nextRS = @ + 1, ![p].recs = @ + 1]
      /\ UNCHANGED <<journal, minted, cursor, backup, reader, poll>>
  BY DEF AppendRecord, readVars
<1>2. /\ w \in Appending /\ AppendOK(w) /\ medium \in Seq(Segments) /\ medium # <<>>
      /\ w.seg = Len(medium) /\ Len(medium) \in 1..Len(medium)
      /\ medium[Len(medium)] = Newest /\ Newest \in Segments
  BY <1>1, AppendFacts
<1>3. /\ w.from \in Nat /\ w.done \in Nat /\ w.upto \in Nat /\ w.recs \in Nat /\ n \in Nat
      /\ w.nextRS \in Nat \ {0} /\ w.epoch \in Nat \ {0} /\ w.seg \in Nat
  BY <1>2 DEF Appending
<1>4. /\ journal \in Seq(1..minted) /\ minted \in Nat /\ cursor \in Cursors
      /\ pass \in [Procs -> Begun \cup Appending]
      /\ Published(journal, cursor.seq, medium)
  BY DEF PubInv, RelayTypeOK, PublishInv
<1>5. /\ w.upto <= Len(journal) /\ Published(journal, n, medium)
      /\ Newest.header /\ Newest.epoch = w.epoch
      /\ Delivered(Newest) = Len(Newest.recs) /\ Len(Newest.recs) = w.recs
      /\ Newest.first + w.recs = w.nextRS
  BY <1>2 DEF AppendOK
<1>6. n + 1 \in 1..Len(journal) /\ journal[n + 1] \in 1..minted
  <2>1. n \in Nat /\ n < w.upto /\ w.upto <= Len(journal) /\ w.upto \in Nat
    BY <1>1, <1>3, <1>5
  <2> HIDE DEF w, n
  <2> QED
    BY <2>1, <1>4
<1>7. rec \in Recs /\ rec.ev <= minted /\ rec.rs = w.nextRS /\ rec.ev = journal[n + 1]
  BY <1>3, <1>4, <1>6 DEF Recs
<1>8. /\ pass'[p].from = w.from /\ pass'[p].upto = w.upto
      /\ pass'[p].done = w.done + 1 /\ pass'[p].seg = w.seg
      /\ pass'[p].epoch = w.epoch /\ pass'[p].nextRS = w.nextRS + 1
      /\ pass'[p].recs = w.recs + 1
  <2>1. pass'[p] = moved
    BY <1>1, <1>4
  <2>2. /\ moved.from = w.from /\ moved.upto = w.upto /\ moved.done = w.done + 1
        /\ moved.seg = w.seg /\ moved.epoch = w.epoch /\ moved.nextRS = w.nextRS + 1
        /\ moved.recs = w.recs + 1
    <3> HIDE DEF w
    <3> QED
      BY <1>2 DEF Appending
  <2> HIDE DEF moved
  <2> QED
    BY <2>1, <2>2
<1>9. pass' \in [Procs -> Begun \cup Appending] /\ \A q \in Procs : q = p
  <2>1. pass' = [pass EXCEPT ![p] = moved]
    BY <1>1, <1>4
  <2>2. moved \in Appending
    <3>1. w \in Appending
      BY <1>2
    <3>2. w.done + 1 \in Nat /\ w.nextRS + 1 \in Nat \ {0} /\ w.recs + 1 \in Nat
      BY <1>3
    <3> HIDE DEF w
    <3> QED
      BY <3>1, <3>2 DEF Appending
  <2> HIDE DEF moved
  <2> QED
    BY <2>1, <2>2, <1>4 DEF OneWriter
<1> HIDE DEF rec
<1>10. /\ medium' \in Seq(Segments) /\ Grows(medium, medium') /\ SegmentsOK'
       /\ EpochsRise' => SequencesRiseIn(medium')
       /\ \A ev : Carried(medium', ev) => Carried(medium, ev) \/ ev = rec.ev
       /\ Len(medium') = Len(medium)
  <2>1. pass[p].pc = "append" /\ minted' = minted /\ medium' = Put(pass[p].seg, rec)
    BY <1>1
  <2> HIDE DEF w, n
  <2> QED
    BY <2>1, <1>7, PutOK
<1>11. medium' = [medium EXCEPT ![Len(medium)].recs = Append(@, rec)]
  BY <1>1, <1>2 DEF Put
<1>12. /\ Carried(medium', rec.ev)
       /\ Delivered(medium'[Len(medium)]) = Len(medium'[Len(medium)].recs)
       /\ Len(medium'[Len(medium)].recs) = Len(medium[Len(medium)].recs) + 1
  <2> DEFINE l == Len(medium)
             m2 == [medium EXCEPT ![l].recs = Append(@, rec)]
  <2>1. /\ medium[l].header /\ Delivered(medium[l]) = Len(medium[l].recs)
        /\ rec.rs = medium[l].first + Len(medium[l].recs)
    BY <1>2, <1>5, <1>7
  <2>2. /\ Carried(m2, rec.ev)
        /\ Delivered(m2[l]) = Len(m2[l].recs)
        /\ Len(m2[l].recs) = Len(medium[l].recs) + 1
    BY <1>2, <1>7, <2>1, RecordCarried
  <2>3. medium' = m2
    BY <1>11
  <2> HIDE DEF m2
  <2> QED
    BY <2>2, <2>3
<1>13. /\ Newest' = medium'[Len(medium)]
       /\ Newest'.header = Newest.header /\ Newest'.epoch = Newest.epoch
       /\ Newest'.first = Newest.first
  BY <1>2, <1>10 DEF Newest, Grows
<1> HIDE DEF w, n
<1>14. Published(journal, n + 1, medium')
  <2>1. Published(journal, n, medium')
    BY <1>2, <1>5, <1>10, GrowsPublished
  <2>2. \A i \in 1..(n + 1) : i \in 1..n \/ i = n + 1
    BY <1>3
  <2>3. n + 1 <= Len(journal) /\ Carried(medium', journal[n + 1])
    BY <1>4, <1>6, <1>7, <1>12
  <2> QED
    BY <2>1, <2>2, <2>3 DEF Published
<1>15. NoneAlone'
  <2> SUFFICES ASSUME NEW i \in 1..Len(journal), journal[i] = rec.ev, NEW h \in 1..(i - 1)
               PROVE  Carried(medium, journal[h])
    BY <1>1, <1>10, NoneAloneKept
  <2>1. i = n + 1
    BY <1>6, <1>7, OnePlace
  <2>2. h \in 1..n
    BY <2>1, <1>3
  <2> QED
    BY <2>2, <1>5 DEF Published
<1>16. Published(journal, cursor'.seq, medium')
  BY <1>1, <1>2, <1>4, <1>10, GrowsPublished
<1>17. AppendOK(pass[p])'
  <2> DEFINE v == pass'[p]
  <2>1. v.from + v.done = n + 1 /\ n + 1 <= w.upto
    BY <1>1, <1>3, <1>8 DEF n
  <2>2. /\ v.from + v.done <= v.upto /\ v.upto <= Len(journal)
        /\ Published(journal, v.from + v.done, medium')
    BY <2>1, <1>5, <1>8, <1>14
  <2>3. v.seg = Len(medium') /\ v.seg >= 1
    BY <1>2, <1>8, <1>10
  <2>4. /\ Newest'.header /\ Newest'.epoch = v.epoch
        /\ Delivered(Newest') = Len(Newest'.recs) /\ Len(Newest'.recs) = v.recs
        /\ Newest'.first + v.recs = v.nextRS
    <3>1. Newest.first \in Nat
      BY <1>2 DEF Segments
    <3>2. Newest'.header /\ Newest'.epoch = v.epoch
      BY <1>5, <1>8, <1>13
    <3>3. Delivered(Newest') = Len(Newest'.recs) /\ Len(Newest'.recs) = v.recs
      BY <1>2, <1>5, <1>8, <1>12, <1>13
    <3>4. Newest'.first + v.recs = v.nextRS
      <4>1. Newest'.first = Newest.first /\ v.recs = w.recs + 1 /\ v.nextRS = w.nextRS + 1
        BY <1>8, <1>13
      <4>2. Newest.first + (w.recs + 1) = w.nextRS + 1
        BY <3>1, <1>3, <1>5
      <4> QED
        BY <4>1, <4>2
    <3> QED
      BY <3>2, <3>3, <3>4
  <2> QED
    BY <2>2, <2>3, <2>4, <1>1 DEF AppendOK
<1> QED
  BY <1>1, <1>4, <1>9, <1>10, <1>15, <1>16, <1>17, PublishStep

\* An empty file behind the newest, whole or without its header.
LEMMA FileAdded ==
    ASSUME PubInv, UNCHANGED <<journal, minted>>, NEW s \in Segments, s.recs = <<>>,
           IF s.header THEN s.epoch >= 1 /\ s.first >= 1 ELSE TRUE, medium' = Append(medium, s)
    PROVE  /\ medium' \in Seq(Segments) /\ Grows(medium, medium') /\ SegmentsOK' /\ NoneAlone'
           /\ Len(medium') = Len(medium) + 1 /\ Newest' = s
<1>1. medium \in Seq(Segments) /\ Len(medium) \in Nat
  BY DEF PubInv, RelayTypeOK
<1>2. /\ medium' \in Seq(Segments) /\ Len(medium') = Len(medium) + 1 /\ medium'[Len(medium')] = s
      /\ \A i \in 1..Len(medium) : medium'[i] = medium[i]
      /\ Grows(medium, medium')
      /\ \A ev : Carried(medium', ev) => Carried(medium, ev)
  <2> DEFINE m2 == Append(medium, s)
  <2>1. /\ m2 \in Seq(Segments) /\ Len(m2) = Len(medium) + 1 /\ m2[Len(m2)] = s
        /\ \A i \in 1..Len(medium) : m2[i] = medium[i]
        /\ Grows(medium, m2)
        /\ \A ev : Carried(m2, ev) => Carried(medium, ev)
    BY <1>1, SegmentAdded
  <2>2. medium' = m2
    OBVIOUS
  <2> HIDE DEF m2
  <2> QED
    BY <2>1, <2>2
<1>3. ASSUME NEW i \in 1..Len(medium')
      PROVE  /\ IF medium'[i].header THEN medium'[i].epoch >= 1 /\ medium'[i].first >= 1
                ELSE medium'[i].recs = <<>>
             /\ \A k \in 1..Len(medium'[i].recs) : medium'[i].recs[k].ev <= minted
  <2>1. CASE i \in 1..Len(medium)
    BY <2>1, <1>2 DEF PubInv, SegmentsOK, SegmentOK
  <2>2. CASE i = Len(medium')
    <3>1. medium'[i] = s /\ Len(s.recs) = 0
      BY <2>2, <1>2
    <3> QED
      BY <3>1
  <2> QED
    BY <2>1, <2>2, <1>1, <1>2
<1>4. SegmentsOK'
  BY <1>3 DEF SegmentsOK, SegmentOK
<1>5. NoneAlone'
  <2> SUFFICES ASSUME NEW h \in 1..Len(journal), NEW i \in 1..Len(journal), h < i,
                      Carried(medium', journal[i])
               PROVE  Carried(medium', journal[h])
    BY DEF NoneAlone
  <2>1. Carried(medium, journal[h])
    BY <1>2 DEF PubInv, PublishInv, NoneAlone
  <2> QED
    BY <2>1, <1>1, <1>2, GrowsCarries
<1> QED
  BY <1>2, <1>4, <1>5 DEF Newest

LEMMA StepRotate ==
    ASSUME OneWriter, PubInv, NEW p \in Procs, Rotate(p)
    PROVE  PubInv' /\ Grows(medium, medium')
<1> DEFINE w == pass[p]
<1>1. /\ w.pc = "append"
      /\ UNCHANGED <<journal, minted, backup, reader, poll>>
  BY DEF Rotate, readVars
<1>2. /\ w \in Appending /\ AppendOK(w) /\ medium \in Seq(Segments) /\ medium # <<>>
      /\ w.seg = Len(medium) /\ Len(medium) \in 1..Len(medium)
      /\ medium[Len(medium)] = Newest /\ Newest \in Segments
  BY <1>1, AppendFacts
<1>3. /\ medium' = Append(medium, NewSegment(w.epoch, w.nextRS))
      /\ pass' = [pass EXCEPT ![p].seg = @ + 1, ![p].recs = 0]
      /\ UNCHANGED cursor
  BY <1>2 DEF Rotate
<1>4. /\ cursor \in Cursors /\ pass \in [Procs -> Begun \cup Appending]
      /\ Published(journal, cursor.seq, medium) /\ (EpochsRise => SequencesRiseIn(medium))
  BY DEF PubInv, RelayTypeOK, PublishInv
<1> DEFINE e == w.epoch
           f == w.nextRS
           moved == [w EXCEPT !.seg = @ + 1, !.recs = 0]
<1>5. /\ e \in Nat \ {0} /\ f \in Nat \ {0} /\ w.seg \in Nat
      /\ moved \in Appending /\ moved.from = w.from /\ moved.done = w.done /\ moved.upto = w.upto
      /\ moved.epoch = e /\ moved.nextRS = f /\ moved.seg = w.seg + 1 /\ moved.recs = 0
  <2>1. w \in Appending
    BY <1>2
  <2> HIDE DEF w
  <2>2. w.epoch \in Nat \ {0} /\ w.nextRS \in Nat \ {0} /\ w.seg \in Nat /\ w.seg + 1 \in Nat
    BY <2>1 DEF Appending
  <2>3. moved \in Appending
    BY <2>1, <2>2 DEF Appending
  <2>4. /\ moved.from = w.from /\ moved.done = w.done /\ moved.upto = w.upto
        /\ moved.epoch = w.epoch /\ moved.nextRS = w.nextRS /\ moved.seg = w.seg + 1
        /\ moved.recs = 0
    BY <2>1 DEF Appending
  <2> QED
    BY <2>2, <2>3, <2>4
<1>6. pass' = [pass EXCEPT ![p] = moved]
  BY <1>3, <1>4
<1> HIDE DEF moved, e, f
<1>7. /\ pass'[p] = moved /\ pass' \in [Procs -> Begun \cup Appending] /\ \A q \in Procs : q = p
  BY <1>4, <1>5, <1>6 DEF OneWriter
<1> DEFINE s == NewSegment(e, f)
<1>8. /\ s \in Segments /\ s.epoch = e /\ s.first = f /\ s.header /\ s.recs = <<>>
      /\ Len(s.recs) = 0 /\ Delivered(s) = 0
  BY <1>5, NewSegmentFacts
<1>9. medium' = Append(medium, s)
  BY <1>3 DEF e, f
<1>10. /\ medium' \in Seq(Segments) /\ Grows(medium, medium') /\ SegmentsOK' /\ NoneAlone'
       /\ Len(medium') = Len(medium) + 1 /\ Newest' = s
  <2>1. IF s.header THEN s.epoch >= 1 /\ s.first >= 1 ELSE TRUE
    BY <1>5, <1>8
  <2>2. UNCHANGED <<journal, minted>> /\ s \in Segments /\ s.recs = <<>>
    BY <1>1, <1>8
  <2> HIDE DEF s
  <2> QED
    BY <1>9, <2>1, <2>2, FileAdded
<1>11. EpochsRise' => SequencesRiseIn(medium')
  <2>1. GoesOn(medium, e, f)
    <3>1. Newest.header /\ f = Newest.first + Delivered(Newest)
      BY <1>2 DEF AppendOK, e, f
    <3> QED
      BY <3>1, <1>2 DEF GoesOn, ResumeRS
  <2>2. EpochsRiseIn(medium) => SequencesRiseIn(medium)
    BY <1>4 DEF EpochsRise
  <2> SUFFICES ASSUME EpochsRiseIn(medium') PROVE SequencesRiseIn(medium')
    BY DEF EpochsRise
  <2>3. EpochsRiseIn(Append(medium, NewSegment(e, f))) /\ e \in Nat /\ f \in Nat
    BY <1>5, <1>9
  <2>4. medium \in Seq(Segments)
    BY <1>2
  <2>5. SequencesRiseIn(Append(medium, NewSegment(e, f)))
    <3> HIDE DEF s, w
    <3> QED
      BY <2>1, <2>2, <2>3, <2>4, SegmentRises
  <2> QED
    BY <2>5, <1>9
<1>12. Published(journal, w.from + w.done, medium') /\ Published(journal, cursor'.seq, medium')
  <2>1. Published(journal, w.from + w.done, medium) /\ Published(journal, cursor.seq, medium)
    BY <1>2, <1>4 DEF AppendOK
  <2>2. cursor'.seq = cursor.seq /\ medium \in Seq(Segments)
    BY <1>2, <1>3
  <2> HIDE DEF w, s
  <2> DEFINE n == w.from + w.done
  <2>3. Published(journal, n, medium')
    <3>1. Published(journal, n, medium)
      BY <2>1
    <3> HIDE DEF n
    <3> QED
      BY <3>1, <2>2, <1>10, GrowsPublished
  <2> QED
    BY <2>1, <2>2, <2>3, <1>10, GrowsPublished
<1>13. AppendOK(pass[p])'
  <2> DEFINE v == pass'[p]
  <2>1. /\ v.from + v.done <= v.upto /\ v.upto <= Len(journal)
        /\ Published(journal, v.from + v.done, medium')
    <3>1. v.from = w.from /\ v.done = w.done /\ v.upto = w.upto
      BY <1>5, <1>7
    <3>2. w.from + w.done <= w.upto /\ w.upto <= Len(journal)
      BY <1>2 DEF AppendOK
    <3> QED
      BY <3>1, <3>2, <1>12
  <2>2. v.seg = Len(medium') /\ v.seg >= 1
    <3>1. v.seg = w.seg + 1 /\ w.seg \in Nat /\ w.seg = Len(medium) /\ Len(medium') = Len(medium) + 1
      BY <1>2, <1>5, <1>7, <1>10
    <3> HIDE DEF v, w
    <3> QED
      BY <3>1
  <2>3. /\ Newest'.header /\ Newest'.epoch = v.epoch
        /\ Delivered(Newest') = Len(Newest'.recs) /\ Len(Newest'.recs) = v.recs
        /\ Newest'.first + v.recs = v.nextRS
    <3>1. Newest' = s /\ v.recs = 0 /\ v.nextRS = f /\ v.epoch = e /\ f \in Nat
      BY <1>5, <1>7, <1>10
    <3> HIDE DEF s, v
    <3> QED
      BY <3>1, <1>8
  <2> QED
    BY <2>1, <2>2, <2>3, <1>1 DEF AppendOK
<1> QED
  BY <1>1, <1>3, <1>4, <1>7, <1>10, <1>11, <1>12, <1>13, PublishStep

LEMMA TornFacts == Torn \in Recs /\ Torn.ev = 0 /\ Torn.rs = 0
BY DEF Torn, Recs

\* Half a frame is on no scan and of no event.
LEMMA TornPut ==
    ASSUME PubInv, NEW p \in Procs, pass[p].pc = "append", UNCHANGED <<journal, minted>>,
           medium' = Put(pass[p].seg, Torn)
    PROVE  /\ medium' \in Seq(Segments) /\ Grows(medium, medium') /\ SegmentsOK' /\ NoneAlone'
           /\ EpochsRise' => SequencesRiseIn(medium')
<1>1. minted \in Nat /\ journal \in Seq(1..minted)
  BY DEF PubInv, RelayTypeOK
<1>2. /\ medium' \in Seq(Segments) /\ Grows(medium, medium') /\ SegmentsOK'
      /\ EpochsRise' => SequencesRiseIn(medium')
      /\ \A ev : Carried(medium', ev) => Carried(medium, ev) \/ ev = 0
  <2>1. Torn.ev <= minted /\ minted' = minted
    BY <1>1, TornFacts
  <2> QED
    BY <2>1, TornFacts, PutOK
<1>3. \A i \in 1..Len(journal) : journal[i] # 0
  BY <1>1
<1>4. NoneAlone'
  BY <1>2, <1>3, NoneAloneKept
<1> QED
  BY <1>2, <1>4

LEMMA StepAppendFails ==
    ASSUME OneWriter, PubInv, NEW p \in Procs, AppendFails(p)
    PROVE  PubInv' /\ Grows(medium, medium')
<1>1. /\ pass[p].pc = "append" /\ cursor' = Banked(pass[p])
      /\ medium' = medium \/ medium' = Put(pass[p].seg, Torn)
      /\ pass' = [pass EXCEPT ![p] = Idle]
      /\ UNCHANGED <<journal, minted, backup, reader, poll>>
  BY DEF AppendFails, readVars
<1>2. pass \in [Procs -> Begun \cup Appending] /\ medium \in Seq(Segments)
  BY DEF PubInv, RelayTypeOK
<1>3. pass' \in [Procs -> Begun \cup Appending] /\ \A q \in Procs : pass'[q].pc # "append"
  BY <1>1, <1>2 DEF OneWriter, Begun, Idle
<1>4. cursor' \in Cursors /\ Published(journal, cursor'.seq, medium)
  BY <1>1, BankedOK
<1>5. CASE medium' = medium
  BY <1>1, <1>3, <1>4, <1>5, MediumKept
<1>6. CASE medium' = Put(pass[p].seg, Torn)
  <2>1. /\ medium' \in Seq(Segments) /\ Grows(medium, medium') /\ SegmentsOK' /\ NoneAlone'
        /\ EpochsRise' => SequencesRiseIn(medium')
    BY <1>1, <1>6, TornPut
  <2>2. Published(journal, cursor'.seq, medium')
    BY <2>1, <1>2, <1>4, GrowsPublished
  <2> QED
    BY <2>1, <2>2, <1>1, <1>3, <1>4, PublishStep
<1> QED
  BY <1>1, <1>5, <1>6

LEMMA StepDie ==
    ASSUME OneWriter, PubInv, NEW p \in Procs, Die(p)
    PROVE  PubInv' /\ Grows(medium, medium')
<1>1. /\ pass' = [pass EXCEPT ![p] = Idle]
      /\ UNCHANGED <<journal, minted, cursor, backup, reader, poll>>
      /\ \/ medium' = medium
         \/ pass[p].pc = "append" /\ medium' = Put(pass[p].seg, Torn)
         \/ medium' = Append(medium, ShortSegment)
  BY DEF Die, readVars
<1>2. /\ pass \in [Procs -> Begun \cup Appending] /\ medium \in Seq(Segments)
      /\ cursor \in Cursors /\ Published(journal, cursor.seq, medium)
  BY DEF PubInv, RelayTypeOK, PublishInv
<1>3. pass' \in [Procs -> Begun \cup Appending] /\ \A q \in Procs : pass'[q].pc # "append"
  BY <1>1, <1>2 DEF OneWriter, Begun, Idle
<1>4. CASE medium' = medium
  BY <1>1, <1>2, <1>3, <1>4, MediumKept
<1>5. ASSUME medium' \in Seq(Segments), Grows(medium, medium'), SegmentsOK', NoneAlone',
             EpochsRise' => SequencesRiseIn(medium')
      PROVE  PubInv'
  <2>1. Published(journal, cursor'.seq, medium')
    BY <1>1, <1>2, <1>5, GrowsPublished
  <2> QED
    BY <2>1, <1>1, <1>2, <1>3, <1>5, PublishStep
<1>6. CASE pass[p].pc = "append" /\ medium' = Put(pass[p].seg, Torn)
  BY <1>1, <1>5, <1>6, TornPut
<1>7. CASE medium' = Append(medium, ShortSegment)
  <2>1. ShortSegment \in Segments /\ ShortSegment.recs = <<>> /\ ShortSegment.header = FALSE
    <3>1. <<>> \in Seq(Recs)
      OBVIOUS
    <3> QED
      BY <3>1 DEF ShortSegment, Segments
  <2>2. /\ medium' \in Seq(Segments) /\ Grows(medium, medium') /\ SegmentsOK' /\ NoneAlone'
        /\ Len(medium') = Len(medium) + 1
    BY <2>1, <1>1, <1>7, FileAdded
  <2>3. /\ medium'[Len(medium')] = ShortSegment
        /\ \A i \in 1..Len(medium) : medium'[i] = medium[i]
        /\ Len(medium) \in Nat
    BY <2>1, <1>2, <1>7
  <2>4. EpochsRise' => SequencesRiseIn(medium')
    <3> SUFFICES ASSUME EpochsRiseIn(medium'),
                        NEW i \in 1..Len(medium'), NEW j \in 1..Len(medium'), i < j,
                        medium'[i].header, medium'[j].header, medium'[i].epoch = medium'[j].epoch
                 PROVE  ResumeRS(medium'[i]) <= medium'[j].first
      BY DEF EpochsRise, SequencesRiseIn
    <3>1. j # Len(medium')
      BY <2>1, <2>3
    <3>2. i \in 1..Len(medium) /\ j \in 1..Len(medium)
      BY <3>1, <2>2, <2>3
    <3>3. SequencesRiseIn(medium)
      BY <1>2, <2>2, GrowsEpochs DEF PubInv, EpochsRise
    <3> QED
      BY <3>2, <3>3, <2>3 DEF SequencesRiseIn
  <2> QED
    BY <2>2, <2>4, <1>5
<1> QED
  BY <1>1, <1>4, <1>6, <1>7

\* What a publisher takes the tail for: where it goes on, in which epoch, and
\* in the newest file only if that is whole.
LEMMA TailFacts ==
    ASSUME PubInv, TailState(cursor).ok
    PROVE  LET t == TailState(cursor) IN
           /\ t.rs \in Nat \ {0} /\ t.epoch \in Nat \ {0} /\ t.new \in BOOLEAN
           /\ GoesOn(medium, t.epoch, t.rs)
           /\ ~t.new => /\ medium # <<>> /\ Newest.header /\ Newest.epoch = t.epoch
                        /\ Delivered(Newest) = Len(Newest.recs)
<1> DEFINE t == TailState(cursor)
<1>1. cursor \in Cursors /\ medium \in Seq(Segments) /\ SegmentsOK
  BY DEF PubInv, RelayTypeOK
<1>2. cursor.epoch \in Nat \ {0} /\ cursor.nextRS \in Nat \ {0} /\ cursor.nextRS # 0
  BY <1>1 DEF Cursors
<1>3. CASE medium = <<>>
  <2>1. t = [ok |-> TRUE, new |-> TRUE, epoch |-> cursor.epoch, rs |-> cursor.nextRS]
    BY <1>2, <1>3 DEF TailState
  <2>2. t.rs = cursor.nextRS /\ t.epoch = cursor.epoch /\ t.new = TRUE
    BY <2>1
  <2> HIDE DEF t
  <2>3. GoesOn(medium, t.epoch, t.rs)
    BY <1>3 DEF GoesOn
  <2> QED
    BY <2>2, <2>3, <1>2 DEF t
<1>4. CASE medium # <<>>
  <2>1. Len(medium) \in 1..Len(medium)
    BY <1>1, <1>4
  <2>2. /\ Newest \in Segments /\ SegmentOK(Newest)
        /\ Newest.first \in Nat /\ Delivered(Newest) \in 0..Len(Newest.recs)
        /\ Len(Newest.recs) \in Nat
    BY <1>1, <2>1, MediumFacts DEF Newest, SegmentsOK
  <2>3. ~Condemned(Newest, FALSE)
    <3>1. t.ok
      OBVIOUS
    <3>2. Condemned(Newest, FALSE) => t = [ok |-> FALSE]
      BY <1>4 DEF TailState
    <3> HIDE DEF t
    <3>3. t = [ok |-> FALSE] => ~t.ok
      OBVIOUS
    <3> QED
      BY <3>1, <3>2, <3>3
  <2>4. Newest.header /\ ~Gap(Newest)
    BY <2>3 DEF Condemned
  <2>5. Newest.first >= 1 /\ ResumeRS(Newest) \in Nat \ {0}
    BY <2>2, <2>4 DEF SegmentOK, ResumeRS
  <2>6. CASE cursor.epoch # Newest.epoch
    <3>1. t = [ok |-> cursor.nextRS # 0, new |-> TRUE, epoch |-> cursor.epoch, rs |-> cursor.nextRS]
      BY <1>4, <2>3, <2>6 DEF TailState
    <3>2. t.rs = cursor.nextRS /\ t.epoch = cursor.epoch /\ t.new = TRUE
      BY <3>1
    <3> HIDE DEF t
    <3>3. GoesOn(medium, t.epoch, t.rs)
      BY <2>4, <2>6, <3>2 DEF GoesOn, Newest
    <3> QED
      BY <3>2, <3>3, <1>2 DEF t
  <2>7. CASE cursor.epoch = Newest.epoch
    <3>1. t = [ok |-> cursor.nextRS \in {0, ResumeRS(Newest)}, new |-> StopsShort(Newest),
               epoch |-> cursor.epoch, rs |-> ResumeRS(Newest)]
      BY <1>4, <2>3, <2>7 DEF TailState
    <3>2. t.rs = ResumeRS(Newest) /\ t.epoch = cursor.epoch /\ t.new = StopsShort(Newest)
      BY <3>1
    <3> HIDE DEF t
    <3>3. GoesOn(medium, t.epoch, t.rs)
      BY <2>4, <3>2 DEF GoesOn, Newest
    <3>4. StopsShort(Newest) \in BOOLEAN
      BY DEF StopsShort
    <3>5. ~StopsShort(Newest) => Delivered(Newest) = Len(Newest.recs)
      <4>1. ~StopsShort(Newest) => ~(Delivered(Newest) < Len(Newest.recs))
        BY <2>4 DEF Gap
      <4> QED
        BY <4>1, <2>2
    <3>6. t.rs \in Nat \ {0} /\ t.epoch \in Nat \ {0}
      BY <3>2, <1>2, <2>5
    <3>7. t.new \in BOOLEAN
      BY <3>2, <3>4, Zenon
    <3>8. ~t.new => /\ medium # <<>> /\ Newest.header /\ Newest.epoch = t.epoch
                    /\ Delivered(Newest) = Len(Newest.recs)
      BY <3>2, <3>5, <1>4, <2>4, <2>7, Zenon
    <3> QED
      BY <3>3, <3>6, <3>7, <3>8, Zenon DEF t
  <2> QED
    BY <2>6, <2>7
<1> QED
  BY <1>3, <1>4

\* A medium a writer in epoch e may go on with at sequence f, with nothing
\* more on it than there was.
Opened(m, e, f) ==
    /\ m \in Seq(Segments) /\ Grows(medium, m)
    /\ \A i \in 1..Len(m) : SegmentOK(m[i])
    /\ \A ev : Carried(m, ev) => Carried(medium, ev)
    /\ EpochsRiseIn(m) => SequencesRiseIn(m)
    /\ GoesOn(m, e, f)

LEMMA OpenedMore ==
    ASSUME PubInv, NEW m, NEW e \in Nat \ {0}, NEW f \in Nat \ {0}, Opened(m, e, f)
    PROVE  LET m2 == Append(m, NewSegment(e, f)) IN
           /\ Opened(m2, e, f) /\ Len(m2) = Len(m) + 1 /\ m2[Len(m2)] = NewSegment(e, f)
<1> DEFINE s == NewSegment(e, f)
           m2 == Append(m, s)
<1>1. /\ s \in Segments /\ s.epoch = e /\ s.first = f /\ s.header /\ s.recs = <<>>
      /\ Len(s.recs) = 0 /\ ResumeRS(s) = f
  BY NewSegmentFacts
<1>2. m \in Seq(Segments) /\ medium \in Seq(Segments) /\ Grows(medium, m) /\ GoesOn(m, e, f)
  BY DEF Opened, PubInv, RelayTypeOK
<1>3. /\ m2 \in Seq(Segments) /\ Len(m2) = Len(m) + 1 /\ m2[Len(m2)] = s
      /\ \A i \in 1..Len(m) : m2[i] = m[i]
      /\ Grows(m, m2)
      /\ \A ev : Carried(m2, ev) => Carried(m, ev)
  BY <1>1, <1>2, SegmentAdded
<1>4. EpochsRiseIn(m2) => SequencesRiseIn(m2)
  BY <1>2, SegmentRises DEF Opened
<1> HIDE DEF s, m2
<1>5. Grows(medium, m2)
  BY <1>2, <1>3, GrowsTwice
<1>6. ASSUME NEW i \in 1..Len(m2) PROVE SegmentOK(m2[i])
  <2>1. CASE i \in 1..Len(m)
    BY <2>1, <1>3 DEF Opened
  <2>2. CASE i = Len(m2)
    BY <2>2, <1>1, <1>3 DEF SegmentOK
  <2> QED
    BY <2>1, <2>2, <1>2, <1>3
<1>7. GoesOn(m2, e, f)
  BY <1>1, <1>3 DEF GoesOn
<1>8. \A ev : Carried(m2, ev) => Carried(medium, ev)
  BY <1>3 DEF Opened
<1>9. Opened(m2, e, f)
  BY <1>3, <1>4, <1>5, <1>6, <1>7, <1>8 DEF Opened
<1> QED
  BY <1>3, <1>9 DEF s, m2

LEMMA StepOpen ==
    ASSUME OneWriter, PubInv, NEW p \in Procs, Open(p)
    PROVE  PubInv' /\ Grows(medium, medium')
<1> DEFINE w == pass[p]
           t == TailState(cursor)
           e == t.epoch
           f == t.rs
           m1 == IF t.new THEN Append(medium, NewSegment(e, f)) ELSE medium
           m2 == IF w.pc = "repair" THEN Append(m1, NewSegment(e, f)) ELSE m1
           extra == Len(m2) - Len(medium)
           v == Writing(t, extra)
<1>1. /\ Len(journal) > cursor.seq /\ t.ok
      /\ medium' = m2 /\ pass' = [pass EXCEPT ![p] = v]
      /\ UNCHANGED <<journal, minted, cursor, backup, reader, poll>>
  BY DEF Open, CanPublish, readVars
<1>2. /\ medium \in Seq(Segments) /\ Len(medium) \in Nat /\ cursor \in Cursors
      /\ journal \in Seq(1..minted) /\ pass \in [Procs -> Begun \cup Appending]
      /\ Published(journal, cursor.seq, medium) /\ NoneAlone
  BY DEF PubInv, RelayTypeOK, PublishInv
<1>3. /\ f \in Nat \ {0} /\ e \in Nat \ {0} /\ t.new \in BOOLEAN
      /\ GoesOn(medium, e, f)
      /\ ~t.new => /\ medium # <<>> /\ Newest.header /\ Newest.epoch = e
                   /\ Delivered(Newest) = Len(Newest.recs)
  BY <1>1, TailFacts
<1>4. Opened(medium, e, f)
  <2>1. Grows(medium, medium)
    BY <1>2, GrowsSame
  <2> HIDE DEF e, f
  <2> QED
    BY <2>1, <1>2, <1>3 DEF Opened, PubInv, SegmentsOK, EpochsRise
<1>5. /\ v.pc = "append" /\ v.from = cursor.seq /\ v.upto = LastRow /\ v.done = 0
      /\ v.nextRS = f /\ v.epoch = e /\ v.seg = Len(medium) + extra
      /\ v.recs = IF extra = 0 THEN Delivered(Newest) ELSE 0
  BY DEF Writing
<1>6. /\ LastRow \in Nat /\ cursor.seq \in Nat /\ cursor.seq <= LastRow /\ LastRow <= Len(journal)
  <2>1. cursor.seq \in Nat /\ Len(journal) \in Nat /\ BatchLimit \in Nat
    BY <1>2, RelayBounds DEF Cursors
  <2> QED
    BY <2>1, <1>1 DEF LastRow
<1>7. v = [pc |-> "append", from |-> cursor.seq, upto |-> LastRow, done |-> 0,
           nextRS |-> f, epoch |-> e, seg |-> Len(medium) + extra,
           recs |-> IF extra = 0 THEN Delivered(Newest) ELSE 0]
  BY DEF Writing
<1> DEFINE new == NewSegment(e, f)
<1> HIDE DEF t, e, f, v, new
<1>8. /\ Opened(m2, e, f) /\ Len(m2) \in Nat /\ Len(m2) >= Len(medium)
      /\ \/ m2 = medium /\ ~t.new
         \/ Len(m2) > Len(medium) /\ m2[Len(m2)] = new
  <2>1. /\ Opened(m1, e, f) /\ Len(m1) \in Nat
        /\ \/ m1 = medium /\ ~t.new
           \/ Len(m1) > Len(medium) /\ m1[Len(m1)] = new
    <3>1. CASE t.new
      <4>1. m1 = Append(medium, NewSegment(e, f))
        BY <3>1
      <4> DEFINE a == Append(medium, NewSegment(e, f))
      <4>2. Opened(a, e, f) /\ Len(a) = Len(medium) + 1 /\ a[Len(a)] = new
        BY <1>3, <1>4, OpenedMore DEF new
      <4> HIDE DEF a
      <4> QED
        BY <4>2, <1>2, <3>1 DEF a
    <3>2. CASE ~t.new
      BY <3>2, <1>2, <1>4
    <3> QED
      BY <3>1, <3>2
  <2> HIDE DEF m1
  <2>2. CASE w.pc = "repair"
    <3> DEFINE a == Append(m1, NewSegment(e, f))
    <3>1. Opened(a, e, f) /\ Len(a) = Len(m1) + 1 /\ a[Len(a)] = new
      BY <2>1, <1>3, OpenedMore DEF new
    <3>2. m2 = a
      BY <2>2
    <3> HIDE DEF a, m2
    <3>3. Len(m1) >= Len(medium)
      BY <2>1, <1>2
    <3> QED
      BY <2>1, <3>1, <3>2, <3>3, <1>2
  <2>3. CASE w.pc # "repair"
    <3>1. m2 = m1
      BY <2>3
    <3> HIDE DEF m2
    <3> QED
      BY <3>1, <2>1, <1>2
  <2> QED
    BY <2>2, <2>3
<1> HIDE DEF m1, m2
<1>9. /\ medium' \in Seq(Segments) /\ Grows(medium, medium')
      /\ \A ev : Carried(medium', ev) => Carried(medium, ev)
      /\ EpochsRise' => SequencesRiseIn(medium')
      /\ GoesOn(medium', e, f)
  BY <1>1, <1>8 DEF Opened, EpochsRise
<1>10. SegmentsOK'
  BY <1>1, <1>8 DEF Opened, SegmentsOK, SegmentOK
<1>11. NoneAlone'
  <2> SUFFICES ASSUME NEW h \in 1..Len(journal), NEW i \in 1..Len(journal), h < i,
                      Carried(medium', journal[i])
               PROVE  Carried(medium', journal[h])
    BY <1>1 DEF NoneAlone
  <2>1. Carried(medium, journal[h])
    BY <1>2, <1>9 DEF NoneAlone
  <2> QED
    BY <2>1, <1>2, <1>9, GrowsCarries
<1>12. Published(journal, cursor.seq, medium')
  BY <1>2, <1>9, GrowsPublished
<1>13. extra \in Nat /\ Len(medium) + extra = Len(m2)
  BY <1>2, <1>8
<1>14. /\ Newest'.header /\ Newest'.epoch = e /\ Len(medium') >= 1
       /\ Delivered(Newest') = Len(Newest'.recs) /\ Len(Newest'.recs) = v.recs
       /\ Newest'.first + v.recs = f /\ v.recs \in Nat
  <2>1. CASE m2 = medium /\ ~t.new
    <3>1. extra = 0 /\ Newest' = Newest /\ v.recs = Delivered(Newest) /\ medium # <<>>
      BY <2>1, <1>1, <1>2, <1>3, <1>5 DEF Newest
    <3>2. Newest.header /\ Newest.epoch = e /\ Delivered(Newest) = Len(Newest.recs)
      BY <2>1, <1>3
    <3>3. f = ResumeRS(Newest)
      BY <3>1, <3>2, <1>3 DEF GoesOn, Newest
    <3>4. Len(medium) \in 1..Len(medium)
      BY <3>1, <1>2
    <3>5. Delivered(Newest) \in Nat
      BY <3>4, <1>2, MediumFacts DEF Newest
    <3> HIDE DEF extra
    <3> QED
      BY <3>1, <3>2, <3>3, <3>4, <3>5, <2>1, <1>1 DEF ResumeRS
  <2>2. CASE Len(m2) > Len(medium) /\ m2[Len(m2)] = new
    <3>1. extra # 0 /\ Newest' = new
      BY <2>2, <1>1, <1>2, <1>8 DEF Newest
    <3>2. /\ new.header /\ new.epoch = e /\ new.first = f /\ Len(new.recs) = 0 /\ Delivered(new) = 0
      BY <1>3, NewSegmentFacts DEF new
    <3>3. v.recs = 0 /\ Len(medium') >= 1
      BY <3>1, <2>2, <1>1, <1>2, <1>5, <1>8
    <3>4. f \in Nat
      BY <1>3
    <3> HIDE DEF extra
    <3> QED
      BY <3>1, <3>2, <3>3, <3>4
  <2> QED
    BY <2>1, <2>2, <1>8
<1> HIDE DEF extra
<1>15. v \in Appending
  <2>1. Len(medium) + extra \in Nat /\ v.recs \in Nat
    BY <1>2, <1>13, <1>14
  <2>2. (IF extra = 0 THEN Delivered(Newest) ELSE 0) \in Nat
    BY <2>1, <1>5
  <2> QED
    BY <2>1, <2>2, <1>3, <1>6, <1>7 DEF Appending
<1>16. pass'[p] = v /\ pass' \in [Procs -> Begun \cup Appending] /\ \A q \in Procs : q = p
  BY <1>1, <1>2, <1>15 DEF OneWriter
<1>17. AppendOK(pass[p])'
  <2>1. /\ v.from + v.done = cursor.seq /\ v.from + v.done <= v.upto /\ v.upto <= Len(journal)
    BY <1>5, <1>6
  <2>2. v.seg = Len(medium') /\ v.seg >= 1
    BY <1>1, <1>5, <1>13, <1>14
  <2> QED
    BY <2>1, <2>2, <1>1, <1>5, <1>12, <1>14, <1>16 DEF AppendOK
<1> QED
  BY <1>1, <1>2, <1>9, <1>10, <1>11, <1>12, <1>16, <1>17, PublishStep

-----------------------------------------------------------------------------
(* Steps of the store under the publisher.                                 *)

LEMMA StepWriteEvent ==
    ASSUME PubInv, WriteEvent
    PROVE  PubInv' /\ Grows(medium, medium')
<1> DEFINE n == Len(journal)
<1>1. /\ minted' = minted + 1 /\ journal' = Append(journal, minted + 1)
      /\ UNCHANGED <<cursor, backup, medium, pass, reader, poll>>
  BY DEF WriteEvent, readVars
<1>2. /\ minted \in Nat /\ journal \in Seq(1..minted) /\ n \in Nat /\ medium \in Seq(Segments)
      /\ \A i \in 1..n : journal[i] \in 1..minted
  BY DEF PubInv, RelayTypeOK
<1>3. /\ journal' \in Seq(1..minted') /\ Len(journal') = n + 1 /\ journal'[n + 1] = minted + 1
      /\ \A i \in 1..n : journal'[i] = journal[i]
  <2>1. journal \in Seq(1..(minted + 1)) /\ minted + 1 \in 1..(minted + 1)
    BY <1>2
  <2> QED
    BY <2>1, <1>1, <1>2
<1>4. \A x \in Seq(1..minted) : x \in Seq(1..minted')
  BY <1>1, <1>2
<1> HIDE DEF n
<1>5. RelayTypeOK'
  <2>1. backup # NoBackup => backup \in [journal : Seq(1..minted'), cursor : Cursors]
    BY <1>4 DEF PubInv, RelayTypeOK
  <2> QED
    BY <2>1, <1>1, <1>2, <1>3 DEF PubInv, RelayTypeOK
<1>6. SegmentsOK'
  <2>1. \A i \in 1..Len(medium) : \A k \in 1..Len(medium[i].recs) : medium[i].recs[k].ev \in Nat
    <3> SUFFICES ASSUME NEW i \in 1..Len(medium), NEW k \in 1..Len(medium[i].recs)
                 PROVE  medium[i].recs[k].ev \in Nat
      OBVIOUS
    <3>1. medium[i].recs \in Seq(Recs)
      BY <1>2, MediumFacts
    <3>2. medium[i].recs[k] \in Recs
      BY <3>1
    <3> QED
      BY <3>2 DEF Recs
  <2>2. \A i \in 1..Len(medium) : \A k \in 1..Len(medium[i].recs) : medium[i].recs[k].ev <= minted + 1
    BY <2>1, <1>2 DEF PubInv, SegmentsOK, SegmentOK
  <2> QED
    BY <2>2, <1>1 DEF PubInv, SegmentsOK, SegmentOK
<1>7. ASSUME NEW k, Published(journal, k, medium), k \in Nat
      PROVE  Published(journal', k, medium) /\ k <= Len(journal')
  <2>1. k <= n /\ \A i \in 1..k : Carried(medium, journal[i])
    BY <1>7 DEF Published, n
  <2>2. k <= Len(journal') /\ \A i \in 1..k : i \in 1..n /\ journal'[i] = journal[i]
    BY <2>1, <1>2, <1>3, <1>7
  <2> QED
    BY <2>1, <2>2 DEF Published
<1>8. \A h, i \in 1..(n + 1) : h < i => journal'[h] < journal'[i]
  <2> SUFFICES ASSUME NEW h \in 1..(n + 1), NEW i \in 1..(n + 1), h < i
               PROVE  journal'[h] < journal'[i]
    OBVIOUS
  <2>1. h \in 1..n /\ journal'[h] = journal[h] /\ journal[h] \in 1..minted
    BY <1>2, <1>3
  <2>2. CASE i = n + 1
    BY <2>1, <2>2, <1>2, <1>3
  <2>3. CASE i \in 1..n
    BY <2>1, <2>3, <1>3 DEF PubInv, PublishInv, n
  <2> QED
    BY <2>2, <2>3, <1>2
<1>9. NoneAlone'
  <2> SUFFICES ASSUME NEW h \in 1..(n + 1), NEW i \in 1..(n + 1), h < i, Carried(medium, journal'[i])
               PROVE  Carried(medium, journal'[h])
    BY <1>1, <1>3 DEF NoneAlone
  <2>1. h \in 1..n /\ journal'[h] = journal[h]
    BY <1>2, <1>3
  <2>2. i # n + 1
    <3>1. journal'[i] <= minted
      BY CarriedMinted
    <3> QED
      BY <3>1, <1>2, <1>3
  <2>3. i \in 1..n /\ journal'[i] = journal[i]
    BY <2>2, <1>2, <1>3
  <2> QED
    BY <2>1, <2>3 DEF PubInv, PublishInv, NoneAlone, n
<1>10. Published(journal', cursor'.seq, medium')
  <2>1. cursor.seq \in Nat /\ Published(journal, cursor.seq, medium)
    BY DEF PubInv, RelayTypeOK, PublishInv, Cursors
  <2> QED
    BY <2>1, <1>1, <1>7
<1>11. ASSUME backup # NoBackup
       PROVE  /\ Published(backup.journal, backup.cursor.seq, medium)
              /\ Len(backup.journal) <= Len(journal')
              /\ \A i \in 1..Len(backup.journal) : backup.journal[i] = journal'[i]
  <2>1. /\ Published(backup.journal, backup.cursor.seq, medium)
        /\ Len(backup.journal) <= n
        /\ \A i \in 1..Len(backup.journal) : backup.journal[i] = journal[i]
    BY <1>11 DEF PubInv, PublishInv, n
  <2>2. Len(backup.journal) \in Nat
    <3>1. backup.journal \in Seq(1..minted)
      BY <1>11 DEF PubInv, RelayTypeOK
    <3> QED
      BY <3>1
  <2> QED
    BY <2>1, <2>2, <1>2, <1>3
<1>12. ASSUME NEW q \in Procs, pass'[q].pc = "append" PROVE AppendOK(pass[q])'
  <2>1. pass'[q] = pass[q] /\ medium' = medium /\ Newest' = Newest
    BY <1>1 DEF Newest
  <2>2. pass[q] \in Appending /\ AppendOK(pass[q])
    BY <2>1, <1>12, AppendFacts
  <2>3. pass[q].from + pass[q].done \in Nat /\ pass[q].upto \in Nat
    BY <2>2 DEF Appending
  <2>4. Published(journal', pass[q].from + pass[q].done, medium)
    BY <2>2, <2>3, <1>7 DEF AppendOK
  <2>5. pass[q].upto <= Len(journal')
    BY <2>2, <2>3, <1>2, <1>3 DEF AppendOK, n
  <2> QED
    BY <2>1, <2>2, <2>4, <2>5 DEF AppendOK
<1>13. PublishInv'
  BY <1>1, <1>3, <1>8, <1>9, <1>10, <1>11, <1>12 DEF PublishInv
<1>14. PollListed' /\ (EpochsRise' => SequencesRiseIn(medium'))
  BY <1>1 DEF PubInv, PollListed, EpochsRise
<1> QED
  BY <1>1, <1>2, <1>5, <1>6, <1>13, <1>14, GrowsSame DEF PubInv

LEMMA StepTakeBackup ==
    ASSUME PubInv, TakeBackup
    PROVE  PubInv' /\ Grows(medium, medium')
<1>1. /\ backup' = [journal |-> journal, cursor |-> cursor]
      /\ UNCHANGED <<journal, minted, cursor, medium, pass, reader, poll>>
  BY DEF TakeBackup, readVars
<1>2. backup'.journal = journal /\ backup'.cursor = cursor
  BY <1>1
<1>3. RelayTypeOK'
  BY <1>1 DEF PubInv, RelayTypeOK
<1>4. PublishInv'
  <2>1. NoneAlone'
    BY <1>1 DEF PubInv, PublishInv, NoneAlone
  <2>2. \A q \in Procs : pass'[q].pc = "append" => AppendOK(pass[q])'
    BY <1>1 DEF PubInv, PublishInv, AppendOK, Newest
  <2>3. Len(journal) \in Nat
    BY DEF PubInv, RelayTypeOK
  <2> QED
    BY <1>1, <1>2, <2>1, <2>2, <2>3 DEF PubInv, PublishInv
<1>5. SegmentsOK' /\ PollListed' /\ (EpochsRise' => SequencesRiseIn(medium'))
  BY <1>1 DEF PubInv, SegmentsOK, SegmentOK, PollListed, EpochsRise
<1>6. medium \in Seq(Segments)
  BY DEF PubInv, RelayTypeOK
<1> QED
  BY <1>1, <1>3, <1>4, <1>5, <1>6, GrowsSame DEF PubInv

LEMMA StepRestore ==
    ASSUME PubInv, Restore
    PROVE  PubInv' /\ Grows(medium, medium')
<1>1. /\ backup # NoBackup /\ \A p \in Procs : pass[p] = Idle
      /\ journal' = backup.journal /\ cursor' = backup.cursor
      /\ UNCHANGED <<minted, backup, medium, pass, reader, poll>>
  BY DEF Restore, readVars
<1>2. /\ backup.journal \in Seq(1..minted) /\ backup.cursor \in Cursors /\ medium \in Seq(Segments)
      /\ Len(backup.journal) \in Nat /\ Len(journal) \in Nat
  BY <1>1 DEF PubInv, RelayTypeOK
<1>3. RelayTypeOK'
  BY <1>1, <1>2 DEF PubInv, RelayTypeOK
<1>4. /\ Published(backup.journal, backup.cursor.seq, medium)
      /\ Len(backup.journal) <= Len(journal)
      /\ \A i \in 1..Len(backup.journal) : backup.journal[i] = journal[i]
  BY <1>1 DEF PubInv, PublishInv
<1>5. \A i \in 1..Len(journal') : i \in 1..Len(journal) /\ journal'[i] = journal[i]
  BY <1>1, <1>2, <1>4
<1>6. \A h, i \in 1..Len(journal') : h < i => journal'[h] < journal'[i]
  BY <1>5 DEF PubInv, PublishInv
<1>7. NoneAlone'
  BY <1>1, <1>5 DEF PubInv, PublishInv, NoneAlone
<1>8. \A q \in Procs : pass'[q].pc # "append"
  BY <1>1 DEF Idle
<1>9. PublishInv'
  BY <1>1, <1>2, <1>4, <1>6, <1>7, <1>8 DEF PublishInv
<1>10. SegmentsOK' /\ PollListed' /\ (EpochsRise' => SequencesRiseIn(medium'))
  BY <1>1 DEF PubInv, SegmentsOK, SegmentOK, PollListed, EpochsRise
<1> QED
  BY <1>1, <1>2, <1>3, <1>9, <1>10, GrowsSame DEF PubInv

\* A reader's step touches nothing of the publisher's.
LEMMA ReaderStep ==
    ASSUME PubInv, UNCHANGED pubVars, reader' \in Positions, poll' = NoPoll \/ poll' \in Polls,
           PollListed'
    PROVE  PubInv'
<1>1. UNCHANGED <<journal, minted, cursor, backup, medium, pass>>
  BY DEF pubVars
<1>2. RelayTypeOK'
  BY <1>1 DEF PubInv, RelayTypeOK
<1>3. NoneAlone'
  BY <1>1 DEF PubInv, PublishInv, NoneAlone
<1>4. \A q \in Procs : pass'[q].pc = "append" => AppendOK(pass[q])'
  BY <1>1 DEF PubInv, PublishInv, AppendOK, Newest
<1>5. PublishInv'
  BY <1>1, <1>3, <1>4 DEF PubInv, PublishInv
<1>6. SegmentsOK' /\ (EpochsRise' => SequencesRiseIn(medium'))
  BY <1>1 DEF PubInv, SegmentsOK, SegmentOK, EpochsRise
<1> QED
  BY <1>2, <1>5, <1>6 DEF PubInv

-----------------------------------------------------------------------------
(* The reader's steps: types.                                              *)

\* The segment a poll stands at, and what a scan of it gives.
LEMMA AtSegment ==
    ASSUME PubInv, poll.on
    PROVE  LET s == medium[poll.at] IN
           /\ poll \in Polls /\ poll.pos \in Positions /\ poll.n \in Nat /\ poll.at \in Nat
           /\ poll.at \in 1..Len(medium) /\ poll.at \in 1..poll.n /\ poll.n <= Len(medium)
           /\ s \in Segments /\ SegmentOK(s) /\ s.first \in Nat /\ s.epoch \in Nat
           /\ Delivered(s) \in Nat
           /\ \A k \in 1..Delivered(s) : s.recs[k].rs = s.first + k - 1
<1>1. poll = NoPoll \/ poll \in Polls
  BY DEF PubInv, RelayTypeOK
<1>2. poll # NoPoll
  BY DEF NoPoll
<1>3. poll \in Polls /\ poll.pos \in Positions /\ poll.n \in Nat /\ poll.at \in Nat
  BY <1>1, <1>2 DEF Polls
<1>4. medium \in Seq(Segments) /\ Len(medium) \in Nat /\ SegmentsOK
  BY DEF PubInv, RelayTypeOK
<1>5. poll.n <= Len(medium) /\ poll.at \in 1..poll.n
  BY DEF PubInv, PollListed
<1>6. poll.at \in 1..Len(medium)
  BY <1>3, <1>4, <1>5
<1>7. /\ medium[poll.at] \in Segments /\ SegmentOK(medium[poll.at])
      /\ medium[poll.at].first \in Nat /\ medium[poll.at].epoch \in Nat
      /\ Delivered(medium[poll.at]) \in 0..Len(medium[poll.at].recs)
      /\ Len(medium[poll.at].recs) \in Nat
      /\ \A k \in 1..Delivered(medium[poll.at]) :
             medium[poll.at].recs[k].rs = medium[poll.at].first + k - 1
  BY <1>4, <1>6, MediumFacts DEF SegmentsOK
<1> QED
  BY <1>3, <1>5, <1>6, <1>7

LEMMA PositionFacts ==
    ASSUME NEW pos \in Positions
    PROVE  pos.seg \in Nat /\ pos.rs \in Nat /\ pos.epoch \in Nat
BY DEF Positions

\* A sequence that is banked is a number, and at least where the scan began.
LEMMA ReachedNumber ==
    ASSUME PubInv, poll.on, medium[poll.at].header, NEW k
    PROVE  LET s == medium[poll.at] IN
           /\ s.first >= 1 /\ s.epoch >= 1
           /\ AppliedRS(s, poll.pos) \in Nat
           /\ ReachedRS(s, poll.pos, k) \in Nat
           /\ ReachedRS(s, poll.pos, k) >= AppliedRS(s, poll.pos)
<1> DEFINE s == medium[poll.at]
<1>1. /\ SegmentOK(s) /\ s.first \in Nat /\ s.epoch \in Nat /\ Delivered(s) \in Nat
      /\ \A i \in 1..Delivered(s) : s.recs[i].rs = s.first + i - 1
      /\ poll.pos.rs \in Nat /\ s.header
  BY AtSegment, PositionFacts
<1> HIDE DEF s
<1>2. s.first >= 1 /\ s.epoch >= 1
  BY <1>1 DEF SegmentOK
<1>3. AppliedRS(s, poll.pos) \in Nat
  BY <1>1, <1>2 DEF AppliedRS
<1>4. CASE k \in Fresh(s, poll.pos)
  <2>1. /\ k \in 1..Delivered(s) /\ s.recs[k].rs > AppliedRS(s, poll.pos)
        /\ ReachedRS(s, poll.pos, k) = s.recs[k].rs
    BY <1>4 DEF Fresh, ReachedRS
  <2>2. s.recs[k].rs \in Nat
    BY <2>1, <1>1, <1>2
  <2> QED
    BY <2>1, <2>2, <1>2, <1>3 DEF s
<1>5. CASE k \notin Fresh(s, poll.pos)
  <2>1. ReachedRS(s, poll.pos, k) = AppliedRS(s, poll.pos)
    BY <1>5 DEF ReachedRS
  <2> QED
    BY <2>1, <1>2, <1>3 DEF s
<1> QED
  BY <1>4, <1>5

\* What a bank leaves is a cursor and a poll.
LEMMA BankTypes ==
    ASSUME PubInv, poll.on, medium' = medium, NEW reached \in Nat, NEW stop \in BOOLEAN,
           Bank(medium[poll.at], reached, stop)
    PROVE  reader' \in Positions /\ (poll' = NoPoll \/ poll' \in Polls) /\ PollListed'
<1> DEFINE s == medium[poll.at]
           next == [seg |-> poll.at, rs |-> reached, epoch |-> s.epoch]
           to == IF ForwardInPoll(poll.pos, next) THEN next ELSE poll.pos
<1>1. /\ poll \in Polls /\ poll.pos \in Positions /\ poll.n \in Nat /\ poll.at \in Nat
      /\ poll.at \in 1..poll.n /\ poll.n <= Len(medium) /\ s.epoch \in Nat
  BY AtSegment
<1>2. reader \in Positions
  BY DEF PubInv, RelayTypeOK
<1>3. next \in Positions
  BY <1>1 DEF Positions
<1>4. reader' \in {next, reader} /\ poll' = PollAfter(to, stop)
  BY DEF Bank
<1>5. to \in Positions
  BY <1>1, <1>3
<1> HIDE DEF s, next, to
<1>6. CASE stop \/ poll.at >= poll.n
  <2>1. poll' = NoPoll
    BY <1>4, <1>6 DEF PollAfter
  <2>2. ~poll'.on
    BY <2>1 DEF NoPoll
  <2> QED
    BY <2>1, <2>2, <1>2, <1>3, <1>4 DEF PollListed
<1>7. CASE ~(stop \/ poll.at >= poll.n)
  <2>1. poll' = [poll EXCEPT !.at = @ + 1, !.pos = to]
    BY <1>4, <1>7 DEF PollAfter
  <2>2. poll.at + 1 \in Nat
    BY <1>1
  <2>3. poll' \in Polls /\ poll'.at = poll.at + 1 /\ poll'.n = poll.n
    BY <2>1, <2>2, <1>1, <1>5 DEF Polls
  <2>4. poll.at + 1 \in 1..poll.n
    BY <1>1, <1>7
  <2> QED
    BY <2>3, <2>4, <1>1, <1>2, <1>3, <1>4 DEF PollListed
<1> QED
  BY <1>6, <1>7

-----------------------------------------------------------------------------
(* The reader's steps: positions.                                          *)

\* What is dealt with stays dealt with.
LEMMA PositionKept ==
    ASSUME NEW m, NEW done, NEW more, done \subseteq more, NEW pos, PositionIn(m, done, pos)
    PROVE  PositionIn(m, more, pos)
BY DEF PositionIn, ReadBefore

\* A position survives whatever is written behind it: records that come to the
\* newest segment come after where it was read to.
LEMMA PositionGrows ==
    ASSUME NEW m \in Seq(Segments), NEW m2 \in Seq(Segments), Grows(m, m2), NEW done,
           NEW pos \in Positions, PositionIn(m, done, pos)
    PROVE  PositionIn(m2, done, pos)
<1> DEFINE n == pos.seg
<1>1. n \in Nat /\ pos.rs \in Nat
  BY PositionFacts
<1>2. Len(m) \in Nat /\ Len(m2) \in Nat /\ Len(m) <= Len(m2) /\ n <= Len(m)
  BY MediumFacts DEF Grows, PositionIn
<1> HIDE DEF n
<1>3. n <= Len(m2)
  BY <1>1, <1>2
<1>4. ReadBefore(m2, done, n)
  <2> SUFFICES ASSUME NEW i \in 1..(n - 1)
               PROVE  \A k \in 1..Delivered(m2[i]) : m2[i].recs[k].ev \in done
    BY DEF ReadBefore
  <2>1. i \in 1..Len(m) /\ i < Len(m)
    BY <1>1, <1>2
  <2>2. m2[i] = m[i]
    BY <2>1 DEF Grows
  <2> QED
    BY <2>2 DEF PositionIn, ReadBefore, n
<1>5. ASSUME n > 0
      PROVE  /\ m2[n].header /\ pos.epoch = m2[n].epoch
             /\ pos.rs < ResumeRS(m2[n])
             /\ \A k \in 1..Delivered(m2[n]) : m2[n].recs[k].rs <= pos.rs => m2[n].recs[k].ev \in done
  <2>1. n \in 1..Len(m) /\ n \in 1..Len(m2)
    BY <1>1, <1>2, <1>3, <1>5
  <2>2. /\ m[n].header /\ pos.epoch = m[n].epoch /\ pos.rs < ResumeRS(m[n])
        /\ \A k \in 1..Delivered(m[n]) : m[n].recs[k].rs <= pos.rs => m[n].recs[k].ev \in done
    BY <1>5 DEF PositionIn, n
  <2>3. /\ m2[n].epoch = m[n].epoch /\ m2[n].first = m[n].first /\ m2[n].header = m[n].header
        /\ Delivered(m[n]) <= Delivered(m2[n])
        /\ \A k \in 1..Delivered(m[n]) : m2[n].recs[k] = m[n].recs[k]
    BY <2>1 DEF Grows
  <2>4. /\ m[n].first \in Nat /\ Delivered(m[n]) \in Nat /\ Delivered(m2[n]) \in Nat
        /\ \A k \in 1..Delivered(m2[n]) : m2[n].recs[k].rs = m2[n].first + k - 1
    BY <2>1, MediumFacts
  <2>5. pos.rs < m[n].first + Delivered(m[n])
    BY <2>2 DEF ResumeRS
  <2>6. pos.rs < ResumeRS(m2[n])
    BY <2>3, <2>4, <2>5, <1>1 DEF ResumeRS
  <2>7. ASSUME NEW k \in 1..Delivered(m2[n]), m2[n].recs[k].rs <= pos.rs
        PROVE  m2[n].recs[k].ev \in done
    <3>1. k \in 1..Delivered(m[n])
      BY <2>3, <2>4, <2>5, <2>7, <1>1
    <3> QED
      BY <3>1, <2>2, <2>3, <2>7
  <2> QED
    BY <2>2, <2>3, <2>6, <2>7
<1> QED
  BY <1>3, <1>4, <1>5 DEF PositionIn, n

\* The reader keeps its place while the other peer writes.
LEMMA ReadingKept ==
    ASSUME PubInv, PubInv', Grows(medium, medium'), UNCHANGED <<reader, poll, applied, skipped>>,
           EpochsRise => ReadInv
    PROVE  EpochsRise' => ReadInv'
<1> SUFFICES ASSUME EpochsRise' PROVE ReadInv'
  OBVIOUS
<1>1. medium \in Seq(Segments) /\ medium' \in Seq(Segments) /\ reader \in Positions
  BY DEF PubInv, RelayTypeOK
<1>2. ReadInv
  BY <1>1, GrowsEpochs DEF EpochsRise
<1>3. PositionIn(medium', Dealt, reader)
  BY <1>1, <1>2, PositionGrows DEF ReadInv
<1>4. Dealt' = Dealt
  BY DEF Dealt
<1>5. ASSUME poll.on
      PROVE  /\ PositionIn(medium', Dealt, poll.pos) /\ poll.at \in {poll.pos.seg, poll.pos.seg + 1}
             /\ ReadBefore(medium', Dealt, poll.at)
  <2>1. /\ poll.pos \in Positions /\ poll.at \in Nat /\ poll.at \in 1..Len(medium)
    BY <1>5, AtSegment
  <2>2. /\ PositionIn(medium, Dealt, poll.pos) /\ poll.at \in {poll.pos.seg, poll.pos.seg + 1}
        /\ ReadBefore(medium, Dealt, poll.at)
    BY <1>2, <1>5 DEF ReadInv, PollOK
  <2>3. PositionIn(medium', Dealt, poll.pos)
    BY <2>1, <2>2, <1>1, PositionGrows
  <2>4. ASSUME NEW i \in 1..(poll.at - 1)
        PROVE  \A k \in 1..Delivered(medium'[i]) : medium'[i].recs[k].ev \in Dealt
    <3>1. i \in 1..Len(medium) /\ i < Len(medium)
      BY <2>1, <1>1
    <3>2. medium'[i] = medium[i]
      BY <3>1 DEF Grows
    <3> QED
      BY <3>2, <2>2 DEF ReadBefore
  <2> QED
    BY <2>2, <2>3, <2>4 DEF ReadBefore
<1> QED
  BY <1>3, <1>4, <1>5 DEF ReadInv, PollOK

\* A poll begins where the stored cursor stands.
LEMMA StepStartPoll ==
    ASSUME PubInv, EpochsRise => ReadInv, StartPoll
    PROVE  PubInv' /\ (EpochsRise' => ReadInv')
<1> DEFINE at == IF reader.seg = 0 THEN 1 ELSE reader.seg
<1>1. /\ poll' = [on |-> TRUE, n |-> Len(medium), at |-> at, pos |-> reader] /\ at <= Len(medium)
      /\ UNCHANGED pubVars /\ UNCHANGED <<reader, applied, skipped>>
  BY DEF StartPoll, FirstUnread
<1>2. medium \in Seq(Segments) /\ reader \in Positions /\ Len(medium) \in Nat /\ medium' = medium
  BY <1>1 DEF PubInv, RelayTypeOK, pubVars
<1>3. reader.seg \in Nat /\ at \in Nat /\ at >= 1 /\ at \in {reader.seg, reader.seg + 1}
  BY <1>2, PositionFacts
<1> HIDE DEF at
<1>4. /\ poll'.on /\ poll'.n = Len(medium) /\ poll'.at = at /\ poll'.pos = reader
      /\ poll' \in Polls
  BY <1>1, <1>2, <1>3 DEF Polls
<1>5. PollListed'
  BY <1>1, <1>2, <1>3, <1>4 DEF PollListed
<1>6. PubInv'
  BY <1>1, <1>2, <1>4, <1>5, ReaderStep
<1>7. ASSUME EpochsRise' PROVE ReadInv'
  <2>1. EpochsRise /\ Dealt' = Dealt
    BY <1>1, <1>2, <1>7 DEF EpochsRise, Dealt
  <2>2. PositionIn(medium, Dealt, reader)
    BY <2>1 DEF ReadInv
  <2>3. ReadBefore(medium, Dealt, at)
    <3>1. CASE reader.seg = 0
      <4>1. \A i \in 1..(at - 1) : FALSE
        BY <3>1 DEF at
      <4> QED
        BY <4>1 DEF ReadBefore
    <3>2. CASE reader.seg # 0
      BY <3>2, <2>2 DEF PositionIn, at
    <3> QED
      BY <3>1, <3>2
  <2> QED
    BY <2>1, <2>2, <2>3, <1>1, <1>2, <1>3, <1>4 DEF ReadInv, PollOK
<1> QED
  BY <1>6, <1>7

\* Where a poll stands the records at or below its position were dealt with,
\* also when the position is of the segment before or of an earlier epoch.
LEMMA BelowIsDealt ==
    ASSUME PubInv, EpochsRise, ReadInv, poll.on, medium[poll.at].header
    PROVE  LET s == medium[poll.at] IN
           /\ AppliedRS(s, poll.pos) < ResumeRS(s)
           /\ \A k \in 1..Delivered(s) :
                s.recs[k].rs <= AppliedRS(s, poll.pos) => s.recs[k].ev \in Dealt
           /\ poll.at # poll.pos.seg =>
                \/ poll.pos.epoch < s.epoch
                \/ poll.pos.epoch = s.epoch /\ AppliedRS(s, poll.pos) = poll.pos.rs
<1> DEFINE s == medium[poll.at]
           pos == poll.pos
           n == pos.seg
<1>1. /\ pos \in Positions /\ poll.at \in Nat /\ poll.at \in 1..Len(medium)
      /\ SegmentOK(s) /\ s.first \in Nat /\ s.epoch \in Nat /\ Delivered(s) \in Nat
      /\ \A k \in 1..Delivered(s) : s.recs[k].rs = s.first + k - 1
  BY AtSegment
<1>2. n \in Nat /\ pos.rs \in Nat /\ pos.epoch \in Nat
  BY <1>1, PositionFacts
<1>3. s.first >= 1 /\ s.epoch >= 1 /\ s.header
  BY ReachedNumber
<1>4. PositionIn(medium, Dealt, pos) /\ poll.at \in {n, n + 1}
  BY DEF ReadInv, PollOK
<1>5. SequencesRiseIn(medium) /\ EpochsRiseIn(medium) /\ Len(medium) \in Nat
  BY DEF PubInv, EpochsRise, RelayTypeOK
<1> HIDE DEF pos, n
<1>6. /\ n = 0 => pos.epoch = 0
      /\ n > 0 => /\ medium[n].header /\ pos.epoch = medium[n].epoch
                  /\ pos.rs < ResumeRS(medium[n])
                  /\ \A k \in 1..Delivered(medium[n]) :
                         medium[n].recs[k].rs <= pos.rs => medium[n].recs[k].ev \in Dealt
  BY <1>4 DEF PositionIn, n
<1>7. ASSUME s.epoch # pos.epoch
      PROVE  /\ AppliedRS(s, pos) < ResumeRS(s)
             /\ \A k \in 1..Delivered(s) : s.recs[k].rs <= AppliedRS(s, pos) => s.recs[k].ev \in Dealt
  <2>1. AppliedRS(s, pos) = s.first - 1
    BY <1>7 DEF AppliedRS
  <2> HIDE DEF s
  <2>2. \A k \in 1..Delivered(s) : ~(s.recs[k].rs <= AppliedRS(s, pos))
    BY <2>1, <1>1, <1>3
  <2>3. AppliedRS(s, pos) < ResumeRS(s)
    BY <2>1, <1>1, <1>3 DEF ResumeRS
  <2> QED
    BY <2>2, <2>3
<1>8. ASSUME s.epoch = pos.epoch
      PROVE  /\ AppliedRS(s, pos) < ResumeRS(s)
             /\ \A k \in 1..Delivered(s) : s.recs[k].rs <= AppliedRS(s, pos) => s.recs[k].ev \in Dealt
  <2>1. AppliedRS(s, pos) = pos.rs
    BY <1>8 DEF AppliedRS
  <2>2. n > 0
    BY <1>2, <1>3, <1>6, <1>8
  <2>3. CASE poll.at = n
    BY <2>1, <2>2, <2>3, <1>6
  <2>4. CASE poll.at = n + 1
    <3>1. n \in 1..Len(medium) /\ n < poll.at
      BY <2>2, <2>4, <1>1, <1>2, <1>5
    <3>2. ResumeRS(medium[n]) <= s.first
      BY <3>1, <2>2, <1>1, <1>3, <1>5, <1>6, <1>8 DEF SequencesRiseIn
    <3>3. ResumeRS(medium[n]) \in Nat
      <4>1. medium \in Seq(Segments)
        BY DEF PubInv, RelayTypeOK
      <4> QED
        BY <4>1, <3>1, MediumFacts DEF ResumeRS
    <3>4. pos.rs < ResumeRS(medium[n])
      BY <2>2, <1>6
    <3> HIDE DEF s
    <3>5. pos.rs < s.first
      BY <3>2, <3>3, <3>4, <1>1, <1>2
    <3>6. \A k \in 1..Delivered(s) : ~(s.recs[k].rs <= pos.rs)
      BY <3>5, <1>1, <1>2
    <3>7. pos.rs < ResumeRS(s)
      BY <3>5, <1>1, <1>2 DEF ResumeRS
    <3> QED
      BY <3>6, <3>7, <2>1
  <2> QED
    BY <2>3, <2>4, <1>4
<1>9. ASSUME poll.at # n
      PROVE  \/ pos.epoch < s.epoch
             \/ pos.epoch = s.epoch /\ AppliedRS(s, pos) = pos.rs
  <2>1. pos.epoch <= s.epoch
    <3>1. CASE n = 0
      BY <3>1, <1>1, <1>6
    <3>2. CASE n # 0
      <4>1. n > 0 /\ n \in 1..Len(medium) /\ n < poll.at
        BY <3>2, <1>1, <1>2, <1>4, <1>5, <1>9
      <4> QED
        BY <4>1, <1>1, <1>3, <1>5, <1>6 DEF EpochsRiseIn
    <3> QED
      BY <3>1, <3>2
  <2> HIDE DEF s
  <2> QED
    BY <2>1, <1>1, <1>2 DEF AppliedRS
<1> QED
  BY <1>7, <1>8, <1>9 DEF pos, n

\* The position a scan banks once the records up to k were dealt with, and
\* what it may leave out: nothing.
LEMMA ReachedIsDealt ==
    ASSUME PubInv, EpochsRise, ReadInv, poll.on, medium[poll.at].header,
           NEW k \in Nat, k <= Delivered(medium[poll.at]), NEW more, Dealt \subseteq more,
           \A i \in Fresh(medium[poll.at], poll.pos) :
               i <= k => medium[poll.at].recs[i].ev \in more
    PROVE  LET s == medium[poll.at]
               next == [seg |-> poll.at, rs |-> ReachedRS(s, poll.pos, k), epoch |-> s.epoch] IN
           /\ PositionIn(medium, more, next)
           /\ ~ForwardInPoll(poll.pos, next) => poll.at = poll.pos.seg
           /\ k = Delivered(s) => ReadBefore(medium, more, poll.at + 1)
<1> DEFINE s == medium[poll.at]
           pos == poll.pos
           a == AppliedRS(s, pos)
           r == ReachedRS(s, pos, k)
           next == [seg |-> poll.at, rs |-> r, epoch |-> s.epoch]
<1>1. /\ pos \in Positions /\ poll.at \in Nat /\ poll.at \in 1..Len(medium)
      /\ s.first \in Nat /\ s.epoch \in Nat /\ Delivered(s) \in Nat
      /\ \A i \in 1..Delivered(s) : s.recs[i].rs = s.first + i - 1
  BY AtSegment
<1>2. pos.seg \in Nat /\ pos.rs \in Nat /\ pos.epoch \in Nat
  BY <1>1, PositionFacts
<1>3. a \in Nat /\ r \in Nat /\ r >= a /\ s.header /\ s.first >= 1
  BY ReachedNumber
<1>4. /\ a < ResumeRS(s)
      /\ \A i \in 1..Delivered(s) : s.recs[i].rs <= a => s.recs[i].ev \in Dealt
      /\ poll.at # pos.seg => \/ pos.epoch < s.epoch
                              \/ pos.epoch = s.epoch /\ a = pos.rs
  BY BelowIsDealt
<1>5. ReadBefore(medium, more, poll.at)
  BY DEF ReadInv, PollOK, ReadBefore
<1>6. k \in Nat /\ k <= Delivered(s) /\ Len(medium) \in Nat
  BY DEF PubInv, RelayTypeOK
<1>7. \A i \in 1..Delivered(s) : i <= k => s.recs[i].ev \in more
  <2> SUFFICES ASSUME NEW i \in 1..Delivered(s), i <= k PROVE s.recs[i].ev \in more
    OBVIOUS
  <2>1. CASE i \in Fresh(s, pos)
    BY <2>1
  <2>2. CASE i \notin Fresh(s, pos)
    <3>1. ~(s.recs[i].rs > a)
      BY <2>2, <1>3 DEF Fresh
    <3>2. s.recs[i].rs \in Nat
      <4>1. s.recs[i].rs = s.first + i - 1
        BY <1>1
      <4> HIDE DEF s
      <4> QED
        BY <4>1, <1>1, <1>3
    <3> HIDE DEF s, a, pos
    <3> QED
      BY <3>1, <3>2, <1>3, <1>4
  <2> QED
    BY <2>1, <2>2
<1>8. /\ k \in Fresh(s, pos) => k \in 1..Delivered(s) /\ r = s.recs[k].rs
      /\ k \notin Fresh(s, pos) => r = a
  BY DEF Fresh, ReachedRS
<1>9. next.seg = poll.at /\ next.rs = r /\ next.epoch = s.epoch
  OBVIOUS
<1> HIDE DEF s, pos, a, r, next
<1>10. r < ResumeRS(s)
  <2>1. CASE k \in Fresh(s, pos)
    BY <2>1, <1>1, <1>6, <1>8 DEF ResumeRS
  <2>2. CASE k \notin Fresh(s, pos)
    BY <2>2, <1>4, <1>8
  <2> QED
    BY <2>1, <2>2
<1>11. ASSUME NEW i \in 1..Delivered(s), s.recs[i].rs <= r PROVE s.recs[i].ev \in more
  <2>1. CASE k \in Fresh(s, pos)
    <3>1. s.recs[i].rs = s.first + i - 1 /\ r = s.first + k - 1
      BY <2>1, <1>1, <1>8
    <3>2. i <= k
      BY <3>1, <1>1, <1>6, <1>11
    <3> QED
      BY <3>2, <1>7
  <2>2. CASE k \notin Fresh(s, pos)
    BY <2>2, <1>4, <1>8, <1>11
  <2> QED
    BY <2>1, <2>2
<1>12. PositionIn(medium, more, next)
  <2>1. next.seg <= Len(medium) /\ next.seg > 0 /\ medium[next.seg] = s
    BY <1>1, <1>6, <1>9 DEF s
  <2> QED
    BY <2>1, <1>1, <1>3, <1>5, <1>9, <1>10, <1>11 DEF PositionIn
<1>13. ASSUME ~ForwardInPoll(pos, next) PROVE poll.at = pos.seg
  <2> SUFFICES ASSUME poll.at # pos.seg PROVE FALSE
    OBVIOUS
  <2>1. poll.at > pos.seg
    <3>1. poll.at \in {pos.seg, pos.seg + 1}
      BY DEF ReadInv, PollOK, pos
    <3> QED
      BY <3>1, <1>1, <1>2
  <2> QED
    BY <2>1, <1>1, <1>2, <1>3, <1>4, <1>9, <1>13 DEF ForwardInPoll, Forward
<1>14. ASSUME k = Delivered(s) PROVE ReadBefore(medium, more, poll.at + 1)
  <2> SUFFICES ASSUME NEW i \in 1..((poll.at + 1) - 1), NEW j \in 1..Delivered(medium[i])
               PROVE  medium[i].recs[j].ev \in more
    BY DEF ReadBefore
  <2>1. CASE i = poll.at
    <3>1. medium[i] = s /\ j \in 1..Delivered(s) /\ j <= k
      BY <2>1, <1>1, <1>14 DEF s
    <3> QED
      BY <3>1, <1>7
  <2>2. CASE i # poll.at
    <3>1. i \in 1..(poll.at - 1)
      BY <2>2, <1>1
    <3> QED
      BY <3>1, <1>5 DEF ReadBefore
  <2> QED
    BY <2>1, <2>2
<1> QED
  BY <1>12, <1>13, <1>14 DEF next, r, s, pos

\* A poll that ends without writing its cursor loses nothing.
LEMMA PollEnds ==
    ASSUME PubInv, EpochsRise => ReadInv, UNCHANGED pubVars, UNCHANGED reader, poll' = NoPoll,
           Dealt \subseteq Dealt'
    PROVE  PubInv' /\ (EpochsRise' => ReadInv')
<1>1. medium' = medium /\ reader \in Positions
  BY DEF pubVars, PubInv, RelayTypeOK
<1>2. ~poll'.on
  BY DEF NoPoll
<1>3. PubInv'
  BY <1>1, <1>2, ReaderStep DEF PollListed
<1>4. ASSUME EpochsRise' PROVE ReadInv'
  <2>1. PositionIn(medium, Dealt, reader)
    BY <1>1, <1>4 DEF EpochsRise, ReadInv
  <2>2. PositionIn(medium, Dealt', reader)
    BY <2>1, PositionKept
  <2> QED
    BY <2>2, <1>1, <1>2 DEF ReadInv
<1> QED
  BY <1>3, <1>4

\* A poll that banks: the stored cursor moves only to a position everything up
\* to which was dealt with, and the poll goes on only past a whole segment.
LEMMA PollBanks ==
    ASSUME PubInv, EpochsRise => ReadInv, UNCHANGED pubVars, poll.on, medium[poll.at].header,
           Dealt \subseteq Dealt', NEW k \in Nat, k <= Delivered(medium[poll.at]),
           NEW stop \in BOOLEAN, ~stop => k = Delivered(medium[poll.at]),
           \A i \in Fresh(medium[poll.at], poll.pos) :
               i <= k => medium[poll.at].recs[i].ev \in Dealt',
           Bank(medium[poll.at], ReachedRS(medium[poll.at], poll.pos, k), stop)
    PROVE  PubInv' /\ (EpochsRise' => ReadInv')
<1> DEFINE s == medium[poll.at]
           r == ReachedRS(s, poll.pos, k)
           next == [seg |-> poll.at, rs |-> r, epoch |-> s.epoch]
           moved == ForwardInPoll(poll.pos, next)
           to == IF moved THEN next ELSE poll.pos
           more == Dealt'
<1>1. medium' = medium
  BY DEF pubVars
<1>2. r \in Nat
  BY ReachedNumber
<1>3. PubInv'
  <2>1. Bank(medium[poll.at], r, stop)
    OBVIOUS
  <2> HIDE DEF r
  <2>2. reader' \in Positions /\ (poll' = NoPoll \/ poll' \in Polls) /\ PollListed'
    BY <2>1, <1>1, <1>2, BankTypes
  <2> QED
    BY <2>2, ReaderStep
<1>4. /\ reader' = IF moved /\ Forward(reader, next) THEN next ELSE reader
      /\ poll' = PollAfter(to, stop)
  BY DEF Bank
<1>5. next.seg = poll.at
  OBVIOUS
<1>6. ASSUME EpochsRise' PROVE ReadInv'
  <2>1. EpochsRise /\ ReadInv
    BY <1>1, <1>6 DEF EpochsRise
  <2>2. \A i \in Fresh(medium[poll.at], poll.pos) : i <= k => medium[poll.at].recs[i].ev \in more
    OBVIOUS
  <2>3. Dealt \subseteq more
    OBVIOUS
  <2> HIDE DEF more
  <2>4. /\ PositionIn(medium, more, next)
        /\ ~moved => poll.at = poll.pos.seg
        /\ k = Delivered(s) => ReadBefore(medium, more, poll.at + 1)
    BY <2>1, <2>2, <2>3, ReachedIsDealt
  <2>5. PositionIn(medium, more, reader) /\ PositionIn(medium, more, poll.pos)
    BY <2>1, <2>3, PositionKept DEF ReadInv, PollOK
  <2>6. ~stop => k = Delivered(s)
    OBVIOUS
  <2>7. poll \in Polls /\ poll.at \in Nat /\ poll.pos.seg \in Nat
    BY AtSegment, PositionFacts
  <2> HIDE DEF s, next, r
  <2>8. PositionIn(medium, more, to) /\ to.seg = poll.at
    BY <2>4, <2>5, <1>5
  <2>9. PositionIn(medium, more, reader')
    BY <2>4, <2>5, <1>4
  <2> HIDE DEF to, moved
  <2>10. ASSUME poll'.on
         PROVE  /\ PositionIn(medium, more, poll'.pos)
                /\ poll'.at \in {poll'.pos.seg, poll'.pos.seg + 1}
                /\ ReadBefore(medium, more, poll'.at)
    <3>1. ~stop /\ poll' = [poll EXCEPT !.at = @ + 1, !.pos = to]
      <4>1. poll' # NoPoll
        BY <2>10 DEF NoPoll
      <4> QED
        BY <4>1, <1>4 DEF PollAfter
    <3>2. poll'.at = poll.at + 1 /\ poll'.pos = to
      BY <3>1, <2>7 DEF Polls
    <3>3. ReadBefore(medium, more, poll.at + 1)
      BY <3>1, <2>4, <2>6
    <3> QED
      BY <3>2, <3>3, <2>7, <2>8
  <2> QED
    BY <2>9, <2>10, <1>1 DEF ReadInv, PollOK, more
<1> QED
  BY <1>3, <1>6

LEMMA StepIngestSegment ==
    ASSUME PubInv, EpochsRise => ReadInv, IngestSegment
    PROVE  PubInv' /\ (EpochsRise' => ReadInv')
<1> DEFINE s == medium[poll.at]
           new == Fresh(s, poll.pos)
<1>1. /\ poll.on /\ applied' = applied \cup Events(s, new) /\ UNCHANGED pubVars
      /\ skipped' = skipped
      /\ IF Condemned(s, poll.at < poll.n)
         THEN poll' = NoPoll /\ UNCHANGED reader
         ELSE Bank(s, ReachedRS(s, poll.pos, Delivered(s)), FALSE)
  BY DEF IngestSegment
<1>2. Dealt \subseteq Dealt' /\ \A i \in new : s.recs[i].ev \in Dealt'
  BY <1>1 DEF Dealt, Events
<1>3. CASE Condemned(s, poll.at < poll.n)
  BY <1>1, <1>2, <1>3, PollEnds
<1>4. CASE ~Condemned(s, poll.at < poll.n)
  <2>1. s.header
    BY <1>4 DEF Condemned
  <2>2. Delivered(s) \in Nat /\ Delivered(s) <= Delivered(s)
    BY <1>1, AtSegment
  <2>3. Bank(s, ReachedRS(s, poll.pos, Delivered(s)), FALSE)
    BY <1>1, <1>4
  <2> QED
    BY <1>1, <1>2, <2>1, <2>2, <2>3, PollBanks
<1> QED
  BY <1>3, <1>4

LEMMA StepIngestRefusing ==
    ASSUME PubInv, EpochsRise => ReadInv, NEW k \in Nat, IngestRefusing(k)
    PROVE  PubInv' /\ (EpochsRise' => ReadInv')
<1> DEFINE s == medium[poll.at]
           new == Fresh(s, poll.pos)
<1>1. /\ poll.on /\ UNCHANGED pubVars /\ k \in new
      /\ IF Authenticated
         THEN /\ applied' = applied \cup Events(s, new \ {k})
              /\ skipped' = skipped \cup {s.recs[k].ev}
              /\ IF Condemned(s, poll.at < poll.n)
                 THEN poll' = NoPoll /\ UNCHANGED reader
                 ELSE Bank(s, ReachedRS(s, poll.pos, Delivered(s)), FALSE)
         ELSE /\ applied' = applied \cup Events(s, {i \in new : i < k})
              /\ Bank(s, ReachedRS(s, poll.pos, k - 1), TRUE)
              /\ UNCHANGED skipped
  BY DEF IngestRefusing
<1>2. Delivered(s) \in Nat /\ Delivered(s) <= Delivered(s)
  BY <1>1, AtSegment
<1>3. s.header /\ k \in 1..Delivered(s)
  BY <1>1 DEF Fresh
<1>4. CASE Authenticated
  <2>1. Dealt \subseteq Dealt' /\ \A i \in new : s.recs[i].ev \in Dealt'
    BY <1>1, <1>4 DEF Dealt, Events
  <2>2. CASE Condemned(s, poll.at < poll.n)
    BY <1>1, <1>4, <2>1, <2>2, PollEnds
  <2>3. CASE ~Condemned(s, poll.at < poll.n)
    <3>1. Bank(s, ReachedRS(s, poll.pos, Delivered(s)), FALSE)
      BY <1>1, <1>4, <2>3
    <3> QED
      BY <1>1, <1>2, <1>3, <2>1, <3>1, PollBanks
  <2> QED
    BY <2>2, <2>3
<1>5. CASE ~Authenticated
  <2> DEFINE h == k - 1
  <2>1. /\ Dealt \subseteq Dealt' /\ \A i \in new : i < k => s.recs[i].ev \in Dealt'
        /\ Bank(s, ReachedRS(s, poll.pos, h), TRUE)
    BY <1>1, <1>5 DEF Dealt, Events
  <2>2. h \in Nat /\ h <= Delivered(s) /\ \A i \in 1..Delivered(s) : i <= h => i < k
    BY <1>2, <1>3
  <2>3. \A i \in new : i <= h => s.recs[i].ev \in Dealt'
    <3>1. \A i \in new : i \in 1..Delivered(s)
      BY DEF Fresh
    <3> QED
      BY <3>1, <2>1, <2>2
  <2> HIDE DEF h
  <2> QED
    BY <1>1, <1>3, <2>1, <2>2, <2>3, PollBanks
<1> QED
  BY <1>4, <1>5

LEMMA StepIngestDies ==
    ASSUME PubInv, EpochsRise => ReadInv, NEW k, IngestDies(k)
    PROVE  PubInv' /\ (EpochsRise' => ReadInv')
<1>1. /\ applied \subseteq applied' /\ poll' = NoPoll /\ UNCHANGED pubVars /\ UNCHANGED reader
      /\ skipped' = skipped
  BY DEF IngestDies
<1>2. Dealt \subseteq Dealt'
  BY <1>1 DEF Dealt
<1> QED
  BY <1>1, <1>2, PollEnds

-----------------------------------------------------------------------------
(* The relay as a whole.                                                   *)

LEMMA RelayBegins == Init => RelayInv
<1> SUFFICES ASSUME Init PROVE RelayInv
  OBVIOUS
<1> DEFINE none == [seg |-> 0, rs |-> 0, epoch |-> 0]
<1>1. /\ journal = <<>> /\ minted = 0 /\ backup = NoBackup /\ medium = <<>> /\ reader = none
      /\ cursor = [row |-> FALSE, seq |-> 0, epoch |-> 1, nextRS |-> 1]
      /\ pass = [p \in Procs |-> Idle] /\ poll = NoPoll
  BY DEF Init
<1>2. cursor \in Cursors /\ cursor.seq = 0
  BY <1>1 DEF Cursors
<1>3. reader \in Positions /\ reader.seg = 0 /\ reader.epoch = 0
  BY <1>1 DEF Positions
<1>4. journal \in Seq(1..minted) /\ medium \in Seq(Segments) /\ Len(journal) = 0 /\ Len(medium) = 0
  BY <1>1
<1>5. pass \in [Procs -> Begun \cup Appending] /\ \A p \in Procs : pass[p].pc # "append"
  BY <1>1 DEF Begun, Idle
<1>6. ~poll.on
  BY <1>1 DEF NoPoll
<1>7. RelayTypeOK
  BY <1>1, <1>2, <1>3, <1>4, <1>5 DEF RelayTypeOK
<1>8. SegmentsOK /\ PollListed /\ SequencesRiseIn(medium)
  BY <1>4, <1>6 DEF SegmentsOK, PollListed, SequencesRiseIn
<1>9. PublishInv
  BY <1>1, <1>2, <1>4, <1>5 DEF PublishInv, Published, NoneAlone
<1>10. ReadInv
  BY <1>3, <1>4, <1>6 DEF ReadInv, PositionIn, ReadBefore
<1> QED
  BY <1>7, <1>8, <1>9, <1>10 DEF RelayInv, PubInv

LEMMA RelayGoesOn ==
    ASSUME OneWriter, RelayInv, [Next]_vars
    PROVE  RelayInv'
<1>0. PubInv /\ (EpochsRise => ReadInv)
  BY DEF RelayInv
<1>1. ASSUME PubInv', Grows(medium, medium'), UNCHANGED readVars PROVE RelayInv'
  BY <1>0, <1>1, ReadingKept DEF RelayInv, readVars
<1>2. CASE UNCHANGED vars
  <2>1. UNCHANGED pubVars /\ UNCHANGED readVars
    BY <1>2 DEF vars
  <2>2. medium \in Seq(Segments) /\ medium' = medium
    BY <1>0, <2>1 DEF PubInv, RelayTypeOK, pubVars
  <2>3. PubInv'
    <3>1. reader' \in Positions /\ (poll' = NoPoll \/ poll' \in Polls)
      BY <1>0, <2>1 DEF PubInv, RelayTypeOK, readVars
    <3>2. PollListed'
      BY <1>0, <2>1, <2>2 DEF PubInv, PollListed, readVars
    <3> QED
      BY <1>0, <2>1, <3>1, <3>2, ReaderStep
  <2> QED
    BY <2>1, <2>2, <2>3, <1>1, GrowsSame
<1>3. ASSUME NEW p \in Procs, Open(p) PROVE RelayInv'
  BY <1>0, <1>1, <1>3, StepOpen DEF Open
<1>4. ASSUME NEW p \in Procs, GiveUp(p) PROVE RelayInv'
  BY <1>0, <1>1, <1>4, StepGiveUp DEF GiveUp
<1>5. ASSUME NEW p \in Procs, AppendRecord(p) PROVE RelayInv'
  BY <1>0, <1>1, <1>5, StepAppendRecord DEF AppendRecord
<1>6. ASSUME NEW p \in Procs, Rotate(p) PROVE RelayInv'
  BY <1>0, <1>1, <1>6, StepRotate DEF Rotate
<1>7. ASSUME NEW p \in Procs, AppendFails(p) PROVE RelayInv'
  BY <1>0, <1>1, <1>7, StepAppendFails DEF AppendFails
<1>8. ASSUME NEW p \in Procs, AdvanceRelayPushCursor(p) PROVE RelayInv'
  BY <1>0, <1>1, <1>8, StepAdvanceCursor DEF AdvanceRelayPushCursor
<1>9. ASSUME NEW p \in Procs, ResetPeer(p) PROVE RelayInv'
  BY <1>0, <1>1, <1>9, StepResetPeer DEF ResetPeer
<1>10. ASSUME NEW p \in Procs, Die(p) PROVE RelayInv'
  BY <1>0, <1>1, <1>10, StepDie DEF Die
<1>11. ASSUME NEW p \in Procs, NEW rs \in 1..MaxEvents, RepublishFrom(p, rs) PROVE RelayInv'
  <2>1. rs \in Nat /\ UNCHANGED readVars
    BY <1>11 DEF RepublishFrom
  <2> QED
    BY <1>0, <1>1, <1>11, <2>1, StepRepublish
<1>12. CASE WriteEvent
  BY <1>0, <1>1, <1>12, StepWriteEvent DEF WriteEvent
<1>13. CASE TakeBackup
  BY <1>0, <1>1, <1>13, StepTakeBackup DEF TakeBackup
<1>14. CASE Restore
  BY <1>0, <1>1, <1>14, StepRestore DEF Restore
<1>15. CASE StartPoll
  BY <1>0, <1>15, StepStartPoll DEF RelayInv
<1>16. CASE IngestSegment
  BY <1>0, <1>16, StepIngestSegment DEF RelayInv
<1>17. ASSUME NEW k \in 1..SegmentCap, IngestRefusing(k) PROVE RelayInv'
  <2>1. k \in Nat
    BY RelayBounds
  <2> QED
    BY <1>0, <1>17, <2>1, StepIngestRefusing DEF RelayInv
<1>18. ASSUME NEW k \in 0..SegmentCap, IngestDies(k) PROVE RelayInv'
  BY <1>0, <1>18, StepIngestDies DEF RelayInv
<1> QED
  BY <1>2, <1>3, <1>4, <1>5, <1>6, <1>7, <1>8, <1>9, <1>10, <1>11, <1>12, <1>13, <1>14,
     <1>15, <1>16, <1>17, <1>18 DEF Next

LEMMA RelayAlways ==
    ASSUME OneWriter
    PROVE  Spec => []RelayInv
BY RelayBegins, RelayGoesOn, PTL DEF Spec

\* The records of a segment are those a scan of it delivers.
LEMMA RecordsAre ==
    ASSUME NEW m \in Seq(Segments), NEW i \in 1..Len(m)
    PROVE  Range(Records(m[i])) = {m[i].recs[k] : k \in 1..Delivered(m[i])}
<1> DEFINE s == m[i]
<1>1. s.recs \in Seq(Recs) /\ Delivered(s) \in 0..Len(s.recs) /\ Len(s.recs) \in Nat
  BY MediumFacts
<1> HIDE DEF s
<1>2. /\ DOMAIN Records(s) = 1..Delivered(s)
      /\ \A k \in 1..Delivered(s) : Records(s)[k] = s.recs[k]
  BY <1>1 DEF Records
<1> QED
  BY <1>2 DEF Range, s

\* The push cursor of the one process that publishes is never ahead of the
\* medium, for any batch and segment size and any number of deaths inside an
\* append, restores from a backup, resets and repairs: the cursor moves after
\* the append returned, a failed write banks what landed, a restore goes back
\* to a cursor that was right when it was taken, and a repair goes back to an
\* event everything before which was published (publisher.go, repair.go).
THEOREM CursorNeverAheadHolds ==
    ASSUME OneWriter
    PROVE  Spec => []CursorNeverAhead
<1>1. RelayInv => CursorNeverAhead
  <2> SUFFICES ASSUME RelayInv, NEW i \in 1..cursor.seq PROVE journal[i] \in OnMedium
    BY DEF CursorNeverAhead
  <2>1. medium \in Seq(Segments) /\ Published(journal, cursor.seq, medium)
    BY DEF RelayInv, PubInv, RelayTypeOK, PublishInv
  <2>2. Carried(medium, journal[i])
    BY <2>1 DEF Published
  <2>3. PICK j \in 1..Len(medium) :
          medium[j].header /\ \E k \in 1..Delivered(medium[j]) : medium[j].recs[k].ev = journal[i]
    BY <2>2 DEF Carried
  <2>4. PICK k \in 1..Delivered(medium[j]) : medium[j].recs[k].ev = journal[i]
    BY <2>3
  <2>5. medium[j].recs[k] \in Range(Records(medium[j]))
    <3>1. Range(Records(medium[j])) = {medium[j].recs[h] : h \in 1..Delivered(medium[j])}
      BY <2>1, RecordsAre
    <3> QED
      BY <3>1
  <2> QED
    BY <2>3, <2>4, <2>5 DEF OnMedium
<1> QED
  BY <1>1, RelayAlways, PTL

\* As long as no restore takes the publisher back to an epoch it had left, a
\* reader never steps over a record, whatever is appended, rotated, torn or
\* republished while it polls and however often it dies between two records:
\* its position within an epoch is below the first sequence of the next
\* segment, and a new epoch begins at its own first record (ingestSegment,
\* cursor.go).
THEOREM NothingSteppedOverHolds ==
    ASSUME OneWriter
    PROVE  Spec => [](EpochsRise => NothingSteppedOver)
<1>1. RelayInv => (EpochsRise => NothingSteppedOver)
  <2> SUFFICES ASSUME RelayInv, EpochsRise, NEW i \in 1..reader.seg,
                      NEW r \in Range(Records(medium[i])), i < reader.seg \/ r.rs <= reader.rs
               PROVE  r.ev \in Dealt
    BY DEF NothingSteppedOver, Dealt
  <2>1. /\ medium \in Seq(Segments) /\ reader \in Positions /\ PositionIn(medium, Dealt, reader)
    BY DEF RelayInv, PubInv, RelayTypeOK, ReadInv
  <2>2. reader.seg \in Nat /\ Len(medium) \in Nat /\ reader.seg <= Len(medium)
    BY <2>1, PositionFacts, MediumFacts DEF PositionIn
  <2>3. i \in 1..Len(medium) /\ (i = reader.seg \/ i \in 1..(reader.seg - 1))
    BY <2>2
  <2>4. PICK k \in 1..Delivered(medium[i]) : r = medium[i].recs[k]
    BY <2>1, <2>3, RecordsAre
  <2>5. CASE i = reader.seg
    <3>1. reader.seg > 0 /\ ~(i < reader.seg)
      BY <2>2, <2>5
    <3>2. medium[reader.seg].recs[k].rs <= reader.rs /\ k \in 1..Delivered(medium[reader.seg])
      BY <3>1, <2>4, <2>5
    <3> QED
      BY <3>1, <3>2, <2>1, <2>4, <2>5 DEF PositionIn
  <2>6. CASE i \in 1..(reader.seg - 1)
    BY <2>1, <2>4, <2>6 DEF PositionIn, ReadBefore
  <2> QED
    BY <2>3, <2>5, <2>6
<1> QED
  BY <1>1, RelayAlways, PTL

-----------------------------------------------------------------------------
(* Where no epoch is used twice.                                           *)

\* Nothing takes the publisher back to an epoch it left: the store is never
\* restored, or its stream is never reset.
NeverBack == MaxRestores = 0 \/ MaxResets = 0

\* The epoch of the push cursor is the highest there is.
EpochTop ==
    /\ faults \in [FaultKinds -> Nat]
    /\ EpochsRise
    /\ \A i \in 1..Len(medium) : medium[i].header => medium[i].epoch <= cursor.epoch
    /\ \A p \in Procs : pass[p].pc = "append" => pass[p].epoch = cursor.epoch
    /\ backup # NoBackup => MaxResets = 0 /\ backup.cursor.epoch = cursor.epoch

LEMMA FaultsCounted ==
    ASSUME faults \in [FaultKinds -> Nat], [Next]_vars
    PROVE  faults' \in [FaultKinds -> Nat]
<1>1. ASSUME NEW kind \in FaultKinds, Count(kind) PROVE faults' \in [FaultKinds -> Nat]
  BY <1>1 DEF Count
<1>2. {"death", "restore", "reset", "repair", "refusal"} \subseteq FaultKinds
  BY DEF FaultKinds
<1>3. ASSUME NEW p \in Procs, Open(p) \/ GiveUp(p) \/ AppendRecord(p) \/ Rotate(p)
                              \/ AdvanceRelayPushCursor(p)
      PROVE  faults' = faults
  BY <1>3 DEF Open, GiveUp, AppendRecord, Rotate, AdvanceRelayPushCursor
<1>4. ASSUME NEW p \in Procs, AppendFails(p) \/ Die(p) PROVE Count("death")
  BY <1>4 DEF AppendFails, Die
<1>5. ASSUME NEW p \in Procs, ResetPeer(p) PROVE Count("reset")
  BY <1>5 DEF ResetPeer
<1>6. ASSUME NEW p \in Procs, NEW rs, RepublishFrom(p, rs) PROVE Count("repair")
  BY <1>6 DEF RepublishFrom
<1>7. WriteEvent \/ TakeBackup \/ StartPoll \/ IngestSegment => faults' = faults
  BY DEF WriteEvent, TakeBackup, StartPoll, IngestSegment
<1>8. Restore => Count("restore")
  BY DEF Restore
<1>9. ASSUME NEW k, IngestRefusing(k) PROVE Count("refusal")
  BY <1>9 DEF IngestRefusing
<1>10. ASSUME NEW k, IngestDies(k) PROVE Count("death")
  BY <1>10 DEF IngestDies
<1>11. UNCHANGED vars => faults' = faults
  BY DEF vars
<1> QED
  BY <1>1, <1>2, <1>3, <1>4, <1>5, <1>6, <1>7, <1>8, <1>9, <1>10, <1>11 DEF Next

\* Files that come in the cursor's epoch come on top.
LEMMA TopKept ==
    ASSUME PubInv, PubInv', EpochTop, Grows(medium, medium'),
           cursor'.epoch \in Nat, cursor.epoch <= cursor'.epoch,
           \A j \in 1..Len(medium') :
               j > Len(medium) /\ medium'[j].header => medium'[j].epoch = cursor.epoch
    PROVE  /\ EpochsRise'
           /\ \A i \in 1..Len(medium') : medium'[i].header => medium'[i].epoch <= cursor'.epoch
<1>1. /\ medium \in Seq(Segments) /\ medium' \in Seq(Segments)
      /\ Len(medium) \in Nat /\ Len(medium') \in Nat /\ cursor.epoch \in Nat
  BY DEF PubInv, RelayTypeOK, Cursors
<1>2. \A i \in 1..Len(medium) : medium[i].epoch \in Nat
  BY <1>1, MediumFacts
<1>3. \A i \in 1..Len(medium') : i \in 1..Len(medium) \/ i > Len(medium)
  BY <1>1
<1>4. \A i \in 1..Len(medium) : medium'[i].epoch = medium[i].epoch /\ medium'[i].header = medium[i].header
  BY DEF Grows
<1>5. \A i \in 1..Len(medium') : medium'[i].header => medium'[i].epoch <= cursor.epoch /\ medium'[i].epoch \in Nat
  BY <1>1, <1>2, <1>3, <1>4 DEF EpochTop
<1>6. ASSUME NEW i \in 1..Len(medium'), NEW j \in 1..Len(medium'), i < j,
             medium'[i].header, medium'[j].header
      PROVE  medium'[i].epoch <= medium'[j].epoch
  <2>1. CASE j > Len(medium)
    BY <2>1, <1>5, <1>6
  <2>2. CASE j \in 1..Len(medium)
    <3>1. i \in 1..Len(medium)
      BY <2>2, <1>1, <1>6
    <3> QED
      BY <3>1, <2>2, <1>4, <1>6 DEF EpochTop, EpochsRise, EpochsRiseIn
  <2> QED
    BY <2>1, <2>2, <1>3
<1>7. EpochsRise'
  BY <1>6 DEF EpochsRise, EpochsRiseIn
<1> QED
  BY <1>1, <1>5, <1>7

\* The epoch of the cursor outlives everything but a reset and a restore.
LEMMA AdvancedEpoch ==
    ASSUME PubInv, NEW n, NEW rs
    PROVE  Advanced(n, rs).epoch = cursor.epoch
<1>1. cursor \in Cursors
  BY DEF PubInv, RelayTypeOK
<1> QED
  BY <1>1 DEF Advanced, Cursors

LEMMA BankedEpoch ==
    ASSUME PubInv, NEW w
    PROVE  Banked(w).epoch = cursor.epoch
BY AdvancedEpoch DEF Banked

\* A writer opens in the epoch of the cursor.
LEMMA TailEpoch ==
    ASSUME PubInv, TailState(cursor).ok
    PROVE  TailState(cursor).epoch = cursor.epoch
<1> DEFINE t == TailState(cursor)
<1>1. t.ok
  OBVIOUS
<1>2. \/ t = [ok |-> FALSE]
      \/ t = [ok |-> t.ok, new |-> t.new, epoch |-> cursor.epoch, rs |-> t.rs]
  BY DEF TailState
<1> HIDE DEF t
<1>3. t = [ok |-> FALSE] => ~t.ok
  OBVIOUS
<1>4. t.epoch = cursor.epoch
  BY <1>1, <1>2, <1>3
<1> QED
  BY <1>4 DEF t

\* A step that stores nothing new in the medium, keeps the cursor's epoch and
\* the backup, and leaves no writer behind or one that goes on.
LEMMA TopSame ==
    ASSUME PubInv, PubInv', EpochTop, Grows(medium, medium'), cursor'.epoch = cursor.epoch,
           backup' = backup, faults' \in [FaultKinds -> Nat],
           \A j \in 1..Len(medium') :
               j > Len(medium) /\ medium'[j].header => medium'[j].epoch = cursor.epoch,
           \A q \in Procs : pass'[q].pc = "append" => pass'[q].epoch = cursor.epoch
    PROVE  EpochTop'
<1>1. cursor'.epoch \in Nat /\ cursor.epoch <= cursor'.epoch
  BY DEF PubInv, RelayTypeOK, Cursors
<1>2. /\ EpochsRise'
      /\ \A i \in 1..Len(medium') : medium'[i].header => medium'[i].epoch <= cursor'.epoch
  BY <1>1, TopKept
<1> QED
  BY <1>2 DEF EpochTop

\* No file is added.
LEMMA NoFileAdded ==
    ASSUME PubInv, Len(medium') = Len(medium)
    PROVE  \A j \in 1..Len(medium') : ~(j > Len(medium))
<1>1. Len(medium) \in Nat
  BY DEF PubInv, RelayTypeOK
<1> QED
  BY <1>1

LEMMA TopOpen ==
    ASSUME OneWriter, PubInv, PubInv', EpochTop, faults' \in [FaultKinds -> Nat],
           NEW p \in Procs, Open(p)
    PROVE  EpochTop'
<1> DEFINE w == pass[p]
           t == TailState(cursor)
           s == NewSegment(t.epoch, t.rs)
           m1 == IF t.new THEN Append(medium, s) ELSE medium
           m2 == IF w.pc = "repair" THEN Append(m1, s) ELSE m1
           v == Writing(t, Len(m2) - Len(medium))
<1>1. /\ t.ok /\ medium' = m2 /\ pass' = [pass EXCEPT ![p] = v]
      /\ cursor' = cursor /\ backup' = backup
  BY DEF Open, CanPublish
<1>2. Grows(medium, medium')
  BY StepOpen
<1>3. t.epoch = cursor.epoch
  BY <1>1, TailEpoch
<1>4. s.epoch = cursor.epoch
  BY <1>3 DEF NewSegment
<1>5. medium \in Seq(Segments) /\ Len(medium) \in Nat /\ pass \in [Procs -> Begun \cup Appending]
  BY DEF PubInv, RelayTypeOK
<1>6. v.epoch = cursor.epoch
  BY <1>3 DEF Writing
<1> HIDE DEF t, s, v
<1>7. s \in Segments
  <2>1. t.rs \in Nat /\ t.epoch \in Nat
    BY <1>1, TailFacts DEF t
  <2> QED
    BY <2>1, NewSegmentFacts DEF s
<1>8. m1 \in Seq(Segments) /\ \A j \in 1..Len(m1) : j > Len(medium) => m1[j] = s
  BY <1>5, <1>7
<1> HIDE DEF m1
<1>9. \A j \in 1..Len(m2) : j > Len(medium) => m2[j] = s
  <2>1. CASE w.pc = "repair"
    <3>1. /\ m2 = Append(m1, s) /\ Len(m2) = Len(m1) + 1 /\ m2[Len(m1) + 1] = s
          /\ Len(m1) \in Nat /\ \A j \in 1..Len(m1) : m2[j] = m1[j]
      BY <2>1, <1>7, <1>8
    <3> HIDE DEF m2
    <3> QED
      BY <3>1, <1>8
  <2>2. CASE w.pc # "repair"
    BY <2>2, <1>8
  <2> QED
    BY <2>1, <2>2
<1> HIDE DEF m2
<1>10. \A q \in Procs : pass'[q].epoch = cursor.epoch
  BY <1>1, <1>5, <1>6 DEF OneWriter
<1> QED
  BY <1>1, <1>2, <1>4, <1>9, <1>10, TopSame

LEMMA TopRotate ==
    ASSUME OneWriter, PubInv, PubInv', EpochTop, faults' \in [FaultKinds -> Nat],
           NEW p \in Procs, Rotate(p)
    PROVE  EpochTop'
<1> DEFINE w == pass[p]
           s == NewSegment(w.epoch, w.nextRS)
<1>1. w.pc = "append" /\ w.seg = Len(medium) /\ medium \in Seq(Segments) /\ w \in Appending
  <2>1. w.pc = "append"
    BY DEF Rotate
  <2> QED
    BY <2>1, AppendFacts
<1>2. /\ medium' = Append(medium, s) /\ cursor' = cursor /\ backup' = backup
      /\ pass' = [pass EXCEPT ![p].seg = @ + 1, ![p].recs = 0]
  BY <1>1 DEF Rotate
<1>3. Grows(medium, medium')
  BY StepRotate
<1>4. w.epoch = cursor.epoch /\ pass \in [Procs -> Begun \cup Appending] /\ Len(medium) \in Nat
  BY <1>1 DEF EpochTop, PubInv, RelayTypeOK
<1>5. s.epoch = cursor.epoch
  BY <1>4 DEF NewSegment
<1>6. \A q \in Procs : pass'[q].epoch = cursor.epoch
  <2>1. pass' = [pass EXCEPT ![p] = [w EXCEPT !.seg = @ + 1, !.recs = 0]]
    BY <1>2, <1>4
  <2>2. [w EXCEPT !.seg = @ + 1, !.recs = 0].epoch = w.epoch
    <3> HIDE DEF w
    <3> QED
      BY <1>1 DEF Appending
  <2> QED
    BY <2>1, <2>2, <1>4 DEF OneWriter
<1> HIDE DEF s
<1>7. \A j \in 1..Len(medium') : j > Len(medium) => medium'[j] = s
  BY <1>1, <1>2, <1>4
<1> QED
  BY <1>2, <1>3, <1>5, <1>6, <1>7, TopSame

LEMMA TopAppendRecord ==
    ASSUME OneWriter, PubInv, PubInv', EpochTop, faults' \in [FaultKinds -> Nat],
           NEW p \in Procs, AppendRecord(p)
    PROVE  EpochTop'
<1> DEFINE w == pass[p]
<1>1. w.pc = "append" /\ w \in Appending /\ medium \in Seq(Segments)
  <2>1. w.pc = "append"
    BY DEF AppendRecord
  <2> QED
    BY <2>1, AppendFacts
<1>2. /\ medium' = Put(w.seg, [rs |-> w.nextRS, ev |-> journal[w.from + w.done + 1]])
      /\ cursor' = cursor /\ backup' = backup
      /\ pass' = [pass EXCEPT ![p].done = @ + 1, ![p].nextRS = @ + 1, ![p].recs = @ + 1]
  BY DEF AppendRecord
<1>3. Grows(medium, medium')
  BY StepAppendRecord
<1>4. w.epoch = cursor.epoch /\ pass \in [Procs -> Begun \cup Appending]
  BY <1>1 DEF EpochTop, PubInv, RelayTypeOK
<1>5. \A q \in Procs : pass'[q].epoch = cursor.epoch
  <2>1. pass' = [pass EXCEPT ![p] = [w EXCEPT !.done = @ + 1, !.nextRS = @ + 1, !.recs = @ + 1]]
    BY <1>2, <1>4
  <2>2. [w EXCEPT !.done = @ + 1, !.nextRS = @ + 1, !.recs = @ + 1].epoch = w.epoch
    <3> HIDE DEF w
    <3> QED
      BY <1>1 DEF Appending
  <2> QED
    BY <2>1, <2>2, <1>4 DEF OneWriter
<1>6. Len(medium') = Len(medium)
  BY <1>1, <1>2 DEF Put
<1> QED
  BY <1>2, <1>3, <1>5, <1>6, NoFileAdded, TopSame

LEMMA TopIdle ==
    ASSUME OneWriter, PubInv, PubInv', EpochTop, faults' \in [FaultKinds -> Nat],
           NEW p \in Procs, GiveUp(p) \/ AppendFails(p) \/ AdvanceRelayPushCursor(p) \/ Die(p)
    PROVE  EpochTop'
<1>1. Grows(medium, medium')
  BY StepGiveUp, StepAppendFails, StepAdvanceCursor, StepDie
<1>2. pass' = [pass EXCEPT ![p] = Idle] /\ backup' = backup
  BY DEF GiveUp, AppendFails, AdvanceRelayPushCursor, Die
<1>3. pass \in [Procs -> Begun \cup Appending] /\ medium \in Seq(Segments) /\ Len(medium) \in Nat
  BY DEF PubInv, RelayTypeOK
<1>4. \A q \in Procs : pass'[q].pc # "append"
  BY <1>2, <1>3 DEF OneWriter, Idle
<1>5. cursor'.epoch = cursor.epoch
  <2>1. \/ cursor' = cursor \/ cursor' = Banked(pass[p])
        \/ cursor' = Advanced(pass[p].upto, pass[p].nextRS)
    BY DEF GiveUp, AppendFails, AdvanceRelayPushCursor, Die
  <2> QED
    BY <2>1, BankedEpoch, AdvancedEpoch
<1>6. medium' = medium \/ medium' = Put(pass[p].seg, Torn) \/ medium' = Append(medium, ShortSegment)
  BY DEF GiveUp, AppendFails, AdvanceRelayPushCursor, Die
<1>7. CASE medium' = Append(medium, ShortSegment)
  <2>1. ShortSegment.header = FALSE
    BY DEF ShortSegment
  <2>2. \A j \in 1..Len(medium') : j > Len(medium) => medium'[j] = ShortSegment
    <3>1. Len(medium') = Len(medium) + 1 /\ medium'[Len(medium) + 1] = ShortSegment
      BY <1>3, <1>7
    <3> QED
      BY <3>1, <1>3
  <2> QED
    BY <2>1, <2>2, <1>1, <1>2, <1>4, <1>5, TopSame
<1>8. CASE medium' = medium \/ medium' = Put(pass[p].seg, Torn)
  <2>1. Len(medium') = Len(medium)
    BY <1>3, <1>8 DEF Put
  <2> QED
    BY <2>1, <1>1, <1>2, <1>4, <1>5, NoFileAdded, TopSame
<1> QED
  BY <1>6, <1>7, <1>8

LEMMA TopReset ==
    ASSUME OneWriter, PubInv, PubInv', EpochTop, faults' \in [FaultKinds -> Nat],
           NEW p \in Procs, ResetPeer(p)
    PROVE  EpochTop'
<1>1. /\ cursor' = [row |-> TRUE, seq |-> 0, epoch |-> cursor.epoch + 1, nextRS |-> 1]
      /\ pass' = [pass EXCEPT ![p] = [pc |-> "reset"]]
      /\ medium' = medium /\ backup' = backup /\ May("reset")
  BY DEF ResetPeer
<1>2. /\ pass \in [Procs -> Begun \cup Appending] /\ cursor.epoch \in Nat
      /\ medium \in Seq(Segments) /\ Len(medium) \in Nat
  BY DEF PubInv, RelayTypeOK, Cursors
<1>3. cursor'.epoch = cursor.epoch + 1
  BY <1>1
<1>4. /\ EpochsRise'
      /\ \A i \in 1..Len(medium') : medium'[i].header => medium'[i].epoch <= cursor'.epoch
  <2>1. \A j \in 1..Len(medium') : ~(j > Len(medium))
    BY <1>1, <1>2
  <2>2. Grows(medium, medium')
    BY StepResetPeer
  <2>3. cursor'.epoch \in Nat /\ cursor.epoch <= cursor'.epoch
    BY <1>2, <1>3
  <2> QED
    BY <2>1, <2>2, <2>3, TopKept
<1>5. MaxResets # 0
  <2>1. faults["reset"] \in Nat
    BY DEF EpochTop, FaultKinds
  <2>2. faults["reset"] < MaxResets
    BY <1>1 DEF May, Limit
  <2> QED
    BY <2>1, <2>2
<1>6. \A q \in Procs : pass'[q].pc # "append"
  BY <1>1, <1>2 DEF OneWriter
<1> QED
  BY <1>1, <1>4, <1>5, <1>6 DEF EpochTop

LEMMA TopStore ==
    ASSUME NeverBack, PubInv, PubInv', EpochTop, faults' \in [FaultKinds -> Nat],
           WriteEvent \/ TakeBackup \/ Restore
    PROVE  EpochTop'
<1>1. medium' = medium /\ pass' = pass /\ Len(medium) \in Nat /\ medium \in Seq(Segments)
  BY DEF WriteEvent, TakeBackup, Restore, PubInv, RelayTypeOK
<1>2. Grows(medium, medium') /\ \A j \in 1..Len(medium') : ~(j > Len(medium))
  BY <1>1, GrowsSame
<1>3. CASE WriteEvent
  <2>1. cursor' = cursor /\ backup' = backup
    BY <1>3 DEF WriteEvent
  <2> QED
    BY <1>1, <1>2, <2>1, TopSame DEF EpochTop
<1>4. CASE TakeBackup
  <2>1. cursor' = cursor /\ backup' = [journal |-> journal, cursor |-> cursor] /\ May("restore")
    BY <1>4 DEF TakeBackup
  <2>2. backup'.cursor.epoch = cursor'.epoch
    BY <2>1
  <2>3. MaxResets = 0
    <3>1. faults["restore"] \in Nat
      BY DEF EpochTop, FaultKinds
    <3>2. faults["restore"] < MaxRestores
      BY <2>1 DEF May, Limit
    <3> QED
      BY <3>1, <3>2 DEF NeverBack
  <2>4. EpochsRise'
    BY <1>1 DEF EpochTop, EpochsRise
  <2> QED
    BY <1>1, <2>1, <2>2, <2>3, <2>4 DEF EpochTop
<1>5. CASE Restore
  <2>1. /\ backup # NoBackup /\ backup' = backup /\ cursor' = backup.cursor
    BY <1>5 DEF Restore
  <2>2. cursor'.epoch = cursor.epoch
    BY <2>1 DEF EpochTop
  <2> QED
    BY <1>1, <1>2, <2>1, <2>2, TopSame DEF EpochTop
<1> QED
  BY <1>3, <1>4, <1>5

LEMMA TopGoesOn ==
    ASSUME OneWriter, NeverBack, RelayInv, EpochTop, [Next]_vars
    PROVE  EpochTop'
<1>0. PubInv /\ PubInv' /\ faults' \in [FaultKinds -> Nat]
  BY RelayGoesOn, FaultsCounted DEF RelayInv, EpochTop
<1>1. ASSUME UNCHANGED pubVars PROVE EpochTop'
  <2>1. UNCHANGED <<cursor, backup, medium, pass>>
    BY <1>1 DEF pubVars
  <2>2. EpochsRise'
    BY <2>1 DEF EpochTop, EpochsRise
  <2> QED
    BY <1>0, <2>1, <2>2 DEF EpochTop
<1>2. CASE UNCHANGED vars
  BY <1>1, <1>2 DEF vars
<1>3. ASSUME NEW p \in Procs, Open(p) PROVE EpochTop'
  BY <1>0, <1>3, TopOpen
<1>4. ASSUME NEW p \in Procs, AppendRecord(p) PROVE EpochTop'
  BY <1>0, <1>4, TopAppendRecord
<1>5. ASSUME NEW p \in Procs, Rotate(p) PROVE EpochTop'
  BY <1>0, <1>5, TopRotate
<1>6. ASSUME NEW p \in Procs, GiveUp(p) \/ AppendFails(p) \/ AdvanceRelayPushCursor(p) \/ Die(p)
      PROVE  EpochTop'
  BY <1>0, <1>6, TopIdle
<1>7. ASSUME NEW p \in Procs, ResetPeer(p) PROVE EpochTop'
  BY <1>0, <1>7, TopReset
<1>8. ASSUME NEW p \in Procs, NEW rs \in 1..MaxEvents, RepublishFrom(p, rs) PROVE EpochTop'
  <2>1. /\ cursor' = IF cursor.row THEN [cursor EXCEPT !.seq = FloorFor(rs)] ELSE cursor
        /\ pass' = [pass EXCEPT ![p] = [pc |-> "repair"]]
        /\ medium' = medium /\ backup' = backup
    BY <1>8 DEF RepublishFrom
  <2>2. cursor \in Cursors /\ pass \in [Procs -> Begun \cup Appending] /\ medium \in Seq(Segments)
    BY <1>0 DEF PubInv, RelayTypeOK
  <2>3. cursor'.epoch = cursor.epoch
    BY <2>1, <2>2 DEF Cursors
  <2>4. \A q \in Procs : pass'[q].pc # "append"
    BY <2>1, <2>2 DEF OneWriter
  <2>5. Grows(medium, medium') /\ Len(medium') = Len(medium)
    BY <2>1, <2>2, GrowsSame
  <2> QED
    BY <1>0, <2>1, <2>3, <2>4, <2>5, NoFileAdded, TopSame
<1>9. CASE WriteEvent \/ TakeBackup \/ Restore
  BY <1>0, <1>9, TopStore
<1>10. CASE StartPoll \/ IngestSegment
  BY <1>1, <1>10 DEF StartPoll, IngestSegment
<1>11. ASSUME NEW k, IngestRefusing(k) \/ IngestDies(k) PROVE EpochTop'
  BY <1>1, <1>11 DEF IngestRefusing, IngestDies
<1> QED
  BY <1>2, <1>3, <1>4, <1>5, <1>6, <1>7, <1>8, <1>9, <1>10, <1>11 DEF Next

\* A store that is never restored, or a stream that is never reset, uses no
\* epoch twice, and its reader never steps over a record: the one way round
\* that remains is a restore that forgets a reset (reset-peer counts the new
\* epoch from the restored cursor, relay_cursor.go).
THEOREM NothingSteppedOverNeverBack ==
    ASSUME OneWriter, NeverBack
    PROVE  Spec => []NothingSteppedOver
<1>1. Init => EpochTop
  <2> SUFFICES ASSUME Init PROVE EpochTop
    OBVIOUS
  <2>1. /\ medium = <<>> /\ pass = [p \in Procs |-> Idle] /\ backup = NoBackup
        /\ faults = [k \in FaultKinds |-> 0]
    BY DEF Init
  <2>2. \A p \in Procs : pass[p].pc # "append"
    BY <2>1 DEF Idle
  <2>3. Len(medium) = 0 /\ faults \in [FaultKinds -> Nat]
    BY <2>1
  <2> QED
    BY <2>1, <2>2, <2>3 DEF EpochTop, EpochsRise, EpochsRiseIn
<1>2. RelayInv /\ EpochTop /\ [Next]_vars => EpochTop'
  BY TopGoesOn
<1>3. EpochTop => EpochsRise
  BY DEF EpochTop
<1> QED
  BY <1>1, <1>2, <1>3, RelayAlways, NothingSteppedOverHolds, PTL DEF Spec
=============================================================================
