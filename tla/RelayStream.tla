---------------------------- MODULE RelayStream ----------------------------
(***************************************************************************)
(* The file relay: one peer frames its journal into numbered segment files *)
(* in its own directory (internal/relay/publisher, internal/relay/segment) *)
(* and another peer polls that directory and applies what it finds         *)
(* (internal/relay/ingest).  Both keep a durable cursor in their own store *)
(* (internal/store/sqlite/relay_cursor.go).                                *)
(*                                                                         *)
(* A publish pass is several steps -- open the writer, append a frame,     *)
(* rotate, move the cursor -- and the process may die between any two of   *)
(* them, with half a frame or half a header on the medium.  The store may  *)
(* also be restored from a backup, which rewinds the journal and the push  *)
(* cursor together and leaves the medium as it was.  A publisher is built  *)
(* afresh for every pass (cmd/mtix/relay_phase.go), so nothing it holds in *)
(* memory outlives the pass.                                               *)
(*                                                                         *)
(* Events are numbers in the order they were written; an event's journal   *)
(* sequence is its index in the journal.                                   *)
(* Left out: inbox mail that an import has restored to the store; the      *)
(* relay's read of the journal passes over it.                             *)
(***************************************************************************)
EXTENDS Integers, Sequences, FiniteSets, SequencesExt

CONSTANTS
    Procs,          \* processes that run relay passes against one store
    MaxEvents,      \* bound: events the publisher's store ever writes
    BatchLimit,     \* Config.BatchLimit: rows one pass reads
    SegmentCap,     \* records that fit below Config.MaxSegmentBytes
    TailDepth,      \* tailVerifyDepth
    Authenticated,  \* whether the relay carries a fleet key
    MaxDeaths,      \* bound: process deaths and failed writes
    MaxRestores,    \* bound: restores from a backup
    MaxResets,      \* bound: `relay reset-peer` runs
    MaxRepairs,     \* bound: `relay republish` runs
    MaxRefusals     \* bound: records the reader's gate refuses

ASSUME RelayBounds ==
    /\ BatchLimit \in Nat \ {0} /\ SegmentCap \in Nat \ {0}
    /\ TailDepth \in Nat \ {0} /\ Authenticated \in BOOLEAN
    /\ {MaxEvents, MaxDeaths, MaxRestores, MaxResets, MaxRepairs, MaxRefusals}
         \subseteq Nat

VARIABLES
    journal,   \* sync_events of the publishing store, in rowid order
    minted,    \* events ever written, those a restore undid included
    cursor,    \* relay_push_cursor: row present, seq, pub_epoch, next_rs
    backup,    \* journal and cursor of the backup, or NoBackup
    medium,    \* the peer's segment files, in number order
    pass,      \* what each process is doing
    reader,    \* relay_ingest_cursor of the reading store
    poll,      \* the reading store's poll in progress
    applied,   \* events the reading store has applied
    skipped,   \* events its gate quarantined
    faults     \* how often each bounded fault has happened

pubVars == <<journal, minted, cursor, backup, medium, pass>>
readVars == <<reader, poll, applied, skipped>>
vars == <<pubVars, readVars, faults>>

NoBackup == [journal |-> <<>>, cursor |-> [row |-> FALSE]]
Torn == [rs |-> 0, ev |-> 0]                     \* half a frame
Idle == [pc |-> "idle"]
NoPoll == [on |-> FALSE]
FaultKinds == {"death", "restore", "reset", "repair", "refusal"}
Limit == [death |-> MaxDeaths, restore |-> MaxRestores, reset |-> MaxResets,
          repair |-> MaxRepairs, refusal |-> MaxRefusals]

May(kind) == faults[kind] < Limit[kind]
Count(kind) == faults' = [faults EXCEPT ![kind] = @ + 1]

-----------------------------------------------------------------------------
(* Segment files: segment.Scanner, segment.NewWriter                       *)

\* How many records a scan delivers: it stops at half a frame and at a
\* record that does not carry the expected relay sequence.
Delivered(s) ==
    CHOOSE n \in 0..Len(s.recs) :
        /\ \A i \in 1..n : s.recs[i].rs = s.first + i - 1
        /\ n < Len(s.recs) => s.recs[n + 1].rs # s.first + n

StopsShort(s) == Delivered(s) < Len(s.recs) /\ s.recs[Delivered(s) + 1] = Torn
Gap(s) == Delivered(s) < Len(s.recs) /\ ~StopsShort(s)

\* The verdict that stops a scan.  Half a frame at the end of the active
\* segment is an append in flight; in a sealed one it is damage.
Condemned(s, sealed) == ~s.header \/ Gap(s) \/ (sealed /\ StopsShort(s))

Records(s) == SubSeq(s.recs, 1, Delivered(s))
ResumeRS(s) == s.first + Delivered(s)

NewSegment(epoch, first) ==
    [epoch |-> epoch, first |-> first, header |-> TRUE, recs |-> <<>>]
ShortSegment == [epoch |-> 0, first |-> 0, header |-> FALSE, recs |-> <<>>]

Newest == medium[Len(medium)]

\* What the writer decides about the newest segment: the sequence to go on
\* at, and whether a fresh file is opened.
TailState(pos) ==
    IF medium = <<>>
    THEN [ok |-> TRUE, new |-> TRUE, epoch |-> pos.epoch,
          rs |-> IF pos.nextRS = 0 THEN 1 ELSE pos.nextRS]
    ELSE IF Condemned(Newest, FALSE)
    THEN [ok |-> FALSE]
    ELSE IF pos.epoch # Newest.epoch
    THEN [ok |-> pos.nextRS # 0, new |-> TRUE, epoch |-> pos.epoch,
          rs |-> pos.nextRS]
    ELSE [ok |-> pos.nextRS \in {0, ResumeRS(Newest)},
          new |-> StopsShort(Newest), epoch |-> pos.epoch,
          rs |-> ResumeRS(Newest)]

-----------------------------------------------------------------------------
(* The publisher                                                           *)

IndexOf(ev) == CHOOSE i \in 1..Len(journal) : journal[i] = ev
InJournal(ev) == ev \in Range(journal)

\* The newest segment scans, as far as the publisher needs it to.
TailScans == medium # <<>> => ~Condemned(Newest, FALSE)

\* The ordered-membership check over the last records of the newest segment.
TailMatches ==
    medium # <<>> =>
        LET recs == Records(Newest)
            lo == IF Len(recs) > TailDepth THEN Len(recs) - TailDepth + 1 ELSE 1
        IN  /\ \A i \in lo..Len(recs) : InJournal(recs[i].ev)
            /\ \A i \in lo..(Len(recs) - 1) :
                   IndexOf(recs[i].ev) < IndexOf(recs[i + 1].ev)

\* RELAY_PUBLISHER_DIVERGED
Diverged == TailScans /\ ~TailMatches

\* Whether a pass would get past its checks, with rows to publish.
CanPublish(attested) ==
    /\ Len(journal) > cursor.seq
    /\ attested \/ (TailScans /\ TailMatches)
    /\ TailState(cursor).ok

\* Every pass returns an error until an operator acts.
Refused == \/ ~TailScans \/ Diverged
           \/ Len(journal) > cursor.seq /\ ~TailState(cursor).ok

\* AdvanceRelayPushCursor: monotonic in seq, and next_rs goes with it.
Advanced(seq, nextRS) ==
    IF seq > cursor.seq
    THEN [cursor EXCEPT !.row = TRUE, !.seq = seq, !.nextRS = nextRS]
    ELSE [cursor EXCEPT !.row = TRUE]

\* Mutant: the whole batch is banked after a failed write, not what landed.
BankedWhole(w) == Advanced(w.upto, w.nextRS)

\* Everything a pass has published so far is banked in the cursor.
Banked(w) ==
    IF w.done = 0 THEN cursor ELSE Advanced(w.from + w.done, w.nextRS)

LastRow == IF Len(journal) < cursor.seq + BatchLimit
           THEN Len(journal) ELSE cursor.seq + BatchLimit

\* The writer is open: rows from+1 .. upto are to be appended.
Writing(t, extra) ==
    [pc |-> "append", from |-> cursor.seq, upto |-> LastRow, done |-> 0,
     nextRS |-> t.rs, epoch |-> t.epoch,
     seg |-> Len(medium) + extra,
     recs |-> IF extra = 0 THEN Delivered(Newest) ELSE 0]

\* publish up to the first append.  force is the fresh segment a repair asks
\* for; attested is an attestation granted rather than derived.
Open(p) ==
    LET w == pass[p]
        begun == w.pc \in {"reset", "repair"}
        t == TailState(cursor)
        opened == IF t.new THEN Append(medium, NewSegment(t.epoch, t.rs))
                  ELSE medium
    IN  /\ w.pc \in {"idle", "reset", "repair"}
        /\ CanPublish(begun)
        /\ LET final == IF w.pc = "repair"
                        THEN Append(opened, NewSegment(t.epoch, t.rs))
                        ELSE opened
           IN  /\ medium' = final
               /\ pass' = [pass EXCEPT ![p] =
                              Writing(t, Len(final) - Len(medium))]
        /\ UNCHANGED <<journal, minted, cursor, backup, readVars, faults>>

\* A reset or a repair that has nothing to publish, or is refused, ends there.
GiveUp(p) ==
    /\ pass[p].pc \in {"reset", "repair"}
    /\ ~CanPublish(TRUE)
    /\ pass' = [pass EXCEPT ![p] = Idle]
    /\ UNCHANGED <<journal, minted, cursor, backup, medium, readVars, faults>>

Put(seg, rec) == [medium EXCEPT ![seg].recs = Append(@, rec)]

AppendRecord(p) ==
    LET w == pass[p] IN
    /\ w.pc = "append" /\ w.from + w.done < w.upto /\ w.recs < SegmentCap
    /\ medium' = Put(w.seg, [rs |-> w.nextRS, ev |-> journal[w.from + w.done + 1]])
    /\ pass' = [pass EXCEPT ![p].done = @ + 1, ![p].nextRS = @ + 1,
                            ![p].recs = @ + 1]
    /\ UNCHANGED <<journal, minted, cursor, backup, readVars, faults>>

\* The segment is full: its successor is created, which seals it.  A file
\* that is already there ends the pass, and what landed is banked.
Rotate(p) ==
    LET w == pass[p] IN
    /\ w.pc = "append" /\ w.from + w.done < w.upto /\ w.recs >= SegmentCap
    /\ IF Len(medium) = w.seg
       THEN /\ medium' = Append(medium, NewSegment(w.epoch, w.nextRS))
            /\ pass' = [pass EXCEPT ![p].seg = @ + 1, ![p].recs = 0]
            /\ UNCHANGED cursor
       ELSE /\ pass' = [pass EXCEPT ![p] = Idle]
            /\ cursor' = Banked(w)
            /\ UNCHANGED medium
    /\ UNCHANGED <<journal, minted, backup, readVars, faults>>

\* A write that fails leaves half a frame or nothing; what landed before it
\* is banked and the writer is discarded.
AppendFails(p) ==
    LET w == pass[p] IN
    /\ w.pc = "append" /\ w.from + w.done < w.upto /\ w.recs < SegmentCap
    /\ May("death") /\ Count("death")
    /\ medium' \in {medium, Put(w.seg, Torn)}
    /\ cursor' = Banked(w)
    /\ pass' = [pass EXCEPT ![p] = Idle]
    /\ UNCHANGED <<journal, minted, backup, readVars>>

\* Every row is on the medium: the cursor moves, and the pass is over.
AdvanceRelayPushCursor(p) ==
    LET w == pass[p] IN
    /\ w.pc = "append" /\ w.from + w.done = w.upto
    /\ cursor' = Advanced(w.upto, w.nextRS)
    /\ pass' = [pass EXCEPT ![p] = Idle]
    /\ UNCHANGED <<journal, minted, backup, medium, readVars, faults>>

\* reset-peer, run as its help says once publishing has refused with
\* RELAY_PUBLISHER_DIVERGED: a new publisher epoch from the declared base, by default 1,
\* and everything from the floor, by default 0, published again.
ResetPeer(p) ==
    /\ pass[p] = Idle /\ Diverged
    /\ May("reset") /\ Count("reset")
    /\ cursor' = [row |-> TRUE, seq |-> 0, epoch |-> cursor.epoch + 1,
                  nextRS |-> 1]
    /\ pass' = [pass EXCEPT ![p] = [pc |-> "reset"]]
    /\ UNCHANGED <<journal, minted, backup, medium, readVars>>

\* The journal position just before the event published at rs, taken from
\* the first segment that scans and holds such a record.
FloorFor(rs) ==
    LET has == {i \in 1..Len(medium) :
                  /\ ~Condemned(medium[i], i < Len(medium))
                  /\ \E k \in 1..Len(Records(medium[i])) :
                         medium[i].recs[k].rs = rs}
        s == medium[CHOOSE i \in has : \A j \in has : i <= j]
        ev == s.recs[rs - s.first + 1].ev
    IN  IF has = {} THEN -1
        ELSE IF InJournal(ev) THEN IndexOf(ev) - 1 ELSE -1

\* republish: the cursor goes back to that position, at the same epoch and
\* the same next sequence, if a cursor was ever stored.
RepublishFrom(p, rs) ==
    /\ pass[p] = Idle
    /\ May("repair") /\ Count("repair")
    /\ FloorFor(rs) >= 0
    /\ cursor' = IF cursor.row THEN [cursor EXCEPT !.seq = FloorFor(rs)] ELSE cursor
    /\ pass' = [pass EXCEPT ![p] = [pc |-> "repair"]]
    /\ UNCHANGED <<journal, minted, backup, medium, readVars>>

\* The process dies.  Inside an append half a frame may be left; while a
\* file is being created, a file without its header.
Die(p) ==
    LET w == pass[p]
        creates == \/ w.pc = "append" /\ w.recs >= SegmentCap /\ Len(medium) = w.seg
                   \/ /\ w.pc \in {"idle", "reset", "repair"}
                      /\ CanPublish(w.pc # "idle")
                      /\ w.pc = "repair" \/ TailState(cursor).new
    IN  /\ May("death") /\ Count("death")
        /\ pass' = [pass EXCEPT ![p] = Idle]
        /\ \/ w.pc # "idle" /\ UNCHANGED medium
           \/ /\ w.pc = "append" /\ w.recs < SegmentCap
              /\ w.from + w.done < w.upto
              /\ medium' = Put(w.seg, Torn)
           \/ creates /\ medium' = Append(medium, ShortSegment)
        /\ UNCHANGED <<journal, minted, cursor, backup, readVars>>

-----------------------------------------------------------------------------
(* The store under the publisher                                           *)

WriteEvent ==
    /\ minted < MaxEvents
    /\ minted' = minted + 1
    /\ journal' = Append(journal, minted + 1)
    /\ UNCHANGED <<cursor, backup, medium, pass, readVars, faults>>

TakeBackup ==
    /\ backup = NoBackup /\ May("restore")
    /\ backup' = [journal |-> journal, cursor |-> cursor]
    /\ UNCHANGED <<journal, minted, cursor, medium, pass, readVars, faults>>

\* The store comes back as it was at the backup, its relay cursor included.
Restore ==
    /\ backup # NoBackup /\ \A p \in Procs : pass[p] = Idle
    /\ May("restore") /\ Count("restore")
    /\ journal' = backup.journal /\ cursor' = backup.cursor
    /\ UNCHANGED <<minted, backup, medium, pass, readVars>>

-----------------------------------------------------------------------------
(* The reader: ingest.Ingestor                                             *)

\* Mutant: the segment the cursor stands in counts as read.
SegmentsAfterCursor == reader.seg + 1

\* Unread: the cursor's own segment is read again, nothing before it is.
FirstUnread == IF reader.seg = 0 THEN 1 ELSE reader.seg

\* A poll lists the segments once.
StartPoll ==
    /\ ~poll.on /\ FirstUnread <= Len(medium)
    /\ poll' = [on |-> TRUE, n |-> Len(medium),
                at |-> FirstUnread, pos |-> reader]
    /\ UNCHANGED <<pubVars, reader, applied, skipped, faults>>

\* Mutant: the old epoch's position is kept on entering a new epoch.
AppliedRSKept(s, pos) == pos.rs

\* Where this segment begins for a reader at position pos.
AppliedRS(s, pos) == IF s.epoch # pos.epoch THEN s.first - 1 ELSE pos.rs

\* The records of a segment, by their index, that a poll at pos has not
\* applied yet.  Without a header nothing is read.
Fresh(s, pos) ==
    {k \in 1..Delivered(s) : s.header /\ s.recs[k].rs > AppliedRS(s, pos)}

Events(s, indexes) == {s.recs[k].ev : k \in indexes}

\* The sequence banked once the records up to index k have been dealt with.
ReachedRS(s, pos, k) == IF k \in Fresh(s, pos) THEN s.recs[k].rs ELSE AppliedRS(s, pos)

\* Forward under (pub_epoch, rs); the segment number breaks a tie in memory
\* and not in the stored row.
Forward(prev, next) ==
    next.epoch > prev.epoch \/ (next.epoch = prev.epoch /\ next.rs > prev.rs)

ForwardInPoll(prev, next) ==
    \/ Forward(prev, next)
    \/ next.epoch = prev.epoch /\ next.rs = prev.rs /\ next.seg > prev.seg

\* The poll goes on to the next listed segment, or ends.
PollAfter(pos, stop) ==
    IF stop \/ poll.at >= poll.n THEN NoPoll
    ELSE [poll EXCEPT !.at = @ + 1, !.pos = pos]

\* Next of cursor.go and the write behind it: reached is the sequence the
\* scan may bank.
Bank(s, reached, stop) ==
    LET next == [seg |-> poll.at, rs |-> reached, epoch |-> s.epoch]
        moved == ForwardInPoll(poll.pos, next)
    IN  /\ reader' = IF moved /\ Forward(reader, next) THEN next ELSE reader
        /\ poll' = PollAfter(IF moved THEN next ELSE poll.pos, stop)

\* ingestSegment with every record applied.  A verdict stops the peer's
\* stream and leaves the cursor where it was; its clean prefix was applied.
IngestSegment ==
    /\ poll.on
    /\ LET s == medium[poll.at]
           sealed == poll.at < poll.n
       IN  /\ applied' = applied \cup Events(s, Fresh(s, poll.pos))
           /\ IF Condemned(s, sealed)
              THEN poll' = NoPoll /\ UNCHANGED reader
              ELSE Bank(s, ReachedRS(s, poll.pos, Delivered(s)), FALSE)
    /\ UNCHANGED <<pubVars, skipped, faults>>

\* ingestSegment when the gate refuses record k: on an authenticated relay it
\* is quarantined and stepped over, otherwise the stream stops before it.
IngestRefusing(k) ==
    /\ poll.on /\ May("refusal") /\ Count("refusal")
    /\ LET s == medium[poll.at]
           sealed == poll.at < poll.n
           new == Fresh(s, poll.pos)
       IN  /\ k \in new
           /\ IF Authenticated
              THEN /\ applied' = applied \cup Events(s, new \ {k})
                   /\ skipped' = skipped \cup {s.recs[k].ev}
                   /\ IF Condemned(s, sealed)
                      THEN poll' = NoPoll /\ UNCHANGED reader
                      ELSE Bank(s, ReachedRS(s, poll.pos, Delivered(s)), FALSE)
              ELSE /\ applied' = applied \cup Events(s, {i \in new : i < k})
                   /\ Bank(s, ReachedRS(s, poll.pos, k - 1), TRUE)
                   /\ UNCHANGED skipped
    /\ UNCHANGED pubVars

\* The reading process dies inside a segment: some records were applied, each
\* in its own transaction, and the cursor was not written.
IngestDies(k) ==
    /\ poll.on /\ May("death") /\ Count("death")
    /\ LET s == medium[poll.at]
           new == Fresh(s, poll.pos)
       IN  /\ k \in new \cup {0}
           /\ applied' = applied \cup Events(s, {i \in new : i <= k})
    /\ poll' = NoPoll
    /\ UNCHANGED <<pubVars, reader, skipped>>

-----------------------------------------------------------------------------
Init ==
    /\ journal = <<>> /\ minted = 0
    /\ cursor = [row |-> FALSE, seq |-> 0, epoch |-> 1, nextRS |-> 1]
    /\ backup = NoBackup /\ medium = <<>>
    /\ pass = [p \in Procs |-> Idle]
    /\ reader = [seg |-> 0, rs |-> 0, epoch |-> 0]
    /\ poll = NoPoll /\ applied = {} /\ skipped = {}
    /\ faults = [k \in FaultKinds |-> 0]

Publishing(p) == Open(p) \/ GiveUp(p) \/ AppendRecord(p) \/ Rotate(p)
                 \/ AdvanceRelayPushCursor(p)

Reading == StartPoll \/ IngestSegment

Next ==
    \/ \E p \in Procs : Open(p) \/ GiveUp(p) \/ AppendRecord(p) \/ Rotate(p)
         \/ AppendFails(p) \/ AdvanceRelayPushCursor(p) \/ ResetPeer(p)
         \/ Die(p)
    \/ \E p \in Procs, rs \in 1..MaxEvents : RepublishFrom(p, rs)
    \/ WriteEvent \/ TakeBackup \/ Restore
    \/ StartPoll \/ IngestSegment
    \/ \E k \in 1..SegmentCap : IngestRefusing(k)
    \/ \E k \in 0..SegmentCap : IngestDies(k)

Spec == Init /\ [][Next]_vars

\* The daemon runs a pass on every tick, and both halves of a pass always run
\* (tick.go), so a publish step or a poll step that stays possible is taken.
FairSpec ==
    /\ Spec
    /\ \A p \in Procs : WF_vars(Publishing(p))
    /\ WF_vars(Reading)
-----------------------------------------------------------------------------
(* What the relay promises                                                 *)

OnMedium == UNION {{r.ev : r \in Range(Records(medium[i]))} :
                     i \in {j \in 1..Len(medium) : medium[j].header}}

\* The push cursor never runs ahead of the medium: whatever the journal holds
\* at or below it, some segment carries whole (publisher.go, the cursor moves
\* only after the append returned; bank after a failed write).
CursorNeverAhead == \A i \in 1..cursor.seq : journal[i] \in OnMedium

\* A reader never steps over a record: every record in a segment before its
\* stored cursor, and every record of the cursor's segment at or below it, was
\* applied or quarantined -- across polls that race an append, rotations,
\* torn tails, restores and publisher epochs (ingestSegment, Next).
NothingSteppedOver ==
    \A i \in 1..reader.seg : \A r \in Range(Records(medium[i])) :
        (i < reader.seg \/ r.rs <= reader.rs) => r.ev \in applied \cup skipped

\* The reader meets a segment it condemns.
Stalled == \E i \in 1..Len(medium) : i >= reader.seg
                                      /\ Condemned(medium[i], i < Len(medium))

\* Liveness of the whole relay: in the end every event of the journal has been
\* applied or quarantined by the reader, unless the publisher is refusing to
\* publish or the reader has condemned a segment -- the two states the code
\* reports to an operator.  Nothing is left undelivered in silence.
DeliveredOrReported ==
    <>[](Range(journal) \subseteq applied \cup skipped \/ Refused \/ Stalled)

Headed == \A i \in 1..Len(medium) : medium[i].header

\* The claim of publisher.go about a death between the append and the cursor
\* advance: the next pass publishes again and publication resumes.  (A file
\* left without its header is a case of its own and is excluded.)
PublicationResumes == []Headed => <>[](Range(journal) \subseteq OnMedium)
=============================================================================
