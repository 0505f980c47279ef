---------------------------- MODULE OrderJournal ----------------------------
(***************************************************************************)
(* core/journal.py: client order ids numbered per (date, symbol, intent),   *)
(* and the append-only file they are recovered from.  A crash may tear the  *)
(* row being appended; the first append after the restart then continues    *)
(* its line.                                                                *)
(*                                                                         *)
(* An order is made as runtime.py makes it: its id, the row of create, the  *)
(* row of mark_submitting, and then the venue has it.                       *)
(*                                                                         *)
(* Init, Next and Spec bear the name of the journal, so that a module can   *)
(* extend this one together with another component.                        *)
(***************************************************************************)
EXTENDS Integers, FiniteSets, FiniteSetsExt

CONSTANTS Key,                  \* (date, symbol, intent)
          MaxSeq, MaxCrashes    \* bounds

ASSUME JournalAssumption == MaxSeq \in Nat /\ MaxCrashes \in Nat

Id == [key: Key, seq: 1..MaxSeq]

JournalEvent == {"create", "submitting", "later"}

Row == [id: Id, event: JournalEvent]

VARIABLES rows,         \* rows on readable lines of the file
          tail,         \* the set with a last row whose newline is missing
          torn,         \* the file ends in a line no one can read or ended
          seq,          \* _seq
          seen,         \* _seen
          stage, making,        \* how far the order being made has come: none, asked, created, recorded
          submitted,    \* ids the venue was ever given
          crashes

journal == <<rows, tail, torn, seq, seen, stage, making, submitted, crashes>>

JournalInit ==
  /\ rows = {} /\ tail = {} /\ torn = FALSE
  /\ seq = [k \in Key |-> 0] /\ seen = {}
  /\ stage = "none" /\ making \in [key: Key, seq: {1}]
  /\ submitted = {} /\ crashes = 0

(* A row at the end of an unended line makes one line with it that does not *)
(* parse.                                                                   *)
AppendRow(row) ==
  /\ rows' = IF torn \/ tail # {} THEN rows ELSE rows \cup {row}
  /\ tail' = {} /\ torn' = FALSE
  /\ seen' = seen \cup {row.id}

(* next_client_order_id. *)
NextClientOrderId(k) ==
  /\ stage = "none"
  /\ seq[k] < MaxSeq
  /\ seq' = [seq EXCEPT ![k] = @ + 1]
  /\ making' = [key |-> k, seq |-> seq[k] + 1]
  /\ stage' = "asked"
  /\ UNCHANGED <<rows, tail, torn, seen, submitted, crashes>>

(* The id is a duplicate, or create refuses the order: nothing is written.  *)
GiveUp ==
  /\ stage = "asked"
  /\ stage' = "none"
  /\ UNCHANGED <<rows, tail, torn, seq, seen, making, submitted, crashes>>

CreateOrder ==
  /\ stage = "asked" /\ making \notin seen
  /\ AppendRow([id |-> making, event |-> "create"])
  /\ stage' = "created"
  /\ UNCHANGED <<seq, making, submitted, crashes>>

MarkSubmittingUnwritten ==
  /\ stage = "created"
  /\ stage' = "recorded"
  /\ UNCHANGED <<rows, tail, torn, seen, seq, making, submitted, crashes>>

MarkSubmitting ==
  /\ stage = "created"
  /\ AppendRow([id |-> making, event |-> "submitting"])
  /\ stage' = "recorded"
  /\ UNCHANGED <<seq, making, submitted, crashes>>

Submit ==
  /\ stage = "recorded"
  /\ submitted' = submitted \cup {making}
  /\ stage' = "none"
  /\ UNCHANGED <<rows, tail, torn, seq, seen, making, crashes>>

(* A later transition of an order of this process, or a restored one. *)
RecordLater(id) ==
  /\ stage = "none" /\ id \in submitted
  /\ AppendRow([id |-> id, event |-> "later"])
  /\ UNCHANGED <<seq, stage, making, submitted, crashes>>

LoadedSeqByCount(readable, k) == Cardinality({row.id : row \in {r \in readable : r.id.key = k}})

(* _load: the highest number of each key on the lines that parse. *)
LoadedSeq(readable, k) == Max({0} \cup {row.id.seq : row \in {r \in readable : r.id.key = k}})

(* A new process finds this file. *)
Load(readable, lastRow, fragment) ==
  /\ rows' = readable /\ tail' = lastRow /\ torn' = fragment
  /\ seq' = [k \in Key |-> LoadedSeq(readable \cup lastRow, k)]
  /\ seen' = {row.id : row \in readable \cup lastRow}
  /\ stage' = "none"
  /\ UNCHANGED <<making, submitted>>

(* The process dies between two statements. *)
Crash ==
  /\ crashes < MaxCrashes /\ crashes' = crashes + 1
  /\ Load(rows, tail, torn)

(* The row the process may be about to append. *)
Appending(row) ==
  \/ row = [id |-> making, event |-> "create"] /\ stage = "asked" /\ making \notin seen
  \/ row = [id |-> making, event |-> "submitting"] /\ stage = "created"
  \/ row.event = "later" /\ stage = "none" /\ row.id \in submitted

(* The process dies in the middle of an append: a fragment was written, or  *)
(* all of the row but its newline.                                          *)
CrashWriting(row) ==
  /\ crashes < MaxCrashes /\ crashes' = crashes + 1
  /\ Appending(row)
  /\ \/ Load(rows, {}, TRUE)
     \/ tail = {} /\ ~torn /\ Load(rows, {row}, FALSE)

JournalNext ==
  \/ \E k \in Key : NextClientOrderId(k)
  \/ GiveUp
  \/ CreateOrder
  \/ MarkSubmitting
  \/ Submit
  \/ \E id \in Id : RecordLater(id)
  \/ Crash
  \/ \E row \in Row : CrashWriting(row)

JournalSpec == JournalInit /\ [][JournalNext]_journal

-----------------------------------------------------------------------------

(* "A crash and restart cannot resubmit a duplicate": no id is given to the *)
(* venue twice, although rows are lost to torn lines.                       *)
NeverResubmitted == stage = "recorded" => making \notin submitted

(* A new id is never taken for a duplicate, which would make the engine     *)
(* drop the order without telling the state machine.                        *)
FreshIsNew == stage = "asked" => making \notin seen
=============================================================================
