---------------------------- MODULE EventStore ----------------------------
(***************************************************************************)
(* The kernel's event ledger (kernel/store.py on the schema of             *)
(* kernel/database.py): batches that span streams, optimistic concurrency  *)
(* per stream, idempotency keys per stream, and the committed prefix that  *)
(* lets a caller complete a batch of which a part is already stored.       *)
(*                                                                         *)
(* append_many runs inside one "begin immediate" transaction, so a call is *)
(* one step.  Callers are whoever calls: a batch built on any state of the *)
(* streams the caller may have seen, a call repeated because its answer    *)
(* was lost, a key used again for something else.                          *)
(***************************************************************************)
EXTENDS Integers, Sequences, FiniteSets

CONSTANTS
    Streams,    \* stream ids
    Keys,       \* idempotency keys
    NoKey,      \* stands for idempotency_key=None
    Contents,   \* what idempotency_hash covers
    MaxBatch,   \* bound: events in a batch
    MaxLedger   \* bound: events stored

ASSUME KeyAssumption == NoKey \notin Keys
ASSUME StoreBounds == MaxBatch \in Nat \ {0} /\ MaxLedger \in Nat

VARIABLES
    ledger,  \* kernel_events in the order of global_position
    heads,   \* event_streams.current_sequence
    answer   \* the last successful call: its batch, what its caller had seen, the
             \* length of the ledger before it and the positions it returned

vars == <<ledger, heads, answer>>

(* An envelope as built by a caller; in the ledger it has its sequence too. *)
Envelope == [stream : Streams, key : Keys \cup {NoKey}, content : Contents]
Batches == UNION {[1 .. k -> Envelope] : k \in 1 .. MaxBatch}

NoAnswer ==
    [batch |-> <<>>, seen |-> [s \in Streams |-> 0], from |-> 0, positions |-> <<>>]

Init ==
    /\ ledger = <<>>
    /\ heads = [s \in Streams |-> 0]
    /\ answer = NoAnswer

----------------------------------------------------------------------------
(* The checks of append_many_in_transaction *)

StreamsOf(batch) == {batch[i].stream : i \in DOMAIN batch}

(* Positions in the batch of the events of stream s. *)
Of(batch, s) == {i \in DOMAIN batch : batch[i].stream = s}

(* The event's place among the events of its stream, from 1. *)
Offset(batch, i) == Cardinality({j \in Of(batch, batch[i].stream) : j <= i})

(* _idempotent_event: the ledger positions with the event's stream and key. *)
WithKey(e) ==
    {p \in DOMAIN ledger : e.key # NoKey /\ ledger[p].stream = e.stream /\ ledger[p].key = e.key}
Exists(e) == WithKey(e) # {}
Position(e) == CHOOSE p \in WithKey(e) : TRUE

(* ... whose content must be the same, or IdempotencyConflict is raised. *)
SameContent(batch) ==
    \A i \in DOMAIN batch : \A p \in WithKey(batch[i]) : ledger[p].content = batch[i].content

(* Seeded fault: a retry is answered in whatever order its events are stored. *)
ExistingInAnyOrder(batch) == TRUE

(* _validate_existing_batch_order *)
ExistingInOrder(batch) ==
    \A i, j \in DOMAIN batch :
        /\ batch[i].stream = batch[j].stream
        /\ Offset(batch, j) = Offset(batch, i) + 1
        => ledger[Position(batch[j])].seq = ledger[Position(batch[i])].seq + 1

(* _validate_batch_stream: stored events come first, the stream is where the
   caller saw it plus that prefix, and every event takes the next sequence. *)
CommittedPrefix(batch, s) == Cardinality({i \in Of(batch, s) : Exists(batch[i])})

(* Seeded fault: the stream may have grown since it was seen. *)
StreamGrown(batch, expected, skew, s) ==
    /\ \A i, j \in Of(batch, s) : i < j /\ Exists(batch[j]) => Exists(batch[i])
    /\ heads[s] >= expected[s] + CommittedPrefix(batch, s)
    /\ \A i \in Of(batch, s) :
          IF Exists(batch[i])
          THEN ledger[Position(batch[i])].seq = expected[s] + Offset(batch, i)
          ELSE skew = 0

StreamValid(batch, expected, skew, s) ==
    /\ \A i, j \in Of(batch, s) : i < j /\ Exists(batch[j]) => Exists(batch[i])
    /\ heads[s] = expected[s] + CommittedPrefix(batch, s)
    /\ \A i \in Of(batch, s) :
          IF Exists(batch[i])
          THEN ledger[Position(batch[i])].seq = expected[s] + Offset(batch, i)
          ELSE skew = 0

(* unique(stream_id, idempotency_key): a key twice in one batch of new events is
   an integrity error, which rolls the whole batch back. *)
KeysDistinct(batch) ==
    \A i, j \in DOMAIN batch :
        /\ i # j
        /\ batch[i].stream = batch[j].stream
        /\ batch[i].key # NoKey
        /\ ~Exists(batch[i])
        => batch[i].key # batch[j].key

----------------------------------------------------------------------------
(* append_many *)

(* A complete retry: every event is stored, and the answer is what is stored. *)
Retry(batch) ==
    /\ SameContent(batch)
    /\ \A i \in DOMAIN batch : Exists(batch[i])
    /\ ExistingInOrder(batch)
    /\ answer' = [batch |-> batch, seen |-> heads, from |-> Len(ledger),
                  positions |-> [i \in DOMAIN batch |-> Position(batch[i])]]
    /\ UNCHANGED <<ledger, heads>>

(* The batch's new events, in order. *)
New(batch) == {i \in DOMAIN batch : ~Exists(batch[i])}
Rank(batch, i) == Cardinality({j \in New(batch) : j <= i})

(* _insert_event of the k-th new event.  The envelope declares as its sequence what
   the caller expected plus its offset, plus skew when the caller miscounted. *)
NewEvent(batch, expected, skew, k) ==
    LET i == CHOOSE j \in New(batch) : Rank(batch, j) = k
    IN  [stream |-> batch[i].stream, key |-> batch[i].key, content |-> batch[i].content,
         seq |-> expected[batch[i].stream] + Offset(batch, i) + skew]

(* Seeded fault: the head counts the whole batch, its stored prefix included. *)
HeadCountsBatch(batch, s) == heads[s] + Cardinality(Of(batch, s))

NewHead(batch, s) == heads[s] + Cardinality(Of(batch, s) \cap New(batch))

Extended(batch, expected, skew) ==
    ledger \o [k \in 1 .. Cardinality(New(batch)) |-> NewEvent(batch, expected, skew, k)]

(* The batch's streams as a caller may have seen them, now or earlier. *)
Seen(batch) ==
    {expected \in [Streams -> 0 .. MaxLedger] :
        \A s \in Streams : IF s \in StreamsOf(batch) THEN expected[s] <= heads[s]
                                                    ELSE expected[s] = heads[s]}

AppendNew(batch) ==
    /\ Len(ledger) + Cardinality(New(batch)) <= MaxLedger
    /\ New(batch) # {}
    /\ SameContent(batch)
    /\ KeysDistinct(batch)
    /\ \E expected \in Seen(batch), skew \in {0, 1} :
         /\ \A s \in StreamsOf(batch) : StreamValid(batch, expected, skew, s)
         /\ ledger' = Extended(batch, expected, skew)
         /\ heads' = [s \in Streams |-> NewHead(batch, s)]
         /\ answer' = [batch |-> batch, seen |-> expected, from |-> Len(ledger),
                       positions |-> [i \in DOMAIN batch |->
                           IF Exists(batch[i]) THEN Position(batch[i])
                                               ELSE Len(ledger) + Rank(batch, i)]]

Next == \E batch \in Batches : Retry(batch) \/ AppendNew(batch)

Spec == Init /\ [][Next]_vars

----------------------------------------------------------------------------
(* Properties *)

(* Every stream is numbered 1, 2, 3, ... in ledger order without a gap, and its
   head is the number of its last event: what read_stream returns is complete.
   A key is stored at most once in a stream, however often its batch is sent. *)
EventsOf(s) == {p \in DOMAIN ledger : ledger[p].stream = s}
GapFree ==
    /\ \A s \in Streams :
         /\ heads[s] = Cardinality(EventsOf(s))
         /\ \A p \in EventsOf(s) :
               ledger[p].seq = Cardinality({q \in EventsOf(s) : q <= p})
    /\ \A p, q \in DOMAIN ledger :
         p # q /\ ledger[p].key # NoKey /\ ledger[p].stream = ledger[q].stream
         => ledger[p].key # ledger[q].key

(* An answered batch is in the ledger as it was sent: each event at its position,
   and the events of one stream next to each other in the batch's order, whether
   they were appended now, earlier, or partly each. *)
AnswerInLedger ==
    LET b == answer.batch
        At(i) == ledger[answer.positions[i]]
    IN  /\ \A i \in DOMAIN b : /\ At(i).stream = b[i].stream
                               /\ At(i).key = b[i].key
                               /\ At(i).content = b[i].content
        /\ \A i, j \in DOMAIN b :
              b[i].stream = b[j].stream /\ i < j =>
                  At(j).seq - At(i).seq = Offset(b, j) - Offset(b, i)

(* No update is lost: a call that appended to a stream had seen every event that
   was in it, but those it sent itself. *)
NoUnseenEvent ==
    LET b == answer.batch
        Appended(s) == \E i \in Of(b, s) : answer.positions[i] > answer.from
    IN  \A p \in 1 .. answer.from :
            Appended(ledger[p].stream) /\ ledger[p].seq > answer.seen[ledger[p].stream]
            => \E i \in DOMAIN b : answer.positions[i] = p
=============================================================================
