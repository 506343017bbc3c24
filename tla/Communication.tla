--------------------------- MODULE Communication ---------------------------
(***************************************************************************)
(* The queues of the COMMUNICATION SECTION (cobol-runtime/src/             *)
(* communication.rs).  SEND collects segments until an end indicator, then *)
(* routes the message; RECEIVE MESSAGE flattens a message, RECEIVE SEGMENT *)
(* takes one segment at a time; each mode remembers its own partly read    *)
(* message.  Every call runs under the COMM_RUNTIME mutex.                 *)
(*                                                                         *)
(* A byte is [from, n]: the n-th byte SENT through the CD `from`.          *)
(***************************************************************************)
EXTENDS Integers, Sequences, SequencesExt, FiniteSets

CONSTANTS
  Queues,       \* the CD names
  Senders,      \* those the program names in SEND
  Receivers,    \* those it names in RECEIVE and ACCEPT MESSAGE COUNT
  Switched,     \* those it names in ENABLE and DISABLE
  Purgeable,    \* those it names in PURGE
  Routes,       \* the link lines of the script: CD -> targets
  Configured,   \* the CDs with config lines, whose checks can fail
  Modes,        \* CD -> the RECEIVE modes the program uses on it
  SendOptions,  \* the end indicators it sends: ESI 1, EMI 2, EGI 3
  TextSizes,    \* lengths of the text of a SEND
  BufferSizes,  \* lengths of the area of a RECEIVE
  MaxSent       \* bound: bytes sent through each CD

(* A script that links two CDs twice is left out: the second link would    *)
(* deliver everything twice.                                               *)
ASSUME RoutesAssumption ==
  /\ DOMAIN Routes \subseteq Queues
  /\ \A q \in DOMAIN Routes : Routes[q] \in Seq(Queues) /\ IsInjective(Routes[q])
ASSUME SizesAssumption ==
  /\ Queues # {}
  /\ Configured \subseteq Queues
  /\ Senders \cup Receivers \cup Switched \cup Purgeable \subseteq Queues
  /\ Modes \in [Queues -> SUBSET {"Message", "Segment"}]
  /\ SendOptions \subseteq 1..3
  /\ TextSizes \subseteq Nat /\ BufferSizes \subseteq Nat \ {0} /\ MaxSent \in Nat

VARIABLES
  queues,  \* the state of each queue a call or the script has named
  reply,   \* what the last call returned: the call, the CD, its status
  sent,    \* history: bytes accepted from each CD
  taken,   \* history: bytes each queue delivered, in order
  lost,    \* history: bytes each queue purged
  ends     \* history: the end indicator sent with the last byte of a text

history == <<sent, taken, lost, ends>>
vars == <<queues, reply, history>>

Fresh == [enabled |-> FALSE,
          messages |-> << >>,              \* each a sequence of segments
          pending |-> << >>,               \* segments sent so far
          messageReceive |-> << >>,        \* at most one flattened message
          segmentReceive |-> << >>,        \* segments still to be received
          lastEndKey |-> 0]

StateOf(q) == IF q \in DOMAIN queues THEN queues[q] ELSE Fresh
With(Q, q, state) == [p \in DOMAIN Q \cup {q} |-> IF p = q THEN state ELSE Q[p]]

Says(op, q, status) == reply' = [op |-> op, queue |-> q, status |-> status]

Bytes(segments) == FlattenSeq([n \in DOMAIN segments |-> segments[n].units])

----------------------------------------------------------------------------
(* The checks of a configured CD *)

SelectorStatus(q) == IF q \in Configured THEN {0, 20} ELSE {0}
KeyStatus(q) == IF q \in Configured THEN {0, 40} ELSE {0}
SourceStatus(q) == IF q \in Configured THEN {0, 21} ELSE {0}
DestinationStatus(q) == IF q \in Configured THEN {0, 20, 30} ELSE {0}

(* ENABLE and DISABLE return the first check that fails. *)
SwitchStatus(q) ==
  SelectorStatus(q) \cup KeyStatus(q) \cup SourceStatus(q) \cup DestinationStatus(q)

Switch(op, q, on) ==
  \E status \in SwitchStatus(q) :
    /\ queues' = IF status = 0
                   THEN With(queues, q, [StateOf(q) EXCEPT !.enabled = on])
                   ELSE queues
    /\ Says(op, q, status)
    /\ UNCHANGED history

Enable(q) == Switch("enable", q, TRUE)
Disable(q) == Switch("disable", q, FALSE)

----------------------------------------------------------------------------
(* SEND *)

SendInvalid(q) ==
  /\ \E status \in DestinationStatus(q) \cup {50, 60} :
       status # 0 /\ Says("send", q, status)
  /\ UNCHANGED <<queues, history>>

(* A refused SEND still creates the queue. *)
SendDisabled(q) ==
  /\ ~StateOf(q).enabled
  /\ queues' = With(queues, q, StateOf(q))
  /\ Says("send", q, 10)
  /\ UNCHANGED history

(* Variant for a mutant: the bytes before the right ones. *)
TextOneEarlier(q, size) == [n \in 1..size |-> [from |-> q, n |-> sent[q] + n - 1]]
Text(q, size) == [n \in 1..size |-> [from |-> q, n |-> sent[q] + n]]

(* Variant for a mutant: only the first target gets the message. *)
DeliverToFirst(Q, q, message) ==
  LET t == IF q \in DOMAIN Routes THEN Routes[q][1] ELSE q
      state == IF t \in DOMAIN Q THEN Q[t] ELSE Fresh
  IN  With(Q, t, [state EXCEPT !.messages = Append(@, message)])

Targets(q) == IF q \in DOMAIN Routes THEN Range(Routes[q]) ELSE {q}

(* A complete message goes to the targets of the CD, or to its own queue.  *)
Deliver(Q, q, message) ==
  [t \in DOMAIN Q \cup Targets(q) |->
     LET state == IF t \in DOMAIN Q THEN Q[t] ELSE Fresh
     IN  IF t \in Targets(q) THEN [state EXCEPT !.messages = Append(@, message)] ELSE state]

(* Variant for a mutant: only EGI ends a message. *)
ContinuesUnlessEGI(endKey) == endKey # 3
Continues(endKey) == endKey = 1

Send(q, size, endKey) ==
  LET segments == Append(StateOf(q).pending, [units |-> Text(q, size), endKey |-> endKey])
      state(pending) == [StateOf(q) EXCEPT !.pending = pending]
  IN  /\ StateOf(q).enabled
      /\ size > 0 /\ sent[q] + size <= MaxSent
      /\ queues' = IF Continues(endKey)
                     THEN With(queues, q, state(segments))
                     ELSE Deliver(With(queues, q, state(<< >>)), q, segments)
      /\ Says("send", q, 0)
      /\ sent' = [sent EXCEPT ![q] = @ + size]
      /\ ends' = ends \cup {[unit |-> [from |-> q, n |-> sent[q] + size], key |-> endKey]}
      /\ UNCHANGED <<taken, lost>>

----------------------------------------------------------------------------
(* RECEIVE *)

(* The units that fit in an area of the given size. *)
Fitting(units, size) == SubSeq(units, 1, IF size < Len(units) THEN size ELSE Len(units))

(* Variant for a mutant: the rest of a long message is thrown away. *)
Truncated(units, size) == << >>
Left(units, size) == SubSeq(units, size + 1, Len(units))

Flattened(message) ==
  [units |-> Bytes(message), endKey |-> message[Len(message)].endKey]

ReceiveRefused(q) ==
  /\ 20 \in SelectorStatus(q)
  /\ queues' = With(queues, q, [StateOf(q) EXCEPT !.lastEndKey = 1])
  /\ Says("receive", q, 20)
  /\ UNCHANGED history

Took(q, units) == taken' = [taken EXCEPT ![q] = @ \o units] /\ UNCHANGED <<sent, lost, ends>>

(* Variant for a mutant: the key of the message with its first piece. *)
AfterMessageKeyAtOnce(s, a, size) ==
  LET rest == Left(a.units, size)
  IN  [s EXCEPT !.messageReceive = IF rest = << >> THEN << >> ELSE <<[a EXCEPT !.units = rest]>>,
                !.lastEndKey = a.endKey]

(* The state after size bytes of the message a are received from state s. *)
AfterMessage(s, a, size) ==
  LET rest == Left(a.units, size)
  IN  [s EXCEPT !.messageReceive = IF rest = << >> THEN << >> ELSE <<[a EXCEPT !.units = rest]>>,
                !.lastEndKey = IF rest = << >> THEN a.endKey ELSE 0]

(* The message in progress, or else the first of the queue. *)
ReceiveMessage(q, size) ==
  LET s == StateOf(q)
      resumed == s.messageReceive # << >>
      a == IF resumed THEN s.messageReceive[1] ELSE Flattened(Head(s.messages))
      popped == IF resumed THEN s ELSE [s EXCEPT !.messages = Tail(@)]
  IN  /\ "Message" \in Modes[q]
      /\ resumed \/ s.messages # << >>
      /\ queues' = With(queues, q, AfterMessage(popped, a, size))
      /\ Took(q, Fitting(a.units, size))
      /\ Says("receiveMessage", q, 0)

(* Variant for a mutant: the key of the message instead of the segment's. *)
AfterSegmentWithMessageKey(s, segments, size) ==
  LET rest == Left(segments[1].units, size)
  IN  IF rest = << >>
        THEN [s EXCEPT !.segmentReceive = Tail(segments),
                       !.lastEndKey = segments[Len(segments)].endKey]
        ELSE [s EXCEPT !.segmentReceive = <<[segments[1] EXCEPT !.units = rest]>> \o Tail(segments),
                       !.lastEndKey = 0]

AfterSegment(s, segments, size) ==
  LET rest == Left(segments[1].units, size)
  IN  IF rest = << >>
        THEN [s EXCEPT !.segmentReceive = Tail(segments), !.lastEndKey = segments[1].endKey]
        ELSE [s EXCEPT !.segmentReceive = <<[segments[1] EXCEPT !.units = rest]>> \o Tail(segments),
                       !.lastEndKey = 0]

ReceiveSegment(q, size) ==
  LET s == StateOf(q)
      resumed == s.segmentReceive # << >>
      segments == IF resumed THEN s.segmentReceive ELSE Head(s.messages)
      popped == IF resumed THEN s ELSE [s EXCEPT !.messages = Tail(@)]
  IN  /\ "Segment" \in Modes[q]
      /\ resumed \/ s.messages # << >>
      /\ queues' = With(queues, q, AfterSegment(popped, segments, size))
      /\ Took(q, Fitting(segments[1].units, size))
      /\ Says("receiveSegment", q, 0)

(* Variant for a mutant: a message in progress does not count. *)
NothingQueued(q) == StateOf(q).messages = << >>
NothingLeft(q) ==
  /\ StateOf(q).messages = << >>
  /\ \/ "Message" \in Modes[q] /\ StateOf(q).messageReceive = << >>
     \/ "Segment" \in Modes[q] /\ StateOf(q).segmentReceive = << >>

ReceiveNothing(q) ==
  /\ NothingLeft(q)
  /\ queues' = With(queues, q, [StateOf(q) EXCEPT !.lastEndKey = 1])
  /\ Says("receive", q, 10)
  /\ UNCHANGED history

----------------------------------------------------------------------------
(* PURGE and ACCEPT MESSAGE COUNT *)

BytesIn(sequences) == FlattenSeq([n \in DOMAIN sequences |-> Bytes(sequences[n])])

(* What a receiver of q would still get. *)
InFlight(q) ==
  LET s == StateOf(q)
  IN  Bytes(s.messageReceive) \o Bytes(s.segmentReceive) \o BytesIn(s.messages)

Purged(q) == [Fresh EXCEPT !.enabled = StateOf(q).enabled, !.lastEndKey = 1]

Purge(q) ==
  /\ queues' = With(queues, q, Purged(q))
  /\ lost' = [lost EXCEPT ![q] = @ \cup Range(InFlight(q)) \cup Range(Bytes(StateOf(q).pending))]
  /\ Says("purge", q, 0)
  /\ UNCHANGED <<sent, taken, ends>>

(* cobol_comm_accept_count: the messages not yet begun. *)
MessageCount(q) == Len(StateOf(q).messages)

AcceptCount(q) ==
  /\ \E status \in SelectorStatus(q) : Says("acceptCount", q, status)
  /\ UNCHANGED <<queues, history>>

----------------------------------------------------------------------------
(* The script may enable queues before the program starts. *)
Init ==
  /\ \E S \in SUBSET Queues : queues = [q \in S |-> [Fresh EXCEPT !.enabled = TRUE]]
  /\ reply = [op |-> "acceptCount", queue |-> CHOOSE q \in Queues : TRUE, status |-> 0]
  /\ sent = [q \in Queues |-> 0]
  /\ taken = [q \in Queues |-> << >>]
  /\ lost = [q \in Queues |-> {}]
  /\ ends = {}

Receive(q) ==
  \/ ReceiveRefused(q) \/ ReceiveNothing(q)
  \/ \E size \in BufferSizes : ReceiveMessage(q, size) \/ ReceiveSegment(q, size)

Next ==
  \/ \E q \in Switched : Enable(q) \/ Disable(q)
  \/ \E q \in Purgeable : Purge(q)
  \/ \E q \in Receivers : Receive(q) \/ AcceptCount(q)
  \/ \E q \in Senders :
       \/ SendInvalid(q) \/ SendDisabled(q)
       \/ \E size \in TextSizes, endKey \in SendOptions : Send(q, size, endKey)

Spec == Init /\ [][Next]_vars

----------------------------------------------------------------------------
(* Properties *)

Units == [from : Queues, n : 1..MaxSent]
Segments == [units : Seq(Units), endKey : 1..3]
Calls == {"enable", "disable", "send", "receive", "receiveMessage", "receiveSegment",
          "purge", "acceptCount"}

TypeOK ==
  /\ DOMAIN queues \subseteq Queues
  /\ \A q \in DOMAIN queues :
       queues[q] \in [enabled : BOOLEAN, messages : Seq(Seq(Segments)), pending : Seq(Segments),
                      messageReceive : Seq(Segments), segmentReceive : Seq(Segments),
                      lastEndKey : 0..3]
  /\ reply \in [op : Calls, queue : Queues, status : {0, 10, 20, 21, 30, 40, 50, 60}]
  /\ sent \in [Queues -> 0..MaxSent]
  /\ taken \in [Queues -> Seq(Units)]
  /\ lost \in [Queues -> SUBSET Units]
  /\ ends \in SUBSET [unit : Units, key : 1..3]

(* Everything sent through s that neither s (while pending) nor the target *)
(* t has purged.                                                           *)
Surviving(s, t) == {[from |-> s, n |-> n] : n \in 1..sent[s]} \ (lost[s] \cup lost[t])

(* The bytes of s among the units come in the order they were sent.        *)
InOrder(s, units) ==
  \A i, j \in DOMAIN units :
    i < j /\ units[i].from = s /\ units[j].from = s => units[i].n < units[j].n

(* End to end, no byte is lost, invented, duplicated or reordered: what a  *)
(* target read in one RECEIVE mode delivered and still holds of a CD, with *)
(* what that CD has pending, is what was sent through the CD, in order,    *)
(* whatever was interleaved.                                               *)
DeliveredInOrder ==
  \A s \in Queues : \A t \in {t \in Targets(s) : Cardinality(Modes[t]) <= 1} :
    LET way == taken[t] \o InFlight(t) \o Bytes(StateOf(s).pending)
    IN  /\ {u \in Range(way) : u.from = s} \ (lost[s] \cup lost[t]) = Surviving(s, t)
        /\ InOrder(s, way)

(* The same without the order: also when both RECEIVE modes are mixed.     *)
DeliveredOnce ==
  \A s \in Queues : \A t \in Targets(s) :
    LET got == taken[t] \o InFlight(t)
    IN  /\ Surviving(s, t) \ Range(Bytes(StateOf(s).pending)) \subseteq Range(got)
        /\ IsInjective(got)

(* 10 is returned only when nothing is left to receive, so a program that  *)
(* reads a queue in one mode until NO DATA has read everything.            *)
NoDataOnlyWhenDrained ==
  [][\A q \in {r \in Queues : Cardinality(Modes[r]) <= 1} :
       reply' = [op |-> "receive", queue |-> q, status |-> 10] => InFlight(q) = << >>]_vars

(* END KEY tells the receiver what the sender said of the last byte it got:*)
(* nothing is reported complete while part of it is still to come.         *)
EndKeyIsSenders ==
  \A q \in DOMAIN queues :
    LET byte == taken[q][Len(taken[q])]
        key(K) == IF \E e \in ends : e.unit = byte /\ e.key \in K
                    THEN (CHOOSE e \in ends : e.unit = byte).key ELSE 0
    IN  /\ reply = [op |-> "receiveMessage", queue |-> q, status |-> 0]
             => queues[q].lastEndKey = key({2, 3})
        /\ reply = [op |-> "receiveSegment", queue |-> q, status |-> 0]
             => queues[q].lastEndKey = key({1, 2, 3})

(* The segments of a message end in 1 except the last, which does not; a   *)
(* pending message has no last segment yet.                                *)
MessagesComplete ==
  \A q \in DOMAIN queues :
    /\ \A m \in Range(queues[q].messages) :
         m # << >> /\ \A n \in DOMAIN m : m[n].endKey = 1 <=> n < Len(m)
    /\ \A n \in DOMAIN queues[q].pending : queues[q].pending[n].endKey = 1

(* The queues hold what the runtime may find in them: the types, and       *)
(* messages whose segments are marked as SEND and PURGE left them.         *)
QueuesCorrect == TypeOK /\ MessagesComplete
=============================================================================
