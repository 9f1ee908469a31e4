------------------------- MODULE MdnsReceive_proofs -------------------------
(***************************************************************************)
(* Proofs about MdnsReceive: the section a record is in is counted right,  *)
(* whatever was skipped before it; no change of a browse goes untold;      *)
(* answers are dropped, names given up and defended, and searches served,  *)
(* as the records of the packet say; every block is freed; what who asks   *)
(* knows already is not answered.                                          *)
(***************************************************************************)
EXTENDS MdnsReceive, FiniteSetTheorems, WellFoundedInduction, TLAPS

Asking == packet.questions % 256

\* Where the function is in the packet, and which record that is.
Position ==
    /\ i \in Nat /\ qs \in Nat /\ recordIndex \in Nat /\ nth \in Nat \ {0}
    /\ packet.questions \in Nat /\ packet.answers \in Nat /\ packet.servers \in Nat
    /\ pc = "idle" => i = 1 /\ recordIndex = 0
    /\ pc = "questions" => i + qs = Asking + 1 /\ recordIndex = 0
    /\ pc = "records" => i = Asking + 1 + recordIndex
    /\ pc = "dispatch" => i = Asking + recordIndex

\* A record of others that is looked at is not in the authority section.
NotProposed ==
    pc = "dispatch" /\ cls = "foreign" =>
        recordIndex \notin packet.answers + 1 .. packet.answers + packet.servers

CountInv == Position /\ NotProposed

LEMMA CountInit == Init => CountInv
<1> SUFFICES ASSUME Init PROVE CountInv
  OBVIOUS
<1>1. pc = "idle" /\ nth = 1 /\ i = 1 /\ qs = 0 /\ recordIndex = 0 /\ packet = NoPacket
  BY DEF Init
<1>2. packet.questions = 0 /\ packet.answers = 0 /\ packet.servers = 0
  BY <1>1 DEF NoPacket
<1> QED BY <1>1, <1>2 DEF CountInv, Position, NotProposed

\* The packet is the header of one of the shapes, with entries.
LEMMA ArrivesHeader ==
  ASSUME NEW k \in DOMAIN Shapes, NEW p \in Shapes[k], Arrives(p)
  PROVE  packet'.questions \in Nat /\ packet'.answers \in Nat /\ packet'.servers \in Nat
<1>1. PICK q \in [1 .. p.asked -> p.asks], r \in [1 .. p.said -> p.says] :
          packet' = [f \in DOMAIN p.header \cup {"entries"} |->
                        IF f = "entries" THEN q \o r ELSE p.header[f]]
  BY DEF Arrives
<1>2. \A f \in {"questions", "answers", "servers"} :
          f \in DOMAIN p.header /\ f # "entries" /\ p.header[f] \in Nat
  BY ShapesAssumption
<1>3. \A f \in {"questions", "answers", "servers"} : packet'[f] \in Nat
  BY <1>1, <1>2
<1> QED BY <1>3

LEMMA ArriveCount == CountInv /\ mdns_parse_packet => CountInv'
<1> SUFFICES ASSUME CountInv, mdns_parse_packet PROVE CountInv'
  OBVIOUS
<1>1. pc = "idle" /\ UNCHANGED <<i, recordIndex, cls>> /\ nth' = nth + 1
  BY DEF mdns_parse_packet
<1>2. nth \in DOMAIN Shapes
  BY ShapesAssumption DEF mdns_parse_packet, CountInv, Position
<1>3. CASE pc' = "idle" /\ packet' = NoPacket /\ UNCHANGED qs
  BY <1>1, <1>3 DEF CountInv, Position, NotProposed, NoPacket
<1>4. CASE /\ \E p \in Shapes[nth] : Arrives(p)
           /\ qs' = packet'.questions % 256 /\ pc' = "questions"
  <2>1. packet'.questions \in Nat /\ packet'.answers \in Nat /\ packet'.servers \in Nat
    BY <1>2, <1>4, ArrivesHeader
  <2>2. qs' \in Nat /\ i' + qs' = Asking' + 1
    BY <1>1, <1>4, <2>1 DEF Asking, CountInv, Position
  <2> QED BY <1>1, <1>4, <2>1, <2>2 DEF CountInv, Position, NotProposed
<1> QED BY <1>3, <1>4 DEF mdns_parse_packet

\* A question that is read is one less to read.
LEMMA QuestionCount ==
  ASSUME CountInv, MalformedQuestion \/ SkippedQuestion \/ DiscoveryQuestion \/ OwnQuestion
  PROVE  CountInv'
<1>1. Question /\ UNCHANGED <<recordIndex, cls, nth, packet>>
  BY DEF MalformedQuestion, SkippedQuestion, DiscoveryQuestion, OwnQuestion, KeepForRecords, rx
<1>2. \/ pc' = "clear" /\ UNCHANGED i
      \/ UNCHANGED pc /\ i' = i + 1
  BY DEF MalformedQuestion, SkippedQuestion, DiscoveryQuestion, OwnQuestion, NextEntry
<1> QED BY <1>1, <1>2 DEF Question, CountInv, Position, NotProposed, Asking

LEMMA QuestionsDoneCount == CountInv /\ QuestionsDone => CountInv'
  BY DEF QuestionsDone, KeepForRecords, rx, CountInv, Position, NotProposed, Asking

LEMMA RecordCount ==
  ASSUME CountInv, MalformedRecord \/ SkippedRecord \/ OwnRecord
  PROVE  CountInv'
<1>1. pc = "records" /\ UNCHANGED <<nth, packet, qs>>
  BY DEF MalformedRecord, SkippedRecord, OwnRecord, Record, KeepForQuestions, rx
<1>2. \/ pc' = "clear" /\ UNCHANGED <<i, recordIndex>>
      \/ UNCHANGED pc /\ i' = i + 1 /\ recordIndex' = recordIndex + 1
      \/ pc' = "dispatch" /\ UNCHANGED i /\ recordIndex' = recordIndex + 1 /\ cls' # "foreign"
  BY DEF MalformedRecord, SkippedRecord, OwnRecord, NextEntry
<1> QED BY <1>1, <1>2 DEF CountInv, Position, NotProposed, Asking

\* The section is told by the number of records before.
LEMMA ForeignCount == CountInv /\ ForeignRecord => CountInv'
<1> SUFFICES ASSUME CountInv, ForeignRecord PROVE CountInv'
  OBVIOUS
<1>1. /\ pc = "records" /\ UNCHANGED <<nth, packet, qs, i>>
      /\ recordIndex' = recordIndex + 1 /\ Section # "NS"
  BY DEF ForeignRecord, Record, KeepForQuestions, Sought, rx
<1>2. pc' \in {"dispatch", "clear"}
  BY DEF ForeignRecord
<1>3. recordIndex' \notin packet.answers + 1 .. packet.answers + packet.servers
  BY <1>1 DEF Section, CountInv, Position
<1> QED BY <1>1, <1>2, <1>3 DEF CountInv, Position, NotProposed, Asking

LEMMA DispatchCount ==
  ASSUME CountInv, PtrRecord \/ SrvRecord \/ TxtRecord \/ AddressRecord \/ OtherRecord
  PROVE  CountInv'
<1>1. pc = "dispatch" /\ UNCHANGED <<nth, packet, qs, recordIndex>>
  BY DEF PtrRecord, SrvRecord, TxtRecord, AddressRecord, OtherRecord, Dispatch, KeepRecord, rx
<1>2. \/ pc' = "clear" /\ UNCHANGED i
      \/ pc' = "records" /\ i' = i + 1
  <2>1. CASE PtrRecord
    BY <2>1 DEF PtrRecord, PtrOfOurs, NextRecord, NextEntry
  <2>2. CASE SrvRecord
    BY <2>2 DEF SrvRecord, NextRecord, NextEntry
  <2>3. CASE TxtRecord \/ OtherRecord
    BY <2>3 DEF TxtRecord, OtherRecord, NextRecord, NextEntry
  <2>4. CASE AddressRecord
    BY <2>4 DEF AddressRecord, AddressOfOurs, NextRecord, NextEntry
  <2> QED BY <2>1, <2>2, <2>3, <2>4
<1> QED BY <1>1, <1>2 DEF CountInv, Position, NotProposed, Asking

LEMMA EndCount ==
  ASSUME CountInv, RecordsDone \/ Reply \/ clear_rx_packet \/ ProbingDone \/ UNCHANGED vars
  PROVE  CountInv'
<1>1. CASE RecordsDone \/ Reply
  BY <1>1 DEF RecordsDone, Reply, rx, CountInv, Position, NotProposed
<1>2. CASE clear_rx_packet
  BY <1>2 DEF clear_rx_packet, NoPacket, CountInv, Position, NotProposed
<1>3. CASE ProbingDone \/ UNCHANGED vars
  BY <1>3 DEF ProbingDone, vars, rx, CountInv, Position, NotProposed, Asking
<1> QED BY <1>1, <1>2, <1>3

LEMMA CountStep == CountInv /\ [Next]_vars => CountInv'
  BY ArriveCount, QuestionCount, QuestionsDoneCount, RecordCount, ForeignCount, DispatchCount,
     EndCount DEF Next, Step, Finished

LEMMA Counted == Spec => []CountInv
<1>1. Init => CountInv
  BY CountInit
<1>2. CountInv /\ [Next]_vars => CountInv'
  BY CountStep
<1> QED BY <1>1, <1>2, PTL DEF Spec

\* Proposals of others are taken by no search and no browse, whatever a packet's
\* header announces and however many records were skipped: recordIndex counts all
\* of them (lines 195-202).
THEOREM ProposalsAreNoAnswers == Spec => AuthoritySectionIsNoAnswer
<1>1. CountInv => (pc = "dispatch" /\ cls = "foreign" =>
          i - (packet.questions % 256) \notin
              packet.answers + 1 .. packet.answers + packet.servers)
  BY DEF CountInv, Position, NotProposed, Asking
<1>2. CountInv => [ pc = "dispatch" /\ cls = "foreign" /\ <<searches, browses>>' # <<searches, browses>> =>
          i - (packet.questions % 256) \notin
              packet.answers + 1 .. packet.answers + packet.servers ]_vars
  BY <1>1
<1> QED BY <1>2, Counted, PTL DEF AuthoritySectionIsNoAnswer

-----------------------------------------------------------------------------
(* Browses. *)

\* What a browse was not told of yet is in the sync object.
Untold ==
    /\ browses = [b \in DOMAIN Browses |-> browses[b]]
    /\ told = [b \in DOMAIN Browses |-> told[b]]
    /\ sync = [browse |-> sync.browse, changes |-> sync.changes]
    /\ sync.browse = 0 => sync.changes = {}
    /\ pc = "idle" => sync.changes = {}
    /\ ~cut => \A b \in DOMAIN Browses :
          browses[b] = IF b = sync.browse THEN told[b] \cup sync.changes ELSE told[b]

LEMMA UntoldInit == Init => Untold
<1> SUFFICES ASSUME Init PROVE Untold
  OBVIOUS
<1>1. /\ sync = [browse |-> 0, changes |-> {}]
      /\ browses = [b \in DOMAIN Browses |-> {}] /\ told = [b \in DOMAIN Browses |-> {}]
  BY DEF Init, NoSync
<1>2. \A b \in DOMAIN Browses : browses[b] = {} /\ told[b] = {}
  BY <1>1
<1> QED BY <1>1, <1>2 DEF Untold

\* What is new to a browse is noted.
LEMMA AddUntold ==
  ASSUME Untold, NEW facts, mdns_browse_result_add(facts), pc # "idle", pc' # "idle",
         UNCHANGED <<told, cut>>
  PROVE  Untold'
<1>1. CASE UNCHANGED <<browses, sync>>
  BY <1>1 DEF Untold
<1>2. CASE /\ browse_result = sync.browse /\ browse_result # 0
           /\ browses' = [browses EXCEPT ![browse_result] = @ \cup facts]
           /\ sync' = [sync EXCEPT !.changes = @ \cup (facts \ browses[browse_result])]
  <2>1. /\ sync'.browse = sync.browse
        /\ sync'.changes = sync.changes \cup (facts \ browses[browse_result])
        /\ sync' = [browse |-> sync'.browse, changes |-> sync'.changes]
    BY <1>2 DEF Untold
  <2>2. browses' = [b \in DOMAIN Browses |-> browses'[b]]
    BY <1>2 DEF Untold
  <2>3. \A b \in DOMAIN Browses :
            browses'[b] = IF b = browse_result THEN browses[b] \cup facts ELSE browses[b]
    BY <1>2 DEF Untold
  <2>4. ~cut => \A b \in DOMAIN Browses :
            browses'[b] = IF b = sync'.browse THEN told[b] \cup sync'.changes ELSE told[b]
    BY <1>2, <2>1, <2>3 DEF Untold
  <2> QED BY <1>2, <2>1, <2>2, <2>4 DEF Untold
<1> QED BY <1>1, <1>2 DEF mdns_browse_result_add

LEMMA QuietUntold ==
  ASSUME Untold, UNCHANGED <<browses, sync, told, cut>>, pc' = "idle" => pc = "idle"
  PROVE  Untold'
  BY DEF Untold

LEMMA ForeignUntold == Untold /\ ForeignRecord => Untold'
<1> SUFFICES ASSUME Untold, ForeignRecord PROVE Untold'
  OBVIOUS
<1>1. UNCHANGED <<browses, told, cut>> /\ pc' # "idle"
  BY DEF ForeignRecord, lists
<1>2. CASE UNCHANGED sync
  BY <1>1, <1>2, QuietUntold
<1>3. CASE sync.browse = 0 /\ sync' = [NoSync EXCEPT !.browse = browse_result']
  <2>1. sync'.browse = browse_result' /\ sync'.changes = {} /\ sync.changes = {}
    BY <1>3 DEF NoSync, Untold
  <2>2. sync' = [browse |-> sync'.browse, changes |-> sync'.changes]
    BY <1>3 DEF NoSync
  <2> QED BY <1>1, <1>3, <2>1, <2>2, BrowsesAssumption DEF Untold
<1> QED BY <1>2, <1>3 DEF ForeignRecord

LEMMA DispatchUntold ==
  ASSUME Untold, PtrRecord \/ SrvRecord \/ TxtRecord \/ AddressRecord \/ OtherRecord
  PROVE  Untold'
<1>1. pc = "dispatch" /\ UNCHANGED <<told, cut>>
  BY DEF PtrRecord, SrvRecord, TxtRecord, AddressRecord, OtherRecord, Dispatch, KeepRecord
<1>2. pc' # "idle"
  <2>1. CASE PtrRecord
    BY <2>1 DEF PtrRecord, PtrOfOurs, NextRecord
  <2>2. CASE SrvRecord
    BY <2>2 DEF SrvRecord, NextRecord
  <2>3. CASE TxtRecord \/ OtherRecord
    BY <2>3 DEF TxtRecord, OtherRecord, NextRecord
  <2>4. CASE AddressRecord
    BY <2>4 DEF AddressRecord, AddressOfOurs, NextRecord
  <2> QED BY <2>1, <2>2, <2>3, <2>4
<1>3. \/ UNCHANGED <<browses, sync>>
      \/ \E facts : mdns_browse_result_add(facts)
  BY DEF PtrRecord, SrvRecord, TxtRecord, AddressRecord, OtherRecord
<1> QED BY <1>1, <1>2, <1>3, AddUntold, QuietUntold

\* The browse is told at the end, and what is freed with a packet that is given up
\* is why it is cut.
LEMMA EndUntold == ASSUME Untold, Reply \/ clear_rx_packet PROVE Untold'
<1>1. CASE Reply
  <2>1. UNCHANGED <<browses, cut>> /\ pc' # "idle"
    BY <1>1 DEF Reply
  <2>2. CASE UNCHANGED <<told, sync>>
    BY <2>1, <2>2, QuietUntold
  <2>3. CASE /\ told' = [told EXCEPT ![sync.browse] = @ \cup sync.changes] /\ sync' = NoSync
    <3>1. told' = [b \in DOMAIN Browses |-> told'[b]]
      BY <2>3 DEF Untold
    <3>2. \A b \in DOMAIN Browses :
              told'[b] = IF b = sync.browse THEN told[b] \cup sync.changes ELSE told[b]
      BY <2>3 DEF Untold
    <3>3. sync'.changes = {} /\ sync' = [browse |-> sync'.browse, changes |-> sync'.changes]
      BY <2>3 DEF NoSync
    <3> QED BY <2>1, <3>1, <3>2, <3>3 DEF Untold
  <2> QED BY <1>1, <2>2, <2>3 DEF Reply, SyncBrowse
<1>2. CASE clear_rx_packet
  <2>1. /\ UNCHANGED <<browses, told>> /\ sync' = NoSync
        /\ cut' = (cut \/ sync.changes # {})
    BY <1>2 DEF clear_rx_packet
  <2>2. sync'.changes = {} /\ sync' = [browse |-> sync'.browse, changes |-> sync'.changes]
    BY <2>1 DEF NoSync
  <2>3. ~cut' => ~cut /\ sync.changes = {}
    BY <2>1
  <2> QED BY <2>1, <2>2, <2>3 DEF Untold
<1> QED BY <1>1, <1>2

LEMMA UntoldStep == Untold /\ [Next]_vars => Untold'
<1> SUFFICES ASSUME Untold, [Next]_vars PROVE Untold'
  OBVIOUS
<1>1. CASE mdns_parse_packet
  <2>1. pc = "idle" /\ UNCHANGED <<browses, sync, told, cut>>
    BY <1>1 DEF mdns_parse_packet, found
  <2> QED BY <2>1, QuietUntold
<1>2. CASE MalformedQuestion \/ SkippedQuestion \/ DiscoveryQuestion \/ OwnQuestion \/ QuestionsDone
  <2>1. UNCHANGED <<browses, sync, told, cut>> /\ pc = "questions"
    BY <1>2 DEF MalformedQuestion, SkippedQuestion, DiscoveryQuestion, OwnQuestion,
       QuestionsDone, Question, KeepForRecords, lists, found
  <2>2. pc' # "idle"
    BY <1>2, <2>1 DEF MalformedQuestion, SkippedQuestion, DiscoveryQuestion, OwnQuestion,
       QuestionsDone
  <2> QED BY <2>1, <2>2, QuietUntold
<1>3. CASE MalformedRecord \/ SkippedRecord \/ OwnRecord \/ RecordsDone
  <2>1. UNCHANGED <<browses, sync, told, cut>> /\ pc' # "idle"
    BY <1>3 DEF MalformedRecord, SkippedRecord, OwnRecord, RecordsDone, Record, lists, found
  <2> QED BY <2>1, QuietUntold
<1>4. CASE ProbingDone \/ Finished \/ UNCHANGED vars
  <2>1. UNCHANGED <<browses, sync, told, cut, pc>>
    BY <1>4 DEF ProbingDone, Finished, vars, lists, found
  <2> QED BY <2>1, QuietUntold
<1> QED BY <1>1, <1>2, <1>3, <1>4, ForeignUntold, DispatchUntold, EndUntold DEF Next, Step

\* No change to the results of a browse goes untold but for a packet that is given
\* up: of all that uses the sync object, the clean-up alone (line 640) may free it
\* with changes in it.
THEOREM NoChangeGoesUntold == Spec => []BrowsesAreTold
<1>1. Init => Untold
  BY UntoldInit
<1>2. Untold /\ [Next]_vars => Untold'
  BY UntoldStep
<1>3. Untold => BrowsesAreTold
  <2> SUFFICES ASSUME Untold, pc = "idle", ~cut PROVE told = browses
    BY DEF BrowsesAreTold
  <2>1. \A b \in DOMAIN Browses : told[b] = browses[b]
    BY DEF Untold
  <2> QED BY <2>1 DEF Untold
<1> QED BY <1>1, <1>2, <1>3, PTL DEF Spec

-----------------------------------------------------------------------------
(* Answers that are dropped, and names that are given up. *)

LEMMA QuietLists ==
  ASSUME \/ mdns_parse_packet \/ QuestionsDone \/ RecordsDone \/ Reply \/ clear_rx_packet
         \/ MalformedQuestion \/ SkippedQuestion \/ DiscoveryQuestion \/ OwnQuestion
         \/ MalformedRecord \/ SkippedRecord \/ OwnRecord \/ ForeignRecord \/ OtherRecord
         \/ ProbingDone \/ UNCHANGED vars
  PROVE  scheduled \subseteq scheduled' /\ UNCHANGED <<hostname, default_instance, instance>>
<1>1. CASE MalformedQuestion \/ SkippedQuestion \/ DiscoveryQuestion \/ OwnQuestion \/ QuestionsDone
  BY <1>1 DEF MalformedQuestion, SkippedQuestion, DiscoveryQuestion, OwnQuestion, QuestionsDone,
     KeepForRecords, lists, ours
<1>2. CASE MalformedRecord \/ SkippedRecord \/ OwnRecord \/ ForeignRecord \/ OtherRecord
  BY <1>2 DEF MalformedRecord, SkippedRecord, OwnRecord, ForeignRecord, OtherRecord, lists, ours
<1>3. CASE Reply
  BY <1>3 DEF Reply, CreateAnswer, ours
<1>4. CASE mdns_parse_packet \/ RecordsDone \/ clear_rx_packet \/ ProbingDone \/ UNCHANGED vars
  BY <1>4 DEF mdns_parse_packet, RecordsDone, clear_rx_packet, ProbingDone, vars, lists, ours
<1> QED BY <1>1, <1>2, <1>3, <1>4

\* What drops an answer is of its type, and is as the property says.
Dropping ==
    \A a \in scheduled \ scheduled' :
        /\ cls # "foreign" /\ Entry.type = a[1]
        /\ (Entry.type = "SRV" /\ distributed)
           \/ (Entry.long /\ (Entry.type = "PTR"
                  \/ Collision(Entry.type \in Addresses \/ service # "") = 0))

LEMMA Removed ==
  ASSUME NEW type, NEW s, mdns_remove_scheduled_answer(type, s)
  PROVE  \A a \in scheduled \ scheduled' : a[1] = type
  BY DEF mdns_remove_scheduled_answer

LEMMA PtrDrops == PtrRecord => Dropping
<1> SUFFICES ASSUME PtrRecord, scheduled' # scheduled PROVE Dropping
  BY DEF Dropping
<1>1. Entry.type = "PTR" /\ PtrOfOurs
  BY DEF PtrRecord, Dispatch
<1>2. Entry.long /\ mdns_remove_scheduled_answer("PTR", PtrService(Entry.target))
  BY <1>1 DEF PtrOfOurs
<1>3. cls # "foreign"
  BY <1>1 DEF PtrOfOurs, PtrService
<1> QED BY <1>1, <1>2, <1>3, Removed DEF Dropping

LEMMA SrvDrops == SrvRecord => Dropping
<1> SUFFICES ASSUME SrvRecord, scheduled' # scheduled PROVE Dropping
  BY DEF Dropping
<1>1. Entry.type = "SRV" /\ cls = "ours" /\ SrvOfOurs
  BY DEF SrvRecord, Dispatch, KeepOwn
<1>2. /\ mdns_remove_scheduled_answer("SRV", service)
      /\ distributed \/ (Entry.long /\ Collision(service # "") = 0)
  BY <1>1 DEF SrvOfOurs, Said
<1>3. Entry.type \notin Addresses
  BY <1>1 DEF Addresses
<1> QED BY <1>1, <1>2, <1>3, Removed DEF Dropping

LEMMA TxtDrops == TxtRecord => Dropping
<1> SUFFICES ASSUME TxtRecord, scheduled' # scheduled PROVE Dropping
  BY DEF Dropping
<1>1. Entry.type = "TXT" /\ cls = "ours" /\ TxtOfOurs
  BY DEF TxtRecord, Dispatch, KeepOwn
<1>2. /\ mdns_remove_scheduled_answer("TXT", service)
      /\ Entry.long /\ Collision(service # "") = 0
  BY <1>1 DEF TxtOfOurs, Said
<1>3. Entry.type \notin Addresses
  BY <1>1 DEF Addresses
<1> QED BY <1>1, <1>2, <1>3, Removed DEF Dropping

LEMMA AddressDrops == AddressRecord => Dropping
<1> SUFFICES ASSUME AddressRecord, scheduled' # scheduled PROVE Dropping
  BY DEF Dropping
<1>1. Entry.type \in Addresses /\ cls = "ours" /\ AddressOfOurs
  BY DEF AddressRecord, Dispatch, KeepOwn
<1>2. /\ mdns_remove_scheduled_answer(Entry.type, "")
      /\ Entry.long /\ Collision(TRUE) = 0
  BY <1>1 DEF AddressOfOurs, Said
<1>3. (Entry.type \in Addresses \/ service # "") = TRUE
  BY <1>1
<1>4. Collision(Entry.type \in Addresses \/ service # "") = 0
  BY <1>2, <1>3
<1> QED BY <1>1, <1>2, <1>4, Removed DEF Dropping

\* A scheduled answer is dropped for a record of a name of ours only, that says the
\* same for long enough (lines 281, 419, 493 and the two of the addresses), or for a
\* known SRV record of a distributed query (line 374), whatever arrives.
THEOREM DroppingIsJustified == Spec => DroppedAnswersWereSaid
<1>1. ASSUME [Next]_vars PROVE Dropping
  <2>1. CASE PtrRecord \/ SrvRecord \/ TxtRecord \/ AddressRecord
    BY <2>1, PtrDrops, SrvDrops, TxtDrops, AddressDrops
  <2>2. CASE ~(PtrRecord \/ SrvRecord \/ TxtRecord \/ AddressRecord)
    <3>1. scheduled \subseteq scheduled'
      BY <1>1, <2>2, QuietLists DEF Next, Step, Finished
    <3> QED BY <3>1 DEF Dropping
  <2> QED BY <2>1, <2>2
<1>2. [Next]_vars => [Dropping]_vars
  BY <1>1
<1> QED BY <1>2, PTL DEF Spec, DroppedAnswersWereSaid, Dropping

-----------------------------------------------------------------------------
(* The entries. *)

Announced == packet.answers + packet.servers + packet.additional # 0

LEMMA NoPacketIs == NoPacket.additional = 0 /\ NoPacket.entries = <<>>
  BY DEF NoPacket

\* What an entry may be, and that a record that is looked at is one of the records.
PacketInv ==
    /\ packet.additional \in Nat /\ Len(packet.entries) \in Nat
    /\ \A k \in 1 .. Len(packet.entries) :
          /\ packet.entries[k].class \in Nat /\ packet.entries[k].cmp \in -1 .. 2
          /\ packet.entries[k].name.host # NULL
    /\ pc \in {"records", "dispatch"} => Announced
    /\ pc = "dispatch" => i \in Records

LEMMA PacketInit == Init => PacketInv
<1> SUFFICES ASSUME Init PROVE PacketInv
  OBVIOUS
<1>1. pc = "idle" /\ packet.additional = 0 /\ packet.entries = <<>>
  BY NoPacketIs DEF Init
<1>2. Len(packet.entries) = 0 /\ 1 .. 0 = {}
  BY <1>1
<1> QED BY <1>1, <1>2 DEF PacketInv

LEMMA ArrivesEntries ==
  ASSUME NEW k \in DOMAIN Shapes, NEW p \in Shapes[k], Arrives(p)
  PROVE  /\ packet'.additional \in Nat /\ Len(packet'.entries) \in Nat
         /\ \A j \in 1 .. Len(packet'.entries) :
               /\ packet'.entries[j].class \in Nat /\ packet'.entries[j].cmp \in -1 .. 2
               /\ packet'.entries[j].name.host # NULL
<1>1. PICK q \in [1 .. p.asked -> p.asks], r \in [1 .. p.said -> p.says] :
          packet' = [f \in DOMAIN p.header \cup {"entries"} |->
                        IF f = "entries" THEN q \o r ELSE p.header[f]]
  BY DEF Arrives
<1>2. /\ p.asked \in Nat /\ p.said \in Nat
      /\ \A e \in p.asks \cup p.says : e.class \in Nat /\ e.cmp \in -1 .. 2 /\ e.name.host # NULL
      /\ "additional" \in DOMAIN p.header /\ p.header.additional \in Nat
  BY ShapesAssumption
<1>3. packet'.additional \in Nat /\ packet'.entries = q \o r
  BY <1>1, <1>2
<1> DEFINE E == p.asks \cup p.says
<1>4. q \in Seq(E) /\ r \in Seq(E)
  <2>1. p.asked \in Nat /\ p.said \in Nat
    BY <1>2
  <2> QED BY <2>1
<1>5. q \o r \in Seq(E)
  BY <1>4
<1>6. ASSUME NEW s \in Seq(E)
      PROVE  Len(s) \in Nat /\ \A j \in 1 .. Len(s) : s[j] \in E
  OBVIOUS
<1>7. Len(q \o r) \in Nat /\ \A j \in 1 .. Len(q \o r) : (q \o r)[j] \in E
  BY <1>5, <1>6
<1> HIDE DEF E
<1>8. \A e \in E : e.class \in Nat /\ e.cmp \in -1 .. 2 /\ e.name.host # NULL
  BY <1>2 DEF E
<1> QED BY <1>3, <1>7, <1>8

LEMMA PacketStep == CountInv /\ PacketInv /\ [Next]_vars => PacketInv'
<1> SUFFICES ASSUME CountInv, PacketInv, [Next]_vars PROVE PacketInv'
  OBVIOUS
<1>1. CASE mdns_parse_packet
  <2>1. nth \in DOMAIN Shapes
    BY <1>1, ShapesAssumption DEF mdns_parse_packet, CountInv, Position
  <2>2. CASE pc' = "idle" /\ packet' = NoPacket
    <3>1. packet'.additional = 0 /\ packet'.entries = <<>>
      BY <2>2, NoPacketIs
    <3>2. Len(packet'.entries) = 0 /\ 1 .. 0 = {}
      BY <3>1
    <3> QED BY <2>2, <3>1, <3>2 DEF PacketInv
  <2>3. CASE pc' = "questions" /\ \E p \in Shapes[nth] : Arrives(p)
    BY <2>1, <2>3, ArrivesEntries DEF PacketInv
  <2> QED BY <1>1, <2>2, <2>3 DEF mdns_parse_packet
<1>2. CASE MalformedQuestion \/ SkippedQuestion \/ DiscoveryQuestion \/ OwnQuestion
  <2>1. pc' \in {"questions", "clear"} /\ UNCHANGED packet
    BY <1>2 DEF MalformedQuestion, SkippedQuestion, DiscoveryQuestion, OwnQuestion, Question,
       KeepForRecords, rx
  <2> QED BY <2>1 DEF PacketInv
<1>3. CASE QuestionsDone
  <2>1. UNCHANGED packet /\ pc' # "dispatch" /\ (pc' = "records" => Announced)
    BY <1>3 DEF QuestionsDone, KeepForRecords, rx, CountInv, Position, PacketInv, Announced
  <2> QED BY <2>1 DEF PacketInv, Announced
<1>4. CASE MalformedRecord \/ SkippedRecord
  <2>1. pc = "records" /\ pc' \in {"records", "clear"} /\ UNCHANGED packet
    BY <1>4 DEF MalformedRecord, SkippedRecord, Record, KeepForQuestions, rx
  <2> QED BY <2>1 DEF PacketInv, Announced
<1>5. CASE OwnRecord \/ ForeignRecord
  <2>1. pc = "records" /\ ~Ended /\ UNCHANGED <<packet, i>> /\ pc' # "idle"
    BY <1>5 DEF OwnRecord, ForeignRecord, Record, KeepForQuestions, rx
  <2>2. i \in Records
    BY <2>1 DEF Ended, Records, CountInv, Position, Asking, PacketInv, Announced
  <2> QED BY <2>1, <2>2 DEF PacketInv, Announced, Records
<1>6. CASE PtrRecord \/ SrvRecord \/ TxtRecord \/ AddressRecord \/ OtherRecord
  <2>1. pc = "dispatch" /\ UNCHANGED packet
    BY <1>6 DEF PtrRecord, SrvRecord, TxtRecord, AddressRecord, OtherRecord, Dispatch, KeepRecord, rx
  <2>2. pc' # "dispatch"
    BY <1>6 DEF PtrRecord, PtrOfOurs, SrvRecord, TxtRecord, AddressRecord, AddressOfOurs,
       OtherRecord, NextRecord
  <2> QED BY <2>1, <2>2 DEF PacketInv, Announced
<1>7. CASE RecordsDone \/ Reply
  <2>1. UNCHANGED packet /\ pc' \in {"reply", "clear"}
    BY <1>7 DEF RecordsDone, Reply, rx
  <2> QED BY <2>1 DEF PacketInv
<1>8. CASE clear_rx_packet
  <2>1. pc' = "idle" /\ packet'.additional = 0 /\ packet'.entries = <<>>
    BY <1>8, NoPacketIs DEF clear_rx_packet
  <2>2. Len(packet'.entries) = 0 /\ 1 .. 0 = {}
    BY <2>1
  <2> QED BY <2>1, <2>2 DEF PacketInv
<1>9. CASE ProbingDone \/ Finished \/ UNCHANGED vars
  <2>1. UNCHANGED <<packet, pc, i>>
    BY <1>9 DEF ProbingDone, Finished, vars, rx
  <2> QED BY <2>1 DEF PacketInv, Announced, Records
<1> QED BY <1>1, <1>2, <1>3, <1>4, <1>5, <1>6, <1>7, <1>8, <1>9 DEF Next, Step

LEMMA PacketsAreShaped == Spec => []PacketInv
<1>1. Init => PacketInv
  BY PacketInit
<1>2. CountInv /\ PacketInv /\ [Next]_vars => PacketInv'
  BY PacketStep
<1> QED BY <1>1, <1>2, Counted, PTL DEF Spec

-----------------------------------------------------------------------------
(* Names. *)

\* A name goes with a record that won, or with one without a port, while probing.
Yielding ==
    /\ pcb = "probing" /\ cls = "ours" /\ mdns_name_is_selfhosted(Entry.name)
    /\ \/ Beats(Entry, Entry.type \in Addresses \/ service # "")
       \/ Entry.type = "SRV" /\ Entry.port0 /\ Yields(Entry, service # "")
NamesGone ==
    <<hostname, default_instance, instance>>' # <<hostname, default_instance, instance>> => Yielding

LEMMA CollisionIs ==
  ASSUME CountInv, PacketInv, pc = "dispatch", NEW comparable \in BOOLEAN
  PROVE  /\ Collision(comparable) \in -1 .. 2
         /\ Collision(comparable) > 0 <=> Beats(Entry, comparable)
         /\ Collision(comparable) < 0 <=> Yields(Entry, comparable)
         /\ Collision(comparable) = 0 <=> ~Beats(Entry, comparable) /\ ~Yields(Entry, comparable)
<1>1. i \in 1 .. Len(packet.entries)
  BY DEF CountInv, Position, PacketInv, Records
<1>2. Entry.class \in Nat /\ Entry.cmp \in -1 .. 2
  BY <1>1 DEF PacketInv, Entry
<1>3. CASE comparable = TRUE
  BY <1>2, <1>3 DEF Collision, CollisionWith, Beats, Yields
<1>4. CASE comparable = FALSE
  BY <1>2, <1>4 DEF Collision, CollisionWith, Beats, Yields
<1> QED BY <1>3, <1>4

LEMMA SrvGives == CountInv /\ PacketInv /\ SrvRecord => NamesGone
<1> SUFFICES ASSUME CountInv, PacketInv, SrvRecord,
                    <<hostname, default_instance, instance>>' # <<hostname, default_instance, instance>>
             PROVE  Yielding
  BY DEF NamesGone
<1>1. pc = "dispatch" /\ Entry.type = "SRV" /\ cls = "ours" /\ SrvOfOurs
  BY DEF SrvRecord, Dispatch, KeepOwn, ours
<1>2. /\ Probing /\ IsSelfhosted
      /\ Collision(service # "") > 0 \/ (Collision(service # "") < 0 /\ Entry.port0)
  BY <1>1 DEF SrvOfOurs, ours
<1>3. Entry.type \notin Addresses
  BY <1>1 DEF Addresses
<1> QED BY <1>1, <1>2, <1>3, CollisionIs DEF Yielding, Probing, IsSelfhosted

LEMMA AddressGives == CountInv /\ PacketInv /\ AddressRecord => NamesGone
<1> SUFFICES ASSUME CountInv, PacketInv, AddressRecord,
                    <<hostname, default_instance, instance>>' # <<hostname, default_instance, instance>>
             PROVE  Yielding
  BY DEF NamesGone
<1>1. pc = "dispatch" /\ Entry.type \in Addresses /\ cls = "ours" /\ AddressOfOurs
  BY DEF AddressRecord, Dispatch, KeepOwn, ours
<1>2. Probing /\ IsSelfhosted /\ Collision(TRUE) = 1
  BY <1>1 DEF AddressOfOurs, ours
<1>3. Beats(Entry, TRUE)
  <2> DEFINE col == Collision(TRUE)
  <2>1. col = 1
    BY <1>2, Zenon
  <2>2. col > 0 <=> Beats(Entry, TRUE)
    BY <1>1, CollisionIs, Zenon
  <2> HIDE DEF col
  <2>3. col > 0
    BY <2>1
  <2> QED BY <2>2, <2>3, Zenon
<1>4. Beats(Entry, Entry.type \in Addresses \/ service # "")
  BY <1>1, <1>3 DEF Beats
<1> QED BY <1>1, <1>2, <1>4 DEF Yielding, Probing, IsSelfhosted

\* A name of ours, of the instance or of the host, changes while it is probed for
\* only, for a record of a name that this host answers for, and that beats ours or
\* names no port (lines 390-414 and 530-538), whatever was parsed before.
THEOREM NamesAreKept == Spec => NamesAreGivenUpOnConflict
<1>1. ASSUME CountInv, PacketInv, [Next]_vars PROVE NamesGone
  <2>1. CASE SrvRecord \/ AddressRecord
    BY <1>1, <2>1, SrvGives, AddressGives
  <2>2. CASE PtrRecord \/ TxtRecord
    <3>1. UNCHANGED <<hostname, default_instance, instance>>
      BY <2>2 DEF PtrRecord, TxtRecord, TxtOfOurs, KeepOwn, ours
    <3> QED BY <3>1 DEF NamesGone
  <2>3. CASE ~(PtrRecord \/ SrvRecord \/ TxtRecord \/ AddressRecord)
    <3>1. UNCHANGED <<hostname, default_instance, instance>>
      BY <1>1, <2>3, QuietLists DEF Next, Step, Finished
    <3> QED BY <3>1 DEF NamesGone
  <2> QED BY <2>1, <2>2, <2>3
<1>2. CountInv /\ PacketInv /\ [Next]_vars => [NamesGone]_vars
  BY <1>1
<1> QED BY <1>2, Counted, PacketsAreShaped, PTL DEF Spec, NamesAreGivenUpOnConflict, NamesGone, Yielding

-----------------------------------------------------------------------------
(* Names are defended. *)

\* The k-th entry is no record that our names lose to.
Won(k) ==
    LET e == packet.entries[k]
        known == e.type \in Addresses \/ IsService(e.name.service)
    IN  Own(e) /\ mdns_name_is_selfhosted(e.name) =>
        /\ e.type \in Addresses => ~Beats(e, known)
        /\ e.type = "SRV" /\ e.form = "ok" /\ known =>
               ~Beats(e, known) /\ ~(Yields(e, known) /\ e.port0)
        /\ e.type = "TXT" /\ known => ~Beats(e, known) /\ ~Yields(e, known)

\* A probe for our names that will be answered, as things stand.
Defending == packet.flags = "query" /\ parsed.probe /\ ~do_not_reply /\ pcb = "running"

\* No search is found for the records of a query, what is looked at has been
\* classified by its name, and the records behind the reader were won over.
DefendInv ==
    /\ DOMAIN parsed = {"discovery", "probe", "questions", "records"}
    /\ answered => pc = "clear"
    /\ pc = "idle" \/ packet.flags = "query" => search_result = 0
    /\ pc = "dispatch" => /\ cls = "ours" <=> Own(Entry)
                          /\ cls = "ours" => (service # "" <=> IsService(Entry.name.service))
    /\ pc \in {"records", "dispatch"} /\ Defending => \A k \in Records : k < i => Won(k)
    /\ pc = "reply" /\ Defending => \A k \in Records : Won(k)
    /\ answered /\ packet.flags = "query" /\ parsed.probe => \A k \in Records : Won(k)

LEMMA WonKept ==
  ASSUME UNCHANGED <<packet, hostname, default_instance, instance>>,
         parsed'.discovery = parsed.discovery, NEW k
  PROVE  Won(k)' <=> Won(k)
<1>1. ASSUME NEW n PROVE mdns_name_is_ours(n)' <=> mdns_name_is_ours(n)
  BY DEF mdns_name_is_ours, InstanceOf
<1>2. ASSUME NEW n PROVE mdns_name_is_selfhosted(n)' <=> mdns_name_is_selfhosted(n)
  BY DEF mdns_name_is_selfhosted
<1>3. ASSUME NEW e PROVE Own(e)' <=> Own(e)
  BY <1>1 DEF Own, Discovers
<1> QED BY <1>2, <1>3 DEF Won

LEMMA RecordsKept == UNCHANGED packet => Records' = Records
  BY DEF Records

LEMMA DefendInit == Init => DefendInv
<1> SUFFICES ASSUME Init PROVE DefendInv
  OBVIOUS
<1>1. pc = "idle" /\ ~answered /\ search_result = 0 /\ parsed = NoParsed
  BY DEF Init
<1> QED BY <1>1 DEF DefendInv, NoParsed

\* The questions leave nothing behind them that is a record.
LEMMA QuestionsDefend ==
  ASSUME CountInv, PacketInv, DefendInv,
         \/ mdns_parse_packet \/ MalformedQuestion \/ SkippedQuestion \/ DiscoveryQuestion
         \/ OwnQuestion \/ QuestionsDone
  PROVE  DefendInv'
<1>1. CASE mdns_parse_packet
  <2>1. pc = "idle" /\ pc' \in {"idle", "questions"} /\ UNCHANGED <<parsed, answered, search_result>>
    BY <1>1 DEF mdns_parse_packet, found
  <2> QED BY <2>1 DEF DefendInv
<1>2. CASE MalformedQuestion \/ SkippedQuestion \/ DiscoveryQuestion \/ OwnQuestion
  <2>1. /\ pc = "questions" /\ pc' \in {"questions", "clear"}
        /\ UNCHANGED <<packet, answered, search_result>>
    BY <1>2 DEF MalformedQuestion, SkippedQuestion, DiscoveryQuestion, OwnQuestion, Question,
       KeepForRecords, rx, found
  <2>2. DOMAIN parsed' = DOMAIN parsed
    BY <1>2 DEF MalformedQuestion, SkippedQuestion, DiscoveryQuestion, OwnQuestion
  <2> QED BY <2>1, <2>2 DEF DefendInv
<1>3. CASE QuestionsDone
  <2>1. /\ pc = "questions" /\ pc' \in {"clear", "records", "reply"} /\ qs = 0
        /\ UNCHANGED <<i, parsed, packet, answered, search_result>>
        /\ pc' = "reply" => ~(packet.answers + packet.servers + packet.additional > 0)
    BY <1>3 DEF QuestionsDone, KeepForRecords, rx, found
  <2>2. \A k \in Records : ~(k < i)
    BY <2>1 DEF Records, CountInv, Position, Asking, PacketInv
  <2>3. pc' = "reply" => Records = {}
    BY <2>1 DEF Records, CountInv, Position, PacketInv
  <2> QED BY <2>1, <2>2, <2>3, RecordsKept DEF DefendInv
<1> QED BY <1>1, <1>2, <1>3

\* A record that was won over takes the reader on.
LEMMA WonThrough ==
  ASSUME CountInv, PacketInv, DefendInv, pc \in {"records", "dispatch"}, pc' = "records",
         i' = i + 1, UNCHANGED <<packet, answered>>, DOMAIN parsed' = DOMAIN parsed,
         search_result' = 0 \/ UNCHANGED search_result,
         Defending' => /\ Defending /\ Won(i) /\ parsed'.discovery = parsed.discovery
                       /\ UNCHANGED <<hostname, default_instance, instance>>
  PROVE  DefendInv'
<1>1. ASSUME Defending' PROVE \A k \in Records : k < i + 1 => Won(k)'
  <2>1. \A k \in Records : k < i => Won(k)
    BY <1>1 DEF DefendInv
  <2>2. i \in Nat /\ \A k \in Records : k \in Nat
    BY DEF Records, CountInv, Position, PacketInv
  <2>3. \A k \in Records : k < i + 1 => Won(k)
    <3> TAKE k \in Records
    <3>1. k < i + 1 => k < i \/ k = i
      BY <2>2
    <3> QED BY <1>1, <2>1, <3>1
  <2> QED BY <1>1, <2>3, WonKept
<1>2. Defending' => \A k \in Records' : k < i' => Won(k)'
  BY <1>1, RecordsKept
<1> QED BY <1>2 DEF DefendInv

LEMMA SkippedDefend ==
  ASSUME CountInv, PacketInv, DefendInv, SkippedRecord
  PROVE  DefendInv'
<1>1. /\ pc = "records" /\ pc' = "records" /\ i' = i + 1
      /\ UNCHANGED <<packet, parsed, answered, search_result, do_not_reply, pcb,
                     hostname, default_instance, instance>>
  BY DEF SkippedRecord, Record, NextEntry, KeepForQuestions, rx, ours, found
<1>2. Won(i)
  <2>1. CASE Entry.type \in {"NSEC", "OPT"}
    BY <2>1 DEF Won, Entry, Addresses
  <2>2. CASE ~OfDiscovery /\ ~IsOurs
    BY <2>2 DEF Won, Entry, Own, Discovers, OfDiscovery, IsDiscovery, IsOurs
  <2> QED BY <2>1, <2>2 DEF SkippedRecord
<1> QED BY <1>1, <1>2, WonThrough DEF Defending

\* A record is classified by its name, as the property does.
LEMMA ClassifiedDefend ==
  ASSUME CountInv, PacketInv, DefendInv, OwnRecord \/ ForeignRecord \/ MalformedRecord
  PROVE  DefendInv'
<1>1. CASE MalformedRecord
  <2>1. /\ pc = "records" /\ pc' = "clear"
        /\ UNCHANGED <<packet, parsed, answered, search_result>>
    BY <1>1 DEF MalformedRecord, Record, KeepForQuestions, rx, found
  <2> QED BY <2>1 DEF DefendInv
<1>2. CASE OwnRecord
  <2>1. /\ pc = "records" /\ pc' = "dispatch"
        /\ UNCHANGED <<i, packet, parsed, answered, search_result, do_not_reply, pcb,
                       hostname, default_instance, instance>>
        /\ OfDiscovery \/ IsOurs
        /\ cls' = (IF OfDiscovery THEN "discovery" ELSE "ours")
        /\ service' = IF IsOurs /\ IsService(Entry.name.service) THEN Entry.name.service ELSE ""
    BY <1>2 DEF OwnRecord, Record, KeepForQuestions, rx, ours, found
  <2>2. Own(Entry)' <=> Own(Entry)
    BY <2>1 DEF Own, Discovers, mdns_name_is_ours, InstanceOf, Entry
  <2>3. Own(Entry) <=> IsOurs
    BY DEF Own, Discovers, IsOurs, OfDiscovery, IsDiscovery
  <2>4. cls' = "ours" <=> IsOurs
    BY <2>1 DEF IsOurs
  <2>5. IsService("") = FALSE
    BY ServicesAssumption DEF IsService
  <2>6. cls' = "ours" => (service' # "" <=> IsService(Entry'.name.service))
    BY <2>1, <2>4, <2>5 DEF Entry, IsService
  <2>7. Defending' => Defending /\ \A k \in Records : k < i => Won(k)
    BY <2>1 DEF Defending, DefendInv
  <2>8. Defending' => \A k \in Records' : k < i' => Won(k)'
    BY <2>1, <2>7, RecordsKept, WonKept
  <2> QED BY <2>1, <2>2, <2>3, <2>4, <2>6, <2>8 DEF DefendInv
<1>3. CASE ForeignRecord
  <2>1. /\ pc = "records" /\ pc' \in {"dispatch", "clear"} /\ Response
        /\ UNCHANGED <<i, packet, parsed, answered, hostname, default_instance, instance>>
        /\ ~OfDiscovery /\ ~IsOurs /\ cls' = "foreign"
    BY <1>3 DEF ForeignRecord, Record, Sought, KeepForQuestions, rx, ours
  <2>2. packet.flags # "query"
    BY <2>1 DEF Response
  <2>3. Own(Entry)' <=> Own(Entry)
    BY <2>1 DEF Own, Discovers, mdns_name_is_ours, InstanceOf, Entry
  <2>4. ~Own(Entry)
    BY <2>1 DEF Own, Discovers, IsOurs, OfDiscovery, IsDiscovery
  <2> QED BY <2>1, <2>2, <2>3, <2>4 DEF DefendInv, Defending
<1> QED BY <1>1, <1>2, <1>3

\* A record that does not beat our names, or has us not reply, is won over; with
\* any other way out nothing is answered.
LEMMA DispatchDefends ==
  ASSUME CountInv, PacketInv, DefendInv, pc = "dispatch",
         \/ pc' = "clear"
         \/ pc' = "records" /\ i' = i + 1 /\ (Defending' => Defending /\ Won(i)),
         UNCHANGED <<packet, answered>>,
         search_result' = 0 \/ UNCHANGED search_result,
         DOMAIN parsed' = DOMAIN parsed, parsed'.discovery = parsed.discovery,
         pcb = "probing" \/ UNCHANGED <<hostname, default_instance, instance>>
  PROVE  DefendInv'
<1>1. CASE pc' = "clear"
  BY <1>1 DEF DefendInv
<1>2. CASE pc' = "records"
  <2>1. Defending => UNCHANGED <<hostname, default_instance, instance>>
    BY DEF Defending
  <2> QED BY <1>2, <2>1, WonThrough
<1> QED BY <1>1, <1>2

LEMMA OtherDefends ==
  ASSUME CountInv, PacketInv, DefendInv, PtrRecord \/ OtherRecord
  PROVE  DefendInv'
<1>1. /\ pc = "dispatch" /\ Entry.type \notin {"SRV", "TXT"} \cup Addresses
      /\ UNCHANGED <<packet, answered, search_result, do_not_reply, pcb,
                     hostname, default_instance, instance>>
  BY DEF PtrRecord, OtherRecord, Dispatch, KeepRecord, KeepFound, Addresses, rx, ours
<1>2. pc' = "clear" \/ (pc' = "records" /\ i' = i + 1)
  BY DEF PtrRecord, PtrOfOurs, OtherRecord, NextRecord, NextEntry
<1>3. /\ DOMAIN parsed' = DOMAIN parsed
      /\ parsed'.discovery = parsed.discovery /\ parsed'.probe = parsed.probe
  <2>1. CASE UNCHANGED parsed
    BY <2>1
  <2>2. CASE PtrRecord /\ PtrOfOurs
    BY <2>2 DEF PtrOfOurs, DefendInv
  <2> QED BY <2>1, <2>2 DEF PtrRecord, OtherRecord
<1>4. Won(i)
  BY <1>1 DEF Won, Entry
<1> QED BY <1>1, <1>2, <1>3, <1>4, DispatchDefends DEF Defending

LEMMA SrvDefends == CountInv /\ PacketInv /\ DefendInv /\ SrvRecord => DefendInv'
<1> SUFFICES ASSUME CountInv, PacketInv, DefendInv, SrvRecord PROVE DefendInv'
  OBVIOUS
<1>1. /\ pc = "dispatch" /\ Entry.type = "SRV" /\ Entry.type \notin Addresses
      /\ UNCHANGED <<packet, answered, search_result>>
  BY DEF SrvRecord, Dispatch, KeepRecord, KeepFound, rx, Addresses
<1>2. pc' = "clear" \/ (pc' = "records" /\ i' = i + 1)
  BY DEF SrvRecord, NextRecord, NextEntry
<1>3. /\ DOMAIN parsed' = DOMAIN parsed
      /\ parsed'.discovery = parsed.discovery /\ parsed'.probe = parsed.probe
  <2>1. CASE UNCHANGED parsed
    BY <2>1
  <2>2. CASE SrvOfOurs
    BY <2>2 DEF SrvOfOurs, mdns_remove_parsed_question, DefendInv
  <2> QED BY <2>1, <2>2 DEF SrvRecord, KeepOwn
<1>4. pcb = "probing" \/ UNCHANGED <<hostname, default_instance, instance>>
  BY DEF SrvRecord, SrvOfOurs, KeepOwn, ours, Probing
<1>5. CASE KeepOwn /\ (Entry.form # "ok" \/ ~Own(Entry))
  <2>1. Won(i)
    BY <1>1, <1>5 DEF Won, Entry
  <2> QED BY <1>1, <1>2, <1>3, <1>4, <1>5, <2>1, DispatchDefends DEF Defending, KeepOwn, ours
<1>6. CASE Own(Entry) /\ Entry.form = "ok" /\ SrvOfOurs
  <2>1. cls = "ours" /\ (service # "" <=> IsService(Entry.name.service))
    BY <1>1, <1>6 DEF DefendInv
  <2>2. ASSUME Defending' PROVE Defending /\ Won(i)
    <3>1. ~Asked /\ ~distributed /\ parsed.probe /\ packet.flags = "query"
      BY <1>1, <1>3, <2>2 DEF Defending, Asked, distributed
    <3>2. /\ do_not_reply' = (do_not_reply \/
                /\ IsSelfhosted /\ service # "" /\ (parsed.probe \/ authoritative)
                /\ Collision(service # "") > 0 \/ (Collision(service # "") < 0 /\ Entry.port0))
          /\ pcb' \in {pcb, "probing"}
      BY <1>6, <3>1 DEF SrvOfOurs, mdns_init_pcb_probe, ours
    <3>3. Defending
      BY <2>2, <3>1, <3>2 DEF Defending
    <3>4. IsSelfhosted /\ service # "" =>
              ~Beats(Entry, service # "") /\ ~(Yields(Entry, service # "") /\ Entry.port0)
      BY <1>1, <2>2, <3>1, <3>2, CollisionIs DEF Defending
    <3>5. Won(i)
      BY <1>1, <2>1, <3>4 DEF Won, IsSelfhosted, Entry, Beats, Yields
    <3> QED BY <3>3, <3>5
  <2> QED BY <1>1, <1>2, <1>3, <1>4, <2>2, DispatchDefends
<1>7. \/ ~Defending'
      \/ KeepOwn /\ (Entry.form # "ok" \/ ~Own(Entry))
      \/ Own(Entry) /\ Entry.form = "ok" /\ SrvOfOurs
  <2>1. packet.flags = "query" => ~NoResult /\ search_result = 0
    BY DEF DefendInv, NoResult, OfPTR
  <2> QED BY <1>1, <2>1 DEF SrvRecord, Defending, DefendInv
<1>8. CASE ~Defending'
  BY <1>1, <1>2, <1>3, <1>4, <1>8, DispatchDefends
<1> QED BY <1>5, <1>6, <1>7, <1>8

LEMMA TxtDefends == CountInv /\ PacketInv /\ DefendInv /\ TxtRecord => DefendInv'
<1> SUFFICES ASSUME CountInv, PacketInv, DefendInv, TxtRecord PROVE DefendInv'
  OBVIOUS
<1>1. /\ pc = "dispatch" /\ Entry.type = "TXT" /\ Entry.type \notin Addresses
      /\ pc' = "records" /\ i' = i + 1
      /\ UNCHANGED <<packet, answered, search_result, hostname, default_instance, instance>>
  BY DEF TxtRecord, TxtOfOurs, KeepOwn, Dispatch, KeepRecord, KeepFound, NextRecord, NextEntry,
     rx, ours, Addresses
<1>2. /\ DOMAIN parsed' = DOMAIN parsed
      /\ parsed'.discovery = parsed.discovery /\ parsed'.probe = parsed.probe
  <2>1. CASE UNCHANGED parsed
    BY <2>1
  <2>2. CASE TxtOfOurs
    BY <2>2 DEF TxtOfOurs, mdns_remove_parsed_question, DefendInv
  <2> QED BY <2>1, <2>2 DEF TxtRecord, KeepOwn
<1>3. ASSUME Defending' PROVE Defending /\ Won(i)
  <2>1. packet.flags = "query" /\ parsed.probe /\ search_result = 0
    BY <1>1, <1>2, <1>3 DEF Defending, DefendInv
  <2>2. CASE ~Own(Entry)
    <3>1. KeepOwn
      BY <1>1, <2>1, <2>2 DEF TxtRecord, DefendInv
    <3> QED BY <1>1, <1>3, <2>2, <3>1 DEF Defending, KeepOwn, ours, Won, Entry
  <2>3. CASE Own(Entry)
    <3>1. TxtOfOurs /\ (service # "" <=> IsService(Entry.name.service))
      BY <1>1, <2>1, <2>3 DEF TxtRecord, DefendInv
    <3>2. /\ do_not_reply' = (do_not_reply \/
                (IsSelfhosted /\ Collision(service # "") # 0 /\ ~Probing /\ service # ""))
          /\ pcb' \in {pcb, "probing"}
      BY <2>1, <3>1 DEF TxtOfOurs, Asked, mdns_init_pcb_probe
    <3>3. Defending /\ ~Probing
      BY <1>3, <2>1, <3>2 DEF Defending, Probing
    <3>4. IsSelfhosted /\ service # "" => Collision(service # "") = 0
      BY <1>3, <3>2, <3>3 DEF Defending
    <3>5. IsSelfhosted /\ service # "" => ~Beats(Entry, service # "") /\ ~Yields(Entry, service # "")
      BY <1>1, <3>4, CollisionIs
    <3>6. Won(i)
      BY <1>1, <3>1, <3>5 DEF Won, IsSelfhosted, Entry, Beats, Yields
    <3> QED BY <3>3, <3>6
  <2> QED BY <2>2, <2>3
<1> QED BY <1>1, <1>2, <1>3, DispatchDefends

LEMMA AddressDefends == CountInv /\ PacketInv /\ DefendInv /\ AddressRecord => DefendInv'
<1> SUFFICES ASSUME CountInv, PacketInv, DefendInv, AddressRecord PROVE DefendInv'
  OBVIOUS
<1>1. /\ pc = "dispatch" /\ Entry.type \in Addresses /\ Entry.type \notin {"SRV", "TXT"}
      /\ UNCHANGED <<packet, answered>> /\ search_result' = 0
  BY DEF AddressRecord, Dispatch, KeepRecord, rx, Addresses
<1>2. pc' = "clear" \/ (pc' = "records" /\ i' = i + 1)
  BY DEF AddressRecord, AddressOfOurs, NextRecord, NextEntry
<1>3. /\ DOMAIN parsed' = DOMAIN parsed
      /\ parsed'.discovery = parsed.discovery /\ parsed'.probe = parsed.probe
  <2>1. CASE UNCHANGED parsed
    BY <2>1
  <2>2. CASE AddressOfOurs
    BY <2>2 DEF AddressOfOurs, mdns_remove_parsed_question, DefendInv
  <2> QED BY <2>1, <2>2 DEF AddressRecord, KeepOwn
<1>4. pcb = "probing" \/ UNCHANGED <<hostname, default_instance, instance>>
  BY DEF AddressRecord, AddressOfOurs, KeepOwn, ours, Probing
<1>5. ASSUME Defending', pc' = "records" PROVE Defending /\ Won(i)
  <2>1. packet.flags = "query" /\ parsed.probe /\ search_result = 0
    BY <1>1, <1>3, <1>5 DEF Defending, DefendInv
  <2>2. CASE ~Own(Entry)
    <3>1. KeepOwn
      BY <1>1, <2>1, <2>2 DEF AddressRecord, DefendInv
    <3> QED BY <1>1, <1>5, <2>2, <3>1 DEF Defending, KeepOwn, ours, Won, Entry
  <2>3. CASE Own(Entry)
    <3>1. AddressOfOurs
      BY <1>1, <2>1, <2>3 DEF AddressRecord, DefendInv
    <3>2. /\ do_not_reply' = (do_not_reply \/ (IsSelfhosted /\ Collision(TRUE) = 1))
          /\ ~(IsSelfhosted /\ Collision(TRUE) = 2)
          /\ pcb' \in {pcb, "probing"}
      BY <1>5, <2>1, <3>1 DEF AddressOfOurs, Asked, mdns_init_pcb_probe
    <3>3. Defending
      BY <1>5, <2>1, <3>2 DEF Defending
    <3>4. IsSelfhosted => Collision(TRUE) # 1 /\ Collision(TRUE) # 2
      BY <1>5, <3>2 DEF Defending
    <3>5. IsSelfhosted => ~Beats(Entry, TRUE)
      <4> DEFINE col == Collision(TRUE)
      <4>1. col \in -1 .. 2 /\ (col > 0 <=> Beats(Entry, TRUE))
        BY <1>1, CollisionIs, Zenon
      <4>2. IsSelfhosted => col # 1 /\ col # 2
        BY <3>4, Zenon
      <4> HIDE DEF col
      <4>3. IsSelfhosted => ~(col > 0)
        BY <4>1, <4>2
      <4> QED BY <4>1, <4>3, Zenon
    <3>6. Won(i)
      BY <1>1, <3>5 DEF Won, IsSelfhosted, Entry, Beats
    <3> QED BY <3>3, <3>6
  <2> QED BY <2>2, <2>3
<1> QED BY <1>1, <1>2, <1>3, <1>4, <1>5, DispatchDefends

LEMMA EndDefends ==
  ASSUME CountInv, PacketInv, DefendInv,
         RecordsDone \/ Reply \/ clear_rx_packet \/ ProbingDone \/ UNCHANGED vars
  PROVE  DefendInv'
<1>1. CASE RecordsDone
  <2>1. /\ pc = "records" /\ Ended /\ pc' = "reply"
        /\ UNCHANGED <<packet, parsed, answered, search_result, do_not_reply, pcb,
                       hostname, default_instance, instance>>
    BY <1>1 DEF RecordsDone, rx, ours, found
  <2>2. \A k \in Records : k < i
    BY <2>1 DEF Ended, Records, CountInv, Position, PacketInv
  <2>3. Defending' => \A k \in Records : Won(k)
    BY <2>1, <2>2 DEF Defending, DefendInv
  <2>4. Defending' => \A k \in Records' : Won(k)'
    BY <2>1, <2>3, RecordsKept, WonKept
  <2> QED BY <2>1, <2>4 DEF DefendInv
<1>2. CASE Reply
  <2>1. /\ pc = "reply" /\ pc' = "clear"
        /\ UNCHANGED <<packet, parsed, search_result, hostname, default_instance, instance>>
        /\ answered' => ~do_not_reply /\ pcb = "running"
    BY <1>2 DEF Reply, CreateAnswer, rx, ours
  <2>2. answered' /\ packet.flags = "query" /\ parsed.probe => \A k \in Records : Won(k)
    BY <2>1 DEF Defending, DefendInv
  <2>3. answered' /\ packet'.flags = "query" /\ parsed'.probe => \A k \in Records' : Won(k)'
    BY <2>1, <2>2, RecordsKept, WonKept
  <2> QED BY <2>1, <2>3 DEF DefendInv
<1>3. CASE clear_rx_packet
  <2>1. pc' = "idle" /\ ~answered' /\ search_result' = 0 /\ parsed' = NoParsed
    BY <1>3 DEF clear_rx_packet
  <2> QED BY <2>1 DEF DefendInv, NoParsed
<1>4. CASE ProbingDone
  <2>1. pc = "idle" /\ pc' = "idle" /\ UNCHANGED <<parsed, answered, search_result>>
    BY <1>4 DEF ProbingDone, found
  <2> QED BY <2>1 DEF DefendInv
<1>5. CASE UNCHANGED vars
  <2>1. UNCHANGED <<pc, i, packet, parsed, answered, search_result, do_not_reply, pcb, cls, service,
                    hostname, default_instance, instance>>
    BY <1>5 DEF vars, rx, ours, found
  <2>2. \A k : Won(k)' <=> Won(k)
    BY <2>1, WonKept
  <2>3. Own(Entry)' <=> Own(Entry)
    BY <2>1 DEF Own, Discovers, mdns_name_is_ours, InstanceOf, Entry
  <2> QED BY <2>1, <2>2, <2>3, RecordsKept DEF DefendInv, Defending, Entry
<1> QED BY <1>1, <1>2, <1>3, <1>4, <1>5

LEMMA DefendStep == CountInv /\ PacketInv /\ DefendInv /\ [Next]_vars => DefendInv'
  BY QuestionsDefend, SkippedDefend, ClassifiedDefend, OtherDefends, SrvDefends, TxtDefends,
     AddressDefends, EndDefends DEF Next, Step, Finished

LEMMA RecordsAreWon == Spec => []DefendInv
<1>1. Init => DefendInv
  BY DefendInit
<1>2. CountInv /\ PacketInv /\ DefendInv /\ [Next]_vars => DefendInv'
  BY DefendStep
<1> QED BY <1>1, <1>2, Counted, PacketsAreShaped, PTL DEF Spec

\* A probe is answered, which defends our names, only if no record of the packet
\* won over ours, however many there are and in whatever order: do_not_reply is
\* never taken back, and an interface that probes again does not answer (line 624).
THEOREM NamesAreDefended == Spec => []DefendsOnlyWhatItWon
<1>1. DefendInv => DefendsOnlyWhatItWon
  BY DEF DefendInv, DefendsOnlyWhatItWon, Won
<1> QED BY <1>1, RecordsAreWon, PTL

-----------------------------------------------------------------------------
(* Searches. *)

LEMMA Least ==
  ASSUME NEW S \in SUBSET Nat, S # {}
  PROVE  \E j \in S : \A l \in S : j <= l
<1>1. PICK j \in S : \A l \in S : <<l, j>> \notin OpToRel(<, Nat)
  BY WFMin, NatLessThanWellFounded, Zenon
<1>2. \A l \in S : ~(l < j)
  BY <1>1, Zenon DEF OpToRel
<1> QED BY <1>2

\* The list of searches is a list of records.
Listed ==
    /\ Len(searches) \in Nat /\ searches = [k \in 1 .. Len(searches) |-> searches[k]]
    /\ \A k \in 1 .. Len(searches) :
          searches[k] = [type |-> searches[k].type, host |-> searches[k].host,
                         service |-> searches[k].service, facts |-> searches[k].facts]

LEMMA FindFinds ==
  ASSUME Listed, NEW n, NEW type, mdns_priv_query_find_from(1, n, type) # 0
  PROVE  LET k == mdns_priv_query_find_from(1, n, type)
         IN  k \in 1 .. Len(searches) /\ Matches(searches[k], n, type)
<1> DEFINE m == {j \in 1 .. Len(searches) : Matches(searches[j], n, type)}
<1>1. m # {} /\ mdns_priv_query_find_from(1, n, type) = CHOOSE j \in m : \A l \in m : j <= l
  BY DEF mdns_priv_query_find_from
<1>2. m \in SUBSET Nat
  BY DEF Listed
<1>3. mdns_priv_query_find_from(1, n, type) \in m
  <2> HIDE DEF m
  <2>1. \E j \in m : \A l \in m : j <= l
    BY <1>1, <1>2, Least
  <2> QED BY <1>1, <2>1
<1> QED BY <1>3

\* A search with more results matches what it has matched.
LEMMA MatchesGrow ==
  ASSUME NEW s, s = [type |-> s.type, host |-> s.host, service |-> s.service, facts |-> s.facts],
         NEW facts, NEW t, t = [s EXCEPT !.facts = @ \cup facts],
         NEW n, NEW type, Matches(s, n, type)
  PROVE  Matches(t, n, type)
<1>1. /\ t.type = s.type /\ t.host = s.host /\ t.service = s.service
      /\ t.facts = s.facts \cup facts
  OBVIOUS
<1>2. Hosts(s.facts) \subseteq Hosts(t.facts)
  BY <1>1 DEF Hosts
<1> QED BY <1>1, <1>2 DEF Matches

LEMMA AddListed ==
  ASSUME Listed, NEW S, NEW facts, mdns_priv_query_result_add(S, facts)
  PROVE  /\ Listed' /\ Len(searches') = Len(searches)
         /\ \A k \in 1 .. Len(searches) :
               /\ k \notin S => searches'[k] = searches[k]
               /\ \A n, type : Matches(searches[k], n, type) => Matches(searches'[k], n, type)
<1>1. DOMAIN searches = 1 .. Len(searches)
  BY DEF Listed
<1>2. searches' = [k \in 1 .. Len(searches) |->
                     IF k \in S THEN [searches[k] EXCEPT !.facts = @ \cup facts] ELSE searches[k]]
  BY <1>1 DEF mdns_priv_query_result_add
<1>3. Len(searches') = Len(searches)
  BY <1>2 DEF Listed
<1>4. ASSUME NEW k \in 1 .. Len(searches)
      PROVE  searches'[k] = [type |-> searches'[k].type, host |-> searches'[k].host,
                             service |-> searches'[k].service, facts |-> searches'[k].facts]
  <2>1. searches[k] = [type |-> searches[k].type, host |-> searches[k].host,
                       service |-> searches[k].service, facts |-> searches[k].facts]
    BY DEF Listed
  <2>2. CASE k \in S
    <3>1. searches'[k] = [type |-> searches[k].type, host |-> searches[k].host,
                          service |-> searches[k].service, facts |-> searches[k].facts \cup facts]
      BY <1>2, <2>1, <2>2
    <3> QED BY <3>1
  <2>3. CASE k \notin S
    BY <1>2, <2>1, <2>3
  <2> QED BY <2>2, <2>3
<1>5. ASSUME NEW k \in 1 .. Len(searches), NEW n, NEW type, Matches(searches[k], n, type)
      PROVE  Matches(searches'[k], n, type)
  <2>1. CASE k \in S
    <3>1. searches'[k] = [searches[k] EXCEPT !.facts = @ \cup facts]
      BY <1>2, <2>1
    <3>2. searches[k] = [type |-> searches[k].type, host |-> searches[k].host,
                         service |-> searches[k].service, facts |-> searches[k].facts]
      BY DEF Listed
    <3> QED BY <1>5, <3>1, <3>2, MatchesGrow
  <2>2. CASE k \notin S
    BY <1>2, <1>5, <2>2
  <2> QED BY <2>1, <2>2
<1>6. Listed'
  BY <1>2, <1>3, <1>4 DEF Listed
<1> QED BY <1>2, <1>3, <1>5, <1>6

\* A search that is found matched an earlier record, or the one that is looked at;
\* for a record of others it is the latter.
Found ==
    /\ pc \in {"idle", "questions"} => search_result = 0
    /\ pc \in {"records", "dispatch"} /\ search_result # 0 =>
          /\ search_result \in 1 .. Len(searches)
          /\ \E j \in Records :
                /\ j < i \/ (pc = "dispatch" /\ j = i)
                /\ Matches(searches[search_result], packet.entries[j].name, packet.entries[j].type)
    /\ pc = "dispatch" /\ cls = "foreign" /\ search_result # 0 =>
          Matches(searches[search_result], Entry.name, Entry.type)
SearchInv == Listed /\ Found

\* The searches that the record that is looked at is for.
For == (IF search_result = 0 THEN {} ELSE {search_result})
       \cup {k \in 1 .. Len(searches) : Matches(searches[k], Entry.name, Entry.type)}

LEMMA DispatchAdds ==
  ASSUME Listed, Found, pc = "dispatch",
         PtrRecord \/ SrvRecord \/ TxtRecord \/ AddressRecord \/ OtherRecord
  PROVE  \/ UNCHANGED searches
         \/ \E facts : \E S \in SUBSET For : mdns_priv_query_result_add(S, facts)
<1> DEFINE Adds == \E facts : \E S \in SUBSET For : mdns_priv_query_result_add(S, facts)
<1>1. CASE search_result # 0 /\ \E facts : mdns_priv_query_result_add({search_result}, facts)
  <2>1. {search_result} \in SUBSET For
    BY <1>1 DEF For
  <2> QED BY <1>1, <2>1
<1>2. CASE search_result = 0 /\ \E facts : mdns_priv_query_result_add({search_result}, facts)
  <2>1. 0 \notin DOMAIN searches
    BY DEF Listed
  <2>2. searches' = [k \in DOMAIN searches |-> searches[k]]
    BY <1>2, <2>1 DEF mdns_priv_query_result_add
  <2> QED BY <2>2 DEF Listed
<1>3. CASE PtrRecord \/ SrvRecord \/ TxtRecord \/ OtherRecord
  <2>1. UNCHANGED searches \/ \E facts : mdns_priv_query_result_add({search_result}, facts)
    BY <1>3 DEF PtrRecord, SrvRecord, TxtRecord, OtherRecord
  <2> QED BY <1>1, <1>2, <2>1
<1>4. CASE AddressRecord
  <2> DEFINE more == {k \in search_result + 1 .. Len(searches) :
                         Matches(searches[k], Entry.name, Entry.type)}
             takes(k) == searches[k].type = "ANY" \/ Entry.name.host \in Hosts(searches[k].facts)
             S == {k \in {search_result} \cup more : takes(k)}
  <2>1. \/ UNCHANGED searches
        \/ search_result # 0 /\ \E facts : mdns_priv_query_result_add(S, facts)
    BY <1>4 DEF AddressRecord
  <2>2. CASE search_result # 0
    <3>1. search_result \in Nat /\ Len(searches) \in Nat
      BY <1>4, <2>2 DEF Found, Listed
    <3>2. S \in SUBSET For
      BY <2>2, <3>1 DEF For
    <3> QED BY <2>1, <3>2
  <2> QED BY <2>1, <2>2
<1> QED BY <1>3, <1>4

LEMMA DispatchSearches ==
  ASSUME CountInv, PacketInv, SearchInv,
         PtrRecord \/ SrvRecord \/ TxtRecord \/ AddressRecord \/ OtherRecord
  PROVE  SearchInv'
<1>1. /\ pc = "dispatch" /\ UNCHANGED packet
      /\ search_result' = 0 \/ UNCHANGED search_result
  BY DEF PtrRecord, SrvRecord, TxtRecord, AddressRecord, OtherRecord, Dispatch, KeepRecord,
     KeepFound, rx
<1>2. pc' = "clear" \/ (pc' = "records" /\ i' = i + 1)
  BY DEF PtrRecord, PtrOfOurs, SrvRecord, TxtRecord, AddressRecord, AddressOfOurs, OtherRecord,
     NextRecord, NextEntry
<1>3. /\ Listed' /\ Len(searches') = Len(searches)
      /\ \A k \in 1 .. Len(searches) : \A n, type :
            Matches(searches[k], n, type) => Matches(searches'[k], n, type)
  <2>1. CASE UNCHANGED searches
    BY <2>1 DEF SearchInv, Listed
  <2>2. CASE \E facts : \E S \in SUBSET For : mdns_priv_query_result_add(S, facts)
    BY <2>2, AddListed DEF SearchInv
  <2> QED BY <1>1, <2>1, <2>2, DispatchAdds DEF SearchInv
<1>4. ASSUME pc' = "records", search_result' # 0
      PROVE  /\ search_result' \in 1 .. Len(searches')
             /\ \E j \in Records' :
                   /\ j < i'
                   /\ Matches(searches'[search_result'], packet'.entries[j].name,
                              packet'.entries[j].type)
  <2>1. search_result' = search_result /\ search_result \in 1 .. Len(searches)
    BY <1>1, <1>4 DEF SearchInv, Found
  <2>2. PICK j \in Records :
          /\ j < i \/ j = i
          /\ Matches(searches[search_result], packet.entries[j].name, packet.entries[j].type)
    BY <1>1, <1>4, <2>1 DEF SearchInv, Found
  <2>3. i \in Nat /\ j \in Nat
    BY DEF Records, CountInv, Position, PacketInv
  <2>4. j < i + 1
    BY <2>2, <2>3
  <2> QED BY <1>1, <1>2, <1>3, <1>4, <2>1, <2>2, <2>4, RecordsKept
<1> QED BY <1>2, <1>3, <1>4 DEF SearchInv, Found

LEMMA RecordSearches ==
  ASSUME CountInv, PacketInv, PacketInv', SearchInv,
         MalformedRecord \/ SkippedRecord \/ OwnRecord \/ ForeignRecord
  PROVE  SearchInv'
<1>1. pc = "records" /\ UNCHANGED <<packet, searches>> /\ i \in Nat
  BY DEF MalformedRecord, SkippedRecord, OwnRecord, ForeignRecord, Record, KeepForQuestions, rx,
     lists, CountInv, Position
<1>2. Listed'
  BY <1>1 DEF SearchInv, Listed
<1>3. CASE ForeignRecord
  <2>1. /\ UNCHANGED i /\ pc' \in {"dispatch", "clear"}
        /\ search_result' = mdns_priv_query_find_from(1, Entry.name, Entry.type)
    BY <1>3 DEF ForeignRecord, FindSearch
  <2>2. search_result' # 0 => /\ search_result' \in 1 .. Len(searches)
                              /\ Matches(searches[search_result'], Entry.name, Entry.type)
    BY <2>1, FindFinds DEF SearchInv
  <2>3. Entry' = Entry
    BY <1>1, <2>1 DEF Entry
  <2>4. pc' = "dispatch" => i' \in Records'
    BY DEF PacketInv
  <2> QED BY <1>1, <1>2, <2>1, <2>2, <2>3, <2>4 DEF SearchInv, Found, Entry
<1>4. CASE MalformedRecord \/ SkippedRecord \/ OwnRecord
  <2>1. UNCHANGED search_result
    BY <1>4 DEF MalformedRecord, SkippedRecord, OwnRecord, found
  <2>2. \/ pc' = "clear"
        \/ pc' = "records" /\ i' = i + 1
        \/ pc' = "dispatch" /\ UNCHANGED i /\ cls' # "foreign"
    BY <1>1, <1>4 DEF MalformedRecord, SkippedRecord, OwnRecord, NextEntry
  <2>3. ASSUME pc' # "clear", search_result # 0
        PROVE  /\ search_result \in 1 .. Len(searches)
               /\ \E j \in Records :
                     /\ j < i'
                     /\ Matches(searches[search_result], packet.entries[j].name, packet.entries[j].type)
    <3>1. PICK j \in Records :
            /\ j < i
            /\ Matches(searches[search_result], packet.entries[j].name, packet.entries[j].type)
      BY <1>1, <2>3 DEF SearchInv, Found
    <3>2. j \in Nat
      BY DEF Records, CountInv, Position, PacketInv
    <3>3. j < i'
      BY <1>1, <2>2, <2>3, <3>1, <3>2
    <3>4. search_result \in 1 .. Len(searches)
      BY <1>1, <2>3 DEF SearchInv, Found
    <3> QED BY <3>1, <3>3, <3>4
  <2> QED BY <1>1, <1>2, <2>1, <2>2, <2>3, RecordsKept DEF SearchInv, Found
<1> QED BY <1>3, <1>4

LEMMA ArriveSearches == SearchInv /\ mdns_parse_packet => SearchInv'
<1> SUFFICES ASSUME SearchInv, mdns_parse_packet PROVE SearchInv'
  OBVIOUS
<1>1. /\ pc = "idle" /\ pc' \in {"idle", "questions"} /\ UNCHANGED search_result
      /\ searches' = searches \o Queries
  BY DEF mdns_parse_packet, found
<1> DEFINE Search == [type : {"PTR", "ANY"}, host : STRING, service : STRING, facts : {{}}]
           All == {searches[k] : k \in 1 .. Len(searches)} \cup Search
<1>2. searches \in Seq(All) /\ Queries \in Seq(All)
  <2>1. Search \subseteq All /\ \A k \in 1 .. Len(searches) : searches[k] \in All
    OBVIOUS
  <2> HIDE DEF All
  <2>2. searches \in [1 .. Len(searches) -> All] /\ Len(searches) \in Nat
    BY <2>1 DEF SearchInv, Listed
  <2>3. Queries \in Seq(Search)
    BY QueriesAssumption
  <2> HIDE DEF Search
  <2>4. Queries \in [1 .. Len(Queries) -> Search] /\ Len(Queries) \in Nat
    BY <2>3
  <2>5. Queries \in [1 .. Len(Queries) -> All]
    BY <2>1, <2>4
  <2> QED BY <2>2, <2>4, <2>5
<1>3. \A s \in All : s = [type |-> s.type, host |-> s.host, service |-> s.service, facts |-> s.facts]
  BY DEF SearchInv, Listed
<1> HIDE DEF All
<1>4. searches' \in Seq(All)
  BY <1>1, <1>2
<1>5. /\ Len(searches') \in Nat /\ searches' = [k \in 1 .. Len(searches') |-> searches'[k]]
      /\ \A k \in 1 .. Len(searches') : searches'[k] \in All
  BY <1>4
<1> QED BY <1>1, <1>3, <1>5 DEF SearchInv, Listed, Found

LEMMA RestSearches ==
  ASSUME SearchInv,
         \/ MalformedQuestion \/ SkippedQuestion \/ DiscoveryQuestion \/ OwnQuestion
         \/ QuestionsDone \/ RecordsDone \/ Reply \/ clear_rx_packet \/ ProbingDone
         \/ UNCHANGED vars
  PROVE  SearchInv'
<1>1. CASE MalformedQuestion \/ SkippedQuestion \/ DiscoveryQuestion \/ OwnQuestion \/ QuestionsDone
  <2>1. /\ pc = "questions" /\ pc' \in {"questions", "clear", "records", "reply"}
        /\ UNCHANGED <<searches, search_result>>
    BY <1>1 DEF MalformedQuestion, SkippedQuestion, DiscoveryQuestion, OwnQuestion, QuestionsDone,
       Question, KeepForRecords, lists, found
  <2> QED BY <2>1 DEF SearchInv, Listed, Found
<1>2. CASE RecordsDone
  <2>1. pc' = "reply"
    BY <1>2 DEF RecordsDone
  <2>2. CASE UNCHANGED searches
    BY <2>1, <2>2 DEF SearchInv, Listed, Found
  <2>3. CASE searches' = [k \in DOMAIN searches |->
                             IF Cardinality(searches[k].facts) < MaxResults THEN searches[k]
                             ELSE NoSearch]
    <3>1. DOMAIN searches = 1 .. Len(searches) /\ Len(searches) \in Nat
      BY DEF SearchInv, Listed
    <3>2. Len(searches') = Len(searches) /\ searches' = [k \in 1 .. Len(searches') |-> searches'[k]]
      BY <2>3, <3>1
    <3>3. \A k \in 1 .. Len(searches) : searches'[k] \in {searches[k], NoSearch}
      BY <2>3, <3>1
    <3>4. NoSearch = [type |-> NoSearch.type, host |-> NoSearch.host,
                      service |-> NoSearch.service, facts |-> NoSearch.facts]
      BY DEF NoSearch
    <3>5. Listed'
      BY <3>1, <3>2, <3>3, <3>4 DEF SearchInv, Listed
    <3> QED BY <2>1, <3>5 DEF SearchInv, Found
  <2> QED BY <1>2, <2>2, <2>3 DEF RecordsDone
<1>3. CASE Reply \/ clear_rx_packet
  <2>1. UNCHANGED searches /\ (pc' = "clear" \/ (pc' = "idle" /\ search_result' = 0))
    BY <1>3 DEF Reply, clear_rx_packet
  <2> QED BY <2>1 DEF SearchInv, Listed, Found
<1>4. CASE ProbingDone \/ UNCHANGED vars
  <2>1. UNCHANGED <<pc, i, packet, cls, searches, search_result>>
    BY <1>4 DEF ProbingDone, vars, rx, lists, found
  <2>2. Records' = Records /\ Entry' = Entry
    BY <2>1 DEF Records, Entry
  <2> QED BY <2>1, <2>2 DEF SearchInv, Listed, Found
<1> QED BY <1>1, <1>2, <1>3, <1>4

LEMMA SearchStep == CountInv /\ PacketInv /\ PacketInv' /\ SearchInv /\ [Next]_vars => SearchInv'
  BY ArriveSearches, RecordSearches, DispatchSearches, RestSearches DEF Next, Step, Finished

LEMMA SearchesAreKept == Spec => []SearchInv
<1>1. Init => SearchInv
  <2> SUFFICES ASSUME Init PROVE SearchInv
    OBVIOUS
  <2>1. pc = "idle" /\ search_result = 0 /\ searches = <<>>
    BY DEF Init
  <2>2. Len(searches) = 0 /\ 1 .. 0 = {} /\ searches = [k \in 1 .. 0 |-> searches[k]]
    BY <2>1
  <2> QED BY <2>1, <2>2 DEF SearchInv, Listed, Found
<1>2. CountInv /\ PacketInv /\ PacketInv' /\ SearchInv /\ [Next]_vars => SearchInv'
  BY SearchStep
<1> QED BY <1>1, <1>2, Counted, PacketsAreShaped, PTL DEF Spec

\* The search changed while a record is looked at is one that the record is for.
Served ==
    pc = "dispatch" /\ searches' # searches =>
        \A k \in DOMAIN searches : searches'[k] # searches[k] =>
            \E j \in Records : /\ j = i \/ (j < i /\ cls # "foreign")
                               /\ Matches(searches[k], packet.entries[j].name,
                                          packet.entries[j].type)

LEMMA OnlyServed == PacketInv /\ SearchInv /\ [Next]_vars => Served
<1> SUFFICES ASSUME PacketInv, SearchInv, [Next]_vars, pc = "dispatch", searches' # searches,
                    NEW k \in DOMAIN searches, searches'[k] # searches[k]
             PROVE  \E j \in Records :
                      /\ j = i \/ (j < i /\ cls # "foreign")
                      /\ Matches(searches[k], packet.entries[j].name, packet.entries[j].type)
  BY DEF Served
<1>1. PtrRecord \/ SrvRecord \/ TxtRecord \/ AddressRecord \/ OtherRecord
  BY DEF Next, Step, Finished, vars, lists, mdns_parse_packet, MalformedQuestion, SkippedQuestion,
     DiscoveryQuestion, OwnQuestion, Question, QuestionsDone, MalformedRecord, SkippedRecord,
     OwnRecord, ForeignRecord, Record, RecordsDone, Reply, clear_rx_packet, ProbingDone
<1>2. PICK facts : \E S \in SUBSET For : mdns_priv_query_result_add(S, facts)
  BY <1>1, DispatchAdds DEF SearchInv
<1>3. k \in 1 .. Len(searches) /\ k \in For
  BY <1>2, AddListed DEF SearchInv, Listed
<1>4. i \in Records
  BY DEF PacketInv
<1>5. CASE Matches(searches[k], Entry.name, Entry.type)
  BY <1>4, <1>5 DEF Entry
<1>6. CASE k = search_result /\ search_result # 0
  BY <1>4, <1>6 DEF SearchInv, Found, Entry
<1> QED BY <1>3, <1>5, <1>6 DEF For

\* A search gets what matches it: a record of others goes to the searches it matches
\* itself, and one of our own names, for which no search is looked for (lines
\* 209-219), to that of an earlier record of the packet, never to one of an earlier
\* packet or to one that was ended.
THEOREM SearchesAreServed == Spec => SearchesGetWhatMatches
<1>1. PacketInv /\ SearchInv /\ [Next]_vars => [Served]_vars
  BY OnlyServed
<1> QED BY <1>1, PacketsAreShaped, SearchesAreKept, PTL DEF Spec, SearchesGetWhatMatches, Served

-----------------------------------------------------------------------------
(* Counting. *)

LEMMA UpTo ==
  ASSUME NEW n \in Nat
  PROVE  IsFiniteSet(1 .. n) /\ Cardinality(1 .. n) = n
<1>1. 1 \in Int /\ n \in Int
  OBVIOUS
<1>2. IsFiniteSet(1 .. n) /\ Cardinality(1 .. n) = IF 1 > n THEN 0 ELSE n - 1 + 1
  BY <1>1, FS_Interval, Zenon
<1> QED BY <1>2

LEMMA OneCounts ==
  ASSUME NEW k, NEW c \in 0 .. 4
  PROVE  /\ IsFiniteSet({k} \X (1 .. c))
         /\ Cardinality({k} \X (1 .. c)) = c
<1>1. IsFiniteSet({k}) /\ Cardinality({k}) = 1
  BY FS_Singleton
<1>2. IsFiniteSet(1 .. c) /\ Cardinality(1 .. c) = c
  BY UpTo
<1>3. /\ IsFiniteSet({k} \X (1 .. c))
      /\ Cardinality({k} \X (1 .. c)) = Cardinality({k}) * Cardinality(1 .. c)
  BY <1>1, <1>2, FS_Product
<1> QED BY <1>1, <1>2, <1>3

LEMMA PointersFinite ==
  ASSUME NEW counts, NEW n \in Nat, DOMAIN counts = 1 .. n
  PROVE  IsFiniteSet(Pointers(counts)) /\ Cardinality(Pointers(counts)) \in Nat
<1>1. IsFiniteSet(1 .. n) /\ IsFiniteSet(1 .. 4)
  BY UpTo
<1>2. IsFiniteSet((1 .. n) \X (1 .. 4))
  BY <1>1, FS_Product
<1>3. Pointers(counts) \in SUBSET ((1 .. n) \X (1 .. 4))
  BY DEF Pointers
<1>4. IsFiniteSet(Pointers(counts))
  BY <1>2, <1>3, FS_Subset
<1> QED BY <1>4, FS_CardinalityType

\* Two sets of pointers have the same size if a renumbering maps one to the other.
Renumbers(f, S, T) == /\ f \in [S -> T] /\ \A a, b \in S : f[a] = f[b] => a = b
                      /\ \A t \in T : \E a \in S : f[a] = t

LEMMA SameSize ==
  ASSUME NEW S, NEW T, NEW f, IsFiniteSet(S), Renumbers(f, S, T)
  PROVE  IsFiniteSet(T) /\ Cardinality(T) = Cardinality(S)
<1>1. f \in Bijection(S, T)
  BY DEF Renumbers, Bijection, Injection, Surjection, IsInjective
<1>2. ExistsBijection(S, T)
  BY <1>1 DEF ExistsBijection
<1> QED BY <1>2, FS_Bijection

\* The k-th of a list apart, the others are a list.
Apart(k, n, counts, others) ==
    /\ n \in Nat /\ k \in 1 .. n /\ counts \in [1 .. n -> 0 .. 4] /\ DOMAIN others = 1 .. (n - 1)
    /\ \A j \in 1 .. (n - 1) : others[j] = IF j < k THEN counts[j] ELSE counts[j + 1]

LEMMA ApartFrom ==
  ASSUME NEW n, NEW k, NEW counts, NEW others, Apart(k, n, counts, others)
  PROVE  Cardinality(Pointers(counts)) = counts[k] + Cardinality(Pointers(others))
<1>0. /\ n \in Nat /\ k \in 1 .. n /\ counts \in [1 .. n -> 0 .. 4] /\ DOMAIN others = 1 .. (n - 1)
      /\ \A j \in 1 .. (n - 1) : others[j] = IF j < k THEN counts[j] ELSE counts[j + 1]
  BY DEF Apart
<1> USE <1>0
<1> DEFINE One   == {k} \X (1 .. counts[k])
           Rest  == {p \in Pointers(counts) : p[1] # k}
           f     == [p \in Pointers(others) |-> <<IF p[1] < k THEN p[1] ELSE p[1] + 1, p[2]>>]
<1>1. IsFiniteSet(One) /\ Cardinality(One) = counts[k]
  <2>1. counts[k] \in 0 .. 4
    OBVIOUS
  <2> QED BY <2>1, OneCounts
<1>2. IsFiniteSet(Pointers(others))
  <2>1. n - 1 \in Nat
    OBVIOUS
  <2> QED BY <2>1, PointersFinite
<1>3. \A p \in Pointers(others) : p = <<p[1], p[2]>> /\ p[1] \in 1 .. (n - 1) /\ p[2] \in 1 .. 4
                                  /\ p[2] <= others[p[1]]
  BY DEF Pointers
<1>4. \A p \in Rest : p = <<p[1], p[2]>> /\ p[1] \in (1 .. n) \ {k} /\ p[2] \in 1 .. 4
                      /\ p[2] <= counts[p[1]]
  BY DEF Pointers
<1>5. f \in [Pointers(others) -> Rest]
  <2> SUFFICES ASSUME NEW p \in Pointers(others) PROVE f[p] \in Rest
    OBVIOUS
  <2> DEFINE m == IF p[1] < k THEN p[1] ELSE p[1] + 1
  <2>1. m \in (1 .. n) \ {k} /\ counts[m] = others[p[1]]
    BY <1>3
  <2>2. f[p] = <<m, p[2]>>
    OBVIOUS
  <2>3. <<m, p[2]>> \in Pointers(counts)
    BY <1>3, <2>1 DEF Pointers
  <2> QED BY <2>1, <2>2, <2>3
<1>6. \A p, q \in Pointers(others) : f[p] = f[q] => p = q
  <2> SUFFICES ASSUME NEW p \in Pointers(others), NEW q \in Pointers(others), f[p] = f[q]
               PROVE  p[1] = q[1] /\ p[2] = q[2]
    BY <1>3
  <2>1. /\ (IF p[1] < k THEN p[1] ELSE p[1] + 1) = (IF q[1] < k THEN q[1] ELSE q[1] + 1)
        /\ p[2] = q[2]
    OBVIOUS
  <2> QED BY <1>3, <2>1
<1>7. \A p \in Rest : \E q \in Pointers(others) : f[q] = p
  <2> SUFFICES ASSUME NEW p \in Rest PROVE \E q \in Pointers(others) : f[q] = p
    OBVIOUS
  <2> DEFINE m == IF p[1] < k THEN p[1] ELSE p[1] - 1
  <2>1. m \in 1 .. (n - 1) /\ others[m] = counts[p[1]] /\ p[1] = IF m < k THEN m ELSE m + 1
    BY <1>4
  <2> HIDE DEF m
  <2>2. <<m, p[2]>> \in Pointers(others)
    BY <1>4, <2>1 DEF Pointers
  <2>3. f[<<m, p[2]>>] = <<p[1], p[2]>>
    BY <2>1, <2>2
  <2> QED BY <1>4, <2>2, <2>3
<1>8. IsFiniteSet(Rest) /\ Cardinality(Rest) = Cardinality(Pointers(others))
  <2> HIDE DEF f, Rest
  <2>1. Renumbers(f, Pointers(others), Rest)
    BY <1>5, <1>6, <1>7, Zenon DEF Renumbers
  <2> QED BY <1>2, <2>1, SameSize, Zenon
<1>9. Pointers(counts) = One \cup Rest /\ One \cap Rest = {}
  <2>1. One \subseteq Pointers(counts)
    BY DEF Pointers
  <2>2. \A p \in Pointers(counts) : p[1] = k => p \in One
    BY DEF Pointers
  <2>3. \A p \in One : p[1] = k
    OBVIOUS
  <2> QED BY <2>1, <2>2, <2>3
<1>10. Cardinality(Pointers(counts)) = Cardinality(One) + Cardinality(Rest) - Cardinality({})
  <2> HIDE DEF One, Rest
  <2> QED BY <1>1, <1>8, <1>9, FS_Union
<1>11. Cardinality(Pointers(others)) \in Nat
  BY <1>2, FS_CardinalityType
<1> QED BY <1>1, <1>8, <1>10, <1>11, FS_EmptySet

\* One list behind another.
Joined(m, n, a, b, all) ==
    /\ m \in Nat /\ n \in Nat /\ a \in [1 .. m -> 0 .. 4] /\ b \in [1 .. n -> 0 .. 4]
    /\ DOMAIN all = 1 .. (m + n)
    /\ \A j \in 1 .. (m + n) : all[j] = IF j <= m THEN a[j] ELSE b[j - m]

LEMMA TogetherCount ==
  ASSUME NEW m, NEW n, NEW a, NEW b, NEW all, Joined(m, n, a, b, all)
  PROVE  Cardinality(Pointers(all)) = Cardinality(Pointers(a)) + Cardinality(Pointers(b))
<1>0. /\ m \in Nat /\ n \in Nat /\ a \in [1 .. m -> 0 .. 4] /\ b \in [1 .. n -> 0 .. 4]
      /\ DOMAIN all = 1 .. (m + n)
      /\ \A j \in 1 .. (m + n) : all[j] = IF j <= m THEN a[j] ELSE b[j - m]
  BY DEF Joined
<1> USE <1>0
<1> DEFINE Rest == {p \in Pointers(all) : p[1] > m}
           f    == [p \in Pointers(b) |-> <<p[1] + m, p[2]>>]
<1>1. \A p \in Pointers(b) : p = <<p[1], p[2]>> /\ p[1] \in 1 .. n /\ p[2] \in 1 .. 4
                              /\ p[2] <= b[p[1]]
  BY DEF Pointers
<1>2. \A p \in Pointers(all) : p = <<p[1], p[2]>> /\ p[1] \in 1 .. (m + n) /\ p[2] \in 1 .. 4
                                /\ p[2] <= all[p[1]]
  BY DEF Pointers
<1>3. f \in [Pointers(b) -> Rest]
  <2> SUFFICES ASSUME NEW p \in Pointers(b) PROVE <<p[1] + m, p[2]>> \in Rest
    OBVIOUS
  <2>0. p[1] + m \in 1 .. (m + n) /\ p[1] + m > m /\ (p[1] + m) - m = p[1]
    BY <1>1
  <2>1. p[1] + m \in 1 .. (m + n) /\ p[1] + m > m /\ all[p[1] + m] = b[p[1]]
    BY <2>0
  <2> QED BY <1>1, <2>1 DEF Pointers
<1>4. \A p, q \in Pointers(b) : f[p] = f[q] => p = q
  <2> SUFFICES ASSUME NEW p \in Pointers(b), NEW q \in Pointers(b), f[p] = f[q]
               PROVE  p[1] = q[1] /\ p[2] = q[2]
    BY <1>1
  <2>1. p[1] + m = q[1] + m /\ p[2] = q[2]
    OBVIOUS
  <2> QED BY <1>1, <2>1
<1>5. \A p \in Rest : \E q \in Pointers(b) : f[q] = p
  <2> SUFFICES ASSUME NEW p \in Rest PROVE \E q \in Pointers(b) : f[q] = p
    OBVIOUS
  <2>1. p[1] - m \in 1 .. n /\ b[p[1] - m] = all[p[1]] /\ (p[1] - m) + m = p[1]
    BY <1>2
  <2>2. <<p[1] - m, p[2]>> \in Pointers(b)
    BY <1>2, <2>1 DEF Pointers
  <2>3. f[<<p[1] - m, p[2]>>] = <<p[1], p[2]>>
    BY <2>1, <2>2
  <2> QED BY <1>2, <2>2, <2>3
<1>6. IsFiniteSet(Pointers(a)) /\ IsFiniteSet(Pointers(b))
  BY PointersFinite
<1>7. IsFiniteSet(Rest) /\ Cardinality(Rest) = Cardinality(Pointers(b))
  <2> HIDE DEF f, Rest
  <2>1. Renumbers(f, Pointers(b), Rest)
    BY <1>3, <1>4, <1>5, Zenon DEF Renumbers
  <2> QED BY <1>6, <2>1, SameSize, Zenon
<1>8. Pointers(all) = Pointers(a) \cup Rest /\ Pointers(a) \cap Rest = {}
  <2>1. \A p \in Pointers(a) : p \in Pointers(all) /\ ~(p[1] > m)
    BY DEF Pointers
  <2>2. \A p \in Pointers(all) : p \in Pointers(a) \/ p[1] > m
    BY DEF Pointers
  <2> QED BY <2>1, <2>2
<1>9. Cardinality(Pointers(all)) = Cardinality(Pointers(a)) + Cardinality(Rest) - Cardinality({})
  <2> HIDE DEF Rest
  <2>1. /\ Cardinality(Pointers(a) \cup Rest)
             = Cardinality(Pointers(a)) + Cardinality(Rest) - Cardinality(Pointers(a) \cap Rest)
    BY <1>6, <1>7, FS_Union
  <2> QED BY <1>8, <2>1, Zenon
<1>10. Cardinality(Pointers(a)) \in Nat /\ Cardinality(Pointers(b)) \in Nat
  BY <1>6, FS_CardinalityType
<1> QED BY <1>7, <1>9, <1>10, FS_EmptySet

\* got blocks of a discovery's: a question of every four, which is the first, and
\* three strings; the questions are listed last to first.
Grouped(got, m, counts) ==
    /\ got \in Nat /\ m = (got + 3) \div 4 /\ DOMAIN counts = 1 .. m
    /\ \A r \in 1 .. m : LET k == m + 1 - r
                         IN  counts[r] = IF 4 * k <= got THEN 3 ELSE (got % 4) - 1

LEMMA GroupsCount ==
  ASSUME NEW got, NEW m, NEW counts, Grouped(got, m, counts)
  PROVE  /\ Cardinality({j \in 1 .. got : j % 4 = 1}) = m
         /\ Cardinality({j \in 1 .. got : j % 4 # 1}) = Cardinality(Pointers(counts))
         /\ m \in Nat /\ \A r \in 1 .. m : counts[r] \in 0 .. 4
<1> DEFINE Firsts == {j \in 1 .. got : j % 4 = 1}
           Others == {j \in 1 .. got : j % 4 # 1}
           f == [k \in 1 .. m |-> 4 * k - 3]
           g == [j \in Others |-> <<m + 1 - ((j + 3) \div 4), (j - 1) % 4>>]
<1>1. got \in Nat /\ m \in Nat /\ 4 * m <= got + 3 /\ got <= 4 * m
  BY DEF Grouped
<1>2. \A r \in 1 .. m : counts[r] \in 0 .. 4
  BY DEF Grouped
<1>0. /\ DOMAIN counts = 1 .. m
      /\ \A k \in 1 .. m : counts[m + 1 - k] = IF 4 * k <= got THEN 3 ELSE (got % 4) - 1
  BY <1>1 DEF Grouped
<1>3. IsFiniteSet(1 .. m) /\ Cardinality(1 .. m) = m /\ IsFiniteSet(1 .. got)
  BY <1>1, UpTo
<1>4. Cardinality(Firsts) = m
  <2>1. f \in [1 .. m -> Firsts]
    BY <1>1
  <2>2. \A a, b \in 1 .. m : f[a] = f[b] => a = b
    BY <1>1
  <2>3. \A j \in Firsts : \E k \in 1 .. m : f[k] = j
    <3> SUFFICES ASSUME NEW j \in 1 .. got, j % 4 = 1 PROVE \E k \in 1 .. m : f[k] = j
      OBVIOUS
    <3>1. (j + 3) \div 4 \in 1 .. m /\ 4 * ((j + 3) \div 4) - 3 = j
      BY <1>1
    <3> QED BY <3>1
  <2> HIDE DEF f, Firsts
  <2>4. IsFiniteSet(1 .. m) /\ Cardinality(1 .. m) = m
    BY <1>3
  <2>5. Cardinality(Firsts) = Cardinality(1 .. m)
    <3>1. Renumbers(f, 1 .. m, Firsts)
      BY <2>1, <2>2, <2>3, Zenon DEF Renumbers
    <3> QED BY <2>4, <3>1, SameSize, Zenon
  <2> QED BY <2>4, <2>5
<1>5. IsFiniteSet(Others)
  BY <1>3, FS_Subset
<1>6. Cardinality(Pointers(counts)) = Cardinality(Others)
  <2>1. g \in [Others -> Pointers(counts)]
    <3> SUFFICES ASSUME NEW j \in 1 .. got, j % 4 # 1
                 PROVE  <<m + 1 - ((j + 3) \div 4), (j - 1) % 4>> \in Pointers(counts)
      OBVIOUS
    <3> DEFINE k == (j + 3) \div 4
               r == m + 1 - k
               c == (j - 1) % 4
    <3>1. k \in 1 .. m /\ c \in 1 .. 3 /\ j = 4 * (k - 1) + 1 + c
      BY <1>1
    <3>2. r \in 1 .. m /\ m + 1 - r = k
      BY <1>1, <3>1
    <3>3. ~(4 * k <= got) => c <= (got % 4) - 1
      BY <1>1, <3>1
    <3> HIDE DEF k, r, c
    <3>4. c <= counts[r]
      BY <1>0, <3>1, <3>2, <3>3 DEF r
    <3>5. <<r, c>> \in Pointers(counts)
      BY <1>0, <3>1, <3>2, <3>4 DEF Pointers
    <3> QED BY <3>5 DEF r, c, k
  <2>2. \A a, b \in Others : g[a] = g[b] => a = b
    <3> SUFFICES ASSUME NEW a \in 1 .. got, NEW b \in 1 .. got, a % 4 # 1, b % 4 # 1, g[a] = g[b]
                 PROVE  a = b
      OBVIOUS
    <3>1. m + 1 - ((a + 3) \div 4) = m + 1 - ((b + 3) \div 4) /\ (a - 1) % 4 = (b - 1) % 4
      OBVIOUS
    <3> QED BY <1>1, <3>1
  <2>3. \A p \in Pointers(counts) : \E j \in Others : g[j] = p
    <3> SUFFICES ASSUME NEW p \in Pointers(counts) PROVE \E j \in Others : g[j] = p
      OBVIOUS
    <3>1. p = <<p[1], p[2]>> /\ p[1] \in 1 .. m /\ p[2] \in 1 .. 4 /\ p[2] <= counts[p[1]]
      BY <1>0 DEF Pointers
    <3> DEFINE k == m + 1 - p[1]
               j == 4 * (k - 1) + 1 + p[2]
    <3>0. p[1] \in 1 .. m
      BY <3>1
    <3>2. k \in 1 .. m /\ m + 1 - k = p[1]
      BY <1>1, <3>0
    <3> HIDE DEF k
    <3>3. counts[p[1]] = IF 4 * k <= got THEN 3 ELSE (got % 4) - 1
      BY <1>0, <3>1, <3>2
    <3>4. p[2] \in 1 .. 3 /\ (~(4 * k <= got) => p[2] <= (got % 4) - 1)
      BY <1>1, <3>1, <3>2, <3>3
    <3>6. j \in 1 .. got
      BY <1>1, <3>2, <3>4
    <3>7. (j + 3) \div 4 = k /\ (j - 1) % 4 = p[2] /\ j % 4 # 1
      <4>1. ASSUME NEW n \in Nat \ {0}, NEW c \in 1 .. 3
            PROVE  LET l == 4 * (n - 1) + 1 + c
                   IN  (l + 3) \div 4 = n /\ (l - 1) % 4 = c /\ l % 4 # 1
        OBVIOUS
      <4>2. k \in Nat \ {0} /\ p[2] \in 1 .. 3
        BY <1>1, <3>2, <3>4
      <4> QED BY <4>1, <4>2
    <3> HIDE DEF j
    <3>5. g[j] = <<p[1], p[2]>>
      BY <3>2, <3>6, <3>7
    <3> QED BY <3>1, <3>5, <3>6, <3>7
  <2> HIDE DEF g, Others
  <2>4. Renumbers(g, Others, Pointers(counts))
    BY <2>1, <2>2, <2>3, Zenon DEF Renumbers
  <2> QED BY <1>5, <2>4, SameSize, Zenon
<1> QED BY <1>1, <1>2, <1>4, <1>6

LEMMA RemovedAt ==
  ASSUME NEW S, NEW s \in Seq(S), NEW k \in 1 .. Len(s)
  PROVE  /\ RemoveAt(s, k) \in Seq(S) /\ Len(RemoveAt(s, k)) = Len(s) - 1
         /\ \A j \in 1 .. (Len(s) - 1) : RemoveAt(s, k)[j] = IF j < k THEN s[j] ELSE s[j + 1]
<1> DEFINE a == SubSeq(s, 1, k - 1)
           b == SubSeq(s, k + 1, Len(s))
<1>1. a \in Seq(S) /\ Len(a) = k - 1 /\ \A j \in 1 .. (k - 1) : a[j] = s[j]
  OBVIOUS
<1>2. /\ b \in Seq(S) /\ Len(b) = Len(s) - k
      /\ \A j \in 1 .. (Len(s) - k) : b[j] = s[j + k]
  OBVIOUS
<1> HIDE DEF a, b
<1>3. /\ a \o b \in Seq(S) /\ Len(a \o b) = Len(s) - 1
      /\ \A j \in 1 .. (Len(s) - 1) : (a \o b)[j] = IF j <= k - 1 THEN a[j] ELSE b[j - (k - 1)]
  BY <1>1, <1>2
<1>4. \A j \in 1 .. (Len(s) - 1) : (a \o b)[j] = IF j < k THEN s[j] ELSE s[j + 1]
  <2> SUFFICES ASSUME NEW j \in 1 .. (Len(s) - 1)
               PROVE  (a \o b)[j] = IF j < k THEN s[j] ELSE s[j + 1]
    OBVIOUS
  <2>1. CASE j < k
    BY <1>1, <1>3, <2>1
  <2>2. CASE ~(j < k)
    <3>1. j - (k - 1) \in 1 .. (Len(s) - k) /\ (j - (k - 1)) + k = j + 1 /\ ~(j <= k - 1)
      BY <2>2
    <3> QED BY <1>2, <1>3, <2>2, <3>1
  <2> QED BY <2>1, <2>2
<1>5. RemoveAt(s, k) = a \o b
  BY DEF RemoveAt, a, b
<1> QED BY <1>3, <1>4, <1>5

-----------------------------------------------------------------------------
(* The heap. *)

IsList(s)      == Len(s) \in Nat /\ s = [k \in 1 .. Len(s) |-> s[k]]
IsQuestions(s) == IsList(s) /\ \A k \in 1 .. Len(s) : s[k].strings \in 0 .. 4
IsRecords(s)   == IsList(s) /\ \A k \in 1 .. Len(s) : s[k] \in 0 .. 4
Present(x)     == IF x THEN 1 ELSE 0

\* What the lists of a packet's questions and records hold.
Holds(h, questions, records) ==
    /\ h["question"] = Len(questions) /\ h["record"] = Len(records)
    /\ h["string"] = Cardinality(Pointers(Counts(questions))) + Cardinality(Pointers(records))

\* Every block is held by one that the clean-up finds.
HeapInv ==
    /\ heap = [b \in Blocks |-> heap[b]]
    /\ parsed = [discovery |-> parsed.discovery, probe |-> parsed.probe,
                 questions |-> parsed.questions, records |-> parsed.records]
    /\ bufs = [instance |-> bufs.instance, service |-> bufs.service, proto |-> bufs.proto]
    /\ IsQuestions(parsed.questions) /\ IsRecords(parsed.records)
    /\ Holds(heap, parsed.questions, parsed.records)
    /\ heap["parsed"] = Present(pc # "idle")
    /\ heap["instance"] = Present(bufs.instance # NULL)
    /\ heap["service"] = Present(bufs.service # NULL)
    /\ heap["proto"] = Present(bufs.proto # NULL)
    /\ heap["sync"] = Present(sync.browse # 0)
    /\ pc = "idle" => parsed = NoParsed /\ bufs = NoBufs /\ sync.browse = 0

LEMMA ListIs ==
  ASSUME NEW s, IsList(s)
  PROVE  s \in Seq({s[k] : k \in 1 .. Len(s)}) /\ DOMAIN s = 1 .. Len(s)
<1> DEFINE S == {s[k] : k \in 1 .. Len(s)}
<1>1. s \in [1 .. Len(s) -> S] /\ Len(s) \in Nat
  BY DEF IsList
<1> HIDE DEF S
<1>2. s \in Seq(S)
  BY <1>1
<1>3. DOMAIN s = 1 .. Len(s)
  BY <1>1
<1> QED BY <1>2, <1>3 DEF S

LEMMA SeqIsList ==
  ASSUME NEW S, NEW s \in Seq(S)
  PROVE  IsList(s) /\ \A k \in 1 .. Len(s) : s[k] \in S
  BY DEF IsList

LEMMA CountsOf ==
  ASSUME NEW s, IsQuestions(s)
  PROVE  /\ Counts(s) \in [1 .. Len(s) -> 0 .. 4]
         /\ \A k \in 1 .. Len(s) : Counts(s)[k] = s[k].strings
  BY ListIs DEF IsQuestions, Counts

\* A list before another.
LEMMA Together ==
  ASSUME NEW a, NEW b, IsList(a), IsList(b)
  PROVE  /\ IsList(a \o b) /\ Len(a \o b) = Len(a) + Len(b)
         /\ \A k \in 1 .. Len(a) + Len(b) : (a \o b)[k] = IF k <= Len(a) THEN a[k] ELSE b[k - Len(a)]
<1> DEFINE A == {a[k] : k \in 1 .. Len(a)}
           B == {b[k] : k \in 1 .. Len(b)}
           S == A \cup B
<1>1. a \in Seq(A) /\ b \in Seq(B)
  BY ListIs
<1>2. a \in [1 .. Len(a) -> A] /\ b \in [1 .. Len(b) -> B] /\ Len(a) \in Nat /\ Len(b) \in Nat
  BY DEF IsList
<1>3. a \in [1 .. Len(a) -> S] /\ b \in [1 .. Len(b) -> S]
  BY <1>2
<1> HIDE DEF S
<1>4. a \in Seq(S) /\ b \in Seq(S)
  <2>1. ASSUME NEW n \in Nat, NEW f \in [1 .. n -> S] PROVE f \in Seq(S)
    OBVIOUS
  <2> QED BY <1>2, <1>3, <2>1, Zenon
<1>5. /\ a \o b \in Seq(S) /\ Len(a \o b) = Len(a) + Len(b)
      /\ \A k \in 1 .. Len(a) + Len(b) : (a \o b)[k] = IF k <= Len(a) THEN a[k] ELSE b[k - Len(a)]
  BY <1>4
<1>6. IsList(a \o b)
  BY <1>5, SeqIsList
<1> QED BY <1>5, <1>6

LEMMA QuestionsTogether ==
  ASSUME NEW a, NEW b, IsQuestions(a), IsQuestions(b)
  PROVE  /\ IsQuestions(a \o b) /\ Len(a \o b) = Len(a) + Len(b)
         /\ Cardinality(Pointers(Counts(a \o b)))
              = Cardinality(Pointers(Counts(a))) + Cardinality(Pointers(Counts(b)))
<1>1. /\ IsList(a \o b) /\ Len(a \o b) = Len(a) + Len(b) /\ Len(a) \in Nat /\ Len(b) \in Nat
      /\ \A k \in 1 .. Len(a) + Len(b) : (a \o b)[k] = IF k <= Len(a) THEN a[k] ELSE b[k - Len(a)]
  BY Together DEF IsQuestions, IsList
<1>2. IsQuestions(a \o b)
  <2> SUFFICES ASSUME NEW k \in 1 .. Len(a) + Len(b) PROVE (a \o b)[k].strings \in 0 .. 4
    BY <1>1 DEF IsQuestions
  <2>1. CASE k <= Len(a)
    BY <1>1, <2>1 DEF IsQuestions
  <2>2. CASE ~(k <= Len(a))
    <3>1. k - Len(a) \in 1 .. Len(b)
      BY <1>1, <2>2
    <3> QED BY <1>1, <2>2, <3>1 DEF IsQuestions
  <2> QED BY <2>1, <2>2
<1>3. /\ Counts(a) \in [1 .. Len(a) -> 0 .. 4] /\ Counts(b) \in [1 .. Len(b) -> 0 .. 4]
      /\ DOMAIN Counts(a \o b) = 1 .. (Len(a) + Len(b))
      /\ \A k \in 1 .. Len(a) : Counts(a)[k] = a[k].strings
      /\ \A k \in 1 .. Len(b) : Counts(b)[k] = b[k].strings
      /\ \A k \in 1 .. Len(a) + Len(b) : Counts(a \o b)[k] = (a \o b)[k].strings
  BY <1>1, <1>2, CountsOf
<1>4. \A k \in 1 .. (Len(a) + Len(b)) :
          Counts(a \o b)[k] = IF k <= Len(a) THEN Counts(a)[k] ELSE Counts(b)[k - Len(a)]
  <2> SUFFICES ASSUME NEW k \in 1 .. Len(a) + Len(b)
               PROVE  Counts(a \o b)[k] = IF k <= Len(a) THEN Counts(a)[k] ELSE Counts(b)[k - Len(a)]
    OBVIOUS
  <2>1. CASE k <= Len(a)
    BY <1>1, <1>3, <2>1
  <2>2. CASE ~(k <= Len(a))
    <3>1. k - Len(a) \in 1 .. Len(b)
      BY <1>1, <2>2
    <3> QED BY <1>1, <1>3, <2>2, <3>1
  <2> QED BY <2>1, <2>2
<1>5. Cardinality(Pointers(Counts(a \o b)))
        = Cardinality(Pointers(Counts(a))) + Cardinality(Pointers(Counts(b)))
  <2>1. Joined(Len(a), Len(b), Counts(a), Counts(b), Counts(a \o b))
    BY <1>1, <1>3, <1>4 DEF Joined
  <2> QED BY <2>1, TogetherCount
<1> QED BY <1>1, <1>2, <1>5

\* One more, with its strings.
LEMMA OnePointers ==
  ASSUME NEW c \in 0 .. 4, NEW counts, DOMAIN counts = 1 .. 1, counts[1] = c
  PROVE  Cardinality(Pointers(counts)) = c
<1>1. Pointers(counts) = {1} \X (1 .. c)
  <2>1. \A p \in Pointers(counts) : p \in {1} \X (1 .. c)
    BY DEF Pointers
  <2>2. \A p \in {1} \X (1 .. c) : p \in Pointers(counts)
    BY DEF Pointers
  <2> QED BY <2>1, <2>2
<1> QED BY <1>1, OneCounts

LEMMA OneMoreQuestion ==
  ASSUME NEW s, IsQuestions(s), NEW q, q.strings \in 0 .. 4
  PROVE  /\ IsQuestions(<<q>> \o s) /\ Len(<<q>> \o s) = Len(s) + 1
         /\ Cardinality(Pointers(Counts(<<q>> \o s))) = q.strings + Cardinality(Pointers(Counts(s)))
<1>1. Len(<<q>>) = 1 /\ <<q>> = [k \in 1 .. 1 |-> <<q>>[k]] /\ <<q>>[1] = q
  OBVIOUS
<1>2. IsQuestions(<<q>>)
  BY <1>1 DEF IsQuestions, IsList
<1>3. DOMAIN Counts(<<q>>) = 1 .. 1 /\ Counts(<<q>>)[1] = q.strings
  BY <1>1, <1>2, CountsOf
<1>4. Cardinality(Pointers(Counts(<<q>>))) = q.strings
  BY <1>3, OnePointers
<1>5. Len(s) \in Nat
  BY DEF IsQuestions, IsList
<1> QED BY <1>1, <1>2, <1>4, <1>5, QuestionsTogether

LEMMA OneMoreRecord ==
  ASSUME NEW s, IsRecords(s), NEW c \in 0 .. 4
  PROVE  /\ IsRecords(<<c>> \o s) /\ Len(<<c>> \o s) = Len(s) + 1
         /\ Cardinality(Pointers(<<c>> \o s)) = c + Cardinality(Pointers(s))
<1>1. s \in [1 .. Len(s) -> 0 .. 4] /\ Len(s) \in Nat
  BY DEF IsRecords, IsList
<1>2. s \in Seq(0 .. 4)
  BY <1>1
<1>3. <<c>> \in Seq(0 .. 4) /\ Len(<<c>>) = 1 /\ <<c>>[1] = c /\ DOMAIN <<c>> = 1 .. 1
  OBVIOUS
<1>4. /\ <<c>> \o s \in Seq(0 .. 4) /\ Len(<<c>> \o s) = Len(s) + 1
      /\ \A k \in 1 .. (1 + Len(s)) : (<<c>> \o s)[k] = IF k <= 1 THEN <<c>>[k] ELSE s[k - 1]
  BY <1>2, <1>3
<1>5. IsRecords(<<c>> \o s)
  BY <1>4, SeqIsList DEF IsRecords
<1>6. Cardinality(Pointers(<<c>>)) = c
  BY <1>3, OnePointers
<1>7. <<c>> \in [1 .. 1 -> 0 .. 4] /\ DOMAIN (<<c>> \o s) = 1 .. (1 + Len(s))
  BY <1>1, <1>3, <1>4
<1>8. Cardinality(Pointers(<<c>> \o s)) = Cardinality(Pointers(<<c>>)) + Cardinality(Pointers(s))
  <2> DEFINE a == <<c>>
             all == <<c>> \o s
  <2>1. a \in [1 .. 1 -> 0 .. 4] /\ DOMAIN all = 1 .. (1 + Len(s))
    BY <1>7
  <2>2. \A k \in 1 .. (1 + Len(s)) : all[k] = IF k <= 1 THEN a[k] ELSE s[k - 1]
    BY <1>4
  <2> HIDE DEF a, all
  <2>3. Cardinality(Pointers(all)) = Cardinality(Pointers(a)) + Cardinality(Pointers(s))
    <3>1. Joined(1, Len(s), a, s, all)
      BY <1>1, <2>1, <2>2 DEF Joined
    <3> QED BY <3>1, TogetherCount
  <2> QED BY <2>3 DEF a, all
<1> QED BY <1>4, <1>5, <1>6, <1>8

\* A question taken out of the list is one that is in it.
LEMMA FirstMatchIs ==
  ASSUME IsList(parsed.questions), NEW type, NEW s
  PROVE  FirstMatch(type, s) \in 0 .. Len(parsed.questions)
<1> DEFINE I == {k \in 1 .. Len(parsed.questions) : QuestionMatches(parsed.questions[k], type, s)}
<1>1. FirstMatch(type, s) = IF I # {} THEN CHOOSE x \in I : \A y \in I : x <= y ELSE 0
  BY DEF FirstMatch, SelectInSeq, Min
<1>2. I \in SUBSET Nat /\ Len(parsed.questions) \in Nat
  BY DEF IsList
<1>3. I # {} => (CHOOSE x \in I : \A y \in I : x <= y) \in I
  <2> HIDE DEF I
  <2> QED BY <1>2, Least
<1> QED BY <1>1, <1>2, <1>3

\* The question and its strings go from the list and from the heap.
LEMMA RemovedQuestion ==
  ASSUME HeapInv, NEW type, NEW s
  PROVE  /\ IsQuestions(Without(type, s)) /\ Holds(FreedWith(type, s), Without(type, s), parsed.records)
         /\ FreedWith(type, s) = [b \in Blocks |-> FreedWith(type, s)[b]]
         /\ \A b \in Blocks \ {"question", "record", "string"} : FreedWith(type, s)[b] = heap[b]
<1> DEFINE k == FirstMatch(type, s)
           Q == parsed.questions
           N(q) == Cardinality(Pointers(Counts(q)))
<1>1. IsQuestions(Q) /\ IsList(Q) /\ Len(Q) \in Nat
  BY DEF HeapInv, IsQuestions, IsList
<1>2. k \in 0 .. Len(Q)
  BY <1>1, FirstMatchIs
<1>3. CASE k = 0
  <2>1. Without(type, s) = Q /\ FreedWith(type, s) = heap
    BY <1>3 DEF Without, FreedWith
  <2> QED BY <2>1 DEF HeapInv
<1>4. CASE k # 0
  <2>1. k \in 1 .. Len(Q)
    BY <1>1, <1>2, <1>4
  <2>2. /\ Without(type, s) = RemoveAt(Q, k)
        /\ FreedWith(type, s) = [heap EXCEPT !["question"] = @ - 1, !["string"] = @ - Q[k].strings]
    BY <1>4 DEF Without, FreedWith
  <2>3. /\ IsList(RemoveAt(Q, k)) /\ Len(RemoveAt(Q, k)) = Len(Q) - 1
        /\ \A j \in 1 .. (Len(Q) - 1) : RemoveAt(Q, k)[j] = IF j < k THEN Q[j] ELSE Q[j + 1]
    <3> DEFINE S == {Q[j] : j \in 1 .. Len(Q)}
    <3>1. Q \in Seq(S)
      BY <1>1, ListIs
    <3> HIDE DEF S, Q, k
    <3>2. /\ RemoveAt(Q, k) \in Seq(S) /\ Len(RemoveAt(Q, k)) = Len(Q) - 1
          /\ \A j \in 1 .. (Len(Q) - 1) : RemoveAt(Q, k)[j] = IF j < k THEN Q[j] ELSE Q[j + 1]
      BY <2>1, <3>1, RemovedAt
    <3> QED BY <3>2, SeqIsList
  <2> DEFINE R == RemoveAt(Q, k)
  <2>4. IsQuestions(R)
    <3> HIDE DEF k, Q
    <3>1. \A j \in 1 .. (Len(Q) - 1) : j \in 1 .. Len(Q) /\ j + 1 \in 1 .. Len(Q)
      BY <1>1
    <3> QED BY <1>1, <2>3, <3>1 DEF IsQuestions
  <2>5. N(Q) = Q[k].strings + N(R)
    <3>1. Counts(Q) \in [1 .. Len(Q) -> 0 .. 4] /\ \A j \in 1 .. Len(Q) : Counts(Q)[j] = Q[j].strings
      BY <1>1, CountsOf
    <3>2. /\ DOMAIN Counts(R) = 1 .. (Len(Q) - 1)
          /\ \A j \in 1 .. (Len(Q) - 1) : Counts(R)[j] = R[j].strings
      BY <2>3, <2>4, CountsOf
    <3> HIDE DEF R, k, Q
    <3>3. \A j \in 1 .. (Len(Q) - 1) : j \in 1 .. Len(Q) /\ j + 1 \in 1 .. Len(Q)
      BY <1>1
    <3>4. \A j \in 1 .. (Len(Q) - 1) : Counts(R)[j] = IF j < k THEN Counts(Q)[j] ELSE Counts(Q)[j + 1]
      BY <2>3, <3>1, <3>2, <3>3 DEF R
    <3>5. Apart(k, Len(Q), Counts(Q), Counts(R))
      BY <1>1, <2>1, <3>1, <3>2, <3>4 DEF Apart
    <3> QED BY <2>1, <3>1, <3>5, ApartFrom
  <2>6. N(R) \in Nat /\ Cardinality(Pointers(parsed.records)) \in Nat /\ Q[k].strings \in 0 .. 4
    <3>1. Counts(R) \in [1 .. Len(R) -> 0 .. 4] /\ Len(R) \in Nat
      BY <2>4, CountsOf DEF IsQuestions, IsList
    <3>2. DOMAIN parsed.records = 1 .. Len(parsed.records) /\ Len(parsed.records) \in Nat
      BY DEF HeapInv, IsRecords, IsList
    <3>3. N(R) \in Nat /\ Cardinality(Pointers(parsed.records)) \in Nat
      BY <3>1, <3>2, PointersFinite
    <3> QED BY <1>1, <2>1, <3>3 DEF IsQuestions
  <2> DEFINE h == FreedWith(type, s)
  <2>7. /\ h = [b \in Blocks |-> h[b]]
        /\ \A b \in Blocks \ {"question", "string"} : h[b] = heap[b]
        /\ h["question"] = heap["question"] - 1 /\ h["string"] = heap["string"] - Q[k].strings
    BY <2>2 DEF HeapInv, Blocks
  <2>8. heap["question"] = Len(Q) /\ heap["string"] = N(Q) + Cardinality(Pointers(parsed.records))
        /\ heap["record"] = Len(parsed.records)
    BY DEF HeapInv, Holds
  <2>9. h["string"] = N(R) + Cardinality(Pointers(parsed.records)) /\ h["question"] = Len(R)
        /\ h["record"] = Len(parsed.records)
    <3>1. "record" \in Blocks \ {"question", "string"}
      BY DEF Blocks
    <3>2. h["record"] = heap["record"]
      BY <2>7, <3>1
    <3>3. Len(R) = Len(Q) - 1
      BY <2>3
    <3> HIDE DEF h, N, R, Q, k
    <3> QED BY <1>1, <2>5, <2>6, <2>7, <2>8, <3>2, <3>3
  <2>10. Holds(h, R, parsed.records)
    BY <2>9 DEF Holds
  <2> QED BY <2>2, <2>4, <2>7, <2>10
<1> QED BY <1>3, <1>4

LEMMA HeapIsCounted ==
  ASSUME HeapInv
  PROVE  \A b \in Blocks : heap[b] \in Nat
<1>1. Len(parsed.questions) \in Nat /\ Len(parsed.records) \in Nat
  BY DEF HeapInv, IsQuestions, IsRecords, IsList
<1>2. DOMAIN Counts(parsed.questions) = 1 .. Len(parsed.questions)
  BY CountsOf DEF HeapInv
<1>3. DOMAIN parsed.records = 1 .. Len(parsed.records)
  BY DEF HeapInv, IsRecords, IsList
<1>4. /\ Cardinality(Pointers(Counts(parsed.questions))) \in Nat
      /\ Cardinality(Pointers(parsed.records)) \in Nat
  BY <1>1, <1>2, <1>3, PointersFinite
<1>5. heap["question"] \in Nat /\ heap["record"] \in Nat /\ heap["string"] \in Nat
  BY <1>1, <1>4 DEF HeapInv, Holds
<1>6. /\ heap["parsed"] \in Nat /\ heap["instance"] \in Nat /\ heap["service"] \in Nat
      /\ heap["proto"] \in Nat /\ heap["sync"] \in Nat
  BY DEF HeapInv, Present
<1> QED BY <1>5, <1>6 DEF Blocks

LEMMA Tuples ==
  /\ IsList(<<>>) /\ Len(<<>>) = 0
  /\ \A a : IsList(<<a>>) /\ Len(<<a>>) = 1 /\ <<a>>[1] = a
  /\ \A a, b : IsList(<<a, b>>) /\ Len(<<a, b>>) = 2 /\ <<a, b>>[1] = a /\ <<a, b>>[2] = b
<1>1. IsList(<<>>) /\ Len(<<>>) = 0
  BY DEF IsList
<1>2. ASSUME NEW a PROVE IsList(<<a>>) /\ Len(<<a>>) = 1 /\ <<a>>[1] = a
  <2>1. <<a>> \in Seq({a}) /\ Len(<<a>>) = 1 /\ <<a>>[1] = a
    OBVIOUS
  <2> QED BY <2>1, SeqIsList
<1>3. ASSUME NEW a, NEW b
      PROVE  IsList(<<a, b>>) /\ Len(<<a, b>>) = 2 /\ <<a, b>>[1] = a /\ <<a, b>>[2] = b
  <2>1. <<a, b>> \in Seq({a, b}) /\ Len(<<a, b>>) = 2 /\ <<a, b>>[1] = a /\ <<a, b>>[2] = b
    OBVIOUS
  <2> QED BY <2>1, SeqIsList
<1> QED BY <1>1, <1>2, <1>3

\* One block, and the strings that it points to.
AllStrings(blocks) == IsList(blocks) /\ \A j \in 1 .. Len(blocks) : blocks[j] = "string"
Strung(blocks, kind) ==
    /\ IsList(blocks) /\ Len(blocks) # 0 /\ blocks[1] = kind
    /\ \A j \in 2 .. Len(blocks) : blocks[j] = "string"

LEMMA StringTuples ==
  AllStrings(<<>>) /\ AllStrings(<<"string">>) /\ AllStrings(<<"string", "string">>)
  BY Tuples DEF AllStrings

LEMMA StrungTuples ==
  ASSUME NEW kind
  PROVE  Strung(<<kind>>, kind) /\ Strung(<<kind, "string">>, kind)
<1>1. ASSUME NEW t, IsList(t), Len(t) = 1, t[1] = kind PROVE Strung(t, kind)
  BY <1>1 DEF Strung
<1>2. ASSUME NEW t, IsList(t), Len(t) = 2, t[1] = kind, t[2] = "string" PROVE Strung(t, kind)
  BY <1>2 DEF Strung
<1>3. IsList(<<kind>>) /\ Len(<<kind>>) = 1 /\ <<kind>>[1] = kind
  BY Tuples, Zenon
<1>4. /\ IsList(<<kind, "string">>) /\ Len(<<kind, "string">>) = 2
      /\ <<kind, "string">>[1] = kind /\ <<kind, "string">>[2] = "string"
  BY Tuples, Zenon
<1>5. Strung(<<kind>>, kind)
  BY <1>1, <1>3, Zenon
<1>6. Strung(<<kind, "string">>, kind)
  BY <1>2, <1>4, Zenon
<1> QED BY <1>5, <1>6

LEMMA StrungMore ==
  ASSUME NEW blocks, NEW kind, Strung(blocks, kind), NEW more, AllStrings(more)
  PROVE  Strung(blocks \o more, kind) /\ Len(blocks \o more) = Len(blocks) + Len(more)
<1>1. IsList(blocks) /\ IsList(more) /\ Len(blocks) \in Nat \ {0} /\ Len(more) \in Nat
  BY DEF Strung, AllStrings, IsList
<1>2. /\ IsList(blocks \o more) /\ Len(blocks \o more) = Len(blocks) + Len(more)
      /\ \A j \in 1 .. Len(blocks) + Len(more) :
            (blocks \o more)[j] = IF j <= Len(blocks) THEN blocks[j] ELSE more[j - Len(blocks)]
  BY <1>1, Together
<1>3. ASSUME NEW j \in 2 .. Len(blocks) + Len(more) PROVE (blocks \o more)[j] = "string"
  <2>1. CASE j <= Len(blocks)
    BY <1>1, <1>2, <2>1 DEF Strung
  <2>2. CASE ~(j <= Len(blocks))
    <3>1. j - Len(blocks) \in 1 .. Len(more)
      BY <1>1, <2>2
    <3> QED BY <1>1, <1>2, <2>2, <3>1 DEF AllStrings
  <2> QED BY <2>1, <2>2
<1> QED BY <1>1, <1>2, <1>3 DEF Strung

\* h1 is h with got blocks more: one of the kind, and strings.
Gets(h, h1, kind, got) ==
    /\ h1 = [b \in Blocks |-> h1[b]]
    /\ h1[kind] = h[kind] + IF got = 0 THEN 0 ELSE 1
    /\ h1["string"] = h["string"] + IF got = 0 THEN 0 ELSE got - 1
    /\ \A b \in Blocks \ {kind, "string"} : h1[b] = h[b]

LEMMA StrungAllocated ==
  ASSUME NEW h, NEW blocks, NEW kind \in Blocks \ {"string"}, Strung(blocks, kind),
         NEW got \in 0 .. Len(blocks), \A b \in Blocks : h[b] \in Int
  PROVE  Gets(h, Allocated(h, blocks, got), kind, got)
<1> DEFINE a == Allocated(h, blocks, got)
           Of(b) == {j \in 1 .. got : blocks[j] = b}
<1>1. a = [b \in Blocks |-> h[b] + Cardinality(Of(b))]
  BY DEF Allocated
<1>2. got \in Nat /\ got <= Len(blocks) /\ Len(blocks) \in Nat
  BY DEF Strung, IsList
<1>3. \A j \in 1 .. got : blocks[j] = IF j = 1 THEN kind ELSE "string"
  BY <1>2 DEF Strung
<1>4. Of(kind) = (IF got = 0 THEN {} ELSE {1}) /\ Of("string") = 2 .. got
  BY <1>2, <1>3
<1>5. \A b \in Blocks \ {kind, "string"} : Of(b) = {}
  BY <1>3
<1>6. Cardinality({}) = 0 /\ Cardinality({1}) = 1
  BY FS_EmptySet, FS_Singleton
<1>7. Cardinality(2 .. got) = IF got = 0 THEN 0 ELSE got - 1
  <2>1. 2 \in Int /\ got \in Int
    BY <1>2
  <2>2. Cardinality(2 .. got) = IF 2 > got THEN 0 ELSE got - 2 + 1
    BY <2>1, FS_Interval, Zenon
  <2> QED BY <1>2, <2>2
<1>8. "string" \in Blocks
  BY DEF Blocks
<1> HIDE DEF Of
<1>9. /\ a[kind] = h[kind] + Cardinality(Of(kind))
      /\ a["string"] = h["string"] + Cardinality(Of("string"))
      /\ \A b \in Blocks \ {kind, "string"} : a[b] = h[b] + 0
  BY <1>1, <1>5, <1>6, <1>8
<1>10. a[kind] = h[kind] + IF got = 0 THEN 0 ELSE 1
  BY <1>4, <1>6, <1>9
<1>11. a = [b \in Blocks |-> a[b]]
  BY <1>1
<1>12. \A b \in Blocks \ {kind, "string"} : a[b] = h[b]
  BY <1>9
<1> HIDE DEF a
<1>13. a["string"] = h["string"] + IF got = 0 THEN 0 ELSE got - 1
  BY <1>4, <1>7, <1>9
<1> QED BY <1>10, <1>11, <1>12, <1>13 DEF a, Gets

\* A step that changes the lists and what they hold, and no more.
LEMMA ListsHeap ==
  ASSUME HeapInv, pc # "idle", pc' # "idle", UNCHANGED bufs, sync'.browse = sync.browse,
         heap' = [b \in Blocks |-> heap'[b]],
         parsed' = [discovery |-> parsed'.discovery, probe |-> parsed'.probe,
                    questions |-> parsed'.questions, records |-> parsed'.records],
         IsQuestions(parsed'.questions), IsRecords(parsed'.records),
         Holds(heap', parsed'.questions, parsed'.records),
         \A b \in Blocks \ {"question", "record", "string"} : heap'[b] = heap[b]
  PROVE  HeapInv'
<1>1. \A b \in {"parsed", "instance", "service", "proto", "sync"} : heap'[b] = heap[b]
  BY DEF Blocks
<1> QED BY <1>1 DEF HeapInv

LEMMA QuietHeap ==
  ASSUME HeapInv, pc # "idle", pc' # "idle", UNCHANGED <<heap, parsed, bufs>>,
         sync'.browse = sync.browse
  PROVE  HeapInv'
  BY DEF HeapInv

LEMMA OwnQuestionHeap == HeapInv /\ OwnQuestion => HeapInv'
<1> SUFFICES ASSUME HeapInv, OwnQuestion PROVE HeapInv'
  OBVIOUS
<1> DEFINE n    == Entry.name
           host == IF n.host = "" THEN <<>> ELSE <<"string">>
           svc  == IF n.service = "" THEN <<>> ELSE <<"string", "string">>
           all  == <<"question", "string">> \o host \o svc
           q(got) == [type |-> Entry.type, strings |-> got - 1,
                      name |-> [host |-> n.host, service |-> n.service]]
           Q == parsed.questions
<1>1. pc = "questions" /\ pc' # "idle" /\ UNCHANGED <<bufs, sync>>
  BY DEF OwnQuestion, Question, KeepForRecords, found
<1>3. Strung(all, "question") /\ Len(all) \in 0 .. 5
  <2>1. AllStrings(host) /\ Len(host) \in 0 .. 1
    <3>1. host = <<>> \/ host = <<"string">>
      BY Zenon
    <3>2. Len(<<>>) = 0 /\ Len(<<"string">>) = 1
      BY Tuples, Zenon
    <3> HIDE DEF host
    <3>3. AllStrings(host) /\ (Len(host) = 0 \/ Len(host) = 1)
      BY <3>1, <3>2, StringTuples, Zenon
    <3> QED BY <3>3
  <2>2. AllStrings(svc) /\ Len(svc) \in 0 .. 2
    <3>1. svc = <<>> \/ svc = <<"string", "string">>
      BY Zenon
    <3>2. Len(<<>>) = 0 /\ Len(<<"string", "string">>) = 2
      BY Tuples, Zenon
    <3> HIDE DEF svc
    <3>3. AllStrings(svc) /\ (Len(svc) = 0 \/ Len(svc) = 2)
      BY <3>1, <3>2, StringTuples, Zenon
    <3> QED BY <3>3
  <2>3. Strung(<<"question", "string">>, "question") /\ Len(<<"question", "string">>) = 2
    BY StrungTuples, Tuples, Zenon
  <2> DEFINE first == <<"question", "string">>
  <2> HIDE DEF host, svc, first
  <2>4. Strung(first \o host, "question") /\ Len(first \o host) = 2 + Len(host)
    BY <2>1, <2>3, StrungMore DEF first
  <2>5. Strung(first \o host \o svc, "question")
        /\ Len(first \o host \o svc) = 2 + Len(host) + Len(svc)
    BY <2>2, <2>4, StrungMore
  <2>6. 2 + Len(host) + Len(svc) \in 0 .. 5
    <3>1. \A l \in 0 .. 1 : \A m \in 0 .. 2 : 2 + l + m \in 0 .. 5
      OBVIOUS
    <3> QED BY <2>1, <2>2, <3>1
  <2> QED BY <2>5, <2>6 DEF first
<1> DEFINE Copied(got) ==
        /\ heap' = Allocated(heap, all, got)
        /\ parsed' = [parsed EXCEPT !.probe = @ \/ (Entry.type = "ANY" /\ n.host # ""),
                                    !.questions = IF got = 0 THEN @ ELSE <<q(got)>> \o @]
<1>2. \E got \in 0 .. Len(all) : Copied(got)
  BY Zenon DEF OwnQuestion, Malloc
<1> HIDE DEF all
<1>2a. PICK got \in 0 .. Len(all) : Copied(got)
  BY <1>2
<1>4. Gets(heap, heap', "question", got)
  <2>1. \A b \in Blocks : heap[b] \in Int
    BY HeapIsCounted
  <2>2. "question" \in Blocks \ {"string"}
    BY DEF Blocks
  <2>3. heap' = Allocated(heap, all, got)
    BY <1>2a
  <2> HIDE DEF Copied
  <2> QED BY <1>3, <2>1, <2>2, <2>3, StrungAllocated
<1>5. /\ parsed' = [discovery |-> parsed'.discovery, probe |-> parsed'.probe,
                    questions |-> parsed'.questions, records |-> parsed'.records]
      /\ parsed'.records = parsed.records
      /\ parsed'.questions = IF got = 0 THEN Q ELSE <<q(got)>> \o Q
  BY <1>2a DEF HeapInv
<1>6. /\ IsQuestions(Q) /\ IsRecords(parsed.records)
      /\ heap["question"] = Len(Q) /\ heap["record"] = Len(parsed.records)
      /\ heap["string"] = Cardinality(Pointers(Counts(Q))) + Cardinality(Pointers(parsed.records))
      /\ Cardinality(Pointers(Counts(Q))) \in Nat /\ Cardinality(Pointers(parsed.records)) \in Nat
  <2>1. Counts(Q) \in [1 .. Len(Q) -> 0 .. 4] /\ Len(Q) \in Nat
    BY CountsOf DEF HeapInv, IsQuestions, IsList
  <2>2. DOMAIN parsed.records = 1 .. Len(parsed.records) /\ Len(parsed.records) \in Nat
    BY DEF HeapInv, IsRecords, IsList
  <2>3. /\ Cardinality(Pointers(Counts(Q))) \in Nat
        /\ Cardinality(Pointers(parsed.records)) \in Nat
    BY <2>1, <2>2, PointersFinite
  <2> QED BY <2>3 DEF HeapInv, Holds
<1>7. heap'["record"] = heap["record"]
  BY <1>4 DEF Blocks, Gets
<1>8. IsQuestions(parsed'.questions) /\ Holds(heap', parsed'.questions, parsed'.records)
  <2>1. CASE got = 0
    <3>1. heap'["question"] = heap["question"] /\ heap'["string"] = heap["string"]
      BY <1>6, <2>1, <1>4, HeapIsCounted DEF Gets, IsQuestions, IsList
    <3> QED BY <1>5, <1>6, <1>7, <2>1, <3>1 DEF Holds
  <2>2. CASE got # 0
    <3>1. q(got).strings = got - 1 /\ got - 1 \in 0 .. 4 /\ got \in Nat
      <4>1. \A l \in 0 .. 5 : \A g \in 0 .. l : g # 0 => g - 1 \in 0 .. 4 /\ g \in Nat
        OBVIOUS
      <4> QED BY <1>3, <2>2, <4>1
    <3>2. heap'["question"] = heap["question"] + 1 /\ heap'["string"] = heap["string"] + (got - 1)
      BY <1>4, <2>2 DEF Gets
    <3> HIDE DEF q, Q
    <3>3. /\ IsQuestions(<<q(got)>> \o Q) /\ Len(<<q(got)>> \o Q) = Len(Q) + 1
          /\ Cardinality(Pointers(Counts(<<q(got)>> \o Q))) = got - 1 + Cardinality(Pointers(Counts(Q)))
      BY <1>6, <3>1, OneMoreQuestion
    <3>4. heap'["string"] = (got - 1 + Cardinality(Pointers(Counts(Q)))) + Cardinality(Pointers(parsed.records))
      BY <1>6, <3>1, <3>2
    <3> QED BY <1>5, <1>6, <1>7, <2>2, <3>2, <3>3, <3>4 DEF Holds
  <2> QED BY <2>1, <2>2
<1>9. \A b \in Blocks \ {"question", "record", "string"} : heap'[b] = heap[b]
  BY <1>4 DEF Gets
<1> QED BY <1>1, <1>4, <1>5, <1>6, <1>8, <1>9, ListsHeap DEF Gets

LEMMA HoldsNow ==
  ASSUME HeapInv
  PROVE  /\ IsQuestions(parsed.questions) /\ IsRecords(parsed.records)
         /\ heap["question"] = Len(parsed.questions) /\ heap["record"] = Len(parsed.records)
         /\ heap["string"] = Cardinality(Pointers(Counts(parsed.questions)))
                             + Cardinality(Pointers(parsed.records))
         /\ Cardinality(Pointers(Counts(parsed.questions))) \in Nat
         /\ Cardinality(Pointers(parsed.records)) \in Nat
         /\ Len(parsed.questions) \in Nat /\ Len(parsed.records) \in Nat
<1> DEFINE Q == parsed.questions
<1>1. Counts(Q) \in [1 .. Len(Q) -> 0 .. 4] /\ Len(Q) \in Nat
  BY CountsOf DEF HeapInv, IsQuestions, IsList
<1>2. DOMAIN parsed.records = 1 .. Len(parsed.records) /\ Len(parsed.records) \in Nat
  BY DEF HeapInv, IsRecords, IsList
<1>3. /\ Cardinality(Pointers(Counts(Q))) \in Nat
      /\ Cardinality(Pointers(parsed.records)) \in Nat
  BY <1>1, <1>2, PointersFinite
<1> QED BY <1>1, <1>2, <1>3 DEF HeapInv, Holds

\* A discovery asks for every service, as far as there is memory.
LEMMA DiscoveryHeap == HeapInv /\ DiscoveryQuestion => HeapInv'
<1> SUFFICES ASSUME HeapInv, DiscoveryQuestion PROVE HeapInv'
  OBVIOUS
<1> DEFINE all == [j \in 1 .. 4 * Len(Services) |-> IF j % 4 = 1 THEN "question" ELSE "string"]
           S(got, k) == IF 4 * k <= got THEN 3 ELSE (got % 4) - 1
           name(k)   == [host |-> "", service |-> Services[k]]
           asked(got) == [k \in 1 .. (got + 3) \div 4 |->
                            [type |-> "SDPTR", strings |-> S(got, k), name |-> name(k)]]
           Took(got) == /\ heap' = Allocated(heap, all, got)
                        /\ parsed' = [parsed EXCEPT !.discovery = TRUE,
                                                    !.questions = Reverse(asked(got)) \o @]
           Q == parsed.questions
<1>1. \E got \in 0 .. Len(all) : Took(got)
  BY Zenon DEF DiscoveryQuestion, Malloc
<1> HIDE DEF name
<1>2. Len(Services) \in Nat /\ Len(all) = 4 * Len(Services)
  <2>1. Services \in Seq(STRING)
    BY ServicesAssumption, Zenon
  <2>2. Len(Services) \in Nat
    BY <2>1
  <2>3. 4 * Len(Services) \in Nat
    BY <2>2
  <2>4. ASSUME NEW n \in Nat
        PROVE  Len([j \in 1 .. n |-> IF j % 4 = 1 THEN "question" ELSE "string"]) = n
    OBVIOUS
  <2> QED BY <2>2, <2>3, <2>4
<1> HIDE DEF all
<1>3. PICK got \in 0 .. Len(all) : Took(got)
  BY <1>1
<1>4. got \in Nat /\ got <= 4 * Len(Services)
  <2>1. \A l \in Nat : \A g \in 0 .. 4 * l : g \in Nat /\ g <= 4 * l
    OBVIOUS
  <2> QED BY <1>2, <2>1
<1> DEFINE m == (got + 3) \div 4
           R == Reverse(asked(got))
<1>5. m \in Nat /\ IsList(R) /\ Len(R) = m /\ \A r \in 1 .. m : R[r].strings = S(got, m + 1 - r)
  <2>0. m \in Nat
    BY <1>4
  <2> DEFINE A == {asked(got)[k] : k \in 1 .. m}
  <2>1. asked(got) \in [1 .. m -> A] /\ \A k \in 1 .. m : asked(got)[k].strings = S(got, k)
    OBVIOUS
  <2> HIDE DEF A, asked, m, S
  <2>2. asked(got) \in Seq(A) /\ Len(asked(got)) = m
    BY <2>0, <2>1
  <2>3. R = [r \in 1 .. m |-> asked(got)[m - r + 1]]
    BY <2>2 DEF Reverse
  <2>4. \A r \in 1 .. m : m - r + 1 \in 1 .. m /\ m - r + 1 = m + 1 - r
    BY <2>0
  <2>5. \A r \in 1 .. m : R[r] = asked(got)[m + 1 - r] /\ R[r] \in A
    BY <2>1, <2>3, <2>4
  <2> HIDE DEF R
  <2>6. R \in [1 .. m -> A]
    BY <2>3, <2>5
  <2>7. R \in Seq(A) /\ Len(R) = m
    BY <2>0, <2>6
  <2>8. IsList(R)
    BY <2>7, SeqIsList
  <2>9. \A r \in 1 .. m : R[r].strings = S(got, m + 1 - r)
    BY <2>1, <2>4, <2>5
  <2> QED BY <2>0, <2>7, <2>8, <2>9
<1> HIDE DEF R, asked
<1>6. /\ Cardinality({j \in 1 .. got : j % 4 = 1}) = m
      /\ Cardinality({j \in 1 .. got : j % 4 # 1}) = Cardinality(Pointers(Counts(R)))
      /\ IsQuestions(R)
  <2> DEFINE c == Counts(R)
  <2>1. DOMAIN c = 1 .. m /\ \A r \in 1 .. m : c[r] = R[r].strings
    BY <1>5, ListIs DEF Counts
  <2>2. \A r \in 1 .. m : LET k == m + 1 - r
                          IN  c[r] = IF 4 * k <= got THEN 3 ELSE (got % 4) - 1
    BY <1>5, <2>1
  <2> HIDE DEF c
  <2>3. /\ Cardinality({j \in 1 .. got : j % 4 = 1}) = m
        /\ Cardinality({j \in 1 .. got : j % 4 # 1}) = Cardinality(Pointers(c))
        /\ \A r \in 1 .. m : c[r] \in 0 .. 4
    <3>1. Grouped(got, m, c)
      BY <1>4, <2>1, <2>2 DEF Grouped
    <3> QED BY <3>1, GroupsCount
  <2>4. IsQuestions(R)
    <3> HIDE DEF m
    <3> QED BY <1>5, <2>1, <2>3 DEF IsQuestions
  <2> QED BY <2>3, <2>4 DEF c
<1> HIDE DEF m
<1>7. /\ heap' = [b \in Blocks |-> heap'[b]]
      /\ heap'["question"] = heap["question"] + m
      /\ heap'["string"] = heap["string"] + Cardinality(Pointers(Counts(R)))
      /\ \A b \in Blocks \ {"question", "string"} : heap'[b] = heap[b]
  <2> DEFINE Of(b) == {j \in 1 .. got : all[j] = b}
  <2>1. heap' = [b \in Blocks |-> heap[b] + Cardinality(Of(b))]
    BY <1>3 DEF Allocated
  <2>2. \A j \in 1 .. got : all[j] = IF j % 4 = 1 THEN "question" ELSE "string"
    BY <1>2, <1>4 DEF all
  <2>3. /\ Of("question") = {j \in 1 .. got : j % 4 = 1}
        /\ Of("string") = {j \in 1 .. got : j % 4 # 1}
        /\ \A b \in Blocks \ {"question", "string"} : Of(b) = {}
    BY <2>2
  <2> HIDE DEF Of
  <2>4. \A b \in Blocks : heap'[b] = heap[b] + Cardinality(Of(b)) /\ heap[b] \in Nat
    BY <2>1, HeapIsCounted
  <2>5. heap' = [b \in Blocks |-> heap'[b]]
    BY <2>1
  <2>6. "question" \in Blocks /\ "string" \in Blocks
    BY DEF Blocks
  <2>7. \A b \in Blocks \ {"question", "string"} : heap'[b] = heap[b]
    <3>1. Cardinality({}) = 0
      BY FS_EmptySet
    <3>2. \A b \in Blocks \ {"question", "string"} : Cardinality(Of(b)) = 0
      BY <2>3, <3>1
    <3> QED BY <2>4, <3>2
  <2> QED BY <1>6, <2>3, <2>4, <2>5, <2>6, <2>7
<1>8. /\ parsed' = [discovery |-> parsed'.discovery, probe |-> parsed'.probe,
                    questions |-> parsed'.questions, records |-> parsed'.records]
      /\ parsed'.records = parsed.records /\ parsed'.questions = R \o Q
  BY <1>3 DEF HeapInv, R
<1>9. /\ IsQuestions(R \o Q) /\ Len(R \o Q) = m + Len(Q)
      /\ Cardinality(Pointers(Counts(R \o Q)))
            = Cardinality(Pointers(Counts(R))) + Cardinality(Pointers(Counts(Q)))
  <2>1. IsQuestions(Q)
    BY HoldsNow
  <2> HIDE DEF Q
  <2> QED BY <1>5, <1>6, <2>1, QuestionsTogether
<1>10. Cardinality(Pointers(Counts(R))) \in Nat
  <2>1. DOMAIN Counts(R) = 1 .. m
    BY <1>5, <1>6, CountsOf
  <2> QED BY <1>5, <2>1, PointersFinite
<1>11. heap'["record"] = heap["record"]
  BY <1>7 DEF Blocks
<1>12. Holds(heap', parsed'.questions, parsed'.records)
  <2> HIDE DEF Q
  <2>1. /\ heap["question"] = Len(Q) /\ heap["record"] = Len(parsed.records)
        /\ heap["string"] = Cardinality(Pointers(Counts(Q))) + Cardinality(Pointers(parsed.records))
        /\ Cardinality(Pointers(Counts(Q))) \in Nat /\ Cardinality(Pointers(parsed.records)) \in Nat
        /\ Len(Q) \in Nat
    BY HoldsNow DEF Q
  <2> QED BY <1>5, <1>7, <1>8, <1>9, <1>10, <1>11, <2>1 DEF Holds
<1>13. pc = "questions" /\ pc' # "idle" /\ UNCHANGED <<bufs, sync>>
  BY Zenon DEF DiscoveryQuestion, Question, KeepForRecords, found
<1> QED BY <1>7, <1>8, <1>9, <1>12, <1>13, HoldsNow, ListsHeap

LEMMA ArriveHeap == HeapInv /\ mdns_parse_packet => HeapInv'
<1> SUFFICES ASSUME HeapInv, mdns_parse_packet PROVE HeapInv'
  OBVIOUS
<1>1. pc = "idle" /\ UNCHANGED <<parsed, bufs, sync>>
  BY DEF mdns_parse_packet, found
<1>2. CASE pc' = "idle" /\ UNCHANGED heap
  BY <1>1, <1>2 DEF HeapInv
<1>3. CASE pc' = "questions" /\ heap' = Allocated(heap, <<"parsed">>, 1)
  <2>1. Strung(<<"parsed">>, "parsed") /\ Len(<<"parsed">>) = 1
    BY StrungTuples, Tuples, Zenon
  <2>2. "parsed" \in Blocks \ {"string"} /\ 1 \in 0 .. 1
    BY DEF Blocks
  <2>3. \A b \in Blocks : heap[b] \in Int
    BY HeapIsCounted
  <2>4. Gets(heap, heap', "parsed", 1)
    <3> DEFINE blocks == <<"parsed">>
    <3> HIDE DEF blocks
    <3>1. 1 \in 0 .. Len(blocks)
      BY <2>1, <2>2 DEF blocks
    <3> QED BY <1>3, <2>1, <2>2, <2>3, <3>1, StrungAllocated DEF blocks
  <2>5. heap["parsed"] = 0 /\ heap["string"] \in Nat
    BY <1>1, HeapIsCounted DEF HeapInv, Present, Blocks
  <2>6. heap'["parsed"] = 1 /\ heap'["string"] = heap["string"]
    BY <2>4, <2>5 DEF Gets
  <2>7. \A b \in {"question", "record", "instance", "service", "proto", "sync"} : heap'[b] = heap[b]
    BY <2>4 DEF Gets, Blocks
  <2> QED BY <1>1, <1>3, <2>4, <2>6, <2>7 DEF HeapInv, Holds, Present, Gets
<1> QED BY <1>2, <1>3 DEF mdns_parse_packet, Malloc

\* The question that is answered is freed, or the next question is looked at.
LEMMA RemovedHeap ==
  ASSUME HeapInv, NEW type, NEW s, mdns_remove_parsed_question(type, s),
         pc # "idle", pc' # "idle", UNCHANGED bufs, sync'.browse = sync.browse
  PROVE  HeapInv'
<1>1. parsed' = [parsed EXCEPT !.questions = Without(type, s)] /\ heap' = FreedWith(type, s)
  BY DEF mdns_remove_parsed_question
<1>2. /\ parsed' = [discovery |-> parsed'.discovery, probe |-> parsed'.probe,
                    questions |-> parsed'.questions, records |-> parsed'.records]
      /\ parsed'.questions = Without(type, s) /\ parsed'.records = parsed.records
  BY <1>1 DEF HeapInv
<1>3. IsRecords(parsed.records)
  BY DEF HeapInv
<1> QED BY <1>1, <1>2, <1>3, RemovedQuestion, ListsHeap

LEMMA SyncedBrowseKept ==
  ASSUME Untold, PtrRecord \/ SrvRecord \/ TxtRecord \/ AddressRecord \/ OtherRecord
  PROVE  sync'.browse = sync.browse
<1>1. UNCHANGED sync \/ \E facts : mdns_browse_result_add(facts)
  BY DEF PtrRecord, SrvRecord, TxtRecord, AddressRecord, OtherRecord
<1>2. ASSUME NEW facts, mdns_browse_result_add(facts) PROVE sync'.browse = sync.browse
  BY <1>2 DEF mdns_browse_result_add, Untold
<1> QED BY <1>1, <1>2

LEMMA OthersHeap ==
  ASSUME HeapInv, Untold, SrvRecord \/ TxtRecord \/ AddressRecord \/ OtherRecord
  PROVE  HeapInv'
<1>1. pc # "idle" /\ pc' # "idle" /\ UNCHANGED bufs
  <2>1. CASE SrvRecord
    BY <2>1, Zenon DEF SrvRecord, Dispatch, KeepFound, NextRecord
  <2>2. CASE TxtRecord
    BY <2>2, Zenon DEF TxtRecord, Dispatch, KeepFound, NextRecord
  <2>3. CASE AddressRecord
    BY <2>3, Zenon DEF AddressRecord, AddressOfOurs, Dispatch, KeepFound, NextRecord
  <2>4. CASE OtherRecord
    BY <2>4, Zenon DEF OtherRecord, KeepFound, NextRecord
  <2> QED BY <2>1, <2>2, <2>3, <2>4
<1>2. sync'.browse = sync.browse
  BY SyncedBrowseKept
<1>3. UNCHANGED <<parsed, heap>> \/ \E type, s : mdns_remove_parsed_question(type, s)
  <2>1. CASE SrvRecord
    BY <2>1, Zenon DEF SrvRecord, SrvOfOurs, KeepOwn
  <2>2. CASE TxtRecord
    BY <2>2, Zenon DEF TxtRecord, TxtOfOurs, KeepOwn
  <2>3. CASE AddressRecord
    BY <2>3, Zenon DEF AddressRecord, AddressOfOurs, KeepOwn
  <2>4. CASE OtherRecord
    BY <2>4, Zenon DEF OtherRecord
  <2> QED BY <2>1, <2>2, <2>3, <2>4
<1> QED BY <1>1, <1>2, <1>3, QuietHeap, RemovedHeap

\* A record that is kept, with its strings, after a question was answered by it.
LEMMA PtrHeap == HeapInv /\ PtrRecord => HeapInv'
<1> SUFFICES ASSUME HeapInv, PtrRecord PROVE HeapInv'
  OBVIOUS
<1> DEFINE n    == Entry.target
           svc  == PtrService(n)
           q    == IF cls = "discovery" THEN "SDPTR" ELSE "PTR"
           answers == cls = "discovery" \/ Asked
           host == IF n.host = "" THEN <<>> ELSE <<"string">>
           all  == <<"record">> \o host \o <<"string", "string">>
           h    == IF answers THEN FreedWith(q, svc) ELSE heap
           Q    == IF answers THEN Without(q, svc) ELSE parsed.questions
           Kept(got) ==
             /\ heap' = Allocated(h, all, got)
             /\ parsed' = [parsed EXCEPT !.questions = IF answers THEN Without(q, svc) ELSE @,
                                         !.records = IF got = 0 THEN @ ELSE <<got - 1>> \o @]
<1>1. pc # "idle" /\ pc' # "idle" /\ UNCHANGED <<bufs, sync>>
  BY Zenon DEF PtrRecord, PtrOfOurs, Dispatch, KeepFound, NextRecord
<1>2. UNCHANGED <<parsed, heap>> \/ \E got \in 0 .. Len(all) : Kept(got)
  BY Zenon DEF PtrRecord, PtrOfOurs
<1>3. Strung(all, "record") /\ Len(all) \in 0 .. 4
  <2>1. AllStrings(host) /\ Len(host) \in 0 .. 1
    <3>1. host = <<>> \/ host = <<"string">>
      BY Zenon
    <3>2. Len(<<>>) = 0 /\ Len(<<"string">>) = 1
      BY Tuples, Zenon
    <3> HIDE DEF host
    <3>3. AllStrings(host) /\ (Len(host) = 0 \/ Len(host) = 1)
      BY <3>1, <3>2, StringTuples, Zenon
    <3> QED BY <3>3
  <2>2. Strung(<<"record">>, "record") /\ Len(<<"record">>) = 1
    BY StrungTuples, Tuples, Zenon
  <2>3. AllStrings(<<"string", "string">>) /\ Len(<<"string", "string">>) = 2
    BY StringTuples, Tuples, Zenon
  <2> DEFINE first == <<"record">>
             last  == <<"string", "string">>
  <2> HIDE DEF host, first, last
  <2>4. Strung(first \o host, "record") /\ Len(first \o host) = 1 + Len(host)
    BY <2>1, <2>2, StrungMore DEF first
  <2>5. Strung(first \o host \o last, "record")
        /\ Len(first \o host \o last) = 1 + Len(host) + 2
    BY <2>3, <2>4, StrungMore DEF last
  <2>6. 1 + Len(host) + 2 \in 0 .. 4
    <3>1. \A l \in 0 .. 1 : 1 + l + 2 \in 0 .. 4
      OBVIOUS
    <3> QED BY <2>1, <3>1
  <2> QED BY <2>5, <2>6 DEF first, last
<1> HIDE DEF all, svc
<1>4. CASE UNCHANGED <<parsed, heap>>
  BY <1>1, <1>4, QuietHeap
<1>5. ASSUME NEW got \in 0 .. Len(all), Kept(got) PROVE HeapInv'
  <2>1. /\ IsQuestions(Q) /\ Holds(h, Q, parsed.records) /\ h = [b \in Blocks |-> h[b]]
        /\ \A b \in Blocks \ {"question", "record", "string"} : h[b] = heap[b]
    BY RemovedQuestion DEF HeapInv
  <2> DEFINE R == parsed.records
  <2>2. /\ parsed' = [discovery |-> parsed'.discovery, probe |-> parsed'.probe,
                      questions |-> parsed'.questions, records |-> parsed'.records]
        /\ parsed'.questions = Q /\ parsed'.records = IF got = 0 THEN R ELSE <<got - 1>> \o R
    BY <1>5 DEF HeapInv
  <2>3. heap' = Allocated(h, all, got)
    BY <1>5
  <2> HIDE DEF h, Q, Kept
  <2>4. /\ Cardinality(Pointers(Counts(Q))) \in Nat /\ Cardinality(Pointers(R)) \in Nat
        /\ Len(Q) \in Nat /\ Len(R) \in Nat /\ IsRecords(R)
    <3>1. Counts(Q) \in [1 .. Len(Q) -> 0 .. 4] /\ Len(Q) \in Nat
      BY <2>1, CountsOf DEF IsQuestions, IsList
    <3>2. Cardinality(Pointers(Counts(Q))) \in Nat
      BY <3>1, PointersFinite
    <3> QED BY <3>1, <3>2, HoldsNow
  <2> HIDE DEF R
  <2>5. /\ h["question"] = Len(Q) /\ h["record"] = Len(R)
        /\ h["string"] = Cardinality(Pointers(Counts(Q))) + Cardinality(Pointers(R))
    BY <2>1 DEF Holds, R
  <2>6. \A b \in Blocks : h[b] \in Int
    <3>1. \A b \in Blocks \ {"question", "record", "string"} : h[b] \in Nat
      BY <2>1, HeapIsCounted
    <3>2. h["question"] \in Nat /\ h["record"] \in Nat /\ h["string"] \in Nat
      BY <2>4, <2>5
    <3> QED BY <3>1, <3>2
  <2>7. Gets(h, heap', "record", got)
    <3>1. "record" \in Blocks \ {"string"}
      BY DEF Blocks
    <3> QED BY <1>3, <2>3, <2>6, <3>1, StrungAllocated
  <2>8. heap'["question"] = h["question"]
    BY <2>7 DEF Gets, Blocks
  <2>9. IsRecords(parsed'.records) /\ Holds(heap', parsed'.questions, parsed'.records)
    <3>1. CASE got = 0
      <4>1. heap'["record"] = h["record"] /\ heap'["string"] = h["string"]
        BY <2>4, <2>5, <2>7, <3>1 DEF Gets
      <4> QED BY <2>2, <2>4, <2>5, <2>8, <3>1, <4>1 DEF Holds
    <3>2. CASE got # 0
      <4>1. got - 1 \in 0 .. 4 /\ got \in Nat
        <5>1. \A l \in 0 .. 4 : \A g \in 0 .. l : g # 0 => g - 1 \in 0 .. 4 /\ g \in Nat
          OBVIOUS
        <5> QED BY <1>3, <3>2, <5>1
      <4>2. heap'["record"] = h["record"] + 1 /\ heap'["string"] = h["string"] + (got - 1)
        BY <2>7, <3>2 DEF Gets
      <4>3. /\ IsRecords(<<got - 1>> \o R) /\ Len(<<got - 1>> \o R) = Len(R) + 1
            /\ Cardinality(Pointers(<<got - 1>> \o R)) = got - 1 + Cardinality(Pointers(R))
        BY <2>4, <4>1, OneMoreRecord
      <4>4. heap'["string"] = Cardinality(Pointers(Counts(Q))) + (got - 1 + Cardinality(Pointers(R)))
        BY <2>4, <2>5, <4>1, <4>2
      <4> QED BY <2>2, <2>5, <2>8, <3>2, <4>2, <4>3, <4>4 DEF Holds
    <3> QED BY <3>1, <3>2
  <2>10. \A b \in Blocks \ {"question", "record", "string"} : heap'[b] = heap[b]
    BY <2>1, <2>7 DEF Gets
  <2>11. heap' = [b \in Blocks |-> heap'[b]]
    BY <2>7 DEF Gets
  <2> QED BY <1>1, <2>1, <2>2, <2>9, <2>10, <2>11, ListsHeap
<1> QED BY <1>2, <1>4, <1>5

LEMMA EmptyHolds ==
  /\ IsQuestions(<<>>) /\ IsRecords(<<>>)
  /\ \A h : h["question"] = 0 /\ h["record"] = 0 /\ h["string"] = 0 <=> Holds(h, <<>>, <<>>)
<1>1. IsList(<<>>) /\ Len(<<>>) = 0
  BY Tuples
<1>2. IsQuestions(<<>>) /\ IsRecords(<<>>)
  BY <1>1 DEF IsQuestions, IsRecords
<1>3. ASSUME NEW counts, DOMAIN counts = {} PROVE Cardinality(Pointers(counts)) = 0
  <2>1. Pointers(counts) = {}
    BY <1>3 DEF Pointers
  <2> QED BY <2>1, FS_EmptySet
<1>4. DOMAIN Counts(<<>>) = {} /\ DOMAIN <<>> = {}
  BY DEF Counts
<1>5. Cardinality(Pointers(Counts(<<>>))) = 0 /\ Cardinality(Pointers(<<>>)) = 0
  BY <1>3, <1>4
<1> QED BY <1>1, <1>2, <1>5 DEF Holds

LEMMA EndHeap ==
  ASSUME HeapInv, Reply \/ clear_rx_packet
  PROVE  HeapInv'
<1>1. CASE Reply
  <2>1. pc = "reply" /\ pc' = "clear" /\ UNCHANGED <<parsed, bufs>>
    BY <1>1 DEF Reply
  <2>2. CASE UNCHANGED <<heap, sync>>
    BY <2>1, <2>2, QuietHeap
  <2>3. CASE sync.browse # 0 /\ heap' = [heap EXCEPT !["sync"] = @ - 1] /\ sync' = NoSync
    <3>1. heap["sync"] = 1 /\ sync'.browse = 0
      BY <2>3 DEF HeapInv, Present, NoSync
    <3>2. heap' = [b \in Blocks |-> heap'[b]] /\ heap'["sync"] = 0
      <4>1. heap' = [b \in Blocks |-> heap'[b]]
        BY <2>3 DEF HeapInv
      <4>2. "sync" \in DOMAIN heap
        BY DEF HeapInv, Blocks
      <4> QED BY <2>3, <3>1, <4>1, <4>2
    <3>3. \A b \in Blocks \ {"sync"} : heap'[b] = heap[b]
      BY <2>3 DEF HeapInv
    <3>4. \A b \in {"parsed", "question", "record", "string", "instance", "service", "proto"} :
              heap'[b] = heap[b]
      BY <3>3 DEF Blocks
    <3> QED BY <2>1, <3>1, <3>2, <3>4 DEF HeapInv, Holds, Present
  <2> QED BY <1>1, <2>2, <2>3 DEF Reply, SyncBrowse
<1>2. CASE clear_rx_packet
  <2>1. /\ pc # "idle" /\ pc' = "idle" /\ parsed' = NoParsed /\ bufs' = NoBufs /\ sync' = NoSync
    BY <1>2 DEF clear_rx_packet
  <2>2. \A b \in Blocks : heap'[b] = 0
    <3> DEFINE Of(kind, present) == heap[kind] - IF present THEN 1 ELSE 0
    <3>1. heap' = [parsed   |-> heap["parsed"] - 1,
                   question |-> heap["question"] - Len(parsed.questions),
                   record   |-> heap["record"] - Len(parsed.records),
                   string   |-> heap["string"] - Strings,
                   instance |-> Of("instance", bufs.instance # NULL),
                   service  |-> Of("service", bufs.service # NULL),
                   proto    |-> Of("proto", bufs.proto # NULL),
                   sync     |-> Of("sync", sync.browse # 0)]
      BY <1>2 DEF clear_rx_packet
    <3>2. heap'["parsed"] = 0
      BY <2>1, <3>1 DEF HeapInv, Present
    <3>3. heap'["question"] = 0 /\ heap'["record"] = 0
      BY <3>1, HoldsNow
    <3>4. heap'["string"] = 0
      <4>1. heap["string"] = Strings /\ Strings \in Nat
        BY HoldsNow DEF Strings
      <4> QED BY <3>1, <4>1
    <3>5. heap'["instance"] = 0 /\ heap'["service"] = 0 /\ heap'["proto"] = 0 /\ heap'["sync"] = 0
      BY <3>1 DEF HeapInv, Present
    <3> QED BY <3>2, <3>3, <3>4, <3>5 DEF Blocks
  <2>3. heap' = [b \in Blocks |-> heap'[b]]
    BY <1>2 DEF clear_rx_packet, Blocks
  <2>4. sync'.browse = 0
    BY <2>1 DEF NoSync
  <2>5. /\ parsed'.questions = <<>> /\ parsed'.records = <<>>
        /\ parsed' = [discovery |-> parsed'.discovery, probe |-> parsed'.probe,
                      questions |-> parsed'.questions, records |-> parsed'.records]
    BY <2>1 DEF NoParsed
  <2>6. /\ bufs'.instance = NULL /\ bufs'.service = NULL /\ bufs'.proto = NULL
        /\ bufs' = [instance |-> bufs'.instance, service |-> bufs'.service, proto |-> bufs'.proto]
    BY <2>1 DEF NoBufs
  <2>7. IsQuestions(<<>>) /\ IsRecords(<<>>) /\ Holds(heap', <<>>, <<>>)
    BY <2>2, EmptyHolds DEF Blocks
  <2> QED BY <2>1, <2>2, <2>3, <2>4, <2>5, <2>6, <2>7 DEF HeapInv, Present, Blocks
<1> QED BY <1>1, <1>2

\* Blocks of different kinds, of those in S.
Once(blocks, S) ==
    /\ IsList(blocks) /\ \A j \in 1 .. Len(blocks) : blocks[j] \in S
    /\ \A j, k \in 1 .. Len(blocks) : blocks[j] = blocks[k] => j = k

LEMMA OnceMore ==
  ASSUME NEW blocks, NEW S, Once(blocks, S), NEW kind, kind \notin S
  PROVE  /\ Once(blocks \o <<kind>>, S \cup {kind})
         /\ Len(blocks \o <<kind>>) = Len(blocks) + 1
         /\ \A j \in 1 .. Len(blocks) : (blocks \o <<kind>>)[j] = blocks[j]
<1> DEFINE t == <<kind>>
<1>1. IsList(t) /\ Len(t) = 1 /\ t[1] = kind
  BY Tuples, Zenon
<1>2. IsList(blocks) /\ Len(blocks) \in Nat
  BY DEF Once, IsList
<1> HIDE DEF t
<1>3. /\ IsList(blocks \o t) /\ Len(blocks \o t) = Len(blocks) + 1
      /\ \A j \in 1 .. Len(blocks) + 1 :
            (blocks \o t)[j] = IF j <= Len(blocks) THEN blocks[j] ELSE t[j - Len(blocks)]
  BY <1>1, <1>2, Together
<1>4. \A j \in 1 .. Len(blocks) + 1 :
          (blocks \o t)[j] = IF j <= Len(blocks) THEN blocks[j] ELSE kind
  BY <1>1, <1>2, <1>3
<1>5. \A j \in 1 .. Len(blocks) : j \in 1 .. Len(blocks) + 1 /\ j <= Len(blocks)
  BY <1>2
<1>6. Once(blocks \o t, S \cup {kind})
  BY <1>2, <1>3, <1>4 DEF Once
<1> QED BY <1>3, <1>4, <1>5, <1>6 DEF t

LEMMA OnceNoMore ==
  ASSUME NEW blocks, NEW S, Once(blocks, S)
  PROVE  /\ Once(blocks \o <<>>, S) /\ Len(blocks \o <<>>) = Len(blocks)
         /\ \A j \in 1 .. Len(blocks) : (blocks \o <<>>)[j] = blocks[j]
<1>1. IsList(blocks) /\ Len(blocks) \in Nat /\ IsList(<<>>) /\ Len(<<>>) = 0
  BY Tuples DEF Once, IsList
<1> DEFINE t == <<>>
<1> HIDE DEF t
<1>2. /\ IsList(blocks \o t) /\ Len(blocks \o t) = Len(blocks)
      /\ \A j \in 1 .. Len(blocks) : (blocks \o t)[j] = blocks[j]
  BY <1>1, Together DEF t
<1>3. Once(blocks \o t, S)
  BY <1>2 DEF Once
<1> QED BY <1>2, <1>3 DEF t

\* A block is wanted, or not.
IfWanted(kind, wanted)     == IF wanted THEN <<kind>> ELSE <<>>
KindIfWanted(kind, wanted) == IF wanted THEN {kind} ELSE {}

LEMMA OnceMaybe ==
  ASSUME NEW blocks, NEW S, Once(blocks, S), NEW kind, kind \notin S, NEW wanted
  PROVE  /\ Once(blocks \o IfWanted(kind, wanted), S \cup KindIfWanted(kind, wanted))
         /\ Len(blocks \o IfWanted(kind, wanted)) = Len(blocks) + Present(wanted)
         /\ \A j \in 1 .. Len(blocks) : (blocks \o IfWanted(kind, wanted))[j] = blocks[j]
<1>1. CASE wanted
  <2>1. IfWanted(kind, wanted) = <<kind>> /\ KindIfWanted(kind, wanted) = {kind} /\ Present(wanted) = 1
    BY <1>1, Zenon DEF IfWanted, KindIfWanted, Present
  <2>2. /\ Once(blocks \o <<kind>>, S \cup {kind})
        /\ Len(blocks \o <<kind>>) = Len(blocks) + 1
        /\ \A j \in 1 .. Len(blocks) : (blocks \o <<kind>>)[j] = blocks[j]
    BY OnceMore
  <2> QED BY <2>1, <2>2, Zenon
<1>2. CASE ~wanted
  <2>1. IfWanted(kind, wanted) = <<>> /\ KindIfWanted(kind, wanted) = {} /\ Present(wanted) = 0
    BY <1>2, Zenon DEF IfWanted, KindIfWanted, Present
  <2>2. S \cup KindIfWanted(kind, wanted) = S
    BY <2>1, Zenon
  <2>3. Len(blocks) + 0 = Len(blocks)
    BY DEF Once, IsList
  <2> QED BY OnceNoMore, <2>1, <2>2, <2>3, Zenon
<1> QED BY <1>1, <1>2

LEMMA OnceFirst ==
  ASSUME NEW kind, NEW wanted
  PROVE  Once(IfWanted(kind, wanted), KindIfWanted(kind, wanted))
         /\ Len(IfWanted(kind, wanted)) \in Nat
<1>1. IsList(<<>>) /\ Len(<<>>) = 0 /\ IsList(<<kind>>) /\ Len(<<kind>>) = 1 /\ <<kind>>[1] = kind
  BY Tuples, Zenon
<1>2. ASSUME NEW t, NEW S, IsList(t), Len(t) = 0 PROVE Once(t, S)
  BY <1>2 DEF Once
<1>3. ASSUME NEW t, IsList(t), Len(t) = 1, t[1] = kind PROVE Once(t, {kind})
  BY <1>3 DEF Once
<1>4. CASE wanted
  <2>1. IfWanted(kind, wanted) = <<kind>> /\ KindIfWanted(kind, wanted) = {kind}
    BY <1>4, Zenon DEF IfWanted, KindIfWanted
  <2>2. Once(<<kind>>, {kind})
    BY <1>1, <1>3, Zenon
  <2>3. Len(<<kind>>) \in Nat
    BY <1>1
  <2> QED BY <2>1, <2>2, <2>3, Zenon
<1>5. CASE ~wanted
  <2>1. IfWanted(kind, wanted) = <<>> /\ KindIfWanted(kind, wanted) = {}
    BY <1>5, Zenon DEF IfWanted, KindIfWanted
  <2>2. Once(<<>>, {})
    BY <1>1, <1>2, Zenon
  <2>3. Len(<<>>) \in Nat
    BY <1>1
  <2> QED BY <2>1, <2>2, <2>3, Zenon
<1> QED BY <1>4, <1>5

\* a is h with got of the blocks more, which are of kinds in S.
GetsOnce(h, a, blocks, got, S) ==
    /\ a = [b \in Blocks |-> a[b]]
    /\ \A b \in Blocks : a[b] = h[b] \/ (b \in S /\ a[b] = h[b] + 1)
    /\ \A b \in Blocks : (\A j \in 1 .. got : blocks[j] # b) => a[b] = h[b]

LEMMA OnceAllocated ==
  ASSUME NEW h, NEW blocks, NEW S, Once(blocks, S), NEW got \in 0 .. Len(blocks),
         \A b \in Blocks : h[b] \in Int
  PROVE  GetsOnce(h, Allocated(h, blocks, got), blocks, got, S)
<1> DEFINE a == Allocated(h, blocks, got)
           Of(b) == {j \in 1 .. got : blocks[j] = b}
<1>1. a = [b \in Blocks |-> h[b] + Cardinality(Of(b))]
  BY DEF Allocated
<1>2. \A j \in 1 .. got : j \in 1 .. Len(blocks)
  BY DEF Once, IsList
<1>3. ASSUME NEW b PROVE Of(b) = {} \/ (b \in S /\ \E j : Of(b) = {j})
  <2>1. ASSUME NEW j \in Of(b) PROVE b \in S /\ Of(b) = {j}
    BY <1>2, <2>1 DEF Once
  <2> QED BY <2>1
<1>4. \A b : (\A j \in 1 .. got : blocks[j] # b) => Of(b) = {}
  OBVIOUS
<1>5. Cardinality({}) = 0 /\ \A j : Cardinality({j}) = 1
  BY FS_EmptySet, FS_Singleton
<1> HIDE DEF Of
<1>6. ASSUME NEW b \in Blocks
      PROVE  /\ a[b] = h[b] \/ (b \in S /\ a[b] = h[b] + 1)
             /\ Of(b) = {} => a[b] = h[b]
  <2>1. a[b] = h[b] + Cardinality(Of(b))
    BY <1>1
  <2> HIDE DEF a
  <2>2. CASE Of(b) = {}
    <3>1. Cardinality(Of(b)) = 0
      BY <1>5, <2>2
    <3> QED BY <2>1, <3>1
  <2>3. CASE Of(b) # {}
    <3>1. b \in S /\ Cardinality(Of(b)) = 1
      BY <1>3, <1>5, <2>3
    <3> QED BY <2>1, <2>3, <3>1
  <2> QED BY <2>2, <2>3
<1>7. a = [b \in Blocks |-> a[b]]
  BY <1>1
<1> HIDE DEF a
<1>8. \A b \in Blocks : (\A j \in 1 .. got : blocks[j] # b) => a[b] = h[b]
  BY <1>4, <1>6
<1> QED BY <1>6, <1>7, <1>8 DEF a, GetsOnce

LEMMA BrowseIs ==
  ASSUME NEW n, NEW type, mdns_browse_find(n, type) # 0
  PROVE  /\ mdns_browse_find(n, type) \in DOMAIN Browses
         /\ Browses[mdns_browse_find(n, type)] # NULL
<1> DEFINE m == {b \in DOMAIN Browses :
                   Matches([type |-> "PTR", service |-> Browses[b], facts |-> browses[b]], n, type)}
<1>1. m # {} /\ mdns_browse_find(n, type) = CHOOSE b \in m : \A c \in m : b <= c
  BY DEF mdns_browse_find
<1>2. m \in SUBSET Nat /\ m \subseteq DOMAIN Browses
  BY BrowsesAssumption
<1>3. mdns_browse_find(n, type) \in m
  <2> HIDE DEF m
  <2>1. \E j \in m : \A l \in m : j <= l
    BY <1>1, <1>2, Least
  <2> QED BY <1>1, <2>1
<1> QED BY <1>2, <1>3, BrowsesAssumption

\* Buffers are allocated when they are first needed, and the packet is given up
\* when one cannot be.
LEMMA ForeignHeap == HeapInv /\ CountInv /\ PacketInv /\ ForeignRecord => HeapInv'
<1> SUFFICES ASSUME HeapInv, CountInv, PacketInv, ForeignRecord PROVE HeapInv'
  OBVIOUS
<1>1. pc = "records" /\ pc' \in {"dispatch", "clear"} /\ UNCHANGED parsed
  BY Zenon DEF ForeignRecord, Record
<1>2. CASE UNCHANGED <<bufs, sync, heap>>
  BY <1>1, <1>2, QuietHeap
<1> DEFINE named  == Entry.type \in {"SRV", "TXT"}
           noSync == sync.browse = 0
           noService == bufs.service = NULL
           noProto == bufs.proto = NULL
           noInstance == named /\ bufs.instance = NULL
           some   == IfWanted("sync", noSync) \o IfWanted("service", noService)
                     \o IfWanted("proto", noProto)
           blocks == some \o IfWanted("instance", noInstance)
           Value(kind, value) == IF heap'[kind] = 1 THEN value ELSE NULL
           Got(got) ==
             /\ heap' = Allocated(heap, blocks, got)
             /\ sync' = IF sync.browse = 0 /\ heap'["sync"] = 1
                        THEN [NoSync EXCEPT !.browse = browse_result'] ELSE sync
             /\ bufs' = [service  |-> Value("service", Browses[browse_result']),
                         proto    |-> Value("proto", Browses[browse_result']),
                         instance |-> IF named /\ got = Len(blocks)
                                      THEN Value("instance", Entry.name.host)
                                      ELSE bufs.instance]
           SomeKinds == KindIfWanted("sync", noSync) \cup KindIfWanted("service", noService)
                        \cup KindIfWanted("proto", noProto)
           Kinds == SomeKinds \cup KindIfWanted("instance", noInstance)
<1>3. CASE browse_result' # 0 /\ \E got \in 0 .. Len(blocks) : Got(got)
  <2>1. /\ Once(some, SomeKinds) /\ Once(blocks, Kinds)
        /\ Len(some) \in Nat /\ Len(blocks) = Len(some) + Present(noInstance)
        /\ \A j \in 1 .. Len(some) : blocks[j] = some[j]
    <3> DEFINE one == IfWanted("sync", noSync)
               two == one \o IfWanted("service", noService)
               S1  == KindIfWanted("sync", noSync)
               S2  == S1 \cup KindIfWanted("service", noService)
    <3>1. Once(one, S1)
      BY OnceFirst
    <3>2. "service" \notin S1 /\ "proto" \notin S2 /\ "instance" \notin SomeKinds
      BY DEF KindIfWanted
    <3> HIDE DEF noSync, noService, noProto, noInstance, one, S1
    <3>3. Once(two, S2)
      BY <3>1, <3>2, OnceMaybe DEF one, S1
    <3> HIDE DEF two, S2
    <3>4. Once(some, SomeKinds)
      BY <3>2, <3>3, OnceMaybe DEF one, two, S1, S2
    <3>5. Len(some) \in Nat
      BY <3>4 DEF Once, IsList
    <3> HIDE DEF some, SomeKinds
    <3> QED BY <3>2, <3>4, <3>5, OnceMaybe
  <2> HIDE DEF some, blocks
  <2>2. PICK got \in 0 .. Len(blocks) : Got(got)
    BY <1>3
  <2> DEFINE h == heap'
             browsed == Browses[browse_result']
  <2>3. /\ h = [b \in Blocks |-> h[b]]
        /\ \A b \in Blocks : h[b] = heap[b] \/ (b \in Kinds /\ h[b] = heap[b] + 1)
        /\ \A b \in Blocks : (\A j \in 1 .. got : blocks[j] # b) => h[b] = heap[b]
    <3> HIDE DEF Kinds
    <3>1. \A b \in Blocks : heap[b] \in Int
      BY HeapIsCounted
    <3>2. heap' = Allocated(heap, blocks, got) /\ Once(blocks, Kinds)
      BY <2>1, <2>2
    <3>3. GetsOnce(heap, Allocated(heap, blocks, got), blocks, got, Kinds)
      BY <3>1, <3>2, OnceAllocated
    <3>4. GetsOnce(heap, h, blocks, got, Kinds)
      BY <3>2, <3>3, Zenon
    <3> QED BY <3>4 DEF GetsOnce
  <2>4. browsed # NULL /\ browse_result' # 0
    <3>1. browse_result' = mdns_browse_find(Entry.name, Entry.type)
      BY Zenon DEF ForeignRecord
    <3> QED BY <1>3, <3>1, BrowseIs
  <2>5. Entry.name.host # NULL
    <3>1. pc = "records" /\ ~(i > Len(packet.entries))
      BY Zenon DEF ForeignRecord, Record, Ended
    <3>2. i \in Nat /\ i = Asking + 1 + recordIndex /\ Asking \in Nat /\ recordIndex \in Nat
      BY <3>1 DEF CountInv, Position, Asking
    <3>3. i \in 1 .. Len(packet.entries)
      BY <3>1, <3>2 DEF PacketInv
    <3> QED BY <3>3 DEF PacketInv, Entry
  <2> HIDE DEF browsed, named
  <2>6. \A b \in {"parsed", "question", "record", "string"} : h[b] = heap[b]
    <3>1. \A b \in {"parsed", "question", "record", "string"} : b \in Blocks /\ b \notin Kinds
      BY DEF Blocks, KindIfWanted
    <3> HIDE DEF Kinds
    <3> QED BY <2>3, <3>1
  <2>7. /\ h["sync"] = heap["sync"] \/ (noSync /\ h["sync"] = heap["sync"] + 1)
        /\ h["service"] = heap["service"] \/ (noService /\ h["service"] = heap["service"] + 1)
        /\ h["proto"] = heap["proto"] \/ (noProto /\ h["proto"] = heap["proto"] + 1)
        /\ h["instance"] = heap["instance"] \/ (noInstance /\ h["instance"] = heap["instance"] + 1)
    <3>1. /\ "sync" \in Kinds => noSync
          /\ "service" \in Kinds => noService
          /\ "proto" \in Kinds => noProto
          /\ "instance" \in Kinds => noInstance
      BY DEF KindIfWanted
    <3> HIDE DEF Kinds, noSync, noService, noProto, noInstance
    <3> QED BY <2>3, <3>1 DEF Blocks
  <2>8. h["sync"] = Present(sync'.browse # 0)
    BY <2>2, <2>4, <2>7 DEF HeapInv, Present, NoSync
  <2>9. /\ h["service"] = Present(bufs'.service # NULL)
        /\ h["proto"] = Present(bufs'.proto # NULL)
    <3>1. bufs'.service = Value("service", browsed) /\ bufs'.proto = Value("proto", browsed)
      BY <2>2 DEF browsed
    <3> QED BY <2>4, <2>7, <3>1 DEF HeapInv, Present
  <2>10. h["instance"] = Present(bufs'.instance # NULL)
    <3>1. bufs'.instance = IF named /\ got = Len(blocks) THEN Value("instance", Entry.name.host)
                           ELSE bufs.instance
      BY <2>2
    <3>2. heap["instance"] = Present(bufs.instance # NULL)
      BY DEF HeapInv
    <3>3. CASE noInstance /\ got # Len(blocks)
      <4>1. got \in 0 .. Len(some)
        BY <2>1, <3>3 DEF Present
      <4>2. \A j \in 1 .. got : j \in 1 .. Len(some) /\ blocks[j] \in SomeKinds
        BY <2>1, <4>1 DEF Once
      <4>3. "instance" \notin SomeKinds /\ "instance" \in Blocks
        BY DEF KindIfWanted, Blocks
      <4>4. h["instance"] = heap["instance"]
        BY <2>3, <4>2, <4>3
      <4> QED BY <3>1, <3>2, <3>3, <4>4
    <3>4. CASE noInstance /\ got = Len(blocks)
      BY <2>5, <2>7, <3>1, <3>2, <3>4 DEF Present
    <3>5. CASE ~noInstance
      BY <2>5, <2>7, <3>1, <3>2, <3>5 DEF Present
    <3> QED BY <3>3, <3>4, <3>5
  <2>11. bufs' = [instance |-> bufs'.instance, service |-> bufs'.service, proto |-> bufs'.proto]
    BY <2>2
  <2>12. /\ IsQuestions(parsed'.questions) /\ IsRecords(parsed'.records)
         /\ Holds(h, parsed'.questions, parsed'.records)
         /\ parsed' = [discovery |-> parsed'.discovery, probe |-> parsed'.probe,
                       questions |-> parsed'.questions, records |-> parsed'.records]
         /\ h["parsed"] = Present(pc' # "idle")
    BY <1>1, <2>6 DEF HeapInv, Holds, Present
  <2> QED BY <1>1, <2>3, <2>8, <2>9, <2>10, <2>11, <2>12 DEF HeapInv
<1> QED BY Zenon, <1>2, <1>3 DEF ForeignRecord, Malloc, IfWanted

\* A step that leaves the lists and the buffers alone.
LEMMA RestHeap ==
  ASSUME HeapInv,
         \/ MalformedQuestion \/ SkippedQuestion \/ QuestionsDone \/ MalformedRecord
         \/ SkippedRecord \/ OwnRecord \/ RecordsDone \/ ProbingDone \/ UNCHANGED vars
  PROVE  HeapInv'
<1>1. CASE MalformedQuestion \/ SkippedQuestion \/ QuestionsDone
  <2>1. pc = "questions" /\ UNCHANGED <<heap, parsed, bufs, sync>>
    BY <1>1, Zenon DEF MalformedQuestion, SkippedQuestion, QuestionsDone, Question, KeepForRecords, found
  <2>2. pc' # "idle"
    BY <1>1, <2>1, Zenon DEF MalformedQuestion, SkippedQuestion, QuestionsDone
  <2> QED BY <2>1, <2>2, QuietHeap
<1>2. CASE MalformedRecord \/ SkippedRecord \/ OwnRecord \/ RecordsDone
  <2>1. pc = "records" /\ pc' # "idle" /\ UNCHANGED <<heap, parsed, bufs, sync>>
    BY <1>2, Zenon DEF MalformedRecord, SkippedRecord, OwnRecord, RecordsDone, Record, found
  <2> QED BY <2>1, QuietHeap
<1>3. CASE ProbingDone \/ UNCHANGED vars
  <2>1. UNCHANGED <<pc, heap, parsed, bufs, sync>>
    BY <1>3, Zenon DEF ProbingDone, vars, found
  <2> QED BY <2>1 DEF HeapInv
<1> QED BY <1>1, <1>2, <1>3

LEMMA HeapInit == Init => HeapInv
<1> SUFFICES ASSUME Init PROVE HeapInv
  OBVIOUS
<1>1. /\ pc = "idle" /\ heap = [b \in Blocks |-> 0]
      /\ parsed = NoParsed /\ bufs = NoBufs /\ sync = NoSync
  BY DEF Init
<1>2. \A b \in Blocks : heap[b] = 0
  BY <1>1
<1>3. /\ parsed.questions = <<>> /\ parsed.records = <<>>
      /\ parsed = [discovery |-> parsed.discovery, probe |-> parsed.probe,
                   questions |-> parsed.questions, records |-> parsed.records]
  BY <1>1 DEF NoParsed
<1>4. /\ bufs.instance = NULL /\ bufs.service = NULL /\ bufs.proto = NULL
      /\ bufs = [instance |-> bufs.instance, service |-> bufs.service, proto |-> bufs.proto]
      /\ sync.browse = 0
  BY <1>1 DEF NoBufs, NoSync
<1>5. IsQuestions(<<>>) /\ IsRecords(<<>>) /\ Holds(heap, <<>>, <<>>)
  BY <1>2, EmptyHolds DEF Blocks
<1> QED BY <1>1, <1>2, <1>3, <1>4, <1>5 DEF HeapInv, Present, Blocks

LEMMA HeapStep == CountInv /\ PacketInv /\ Untold /\ HeapInv /\ [Next]_vars => HeapInv'
  BY ArriveHeap, DiscoveryHeap, OwnQuestionHeap, ForeignHeap, PtrHeap, OthersHeap, EndHeap,
     RestHeap DEF Next, Step, Finished

-----------------------------------------------------------------------------
(* Types. *)

\* Where the function is in the packet.
CursorInv ==
    /\ pc \in {"idle", "questions", "records", "dispatch", "reply", "clear"}
    /\ nth \in 1 .. Len(Shapes) + 1 /\ i \in 1 .. Len(packet.entries) + 1
    /\ qs \in 0 .. 255 /\ recordIndex \in 0 .. Len(packet.entries)

\* What was found for a record, and the state of the interface.
StateInv ==
    /\ cls \in {"discovery", "ours", "foreign"} /\ (service = "" \/ IsService(service))
    /\ browse_result \in {0} \cup DOMAIN Browses
    /\ sync.browse \in {0} \cup DOMAIN Browses
    /\ parsed.discovery \in BOOLEAN /\ parsed.probe \in BOOLEAN
    /\ do_not_reply \in BOOLEAN /\ answered \in BOOLEAN /\ cut \in BOOLEAN
    /\ pcb \in {"probing", "running"}

\* A browse is told of its results.
ToldInv ==
    /\ \A b \in DOMAIN Browses : told[b] \subseteq browses[b]
    /\ sync.browse # 0 => sync.changes \subseteq browses[sync.browse]

LEMMA CursorStep ==
  ASSUME CountInv, CountInv', PacketInv, PacketInv', CursorInv, [Next]_vars
  PROVE  CursorInv'
<1>1. CASE mdns_parse_packet
  <2>1. /\ pc = "idle" /\ pc' \in {"idle", "questions"} /\ nth' = nth + 1 /\ nth <= Len(Shapes)
        /\ UNCHANGED <<i, recordIndex>>
    BY <1>1 DEF mdns_parse_packet
  <2>2. i' = 1 /\ recordIndex' = 0 /\ Len(packet'.entries) \in Nat
    BY <2>1 DEF CountInv, Position, PacketInv
  <2>3. qs' \in 0 .. 255
    <3>1. packet'.questions \in Nat
      BY DEF CountInv, Position
    <3>2. UNCHANGED qs \/ qs' = packet'.questions % 256
      BY <1>1 DEF mdns_parse_packet
    <3>3. \A n \in Nat : n % 256 \in 0 .. 255
      OBVIOUS
    <3> QED BY <3>1, <3>2, <3>3 DEF CursorInv
  <2>4. nth' \in 1 .. Len(Shapes) + 1
    BY <2>1, ShapesAssumption DEF CursorInv
  <2> QED BY <2>1, <2>2, <2>3, <2>4 DEF CursorInv
<1>2. CASE MalformedQuestion \/ SkippedQuestion \/ DiscoveryQuestion \/ OwnQuestion \/ QuestionsDone
  <2>1. /\ UNCHANGED <<nth, packet, recordIndex>>
        /\ pc' \in {"questions", "records", "reply", "clear"}
    BY <1>2, Zenon DEF MalformedQuestion, SkippedQuestion, DiscoveryQuestion, OwnQuestion,
       QuestionsDone, Question, KeepForRecords, rx
  <2>2. UNCHANGED qs \/ (qs > 0 /\ qs' = qs - 1)
    BY <1>2, Zenon DEF MalformedQuestion, SkippedQuestion, DiscoveryQuestion, OwnQuestion,
       QuestionsDone, Question
  <2>3. UNCHANGED i \/ (~Ended /\ i' = i + 1)
    BY <1>2, Zenon DEF MalformedQuestion, SkippedQuestion, DiscoveryQuestion, OwnQuestion,
       QuestionsDone, ValidQuestion, NextEntry
  <2>4. qs' \in 0 .. 255
    <3>1. \A n \in 0 .. 255 : n > 0 => n - 1 \in 0 .. 255
      OBVIOUS
    <3>2. qs \in 0 .. 255
      BY DEF CursorInv
    <3> QED BY <2>2, <3>1, <3>2
  <2>5. i' \in 1 .. Len(packet.entries) + 1
    <3>1. Len(packet.entries) \in Nat
      BY DEF PacketInv
    <3> QED BY <2>3, <3>1 DEF CursorInv, Ended
  <2> QED BY <2>1, <2>4, <2>5 DEF CursorInv
<1>3. CASE MalformedRecord \/ SkippedRecord \/ OwnRecord \/ ForeignRecord
  <2>1. /\ pc = "records" /\ ~Ended /\ UNCHANGED <<nth, packet, qs>>
        /\ pc' \in {"records", "dispatch", "clear"}
    BY <1>3, Zenon DEF MalformedRecord, SkippedRecord, OwnRecord, ForeignRecord, Record,
       KeepForQuestions, rx
  <2>2. UNCHANGED recordIndex \/ recordIndex' = recordIndex + 1
    BY <1>3, Zenon DEF MalformedRecord, SkippedRecord, OwnRecord, ForeignRecord
  <2>3. UNCHANGED i \/ i' = i + 1
    BY <1>3, Zenon DEF MalformedRecord, SkippedRecord, OwnRecord, ForeignRecord, NextEntry
  <2>4. i = Asking + 1 + recordIndex /\ Asking \in Nat
    BY <2>1 DEF CountInv, Position, Asking
  <2> QED BY <2>1, <2>2, <2>3, <2>4 DEF CursorInv, Ended, PacketInv
<1>4. CASE PtrRecord \/ SrvRecord \/ TxtRecord \/ AddressRecord \/ OtherRecord
  <2>1. pc = "dispatch" /\ UNCHANGED <<nth, packet, qs, recordIndex>>
    BY <1>4 DEF PtrRecord, SrvRecord, TxtRecord, AddressRecord, OtherRecord, Dispatch, KeepRecord, rx
  <2>2. \/ pc' = "clear" /\ UNCHANGED i
        \/ pc' = "records" /\ i' = i + 1
    <3>1. CASE PtrRecord
      BY <3>1, Zenon DEF PtrRecord, PtrOfOurs, NextRecord, NextEntry
    <3>2. CASE SrvRecord
      BY <3>2, Zenon DEF SrvRecord, NextRecord, NextEntry
    <3>3. CASE TxtRecord \/ OtherRecord
      BY <3>3, Zenon DEF TxtRecord, OtherRecord, NextRecord, NextEntry
    <3>4. CASE AddressRecord
      BY <3>4, Zenon DEF AddressRecord, AddressOfOurs, NextRecord, NextEntry
    <3> QED BY <1>4, <3>1, <3>2, <3>3, <3>4
  <2>3. i <= Len(packet.entries)
    BY <2>1 DEF PacketInv, Records, CountInv, Position
  <2> QED BY <2>1, <2>2, <2>3 DEF CursorInv, PacketInv
<1>5. CASE RecordsDone \/ Reply
  <2>1. UNCHANGED <<nth, packet, qs, recordIndex, i>> /\ pc' \in {"reply", "clear"}
    BY <1>5 DEF RecordsDone, Reply, rx
  <2> QED BY <2>1 DEF CursorInv
<1>6. CASE clear_rx_packet
  <2>1. pc' = "idle" /\ i' = 1 /\ qs' = 0 /\ recordIndex' = 0 /\ UNCHANGED nth
    BY <1>6 DEF clear_rx_packet
  <2> QED BY <2>1 DEF CursorInv, PacketInv
<1>7. CASE ProbingDone \/ Finished \/ UNCHANGED vars
  <2>1. UNCHANGED <<pc, nth, packet, qs, recordIndex, i>>
    BY <1>7 DEF ProbingDone, Finished, vars, rx
  <2> QED BY <2>1 DEF CursorInv
<1> QED BY <1>1, <1>2, <1>3, <1>4, <1>5, <1>6, <1>7 DEF Next, Step

LEMMA StateInit == Init => CursorInv /\ StateInv /\ ToldInv
<1> SUFFICES ASSUME Init PROVE CursorInv /\ StateInv /\ ToldInv
  OBVIOUS
<1>1. /\ pc = "idle" /\ nth = 1 /\ i = 1 /\ qs = 0 /\ recordIndex = 0
      /\ packet = NoPacket /\ Len(Shapes) \in Nat
  BY ShapesAssumption, Zenon DEF Init
<1>2. packet.entries = <<>>
  BY <1>1, NoPacketIs
<1>3. Len(packet.entries) = 0
  BY <1>2
<1>4. CursorInv
  BY <1>1, <1>3 DEF CursorInv
<1>5. /\ cls = "foreign" /\ service = "" /\ browse_result = 0 /\ sync = NoSync
      /\ parsed = NoParsed /\ do_not_reply = FALSE /\ answered = FALSE /\ cut = FALSE
      /\ pcb \in {"probing", "running"}
  BY StartsAssumption, Zenon DEF Init
<1>6. sync.browse = 0 /\ parsed.discovery = FALSE /\ parsed.probe = FALSE
  <2>1. NoSync.browse = 0 /\ NoParsed.discovery = FALSE /\ NoParsed.probe = FALSE
    BY DEF NoSync, NoParsed
  <2> QED BY <1>5, <2>1, Zenon
<1>7. StateInv
  BY <1>5, <1>6, Zenon DEF StateInv
<1>8. ToldInv
  BY <1>6 DEF Init, ToldInv
<1> QED BY <1>4, <1>7, <1>8

LEMMA DispatchState ==
  ASSUME HeapInv, Untold, StateInv,
         PtrRecord \/ SrvRecord \/ TxtRecord \/ AddressRecord \/ OtherRecord
  PROVE  StateInv'
<1>1. UNCHANGED <<cls, answered, cut, browse_result>>
  BY Zenon DEF PtrRecord, SrvRecord, TxtRecord, AddressRecord, OtherRecord, KeepRecord, KeepFound
<1>2. service' = "" \/ IsService(service')
  <2>1. UNCHANGED service \/ \E n : service' = PtrService(n)
    BY Zenon DEF PtrRecord, PtrOfOurs, SrvRecord, TxtRecord, AddressRecord, OtherRecord
  <2>2. ASSUME NEW n PROVE PtrService(n) = "" \/ IsService(PtrService(n))
    BY Zenon DEF PtrService
  <2> QED BY <2>1, <2>2, Zenon DEF StateInv, IsService
<1>3. sync'.browse = sync.browse
  BY SyncedBrowseKept
<1>4. parsed'.discovery = parsed.discovery /\ parsed'.probe = parsed.probe
  <2>1. \/ UNCHANGED parsed
        \/ \E Q : parsed' = [parsed EXCEPT !.questions = Q]
        \/ \E Q, R : parsed' = [parsed EXCEPT !.questions = Q, !.records = R]
    <3>1. CASE PtrRecord
      BY <3>1, Zenon DEF PtrRecord, PtrOfOurs
    <3>2. CASE SrvRecord
      BY <3>2, Zenon DEF SrvRecord, SrvOfOurs, KeepOwn, mdns_remove_parsed_question
    <3>3. CASE TxtRecord
      BY <3>3, Zenon DEF TxtRecord, TxtOfOurs, KeepOwn, mdns_remove_parsed_question
    <3>4. CASE AddressRecord
      BY <3>4, Zenon DEF AddressRecord, AddressOfOurs, KeepOwn, mdns_remove_parsed_question
    <3>5. CASE OtherRecord
      BY <3>5, Zenon DEF OtherRecord
    <3> QED BY <3>1, <3>2, <3>3, <3>4, <3>5
  <2> QED BY <2>1 DEF HeapInv
<1>5. do_not_reply' \in BOOLEAN /\ pcb' \in {pcb, "probing"}
  <2>1. CASE PtrRecord \/ OtherRecord
    BY <2>1, Zenon DEF PtrRecord, OtherRecord, ours, StateInv
  <2>2. CASE SrvRecord
    BY <2>2, Zenon DEF SrvRecord, SrvOfOurs, KeepOwn, ours, mdns_init_pcb_probe, StateInv
  <2>3. CASE TxtRecord
    BY <2>3, Zenon DEF TxtRecord, TxtOfOurs, KeepOwn, ours, mdns_init_pcb_probe, StateInv
  <2>4. CASE AddressRecord
    BY <2>4, Zenon DEF AddressRecord, AddressOfOurs, KeepOwn, ours, mdns_init_pcb_probe, StateInv
  <2> QED BY <2>1, <2>2, <2>3, <2>4
<1> QED BY <1>1, <1>2, <1>3, <1>4, <1>5, Zenon DEF StateInv

LEMMA StateStep == HeapInv /\ Untold /\ StateInv /\ [Next]_vars => StateInv'
<1> SUFFICES ASSUME HeapInv, Untold, StateInv, [Next]_vars PROVE StateInv'
  OBVIOUS
<1> DEFINE kept == <<cls, service, browse_result, sync, do_not_reply, answered, cut, pcb>>
<1>1. CASE \/ mdns_parse_packet \/ MalformedQuestion \/ SkippedQuestion \/ QuestionsDone
           \/ MalformedRecord \/ SkippedRecord \/ RecordsDone \/ UNCHANGED vars
  <2>1. UNCHANGED kept /\ UNCHANGED parsed
    BY <1>1, Zenon DEF mdns_parse_packet, MalformedQuestion, SkippedQuestion, QuestionsDone,
       MalformedRecord, SkippedRecord, RecordsDone, KeepForRecords, KeepForQuestions,
       vars, lists, ours, found
  <2> QED BY <2>1, Zenon DEF StateInv, IsService
<1>2. CASE DiscoveryQuestion \/ OwnQuestion
  <2>1. UNCHANGED kept
    BY <1>2, Zenon DEF DiscoveryQuestion, OwnQuestion, KeepForRecords, lists, ours, found
  <2>2. \/ \E Q : parsed' = [parsed EXCEPT !.discovery = TRUE, !.questions = Q]
        \/ \E x, Q : parsed' = [parsed EXCEPT !.probe = @ \/ x, !.questions = Q]
    <3>1. CASE DiscoveryQuestion
      BY <3>1, Zenon DEF DiscoveryQuestion
    <3>2. CASE OwnQuestion
      BY <3>2, Zenon DEF OwnQuestion
    <3> QED BY <1>2, <3>1, <3>2
  <2>3. parsed'.discovery \in BOOLEAN /\ parsed'.probe \in BOOLEAN
    <3>1. parsed.discovery \in BOOLEAN /\ parsed.probe \in BOOLEAN
      BY Zenon DEF StateInv
    <3> QED BY <2>2, <3>1 DEF HeapInv
  <2> QED BY <2>1, <2>3, Zenon DEF StateInv, IsService
<1>3. CASE OwnRecord
  <2>1. /\ UNCHANGED <<browse_result, sync, do_not_reply, answered, cut, pcb, parsed>>
        /\ cls' \in {"discovery", "ours"} /\ (service' = "" \/ IsService(service'))
    BY <1>3, Zenon DEF OwnRecord, KeepForQuestions, lists, ours, found
  <2> QED BY <2>1, Zenon DEF StateInv
<1>4. CASE ForeignRecord
  <2>1. /\ UNCHANGED <<do_not_reply, answered, cut, pcb, parsed>> /\ cls' = "foreign" /\ service' = ""
        /\ browse_result' = mdns_browse_find(Entry.name, Entry.type)
        /\ UNCHANGED sync \/ sync' = [NoSync EXCEPT !.browse = browse_result']
    BY <1>4, Zenon DEF ForeignRecord, KeepForQuestions, lists, ours
  <2>2. browse_result' \in {0} \cup DOMAIN Browses
    BY <2>1, BrowseIs, Zenon
  <2>3. sync'.browse \in {sync.browse, browse_result'}
    <3>1. [NoSync EXCEPT !.browse = browse_result'].browse = browse_result'
      BY DEF NoSync
    <3> QED BY <2>1, <3>1, Zenon
  <2> QED BY <2>1, <2>2, <2>3, Zenon DEF StateInv
<1>5. CASE Reply
  <2>1. /\ UNCHANGED <<cls, service, browse_result, do_not_reply, cut, pcb, parsed>>
        /\ answered' \in BOOLEAN
        /\ UNCHANGED sync \/ sync' = NoSync
    BY <1>5, Zenon DEF Reply, CreateAnswer, SyncBrowse, ours
  <2>2. NoSync.browse = 0
    BY DEF NoSync
  <2> QED BY <2>1, <2>2, Zenon DEF StateInv, IsService
<1>6. CASE clear_rx_packet
  <2>1. /\ cls' = "foreign" /\ service' = "" /\ browse_result' = 0 /\ sync' = NoSync
        /\ parsed' = NoParsed /\ do_not_reply' = FALSE /\ answered' = FALSE
        /\ cut' \in BOOLEAN /\ UNCHANGED pcb
    BY <1>6, Zenon DEF clear_rx_packet, ours
  <2>2. NoSync.browse = 0 /\ NoParsed.discovery = FALSE /\ NoParsed.probe = FALSE
    BY DEF NoSync, NoParsed
  <2> QED BY <2>1, <2>2, Zenon DEF StateInv
<1>7. CASE ProbingDone
  <2>1. /\ UNCHANGED <<cls, service, browse_result, sync, do_not_reply, answered, cut, parsed>>
        /\ pcb' = "running"
    BY <1>7, Zenon DEF ProbingDone, lists, found
  <2> QED BY <2>1, Zenon DEF StateInv, IsService
<1> QED BY <1>1, <1>2, <1>3, <1>4, <1>5, <1>6, <1>7, DispatchState DEF Next, Step, Finished

LEMMA ToldStep == Untold /\ StateInv /\ ToldInv /\ [Next]_vars => ToldInv'
<1> SUFFICES ASSUME Untold, StateInv, ToldInv, [Next]_vars PROVE ToldInv'
  OBVIOUS
<1>1. CASE UNCHANGED <<browses, sync, told>>
  BY <1>1 DEF ToldInv
<1>2. CASE UNCHANGED told /\ \E facts : mdns_browse_result_add(facts)
  <2>1. PICK facts : mdns_browse_result_add(facts)
    BY <1>2
  <2>2. CASE UNCHANGED <<browses, sync>>
    BY <1>1, <1>2, <2>2
  <2>3. CASE /\ browse_result = sync.browse /\ browse_result # 0
             /\ browses' = [browses EXCEPT ![browse_result] = @ \cup facts]
             /\ sync' = [sync EXCEPT !.changes = @ \cup (facts \ browses[browse_result])]
    <3>1. /\ sync'.browse = sync.browse
          /\ sync'.changes = sync.changes \cup (facts \ browses[browse_result])
      BY <2>3 DEF Untold
    <3>2. \A b \in DOMAIN Browses :
              browses'[b] = IF b = browse_result THEN browses[b] \cup facts ELSE browses[b]
      BY <2>3 DEF Untold
    <3>3. browse_result \in DOMAIN Browses
      BY <2>3, Zenon DEF StateInv
    <3> QED BY <1>2, <2>3, <3>1, <3>2, <3>3 DEF ToldInv
  <2> QED BY <2>1, <2>2, <2>3 DEF mdns_browse_result_add
<1>3. CASE ForeignRecord
  <2>1. UNCHANGED <<browses, told>>
    BY <1>3 DEF ForeignRecord, lists
  <2>2. CASE UNCHANGED sync
    BY <1>1, <2>1, <2>2
  <2>3. CASE sync' = [NoSync EXCEPT !.browse = browse_result']
    <3>1. sync'.changes = {}
      BY <2>3 DEF NoSync
    <3> QED BY <2>1, <3>1 DEF ToldInv
  <2> QED BY <1>3, <2>2, <2>3 DEF ForeignRecord
<1>4. CASE Reply
  <2>1. UNCHANGED browses
    BY <1>4 DEF Reply
  <2>2. CASE UNCHANGED <<told, sync>>
    BY <1>1, <2>1, <2>2
  <2>3. CASE /\ sync.browse # 0 /\ sync' = NoSync
             /\ told' = [told EXCEPT ![sync.browse] = @ \cup sync.changes]
    <3>1. \A b \in DOMAIN Browses :
              told'[b] = IF b = sync.browse THEN told[b] \cup sync.changes ELSE told[b]
      BY <2>3 DEF Untold
    <3>2. sync'.browse = 0
      BY <2>3 DEF NoSync
    <3> QED BY <2>1, <2>3, <3>1, <3>2 DEF ToldInv
  <2> QED BY <1>4, <2>2, <2>3 DEF Reply, SyncBrowse
<1>5. CASE clear_rx_packet
  <2>1. UNCHANGED <<browses, told>> /\ sync' = NoSync
    BY <1>5 DEF clear_rx_packet
  <2>2. sync'.browse = 0
    BY <2>1 DEF NoSync
  <2> QED BY <2>1, <2>2 DEF ToldInv
<1>6. CASE PtrRecord \/ SrvRecord \/ TxtRecord \/ AddressRecord \/ OtherRecord
  <2>1. UNCHANGED told
    BY <1>6 DEF PtrRecord, SrvRecord, TxtRecord, AddressRecord, OtherRecord, KeepRecord
  <2>2. UNCHANGED <<browses, sync>> \/ \E facts : mdns_browse_result_add(facts)
    BY <1>6 DEF PtrRecord, SrvRecord, TxtRecord, AddressRecord, OtherRecord
  <2> QED BY <1>1, <1>2, <2>1, <2>2
<1>7. CASE \/ mdns_parse_packet \/ MalformedQuestion \/ SkippedQuestion \/ DiscoveryQuestion
           \/ OwnQuestion \/ QuestionsDone \/ MalformedRecord \/ SkippedRecord \/ OwnRecord
           \/ RecordsDone \/ ProbingDone \/ UNCHANGED vars
  <2>1. UNCHANGED <<browses, sync, told>>
    BY <1>7, Zenon DEF mdns_parse_packet, MalformedQuestion, SkippedQuestion, DiscoveryQuestion,
       OwnQuestion, QuestionsDone, MalformedRecord, SkippedRecord, OwnRecord, RecordsDone,
       ProbingDone, KeepForRecords, vars, lists, found
  <2> QED BY <1>1, <2>1
<1> QED BY <1>3, <1>4, <1>5, <1>6, <1>7 DEF Next, Step, Finished

Typed == CursorInv /\ StateInv /\ ToldInv

LEMMA TypesAreKept == Spec => [](HeapInv /\ Typed)
<1>1. Init => HeapInv /\ Untold /\ Typed
  BY HeapInit, UntoldInit, StateInit DEF Typed
<1>2. CountInv /\ CountInv' /\ PacketInv /\ PacketInv' /\ Untold /\ HeapInv /\ Typed /\ [Next]_vars
         => Untold' /\ HeapInv' /\ Typed'
  BY UntoldStep, HeapStep, CursorStep, StateStep, ToldStep DEF Typed
<1> QED BY <1>1, <1>2, Counted, PacketsAreShaped, PTL DEF Spec

\* All of it is freed or handed over, whatever the packet says and whichever of the
\* allocations fails: clear_rx_packet (lines 636-674), the way out of each error,
\* finds every block that is not, and no block twice.
THEOREM EveryBlockIsFreed == Spec => []HeapBalanced
<1>1. SearchInv /\ HeapInv /\ Typed => HeapBalanced
  <2> SUFFICES ASSUME SearchInv, HeapInv, CursorInv, StateInv, ToldInv PROVE HeapBalanced
    BY DEF Typed
  <2>1. heap \in [Blocks -> Nat]
    <3>1. heap = [b \in Blocks |-> heap[b]]
      BY Zenon DEF HeapInv
    <3> QED BY <3>1, HeapIsCounted
  <2>2. pc = "dispatch" => search_result \in 0 .. Len(searches)
    BY DEF SearchInv, Listed, Found
  <2>3. pc = "idle" => \A b \in Blocks : heap[b] = 0
    <3>1. SUFFICES ASSUME pc = "idle" PROVE \A b \in Blocks : heap[b] = 0
      OBVIOUS
    <3>2. parsed = NoParsed /\ bufs = NoBufs /\ sync.browse = 0
      BY <3>1, Zenon DEF HeapInv
    <3>3. parsed.questions = <<>> /\ parsed.records = <<>>
      BY <3>2 DEF NoParsed
    <3>4. bufs.instance = NULL /\ bufs.service = NULL /\ bufs.proto = NULL
      BY <3>2 DEF NoBufs
    <3>5. heap["question"] = 0 /\ heap["record"] = 0 /\ heap["string"] = 0
      <4>1. Holds(heap, <<>>, <<>>)
        BY <3>3 DEF HeapInv
      <4> QED BY <4>1, EmptyHolds
    <3>6. /\ heap["parsed"] = 0 /\ heap["instance"] = 0 /\ heap["service"] = 0
          /\ heap["proto"] = 0 /\ heap["sync"] = 0
      BY <3>1, <3>2, <3>4 DEF HeapInv, Present
    <3> QED BY <3>5, <3>6 DEF Blocks
  <2> QED BY <2>1, <2>2, <2>3, Zenon DEF CursorInv, StateInv, ToldInv, TypeOK, HeapBalanced
<1> QED BY <1>1, TypesAreKept, SearchesAreKept, PTL

-----------------------------------------------------------------------------
(* Known answers. *)

\* Below the i-th.
Below(T, k) == {j \in T : j < k}

\* The k-th is counted when the reader has passed it.
LEMMA BelowNext ==
  ASSUME NEW T, T \in SUBSET Nat, NEW k \in Nat
  PROVE  /\ Cardinality(Below(T, k)) \in Nat
         /\ Cardinality(Below(T, k + 1)) = Cardinality(Below(T, k)) + Present(k \in T)
<1> DEFINE B == Below(T, k)
<1>0. \A j \in T : j \in Nat
  OBVIOUS
<1>1. IsFiniteSet(B) /\ Cardinality(B) \in Nat /\ k \notin B
  <2>0. \A j \in T : j < k => j \in 0 .. k /\ j # k
    BY <1>0
  <2>1. B \subseteq 0 .. k /\ k \notin B
    BY <2>0 DEF Below
  <2>2. 0 \in Int /\ k \in Int
    OBVIOUS
  <2>3. IsFiniteSet(0 .. k)
    BY <2>2, FS_Interval, Zenon
  <2> QED BY <2>1, <2>3, FS_Subset, FS_CardinalityType
<1>2. CASE k \in T
  <2>1. \A j \in T : j < k + 1 <=> j < k \/ j = k
    BY <1>0
  <2>4. Below(T, k + 1) = B \cup {k}
    BY <1>2, <2>1 DEF Below
  <2> HIDE DEF B
  <2>2. Cardinality(B \cup {k}) = Cardinality(B) + 1
    BY <1>1, FS_AddElement
  <2>3. Cardinality(Below(T, k + 1)) = Cardinality(B) + 1
    BY <2>2, <2>4
  <2> QED BY <1>1, <1>2, <2>3 DEF Present, B
<1>3. CASE k \notin T
  <2>1. \A j \in T : j < k + 1 <=> j < k
    BY <1>0, <1>3
  <2>2. Below(T, k + 1) = B
    BY <2>1 DEF Below
  <2> QED BY <1>1, <1>3, <2>2 DEF Present
<1> QED BY <1>2, <1>3

LEMMA BelowFirst ==
  ASSUME NEW T, \A j \in T : j \in Nat \ {0}
  PROVE  Below(T, 1) = {}
<1>1. \A j \in T : ~(j < 1)
  OBVIOUS
<1> QED BY <1>1 DEF Below

\* The questions of a list that an answer of a type is for; h is the instance that
\* has the service s.
MatchesAs(q, type, s, h) ==
    /\ q.type = type
    /\ type \notin Addresses => s # "" /\ q.name.service = s
    /\ type \in {"SRV", "TXT"} => q.name.host = h
Marks(questions, type, s, h) ==
    [k \in 1 .. Len(questions) |-> Present(MatchesAs(questions[k], type, s, h))]
Hits(questions, type, s, h) == Cardinality(Pointers(Marks(questions, type, s, h)))

LEMMA MatchesAre ==
  ASSUME NEW q, NEW type, NEW s
  PROVE  QuestionMatches(q, type, s) <=> MatchesAs(q, type, s, InstanceOf(s))
BY Zenon DEF QuestionMatches, MatchesAs

LEMMA MarksAre ==
  ASSUME NEW Q, IsList(Q), NEW type, NEW s, NEW h
  PROVE  /\ Marks(Q, type, s, h) \in [1 .. Len(Q) -> 0 .. 4]
         /\ \A k \in 1 .. Len(Q) :
               Marks(Q, type, s, h)[k] = Present(MatchesAs(Q[k], type, s, h))
         /\ Len(Q) \in Nat /\ Hits(Q, type, s, h) \in Nat
<1>1. \A x : Present(x) \in 0 .. 4
  BY DEF Present
<1>2. /\ Marks(Q, type, s, h) \in [1 .. Len(Q) -> 0 .. 4]
      /\ \A k \in 1 .. Len(Q) :
            Marks(Q, type, s, h)[k] = Present(MatchesAs(Q[k], type, s, h))
  BY <1>1 DEF Marks
<1>3. DOMAIN Marks(Q, type, s, h) = 1 .. Len(Q) /\ Len(Q) \in Nat
  BY DEF Marks, IsList
<1> QED BY <1>2, <1>3, PointersFinite DEF Hits

\* They are as many as the property counts.
LEMMA HitsAre ==
  ASSUME NEW Q, IsList(Q), NEW type, NEW s, NEW h
  PROVE  Hits(Q, type, s, h) = Cardinality({k \in 1 .. Len(Q) : MatchesAs(Q[k], type, s, h)})
<1> DEFINE S == {k \in 1 .. Len(Q) : MatchesAs(Q[k], type, s, h)}
           M == Marks(Q, type, s, h)
           f == [k \in S |-> <<k, 1>>]
<1>1. /\ DOMAIN M = 1 .. Len(Q) /\ Len(Q) \in Nat
      /\ \A k \in 1 .. Len(Q) : M[k] = IF k \in S THEN 1 ELSE 0
  BY MarksAre DEF Present, Marks
<1>2. IsFiniteSet(S)
  <2>1. S \subseteq 1 .. Len(Q)
    OBVIOUS
  <2> HIDE DEF S
  <2> QED BY <1>1, <2>1, UpTo, FS_Subset
<1>3. S \subseteq 1 .. Len(Q)
  OBVIOUS
<1> HIDE DEF M, S
<1>4. f \in [S -> Pointers(M)]
  BY <1>1, <1>3 DEF Pointers
<1>5. \A a, b \in S : f[a] = f[b] => a = b
  OBVIOUS
<1>6. \A p \in Pointers(M) : \E k \in S : f[k] = p
  <2> SUFFICES ASSUME NEW p \in Pointers(M) PROVE \E k \in S : f[k] = p
    OBVIOUS
  <2>1. p = <<p[1], p[2]>> /\ p[1] \in 1 .. Len(Q) /\ p[2] \in 1 .. 4 /\ p[2] <= M[p[1]]
    BY <1>1 DEF Pointers
  <2>2. p[1] \in S /\ p[2] = 1
    BY <1>1, <2>1
  <2> QED BY <2>1, <2>2
<1> HIDE DEF f
<1>7. Renumbers(f, S, Pointers(M))
  BY <1>4, <1>5, <1>6, Zenon DEF Renumbers
<1>8. Cardinality(Pointers(M)) = Cardinality(S)
  BY <1>2, <1>7, SameSize, Zenon
<1> QED BY <1>8, Zenon DEF Hits, M, S

\* A question before, or taken out of, a list.
Follows(a, b, c) == IsList(a) /\ IsList(b) /\ c = a \o b

LEMMA HitsTogether ==
  ASSUME NEW a, NEW b, NEW c, Follows(a, b, c), NEW type, NEW s, NEW h
  PROVE  IsList(c) /\ Hits(c, type, s, h) = Hits(a, type, s, h) + Hits(b, type, s, h)
<1> DEFINE A   == Marks(a, type, s, h)
           B   == Marks(b, type, s, h)
           All == Marks(c, type, s, h)
<1>1. /\ IsList(a) /\ IsList(b) /\ IsList(c) /\ Len(c) = Len(a) + Len(b)
      /\ \A k \in 1 .. Len(a) + Len(b) : c[k] = IF k <= Len(a) THEN a[k] ELSE b[k - Len(a)]
  BY Together DEF Follows
<1>2. /\ A \in [1 .. Len(a) -> 0 .. 4] /\ B \in [1 .. Len(b) -> 0 .. 4]
      /\ Len(a) \in Nat /\ Len(b) \in Nat
      /\ All \in [1 .. Len(c) -> 0 .. 4]
      /\ \A k \in 1 .. Len(a) : A[k] = Present(MatchesAs(a[k], type, s, h))
      /\ \A k \in 1 .. Len(b) : B[k] = Present(MatchesAs(b[k], type, s, h))
      /\ \A k \in 1 .. Len(c) : All[k] = Present(MatchesAs(c[k], type, s, h))
  <2>1. IsList(a) /\ IsList(b) /\ IsList(c)
    BY <1>1
  <2>2. /\ A \in [1 .. Len(a) -> 0 .. 4] /\ Len(a) \in Nat
        /\ \A k \in 1 .. Len(a) : A[k] = Present(MatchesAs(a[k], type, s, h))
    BY <2>1, MarksAre
  <2>3. /\ B \in [1 .. Len(b) -> 0 .. 4] /\ Len(b) \in Nat
        /\ \A k \in 1 .. Len(b) : B[k] = Present(MatchesAs(b[k], type, s, h))
    BY <2>1, MarksAre
  <2>4. /\ All \in [1 .. Len(c) -> 0 .. 4]
        /\ \A k \in 1 .. Len(c) : All[k] = Present(MatchesAs(c[k], type, s, h))
    BY <2>1, MarksAre
  <2> HIDE DEF A, B, All
  <2> QED BY <2>2, <2>3, <2>4
<1> HIDE DEF A, B, All
<1>3. \A k \in 1 .. Len(a) + Len(b) : All[k] = IF k <= Len(a) THEN A[k] ELSE B[k - Len(a)]
  <2> SUFFICES ASSUME NEW k \in 1 .. Len(a) + Len(b)
               PROVE  All[k] = IF k <= Len(a) THEN A[k] ELSE B[k - Len(a)]
    OBVIOUS
  <2>1. CASE k <= Len(a)
    BY <1>1, <1>2, <2>1
  <2>2. CASE ~(k <= Len(a))
    <3>1. k - Len(a) \in 1 .. Len(b)
      BY <1>2, <2>2
    <3> QED BY <1>1, <1>2, <2>2, <3>1
  <2> QED BY <2>1, <2>2
<1>4. Joined(Len(a), Len(b), A, B, All)
  BY <1>1, <1>2, <1>3 DEF Joined
<1>5. Cardinality(Pointers(All)) = Cardinality(Pointers(A)) + Cardinality(Pointers(B))
  BY <1>4, TogetherCount
<1> QED BY <1>1, <1>5, Zenon DEF Hits, A, B, All

LEMMA OneHit ==
  ASSUME NEW q, NEW type, NEW s, NEW h
  PROVE  IsList(<<q>>) /\ Hits(<<q>>, type, s, h) = Present(MatchesAs(q, type, s, h))
<1>1. Len(<<q>>) = 1 /\ <<q>> = [k \in 1 .. 1 |-> <<q>>[k]] /\ <<q>>[1] = q
  OBVIOUS
<1>2. IsList(<<q>>)
  BY <1>1 DEF IsList
<1> DEFINE M == Marks(<<q>>, type, s, h)
           c == Present(MatchesAs(q, type, s, h))
<1>3. DOMAIN M = 1 .. 1 /\ M[1] = c
  BY <1>1 DEF Marks
<1>4. c \in 0 .. 4
  BY DEF Present
<1> HIDE DEF M, c
<1>5. Cardinality(Pointers(M)) = c
  BY <1>3, <1>4, OnePointers
<1> QED BY <1>2, <1>5, Zenon DEF Hits, M, c

LEMMA NoHits ==
  ASSUME NEW type, NEW s, NEW h
  PROVE  IsList(<<>>) /\ Hits(<<>>, type, s, h) = 0
<1>1. Len(<<>>) = 0 /\ <<>> = [k \in 1 .. 0 |-> <<>>[k]]
  OBVIOUS
<1>2. IsList(<<>>)
  BY <1>1 DEF IsList
<1>3. {k \in 1 .. Len(<<>>) : MatchesAs(<<>>[k], type, s, h)} = {}
  BY <1>1
<1>4. Hits(<<>>, type, s, h) = Cardinality({k \in 1 .. Len(<<>>) : MatchesAs(<<>>[k], type, s, h)})
  BY <1>2, HitsAre
<1> QED BY <1>2, <1>3, <1>4, FS_EmptySet

\* One that is taken out is one less.
LEMMA HitTaken ==
  ASSUME NEW Q, IsList(Q), NEW k \in 1 .. Len(Q), NEW type, NEW s, NEW h
  PROVE  /\ IsList(RemoveAt(Q, k))
         /\ Hits(Q, type, s, h)
              = Present(MatchesAs(Q[k], type, s, h)) + Hits(RemoveAt(Q, k), type, s, h)
<1> DEFINE R == RemoveAt(Q, k)
           A == Marks(Q, type, s, h)
           B == Marks(R, type, s, h)
<1>1. /\ IsList(R) /\ Len(R) = Len(Q) - 1 /\ Len(Q) \in Nat
      /\ \A j \in 1 .. (Len(Q) - 1) : R[j] = IF j < k THEN Q[j] ELSE Q[j + 1]
  <2> DEFINE S == {Q[j] : j \in 1 .. Len(Q)}
  <2>1. Q \in Seq(S)
    BY ListIs
  <2> HIDE DEF S
  <2>2. /\ RemoveAt(Q, k) \in Seq(S) /\ Len(RemoveAt(Q, k)) = Len(Q) - 1
        /\ \A j \in 1 .. (Len(Q) - 1) : RemoveAt(Q, k)[j] = IF j < k THEN Q[j] ELSE Q[j + 1]
    BY <2>1, RemovedAt
  <2>3. Len(Q) \in Nat
    BY DEF IsList
  <2> QED BY <2>2, <2>3, SeqIsList
<1> HIDE DEF R
<1>2. /\ A \in [1 .. Len(Q) -> 0 .. 4] /\ B \in [1 .. Len(R) -> 0 .. 4]
      /\ \A j \in 1 .. Len(Q) : A[j] = Present(MatchesAs(Q[j], type, s, h))
      /\ \A j \in 1 .. Len(R) : B[j] = Present(MatchesAs(R[j], type, s, h))
  BY <1>1, MarksAre
<1> HIDE DEF A, B
<1>3. \A j \in 1 .. (Len(Q) - 1) : j \in 1 .. Len(Q) /\ j + 1 \in 1 .. Len(Q)
  BY <1>1
<1>4. \A j \in 1 .. (Len(Q) - 1) : B[j] = IF j < k THEN A[j] ELSE A[j + 1]
  BY <1>1, <1>2, <1>3
<1>5. Apart(k, Len(Q), A, B)
  BY <1>1, <1>2, <1>4 DEF Apart
<1>6. Cardinality(Pointers(A)) = A[k] + Cardinality(Pointers(B))
  BY <1>5, ApartFrom
<1> QED BY <1>1, <1>2, <1>6, Zenon DEF Hits, A, B, R

\* What answers are for: a service of ours, or the host, which has none.
Kinds == {"PTR", "SDPTR", "SRV", "TXT"} \cup Addresses
ServicesOf(type) == IF type \in Addresses THEN {""} ELSE {Services[k] : k \in DOMAIN Services}
Fits(type, s)    == type \in Addresses => s = ""
Less(n)          == IF n = 0 THEN 0 ELSE n - 1

\* A question is for one answer only.
LEMMA MatchesOnce ==
  ASSUME NEW q, NEW t, NEW s, NEW h, Fits(t, s), MatchesAs(q, t, s, h),
         NEW t0, NEW s0 \in ServicesOf(t0), NEW h0, MatchesAs(q, t0, s0, h0)
  PROVE  t = t0 /\ s = s0
<1>1. t = t0
  BY Zenon DEF MatchesAs
<1>2. CASE t \in Addresses
  BY <1>1, <1>2, Zenon DEF Fits, ServicesOf
<1>3. CASE t \notin Addresses
  BY <1>1, <1>3, Zenon DEF MatchesAs
<1> QED BY <1>1, <1>2, <1>3

\* The first match is one, and there is none if it is not found.
LEMMA FirstMatchFinds ==
  ASSUME IsList(parsed.questions), NEW t, NEW s, NEW k, k = FirstMatch(t, s)
  PROVE  \/ /\ k = 0
            /\ \A j \in 1 .. Len(parsed.questions) : ~QuestionMatches(parsed.questions[j], t, s)
         \/ k \in 1 .. Len(parsed.questions) /\ QuestionMatches(parsed.questions[k], t, s)
<1> DEFINE I == {j \in 1 .. Len(parsed.questions) : QuestionMatches(parsed.questions[j], t, s)}
<1>1. k = IF I # {} THEN CHOOSE x \in I : \A y \in I : x <= y ELSE 0
  BY DEF FirstMatch, SelectInSeq, Min
<1>2. I \in SUBSET Nat
  BY DEF IsList
<1>3. I # {} => (CHOOSE x \in I : \A y \in I : x <= y) \in I
  <2> HIDE DEF I
  <2> QED BY <1>2, Least
<1> QED BY <1>1, <1>3

\* An answer takes one of its own questions from the list, if there is one.
LEMMA HitsLess ==
  ASSUME IsList(parsed.questions), NEW t, NEW s, Fits(t, s), NEW t0, NEW s0 \in ServicesOf(t0)
  PROVE  /\ IsList(Without(t, s))
         /\ Hits(Without(t, s), t0, s0, InstanceOf(s0))
              = IF t = t0 /\ s = s0 THEN Less(Hits(parsed.questions, t0, s0, InstanceOf(s0)))
                ELSE Hits(parsed.questions, t0, s0, InstanceOf(s0))
<1> DEFINE Q == parsed.questions
           k == FirstMatch(t, s)
           H(q) == Hits(q, t0, s0, InstanceOf(s0))
<1>1. Without(t, s) = IF k = 0 THEN Q ELSE RemoveAt(Q, k)
  BY DEF Without
<1>2. \/ k = 0 /\ \A j \in 1 .. Len(Q) : ~QuestionMatches(Q[j], t, s)
      \/ k \in 1 .. Len(Q) /\ QuestionMatches(Q[k], t, s) /\ k # 0
  <2>1. \A n \in 1 .. Len(Q) : n # 0
    BY DEF IsList
  <2> QED BY <2>1, FirstMatchFinds, Zenon
<1> HIDE DEF k, Q
<1>3. IsList(Q)
  BY DEF Q
<1>4. CASE k = 0 /\ \A j \in 1 .. Len(Q) : ~QuestionMatches(Q[j], t, s)
  <2>1. Without(t, s) = Q
    BY <1>1, <1>4
  <2>2. ASSUME t = t0, s = s0 PROVE H(Q) = 0
    <3>1. {j \in 1 .. Len(Q) : MatchesAs(Q[j], t0, s0, InstanceOf(s0))} = {}
      BY <1>4, <2>2, MatchesAre
    <3>2. H(Q) = Cardinality({j \in 1 .. Len(Q) : MatchesAs(Q[j], t0, s0, InstanceOf(s0))})
      BY <1>3, HitsAre
    <3> QED BY <3>1, <3>2, FS_EmptySet
  <2> HIDE DEF H
  <2>3. H(Without(t, s)) = IF t = t0 /\ s = s0 THEN Less(H(Q)) ELSE H(Q)
    BY <2>1, <2>2 DEF Less
  <2> QED BY <1>3, <2>1, <2>3, Zenon DEF H, Q
<1>5. CASE k \in 1 .. Len(Q) /\ QuestionMatches(Q[k], t, s) /\ k # 0
  <2> DEFINE R == RemoveAt(Q, k)
             c == Present(MatchesAs(Q[k], t0, s0, InstanceOf(s0)))
  <2>1. Without(t, s) = R
    BY <1>1, <1>5
  <2>2. IsList(R) /\ H(Q) = c + H(R)
    BY <1>3, <1>5, HitTaken
  <2>3. H(R) \in Nat
    BY <2>2, MarksAre
  <2>4. c = IF t = t0 /\ s = s0 THEN 1 ELSE 0
    <3>1. MatchesAs(Q[k], t, s, InstanceOf(s))
      BY <1>5, MatchesAre
    <3>2. MatchesAs(Q[k], t0, s0, InstanceOf(s0)) <=> t = t0 /\ s = s0
      BY <3>1, MatchesOnce, Zenon
    <3> QED BY <3>2 DEF Present
  <2> HIDE DEF H, c, R
  <2>5. H(R) = IF t = t0 /\ s = s0 THEN Less(H(Q)) ELSE H(Q)
    BY <2>2, <2>3, <2>4 DEF Less
  <2> QED BY <2>1, <2>2, <2>5, Zenon DEF H, Q
<1> QED BY <1>2, <1>4, <1>5

\* The k-th entry asks for it, or says it, in the words of the property.
AsksFor(k, type, s) ==
    LET e == packet.entries[k]
    IN  /\ e.class = 1 /\ ~e.name.invalid
        /\ IF mdns_name_is_discovery(e.name, e.type) THEN type = "SDPTR" /\ IsService(s)
           ELSE mdns_name_is_ours(e.name) /\ QuestionMatches(e, type, s)
Says(k, type, s) ==
    LET e == packet.entries[k]
    IN  IF type \in {"PTR", "SDPTR"}
        THEN /\ e.type = "PTR" /\ e.form # "baddata"
             /\ IF type = "PTR" THEN Own(e) ELSE Discovers(e)
             /\ ~e.target.sub /\ mdns_name_is_ours(e.target) /\ e.target.service = s
        ELSE /\ e.type = type /\ Own(e) /\ (type = "SRV" => e.form = "ok")
             /\ type \in Addresses \/ e.name.service = s
AsksIn(type, s) == {k \in Questions : AsksFor(k, type, s)}
SaysIn(type, s) == {k \in Records : Says(k, type, s)}

Left(asked, said) == LET n == asked - said IN IF n < 0 THEN 0 ELSE n
LeftOver(type, s) ==
    Hits(parsed.questions, type, s, InstanceOf(s))
      = Left(Cardinality(Below(AsksIn(type, s), i)), Cardinality(Below(SaysIn(type, s), i)))
Plain        == ~Response /\ ~parsed.probe
ServiceOf(e) == IF IsService(e.name.service) THEN e.name.service ELSE ""

\* The list has the questions before the reader that no record before it answers.
KnownInv ==
    /\ pc = "idle" \/ ~Response => search_result = 0
    /\ pc = "dispatch" => /\ cls = "discovery" <=> Discovers(Entry)
                          /\ cls = "ours" => service = ServiceOf(Entry)
                          /\ ~Response => cls # "foreign"
    /\ pc \in {"questions", "records", "dispatch"} /\ Plain =>
           \A type \in Kinds : \A s \in ServicesOf(type) : LeftOver(type, s)
    /\ pc = "reply" /\ Plain =>
           \A type \in Kinds : \A s \in ServicesOf(type) :
               Hits(parsed.questions, type, s, InstanceOf(s))
                 = Left(Cardinality(AsksIn(type, s)), Cardinality(SaysIn(type, s)))

NamesSame == UNCHANGED <<hostname, default_instance, instance>>

LEMMA NamesStay ==
  ASSUME NamesSame
  PROVE  /\ \A s : InstanceOf(s)' = InstanceOf(s)
         /\ \A n : mdns_name_is_ours(n)' <=> mdns_name_is_ours(n)
  BY Zenon DEF NamesSame, InstanceOf, mdns_name_is_ours

LEMMA AsksStay ==
  ASSUME NamesSame, UNCHANGED packet, NEW type, NEW s
  PROVE  AsksIn(type, s)' = AsksIn(type, s)
<1>1. \A q : QuestionMatches(q, type, s)' <=> QuestionMatches(q, type, s)
  BY NamesStay, Zenon DEF QuestionMatches
<1>2. ASSUME NEW k PROVE AsksFor(k, type, s)' <=> AsksFor(k, type, s)
  BY <1>1, NamesStay, Zenon DEF AsksFor
<1> QED BY <1>2 DEF AsksIn, Questions

LEMMA SaysStay ==
  ASSUME NamesSame, UNCHANGED packet, parsed'.discovery = parsed.discovery, NEW type, NEW s
  PROVE  SaysIn(type, s)' = SaysIn(type, s)
<1>1. \A e : (Own(e)' <=> Own(e)) /\ (Discovers(e)' <=> Discovers(e))
  BY NamesStay, Zenon DEF Own, Discovers
<1>2. ASSUME NEW k PROVE Says(k, type, s)' <=> Says(k, type, s)
  BY <1>1, NamesStay, Zenon DEF Says
<1> QED BY <1>2, RecordsKept DEF SaysIn

\* Questions are before records.
LEMMA Places ==
  ASSUME CountInv, PacketInv, NEW type, NEW s
  PROVE  /\ \A k \in AsksIn(type, s) : k \in Nat \ {0} /\ k <= Asking
         /\ \A k \in SaysIn(type, s) : k \in Nat \ {0} /\ k > Asking /\ k <= Len(packet.entries)
         /\ Asking \in Nat /\ Len(packet.entries) \in Nat /\ i \in Nat
<1>1. Asking \in Nat /\ Len(packet.entries) \in Nat /\ i \in Nat
  BY DEF CountInv, Position, PacketInv, Asking
<1>2. \A k \in Questions : k \in Nat \ {0} /\ k <= Asking
  BY <1>1 DEF Questions, Asking
<1>3. \A k \in Records : k \in Nat \ {0} /\ k > Asking /\ k <= Len(packet.entries)
  BY <1>1 DEF Records, Asking
<1> QED BY <1>1, <1>2, <1>3 DEF AsksIn, SaysIn

LEMMA CountsOn ==
  ASSUME CountInv, PacketInv, NEW type, NEW s
  PROVE  /\ Cardinality(Below(AsksIn(type, s), i)) \in Nat
         /\ Cardinality(Below(SaysIn(type, s), i)) \in Nat
         /\ Cardinality(Below(AsksIn(type, s), i + 1))
              = Cardinality(Below(AsksIn(type, s), i)) + Present(i \in AsksIn(type, s))
         /\ Cardinality(Below(SaysIn(type, s), i + 1))
              = Cardinality(Below(SaysIn(type, s), i)) + Present(i \in SaysIn(type, s))
<1>1. i \in Nat /\ AsksIn(type, s) \in SUBSET Nat /\ SaysIn(type, s) \in SUBSET Nat
  BY Places
<1> QED BY <1>1, BelowNext

\* An answer answers one question, as long as there is one.
LEMMA Lefts ==
  ASSUME NEW a \in Nat, NEW b \in Nat
  PROVE  /\ Left(a, b) \in Nat /\ Left(a, 0) = a
         /\ Left(a, b + 1) = Less(Left(a, b))
  BY DEF Left, Less

\* Behind the questions, one that answers takes a question away.
LEMMA RecordOn ==
  ASSUME CountInv, PacketInv, pc \in {"records", "dispatch"}, i \in Records, i' = i + 1,
         UNCHANGED packet, NamesSame, parsed'.discovery = parsed.discovery,
         NEW type, NEW s, LeftOver(type, s),
         Hits(parsed'.questions, type, s, InstanceOf(s))
           = IF Says(i, type, s) THEN Less(Hits(parsed.questions, type, s, InstanceOf(s)))
             ELSE Hits(parsed.questions, type, s, InstanceOf(s))
  PROVE  LeftOver(type, s)'
<1> DEFINE a == Cardinality(Below(AsksIn(type, s), i))
           b == Cardinality(Below(SaysIn(type, s), i))
           a1 == Cardinality(Below(AsksIn(type, s), i + 1))
           b1 == Cardinality(Below(SaysIn(type, s), i + 1))
           h == Hits(parsed.questions, type, s, InstanceOf(s))
           h1 == Hits(parsed'.questions, type, s, InstanceOf(s))
<1>1. i \notin AsksIn(type, s)
  <2>1. ~(i <= Asking)
    BY Places DEF Records, Asking
  <2> QED BY <2>1, Places
<1>2. i \in SaysIn(type, s) <=> Says(i, type, s)
  BY DEF SaysIn
<1>3. a \in Nat /\ b \in Nat /\ a1 = a /\ b1 = b + (IF Says(i, type, s) THEN 1 ELSE 0)
  BY <1>1, <1>2, CountsOn DEF Present
<1>4. h = Left(a, b)
  BY Zenon DEF LeftOver
<1>5. AsksIn(type, s)' = AsksIn(type, s) /\ SaysIn(type, s)' = SaysIn(type, s)
  BY AsksStay, SaysStay
<1>6. InstanceOf(s)' = InstanceOf(s)
  BY NamesStay, Zenon
<1>7. h1 = Left(a1, b1)
  <2>1. h1 = IF Says(i, type, s) THEN Less(h) ELSE h
    OBVIOUS
  <2> HIDE DEF a, b, a1, b1, h, h1
  <2>2. Left(a, b + 1) = Less(Left(a, b)) /\ b + 0 = b
    BY <1>3, Lefts
  <2> QED BY <1>3, <1>4, <2>1, <2>2
<1>8. LeftOver(type, s)' <=>
          Hits(parsed'.questions, type, s, InstanceOf(s)')
            = Left(Cardinality(Below(AsksIn(type, s)', i')), Cardinality(Below(SaysIn(type, s)', i')))
  BY Zenon DEF LeftOver
<1> QED BY <1>5, <1>6, <1>7, <1>8

\* A question that is kept is one more that matches.
LEMMA QuestionOn ==
  ASSUME CountInv, CursorInv, PacketInv, pc = "questions", qs > 0, i' = i + 1,
         UNCHANGED packet, NamesSame,
         NEW type, NEW s, LeftOver(type, s),
         Hits(parsed'.questions, type, s, InstanceOf(s))
           = Hits(parsed.questions, type, s, InstanceOf(s)) + Present(AsksFor(i, type, s))
  PROVE  LeftOver(type, s)'
<1> DEFINE a == Cardinality(Below(AsksIn(type, s), i))
           b == Cardinality(Below(SaysIn(type, s), i))
           a1 == Cardinality(Below(AsksIn(type, s), i + 1))
           b1 == Cardinality(Below(SaysIn(type, s)', i + 1))
           h == Hits(parsed.questions, type, s, InstanceOf(s))
           h1 == Hits(parsed'.questions, type, s, InstanceOf(s))
<1>0. i \in Nat /\ i >= 1 /\ i <= Asking /\ Asking \in Nat /\ Len(packet.entries) \in Nat
  BY Places DEF CountInv, Position, CursorInv
<1>1. i \in AsksIn(type, s) <=> AsksFor(i, type, s)
  BY <1>0 DEF AsksIn, Questions, Asking
<1>2. \A k \in Records : k \in Nat /\ ~(k < i + 1) /\ ~(k < i)
  BY <1>0 DEF Records, Asking
<1>3. Below(SaysIn(type, s), i) = {} /\ Below(SaysIn(type, s)', i + 1) = {}
  <2>1. SaysIn(type, s) \subseteq Records
    BY DEF SaysIn
  <2>2. SaysIn(type, s)' \subseteq Records
    BY RecordsKept DEF SaysIn
  <2> QED BY <1>2, <2>1, <2>2 DEF Below
<1>4. a \in Nat /\ b = 0 /\ b1 = 0 /\ a1 = a + Present(AsksFor(i, type, s))
  BY <1>1, <1>3, CountsOn, FS_EmptySet DEF Present
<1>5. h = Left(a, b)
  BY Zenon DEF LeftOver
<1>6. AsksIn(type, s)' = AsksIn(type, s)
  BY AsksStay
<1>7. InstanceOf(s)' = InstanceOf(s)
  BY NamesStay, Zenon
<1>8. h1 = Left(a1, b1)
  <2>1. h1 = h + Present(AsksFor(i, type, s))
    OBVIOUS
  <2>2. Present(AsksFor(i, type, s)) \in Nat
    BY DEF Present
  <2> HIDE DEF a, b, a1, b1, h, h1
  <2>3. a1 \in Nat
    BY <1>4, <2>2
  <2>4. Left(a, 0) = a /\ Left(a1, 0) = a1
    BY <1>4, <2>3, Lefts
  <2> QED BY <1>4, <1>5, <2>1, <2>4
<1>9. LeftOver(type, s)' <=>
          Hits(parsed'.questions, type, s, InstanceOf(s)')
            = Left(Cardinality(Below(AsksIn(type, s)', i')), Cardinality(Below(SaysIn(type, s)', i')))
  BY Zenon DEF LeftOver
<1> QED BY <1>6, <1>7, <1>8, <1>9

\* What a record says is answered, one question each.
Answers ==
    \A type \in Kinds : \A s \in ServicesOf(type) :
        Hits(parsed'.questions, type, s, InstanceOf(s))
          = IF Says(i, type, s) THEN Less(Hits(parsed.questions, type, s, InstanceOf(s)))
            ELSE Hits(parsed.questions, type, s, InstanceOf(s))
SaysNothing == \A type \in Kinds : \A s \in ServicesOf(type) : ~Says(i, type, s)
SaysOnly(t, a) ==
    \A type \in Kinds : \A s \in ServicesOf(type) : Says(i, type, s) <=> t = type /\ a = s

LEMMA NothingToAnswer ==
  ASSUME parsed'.questions = parsed.questions, SaysNothing \/ parsed.questions = <<>>
  PROVE  Answers
<1>1. CASE SaysNothing
  BY <1>1, Zenon DEF Answers, SaysNothing
<1>2. CASE parsed.questions = <<>>
  <2>1. \A type, s : Hits(parsed.questions, type, s, InstanceOf(s)) = 0
    BY <1>2, NoHits
  <2>2. Less(0) = 0
    BY DEF Less
  <2> QED BY <2>1, <2>2, Zenon DEF Answers
<1> QED BY <1>1, <1>2

LEMMA OneAnswer ==
  ASSUME IsList(parsed.questions), NEW t, NEW a, Fits(t, a), SaysOnly(t, a),
         parsed'.questions = Without(t, a)
  PROVE  Answers
<1> SUFFICES ASSUME NEW type \in Kinds, NEW s \in ServicesOf(type)
             PROVE  Hits(parsed'.questions, type, s, InstanceOf(s))
                      = IF Says(i, type, s) THEN Less(Hits(parsed.questions, type, s, InstanceOf(s)))
                        ELSE Hits(parsed.questions, type, s, InstanceOf(s))
  BY Zenon DEF Answers
<1>1. Says(i, type, s) <=> t = type /\ a = s
  BY Zenon DEF SaysOnly
<1>2. Hits(Without(t, a), type, s, InstanceOf(s))
        = IF t = type /\ a = s THEN Less(Hits(parsed.questions, type, s, InstanceOf(s)))
          ELSE Hits(parsed.questions, type, s, InstanceOf(s))
  BY HitsLess
<1> QED BY <1>1, <1>2, Zenon

\* A record that is answered takes the reader on.
LEMMA AnsweredOn ==
  ASSUME CountInv, PacketInv, KnownInv, pc \in {"records", "dispatch"}, i \in Records,
         pc' = "clear" \/ (pc' = "records" /\ i' = i + 1),
         UNCHANGED packet, search_result' = 0 \/ UNCHANGED search_result,
         pc' = "records" /\ Plain' => /\ Plain /\ NamesSame /\ Answers
                                     /\ parsed'.discovery = parsed.discovery
  PROVE  KnownInv'
<1>1. Response' <=> Response
  BY DEF Response
<1>2. pc' = "idle" \/ ~Response' => search_result' = 0
  BY <1>1 DEF KnownInv
<1>3. ASSUME pc' = "records", Plain', NEW type \in Kinds, NEW s \in ServicesOf(type)
      PROVE  LeftOver(type, s)'
  <2>1. LeftOver(type, s)
    BY <1>3, Zenon DEF KnownInv
  <2>2. Hits(parsed'.questions, type, s, InstanceOf(s))
          = IF Says(i, type, s) THEN Less(Hits(parsed.questions, type, s, InstanceOf(s)))
            ELSE Hits(parsed.questions, type, s, InstanceOf(s))
    BY <1>3, Zenon DEF Answers
  <2>3. i' = i + 1
    BY <1>3
  <2> QED BY <1>3, <2>1, <2>2, <2>3, RecordOn
<1>4. pc' = "records" /\ Plain' => \A type \in Kinds : \A s \in ServicesOf(type)' : LeftOver(type, s)'
  BY <1>3 DEF ServicesOf
<1>5. pc' # "dispatch" /\ pc' # "questions" /\ pc' # "reply"
  OBVIOUS
<1> QED BY <1>2, <1>4, <1>5, Zenon DEF KnownInv

\* Where a type has services, they are ours, and an entry's name tells which.
LEMMA ServicesAre ==
  ASSUME NEW type, type \notin Addresses, NEW s \in ServicesOf(type)
  PROVE  /\ IsService(s)
         /\ \A e : e.name.service = s <=> ServiceOf(e) = s
<1>1. \E k \in DOMAIN Services : s = Services[k]
  BY Zenon DEF ServicesOf
<1>2. IsService(s) /\ s # ""
  BY <1>1, ServicesAssumption, Zenon DEF IsService
<1> QED BY <1>2, Zenon DEF ServiceOf

LEMMA SkippedKnown ==
  ASSUME CountInv, PacketInv, KnownInv, SkippedRecord
  PROVE  KnownInv'
<1>1. /\ pc = "records" /\ pc' = "records" /\ i' = i + 1 /\ ~Ended
      /\ UNCHANGED <<packet, parsed, search_result>> /\ NamesSame
  BY DEF SkippedRecord, Record, NextEntry, KeepForQuestions, rx, ours, found, NamesSame
<1>2. i \in Records
  BY <1>1 DEF Ended, Records, CountInv, Position, Asking, PacketInv, Announced
<1>3. SaysNothing
  <2> SUFFICES ASSUME NEW type \in Kinds, NEW s PROVE ~Says(i, type, s)
    BY Zenon DEF SaysNothing
  <2>1. CASE Entry.type \in {"NSEC", "OPT"}
    <3>1. Entry.type \notin Kinds /\ Entry.type # "PTR"
      BY <2>1 DEF Kinds, Addresses
    <3> QED BY <3>1, Zenon DEF Says, Entry
  <2>2. CASE ~OfDiscovery /\ ~IsOurs
    <3>1. ~Own(Entry) /\ ~Discovers(Entry)
      BY <2>2, Zenon DEF Own, Discovers, OfDiscovery, IsDiscovery, IsOurs
    <3> QED BY <3>1, Zenon DEF Says, Entry
  <2> QED BY <2>1, <2>2, Zenon DEF SkippedRecord
<1>4. Answers
  BY <1>1, <1>3, NothingToAnswer
<1>5. Plain' => Plain
  BY <1>1 DEF Plain, Response
<1> QED BY <1>1, <1>2, <1>4, <1>5, AnsweredOn

\* What is looked at in a plain query.
LEMMA PlainRecord ==
  ASSUME PacketInv, StateInv, DefendInv, KnownInv, Plain, pc = "dispatch"
  PROVE  /\ search_result = 0 /\ i \in Records
         /\ cls = "ours" <=> Own(Entry)
         /\ cls = "discovery" <=> Discovers(Entry)
         /\ cls \in {"ours", "discovery"}
         /\ cls = "ours" => service = ServiceOf(Entry)
         /\ Asked <=> parsed.questions # <<>>
         /\ ~authoritative /\ ~parsed.probe
<1>1. cls # "foreign" /\ search_result = 0 /\ (cls = "ours" => service = ServiceOf(Entry))
      /\ (cls = "discovery" <=> Discovers(Entry))
  BY Zenon DEF KnownInv, Plain
<1>2. (cls = "ours" <=> Own(Entry)) /\ i \in Records
  BY Zenon DEF DefendInv, PacketInv
<1>3. cls \in {"ours", "discovery"}
  BY <1>1, Zenon DEF StateInv
<1>4. ~authoritative /\ ~parsed.probe /\ (Asked <=> parsed.questions # <<>>)
  BY DEF Plain, Response, authoritative, Asked
<1> QED BY <1>1, <1>2, <1>3, <1>4

\* A record for no service of ours is no answer.
LEMMA NoServiceSays ==
  ASSUME NEW t, t \notin Addresses, SaysOnly(t, "")
  PROVE  SaysNothing
<1> SUFFICES ASSUME NEW type \in Kinds, NEW s \in ServicesOf(type), Says(i, type, s) PROVE FALSE
  BY Zenon DEF SaysNothing
<1>1. t = type /\ s = ""
  BY Zenon DEF SaysOnly
<1>2. s # ""
  BY <1>1, ServicesAre, ServicesAssumption, Zenon DEF IsService
<1> QED BY <1>1, <1>2, Zenon

\* A pointer to a service of ours is the answer for that service.
LEMMA PtrSays ==
  ASSUME Entry.type = "PTR", Entry.form # "baddata", cls \in {"ours", "discovery"},
         cls = "ours" <=> Own(Entry), cls = "discovery" <=> Discovers(Entry)
  PROVE  SaysOnly(IF cls = "discovery" THEN "SDPTR" ELSE "PTR", PtrService(Entry.target))
<1> DEFINE t == IF cls = "discovery" THEN "SDPTR" ELSE "PTR"
           n == Entry.target
<1> SUFFICES ASSUME NEW type \in Kinds, NEW s \in ServicesOf(type)
             PROVE  Says(i, type, s) <=> t = type /\ PtrService(n) = s
  BY Zenon DEF SaysOnly
<1>1. CASE type \in {"PTR", "SDPTR"}
  <2>1. type \notin Addresses
    BY <1>1 DEF Addresses
  <2>2. IsService(s) /\ s # ""
    BY <2>1, ServicesAre, ServicesAssumption, Zenon DEF IsService
  <2>3. PtrService(n) = s <=> ~n.sub /\ mdns_name_is_ours(n) /\ n.service = s
    <3>1. cls # "foreign"
      OBVIOUS
    <3> QED BY <2>2, <3>1, Zenon DEF PtrService
  <2>4. t = type <=> (IF type = "PTR" THEN Own(Entry) ELSE Discovers(Entry))
    <3>1. CASE type = "PTR"
      BY <3>1
    <3>2. CASE type = "SDPTR"
      BY <3>2
    <3> QED BY <1>1, <3>1, <3>2
  <2>5. Says(i, type, s) <=> /\ IF type = "PTR" THEN Own(Entry) ELSE Discovers(Entry)
                            /\ ~n.sub /\ mdns_name_is_ours(n) /\ n.service = s
    BY <1>1, Zenon DEF Says, Entry
  <2> HIDE DEF t, n
  <2> QED BY <2>3, <2>4, <2>5, Zenon
<1>2. CASE type \notin {"PTR", "SDPTR"}
  <2>1. t # type /\ Entry.type # type
    BY <1>2
  <2> QED BY <1>2, <2>1, Zenon DEF Says, Entry
<1> QED BY <1>1, <1>2

\* The service is given by its name in the words of the property, or there is none.
LEMMA NamedSays ==
  ASSUME Entry.type \in {"SRV", "TXT"}, Entry.type = "SRV" => Entry.form = "ok", Own(Entry),
         service = ServiceOf(Entry)
  PROVE  SaysOnly(Entry.type, service) /\ (service = "" => SaysNothing)
<1>1. SaysOnly(Entry.type, service)
  <2> SUFFICES ASSUME NEW type \in Kinds, NEW s \in ServicesOf(type)
               PROVE  Says(i, type, s) <=> Entry.type = type /\ service = s
    BY Zenon DEF SaysOnly
  <2>1. CASE type = Entry.type
    <3>1. type \notin Addresses /\ type \notin {"PTR", "SDPTR"}
      BY <2>1 DEF Addresses
    <3>2. Entry.name.service = s <=> service = s
      BY <3>1, ServicesAre, Zenon
    <3> QED BY <2>1, <3>1, <3>2, Zenon DEF Says, Entry
  <2>2. CASE type # Entry.type
    <3>1. Entry.type # "PTR"
      OBVIOUS
    <3> QED BY <2>2, <3>1, Zenon DEF Says, Entry
  <2> QED BY <2>1, <2>2
<1>2. Entry.type \notin Addresses
  BY DEF Addresses
<1>3. service = "" => SaysNothing
  BY <1>1, <1>2, NoServiceSays, Zenon
<1> QED BY <1>1, <1>3, Zenon

\* A record of an address is an answer for the host, which has no service.
LEMMA AddressSays ==
  ASSUME Entry.type \in Addresses, Own(Entry)
  PROVE  SaysOnly(Entry.type, "") /\ Fits(Entry.type, "")
<1> SUFFICES ASSUME NEW type \in Kinds, NEW s \in ServicesOf(type)
             PROVE  Says(i, type, s) <=> Entry.type = type /\ "" = s
  BY Zenon DEF SaysOnly, Fits
<1>1. Entry.type \notin {"PTR", "SDPTR", "SRV", "TXT"}
  BY Zenon DEF Addresses
<1>2. CASE type = Entry.type
  <2>1. s = ""
    BY <1>2, Zenon DEF ServicesOf
  <2>2. type # "SRV" /\ type \notin {"PTR", "SDPTR"}
    BY <1>1, <1>2, Zenon
  <2> QED BY <1>2, <2>1, <2>2, Zenon DEF Says, Entry
<1>3. CASE type # Entry.type
  <2>1. Entry.type # "PTR"
    BY <1>1, Zenon
  <2> QED BY <1>3, <2>1, Zenon DEF Says, Entry
<1> QED BY <1>2, <1>3

KnownBy == CountInv /\ PacketInv /\ HeapInv /\ StateInv /\ DefendInv /\ KnownInv

LEMMA PtrKnown == KnownBy /\ PtrRecord => KnownInv'
<1> SUFFICES ASSUME CountInv, PacketInv, HeapInv, StateInv, DefendInv, KnownInv, PtrRecord
             PROVE  KnownInv'
  BY DEF KnownBy
<1>1. /\ pc = "dispatch" /\ Entry.type = "PTR"
      /\ UNCHANGED <<packet, search_result>> /\ NamesSame
  BY DEF PtrRecord, Dispatch, KeepRecord, KeepFound, rx, ours, NamesSame
<1>2. pc' = "clear" \/ (pc' = "records" /\ i' = i + 1)
  BY DEF PtrRecord, PtrOfOurs, NextRecord, NextEntry
<1>3. parsed'.discovery = parsed.discovery /\ parsed'.probe = parsed.probe
  <2>1. CASE UNCHANGED parsed
    BY <2>1
  <2>2. CASE PtrOfOurs
    BY <2>2 DEF PtrOfOurs, DefendInv
  <2> QED BY <2>1, <2>2 DEF PtrRecord
<1>4. Plain' => Plain
  BY <1>1, <1>3 DEF Plain, Response
<1>5. ASSUME Plain PROVE Answers
  <2>1. /\ search_result = 0 /\ i \in Records /\ cls \in {"ours", "discovery"}
        /\ (cls = "ours" <=> Own(Entry)) /\ (cls = "discovery" <=> Discovers(Entry))
        /\ (Asked <=> parsed.questions # <<>>)
    BY <1>1, <1>5, PlainRecord, Zenon
  <2>2. CASE Entry.form = "baddata"
    <3>1. SaysNothing
      <4> SUFFICES ASSUME NEW type \in Kinds, NEW s PROVE ~Says(i, type, s)
        BY Zenon DEF SaysNothing
      <4>1. CASE type \in {"PTR", "SDPTR"}
        BY <2>2, <4>1, Zenon DEF Says, Entry
      <4>2. CASE type \notin {"PTR", "SDPTR"}
        <5>1. Entry.type # type
          BY <1>1, <4>2
        <5> QED BY <4>2, <5>1, Zenon DEF Says, Entry
      <4> QED BY <4>1, <4>2
    <3>2. UNCHANGED parsed
      BY <2>2, Zenon DEF PtrRecord
    <3> QED BY <3>1, <3>2, NothingToAnswer
  <2>3. CASE Entry.form # "baddata"
    <3> DEFINE q   == IF cls = "discovery" THEN "SDPTR" ELSE "PTR"
               svc == PtrService(Entry.target)
    <3>1. SaysOnly(q, svc) /\ Fits(q, svc)
      <4>1. SaysOnly(q, svc)
        BY <1>1, <2>1, <2>3, PtrSays
      <4>2. q \notin Addresses
        BY DEF Addresses
      <4> QED BY <4>1, <4>2, Zenon DEF Fits
    <3>2. PtrOfOurs
      BY <2>1, <2>3, Zenon DEF PtrRecord
    <3>3. \/ svc = "" /\ UNCHANGED parsed
          \/ parsed'.questions = IF cls = "discovery" \/ Asked THEN Without(q, svc)
                                 ELSE parsed.questions
      <4> HIDE DEF q, svc
      <4>1. \/ svc = "" /\ UNCHANGED parsed
            \/ \E k : parsed' = [parsed EXCEPT
                   !.questions = IF cls = "discovery" \/ Asked THEN Without(q, svc) ELSE @,
                   !.records = k]
        BY <3>2, Zenon DEF PtrOfOurs, q, svc
      <4>2. ASSUME NEW k, parsed' = [parsed EXCEPT
                   !.questions = IF cls = "discovery" \/ Asked THEN Without(q, svc) ELSE @,
                   !.records = k]
            PROVE  parsed'.questions = IF cls = "discovery" \/ Asked THEN Without(q, svc)
                                       ELSE parsed.questions
        BY <4>2 DEF HeapInv
      <4> QED BY <4>1, <4>2, Zenon
    <3> HIDE DEF q, svc
    <3>4. svc = "" => SaysNothing
      <4>1. q \notin Addresses
        BY DEF Addresses, q
      <4> QED BY <3>1, <4>1, NoServiceSays, Zenon
    <3>5. CASE SaysNothing /\ UNCHANGED parsed
      BY <3>5, NothingToAnswer
    <3>6. CASE parsed'.questions = Without(q, svc)
      <4>1. IsList(parsed.questions)
        BY DEF HeapInv, IsQuestions
      <4> QED BY <3>1, <3>6, <4>1, OneAnswer
    <3>7. CASE parsed'.questions = parsed.questions /\ ~Asked
      BY <2>1, <3>7, NothingToAnswer
    <3> QED BY <3>3, <3>4, <3>5, <3>6, <3>7, Zenon
  <2> QED BY <2>2, <2>3
<1>6. i \in Records
  BY <1>1 DEF PacketInv
<1> QED BY <1>1, <1>2, <1>3, <1>4, <1>5, <1>6, AnsweredOn

LEMMA SrvKnown == KnownBy /\ SrvRecord => KnownInv'
<1> SUFFICES ASSUME CountInv, PacketInv, HeapInv, StateInv, DefendInv, KnownInv, SrvRecord
             PROVE  KnownInv'
  BY DEF KnownBy
<1>1. /\ pc = "dispatch" /\ Entry.type = "SRV" /\ UNCHANGED <<packet, search_result>>
  BY DEF SrvRecord, Dispatch, KeepRecord, KeepFound, rx
<1>2. pc' = "clear" \/ (pc' = "records" /\ i' = i + 1)
  BY DEF SrvRecord, NextRecord, NextEntry
<1>3. parsed'.discovery = parsed.discovery /\ parsed'.probe = parsed.probe
  <2>1. CASE UNCHANGED parsed
    BY <2>1
  <2>2. CASE SrvOfOurs
    BY <2>2 DEF SrvOfOurs, mdns_remove_parsed_question, DefendInv
  <2> QED BY <2>1, <2>2 DEF SrvRecord, KeepOwn
<1>4. Plain' => Plain
  BY <1>1, <1>3 DEF Plain, Response
<1>5. ASSUME Plain PROVE Answers /\ NamesSame
  <2>1. /\ search_result = 0 /\ cls \in {"ours", "discovery"}
        /\ (cls = "ours" <=> Own(Entry)) /\ (cls = "discovery" <=> Discovers(Entry))
        /\ (cls = "ours" => service = ServiceOf(Entry))
        /\ (Asked <=> parsed.questions # <<>>)
        /\ ~authoritative /\ ~parsed.probe
    BY <1>1, <1>5, PlainRecord, Zenon
  <2>2. cls = "ours" /\ Own(Entry) /\ service = ServiceOf(Entry)
    <3>1. ~Discovers(Entry)
      BY <1>1 DEF Discovers, mdns_name_is_discovery
    <3> QED BY <2>1, <3>1
  <2>3. ~NoResult
    BY <2>1 DEF NoResult, OfPTR
  <2>4. CASE Entry.form # "ok"
    <3>1. KeepOwn
      BY <2>3, <2>4, Zenon DEF SrvRecord
    <3>2. SaysNothing
      <4> SUFFICES ASSUME NEW type \in Kinds, NEW s PROVE ~Says(i, type, s)
        BY Zenon DEF SaysNothing
      <4>1. Entry.type # "PTR" /\ (Entry.type = type => type = "SRV" /\ type \notin {"PTR", "SDPTR"})
        BY <1>1
      <4> QED BY <2>4, <4>1, Zenon DEF Says, Entry
    <3>3. parsed' = parsed /\ NamesSame
      BY <3>1 DEF KeepOwn, ours, NamesSame
    <3> QED BY <3>2, <3>3, NothingToAnswer
  <2>5. CASE Entry.form = "ok"
    <3>1. SrvOfOurs
      <4>1. Entry.form \notin {"baddata", "shortdata"}
        BY <2>5
      <4> QED BY <2>1, <2>2, <2>3, <4>1, Zenon DEF SrvRecord
    <3>2. NamesSame
      BY <2>1, <3>1 DEF SrvOfOurs, ours, NamesSame
    <3>3. SaysOnly("SRV", service) /\ Fits("SRV", service)
      <4>1. SaysOnly(Entry.type, service)
        BY <1>1, <2>2, <2>5, NamedSays, Zenon
      <4>2. "SRV" \notin Addresses
        BY DEF Addresses
      <4> QED BY <1>1, <4>1, <4>2, Zenon DEF Fits
    <3>4. CASE Asked
      <4>1. parsed' = [parsed EXCEPT !.questions = Without("SRV", service)]
        BY <3>1, <3>4, Zenon DEF SrvOfOurs, mdns_remove_parsed_question
      <4>2. parsed'.questions = Without("SRV", service) /\ IsList(parsed.questions)
        BY <4>1 DEF HeapInv, IsQuestions
      <4> QED BY <3>2, <3>3, <4>2, OneAnswer
    <3>5. CASE ~Asked
      <4>1. parsed' = parsed
        BY <3>1, <3>5, Zenon DEF SrvOfOurs
      <4> QED BY <2>1, <3>2, <3>5, <4>1, NothingToAnswer
    <3> QED BY <3>4, <3>5
  <2> QED BY <2>4, <2>5
<1>6. i \in Records
  BY <1>1 DEF PacketInv
<1> QED BY <1>1, <1>2, <1>3, <1>4, <1>5, <1>6, AnsweredOn

LEMMA TxtKnown == KnownBy /\ TxtRecord => KnownInv'
<1> SUFFICES ASSUME CountInv, PacketInv, HeapInv, StateInv, DefendInv, KnownInv, TxtRecord
             PROVE  KnownInv'
  BY DEF KnownBy
<1>1. /\ pc = "dispatch" /\ Entry.type = "TXT" /\ UNCHANGED <<packet, search_result>>
      /\ pc' = "records" /\ i' = i + 1 /\ NamesSame
  BY DEF TxtRecord, TxtOfOurs, KeepOwn, Dispatch, KeepRecord, KeepFound, NextRecord, NextEntry,
     rx, ours, NamesSame
<1>2. parsed'.discovery = parsed.discovery /\ parsed'.probe = parsed.probe
  <2>1. CASE UNCHANGED parsed
    BY <2>1
  <2>2. CASE TxtOfOurs
    BY <2>2 DEF TxtOfOurs, mdns_remove_parsed_question, DefendInv
  <2> QED BY <2>1, <2>2 DEF TxtRecord, KeepOwn
<1>3. Plain' => Plain
  BY <1>1, <1>2 DEF Plain, Response
<1>4. ASSUME Plain PROVE Answers
  <2>1. /\ search_result = 0 /\ cls \in {"ours", "discovery"}
        /\ (cls = "ours" <=> Own(Entry)) /\ (cls = "discovery" <=> Discovers(Entry))
        /\ (cls = "ours" => service = ServiceOf(Entry))
        /\ (Asked <=> parsed.questions # <<>>)
    BY <1>1, <1>4, PlainRecord, Zenon
  <2>2. cls = "ours" /\ Own(Entry) /\ service = ServiceOf(Entry)
    <3>1. ~Discovers(Entry)
      BY <1>1 DEF Discovers, mdns_name_is_discovery
    <3> QED BY <2>1, <3>1
  <2>3. TxtOfOurs
    BY <2>1, <2>2, Zenon DEF TxtRecord
  <2>4. /\ SaysOnly("TXT", service) /\ Fits("TXT", service)
        /\ service = "" => SaysNothing
    <3>1. Entry.type = "SRV" => Entry.form = "ok"
      BY <1>1
    <3>2. SaysOnly(Entry.type, service) /\ (service = "" => SaysNothing)
      BY <1>1, <2>2, <3>1, NamedSays, Zenon
    <3>3. "TXT" \notin Addresses
      BY DEF Addresses
    <3> QED BY <1>1, <3>2, <3>3, Zenon DEF Fits
  <2>5. \/ parsed' = [parsed EXCEPT !.questions = Without("TXT", service)]
        \/ parsed' = parsed /\ (~Asked \/ SaysNothing)
    BY <2>3, <2>4, Zenon DEF TxtOfOurs, mdns_remove_parsed_question
  <2>6. CASE parsed' = [parsed EXCEPT !.questions = Without("TXT", service)]
    <3>1. SaysOnly("TXT", service) /\ Fits("TXT", service)
      BY <2>4, Zenon
    <3>2. parsed'.questions = Without("TXT", service) /\ IsList(parsed.questions)
      BY <2>6 DEF HeapInv, IsQuestions
    <3> QED BY <3>1, <3>2, OneAnswer
  <2>7. CASE parsed' = parsed /\ (~Asked \/ SaysNothing)
    BY <2>1, <2>7, NothingToAnswer
  <2> QED BY <2>5, <2>6, <2>7, Zenon
<1>5. i \in Records
  BY <1>1 DEF PacketInv
<1> QED BY <1>1, <1>2, <1>3, <1>4, <1>5, AnsweredOn

LEMMA AddressKnown == KnownBy /\ AddressRecord => KnownInv'
<1> SUFFICES ASSUME CountInv, PacketInv, HeapInv, StateInv, DefendInv, KnownInv, AddressRecord
             PROVE  KnownInv'
  BY DEF KnownBy
<1>1. /\ pc = "dispatch" /\ Entry.type \in Addresses /\ UNCHANGED packet /\ search_result' = 0
  BY Zenon DEF AddressRecord, Dispatch, KeepRecord, rx
<1>2. pc' = "clear" \/ (pc' = "records" /\ i' = i + 1)
  BY Zenon DEF AddressRecord, AddressOfOurs, NextRecord, NextEntry
<1>3. parsed'.discovery = parsed.discovery /\ parsed'.probe = parsed.probe
  <2>1. UNCHANGED parsed \/ \E Q : parsed' = [parsed EXCEPT !.questions = Q]
    BY Zenon DEF AddressRecord, AddressOfOurs, KeepOwn, mdns_remove_parsed_question
  <2> QED BY <2>1 DEF DefendInv
<1>4. Plain' => Plain
  BY <1>1, <1>3 DEF Plain, Response
<1>5. ASSUME Plain PROVE Answers /\ NamesSame
  <2>1. /\ search_result = 0 /\ cls \in {"ours", "discovery"}
        /\ (cls = "ours" <=> Own(Entry)) /\ (cls = "discovery" <=> Discovers(Entry))
        /\ (Asked <=> parsed.questions # <<>>)
        /\ ~authoritative /\ ~parsed.probe
    BY <1>1, <1>5, PlainRecord, Zenon
  <2>2. cls = "ours" /\ Own(Entry)
    <3>1. ~Discovers(Entry)
      BY <1>1 DEF Discovers, mdns_name_is_discovery, Addresses
    <3> QED BY <2>1, <3>1
  <2>3. AddressOfOurs
    BY <2>1, <2>2, Zenon DEF AddressRecord
  <2>4. NamesSame
    BY <2>1, <2>3, Zenon DEF AddressOfOurs, ours, NamesSame
  <2>5. SaysOnly(Entry.type, "") /\ Fits(Entry.type, "")
    BY <1>1, <2>2, AddressSays, Zenon
  <2>6. CASE Asked
    <3> DEFINE a == ""
    <3>1. parsed' = [parsed EXCEPT !.questions = Without(Entry.type, a)]
      BY <2>3, <2>6, Zenon DEF AddressOfOurs, mdns_remove_parsed_question
    <3>2. SaysOnly(Entry.type, a) /\ Fits(Entry.type, a)
      BY <2>5, Zenon
    <3> HIDE DEF a
    <3>3. parsed'.questions = Without(Entry.type, a) /\ IsList(parsed.questions)
      BY <3>1 DEF HeapInv, IsQuestions
    <3> QED BY <2>4, <3>2, <3>3, OneAnswer
  <2>7. CASE ~Asked
    <3>1. parsed' = parsed
      BY <2>3, <2>7, Zenon DEF AddressOfOurs
    <3> QED BY <2>1, <2>4, <2>7, <3>1, NothingToAnswer
  <2> QED BY <2>6, <2>7
<1>6. i \in Records
  BY <1>1 DEF PacketInv
<1> QED BY <1>1, <1>2, <1>3, <1>4, <1>5, <1>6, AnsweredOn

LEMMA OtherKnown == KnownBy /\ OtherRecord => KnownInv'
<1> SUFFICES ASSUME CountInv, PacketInv, HeapInv, StateInv, DefendInv, KnownInv, OtherRecord
             PROVE  KnownInv'
  BY DEF KnownBy
<1>1. /\ pc = "dispatch" /\ UNCHANGED <<packet, search_result, parsed>> /\ NamesSame
      /\ Entry.type \notin {"PTR", "SRV", "TXT"} \cup Addresses
  BY Zenon DEF OtherRecord, KeepRecord, KeepFound, rx, ours, NamesSame
<1>2. pc' = "records" /\ i' = i + 1
  BY Zenon DEF OtherRecord, NextRecord, NextEntry
<1>3. Plain' => Plain
  BY <1>1 DEF Plain, Response
<1>4. SaysNothing
  <2> SUFFICES ASSUME NEW type \in Kinds, NEW s PROVE ~Says(i, type, s)
    BY Zenon DEF SaysNothing
  <2>1. Entry.type # "PTR" /\ (type \notin {"PTR", "SDPTR"} => Entry.type # type)
    BY <1>1 DEF Kinds
  <2> QED BY <2>1, Zenon DEF Says, Entry
<1>5. Answers
  BY <1>1, <1>4, NothingToAnswer
<1>6. i \in Records
  BY <1>1 DEF PacketInv
<1> QED BY <1>1, <1>2, <1>3, <1>5, <1>6, AnsweredOn

\* What is left over stays while the reader does.
LEMMA LeftStays ==
  ASSUME UNCHANGED <<packet, parsed, i>>, NamesSame, NEW type, NEW s, LeftOver(type, s)
  PROVE  LeftOver(type, s)'
<1>1. parsed'.discovery = parsed.discovery
  OBVIOUS
<1>2. AsksIn(type, s)' = AsksIn(type, s) /\ SaysIn(type, s)' = SaysIn(type, s)
  BY <1>1, AsksStay, SaysStay
<1>3. InstanceOf(s)' = InstanceOf(s)
  BY NamesStay, Zenon
<1>4. LeftOver(type, s)' <=>
          Hits(parsed'.questions, type, s, InstanceOf(s)')
            = Left(Cardinality(Below(AsksIn(type, s)', i')), Cardinality(Below(SaysIn(type, s)', i')))
  BY Zenon DEF LeftOver
<1>5. LeftOver(type, s) <=>
          Hits(parsed.questions, type, s, InstanceOf(s))
            = Left(Cardinality(Below(AsksIn(type, s), i)), Cardinality(Below(SaysIn(type, s), i)))
  BY Zenon DEF LeftOver
<1> QED BY <1>2, <1>3, <1>4, <1>5

\* The reader has not moved, or there is nothing to keep.
LEMMA QuietKnown ==
  ASSUME KnownInv, UNCHANGED packet, pc # "idle", pc' \notin {"idle", "reply"},
         UNCHANGED search_result \/ Response,
         pc' = "dispatch" => /\ cls' = "discovery" <=> Discovers(Entry)'
                             /\ cls' = "ours" => service' = ServiceOf(Entry)'
                             /\ ~Response => cls' # "foreign",
         pc' # "clear" /\ Plain' => /\ pc \in {"questions", "records", "dispatch"}
                                    /\ UNCHANGED <<parsed, i>> /\ NamesSame
  PROVE  KnownInv'
<1>1. Response' <=> Response
  BY DEF Response
<1>2. pc' = "idle" \/ ~Response' => search_result' = 0
  BY <1>1 DEF KnownInv
<1>3. ASSUME pc' \in {"questions", "records", "dispatch"}, Plain',
             NEW type \in Kinds, NEW s \in ServicesOf(type)
      PROVE  LeftOver(type, s)'
  <2>1. /\ pc \in {"questions", "records", "dispatch"}
        /\ UNCHANGED <<parsed, i>> /\ NamesSame
    BY <1>3
  <2>2. Plain
    BY <1>1, <1>3, <2>1 DEF Plain
  <2>3. LeftOver(type, s)
    BY <2>1, <2>2, Zenon DEF KnownInv
  <2> QED BY <2>1, <2>3, LeftStays
<1>4. pc' \in {"questions", "records", "dispatch"} /\ Plain' =>
          \A type \in Kinds : \A s \in ServicesOf(type)' : LeftOver(type, s)'
  BY <1>3 DEF ServicesOf
<1>5. pc' # "idle" /\ pc' # "reply"
  OBVIOUS
<1> QED BY <1>1, <1>2, <1>4, <1>5, Zenon DEF KnownInv

LEMMA DiscoversStays ==
  ASSUME UNCHANGED <<packet, i>>, parsed'.discovery = parsed.discovery
  PROVE  /\ Discovers(Entry)' <=> Discovers(Entry)
         /\ ServiceOf(Entry)' = ServiceOf(Entry)
<1>1. Entry' = Entry
  BY DEF Entry
<1>2. Discovers(Entry)' <=> parsed'.discovery /\ mdns_name_is_discovery(Entry'.name, Entry'.type)
  BY Zenon DEF Discovers, mdns_name_is_discovery
<1>3. ServiceOf(Entry)' = ServiceOf(Entry')
  BY Zenon DEF ServiceOf, IsService
<1> QED BY <1>1, <1>2, <1>3, Zenon DEF Discovers

\* A record is classified as the property does it.
LEMMA ClassifiedKnown ==
  ASSUME KnownInv, OwnRecord \/ ForeignRecord \/ MalformedRecord
  PROVE  KnownInv'
<1>1. CASE MalformedRecord
  <2>1. pc = "records" /\ pc' = "clear" /\ UNCHANGED <<packet, search_result>>
    BY <1>1, Zenon DEF MalformedRecord, Record, KeepForQuestions, rx, found
  <2> QED BY <2>1, QuietKnown
<1>2. CASE OwnRecord
  <2>1. /\ pc = "records" /\ pc' = "dispatch"
        /\ UNCHANGED <<i, packet, parsed, search_result>> /\ NamesSame
        /\ OfDiscovery \/ IsOurs
        /\ cls' = (IF OfDiscovery THEN "discovery" ELSE "ours")
        /\ service' = IF IsOurs /\ IsService(Entry.name.service) THEN Entry.name.service ELSE ""
    BY <1>2, Zenon DEF OwnRecord, Record, KeepForQuestions, rx, ours, found, NamesSame
  <2>2. Discovers(Entry) <=> OfDiscovery
    BY Zenon DEF Discovers, OfDiscovery, IsDiscovery
  <2>3. cls' = "discovery" <=> OfDiscovery
    <3>1. "ours" # "discovery"
      OBVIOUS
    <3> QED BY <2>1, <3>1, Zenon
  <2>4. cls' # "foreign"
    <3>1. cls' = "discovery" \/ cls' = "ours"
      BY <2>1, Zenon
    <3> QED BY <3>1
  <2>5. cls' = "ours" => service' = ServiceOf(Entry)
    <3>1. SUFFICES ASSUME cls' = "ours" PROVE service' = ServiceOf(Entry)
      OBVIOUS
    <3>2. "ours" # "discovery"
      OBVIOUS
    <3>3. ~OfDiscovery
      BY <2>3, <3>1, <3>2, Zenon
    <3> QED BY <2>1, <3>3, Zenon DEF ServiceOf
  <2>6. parsed'.discovery = parsed.discovery
    BY <2>1, Zenon
  <2>7. /\ Discovers(Entry)' <=> Discovers(Entry)
        /\ ServiceOf(Entry)' = ServiceOf(Entry)
    BY <2>1, <2>6, DiscoversStays, Zenon
  <2>8. /\ pc = "records" /\ pc' = "dispatch"
        /\ UNCHANGED <<i, packet, parsed, search_result>> /\ NamesSame
    BY <2>1, Zenon
  <2> HIDE <2>1
  <2> QED BY <2>2, <2>3, <2>4, <2>5, <2>7, <2>8, QuietKnown
<1>3. CASE ForeignRecord
  <2>1. /\ pc = "records" /\ pc' \in {"dispatch", "clear"} /\ Response
        /\ UNCHANGED <<i, packet, parsed>>
        /\ ~OfDiscovery /\ cls' = "foreign"
    BY <1>3, Zenon DEF ForeignRecord, Record, Sought, KeepForQuestions, rx, ours
  <2>2. ~Discovers(Entry)
    BY <2>1, Zenon DEF Discovers, OfDiscovery, IsDiscovery
  <2>3. Discovers(Entry)' <=> Discovers(Entry)
    BY <2>1, DiscoversStays
  <2>4. ~Plain'
    BY <2>1 DEF Plain, Response
  <2> QED BY <2>1, <2>2, <2>3, <2>4, QuietKnown
<1> QED BY <1>1, <1>2, <1>3

\* A question is kept as often as the entry asks.
Adds ==
    \A type \in Kinds : \A s \in ServicesOf(type) :
        Hits(parsed'.questions, type, s, InstanceOf(s))
          = Hits(parsed.questions, type, s, InstanceOf(s)) + Present(AsksFor(i, type, s))
QuestionsKept == CountInv /\ CursorInv /\ PacketInv /\ HeapInv /\ KnownInv

LEMMA AskedOn ==
  ASSUME QuestionsKept, Question, UNCHANGED <<packet, search_result>>, NamesSame,
         pc' = "clear" \/ (pc' = "questions" /\ i' = i + 1),
         pc' # "clear" /\ Plain' => Plain /\ Adds
  PROVE  KnownInv'
<1>0. CountInv /\ CursorInv /\ PacketInv /\ KnownInv /\ pc = "questions" /\ qs > 0
  BY Zenon DEF QuestionsKept, Question
<1>1. Response' <=> Response
  BY DEF Response
<1>2. pc' = "idle" \/ ~Response' => search_result' = 0
  BY <1>0, <1>1 DEF KnownInv
<1>3. ASSUME pc' = "questions", Plain', NEW type \in Kinds, NEW s \in ServicesOf(type)
      PROVE  LeftOver(type, s)'
  <2>0. pc' # "clear" /\ i' = i + 1
    BY <1>3
  <2>1. LeftOver(type, s)
    BY <1>0, <1>3, <2>0, Zenon DEF KnownInv
  <2>2. Hits(parsed'.questions, type, s, InstanceOf(s))
          = Hits(parsed.questions, type, s, InstanceOf(s)) + Present(AsksFor(i, type, s))
    BY <1>3, <2>0, Zenon DEF Adds
  <2> QED BY <1>0, <2>0, <2>1, <2>2, QuestionOn
<1>4. pc' = "questions" /\ Plain' => \A type \in Kinds : \A s \in ServicesOf(type)' : LeftOver(type, s)'
  BY <1>3 DEF ServicesOf
<1>5. pc' # "dispatch" /\ pc' # "records" /\ pc' # "reply"
  OBVIOUS
<1> QED BY <1>2, <1>4, <1>5, Zenon DEF KnownInv

\* A question that is skipped does not ask for anything of ours.
LEMMA SkippedAsks ==
  ASSUME QuestionsKept, MalformedQuestion \/ SkippedQuestion
  PROVE  KnownInv'
<1>1. Question /\ UNCHANGED <<packet, search_result, parsed>> /\ NamesSame
  BY Zenon DEF MalformedQuestion, SkippedQuestion, KeepForRecords, rx, ours, found, NamesSame
<1>2. pc' = "clear" \/ (SkippedQuestion /\ pc' = "questions" /\ i' = i + 1)
  BY <1>1, Zenon DEF MalformedQuestion, SkippedQuestion, Question, NextEntry
<1>3. ASSUME SkippedQuestion PROVE Adds
  <2>1. \A type, s : ~AsksFor(i, type, s)
    <3> SUFFICES ASSUME NEW type, NEW s PROVE ~AsksFor(i, type, s)
      OBVIOUS
    <3> QED BY <1>3, Zenon DEF SkippedQuestion, ValidQuestion, IsDiscovery, AsksFor, Entry
  <2>2. ASSUME NEW type \in Kinds, NEW s \in ServicesOf(type)
        PROVE  Hits(parsed'.questions, type, s, InstanceOf(s))
                 = Hits(parsed.questions, type, s, InstanceOf(s)) + Present(AsksFor(i, type, s))
    <3>1. IsList(parsed.questions)
      BY DEF QuestionsKept, HeapInv, IsQuestions
    <3>2. Hits(parsed.questions, type, s, InstanceOf(s)) \in Nat
      BY <3>1, MarksAre
    <3>3. Present(AsksFor(i, type, s)) = 0
      BY <2>1 DEF Present
    <3> QED BY <1>1, <3>2, <3>3
  <2> QED BY <2>2, Zenon DEF Adds
<1>4. Plain' => Plain
  BY <1>1 DEF Plain, Response
<1>5. pc' # "clear" => SkippedQuestion
  BY <1>2
<1> QED BY <1>1, <1>2, <1>3, <1>4, <1>5, AskedOn

\* A question for a name of ours is kept before the others.
LEMMA OwnAsks == QuestionsKept /\ OwnQuestion => KnownInv'
<1> SUFFICES ASSUME QuestionsKept, OwnQuestion PROVE KnownInv'
  OBVIOUS
<1>1. Question /\ UNCHANGED <<packet, search_result>> /\ NamesSame
  BY Zenon DEF OwnQuestion, KeepForRecords, rx, ours, found, NamesSame
<1>2. pc' = "clear" \/ (pc' = "questions" /\ i' = i + 1)
  BY <1>1, Zenon DEF OwnQuestion, Question, NextEntry
<1>3. \E b, x, q : /\ q.type = Entry.type /\ q.name.host = Entry.name.host
                   /\ q.name.service = Entry.name.service
                   /\ parsed' = [parsed EXCEPT !.probe = @ \/ x,
                                               !.questions = IF b THEN @ ELSE <<q>> \o @]
                   /\ pc' # "clear" => ~b
  <2> DEFINE n    == Entry.name
             host == IF n.host = "" THEN <<>> ELSE <<"string">>
             svc  == IF n.service = "" THEN <<>> ELSE <<"string", "string">>
             all  == <<"question", "string">> \o host \o svc
             q(got) == [type |-> Entry.type, strings |-> got - 1,
                        name |-> [host |-> n.host, service |-> n.service]]
             x == Entry.type = "ANY" /\ n.host # ""
             Copied(got) ==
               /\ parsed' = [parsed EXCEPT !.probe = @ \/ x,
                                           !.questions = IF got = 0 THEN @ ELSE <<q(got)>> \o @]
               /\ pc' # "clear" => got = Len(all)
  <2>1. \E got \in 0 .. Len(all) : Copied(got)
    BY Zenon DEF OwnQuestion
  <2>2. Len(all) # 0
    <3>1. host = <<>> \/ host = <<"string">>
      BY Zenon
    <3>2. svc = <<>> \/ svc = <<"string", "string">>
      BY Zenon
    <3> HIDE DEF host, svc
    <3> QED BY <3>1, <3>2
  <2> HIDE DEF all, x
  <2>3. PICK got \in 0 .. Len(all) : Copied(got)
    BY <2>1
  <2>4. /\ q(got).type = Entry.type /\ q(got).name.host = Entry.name.host
        /\ q(got).name.service = Entry.name.service
    OBVIOUS
  <2> HIDE DEF q, n
  <2>5. pc' # "clear" => ~(got = 0)
    BY <2>2, <2>3
  <2>6. parsed' = [parsed EXCEPT !.probe = @ \/ x,
                                 !.questions = IF got = 0 THEN @ ELSE <<q(got)>> \o @]
    BY <2>3
  <2> QED BY <2>4, <2>5, <2>6, Zenon
<1>4. PICK b, x, q : /\ q.type = Entry.type /\ q.name.host = Entry.name.host
                     /\ q.name.service = Entry.name.service
                     /\ parsed' = [parsed EXCEPT !.probe = @ \/ x,
                                                 !.questions = IF b THEN @ ELSE <<q>> \o @]
                     /\ pc' # "clear" => ~b
  BY <1>3, Zenon
<1>5. /\ parsed'.probe = (parsed.probe \/ x)
      /\ pc' # "clear" => parsed'.questions = <<q>> \o parsed.questions
  BY <1>4 DEF QuestionsKept, HeapInv
<1>6. Plain' => Plain
  BY <1>1, <1>5 DEF Plain, Response
<1>7. ASSUME pc' # "clear", NEW type \in Kinds, NEW s \in ServicesOf(type)
      PROVE  Hits(parsed'.questions, type, s, InstanceOf(s))
               = Hits(parsed.questions, type, s, InstanceOf(s)) + Present(AsksFor(i, type, s))
  <2>1. AsksFor(i, type, s) <=> QuestionMatches(Entry, type, s)
    BY Zenon DEF OwnQuestion, ValidQuestion, IsDiscovery, AsksFor, Entry
  <2>2. QuestionMatches(Entry, type, s) <=> MatchesAs(q, type, s, InstanceOf(s))
    BY <1>4, Zenon DEF QuestionMatches, MatchesAs
  <2>3. Present(AsksFor(i, type, s)) = Present(MatchesAs(q, type, s, InstanceOf(s)))
    BY <2>1, <2>2, Zenon DEF Present
  <2>4. IsList(parsed.questions) /\ IsList(<<q>>)
    BY OneHit DEF QuestionsKept, HeapInv, IsQuestions
  <2>5. Follows(<<q>>, parsed.questions, parsed'.questions)
    BY <1>5, <1>7, <2>4, Zenon DEF Follows
  <2>6. Hits(parsed'.questions, type, s, InstanceOf(s))
          = Hits(<<q>>, type, s, InstanceOf(s)) + Hits(parsed.questions, type, s, InstanceOf(s))
    BY <2>5, HitsTogether
  <2>7. Hits(<<q>>, type, s, InstanceOf(s)) = Present(MatchesAs(q, type, s, InstanceOf(s)))
    BY OneHit
  <2>8. Hits(parsed.questions, type, s, InstanceOf(s)) \in Nat
    BY <2>4, MarksAre
  <2>9. Present(MatchesAs(q, type, s, InstanceOf(s))) \in Nat
    BY DEF Present
  <2> HIDE DEF Present
  <2> QED BY <2>3, <2>6, <2>7, <2>8, <2>9
<1>8. pc' # "clear" => Adds
  BY <1>7, Zenon DEF Adds
<1> QED BY <1>1, <1>2, <1>6, <1>8, AskedOn

\* One question for every service, before the others.
AskedForAll(R) ==
    /\ IsList(R) /\ Len(R) = Len(Services)
    /\ \A r \in 1 .. Len(R) : /\ R[r].type = "SDPTR"
                              /\ R[r].name.service = Services[Len(R) + 1 - r]

LEMMA ServicesList ==
  /\ Len(Services) \in Nat /\ DOMAIN Services = 1 .. Len(Services)
  /\ \A j, k \in 1 .. Len(Services) : Services[j] = Services[k] => j = k
<1>1. Services \in Seq(STRING)
  BY ServicesAssumption, Zenon
<1>2. Len(Services) \in Nat /\ DOMAIN Services = 1 .. Len(Services)
  BY <1>1
<1>3. \A j, k \in DOMAIN Services : Services[j] = Services[k] => j = k
  BY ServicesAssumption, Zenon
<1> QED BY <1>2, <1>3, Zenon

\* No service is asked for twice, as their types differ.
LEMMA AllHits ==
  ASSUME NEW R, AskedForAll(R), NEW type \in Kinds, NEW s \in ServicesOf(type), NEW h
  PROVE  Hits(R, type, s, h) = Present(type = "SDPTR")
<1> DEFINE n == Len(Services)
           S == {r \in 1 .. Len(R) : MatchesAs(R[r], type, s, h)}
<1>1. Hits(R, type, s, h) = Cardinality(S) /\ n \in Nat /\ Len(R) = n
  BY HitsAre, ServicesList DEF AskedForAll
<1>2. CASE type # "SDPTR"
  <2>1. ASSUME NEW r \in 1 .. Len(R) PROVE ~MatchesAs(R[r], type, s, h)
    <3>1. R[r].type = "SDPTR"
      BY Zenon DEF AskedForAll
    <3> QED BY <1>2, <3>1, Zenon DEF MatchesAs
  <2>2. S = {}
    BY <2>1
  <2> HIDE DEF S
  <2> QED BY <1>1, <1>2, <2>2, FS_EmptySet DEF Present
<1>3. CASE type = "SDPTR"
  <2>1. type \notin Addresses /\ type \notin {"SRV", "TXT"}
    BY <1>3 DEF Addresses
  <2>2. IsService(s) /\ s # ""
    BY <2>1, ServicesAre, ServicesAssumption, Zenon DEF IsService
  <2>3. PICK j \in 1 .. n : Services[j] = s
    BY <2>2, ServicesList, Zenon DEF IsService
  <2>4. ASSUME NEW r \in 1 .. Len(R)
        PROVE  MatchesAs(R[r], type, s, h) <=> r = n + 1 - j
    <3>1. R[r].type = "SDPTR" /\ R[r].name.service = Services[n + 1 - r]
      BY <1>1, Zenon DEF AskedForAll
    <3>2. MatchesAs(R[r], type, s, h) <=> Services[n + 1 - r] = s
      BY <1>3, <2>1, <2>2, <3>1, Zenon DEF MatchesAs
    <3>3. n + 1 - r \in 1 .. n
      BY <1>1
    <3>4. Services[n + 1 - r] = s <=> n + 1 - r = j
      BY <2>3, <3>3, ServicesList, Zenon
    <3>5. n + 1 - r = j <=> r = n + 1 - j
      BY <1>1
    <3> QED BY <3>2, <3>4, <3>5
  <2>5. n + 1 - j \in 1 .. Len(R)
    BY <1>1, <2>3
  <2>6. S = {n + 1 - j}
    BY <2>4, <2>5
  <2> HIDE DEF S
  <2>7. Cardinality({n + 1 - j}) = 1
    BY FS_Singleton
  <2> QED BY <1>1, <1>3, <2>6, <2>7 DEF Present
<1> QED BY <1>2, <1>3

LEMMA DiscoveryAsks == QuestionsKept /\ DiscoveryQuestion => KnownInv'
<1> SUFFICES ASSUME QuestionsKept, DiscoveryQuestion PROVE KnownInv'
  OBVIOUS
<1>1. Question /\ UNCHANGED <<packet, search_result>> /\ NamesSame
  BY Zenon DEF DiscoveryQuestion, KeepForRecords, rx, ours, found, NamesSame
<1>2. pc' = "clear" \/ (pc' = "questions" /\ i' = i + 1)
  BY <1>1, Zenon DEF DiscoveryQuestion, Question, NextEntry
<1>3. \E R : /\ parsed' = [parsed EXCEPT !.discovery = TRUE, !.questions = R \o @]
             /\ pc' # "clear" => AskedForAll(R)
  <2> DEFINE all == [j \in 1 .. 4 * Len(Services) |-> IF j % 4 = 1 THEN "question" ELSE "string"]
             S(got, k) == IF 4 * k <= got THEN 3 ELSE (got % 4) - 1
             name(k)   == [host |-> "", service |-> Services[k]]
             asked(got) == [k \in 1 .. (got + 3) \div 4 |->
                              [type |-> "SDPTR", strings |-> S(got, k), name |-> name(k)]]
             Took(got) == /\ parsed' = [parsed EXCEPT !.discovery = TRUE,
                                                      !.questions = Reverse(asked(got)) \o @]
                          /\ pc' # "clear" => got = Len(all)
  <2>1. \E got \in 0 .. Len(all) : Took(got)
    BY Zenon DEF DiscoveryQuestion
  <2>2. \A k : name(k).service = Services[k]
    BY Zenon
  <2> HIDE DEF name
  <2>3. Len(Services) \in Nat /\ Len(all) = 4 * Len(Services)
    <3>1. 4 * Len(Services) \in Nat
      BY ServicesList
    <3>2. ASSUME NEW n \in Nat
          PROVE  Len([j \in 1 .. n |-> IF j % 4 = 1 THEN "question" ELSE "string"]) = n
      OBVIOUS
    <3> QED BY <3>1, <3>2, ServicesList
  <2> HIDE DEF all
  <2>4. PICK got \in 0 .. Len(all) : Took(got)
    BY <2>1
  <2> DEFINE R == Reverse(asked(got))
  <2>5. ASSUME pc' # "clear" PROVE AskedForAll(R)
    <3> DEFINE m == Len(Services)
    <3>1. m \in Nat /\ (got + 3) \div 4 = m
      <4>1. \A n \in Nat : (4 * n + 3) \div 4 = n
        OBVIOUS
      <4>2. got = 4 * m
        BY <2>3, <2>4, <2>5
      <4> QED BY <2>3, <4>1, <4>2
    <3> DEFINE A == {asked(got)[k] : k \in 1 .. m}
    <3>2. /\ asked(got) \in [1 .. m -> A]
          /\ \A k \in 1 .. m : /\ asked(got)[k].type = "SDPTR"
                               /\ asked(got)[k].name.service = Services[k]
      <4>1. \A k \in 1 .. m : /\ asked(got)[k].type = "SDPTR"
                              /\ asked(got)[k].name = name(k)
        BY <3>1
      <4>2. asked(got) \in [1 .. m -> A]
        BY <3>1
      <4> HIDE DEF asked, m
      <4> QED BY <2>2, <4>1, <4>2
    <3> HIDE DEF A, asked, m, S
    <3>3. asked(got) \in Seq(A) /\ Len(asked(got)) = m
      BY <3>1, <3>2
    <3>4. R = [r \in 1 .. m |-> asked(got)[m - r + 1]]
      BY <3>3 DEF Reverse
    <3>5. \A r \in 1 .. m : m - r + 1 \in 1 .. m /\ m - r + 1 = m + 1 - r
      BY <3>1
    <3>6. \A r \in 1 .. m : R[r] = asked(got)[m + 1 - r] /\ R[r] \in A
      BY <3>2, <3>4, <3>5
    <3> HIDE DEF R
    <3>7. R \in [1 .. m -> A]
      BY <3>4, <3>6
    <3>8. R \in Seq(A) /\ Len(R) = m
      BY <3>1, <3>7
    <3>9. IsList(R)
      BY <3>8, SeqIsList
    <3>10. \A r \in 1 .. m : R[r].type = "SDPTR" /\ R[r].name.service = Services[m + 1 - r]
      BY <3>2, <3>5, <3>6
    <3> QED BY <3>8, <3>9, <3>10 DEF AskedForAll, m
  <2>6. parsed' = [parsed EXCEPT !.discovery = TRUE, !.questions = R \o @]
    BY <2>4
  <2> HIDE DEF R
  <2> QED BY <2>5, <2>6, Zenon
<1>4. PICK R : /\ parsed' = [parsed EXCEPT !.discovery = TRUE, !.questions = R \o @]
               /\ pc' # "clear" => AskedForAll(R)
  BY <1>3, Zenon
<1>5. parsed'.probe = parsed.probe /\ parsed'.questions = R \o parsed.questions
  BY <1>4 DEF QuestionsKept, HeapInv
<1>6. Plain' => Plain
  BY <1>1, <1>5 DEF Plain, Response
<1>7. ASSUME pc' # "clear", NEW type \in Kinds, NEW s \in ServicesOf(type)
      PROVE  Hits(parsed'.questions, type, s, InstanceOf(s))
               = Hits(parsed.questions, type, s, InstanceOf(s)) + Present(AsksFor(i, type, s))
  <2>1. AsksFor(i, type, s) <=> type = "SDPTR"
    <3>1. AsksFor(i, type, s) <=> type = "SDPTR" /\ IsService(s)
      BY Zenon DEF DiscoveryQuestion, ValidQuestion, IsDiscovery, AsksFor, Entry
    <3>2. type = "SDPTR" => type \notin Addresses
      BY DEF Addresses
    <3> QED BY <3>1, <3>2, ServicesAre, Zenon
  <2>2. AskedForAll(R)
    BY <1>4, <1>7, Zenon
  <2>3. IsList(parsed.questions) /\ IsList(R)
    BY <2>2 DEF QuestionsKept, HeapInv, IsQuestions, AskedForAll
  <2>4. Follows(R, parsed.questions, parsed'.questions)
    BY <1>5, <2>3, Zenon DEF Follows
  <2>5. Hits(parsed'.questions, type, s, InstanceOf(s))
          = Hits(R, type, s, InstanceOf(s)) + Hits(parsed.questions, type, s, InstanceOf(s))
    BY <2>4, HitsTogether
  <2>6. Hits(R, type, s, InstanceOf(s)) = Present(type = "SDPTR")
    BY <2>2, AllHits
  <2>7. Present(AsksFor(i, type, s)) = Present(type = "SDPTR") /\ Present(type = "SDPTR") \in Nat
    BY <2>1 DEF Present
  <2>8. Hits(parsed.questions, type, s, InstanceOf(s)) \in Nat
    BY <2>3, MarksAre
  <2> HIDE DEF Present
  <2> QED BY <2>5, <2>6, <2>7, <2>8
<1>8. pc' # "clear" => Adds
  BY <1>7, Zenon DEF Adds
<1> QED BY <1>1, <1>2, <1>6, <1>8, AskedOn

\* At the beginning nothing is asked, and nothing is behind the reader.
LEMMA ArriveKnown ==
  ASSUME CountInv, CountInv', HeapInv, KnownInv, mdns_parse_packet
  PROVE  KnownInv'
<1>1. pc = "idle" /\ UNCHANGED <<i, parsed, search_result>> /\ pc' \in {"idle", "questions"}
  BY Zenon DEF mdns_parse_packet, found
<1>2. search_result' = 0 /\ i' = 1 /\ parsed' = NoParsed
  BY <1>1 DEF KnownInv, CountInv, Position, HeapInv
<1>3. parsed'.questions = <<>>
  BY <1>2 DEF NoParsed
<1>4. ASSUME NEW type, NEW s PROVE LeftOver(type, s)'
  <2> DEFINE Q == parsed'.questions
             A == AsksIn(type, s)'
             B == SaysIn(type, s)'
  <2>1. Asking' \in Nat /\ Questions' = 1 .. Asking'
    BY DEF CountInv, Position, Asking, Questions
  <2>2. \A k \in Questions' : k \in Nat \ {0}
    BY <2>1
  <2>3. \A k \in Records' : k \in Nat \ {0}
    BY <2>1 DEF Records, Asking
  <2>4. \A k \in A : k \in Nat \ {0}
    BY <2>2 DEF AsksIn
  <2>5. \A k \in B : k \in Nat \ {0}
    BY <2>3 DEF SaysIn
  <2>6. Hits(Q, type, s, InstanceOf(s)') = 0
    BY <1>3, NoHits
  <2> HIDE DEF A, B
  <2>7. Below(A, 1) = {} /\ Below(B, 1) = {}
    BY <2>4, <2>5, BelowFirst
  <2>8. Left(Cardinality(Below(A, 1)), Cardinality(Below(B, 1))) = 0
    BY <2>7, FS_EmptySet DEF Left
  <2> HIDE DEF Q
  <2>9. LeftOver(type, s)' <=>
            Hits(Q, type, s, InstanceOf(s)')
              = Left(Cardinality(Below(A, i')), Cardinality(Below(B, i')))
    BY Zenon DEF LeftOver, A, B, Q
  <2> QED BY <1>2, <2>6, <2>8, <2>9
<1>5. pc' # "dispatch" /\ pc' # "reply"
  BY <1>1
<1> QED BY <1>2, <1>4, <1>5, Zenon DEF KnownInv

\* At the end the reader is behind all of the entries.
LEMMA EndedKnown ==
  ASSUME CountInv, PacketInv, KnownInv, pc \in {"questions", "records"}, pc' = "reply",
         UNCHANGED <<packet, parsed, search_result>>, NamesSame,
         i > Asking, \A k \in Records : k < i
  PROVE  KnownInv'
<1>1. Response' <=> Response
  BY DEF Response
<1>2. ~Response' => search_result' = 0
  BY <1>1 DEF KnownInv
<1>3. ASSUME Plain', NEW type \in Kinds, NEW s \in ServicesOf(type)
      PROVE  Hits(parsed'.questions, type, s, InstanceOf(s)')
               = Left(Cardinality(AsksIn(type, s)'), Cardinality(SaysIn(type, s)'))
  <2>1. Plain
    BY <1>1, <1>3 DEF Plain
  <2>2. LeftOver(type, s)
    BY <2>1, Zenon DEF KnownInv
  <2>3. AsksIn(type, s)' = AsksIn(type, s) /\ SaysIn(type, s)' = SaysIn(type, s)
    <3>1. parsed'.discovery = parsed.discovery
      OBVIOUS
    <3> QED BY <3>1, AsksStay, SaysStay
  <2>4. InstanceOf(s)' = InstanceOf(s)
    BY NamesStay, Zenon
  <2>5. Below(AsksIn(type, s), i) = AsksIn(type, s)
    <3>1. \A k \in AsksIn(type, s) : k < i
      BY Places
    <3> QED BY <3>1 DEF Below
  <2>6. Below(SaysIn(type, s), i) = SaysIn(type, s)
    <3>1. \A k \in SaysIn(type, s) : k < i
      BY DEF SaysIn
    <3> QED BY <3>1 DEF Below
  <2> QED BY <2>2, <2>3, <2>4, <2>5, <2>6 DEF LeftOver
<1>4. Plain' => \A type \in Kinds : \A s \in ServicesOf(type)' :
          Hits(parsed'.questions, type, s, InstanceOf(s)')
            = Left(Cardinality(AsksIn(type, s)'), Cardinality(SaysIn(type, s)'))
  BY <1>3 DEF ServicesOf
<1>5. pc' # "idle" /\ pc' # "dispatch" /\ pc' # "questions" /\ pc' # "records"
  OBVIOUS
<1> QED BY <1>2, <1>4, <1>5, Zenon DEF KnownInv

LEMMA DoneKnown ==
  ASSUME CountInv, PacketInv, KnownInv, QuestionsDone \/ RecordsDone
  PROVE  KnownInv'
<1>1. CASE QuestionsDone
  <2>1. /\ pc = "questions" /\ qs = 0 /\ pc' \in {"clear", "records", "reply"}
        /\ UNCHANGED <<i, packet, parsed, search_result>> /\ NamesSame
        /\ pc' = "reply" => ~(packet.answers + packet.servers + packet.additional > 0)
    BY <1>1 DEF QuestionsDone, KeepForRecords, rx, ours, found, NamesSame
  <2>2. CASE pc' # "reply"
    BY <2>1, <2>2, QuietKnown
  <2>3. CASE pc' = "reply"
    <3>1. i > Asking
      BY <2>1 DEF CountInv, Position, Asking
    <3>2. Records = {}
      BY <2>1, <2>3 DEF Records, CountInv, Position, PacketInv
    <3> QED BY <2>1, <2>3, <3>1, <3>2, EndedKnown
  <2> QED BY <2>2, <2>3
<1>2. CASE RecordsDone
  <2>1. /\ pc = "records" /\ Ended /\ pc' = "reply"
        /\ UNCHANGED <<packet, parsed, search_result>> /\ NamesSame
    BY <1>2 DEF RecordsDone, rx, ours, found, NamesSame
  <2>2. \A k \in Records : k < i
    BY <2>1 DEF Ended, Records, CountInv, Position, PacketInv
  <2>3. i > Asking
    BY <2>1 DEF CountInv, Position, Asking
  <2> QED BY <2>1, <2>2, <2>3, EndedKnown
<1> QED BY <1>1, <1>2

LEMMA EndKnown ==
  ASSUME CursorInv, KnownInv, Reply \/ clear_rx_packet \/ ProbingDone \/ UNCHANGED vars
  PROVE  KnownInv'
<1>1. CASE Reply
  <2>1. pc = "reply" /\ pc' = "clear" /\ UNCHANGED <<packet, search_result>>
    BY <1>1, Zenon DEF Reply, rx
  <2> QED BY <2>1, QuietKnown
<1>2. CASE clear_rx_packet
  <2>1. pc' = "idle" /\ search_result' = 0
    BY <1>2, Zenon DEF clear_rx_packet
  <2> QED BY <2>1 DEF KnownInv
<1>3. CASE ProbingDone
  <2>1. pc = "idle" /\ pc' = "idle" /\ UNCHANGED search_result
    BY <1>3, Zenon DEF ProbingDone, found
  <2> QED BY <2>1 DEF KnownInv
<1>4. CASE UNCHANGED vars
  <2>1. UNCHANGED <<pc, i, packet, parsed, search_result, cls, service>> /\ NamesSame
    BY <1>4, Zenon DEF vars, rx, ours, found, NamesSame
  <2>2. (Discovers(Entry)' <=> Discovers(Entry)) /\ ServiceOf(Entry)' = ServiceOf(Entry)
    BY <2>1, DiscoversStays
  <2>3. CASE pc \notin {"idle", "reply"}
    <3>1. pc \in {"questions", "records", "dispatch", "clear"}
      BY <2>3 DEF CursorInv
    <3>2. pc = "dispatch" => /\ cls = "discovery" <=> Discovers(Entry)
                             /\ cls = "ours" => service = ServiceOf(Entry)
                             /\ ~Response => cls # "foreign"
      BY Zenon DEF KnownInv
    <3>3. /\ cls' = cls /\ service' = service /\ pc' = pc
          /\ UNCHANGED <<packet, parsed, i, search_result>> /\ NamesSame
      BY <2>1
    <3> QED BY <2>2, <2>3, <3>1, <3>2, <3>3, QuietKnown
  <2>4. CASE pc = "idle"
    BY <2>1, <2>4 DEF KnownInv
  <2>5. CASE pc = "reply"
    <3>1. \A type, s : /\ AsksIn(type, s)' = AsksIn(type, s) /\ SaysIn(type, s)' = SaysIn(type, s)
                       /\ InstanceOf(s)' = InstanceOf(s)
      <4>1. parsed'.discovery = parsed.discovery
        BY <2>1
      <4> QED BY <2>1, <4>1, AsksStay, SaysStay, NamesStay
    <3>2. \A type : ServicesOf(type)' = ServicesOf(type)
      BY DEF ServicesOf
    <3>3. (Plain' <=> Plain) /\ (Response' <=> Response)
      BY <2>1 DEF Plain, Response
    <3> QED BY <2>1, <2>5, <3>1, <3>2, <3>3 DEF KnownInv
  <2> QED BY <2>3, <2>4, <2>5
<1> QED BY <1>1, <1>2, <1>3, <1>4

LEMMA KnownInit == Init => KnownInv
<1> SUFFICES ASSUME Init PROVE KnownInv
  OBVIOUS
<1>1. pc = "idle" /\ search_result = 0
  BY Zenon DEF Init
<1> QED BY <1>1 DEF KnownInv

LEMMA KnownStep ==
  CountInv /\ CountInv' /\ CursorInv /\ PacketInv /\ HeapInv /\ StateInv /\ DefendInv /\ KnownInv
    /\ [Next]_vars => KnownInv'
<1> SUFFICES ASSUME CountInv, CountInv', CursorInv, PacketInv, HeapInv, StateInv, DefendInv, KnownInv,
                    [Next]_vars
             PROVE  KnownInv'
  OBVIOUS
<1>1. QuestionsKept /\ KnownBy
  BY Zenon DEF QuestionsKept, KnownBy
<1>2. CASE mdns_parse_packet
  BY <1>2, ArriveKnown
<1>3. CASE MalformedQuestion \/ SkippedQuestion \/ DiscoveryQuestion \/ OwnQuestion
  BY <1>1, <1>3, SkippedAsks, DiscoveryAsks, OwnAsks, Zenon
<1>4. CASE QuestionsDone \/ RecordsDone
  BY <1>4, DoneKnown
<1>5. CASE MalformedRecord \/ SkippedRecord \/ OwnRecord \/ ForeignRecord
  BY <1>5, SkippedKnown, ClassifiedKnown, Zenon
<1>6. CASE PtrRecord \/ SrvRecord \/ TxtRecord \/ AddressRecord \/ OtherRecord
  BY <1>1, <1>6, PtrKnown, SrvKnown, TxtKnown, AddressKnown, OtherKnown, Zenon
<1>7. CASE Reply \/ clear_rx_packet \/ ProbingDone \/ UNCHANGED vars
  BY <1>7, EndKnown
<1> QED BY <1>2, <1>3, <1>4, <1>5, <1>6, <1>7, Zenon DEF Next, Step, Finished

\* In the words of the property.
LEMMA KnownIsLeftOut == HeapInv /\ KnownInv => KnownAnswersAreLeftOut
<1> SUFFICES ASSUME HeapInv, KnownInv, pc = "reply", Plain,
                    NEW type \in Kinds, NEW s \in ServicesOf(type)
             PROVE  LET n == AskedFor(type, s) - Known(type, s)
                    IN  Cardinality({k \in DOMAIN parsed.questions :
                            QuestionMatches(parsed.questions[k], type, s)}) = IF n < 0 THEN 0 ELSE n
  BY Zenon DEF KnownAnswersAreLeftOut, Plain, Kinds, ServicesOf
<1> DEFINE Q == parsed.questions
           h == InstanceOf(s)
<1>1. Hits(Q, type, s, h) = Left(Cardinality(AsksIn(type, s)), Cardinality(SaysIn(type, s)))
  BY Zenon DEF KnownInv
<1>2. IsList(Q)
  BY DEF HeapInv, IsQuestions
<1>3. DOMAIN Q = 1 .. Len(Q)
  BY <1>2, ListIs
<1>4. {k \in DOMAIN Q : QuestionMatches(Q[k], type, s)}
        = {k \in 1 .. Len(Q) : MatchesAs(Q[k], type, s, h)}
  BY <1>3, MatchesAre
<1>5. Hits(Q, type, s, h) = Cardinality({k \in 1 .. Len(Q) : MatchesAs(Q[k], type, s, h)})
  BY <1>2, HitsAre
<1>6. AskedFor(type, s) = Cardinality(AsksIn(type, s))
  BY Zenon DEF AskedFor, AsksIn, AsksFor
<1>7. Known(type, s) = Cardinality(SaysIn(type, s))
  BY Zenon DEF Known, SaysIn, Says
<1> QED BY <1>1, <1>4, <1>5, <1>6, <1>7 DEF Left

\* A query is answered with what was asked and is not known to who asked, however
\* the questions and known answers are ordered: each record takes out the first
\* question it answers (_mdns_remove_parsed_question, lines 275, 277, 372, 474, 518
\* and 577), and no other.
THEOREM KnownAnswersAreDropped == Spec => []KnownAnswersAreLeftOut
<1>1. Init => KnownInv
  BY KnownInit
<1>2. CountInv /\ CountInv' /\ PacketInv /\ HeapInv /\ Typed /\ DefendInv /\ KnownInv /\ [Next]_vars
         => KnownInv'
  BY KnownStep DEF Typed
<1>3. HeapInv /\ KnownInv => KnownAnswersAreLeftOut
  BY KnownIsLeftOut
<1> QED BY <1>1, <1>2, <1>3, Counted, PacketsAreShaped, TypesAreKept, RecordsAreWon, PTL DEF Spec
=============================================================================
