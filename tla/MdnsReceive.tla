---------------------------- MODULE MdnsReceive ----------------------------
(***************************************************************************)
(* mdns_parse_packet, the code under test of examples/08_afl_mdns_gcov     *)
(* (mdns_parser.py, code_under_test), in the loop of its test (test_code). *)
(* A packet is a header and its entries: the questions, then the records.  *)
(* Names, data and lengths are what the function asks of them.  What it    *)
(* calls is the mDNS component, which is not in the repository: the lists  *)
(* of searches, browses and services, the state of the interface, the      *)
(* answers that are scheduled.  Every malloc may fail.                     *)
(* An entry's "form" is how its bytes end: ok; badname and short, which is *)
(* rejected before it is looked at; baddata and shortdata, the name in a   *)
(* record's data cannot be read, or the data ends before the port.         *)
(***************************************************************************)
EXTENDS Integers, FiniteSets, SequencesExt

CONSTANTS Shapes,        \* Shapes[k]: the k-th packet is of one of these
          Starts,        \* names and state of the interface to begin with
          Services,      \* own services, a sequence
          SelfServices,  \* those on this host, not on a delegated one
          Delegated,     \* delegated host names
          Mangled,       \* _mdns_mangle_name
          Queries,       \* what mdns_test_query adds before each packet
          Browses,       \* the services that are browsed
          MaxResults     \* of a search

NULL == "NULL"         \* no name is it

ASSUME ShapesAssumption ==
    /\ Len(Shapes) \in Nat /\ DOMAIN Shapes = 1 .. Len(Shapes)
    /\ \A k \in DOMAIN Shapes : \A p \in Shapes[k] :
          /\ {"questions", "answers", "servers"} \subseteq DOMAIN p.header
          /\ "entries" \notin DOMAIN p.header
          /\ p.header.questions \in Nat /\ p.header.answers \in Nat /\ p.header.servers \in Nat
          /\ "additional" \in DOMAIN p.header /\ p.header.additional \in Nat
          /\ p.asked \in Nat /\ p.said \in Nat
          /\ \A e \in p.asks \cup p.says : /\ e.class \in Nat /\ e.cmp \in -1 .. 2
                                           /\ e.name.host # NULL
ASSUME StartsAssumption     == \A s \in Starts : s.pcb \in {"probing", "running"}
ASSUME QueriesAssumption    ==   \* a search that is added has no results yet
    Queries \in Seq([type : {"PTR", "ANY"}, host : STRING, service : STRING, facts : {{}}])
ASSUME BrowsesAssumption    == Browses \in Seq(STRING) /\ \A k \in DOMAIN Browses : Browses[k] # NULL
ASSUME ServicesAssumption   ==   \* of different types, as the test adds them
                               /\ Services \in Seq(STRING) /\ (\A k \in DOMAIN Services : Services[k] # "")
                               /\ \A j, k \in DOMAIN Services : Services[j] = Services[k] => j = k
                               /\ SelfServices \subseteq {Services[k] : k \in DOMAIN Services}
ASSUME MaxResultsAssumption == MaxResults \in Nat \ {0}

VARIABLES
    pc, nth, packet,
    i,              \* content: the entry that is read next
    qs, recordIndex,
    parsed,         \* parsed_packet
    cls, service,   \* discovery, ours or foreign, and the service, of a record
    search_result, browse_result,   \* positions in their lists, 0 for NULL
    bufs,           \* browse_result_instance, _service and _proto, NULL if absent
    sync,           \* out_sync_browse
    heap,           \* blocks allocated here and not yet freed or handed over
    do_not_reply, answered,
    hostname, default_instance, instance, pcb,
    scheduled, searches, browses,
    told,           \* history: the results each browse was told of
    cut             \* history: a packet was given up after it changed a browse

rx    == <<nth, packet>>
lists == <<scheduled, searches, browses, told, cut>>
ours  == <<hostname, default_instance, instance, pcb>>
found == <<search_result, browse_result, bufs, sync>>
vars  == <<pc, i, qs, recordIndex, parsed, cls, service, heap, do_not_reply, answered,
           rx, lists, ours, found>>

NoPacket  == [flags |-> "query", questions |-> 0, answers |-> 0, servers |-> 0, additional |-> 0,
              entries |-> <<>>]
NoParsed  == [discovery |-> FALSE, probe |-> FALSE, questions |-> <<>>, records |-> <<>>]
NoSync    == [browse |-> 0, changes |-> {}]
NoSearch  == [type |-> "OFF", host |-> "", service |-> "", facts |-> {}]
NoBufs    == [instance |-> NULL, service |-> NULL, proto |-> NULL]
Blocks    == {"parsed", "question", "record", "string", "instance", "service", "proto", "sync"}
IsService(s) == \E k \in DOMAIN Services : Services[k] = s
Addresses == {"A", "AAAA"}
Response  == packet.flags \in {"authoritative", "response"}
authoritative == packet.flags = "authoritative"
distributed   == packet.flags = "distributed"
Entry     == packet.entries[i]
Ended     == i > Len(packet.entries)

-----------------------------------------------------------------------------
(* The mDNS component. *)

\* Is n the name, or an instance, of a service of ours, or a host of ours?
InstanceOf(s) == IF instance[s] # "" THEN instance[s]
                 ELSE IF default_instance # "" THEN default_instance ELSE hostname
mdns_name_is_ours(n) ==
    IF n.service = "" THEN n.host # "" /\ n.host \in {hostname} \cup Delegated
    ELSE IsService(n.service) /\ n.host \in {"", InstanceOf(n.service)}
mdns_name_is_selfhosted(n) ==
    IF n.service = "" THEN n.host = hostname ELSE n.service \in SelfServices
mdns_name_is_discovery(n, type) == n.service = "_services" /\ type = "PTR"

\* A search is for the instances of a service (PTR), or for all of one instance
\* or host (ANY); a browse is the former.  An address is for those who know its
\* host.  Facts are <<kind, instance, value>>.
Hosts(facts) == {f[3] : f \in {g \in facts : g[1] = "host"}}
Matches(s, n, type) ==
    \/ s.type = "PTR" /\ type \notin Addresses /\ n.service = s.service
    \/ s.type = "ANY" /\ type \in {"SRV", "TXT"} /\ <<n.host, n.service>> = <<s.host, s.service>>
    \/ type \in Addresses /\ n.service = ""
       /\ n.host \in IF s.type = "ANY" THEN {s.host} ELSE Hosts(s.facts)
mdns_priv_query_find_from(k, n, type) ==
    LET m == {j \in k .. Len(searches) : Matches(searches[j], n, type)}
    IN  IF m = {} THEN 0 ELSE CHOOSE j \in m : \A l \in m : j <= l
mdns_browse_find(n, type) ==
    LET m == {b \in DOMAIN Browses :
                 Matches([type |-> "PTR", service |-> Browses[b], facts |-> browses[b]], n, type)}
    IN  IF m = {} THEN 0 ELSE CHOOSE b \in m : \A c \in m : b <= c

mdns_priv_query_result_add(S, facts) ==
    searches' = [k \in DOMAIN searches |->
                    IF k \in S THEN [searches[k] EXCEPT !.facts = @ \cup facts] ELSE searches[k]]

\* A browse is changed if it is the one the packet's sync object is for, and
\* what is new is noted there.
mdns_browse_result_add(facts) ==
    IF browse_result = 0 \/ browse_result # sync.browse THEN UNCHANGED <<browses, sync>>
    ELSE /\ browses' = [browses EXCEPT ![browse_result] = @ \cup facts]
         /\ sync' = [sync EXCEPT !.changes = @ \cup (facts \ browses[browse_result])]

\* The first question that the answer is for is taken out of the list and freed.
QuestionMatches(q, type, s) ==
    /\ q.type = type
    /\ type \notin Addresses => s # "" /\ q.name.service = s
    /\ type \in {"SRV", "TXT"} => q.name.host = InstanceOf(s)
FirstMatch(type, s) == SelectInSeq(parsed.questions, LAMBDA q : QuestionMatches(q, type, s))
Without(type, s) ==
    LET k == FirstMatch(type, s)
    IN  IF k = 0 THEN parsed.questions ELSE RemoveAt(parsed.questions, k)
FreedWith(type, s) ==
    LET k == FirstMatch(type, s)
    IN  IF k = 0 THEN heap
        ELSE [heap EXCEPT !["question"] = @ - 1, !["string"] = @ - parsed.questions[k].strings]
mdns_remove_parsed_question(type, s) ==
    /\ parsed' = [parsed EXCEPT !.questions = Without(type, s)]
    /\ heap' = FreedWith(type, s)
mdns_remove_scheduled_answer(type, s) == scheduled' = scheduled \ {<<type, s>>}

\* The interface probes again, unless there is no memory for the probe.
mdns_init_pcb_probe == pcb' \in {pcb, "probing"}

-----------------------------------------------------------------------------
(* The packet and its questions. *)

\* got of the blocks were allocated, one after the other.
Allocated(h, blocks, got) ==
    [b \in Blocks |-> h[b] + Cardinality({j \in 1 .. got : blocks[j] = b})]
Malloc(blocks, got) == heap' = Allocated(heap, blocks, got)

Init ==
    /\ pc = "idle" /\ nth = 1 /\ packet = NoPacket
    /\ i = 1 /\ qs = 0 /\ recordIndex = 0
    /\ parsed = NoParsed
    /\ cls = "foreign" /\ service = ""
    /\ search_result = 0 /\ browse_result = 0 /\ bufs = NoBufs /\ sync = NoSync
    /\ heap = [b \in Blocks |-> 0] /\ do_not_reply = FALSE /\ answered = FALSE
    /\ \E s \in Starts : /\ hostname = s.hostname /\ default_instance = s.default_instance
                         /\ instance = s.instance /\ pcb = s.pcb
    /\ scheduled = {} /\ searches = <<>> /\ cut = FALSE
    /\ browses = [b \in DOMAIN Browses |-> {}] /\ told = [b \in DOMAIN Browses |-> {}]

\* A packet of our own, one without a header, one from a wrong port, and
\* questions when there is no name to answer with.
Ignored(p) == \/ p.own \/ p.short
              \/ p.flags = "authoritative" /\ p.src_port # "MDNS_SERVICE_PORT"
              \/ p.questions # 0 /\ p.answers = 0 /\ hostname = ""

\* A packet of a shape: its header, and entries of those that it may have.
Arrives(p) ==
    \E q \in [1 .. p.asked -> p.asks], r \in [1 .. p.said -> p.says] :
        packet' = [f \in DOMAIN p.header \cup {"entries"} |->
                      IF f = "entries" THEN q \o r ELSE p.header[f]]

\* The test adds its queries and hands the packet over.
mdns_parse_packet ==
    /\ pc = "idle" /\ nth <= Len(Shapes) /\ nth' = nth + 1
    /\ searches' = searches \o Queries
    /\ \/ pc' = "idle" /\ packet' = NoPacket /\ UNCHANGED <<qs, heap>>   \* ignored, or no memory
       \/ /\ \E p \in Shapes[nth] : Arrives(p)
          /\ ~Ignored(packet') /\ qs' = packet'.questions % 256
          /\ Malloc(<<"parsed">>, 1) /\ pc' = "questions"
    /\ UNCHANGED <<i, recordIndex, parsed, cls, service, do_not_reply, answered,
                   ours, found, scheduled, browses, told, cut>>

Question == pc = "questions" /\ qs > 0 /\ qs' = qs - 1
NextEntry == i' = i + 1
KeepForRecords == UNCHANGED <<recordIndex, cls, service, do_not_reply, answered, rx, lists, ours, found>>

MalformedQuestion ==
    /\ Question /\ (Ended \/ Entry.form # "ok") /\ pc' = "clear"
    /\ UNCHANGED <<i, parsed, heap>> /\ KeepForRecords

IsDiscovery == mdns_name_is_discovery(Entry.name, Entry.type)
ValidQuestion == ~Ended /\ Entry.form = "ok" /\ Entry.class = 1 /\ ~Entry.name.invalid

SkippedQuestion ==
    /\ Question /\ ~Ended /\ Entry.form = "ok"
    /\ ~ValidQuestion \/ (~IsDiscovery /\ ~mdns_name_is_ours(Entry.name))
    /\ NextEntry /\ UNCHANGED <<pc, parsed, heap>> /\ KeepForRecords

\* A question for every service, and three strings for each.
DiscoveryQuestion ==
    /\ Question /\ ValidQuestion /\ IsDiscovery
    /\ LET all == [j \in 1 .. 4 * Len(Services) |-> IF j % 4 = 1 THEN "question" ELSE "string"]
       IN  \E got \in 0 .. Len(all) :
             LET Strings(k) == IF 4 * k <= got THEN 3 ELSE (got % 4) - 1
                 asked == [k \in 1 .. (got + 3) \div 4 |->
                             [type |-> "SDPTR", strings |-> Strings(k),
                              name |-> [host |-> "", service |-> Services[k]]]]
             IN  /\ Malloc(all, got)
                 /\ parsed' = [parsed EXCEPT !.discovery = TRUE,
                                             !.questions = Reverse(asked) \o @]
                 /\ IF got = Len(all) THEN NextEntry /\ UNCHANGED pc
                                      ELSE pc' = "clear" /\ UNCHANGED i
    /\ KeepForRecords

\* _mdns_strdup_check copies what is not empty: host, service, proto, domain.
OwnQuestion ==
    /\ Question /\ ValidQuestion /\ ~IsDiscovery /\ mdns_name_is_ours(Entry.name)
    /\ LET n   == Entry.name
           all == <<"question", "string">>
                    \o (IF n.host = "" THEN <<>> ELSE <<"string">>)
                    \o (IF n.service = "" THEN <<>> ELSE <<"string", "string">>)
           q(got) == [type |-> Entry.type, strings |-> got - 1,
                      name |-> [host |-> n.host, service |-> n.service]]
       IN  \E got \in 0 .. Len(all) :
             /\ Malloc(all, got)
             /\ parsed' = [parsed EXCEPT
                             !.probe = @ \/ (Entry.type = "ANY" /\ n.host # ""),
                             !.questions = IF got = 0 THEN @ ELSE <<q(got)>> \o @]
             /\ IF got = Len(all) THEN NextEntry /\ UNCHANGED pc
                                  ELSE pc' = "clear" /\ UNCHANGED i
    /\ KeepForRecords

QuestionsDone ==
    /\ pc = "questions" /\ qs = 0
    /\ pc' = IF packet.questions # 0 /\ parsed.questions = <<>> /\ ~parsed.discovery
                  /\ packet.answers = 0 THEN "clear"
             ELSE IF packet.answers + packet.servers + packet.additional > 0 THEN "records"
             ELSE "reply"
    /\ UNCHANGED <<i, qs, parsed, heap>> /\ KeepForRecords

-----------------------------------------------------------------------------
(* A record: whose it is, and who is looking for it. *)

Record == pc = "records" /\ ~Ended
KeepForQuestions == UNCHANGED <<qs, answered, rx>>
Section == IF recordIndex >= packet.answers + packet.servers THEN "EXTRA"
           ELSE IF recordIndex >= packet.answers THEN "NS" ELSE "ANSWER"
WellFormed == Entry.form \notin {"badname", "short"}
OfDiscovery == parsed.discovery /\ IsDiscovery
IsOurs == ~OfDiscovery /\ ~Entry.name.sub /\ mdns_name_is_ours(Entry.name)
Sought == Response /\ Section # "NS"

MalformedRecord ==
    /\ Record /\ ~WellFormed /\ pc' = "clear"
    /\ UNCHANGED <<i, recordIndex, parsed, cls, service, heap, do_not_reply, lists, ours, found>>
    /\ KeepForQuestions

\* Mutant of SkippedRecord: it is not counted.
SkippedRecord_NotCounted ==
    /\ Record /\ WellFormed /\ NextEntry
    /\ Entry.type \in {"NSEC", "OPT"} \/ (~OfDiscovery /\ ~IsOurs /\ ~Sought)
    /\ UNCHANGED <<pc, recordIndex, parsed, cls, service, heap, do_not_reply, lists, ours, found>>
    /\ KeepForQuestions

SkippedRecord ==
    /\ Record /\ WellFormed /\ recordIndex' = recordIndex + 1 /\ NextEntry
    /\ Entry.type \in {"NSEC", "OPT"} \/ (~OfDiscovery /\ ~IsOurs /\ ~Sought)
    /\ UNCHANGED <<pc, parsed, cls, service, heap, do_not_reply, lists, ours, found>>
    /\ KeepForQuestions

\* What was found for the record before stays in search_result and browse_result.
OwnRecord ==
    /\ Record /\ WellFormed /\ recordIndex' = recordIndex + 1
    /\ Entry.type \notin {"NSEC", "OPT"} /\ (OfDiscovery \/ IsOurs)
    /\ cls' = (IF OfDiscovery THEN "discovery" ELSE "ours")
    /\ service' = IF IsOurs /\ IsService(Entry.name.service) THEN Entry.name.service ELSE ""
    /\ pc' = "dispatch"
    /\ UNCHANGED <<i, parsed, heap, do_not_reply, lists, ours, found>> /\ KeepForQuestions

FindSearch_OrLast == LET k == mdns_priv_query_find_from(1, Entry.name, Entry.type)
                     IN  IF k = 0 THEN search_result ELSE k
FindSearch == mdns_priv_query_find_from(1, Entry.name, Entry.type)

ForeignRecord ==
    /\ Record /\ WellFormed /\ recordIndex' = recordIndex + 1
    /\ Entry.type \notin {"NSEC", "OPT"} /\ ~OfDiscovery /\ ~IsOurs /\ Sought
    /\ cls' = "foreign" /\ service' = ""
    /\ search_result' = FindSearch
    /\ browse_result' = mdns_browse_find(Entry.name, Entry.type)
    /\ IF browse_result' = 0 THEN pc' = "dispatch" /\ UNCHANGED <<bufs, sync, heap>>
       ELSE LET named  == Entry.type \in {"SRV", "TXT"}
                absent(kind, isAbsent) == IF isAbsent THEN <<kind>> ELSE <<>>
                blocks == absent("sync", sync.browse = 0)
                          \o absent("service", bufs.service = NULL)
                          \o absent("proto", bufs.proto = NULL)
                          \o absent("instance", named /\ bufs.instance = NULL)
                Value(kind, value) == IF heap'[kind] = 1 THEN value ELSE NULL
            IN  \E got \in 0 .. Len(blocks) :
                  /\ Malloc(blocks, got)
                  /\ sync' = IF sync.browse = 0 /\ heap'["sync"] = 1
                             THEN [NoSync EXCEPT !.browse = browse_result'] ELSE sync
                  /\ bufs' = [service  |-> Value("service", Browses[browse_result']),
                              proto    |-> Value("proto", Browses[browse_result']),
                              instance |-> IF named /\ got = Len(blocks)
                                           THEN Value("instance", Entry.name.host)
                                           ELSE bufs.instance]
                  /\ pc' = IF got = Len(blocks) THEN "dispatch" ELSE "clear"
    /\ UNCHANGED <<i, parsed, do_not_reply, lists, ours>> /\ KeepForQuestions

-----------------------------------------------------------------------------
(* What is done with it, by type. *)

Dispatch(types) == pc = "dispatch" /\ Entry.type \in types
NextRecord == pc' = "records" /\ NextEntry
KeepRecord == UNCHANGED <<qs, recordIndex, cls, answered, rx, told, cut>>
KeepFound  == UNCHANGED <<search_result, browse_result, bufs>>
Asked == parsed.questions # <<>> /\ ~parsed.probe
Claim == ~authoritative /\ ~parsed.probe /\ parsed.questions = <<>>
Probing == pcb = "probing"
TheSearch == searches[search_result]
OfPTR == search_result # 0 /\ TheSearch.type = "PTR"

\* -1 won, 0 none, 1 lost; data are compared if there is something to compare.
CollisionWith_Swapped(e, comparable) ==
    IF e.class > 1 THEN -1 ELSE IF e.class = 0 THEN 1 ELSE IF comparable THEN e.cmp ELSE 0
CollisionWith(e, comparable) ==
    IF e.class > 1 THEN 1 ELSE IF e.class = 0 THEN -1 ELSE IF comparable THEN e.cmp ELSE 0
Collision(comparable) == CollisionWith(Entry, comparable)

\* Another has just said what we were going to say.
Said_AnyTtl(col) == col = 0 /\ Claim
Said(col) == Entry.long /\ col = 0 /\ Claim

\* is_selfhosted is of the record's name, before the target overwrites it.
IsSelfhosted_Late == mdns_name_is_selfhosted(Entry.target)
IsSelfhosted == mdns_name_is_selfhosted(Entry.name)

OtherRecord ==
    /\ pc = "dispatch" /\ Entry.type \notin {"PTR", "SRV", "TXT"} \cup Addresses
    /\ NextRecord /\ KeepRecord /\ KeepFound
    /\ UNCHANGED <<parsed, service, heap, do_not_reply, ours, sync, scheduled, searches, browses>>

\* A pointer to a service of ours answers a question, or what was scheduled, and
\* is kept for the answer.
PtrService_AnyInstance(n) ==
    IF cls # "foreign" /\ ~n.sub /\ IsService(n.service) THEN n.service ELSE ""
PtrService(n) ==
    IF cls # "foreign" /\ ~n.sub /\ mdns_name_is_ours(n) /\ IsService(n.service)
    THEN n.service ELSE ""
PtrOfOurs ==
    LET n   == Entry.target
        svc == PtrService(n)
        q   == IF cls = "discovery" THEN "SDPTR" ELSE "PTR"
        answers == cls = "discovery" \/ Asked
        all == <<"record">> \o (IF n.host = "" THEN <<>> ELSE <<"string">>)
                            \o <<"string", "string">>
    IN  /\ service' = svc
        /\ IF svc = "" THEN NextRecord /\ UNCHANGED <<parsed, heap, scheduled>>
           ELSE /\ IF ~answers /\ Entry.long THEN mdns_remove_scheduled_answer("PTR", svc)
                                             ELSE UNCHANGED scheduled
                /\ \E got \in 0 .. Len(all) :
                     /\ heap' = Allocated(IF answers THEN FreedWith(q, svc) ELSE heap, all, got)
                     /\ parsed' = [parsed EXCEPT
                           !.questions = IF answers THEN Without(q, svc) ELSE @,
                           !.records = IF got = 0 THEN @ ELSE <<got - 1>> \o @]
                     /\ IF got = Len(all) THEN NextRecord ELSE pc' = "clear" /\ UNCHANGED i

PtrRecord ==
    /\ Dispatch({"PTR"}) /\ KeepRecord /\ KeepFound
    /\ UNCHANGED <<do_not_reply, ours, sync, browses>>
    /\ IF Entry.form = "baddata"
       THEN NextRecord /\ UNCHANGED <<parsed, service, heap, scheduled, searches>>
       ELSE IF search_result # 0
       THEN /\ \/ mdns_priv_query_result_add({search_result}, {<<"ptr", Entry.target.host, "">>})
               \/ UNCHANGED searches
            /\ NextRecord /\ UNCHANGED <<parsed, service, heap, scheduled>>
       ELSE PtrOfOurs /\ UNCHANGED searches

\* The names are given up: the instance of the service, or the one of the host,
\* or the host's own, whichever made the name; without memory nothing happens.
GiveUpInstance ==
    \/ /\ instance[service] # ""
       /\ instance' = [instance EXCEPT ![service] = Mangled[@]]
       /\ UNCHANGED <<hostname, default_instance>>
    \/ /\ instance[service] = "" /\ default_instance # ""
       /\ default_instance' = Mangled[default_instance] /\ UNCHANGED <<hostname, instance>>
    \/ /\ instance[service] = "" /\ default_instance = ""
       /\ hostname' = Mangled[hostname] /\ UNCHANGED <<default_instance, instance>>
    \/ UNCHANGED <<hostname, default_instance, instance>>
GiveUpHost == /\ hostname' \in {hostname, Mangled[hostname]}
              /\ UNCHANGED <<default_instance, instance>>

SrvOfOurs ==
    LET col == Collision(service # "")
        lost == /\ IsSelfhosted /\ service # "" /\ (parsed.probe \/ authoritative)
                /\ col > 0 \/ (col < 0 /\ Entry.port0)
    IN  IF Asked THEN mdns_remove_parsed_question("SRV", service)
                      /\ UNCHANGED <<scheduled, do_not_reply, ours>>
        ELSE IF distributed THEN mdns_remove_scheduled_answer("SRV", service)
                      /\ UNCHANGED <<parsed, heap, do_not_reply, ours>>
        ELSE /\ UNCHANGED <<parsed, heap>>
             /\ do_not_reply' = (do_not_reply \/ lost)
             /\ IF IsSelfhosted /\ Said(col)
                THEN mdns_remove_scheduled_answer("SRV", service) ELSE UNCHANGED scheduled
             /\ IF ~lost THEN UNCHANGED ours
                ELSE IF Probing THEN GiveUpInstance /\ UNCHANGED pcb
                ELSE mdns_init_pcb_probe /\ UNCHANGED <<hostname, default_instance, instance>>

\* The result of a search for the type that an instance's data belong to.
InstanceFact == <<"ptr", Entry.name.host, "">>

KeepOwn == UNCHANGED <<parsed, heap, scheduled, do_not_reply, ours>>
NoResult == OfPTR /\ InstanceFact \notin TheSearch.facts
Result == IF OfPTR THEN {InstanceFact} ELSE {}
SetHosts == {f[2] : f \in {g \in TheSearch.facts : g[1] = "host"}}

SrvRecord ==
    /\ Dispatch({"SRV"}) /\ KeepRecord /\ KeepFound /\ UNCHANGED service
    /\ \/ NoResult /\ NextRecord /\ KeepOwn /\ UNCHANGED <<searches, browses, sync>>
       \/ /\ Entry.form \in {"baddata", "shortdata"}
          /\ mdns_priv_query_result_add({search_result}, Result)
          /\ IF Entry.form = "baddata" THEN NextRecord ELSE pc' = "clear" /\ UNCHANGED i
          /\ KeepOwn /\ UNCHANGED <<browses, sync>>
       \/ /\ Entry.form = "ok" /\ NextRecord
          /\ mdns_browse_result_add(IF bufs.instance = NULL THEN {}
                                    ELSE {<<"host", bufs.instance, Entry.target.host>>})
          /\ IF search_result # 0
             THEN /\ KeepOwn
                  /\ \E got \in BOOLEAN :   \* the copy of the host's name, or the result
                       mdns_priv_query_result_add({search_result}, Result \cup
                         IF ~got \/ (OfPTR /\ Entry.name.host \in SetHosts) THEN {}
                         ELSE {<<"host", Entry.name.host, Entry.target.host>>})
             ELSE /\ UNCHANGED searches
                  /\ IF cls = "ours" THEN SrvOfOurs ELSE KeepOwn

TxtOfOurs ==
    LET col  == Collision(service # "")
        lost == IsSelfhosted /\ col # 0 /\ ~Probing /\ service # ""
    IN  IF Asked /\ service # "" THEN mdns_remove_parsed_question("TXT", service)
                      /\ UNCHANGED <<scheduled, do_not_reply, ours>>
        ELSE /\ do_not_reply' = (do_not_reply \/ lost)
             /\ IF IsSelfhosted /\ Said(col) /\ ~Probing
                THEN mdns_remove_scheduled_answer("TXT", service) ELSE UNCHANGED scheduled
             /\ IF lost THEN mdns_init_pcb_probe ELSE UNCHANGED pcb
             /\ UNCHANGED <<parsed, heap, hostname, default_instance, instance>>

TxtRecord ==
    /\ Dispatch({"TXT"}) /\ KeepRecord /\ KeepFound /\ UNCHANGED service /\ NextRecord
    /\ \E got \in BOOLEAN :   \* there was text, and memory for it
         /\ mdns_browse_result_add(IF got /\ bufs.instance # NULL
                                   THEN {<<"txt", bufs.instance, "">>} ELSE {})
         /\ IF search_result # 0
            THEN /\ KeepOwn
                 /\ \/ NoResult /\ UNCHANGED searches
                    \/ mdns_priv_query_result_add({search_result}, Result \cup
                         IF got THEN {<<"txt", Entry.name.host, "">>} ELSE {})
            ELSE /\ UNCHANGED searches
                 /\ IF cls = "ours" THEN TxtOfOurs ELSE KeepOwn

\* The answer of _mdns_check_a_collision and _aaaa_ may be 2: give the packet up.
AddressOfOurs ==
    LET col  == Collision(TRUE)
        lost == IsSelfhosted /\ col = 1
    IN  IF Asked THEN mdns_remove_parsed_question(Entry.type, "") /\ NextRecord
                      /\ UNCHANGED <<scheduled, do_not_reply, ours>>
        ELSE /\ UNCHANGED <<parsed, heap>>
             /\ do_not_reply' = (do_not_reply \/ lost)
             /\ IF IsSelfhosted /\ col = 2 THEN pc' = "clear" /\ UNCHANGED i ELSE NextRecord
             /\ IF IsSelfhosted /\ Said(col) /\ ~Probing
                THEN mdns_remove_scheduled_answer(Entry.type, "") ELSE UNCHANGED scheduled
             /\ IF lost /\ Probing /\ (parsed.probe \/ authoritative)
                THEN GiveUpHost /\ UNCHANGED pcb
                ELSE /\ IF lost /\ ~Probing THEN mdns_init_pcb_probe ELSE UNCHANGED pcb
                     /\ UNCHANGED <<hostname, default_instance, instance>>

\* More applicable searches: an address is for the one found and for all behind
\* it.  One for instances takes the address of a host that it knows.
AddressRecord ==
    /\ Dispatch(Addresses) /\ KeepRecord /\ UNCHANGED <<service, browse_result, bufs>>
    /\ LET host == Entry.name.host
           more == {k \in search_result + 1 .. Len(searches) :
                       Matches(searches[k], Entry.name, Entry.type)}
           takes(k) == searches[k].type = "ANY" \/ host \in Hosts(searches[k].facts)
       IN  /\ mdns_browse_result_add(
                IF browse_result # 0 /\ host \in Hosts(browses[browse_result])
                THEN {<<"ip", "", host>>} ELSE {})
           /\ search_result' = 0
           /\ IF search_result # 0
              THEN /\ mdns_priv_query_result_add(
                         {k \in {search_result} \cup more : takes(k)}, {<<"ip", "", host>>})
                   /\ NextRecord /\ KeepOwn
              ELSE /\ UNCHANGED searches
                   /\ IF cls = "ours" THEN AddressOfOurs ELSE NextRecord /\ KeepOwn

-----------------------------------------------------------------------------
(* The end. *)

\* A response ends the searches that have enough: their places stay empty.
RecordsDone ==
    /\ pc = "records" /\ Ended /\ pc' = "reply"
    /\ IF authoritative
       THEN searches' = [k \in DOMAIN searches |->
                            IF Cardinality(searches[k].facts) < MaxResults THEN searches[k]
                            ELSE NoSearch]
       ELSE UNCHANGED searches
    /\ UNCHANGED <<i, qs, recordIndex, parsed, cls, service, heap, do_not_reply, answered,
                   rx, scheduled, browses, told, cut, ours, found>>

CreateAnswer ==
    /\ answered' = (/\ ~do_not_reply /\ pcb = "running"
                    /\ parsed.questions # <<>> \/ parsed.discovery)
    /\ scheduled' = IF ~answered' THEN scheduled
                    ELSE scheduled \cup
                         {<<parsed.questions[k].type, parsed.questions[k].name.service>> :
                             k \in DOMAIN parsed.questions}

\* Mutant of SyncBrowse: the changes are freed with the object.
SyncBrowse_Discard ==
    IF sync.browse = 0 THEN UNCHANGED <<told, heap, sync>>
    ELSE heap' = [heap EXCEPT !["sync"] = @ - 1] /\ sync' = NoSync /\ UNCHANGED told
\* What changed is handed to the task that tells the browse, with the object;
\* with no change the object is freed here.
SyncBrowse ==
    IF sync.browse = 0 THEN UNCHANGED <<told, heap, sync>>
    ELSE /\ told' = [told EXCEPT ![sync.browse] = @ \cup sync.changes]
         /\ heap' = [heap EXCEPT !["sync"] = @ - 1] /\ sync' = NoSync

Reply ==
    /\ pc = "reply" /\ pc' = "clear" /\ CreateAnswer /\ SyncBrowse
    /\ UNCHANGED <<i, qs, recordIndex, parsed, cls, service, do_not_reply, rx, searches,
                   browses, cut, ours, search_result, browse_result, bufs>>

\* A string is known by the one of a list that points to it, and by which of its
\* pointers does; counts are of those that do.
Pointers(counts) == {p \in (DOMAIN counts) \X (1 .. 4) : p[2] <= counts[p[1]]}
Counts(questions) == [k \in DOMAIN questions |-> questions[k].strings]

\* Mutant of Strings: those of the records are forgotten.
Strings_OfQuestions == Cardinality(Pointers(Counts(parsed.questions)))
Strings == Cardinality(Pointers(Counts(parsed.questions))) + Cardinality(Pointers(parsed.records))

clear_rx_packet ==
    /\ pc = "clear" /\ pc' = "idle"
    /\ LET Of(kind, present) == heap[kind] - IF present THEN 1 ELSE 0
       IN  heap' = [parsed   |-> heap["parsed"] - 1,
                    question |-> heap["question"] - Len(parsed.questions),
                    record   |-> heap["record"] - Len(parsed.records),
                    string   |-> heap["string"] - Strings,
                    instance |-> Of("instance", bufs.instance # NULL),
                    service  |-> Of("service", bufs.service # NULL),
                    proto    |-> Of("proto", bufs.proto # NULL),
                    sync     |-> Of("sync", sync.browse # 0)]
    /\ cut' = (cut \/ sync.changes # {})
    /\ packet' = NoPacket /\ i' = 1 /\ qs' = 0 /\ recordIndex' = 0 /\ parsed' = NoParsed
    /\ cls' = "foreign" /\ service' = "" /\ do_not_reply' = FALSE /\ answered' = FALSE
    /\ search_result' = 0 /\ browse_result' = 0 /\ bufs' = NoBufs /\ sync' = NoSync
    /\ UNCHANGED <<nth, scheduled, searches, browses, told, ours>>

\* The interface has probed for its names and found no conflict.
ProbingDone == /\ pc = "idle" /\ Probing /\ pcb' = "running"
               /\ UNCHANGED <<pc, i, qs, recordIndex, parsed, cls, service, heap, do_not_reply,
                              answered, rx, lists, hostname, default_instance, instance, found>>

Finished == pc = "idle" /\ nth > Len(Shapes) /\ UNCHANGED vars

Step == \/ MalformedQuestion \/ SkippedQuestion \/ DiscoveryQuestion \/ OwnQuestion
        \/ QuestionsDone \/ MalformedRecord \/ SkippedRecord \/ OwnRecord \/ ForeignRecord
        \/ PtrRecord \/ SrvRecord \/ TxtRecord \/ AddressRecord \/ OtherRecord
        \/ RecordsDone \/ Reply \/ clear_rx_packet
Next == mdns_parse_packet \/ Step \/ ProbingDone \/ Finished

Spec == Init /\ [][Next]_vars

-----------------------------------------------------------------------------
(* Properties. *)

TypeOK ==
    /\ pc \in {"idle", "questions", "records", "dispatch", "reply", "clear"}
    /\ nth \in 1 .. Len(Shapes) + 1 /\ i \in 1 .. Len(packet.entries) + 1
    /\ qs \in 0 .. 255 /\ recordIndex \in 0 .. Len(packet.entries)
    /\ cls \in {"discovery", "ours", "foreign"} /\ (service = "" \/ IsService(service))
    /\ pc = "dispatch" => search_result \in 0 .. Len(searches)
    /\ browse_result \in {0} \cup DOMAIN Browses
    /\ sync.browse \in {0} \cup DOMAIN Browses
    /\ heap \in [Blocks -> Nat]
    /\ parsed.discovery \in BOOLEAN /\ parsed.probe \in BOOLEAN
    /\ do_not_reply \in BOOLEAN /\ answered \in BOOLEAN /\ cut \in BOOLEAN
    /\ pcb \in {"probing", "running"}
    /\ \A b \in DOMAIN Browses : told[b] \subseteq browses[b]

\* Whichever of the ways out is taken, and whichever malloc fails, every block is
\* freed or handed over, and none twice: the count of a kind never falls below
\* zero (TypeOK), and is zero between two packets.
HeapBalanced == TypeOK /\ (pc = "idle" => \A b \in Blocks : heap[b] = 0)

\* Bytes behind the questions are no records if the header announces none.
Questions == 1 .. packet.questions % 256
Records   == IF packet.answers + packet.servers + packet.additional = 0 THEN {}
             ELSE (packet.questions % 256) + 1 .. Len(packet.entries)
Discovers(e) == parsed.discovery /\ mdns_name_is_discovery(e.name, e.type)
Own(e) == ~Discovers(e) /\ ~e.name.sub /\ mdns_name_is_ours(e.name)

\* Known answers, without the order of the entries or the state of the list: a
\* question is answered as often as it was asked, less the records that say it.
AskedFor(type, s) ==
    Cardinality({k \in Questions : LET e == packet.entries[k] IN
        /\ e.class = 1 /\ ~e.name.invalid
        /\ IF mdns_name_is_discovery(e.name, e.type) THEN type = "SDPTR" /\ IsService(s)
           ELSE mdns_name_is_ours(e.name) /\ QuestionMatches(e, type, s)})
Known(type, s) ==
    Cardinality({k \in Records : LET e == packet.entries[k] IN
        IF type \in {"PTR", "SDPTR"}
        THEN /\ e.type = "PTR" /\ e.form # "baddata"
             /\ IF type = "PTR" THEN Own(e) ELSE Discovers(e)
             /\ ~e.target.sub /\ mdns_name_is_ours(e.target) /\ e.target.service = s
        ELSE /\ e.type = type /\ Own(e) /\ (type = "SRV" => e.form = "ok")
             /\ type \in Addresses \/ e.name.service = s})

\* A query that is no probe is answered with what was asked and is not known to
\* who asked.
KnownAnswersAreLeftOut ==
    pc = "reply" /\ ~Response /\ ~parsed.probe =>
        \A type \in {"PTR", "SDPTR", "SRV", "TXT"} \cup Addresses :
            \A s \in IF type \in Addresses THEN {""} ELSE {Services[k] : k \in DOMAIN Services} :
                LET n == AskedFor(type, s) - Known(type, s)
                IN  Cardinality({k \in DOMAIN parsed.questions :
                        QuestionMatches(parsed.questions[k], type, s)}) = IF n < 0 THEN 0 ELSE n

\* A probe for our names is only answered, which is to defend them, if no record
\* of it won over ours: nothing behind that record undoes it.
Beats(e, comparable)  == e.class > 1 \/ (e.class = 1 /\ comparable /\ e.cmp > 0)
Yields(e, comparable) == e.class < 1 \/ (e.class = 1 /\ comparable /\ e.cmp < 0)
DefendsOnlyWhatItWon ==
    pc = "clear" /\ answered /\ packet.flags = "query" /\ parsed.probe =>
        \A k \in Records :
            LET e == packet.entries[k]
                known == e.type \in Addresses \/ IsService(e.name.service)
            IN  Own(e) /\ mdns_name_is_selfhosted(e.name) =>
                /\ e.type \in Addresses => ~Beats(e, known)
                /\ e.type = "SRV" /\ e.form = "ok" /\ known =>
                       ~Beats(e, known) /\ ~(Yields(e, known) /\ e.port0)
                /\ e.type = "TXT" /\ known => ~Beats(e, known) /\ ~Yields(e, known)

\* A name is given up while probing only, for a record of a name that this host,
\* not a delegated one, answers for, and that won over ours, or names no port.
NamesAreGivenUpOnConflict ==
    [][ <<hostname, default_instance, instance>>' # <<hostname, default_instance, instance>> =>
          /\ pcb = "probing" /\ cls = "ours" /\ mdns_name_is_selfhosted(Entry.name)
          /\ \/ Beats(Entry, Entry.type \in Addresses \/ service # "")
             \/ Entry.type = "SRV" /\ Entry.port0 /\ Yields(Entry, service # "") ]_vars

\* A search gets what matches it.  A record of our own names goes to the search
\* of an earlier record of the packet, if there was one: search_result is stale.
SearchesGetWhatMatches ==
    [][ pc = "dispatch" /\ searches' # searches =>
          \A k \in DOMAIN searches : searches'[k] # searches[k] =>
              \E j \in Records : /\ j = i \/ (j < i /\ cls # "foreign")
                                 /\ Matches(searches[k], packet.entries[j].name,
                                            packet.entries[j].type) ]_vars

\* Names of others in the authority section are proposals, and no search or browse
\* takes them, however many records before them were skipped.
AuthoritySectionIsNoAnswer ==
    [][ pc = "dispatch" /\ cls = "foreign" /\ <<searches, browses>>' # <<searches, browses>> =>
          i - (packet.questions % 256) \notin
              packet.answers + 1 .. packet.answers + packet.servers ]_vars

\* A scheduled answer is dropped only when another has said the same, for long
\* enough, in a record of a name of ours; data are compared where there are some of
\* ours, and a distributed query's known SRV records are not.
DroppedAnswersWereSaid ==
    [][ \A a \in scheduled \ scheduled' :
          /\ cls # "foreign" /\ Entry.type = a[1]
          /\ (Entry.type = "SRV" /\ distributed)
             \/ (Entry.long /\ (Entry.type = "PTR"
                    \/ Collision(Entry.type \in Addresses \/ service # "") = 0)) ]_vars

\* Whatever a packet changes in the results of a browse, the browse is told of, in
\* the end, unless the packet is given up.
BrowsesAreTold == pc = "idle" /\ ~cut => told = browses

\* The comment of line 223: out_sync_browse "will be freed in function
\* _mdns_browse_sync".  What it has collected is never left for the clean-up.
SyncIsFreedByBrowseSync == pc = "clear" => sync.changes = {}
=============================================================================
