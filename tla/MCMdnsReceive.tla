--------------------------- MODULE MCMdnsReceive ---------------------------
(***************************************************************************)
(* Two own services, one of them on a delegated host, a browse, and the    *)
(* test's queries for one instance and for all of a service.  First packet *)
(* of a run: a query with known answers, a probe, or a response.  The      *)
(* second finds what the first has left.                                   *)
(***************************************************************************)
EXTENDS MdnsReceive

MCServices  == <<"http", "tel">>
MCInstances == [s \in {"http", "tel"} |-> IF s = "http" THEN "web" ELSE ""]
MCNoInstances == [s \in {"http", "tel"} |-> ""]
MCMangled == [n \in {"web", "box", "me"} |-> IF n = "web" THEN "web-2"
                                             ELSE IF n = "box" THEN "box-2" ELSE "me-2"]
Start(h, d, inst, p) == [hostname |-> h, default_instance |-> d, instance |-> inst, pcb |-> p]
MCStarts == {Start("me", "", MCInstances, "probing"),
             Start("me", "box", MCNoInstances, "probing"), Start("me", "", MCNoInstances, "probing"),
             Start("", "", MCInstances, "running")}
MCQueries == <<[type |-> "ANY", host |-> "you", service |-> "fritz", facts |-> {}],
               [type |-> "PTR", host |-> "", service |-> "fritz", facts |-> {}]>>
MCBrowses == <<"fritz">>

Name(h, s) == [host |-> h, service |-> s, sub |-> FALSE, invalid |-> FALSE]
E(t, n) == [form |-> "ok", type |-> t, name |-> n, target |-> Name("", ""), class |-> 1,
            long |-> TRUE, cmp |-> 0, port0 |-> FALSE]
With(e, set) == {[e EXCEPT !.class = x[1], !.long = x[2], !.cmp = x[3]] : x \in set}

Sd    == Name("_services", "_services")
Http  == Name("", "http")
Web   == Name("web", "http")
Tel   == Name("me", "tel")
Me    == Name("me", "")
Fritz == Name("", "fritz")
You   == Name("you", "fritz")
YouHost == Name("you", "")

MCQuestions ==
    {E("PTR", Sd), E("PTR", Http), E("SRV", Web), E("TXT", Web), E("A", Me), E("PTR", Fritz),
     [E("A", Me) EXCEPT !.class = 3], [E("PTR", Http) EXCEPT !.name.invalid = TRUE],
     [E("PTR", Http) EXCEPT !.form = "short"]}
MCKnown ==
    {[E("PTR", Sd) EXCEPT !.target = Http], [E("PTR", Http) EXCEPT !.target = Web],
     [E("PTR", Http) EXCEPT !.target = Name("other", "http")],
     [E("PTR", Http) EXCEPT !.target = Web, !.long = FALSE],
     [E("PTR", Http) EXCEPT !.target = Web, !.form = "baddata"],
     E("SRV", Web), [E("SRV", Web) EXCEPT !.cmp = 1], E("TXT", Web), [E("TXT", Web) EXCEPT !.cmp = 1],
     E("A", Me), [E("A", Me) EXCEPT !.long = FALSE], E("NSEC", Me), E("SRV", You), [E("A", Me) EXCEPT !.form = "badname"]}

Header(flags, q, answers, servers, additional) ==
    [flags |-> flags, own |-> FALSE, short |-> FALSE, src_port |-> "MDNS_SERVICE_PORT",
     questions |-> q, answers |-> answers, servers |-> servers, additional |-> additional]
Shape(header, asked, asks, said, says) ==
    [header |-> header, asked |-> asked, asks |-> asks, said |-> said, says |-> says]
Exactly(header, q, r) == Shape(header, IF q = {} THEN 0 ELSE 1, q, IF r = {} THEN 0 ELSE 1, r)

\* Queries with known answers.
MCPlainQueries ==
    {Shape(Header("query", n[1], n[2], 0, 0), n[1], MCQuestions, n[2], MCKnown) :
        n \in {<<0, 1>>, <<1, 0>>, <<1, 1>>, <<2, 1>>, <<1, 2>>}}
    \cup {Shape(Header("query", 2, 2, 0, 0),
                2, {E("PTR", Sd), E("PTR", Http), E("SRV", Web), E("A", Me)},
                2, {[E("PTR", Http) EXCEPT !.target = Web], E("SRV", Web), E("A", Me), E("NSEC", Me)})}
\* A header that announces 256 questions, and a distributed query.
MCOddQueries ==
    {Exactly(Header("query", 256, 1, 0, 0), {}, MCKnown),
     Exactly(Header("distributed", 1, 1, 0, 0), {E("PTR", Fritz), E("SRV", Web)}, MCKnown)}

MCProposals ==
    With(E("SRV", Web), {<<1, TRUE, 0>>, <<1, TRUE, 1>>, <<0, TRUE, 0>>, <<2, TRUE, 0>>})
    \cup With(E("A", Me), {<<1, TRUE, 0>>, <<1, TRUE, 1>>, <<1, TRUE, -1>>, <<1, TRUE, 2>>, <<0, TRUE, 0>>})
    \cup {[E("SRV", Web) EXCEPT !.class = 0, !.port0 = TRUE], E("NSEC", Me),
          [E("SRV", Web) EXCEPT !.cmp = -1, !.port0 = TRUE],
          [E("SRV", Tel) EXCEPT !.cmp = 1, !.target = Me], [E("TXT", Web) EXCEPT !.cmp = 1],
          [E("A", Name("deleg", "")) EXCEPT !.cmp = 1], [E("SRV", Me) EXCEPT !.cmp = 1],
          [E("SRV", Name("box", "http")) EXCEPT !.cmp = 1],
          [E("SRV", Name("me", "http")) EXCEPT !.cmp = 1]}
MCProbes ==
    {Shape(Header("query", 1, 0, 2, 0), 1, {E("ANY", Me), E("ANY", Web)}, 2, MCProposals),
     Shape(Header("authoritative", 0, 2, 0, 0), 0, {}, 2, MCProposals)}

MCAnswers ==
    {[E("PTR", Fritz) EXCEPT !.target = You], [E("SRV", You) EXCEPT !.target = YouHost],
     [E("PTR", Name("", "smb")) EXCEPT !.target = Web], [E("SRV", You) EXCEPT !.form = "baddata"], [E("SRV", You) EXCEPT !.form = "shortdata"],
     E("TXT", You), E("A", YouHost), E("NSEC", YouHost), E("CNAME", YouHost),
     [E("A", Me) EXCEPT !.cmp = 1], E("SRV", Web), E("TXT", Name("them", "fritz")),
     [E("A", YouHost) EXCEPT !.form = "short"]}
MCResponses ==
    {Shape(Header(f, 0, s[1], s[2], s[3]), 0, {}, 2, MCAnswers) :
        f \in {"authoritative", "response"}, s \in {<<2, 0, 0>>, <<1, 1, 0>>, <<0, 1, 1>>}}
    \cup {Shape(Header(f, 0, 2, 0, 1), 0, {}, 3,
                {[E("PTR", Fritz) EXCEPT !.target = You], [E("SRV", You) EXCEPT !.target = YouHost],
                 E("TXT", You), E("A", YouHost), [E("A", YouHost) EXCEPT !.form = "short"]}) :
             f \in {"authoritative", "response"}}

MCIgnored ==
    {Exactly([Header("query", 0, 0, 0, 0) EXCEPT !.own = TRUE], {}, {}),
     Exactly([Header("authoritative", 0, 1, 0, 0) EXCEPT !.src_port = "other"], {}, {E("A", YouHost)})}
MCLater ==
    {Exactly(Header("query", 1, 0, 1, 0), {E("ANY", Me)}, {[E("A", Me) EXCEPT !.class = 2]}),
     Shape(Header("authoritative", 0, 2, 0, 0), 0, {}, 2,
           {[E("SRV", You) EXCEPT !.target = YouHost], E("A", YouHost)}),
     Exactly(Header("response", 0, 1, 0, 0), {},
             {[E("PTR", Http) EXCEPT !.target = Web], E("SRV", Web), E("TXT", Web),
              [E("TXT", Web) EXCEPT !.long = FALSE], [E("PTR", Name("", "smb")) EXCEPT !.target = Web]})}
MCShapes == <<MCPlainQueries \cup MCOddQueries \cup MCProbes \cup MCResponses \cup MCIgnored, MCLater>>
=============================================================================
