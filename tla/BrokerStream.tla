---------------------------- MODULE BrokerStream ----------------------------
(***************************************************************************)
(* What the in-memory broker connection promises to the MQTT client, with  *)
(* no buffer, index or reallocation in sight.  Two FIFO queues of bytes:   *)
(* "feed" is what is left of the fuzz input and "pending" the automatic    *)
(* replies that were not read yet.  A read takes a nonempty prefix of one  *)
(* of them, and of the input only when no reply is pending, so that an     *)
(* automatic reply is never cut in two by input bytes.  Nothing is         *)
(* duplicated, reordered or invented; closing the connection loses nothing.*)
(***************************************************************************)
EXTENDS Naturals, Sequences

CONSTANTS Feeds,    \* the inputs a connection may be created around
          Replies   \* the frames an automatic reply may consist of

VARIABLES feed, pending, open, out

streamVars == <<feed, pending, open, out>>

Front(q, n) == SubSeq(q, 1, n)
Rest(q, n)  == SubSeq(q, n + 1, Len(q))

Init == feed = <<>> /\ pending = <<>> /\ open = FALSE /\ out = <<>>

\* A new connection, closed, around a new input.
Load == /\ feed' \in Feeds
        /\ pending' = <<>> /\ open' = FALSE /\ out' = <<>>

Open  == open' = TRUE  /\ UNCHANGED <<feed, pending, out>>
Close == open' = FALSE /\ UNCHANGED <<feed, pending, out>>

Reply == /\ \E frame \in Replies : pending' = pending \o frame
         /\ UNCHANGED <<feed, open, out>>

DeliverReply ==
    /\ open
    /\ \E n \in 1 .. Len(pending) :
          /\ out' = out \o Front(pending, n)
          /\ pending' = Rest(pending, n)
    /\ UNCHANGED <<feed, open>>

DeliverFeed ==
    /\ open /\ pending = <<>>
    /\ \E n \in 1 .. Len(feed) :
          /\ out' = out \o Front(feed, n)
          /\ feed' = Rest(feed, n)
    /\ UNCHANGED <<pending, open>>

\* The connection is freed with whatever it still holds.
Drop == feed' = <<>> /\ pending' = <<>> /\ open' = FALSE /\ out' = <<>>

Next == Load \/ Open \/ Close \/ Reply \/ DeliverReply \/ DeliverFeed \/ Drop

Spec == Init /\ [][Next]_streamVars
=============================================================================
