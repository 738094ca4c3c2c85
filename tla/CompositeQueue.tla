--------------------------- MODULE CompositeQueue ---------------------------
(***************************************************************************)
(* The trimming queue of NDP: CompositeQueue (compositequeue.cpp).  Whole  *)
(* packets wait in one list and headers and control packets in another; a  *)
(* whole packet that does not fit loses its payload, and a header that     *)
(* does not fit goes back to its sender.                                   *)
(*                                                                         *)
(* A queue is a record of its two lists, oldest packet first, and of what  *)
(* it is serving; a packet is a record with at least a size and the marks  *)
(* header and bounced.  The counters for statistics are left out.          *)
(***************************************************************************)
EXTENDS Integers, Sequences, SequencesExt

CONSTANTS
  MaxSize,     \* _maxsize, of either list
  HeaderSize,  \* ACKSIZE, and the hardcoded header size of beginService
  RatioHigh,   \* _ratio_high
  RatioLow     \* _ratio_low

ASSUME CompositeQueueAssumption ==
  /\ HeaderSize \in Nat \ {0}
  /\ MaxSize \in Nat /\ MaxSize >= HeaderSize
  /\ RatioHigh \in Nat \ {0} /\ RatioLow \in Nat \ {0}

\* _queuesize_low, _queuesize_high: the code adds and subtracts the same sizes.
Bytes(list) ==
  LET sum[i \in 0..Len(list)] == IF i = 0 THEN 0 ELSE sum[i - 1] + list[i].size
  IN  sum[Len(list)]

EmptyQueue == [low |-> <<>>, high |-> <<>>, serv |-> "INVALID", crt |-> 0]

\* Headers first until their share of a round is used up, then packets.
BeginService(q) ==
  LET crt == IF q.crt >= RatioHigh + RatioLow THEN 0 ELSE q.crt
  IN  CASE q.high # <<>> /\ q.low # <<>> /\ crt < RatioHigh ->
             [q EXCEPT !.serv = "HIGH", !.crt = crt + HeaderSize]
        [] q.high # <<>> /\ q.low # <<>> /\ crt >= RatioHigh ->
             [q EXCEPT !.serv = "LOW", !.crt = crt + Head(q.low).size]
        [] q.high # <<>> /\ q.low = <<>> -> [q EXCEPT !.serv = "HIGH"]
        [] q.high = <<>> /\ q.low # <<>> -> [q EXCEPT !.serv = "LOW"]

Departing(q) == IF q.serv = "LOW" THEN Head(q.low) ELSE Head(q.high)

CompleteService(q) ==
  LET rest == IF q.serv = "LOW" THEN [q EXCEPT !.low = Tail(@), !.serv = "INVALID"]
                                ELSE [q EXCEPT !.high = Tail(@), !.serv = "INVALID"]
  IN  IF rest.low = <<>> /\ rest.high = <<>> THEN rest ELSE BeginService(rest)

\* Faulty: a booted header that does not fit is freed.
StripAndLose(p) == [p EXCEPT !.header = TRUE, !.size = HeaderSize, !.bounced = TRUE]

StripPayload(p) == [p EXCEPT !.header = TRUE, !.size = HeaderSize]

\* A header joins its list, goes back to the sender, or, bounced before, is lost.
ReceiveHeader(q, p) ==
  IF Bytes(q.high) + p.size <= MaxSize
  THEN [queue |-> [q EXCEPT !.high = Append(@, p)], returned |-> {}]
  ELSE [queue |-> q,
        returned |-> IF p.bounced THEN {} ELSE {[p EXCEPT !.bounced = TRUE]}]

\* Whether q may trim the packet it queued last instead of the arriving p.
CanBoot(q, p) == q.low # <<>> /\ Last(q.low).size >= p.size

\* What receivePacket makes of the queue, and the packets it returns to their
\* senders; boot is the outcome of its coin when p does not fit.
ReceivePacket(q, p, boot) ==
  LET fits == Bytes(q.low) + p.size <= MaxSize
      trimmed == IF p.header THEN p ELSE StripPayload(p)
      booted == ReceiveHeader([q EXCEPT !.low = Front(@)], StripPayload(Last(q.low)))
      result ==
        CASE ~p.header /\ fits ->
               [queue |-> [q EXCEPT !.low = Append(@, p)], returned |-> {}]
          [] ~p.header /\ ~fits /\ boot /\ CanBoot(q, p) ->
               [booted EXCEPT !.queue.low = Append(@, p)]
          [] OTHER -> ReceiveHeader(q, trimmed)
  IN  IF result.queue.serv = "INVALID"
      THEN [result EXCEPT !.queue = BeginService(@)] ELSE result

\* The asserts of the queue, and that it never idles with a packet to send.
QueueIsSound(q) ==
  /\ Bytes(q.low) <= MaxSize /\ Bytes(q.high) <= MaxSize
  /\ q.serv = "LOW" => q.low # <<>>
  /\ q.serv = "HIGH" => q.high # <<>>
  /\ q.serv = "INVALID" <=> q.low = <<>> /\ q.high = <<>>
=============================================================================
