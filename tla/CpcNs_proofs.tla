----------------------------- MODULE CpcNs_proofs -----------------------------
(***************************************************************************)
(* Proofs about CpcNs, for any nodes, traffic, pool and path lengths: the  *)
(* shared queue holds the leftovers of dropPacket and nothing else, the    *)
(* pool is sound until the first of them, and the harm they do afterwards  *)
(* stays with the destinations concerned.                                  *)
(***************************************************************************)
EXTENDS CpcNs, SequenceTheorems, TLAPS

-----------------------------------------------------------------------------
(* The operators *)

\* A cleared header is a header.
LEMMA ClearedHeader ==
    ASSUME NEW f \in BOOLEAN
    PROVE  /\ Cleared(f) \in Header /\ Cleared(f).fflag = f
           /\ Cleared(f).ptype = "data" /\ Cleared(f).type = "none" /\ Cleared(f).id = None
           /\ Cleared(f).src = Zero /\ Cleared(f).dst = Zero /\ Cleared(f).plen = 0
    BY NodesAssumption, BoundsAssumption DEF Cleared, Header, Payload

\* What sendProtPacketWithData makes of the header it copies.
Copied(h, s, d, plen) ==
    [h EXCEPT !.fflag = TRUE, !.src = s, !.dst = d, !.type = "routing", !.plen = plen]

\* Packet::free changes the buffer it is given only, and leaves it cleared.
LEMMA FreedBuffer ==
    ASSUME NEW bs \in [Bufs -> Header], NEW b \in Bufs,
           ~bs[b].fflag => bs[b] = Cleared(FALSE)
    PROVE  /\ Freed(bs, b) \in [Bufs -> Header]
           /\ Freed(bs, b)[b] = Cleared(FALSE)
           /\ \A c \in Bufs : c # b => Freed(bs, b)[c] = bs[c]
    <1>1. Cleared(FALSE) \in Header
      BY ClearedHeader
    <1> HIDE DEF Cleared
    <1> QED  BY <1>1 DEF Freed

\* The packet just queued is the first for its destination unless leftovers
\* are queued before it.
LEMMA QueuedPacket ==
    ASSUME NEW qq \in [Nodes -> Seq(Bufs)], NEW b \in Bufs, NEW d \in Nodes
    PROVE  LET added == cpc_queue_ns_add(qq, b, d)
           IN  /\ added \in [Nodes -> Seq(Bufs)]
               /\ \A e \in Nodes \ {d} : added[e] = qq[e]
               /\ Len(added[d]) = Len(qq[d]) + 1
               /\ cpc_queue_ns_get(added, d) \in Bufs
               /\ qq[d] = << >> => cpc_queue_ns_get(added, d) = b
    <1>1. qq[d] \in Seq(Bufs) /\ Len(qq[d]) \in Nat
      BY LenProperties
    <1>2. /\ Append(qq[d], b) \in Seq(Bufs) /\ Len(Append(qq[d], b)) = Len(qq[d]) + 1
          /\ \A i \in 1 .. Len(qq[d]) : Append(qq[d], b)[i] = qq[d][i]
          /\ Append(qq[d], b)[Len(qq[d]) + 1] = b
      BY <1>1, AppendProperties
    <1>3. Append(qq[d], b) # << >>
      BY <1>1, <1>2, EmptySeq
    <1>4. Head(Append(qq[d], b)) = Append(qq[d], b)[1] /\ Head(Append(qq[d], b)) \in Bufs
      BY <1>1, <1>2, <1>3
    <1>5. qq[d] = << >> => Append(qq[d], b)[1] = b
      BY <1>1, <1>2
    <1> QED  BY <1>1, <1>2, <1>4, <1>5 DEF cpc_queue_ns_add, cpc_queue_ns_get

-----------------------------------------------------------------------------
(* A packet on its way through processPacket *)

\* Every pointer the lower layers hold is to a buffer in use, and no buffer but
\* the one at hand is in use or held in any other way.
Sole(bs, held, b) ==
    /\ bs[b].fflag /\ \A n \in Nodes : <<b, n>> \notin held
    /\ \A c \in Bufs \ {b} :
          /\ bs[c].fflag <=> \E n \in Nodes : <<c, n>> \in held
          /\ \A m, n \in Nodes : <<c, m>> \in held /\ <<c, n>> \in held => m = n
    /\ \A i \in Ids :
          /\ \A c, e \in Bufs : bs[c].id = i /\ bs[e].id = i => c = e
          /\ <<i, Dst[i]>> \in delivered => \A c \in Bufs : bs[c].id # i

\* What processPacket can rely on: the buffer b at hand is out of the lower
\* layers' hands, gv are the payloads that have been sent.
Mid(bs, held, b, gv) ==
    /\ bs \in [Bufs -> Header] /\ held \subseteq Bufs \X Nodes /\ b \in Bufs
    /\ bs[b].ptype = "data"
    /\ \A c \in Bufs : ~bs[c].fflag => bs[c] = Cleared(FALSE)
    /\ \A c \in Bufs : bs[c].id \in gv \cup {None}
    /\ dropped = {} => Sole(bs, held, b)
    /\ \A c \in Bufs \ {b} :
          bs[c].fflag /\ (\A n \in Nodes : <<c, n>> \notin held) => bs[c].dst \in dropped
    /\ \A c \in Bufs :
          /\ bs[c].fflag /\ bs[c].ptype = "data" => Excused(bs[c].id, bs[c].dst)
          /\ bs[c].ptype = "msvr" /\ bs[c].type = "routing" => dropped # {}

\* What holds of the queue before.
QueueBefore ==
    /\ q \in [Nodes -> Seq(Bufs)] /\ drops \in [Nodes -> Nat] /\ dropped \subseteq Nodes
    /\ \A d \in Nodes : Len(q[d]) = drops[d]
    /\ DropsAreKnown

\* What holds after.
RoutedInv(gv) ==
    /\ buf' \in [Bufs -> Header] /\ q' \in [Nodes -> Seq(Bufs)] /\ air' \subseteq Bufs \X Nodes
    /\ dropped' \subseteq Nodes /\ dropped \subseteq dropped' /\ drops' \in [Nodes -> Nat]
    /\ status' \in {"run", "fault"}
    /\ QueueHoldsLeftovers' /\ DropsAreKnown' /\ FreeIsCleared'
    /\ \A c \in Bufs : buf'[c].id \in gv \cup {None}
    /\ CustodyUntilDrop' /\ UnheldWhereDropped' /\ HeadersAreExcused'

\* request_routing_cb answers in one of three ways.
Sends(bs, held, b, npkt, opkt, s, next, l) ==
    LET d == bs[b].dst
        from == IF npkt = opkt THEN Cleared(TRUE) ELSE bs[opkt]
    IN  /\ ~bs[npkt].fflag
        /\ q[d] = << >> => opkt = b
        /\ buf' = Freed([bs EXCEPT ![npkt] = Copied(from, s, d, l)], opkt)
        /\ air' = held \cup {<<npkt, next>>}
        /\ q' = [q EXCEPT ![d] = << >>]
        /\ drops' = [drops EXCEPT ![d] = 0] /\ dropped' = dropped
        /\ status' \in {"run", "fault"}

Drops(bs, held, b, opkt) ==
    LET d == bs[b].dst
    IN  /\ q[d] = << >> => opkt = b
        /\ buf' = Freed(bs, opkt) /\ air' = held
        /\ q' = cpc_queue_ns_add(q, b, d)
        /\ drops' = [drops EXCEPT ![d] = @ + 1] /\ dropped' = dropped \cup {d}
        /\ status' \in {"run", "fault"}

Faults(bs, held, b) ==
    /\ status' = "fault" /\ buf' = bs /\ air' = held
    /\ q' = cpc_queue_ns_add(q, b, bs[b].dst)
    /\ drops' = drops /\ dropped' = dropped

\* sendProtPacketWithData right after cpc_queue_ns_add.
LEMMA SendEffect ==
    ASSUME NEW bs \in [Bufs -> Header], NEW held, NEW b \in Bufs, QueueBefore,
           NEW s \in Nodes, NEW next \in Nodes, NEW l \in 0 .. MaxPath,
           sendProtPacketWithData(bs, cpc_queue_ns_add(q, b, bs[b].dst), held,
                                  s, bs[b].dst, next, l)
    PROVE  \E npkt \in Bufs, opkt \in Bufs : Sends(bs, held, b, npkt, opkt, s, next, l)
    <1> DEFINE d == bs[b].dst
               added == cpc_queue_ns_add(q, b, d)
               opkt == cpc_queue_ns_get(added, d)
    <1>1. d \in Nodes
      BY DEF Header
    <1>2. q \in [Nodes -> Seq(Bufs)]
      BY DEF QueueBefore
    <1>3. opkt \in Bufs /\ (q[d] = << >> => opkt = b)
      BY <1>1, <1>2, QueuedPacket
    <1>4. cpc_queue_ns_remove(added, d) = [q EXCEPT ![d] = << >>]
      BY <1>1, <1>2 DEF cpc_queue_ns_remove, cpc_queue_ns_add
    <1>5. PICK npkt \in FreeBufs(bs) :
            /\ buf' = Freed([bs EXCEPT ![npkt] =
                               Copied(IF npkt = opkt THEN Cleared(TRUE) ELSE bs[opkt], s, d, l)],
                            opkt)
            /\ air' = held \cup {<<npkt, next>>}
      BY DEF sendProtPacketWithData, Copied
    <1>6. /\ status' \in {"run", "fault"} /\ q' = cpc_queue_ns_remove(added, d)
          /\ drops' = [drops EXCEPT ![d] = 0] /\ dropped' = dropped
      BY DEF sendProtPacketWithData, MayStop
    <1>7. npkt \in Bufs /\ ~bs[npkt].fflag
      BY DEF FreeBufs
    <1> HIDE DEF opkt, added
    <1>8. Sends(bs, held, b, npkt, opkt, s, next, l)
      BY <1>3, <1>4, <1>5, <1>6, <1>7 DEF Sends
    <1> QED  BY <1>3, <1>7, <1>8

LEMMA RouteCases ==
    ASSUME NEW n \in Nodes, NEW bs \in [Bufs -> Header], NEW held, NEW b \in Bufs, QueueBefore,
           request_routing_cb(n, bs, cpc_queue_ns_add(q, b, bs[b].dst), held, b)
    PROVE  \/ \E npkt \in Bufs, opkt \in Bufs, s \in Nodes, next \in Nodes, l \in 0 .. MaxPath :
                 Sends(bs, held, b, npkt, opkt, s, next, l)
           \/ \E opkt \in Bufs : Drops(bs, held, b, opkt)
           \/ Faults(bs, held, b)
    <1> DEFINE h == bs[b]
               added == cpc_queue_ns_add(q, b, h.dst)
               SendAlong(next, plen) ==
                 \E left \in Shortened(plen) :
                    sendProtPacketWithData(bs, added, held, h.src, h.dst, next, left)
    <1>1. h.dst \in Nodes /\ h.src \in Nodes /\ h.plen \in 0 .. MaxPath /\ MaxPath \in Nat
      BY BoundsAssumption DEF Header
    <1>2. ASSUME NEW next \in Nodes, NEW plen \in 2 .. MaxPath, SendAlong(next, plen)
          PROVE  \E npkt \in Bufs, opkt \in Bufs, s \in Nodes, m \in Nodes, l \in 0 .. MaxPath :
                    Sends(bs, held, b, npkt, opkt, s, m, l)
      <2>1. PICK left \in Shortened(plen) :
                sendProtPacketWithData(bs, added, held, h.src, h.dst, next, left)
        BY <1>2
      <2>2. left \in 0 .. MaxPath
        BY <1>1 DEF Shortened
      <2>3. h.src \in Nodes
        BY <1>1
      <2>4. \E npkt \in Bufs, opkt \in Bufs : Sends(bs, held, b, npkt, opkt, h.src, next, left)
        BY <2>1, <2>2, <2>3, SendEffect
      <2> QED  BY <2>2, <2>3, <2>4
    <1>3. CASE \/ \E plen \in 2 .. MaxPath : SendAlong(h.dst, plen)
               \/ \E next \in Nodes \ {n}, plen \in 2 .. MaxPath : SendAlong(next, plen)
      BY <1>1, <1>2, <1>3
    <1>4. CASE \E next \in Nodes \ {n}, plen \in PathRead(h.plen) \ {0, 1} : SendAlong(next, plen)
      <2>1. PathRead(h.plen) \ {0, 1} \subseteq 2 .. MaxPath
        BY <1>1 DEF PathRead
      <2> QED  BY <1>2, <1>4, <2>1
    <1>5. CASE dropPacket(bs, added, held, h.dst)
      <2>1. q \in [Nodes -> Seq(Bufs)]
        BY DEF QueueBefore
      <2>2. /\ cpc_queue_ns_get(added, h.dst) \in Bufs
            /\ q[h.dst] = << >> => cpc_queue_ns_get(added, h.dst) = b
        BY <1>1, <2>1, QueuedPacket
      <2>3. Drops(bs, held, b, cpc_queue_ns_get(added, h.dst))
        BY <1>5, <2>2 DEF dropPacket, MayStop, Drops
      <2> QED  BY <2>2, <2>3
    <1>6. CASE /\ status' = "fault" /\ buf' = bs /\ q' = added /\ air' = held
               /\ UNCHANGED <<dropped, drops>>
      BY <1>6 DEF Faults
    <1> QED  BY <1>3, <1>4, <1>5, <1>6 DEF request_routing_cb

\* Both ways out leave the queue with the leftovers only.
LEMMA QueueAfter ==
    ASSUME QueueBefore, NEW d \in Nodes,
           \/ q' = [q EXCEPT ![d] = << >>] /\ drops' = [drops EXCEPT ![d] = 0] /\ dropped' = dropped
           \/ /\ \E b \in Bufs : q' = cpc_queue_ns_add(q, b, d)
              /\ drops' = [drops EXCEPT ![d] = @ + 1] /\ dropped' = dropped \cup {d}
    PROVE  /\ q' \in [Nodes -> Seq(Bufs)] /\ drops' \in [Nodes -> Nat]
           /\ dropped' \subseteq Nodes /\ dropped \subseteq dropped'
           /\ \A e \in Nodes : Len(q'[e]) = drops'[e]
           /\ DropsAreKnown'
    <1>1. /\ q \in [Nodes -> Seq(Bufs)] /\ drops \in [Nodes -> Nat] /\ dropped \subseteq Nodes
          /\ \A e \in Nodes : Len(q[e]) = drops[e]
          /\ \A e \in Nodes : drops[e] > 0 => e \in dropped
      BY DEF QueueBefore, DropsAreKnown
    <1>2. CASE /\ q' = [q EXCEPT ![d] = << >>] /\ drops' = [drops EXCEPT ![d] = 0]
               /\ dropped' = dropped
      <2>1. << >> \in Seq(Bufs) /\ Len(<< >>) = 0
        BY EmptySeq
      <2> QED  BY <1>1, <1>2, <2>1 DEF DropsAreKnown
    <1>3. CASE /\ \E b \in Bufs : q' = cpc_queue_ns_add(q, b, d)
               /\ drops' = [drops EXCEPT ![d] = @ + 1] /\ dropped' = dropped \cup {d}
      <2>1. /\ q' \in [Nodes -> Seq(Bufs)] /\ Len(q'[d]) = Len(q[d]) + 1
            /\ \A e \in Nodes \ {d} : q'[e] = q[e]
        BY <1>1, <1>3, QueuedPacket
      <2>2. drops' \in [Nodes -> Nat] /\ drops'[d] = drops[d] + 1
        BY <1>1, <1>3
      <2>3. \A e \in Nodes \ {d} : drops'[e] = drops[e]
        BY <1>1, <1>3
      <2>4. \A e \in Nodes : Len(q'[e]) = drops'[e]
        BY <1>1, <2>1, <2>2, <2>3
      <2>5. DropsAreKnown'
        BY <1>1, <1>3, <2>3 DEF DropsAreKnown
      <2> QED  BY <1>1, <1>3, <2>1, <2>2, <2>4, <2>5
    <1> QED  BY <1>2, <1>3

\* A destination with leftovers is one with drops.
LEMMA LeftoversMeanDrops ==
    ASSUME QueueBefore, NEW d \in Nodes, q[d] # << >>
    PROVE  d \in dropped
    <1>1. q[d] \in Seq(Bufs) /\ Len(q[d]) = drops[d]
      BY DEF QueueBefore
    <1>2. Len(q[d]) \in Nat \ {0}
      BY <1>1, EmptySeq
    <1> QED  BY <1>1, <1>2 DEF QueueBefore, DropsAreKnown

\* The way out of a send: the copy is in the air, the original is free.
LEMMA SendKeeps ==
    ASSUME NEW bs, NEW held, NEW b, NEW gv, Mid(bs, held, b, gv), QueueBefore,
           delivered' = delivered,
           NEW npkt \in Bufs, NEW opkt \in Bufs, NEW s \in Nodes, NEW next \in Nodes,
           NEW l \in 0 .. MaxPath, Sends(bs, held, b, npkt, opkt, s, next, l)
    PROVE  RoutedInv(gv)
    <1> DEFINE d == bs[b].dst
               from == IF npkt = opkt THEN Cleared(TRUE) ELSE bs[opkt]
               copy == Copied(from, s, d, l)
               mid == [bs EXCEPT ![npkt] = copy]
    <1>1. /\ bs \in [Bufs -> Header] /\ held \subseteq Bufs \X Nodes /\ b \in Bufs /\ d \in Nodes
          /\ from \in Header
      BY ClearedHeader DEF Mid, Header
    <1> HIDE DEF from
    <1>2. /\ copy \in Header /\ copy.fflag = TRUE /\ copy.id = from.id /\ copy.dst = d
          /\ copy.ptype = from.ptype
      <2>1. d \in Nodes /\ from \in Header
        BY <1>1
      <2> HIDE DEF d
      <2> QED  BY <2>1 DEF Copied, Header
    <1>3. from.id \in gv \cup {None}
      BY <1>1, ClearedHeader DEF Mid, from
    <1>4. q[d] # << >> => d \in dropped
      BY <1>1, LeftoversMeanDrops
    <1>5. /\ ~bs[npkt].fflag /\ (q[d] = << >> => opkt = b)
          /\ buf' = Freed(mid, opkt) /\ air' = held \cup {<<npkt, next>>}
          /\ q' = [q EXCEPT ![d] = << >>] /\ drops' = [drops EXCEPT ![d] = 0]
          /\ dropped' = dropped /\ status' \in {"run", "fault"}
      BY DEF Sends, from
    <1> HIDE DEF copy
    <1>6. mid \in [Bufs -> Header] /\ mid[npkt] = copy /\ \A c \in Bufs \ {npkt} : mid[c] = bs[c]
      BY <1>1, <1>2
    <1>7. ~mid[opkt].fflag => mid[opkt] = Cleared(FALSE)
      BY <1>1, <1>2, <1>6 DEF Mid
    <1> HIDE DEF mid
    <1>8. /\ buf' \in [Bufs -> Header] /\ buf'[opkt] = Cleared(FALSE)
          /\ npkt # opkt => buf'[npkt] = copy
          /\ \A c \in Bufs \ {npkt, opkt} : buf'[c] = bs[c]
      BY <1>5, <1>6, <1>7, FreedBuffer
    <1>9. /\ Cleared(FALSE).fflag = FALSE /\ Cleared(FALSE).id = None
          /\ Cleared(FALSE).ptype = "data"
      BY ClearedHeader
    <1>10. /\ q' \in [Nodes -> Seq(Bufs)] /\ drops' \in [Nodes -> Nat]
           /\ dropped' \subseteq Nodes /\ dropped \subseteq dropped'
           /\ QueueHoldsLeftovers' /\ DropsAreKnown'
      BY <1>1, <1>5, QueueAfter DEF QueueHoldsLeftovers
    <1>11. air' \subseteq Bufs \X Nodes
      BY <1>1, <1>5
    <1>12. FreeIsCleared'
      <2> SUFFICES ASSUME NEW c \in Bufs, ~buf'[c].fflag PROVE buf'[c] = Cleared(FALSE)
        BY DEF FreeIsCleared, Cleared
      <2> QED  BY <1>2, <1>8 DEF Mid
    <1>13. \A c \in Bufs : buf'[c].id \in gv \cup {None}
      BY <1>2, <1>3, <1>8, <1>9 DEF Mid
    <1>14. CustodyUntilDrop'
      <2> SUFFICES ASSUME dropped = {}
                   PROVE  (\A e \in Nodes : q'[e] = << >>) /\ OneHolderEach' /\ OneBufferEach'
        BY <1>5 DEF CustodyUntilDrop
      <2>1. \A e \in Nodes : q[e] = << >>
        BY LeftoversMeanDrops
      <2>2. \A e \in Nodes : q'[e] = << >>
        BY <1>1, <1>5, <2>1 DEF QueueBefore
      <2>3. opkt = b /\ Sole(bs, held, b)
        BY <1>1, <1>5, <2>1 DEF Mid
      <2>4. npkt # opkt /\ from = bs[b]
        BY <1>5, <2>3 DEF Sole, from
      <2>5. \A n \in Nodes : <<npkt, n>> \notin held
        BY <1>5, <2>3, <2>4 DEF Sole
      <2>6. ASSUME NEW c \in Bufs
            PROVE  /\ buf'[c].fflag <=> \E n \in Nodes : <<c, n>> \in air'
                   /\ \A m, n \in Nodes : <<c, m>> \in air' /\ <<c, n>> \in air' => m = n
        <3>1. CASE c = npkt
          BY <1>2, <1>5, <1>8, <2>4, <2>5, <3>1
        <3>2. CASE c = b
          BY <1>5, <1>8, <1>9, <2>3, <2>4, <3>2 DEF Sole
        <3>3. CASE c \notin {npkt, b}
          BY <1>5, <1>8, <2>3, <3>3 DEF Sole
        <3> QED  BY <3>1, <3>2, <3>3
      <2>7. bs[npkt].id = None /\ None \notin Ids
        BY <1>5, <1>9, NodesAssumption DEF Mid
      <2>8. ASSUME NEW i \in Ids, NEW c \in Bufs, buf'[c].id = i
            PROVE  \/ c = npkt /\ bs[b].id = i
                   \/ c \notin {npkt, b} /\ bs[c].id = i
        BY <1>2, <1>8, <1>9, <2>3, <2>4, <2>7, <2>8
      <2>9. ASSUME NEW i \in Ids
            PROVE  /\ \A c, e \in Bufs : buf'[c].id = i /\ buf'[e].id = i => c = e
                   /\ <<i, Dst[i]>> \in delivered' => \A c \in Bufs : buf'[c].id # i
        BY <1>1, <2>3, <2>8 DEF Sole
      <2> QED  BY <2>2, <2>6, <2>9 DEF OneHolderEach, OneBufferEach
    <1>15. UnheldWhereDropped'
      <2> SUFFICES ASSUME NEW c \in Bufs, buf'[c].fflag, \A n \in Nodes : <<c, n>> \notin air'
                   PROVE  buf'[c].dst \in dropped'
        BY DEF UnheldWhereDropped, InAir
      <2>1. c \notin {npkt, opkt} /\ buf'[c] = bs[c]
        BY <1>5, <1>8, <1>9
      <2>2. \A n \in Nodes : <<c, n>> \notin held
        BY <1>5
      <2>3. CASE c = b
        BY <1>4, <1>5, <2>1, <2>3
      <2>4. CASE c # b
        BY <1>5, <2>1, <2>2, <2>4 DEF Mid
      <2> QED  BY <2>3, <2>4
    <1>16. HeadersAreExcused'
      <2> SUFFICES ASSUME NEW c \in Bufs
                   PROVE  /\ buf'[c].fflag /\ buf'[c].ptype = "data"
                                => Excused(buf'[c].id, buf'[c].dst)
                          /\ buf'[c].ptype = "msvr" /\ buf'[c].type = "routing" => dropped # {}
        BY <1>5 DEF HeadersAreExcused, Excused
      <2>1. CASE c = opkt
        BY <1>8, <1>9, <2>1
      <2>2. CASE c = npkt /\ npkt # opkt
        <3>1. CASE d \in dropped
          BY <1>2, <1>8, <2>2, <3>1 DEF Excused
        <3>2. CASE d \notin dropped
          <4>1. opkt = b /\ from = bs[b] /\ bs[b].ptype = "data"
            BY <1>4, <1>5, <2>2, <3>2 DEF from, Mid
          <4>2. buf'[c].id = bs[b].id /\ buf'[c].dst = bs[b].dst /\ buf'[c].ptype = "data"
            BY <1>2, <1>8, <2>2, <4>1
          <4>3. CASE bs[b].fflag
            BY <4>1, <4>2, <4>3, <1>1 DEF Mid
          <4>4. CASE ~bs[b].fflag
            <5>1. dropped # {} /\ bs[b] = Cleared(FALSE)
              BY <1>1, <4>4 DEF Mid, Sole
            <5>2. bs[b].dst = Zero
              BY <5>1, ClearedHeader
            <5> QED  BY <4>2, <5>1, <5>2 DEF Excused
          <4> QED  BY <4>3, <4>4
        <3> QED  BY <3>1, <3>2
      <2>3. CASE c \notin {npkt, opkt}
        BY <1>8, <2>3 DEF Mid
      <2> QED  BY <2>1, <2>2, <2>3
    <1> QED  BY <1>5, <1>8, <1>10, <1>11, <1>12, <1>13, <1>14, <1>15, <1>16 DEF RoutedInv

\* The way out of dropPacket: the first packet queued is free, the packet at
\* hand stays queued.
LEMMA DropKeeps ==
    ASSUME NEW bs, NEW held, NEW b, NEW gv, Mid(bs, held, b, gv), QueueBefore,
           NEW opkt \in Bufs, Drops(bs, held, b, opkt)
    PROVE  RoutedInv(gv)
    <1> DEFINE d == bs[b].dst
    <1>1. /\ bs \in [Bufs -> Header] /\ held \subseteq Bufs \X Nodes /\ b \in Bufs /\ d \in Nodes
      BY DEF Mid, Header
    <1>2. /\ buf' = Freed(bs, opkt) /\ air' = held /\ q' = cpc_queue_ns_add(q, b, d)
          /\ drops' = [drops EXCEPT ![d] = @ + 1] /\ dropped' = dropped \cup {d}
          /\ status' \in {"run", "fault"}
      BY DEF Drops
    <1>3. ~bs[opkt].fflag => bs[opkt] = Cleared(FALSE)
      BY DEF Mid
    <1>4. /\ buf' \in [Bufs -> Header] /\ buf'[opkt] = Cleared(FALSE)
          /\ \A c \in Bufs \ {opkt} : buf'[c] = bs[c]
      BY <1>1, <1>2, <1>3, FreedBuffer
    <1>5. Cleared(FALSE).fflag = FALSE /\ Cleared(FALSE).id = None /\ Cleared(FALSE).ptype = "data"
      BY ClearedHeader
    <1>6. /\ q' \in [Nodes -> Seq(Bufs)] /\ drops' \in [Nodes -> Nat]
          /\ dropped' \subseteq Nodes /\ dropped \subseteq dropped'
          /\ QueueHoldsLeftovers' /\ DropsAreKnown'
      BY <1>1, <1>2, QueueAfter DEF QueueHoldsLeftovers
    <1>7. FreeIsCleared'
      <2> SUFFICES ASSUME NEW c \in Bufs, ~buf'[c].fflag PROVE buf'[c] = Cleared(FALSE)
        BY DEF FreeIsCleared, Cleared
      <2> QED  BY <1>4 DEF Mid
    <1>8. \A c \in Bufs : buf'[c].id \in gv \cup {None}
      BY <1>4, <1>5 DEF Mid
    <1>9. CustodyUntilDrop'
      BY <1>2 DEF CustodyUntilDrop
    <1>10. UnheldWhereDropped'
      <2> SUFFICES ASSUME NEW c \in Bufs, buf'[c].fflag, \A n \in Nodes : <<c, n>> \notin air'
                   PROVE  buf'[c].dst \in dropped'
        BY DEF UnheldWhereDropped, InAir
      <2>1. c # opkt /\ buf'[c] = bs[c]
        BY <1>4, <1>5
      <2>2. CASE c = b
        BY <1>2, <2>1, <2>2
      <2>3. CASE c # b
        BY <1>2, <2>1, <2>3 DEF Mid
      <2> QED  BY <2>2, <2>3
    <1>11. HeadersAreExcused'
      <2> SUFFICES ASSUME NEW c \in Bufs
                   PROVE  /\ buf'[c].fflag /\ buf'[c].ptype = "data"
                                => Excused(buf[c].id, buf[c].dst)'
                          /\ buf'[c].ptype = "msvr" /\ buf'[c].type = "routing" => dropped' # {}
        BY DEF HeadersAreExcused, Excused
      <2>1. CASE c = opkt
        BY <1>4, <1>5, <2>1
      <2>2. CASE c # opkt
        <3>1. /\ bs[c].fflag /\ bs[c].ptype = "data" => Excused(bs[c].id, bs[c].dst)
              /\ bs[c].ptype = "msvr" /\ bs[c].type = "routing" => dropped # {}
          BY DEF Mid
        <3> QED  BY <1>2, <1>4, <2>2, <3>1 DEF Excused
      <2> QED  BY <2>1, <2>2
    <1> QED  BY <1>1, <1>2, <1>4, <1>6, <1>7, <1>8, <1>9, <1>10, <1>11 DEF RoutedInv

\* The way out of a crash: nothing is promised of the queue and the pool but
\* that buffers and headers are as before.
LEMMA FaultKeeps ==
    ASSUME NEW bs, NEW held, NEW b, NEW gv, Mid(bs, held, b, gv), QueueBefore,
           Faults(bs, held, b)
    PROVE  RoutedInv(gv)
    <1>1. /\ bs \in [Bufs -> Header] /\ held \subseteq Bufs \X Nodes /\ b \in Bufs
          /\ bs[b].dst \in Nodes
      BY DEF Mid, Header
    <1>2. /\ status' = "fault" /\ buf' = bs /\ air' = held
          /\ q' = cpc_queue_ns_add(q, b, bs[b].dst) /\ drops' = drops /\ dropped' = dropped
      BY DEF Faults
    <1>3. q' \in [Nodes -> Seq(Bufs)]
      BY <1>1, <1>2, QueuedPacket DEF QueueBefore
    <1>4. QueueHoldsLeftovers' /\ CustodyUntilDrop' /\ UnheldWhereDropped'
      BY <1>2 DEF QueueHoldsLeftovers, CustodyUntilDrop, UnheldWhereDropped
    <1>5. DropsAreKnown' /\ drops' \in [Nodes -> Nat] /\ dropped' \subseteq Nodes
      BY <1>2 DEF QueueBefore, DropsAreKnown
    <1>6. FreeIsCleared' /\ \A c \in Bufs : buf'[c].id \in gv \cup {None}
      BY <1>2 DEF Mid, FreeIsCleared, Cleared
    <1>7. HeadersAreExcused'
      BY <1>2 DEF Mid, HeadersAreExcused, Excused
    <1> QED  BY <1>1, <1>2, <1>3, <1>4, <1>5, <1>6, <1>7 DEF RoutedInv

\* processPacket for a packet that is not for this node.
LEMMA RouteKeeps ==
    ASSUME NEW n \in Nodes, NEW bs, NEW held, NEW b, NEW gv, Mid(bs, held, b, gv), QueueBefore,
           delivered' = delivered,
           request_routing_cb(n, bs, cpc_queue_ns_add(q, b, bs[b].dst), held, b)
    PROVE  RoutedInv(gv)
    <1>1. bs \in [Bufs -> Header] /\ b \in Bufs
      BY DEF Mid
    <1>2. \/ \E npkt \in Bufs, opkt \in Bufs, s \in Nodes, next \in Nodes, l \in 0 .. MaxPath :
                Sends(bs, held, b, npkt, opkt, s, next, l)
          \/ \E opkt \in Bufs : Drops(bs, held, b, opkt)
          \/ Faults(bs, held, b)
      BY <1>1, RouteCases
    <1> QED  BY <1>2, SendKeeps, DropKeeps, FaultKeeps

-----------------------------------------------------------------------------
(* The events *)

LEMMA InitInv == Init => NsInv
    <1> SUFFICES ASSUME Init PROVE NsInv
      OBVIOUS
    <1>1. /\ Cleared(FALSE) \in Header /\ Cleared(FALSE).fflag = FALSE
          /\ Cleared(FALSE).ptype = "data" /\ Cleared(FALSE).id = None
      BY ClearedHeader
    <1>2. << >> \in Seq(Bufs) /\ Len(<< >>) = 0
      BY EmptySeq
    <1>3. \A b \in Bufs : buf[b] = Cleared(FALSE)
      BY DEF Init
    <1>4. TypeOK
      <2>1. buf \in [Bufs -> Header] /\ q \in [Nodes -> Seq(Bufs)]
        BY <1>1, <1>2 DEF Init
      <2>2. infos \in 0 .. MaxInfos /\ drops \in [Nodes -> Nat]
        BY BoundsAssumption DEF Init
      <2> QED  BY <2>1, <2>2 DEF Init, TypeOK
    <1>5. QueueHoldsLeftovers /\ DropsAreKnown /\ FreeIsCleared /\ PayloadsAreGiven
      <2>1. QueueHoldsLeftovers /\ DropsAreKnown
        BY <1>2 DEF Init, QueueHoldsLeftovers, DropsAreKnown
      <2>2. FreeIsCleared /\ PayloadsAreGiven
        BY <1>1, <1>3 DEF Init, FreeIsCleared, PayloadsAreGiven
      <2> QED  BY <2>1, <2>2
    <1>6. CustodyUntilDrop
      BY <1>1, <1>3, NodesAssumption
      DEF Init, CustodyUntilDrop, OneHolderEach, OneBufferEach
    <1>7. UnheldWhereDropped /\ HeadersAreExcused /\ StrayOnlyWhereDropped /\ RoutingOnlyAfterDrop
      BY <1>1, <1>3 DEF Init, UnheldWhereDropped, HeadersAreExcused, StrayOnlyWhereDropped,
                        RoutingOnlyAfterDrop
    <1> QED  BY <1>4, <1>5, <1>6, <1>7 DEF NsInv

\* The packet an application hands down, in its new buffer.
Fresh(i) == [Cleared(TRUE) EXCEPT !.id = i, !.src = Src[i], !.dst = Dst[i]]

LEMMA FreshHeader ==
    ASSUME NEW i \in Ids
    PROVE  /\ Fresh(i) \in Header /\ Fresh(i).fflag = TRUE /\ Fresh(i).ptype = "data"
           /\ Fresh(i).type = "none" /\ Fresh(i).id = i /\ Fresh(i).dst = Dst[i]
           /\ Dst[i] \in Nodes /\ Src[i] \in Nodes
    <1>1. Dst[i] \in Nodes /\ Src[i] \in Nodes /\ i \in Payload
      BY TrafficAssumption DEF Payload
    <1>2. /\ Cleared(TRUE) \in Header /\ Cleared(TRUE).fflag = TRUE
          /\ Cleared(TRUE).ptype = "data" /\ Cleared(TRUE).type = "none"
      BY ClearedHeader
    <1> QED  BY <1>1, <1>2 DEF Fresh, Header

LEMMA InjectMid ==
    ASSUME NsInv, status = "run", NEW i \in Ids, i \notin given, NEW b \in FreeBufs(buf)
    PROVE  Mid([buf EXCEPT ![b] = Fresh(i)], air, b, given \cup {i})
    <1> DEFINE bs == [buf EXCEPT ![b] = Fresh(i)]
    <1>1. b \in Bufs /\ ~buf[b].fflag /\ buf \in [Bufs -> Header] /\ air \subseteq Bufs \X Nodes
      BY DEF FreeBufs, NsInv, TypeOK
    <1>2. /\ Fresh(i) \in Header /\ Fresh(i).fflag = TRUE /\ Fresh(i).ptype = "data"
          /\ Fresh(i).id = i /\ Fresh(i).dst = Dst[i]
      BY FreshHeader
    <1> HIDE DEF Fresh
    <1>3. bs \in [Bufs -> Header] /\ bs[b] = Fresh(i) /\ \A c \in Bufs \ {b} : bs[c] = buf[c]
      BY <1>1, <1>2
    <1> HIDE DEF bs
    <1>4. \A c \in Bufs : ~bs[c].fflag => bs[c] = Cleared(FALSE)
      BY <1>2, <1>3 DEF NsInv, FreeIsCleared
    <1>5. \A c \in Bufs : bs[c].id \in (given \cup {i}) \cup {None}
      BY <1>2, <1>3 DEF NsInv, PayloadsAreGiven
    <1>6. ASSUME dropped = {}
          PROVE  Sole(bs, air, b)
      <2>1. OneHolderEach /\ OneBufferEach
        BY <1>6 DEF NsInv, CustodyUntilDrop
      <2>2. \A c \in Bufs : buf[c].id # i
        BY NodesAssumption DEF NsInv, PayloadsAreGiven
      <2>3. <<i, Dst[i]>> \notin delivered
        BY NodesAssumption DEF NsInv, PayloadsAreGiven
      <2>4. ASSUME NEW j \in Ids
            PROVE  /\ \A c, e \in Bufs : bs[c].id = j /\ bs[e].id = j => c = e
                   /\ <<j, Dst[j]>> \in delivered => \A c \in Bufs : bs[c].id # j
        BY <1>2, <1>3, <2>1, <2>2, <2>3 DEF OneBufferEach
      <2>5. bs[b].fflag /\ \A n \in Nodes : <<b, n>> \notin air
        BY <1>1, <1>2, <1>3, <2>1 DEF OneHolderEach
      <2>6. \A c \in Bufs \ {b} :
              /\ bs[c].fflag <=> \E n \in Nodes : <<c, n>> \in air
              /\ \A m, n \in Nodes : <<c, m>> \in air /\ <<c, n>> \in air => m = n
        BY <1>3, <2>1 DEF OneHolderEach
      <2> QED  BY <2>4, <2>5, <2>6 DEF Sole
    <1>7. \A c \in Bufs \ {b} :
            bs[c].fflag /\ (\A n \in Nodes : <<c, n>> \notin air) => bs[c].dst \in dropped
      BY <1>3 DEF NsInv, UnheldWhereDropped, InAir
    <1>8. Excused(i, Dst[i])
      BY NodesAssumption DEF Excused
    <1>9. \A c \in Bufs :
            /\ bs[c].fflag /\ bs[c].ptype = "data" => Excused(bs[c].id, bs[c].dst)
            /\ bs[c].ptype = "msvr" /\ bs[c].type = "routing" => dropped # {}
      BY <1>2, <1>3, <1>8 DEF NsInv, HeadersAreExcused
    <1>10. Mid(bs, air, b, given \cup {i})
      BY <1>1, <1>2, <1>3, <1>4, <1>5, <1>6, <1>7, <1>9 DEF Mid
    <1> QED  BY <1>10 DEF bs

LEMMA ArriveMid ==
    ASSUME NsInv, status = "run", NEW b \in Bufs, NEW n \in Nodes, <<b, n>> \in air,
           buf[b].ptype = "data"
    PROVE  Mid(buf, air \ {<<b, n>>}, b, given)
    <1> DEFINE held == air \ {<<b, n>>}
    <1>1. buf \in [Bufs -> Header] /\ held \subseteq Bufs \X Nodes
      BY DEF NsInv, TypeOK
    <1>2. ASSUME dropped = {}
          PROVE  Sole(buf, held, b)
      <2>1. OneHolderEach /\ OneBufferEach
        BY <1>2 DEF NsInv, CustodyUntilDrop
      <2>2. buf[b].fflag /\ \A m \in Nodes : <<b, m>> \notin held
        BY <2>1 DEF OneHolderEach
      <2>3. \A c \in Bufs \ {b} :
              /\ buf[c].fflag <=> \E m \in Nodes : <<c, m>> \in held
              /\ \A m, k \in Nodes : <<c, m>> \in held /\ <<c, k>> \in held => m = k
        BY <2>1 DEF OneHolderEach
      <2> QED  BY <2>1, <2>2, <2>3 DEF Sole, OneBufferEach
    <1>3. \A c \in Bufs \ {b} :
            buf[c].fflag /\ (\A m \in Nodes : <<c, m>> \notin held) => buf[c].dst \in dropped
      BY DEF NsInv, UnheldWhereDropped, InAir
    <1> QED  BY <1>1, <1>2, <1>3 DEF Mid, NsInv, FreeIsCleared, PayloadsAreGiven, HeadersAreExcused

\* The queue as the events find it.
LEMMA FoundQueue ==
    ASSUME NsInv, status = "run"
    PROVE  QueueBefore
    BY DEF NsInv, TypeOK, QueueHoldsLeftovers, QueueBefore

\* A packet leaves the lower layers and is freed, whether it was delivered,
\* handled by the protocol, dropped or lost.
LEMMA FreeKeeps ==
    ASSUME NsInv, status = "run", NEW b \in Bufs, NEW n \in Nodes, <<b, n>> \in air,
           buf' = Freed(buf, b), air' = air \ {<<b, n>>},
           UNCHANGED <<q, given, infos, dropped, drops, status>>,
           delivered' \in {delivered, delivered \cup {<<buf[b].id, n>>}},
           gotRouting' \in BOOLEAN, StrayOnlyWhereDropped', RoutingOnlyAfterDrop'
    PROVE  NsInv'
    <1>1. buf \in [Bufs -> Header] /\ (~buf[b].fflag => buf[b] = Cleared(FALSE))
      BY DEF NsInv, TypeOK, FreeIsCleared
    <1>2. /\ buf' \in [Bufs -> Header] /\ buf'[b] = Cleared(FALSE)
          /\ \A c \in Bufs : c # b => buf'[c] = buf[c]
      BY <1>1, FreedBuffer
    <1>3. Cleared(FALSE).fflag = FALSE /\ Cleared(FALSE).id = None /\ Cleared(FALSE).ptype = "data"
      BY ClearedHeader
    <1>4. buf[b].id \in Payload /\ buf[b].id \in given \cup {None}
      BY <1>1 DEF Header, NsInv, PayloadsAreGiven
    <1>5. delivered' \subseteq Payload \X Nodes
      BY <1>4 DEF NsInv, TypeOK
    <1>6. TypeOK'
      BY <1>2, <1>5 DEF NsInv, TypeOK
    <1>7. QueueHoldsLeftovers' /\ DropsAreKnown'
      BY DEF NsInv, QueueHoldsLeftovers, DropsAreKnown
    <1>8. FreeIsCleared'
      <2> SUFFICES ASSUME NEW c \in Bufs, ~buf'[c].fflag PROVE buf'[c] = Cleared(FALSE)
        BY DEF FreeIsCleared, Cleared
      <2> QED  BY <1>2 DEF NsInv, FreeIsCleared
    <1>9. PayloadsAreGiven'
      <2>1. \A c \in Bufs : buf'[c].id \in given \cup {None}
        BY <1>2, <1>3 DEF NsInv, PayloadsAreGiven
      <2>2. \A pn \in delivered' : pn[1] \in given \cup {None}
        BY <1>4 DEF NsInv, PayloadsAreGiven
      <2> QED  BY <2>1, <2>2 DEF PayloadsAreGiven
    <1>10. CustodyUntilDrop'
      <2> SUFFICES ASSUME dropped = {}
                   PROVE  (\A d \in Nodes : q[d] = << >>) /\ OneHolderEach' /\ OneBufferEach'
        BY DEF CustodyUntilDrop
      <2>1. (\A d \in Nodes : q[d] = << >>) /\ OneHolderEach /\ OneBufferEach
        BY DEF NsInv, CustodyUntilDrop
      <2>2. OneHolderEach'
        <3> SUFFICES ASSUME NEW c \in Bufs
                     PROVE  /\ buf'[c].fflag <=> \E m \in Nodes : <<c, m>> \in air'
                            /\ \A m, k \in Nodes : <<c, m>> \in air' /\ <<c, k>> \in air' => m = k
          BY DEF OneHolderEach
        <3>1. CASE c = b
          BY <1>2, <1>3, <2>1, <3>1 DEF OneHolderEach
        <3>2. CASE c # b
          BY <1>2, <2>1, <3>2 DEF OneHolderEach
        <3> QED  BY <3>1, <3>2
      <2>3. OneBufferEach'
        <3> SUFFICES ASSUME NEW i \in Ids
                     PROVE  /\ \A c, e \in Bufs : buf'[c].id = i /\ buf'[e].id = i => c = e
                            /\ <<i, Dst[i]>> \in delivered' => \A c \in Bufs : buf'[c].id # i
          BY DEF OneBufferEach
        <3>1. \A c \in Bufs : buf'[c].id = i => c # b /\ buf[c].id = i
          BY <1>2, <1>3, NodesAssumption
        <3>2. <<i, Dst[i]>> \in delivered' => <<i, Dst[i]>> \in delivered \/ buf[b].id = i
          OBVIOUS
        <3> QED  BY <2>1, <3>1, <3>2 DEF OneBufferEach
      <2> QED  BY <2>1, <2>2, <2>3
    <1>11. UnheldWhereDropped'
      <2> SUFFICES ASSUME NEW c \in Bufs, buf'[c].fflag, \A m \in Nodes : <<c, m>> \notin air'
                   PROVE  buf'[c].dst \in dropped
        BY DEF UnheldWhereDropped, InAir
      <2>1. c # b /\ buf'[c] = buf[c]
        BY <1>2, <1>3
      <2>2. \A m \in Nodes : <<c, m>> \notin air
        BY <2>1
      <2> QED  BY <2>1, <2>2 DEF NsInv, UnheldWhereDropped, InAir
    <1>12. HeadersAreExcused'
      <2> SUFFICES ASSUME NEW c \in Bufs
                   PROVE  /\ buf'[c].fflag /\ buf'[c].ptype = "data"
                                => Excused(buf'[c].id, buf'[c].dst)
                          /\ buf'[c].ptype = "msvr" /\ buf'[c].type = "routing" => dropped # {}
        BY DEF HeadersAreExcused, Excused
      <2>1. CASE c = b
        BY <1>2, <1>3, <2>1
      <2>2. CASE c # b
        BY <1>2, <2>2 DEF NsInv, HeadersAreExcused
      <2> QED  BY <2>1, <2>2
    <1> QED  BY <1>6, <1>7, <1>8, <1>9, <1>10, <1>11, <1>12 DEF NsInv

\* processPacket for a packet in passing, seen from the whole state.
LEMMA PassingKeeps ==
    ASSUME NsInv, status = "run", NEW n \in Nodes, NEW bs, NEW held, NEW b, NEW gv,
           Mid(bs, held, b, gv), given \subseteq gv, gv \subseteq Ids, given' = gv,
           UNCHANGED <<infos, delivered, gotRouting>>,
           request_routing_cb(n, bs, cpc_queue_ns_add(q, b, bs[b].dst), held, b)
    PROVE  NsInv'
    <1>1. RoutedInv(gv)
      BY FoundQueue, RouteKeeps
    <1>2. TypeOK'
      BY <1>1 DEF RoutedInv, NsInv, TypeOK
    <1>3. PayloadsAreGiven'
      <2>1. \A c \in Bufs : buf'[c].id \in given' \cup {None}
        BY <1>1 DEF RoutedInv
      <2>2. \A pn \in delivered' : pn[1] \in given' \cup {None}
        BY DEF NsInv, PayloadsAreGiven
      <2> QED  BY <2>1, <2>2 DEF PayloadsAreGiven
    <1>4. StrayOnlyWhereDropped'
      <2>1. dropped \subseteq dropped' /\ delivered \subseteq Payload \X Nodes
        BY <1>1 DEF RoutedInv, NsInv, TypeOK
      <2>2. \A pn \in delivered : Excused(pn[1], pn[2])
        BY DEF NsInv, StrayOnlyWhereDropped
      <2> QED  BY <2>1, <2>2 DEF StrayOnlyWhereDropped, Excused
    <1>5. RoutingOnlyAfterDrop'
      BY <1>1 DEF RoutedInv, NsInv, RoutingOnlyAfterDrop
    <1> QED  BY <1>1, <1>2, <1>3, <1>4, <1>5 DEF RoutedInv, NsInv

LEMMA InjectKeeps ==
    ASSUME NsInv, NEW i \in Ids, Inject(i)
    PROVE  NsInv'
    <1>1. PICK b \in FreeBufs(buf) : processPacket(Src[i], [buf EXCEPT ![b] = Fresh(i)], air, b)
      BY DEF Inject, Fresh
    <1>2. status = "run" /\ i \notin given /\ given' = given \cup {i} /\ UNCHANGED <<infos, gotRouting>>
      BY DEF Inject
    <1> DEFINE bs == [buf EXCEPT ![b] = Fresh(i)]
    <1>3. Mid(bs, air, b, given \cup {i})
      BY <1>2, InjectMid
    <1>4. b \in Bufs /\ buf \in [Bufs -> Header]
      BY DEF FreeBufs, NsInv, TypeOK
    <1>5. bs[b].dst # Src[i] /\ Src[i] \in Nodes
      BY <1>4, FreshHeader, TrafficAssumption
    <1> HIDE DEF bs
    <1>6. /\ request_routing_cb(Src[i], bs, cpc_queue_ns_add(q, b, bs[b].dst), air, b)
          /\ UNCHANGED delivered
      BY <1>1, <1>5 DEF processPacket, bs
    <1>7. given \subseteq given \cup {i} /\ given \cup {i} \subseteq Ids
      BY DEF NsInv, TypeOK
    <1> QED  BY <1>2, <1>3, <1>5, <1>6, <1>7, PassingKeeps

LEMMA ArriveKeeps ==
    ASSUME NsInv, NEW b \in Bufs, NEW n \in Nodes, Arrive(b, n)
    PROVE  NsInv'
    <1> DEFINE held == air \ {<<b, n>>}
               done == /\ buf' = Freed(buf, b) /\ air' = held
                       /\ UNCHANGED <<q, delivered, dropped, drops, status>>
    <1>1. status = "run" /\ <<b, n>> \in air /\ UNCHANGED <<given, infos>>
      BY DEF Arrive
    <1>2. /\ gotRouting \in BOOLEAN /\ StrayOnlyWhereDropped /\ RoutingOnlyAfterDrop
          /\ buf[b] \in Header
      BY DEF NsInv, TypeOK
    <1>3. ASSUME done
          PROVE  StrayOnlyWhereDropped'
      BY <1>2, <1>3 DEF StrayOnlyWhereDropped, Excused
    <1>4. CASE buf[b].src = n /\ done /\ UNCHANGED gotRouting
      <2>1. RoutingOnlyAfterDrop'
        BY <1>2, <1>4 DEF RoutingOnlyAfterDrop
      <2> QED  BY <1>1, <1>2, <1>3, <1>4, <2>1, FreeKeeps
    <1>5. CASE buf[b].src # n /\ buf[b].ptype = "msvr" /\ done /\ routing_proto_cb(b)
      <2>1. gotRouting' \in BOOLEAN
        BY <1>5 DEF routing_proto_cb
      <2>2. buf[b].type = "routing" => dropped # {}
        BY <1>5 DEF NsInv, HeadersAreExcused
      <2>3. RoutingOnlyAfterDrop'
        BY <1>2, <1>5, <2>2 DEF RoutingOnlyAfterDrop, routing_proto_cb
      <2> QED  BY <1>1, <1>3, <1>5, <2>1, <2>3, FreeKeeps
    <1>6. CASE /\ buf[b].src # n /\ buf[b].ptype # "msvr"
               /\ processPacket(n, buf, held, b) /\ UNCHANGED gotRouting
      <2>1. buf[b].ptype = "data"
        BY <1>2, <1>6 DEF Header
      <2>2. CASE buf[b].dst = n
        <3>1. /\ delivered' = delivered \cup {<<buf[b].id, n>>} /\ buf' = Freed(buf, b)
              /\ air' = held /\ UNCHANGED <<q, dropped, drops, status>>
          BY <1>6, <2>2 DEF processPacket
        <3>2. buf[b].fflag
          <4> SUFFICES ASSUME ~buf[b].fflag PROVE FALSE
            OBVIOUS
          <4>1. buf[b] = Cleared(FALSE)
            BY DEF NsInv, FreeIsCleared
          <4> QED  BY <1>6, <2>2, <4>1, ClearedHeader
        <3>3. Excused(buf[b].id, n)
          BY <2>1, <2>2, <3>2 DEF NsInv, HeadersAreExcused
        <3>4. StrayOnlyWhereDropped'
          BY <1>2, <3>1, <3>3 DEF StrayOnlyWhereDropped, Excused
        <3>5. RoutingOnlyAfterDrop'
          BY <1>2, <1>6, <3>1 DEF RoutingOnlyAfterDrop
        <3> QED  BY <1>1, <1>2, <1>6, <3>1, <3>4, <3>5, FreeKeeps
      <2>3. CASE buf[b].dst # n
        <3>1. /\ request_routing_cb(n, buf, cpc_queue_ns_add(q, b, buf[b].dst), held, b)
              /\ UNCHANGED delivered
          BY <1>6, <2>3 DEF processPacket
        <3>2. Mid(buf, held, b, given)
          BY <1>1, <2>1, ArriveMid
        <3>3. given \subseteq Ids
          BY DEF NsInv, TypeOK
        <3> QED  BY <1>1, <1>6, <3>1, <3>2, <3>3, PassingKeeps
      <2> QED  BY <2>2, <2>3
    <1> QED  BY <1>4, <1>5, <1>6 DEF Arrive

LEMMA LoseKeeps ==
    ASSUME NsInv, NEW b \in Bufs, NEW n \in Nodes, Lose(b, n)
    PROVE  NsInv'
    <1>1. /\ status = "run" /\ <<b, n>> \in air /\ air' = air \ {<<b, n>>} /\ buf' = Freed(buf, b)
          /\ UNCHANGED <<q, given, infos, delivered, dropped, drops, gotRouting, status>>
      BY DEF Lose
    <1>2. StrayOnlyWhereDropped' /\ RoutingOnlyAfterDrop'
      BY <1>1 DEF NsInv, StrayOnlyWhereDropped, RoutingOnlyAfterDrop, Excused
    <1>3. gotRouting' \in BOOLEAN
      BY <1>1 DEF NsInv, TypeOK
    <1> QED  BY <1>1, <1>2, <1>3, FreeKeeps

LEMMA SendInfoKeeps ==
    ASSUME NsInv, NEW n \in Nodes, SendInfo(n)
    PROVE  NsInv'
    <1> DEFINE h == sendProtPacket(n)
    <1>1. /\ h \in Header /\ h.fflag = TRUE /\ h.ptype = "msvr" /\ h.type = "info" /\ h.id = None
      <2>1. Cleared(TRUE) \in Header /\ Cleared(TRUE).fflag = TRUE /\ Cleared(TRUE).id = None
        BY ClearedHeader
      <2> QED  BY <2>1 DEF sendProtPacket, Header
    <1>2. PICK b \in FreeBufs(buf), m \in Nodes \ {n} :
            buf' = [buf EXCEPT ![b] = h] /\ air' = air \cup {<<b, m>>}
      BY DEF SendInfo
    <1>3. /\ status = "run" /\ infos < MaxInfos /\ infos' = infos + 1
          /\ UNCHANGED <<q, given, delivered, dropped, drops, gotRouting, status>>
      BY DEF SendInfo
    <1> HIDE DEF h
    <1>4. b \in Bufs /\ ~buf[b].fflag /\ buf \in [Bufs -> Header]
      BY DEF FreeBufs, NsInv, TypeOK
    <1>5. buf' \in [Bufs -> Header] /\ buf'[b] = h /\ \A c \in Bufs \ {b} : buf'[c] = buf[c]
      BY <1>1, <1>2, <1>4
    <1>6. TypeOK'
      <2>1. infos' \in 0 .. MaxInfos
        BY <1>3, BoundsAssumption DEF NsInv, TypeOK
      <2>2. air' \subseteq Bufs \X Nodes
        BY <1>2, <1>4 DEF NsInv, TypeOK
      <2> QED  BY <1>3, <1>5, <2>1, <2>2 DEF NsInv, TypeOK
    <1>7. QueueHoldsLeftovers' /\ DropsAreKnown'
      BY <1>3 DEF NsInv, QueueHoldsLeftovers, DropsAreKnown
    <1>8. FreeIsCleared'
      <2> SUFFICES ASSUME NEW c \in Bufs, ~buf'[c].fflag PROVE buf'[c] = Cleared(FALSE)
        BY DEF FreeIsCleared, Cleared
      <2> QED  BY <1>1, <1>5 DEF NsInv, FreeIsCleared
    <1>9. PayloadsAreGiven'
      BY <1>1, <1>3, <1>5 DEF NsInv, PayloadsAreGiven
    <1>10. CustodyUntilDrop'
      <2> SUFFICES ASSUME dropped = {}
                   PROVE  (\A d \in Nodes : q[d] = << >>) /\ OneHolderEach' /\ OneBufferEach'
        BY <1>3 DEF CustodyUntilDrop
      <2>1. (\A d \in Nodes : q[d] = << >>) /\ OneHolderEach /\ OneBufferEach
        BY <1>3 DEF NsInv, CustodyUntilDrop
      <2>2. OneHolderEach'
        <3> SUFFICES ASSUME NEW c \in Bufs
                     PROVE  /\ buf'[c].fflag <=> \E k \in Nodes : <<c, k>> \in air'
                            /\ \A k, j \in Nodes : <<c, k>> \in air' /\ <<c, j>> \in air' => k = j
          BY DEF OneHolderEach
        <3>1. CASE c = b
          <4>1. \A k \in Nodes : <<b, k>> \notin air
            BY <1>4, <2>1 DEF OneHolderEach
          <4> QED  BY <1>1, <1>2, <1>5, <3>1, <4>1
        <3>2. CASE c # b
          BY <1>2, <1>5, <2>1, <3>2 DEF OneHolderEach
        <3> QED  BY <3>1, <3>2
      <2>3. OneBufferEach'
        <3>1. ASSUME NEW i \in Ids, NEW c \in Bufs, buf'[c].id = i
              PROVE  c # b /\ buf[c].id = i
          BY <1>1, <1>5, <3>1, NodesAssumption
        <3> QED  BY <1>3, <2>1, <3>1 DEF OneBufferEach
      <2> QED  BY <2>1, <2>2, <2>3
    <1>11. UnheldWhereDropped'
      <2> SUFFICES ASSUME NEW c \in Bufs, buf'[c].fflag, \A k \in Nodes : <<c, k>> \notin air'
                   PROVE  buf'[c].dst \in dropped
        BY <1>3 DEF UnheldWhereDropped, InAir
      <2>1. c # b /\ buf'[c] = buf[c] /\ \A k \in Nodes : <<c, k>> \notin air
        BY <1>2, <1>5
      <2> QED  BY <1>3, <2>1 DEF NsInv, UnheldWhereDropped, InAir
    <1>12. HeadersAreExcused'
      <2> SUFFICES ASSUME NEW c \in Bufs
                   PROVE  /\ buf'[c].fflag /\ buf'[c].ptype = "data"
                                => Excused(buf'[c].id, buf'[c].dst)
                          /\ buf'[c].ptype = "msvr" /\ buf'[c].type = "routing" => dropped # {}
        BY <1>3 DEF HeadersAreExcused, Excused
      <2> QED  BY <1>1, <1>5 DEF NsInv, HeadersAreExcused
    <1>13. StrayOnlyWhereDropped' /\ RoutingOnlyAfterDrop'
      BY <1>3 DEF NsInv, StrayOnlyWhereDropped, RoutingOnlyAfterDrop, Excused
    <1> QED  BY <1>6, <1>7, <1>8, <1>9, <1>10, <1>11, <1>12, <1>13 DEF NsInv

-----------------------------------------------------------------------------
LEMMA NextInv == NsInv /\ [Next]_vars => NsInv'
    <1> SUFFICES ASSUME NsInv, [Next]_vars PROVE NsInv'
      OBVIOUS
    <1>1. CASE UNCHANGED vars
      BY <1>1 DEF vars, NsInv, TypeOK, QueueHoldsLeftovers, DropsAreKnown, FreeIsCleared,
         PayloadsAreGiven, CustodyUntilDrop, OneHolderEach, OneBufferEach, UnheldWhereDropped,
         InAir, HeadersAreExcused, StrayOnlyWhereDropped, Excused, RoutingOnlyAfterDrop, Cleared
    <1> QED  BY <1>1, InjectKeeps, ArriveKeeps, LoseKeeps, SendInfoKeeps DEF Next

LEMMA InvHolds == Spec => []NsInv
    BY InitInv, NextInv, PTL DEF Spec

\* Whatever nodes, packets and buffers there are, the shared queue holds as many
\* entries for a destination as dropPacket left behind, and nothing else.
THEOREM QueueStaysSound == Spec => []QueueIsSound
    <1>1. NsInv => QueueIsSound
      BY DEF NsInv, QueueIsSound
    <1> QED  BY InvHolds, <1>1, PTL

\* Until dropPacket has been called, the buffers in use, the pointers to them
\* and the payloads not yet delivered correspond one to one.
THEOREM PoolSoundUntilDrop == Spec => []CustodyUntilDrop
    <1>1. NsInv => CustodyUntilDrop
      BY DEF NsInv
    <1> QED  BY InvHolds, <1>1, PTL

\* Afterwards, lost buffers, stray payloads and routing packets stay with the
\* destinations for which dropPacket was called.
THEOREM HarmStaysWhereDropped == Spec => []HarmOnlyWhereDropped
    <1>1. NsInv => HarmOnlyWhereDropped
      BY DEF NsInv, HarmOnlyWhereDropped, LeakOnlyWhereDropped, UnheldWhereDropped
    <1> QED  BY InvHolds, <1>1, PTL
=============================================================================
