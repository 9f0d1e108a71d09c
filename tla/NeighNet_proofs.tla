--------------------------- MODULE NeighNet_proofs ---------------------------
(***************************************************************************)
(* Proofs about NeighNet, for any network, any periods and any bounds: the *)
(* state keeps its types, repeats are relayed only as far as in_circle     *)
(* lets them in, what is said of a node that is gone has been on its way   *)
(* since, and a node that is back is heard in time.                        *)
(***************************************************************************)
EXTENDS NeighNet, TLAPS

------------------------------------------------------------------------------
(***************************************************************************)
(* The operators.                                                          *)
(***************************************************************************)

\* Every wait_time lies between 0 and MaxWait.
LEMMA WaitsAreBounded == MaxWait \in Nat /\ \A w \in Waits : w \in 0 .. MaxWait
  <1>1. PICK m \in Waits : \A v \in Waits : v <= m
    BY NetAssumption
  <1>2. MaxWait \in Waits /\ \A v \in Waits : v <= MaxWait
    BY <1>1 DEF MaxWait
  <1> QED  BY <1>2, NetAssumption

\* The time on the way grows by a wait with each relay.
LEMMA WayFacts ==
  /\ \A h \in Nat : Way(h) \in Nat /\ Way(h + 1) = Way(h) + MaxWait
  /\ Way(0) = 0
  /\ \A h, k \in Nat : h <= k => Way(h) <= Way(k)
  <1>1. \A h \in Nat : Way(h) \in Nat /\ Way(h + 1) = Way(h) + MaxWait
    BY WaitsAreBounded DEF Way
  <1>2. ASSUME NEW h \in Nat, NEW k \in Nat, h <= k
        PROVE  Way(h) <= Way(k)
    <2>1. PICK j \in Nat : k = h + j
      <3>1. k - h \in Nat /\ k = h + (k - h)
        BY <1>2
      <3> QED  BY <3>1
    <2>2. (h + j) * MaxWait = h * MaxWait + j * MaxWait
      BY WaitsAreBounded
    <2>3. j * MaxWait \in Nat /\ h * MaxWait \in Nat
      BY WaitsAreBounded
    <2> QED  BY <2>1, <2>2, <2>3 DEF Way
  <1>3. Way(0) = 0
    BY WaitsAreBounded DEF Way
  <1> QED  BY <1>1, <1>2, <1>3

\* A broadcast puts copies of the right type into the air, one to each hearer.
LEMMA BroadcastCopies ==
  ASSUME NEW n \in Nodes \cup {Origin}, NEW d \in Data, NEW h \in Nat
  PROVE  /\ Broadcast(n, d, h) \subseteq Copies
         /\ \A c \in Broadcast(n, d, h) : c.from = n /\ c.data = d /\ c.hops = h
         /\ \A m \in Hearers(n) : \E c \in Broadcast(n, d, h) : c.to = m
  <1>1. ASSUME NEW c \in Broadcast(n, d, h)
        PROVE  c \in Copies /\ c.from = n /\ c.data = d /\ c.hops = h
    <2>1. PICK m \in Hearers(n) : c = [to |-> m, from |-> n, data |-> d, hops |-> h]
      BY DEF Broadcast
    <2>2. m \in Nodes
      BY DEF Hearers
    <2> QED  BY <2>1, <2>2 DEF Copies
  <1>2. ASSUME NEW m \in Hearers(n)
        PROVE  \E c \in Broadcast(n, d, h) : c.to = m
    <2>1. [to |-> m, from |-> n, data |-> d, hops |-> h] \in Broadcast(n, d, h)
      BY DEF Broadcast
    <2> QED  BY <2>1
  <1> QED  BY <1>1, <1>2

------------------------------------------------------------------------------
(***************************************************************************)
(* What the actions do to the lists.                                       *)
(***************************************************************************)

\* What a node lists after it has taken in the copy c.
Taken(e, c) ==
  /\ e \in Entries /\ e.data = c.data /\ e.direct = (c.from = Origin)
  /\ e.invalid = FALSE /\ e.rebroadcast = FALSE /\ e.ttl = ExpireTime
  /\ e.hops = c.hops

\* What neigh_list_insert writes.
LEMMA InsertedEntry ==
  ASSUME NEW c \in Copies, NEW w \in Waits
  PROVE  /\ Taken(NewEntry(c, w), c)
         /\ NewEntry(c, w).times = 0 /\ NewEntry(c, w).outside = 0
  <1>1. c.data \in Data /\ (c.from = Origin) \in BOOLEAN /\ c.hops \in Nat
    BY DEF Copies
  <1>2. w \in 0 .. MaxWait /\ ExpireTime \in 0 .. ExpireTime
    BY WaitsAreBounded, NetAssumption
  <1> QED  BY <1>1, <1>2 DEF NewEntry, Entries, Taken

\* What neigh_list_update writes, and how the account goes on.
LEMMA UpdatedEntry ==
  ASSUME NEW e \in Entries, NEW c \in Copies, NEW w \in Waits
  PROVE  LET f == Counted(e, c, Updated(e, c, w))
         IN  /\ Taken(f, c)
             /\ ~SameAge(e, c) => f.times = 0 /\ f.outside = 0
             /\ SameAge(e, c) => /\ f.times = e.times
                                 /\ f.outside = IF UpToCircle(e, c) THEN e.outside + 1
                                                                   ELSE e.outside
  <1> DEFINE v == IF e.rebroadcast THEN w ELSE e.wait
             u == Updated(e, c, w)
             o == IF UpToCircle(e, c) THEN e.outside + 1 ELSE e.outside
             f == Counted(e, c, u)
  <1>1. v \in 0 .. MaxWait
    BY WaitsAreBounded DEF Entries
  <1>2. u = [NewEntry(c, w) EXCEPT !.wait = v]
    BY DEF Updated
  <1> HIDE DEF v, u
  <1>3. Taken(u, c) /\ u.times = 0 /\ u.outside = 0
    BY <1>1, <1>2, InsertedEntry DEF Taken, Entries
  <1>4. e.times \in Nat /\ o \in Nat
    BY DEF Entries
  <1>5. f = IF SameAge(e, c) THEN [u EXCEPT !.times = e.times, !.outside = o] ELSE u
    BY DEF Counted
  <1> HIDE DEF o, f
  <1>6. CASE SameAge(e, c)
    <2>1. f = [u EXCEPT !.times = e.times, !.outside = o]
      BY <1>5, <1>6
    <2>2. Taken(f, c) /\ f.times = e.times /\ f.outside = o
      BY <1>3, <1>4, <2>1 DEF Taken, Entries
    <2> QED  BY <1>6, <2>2 DEF f, u, o
  <1>7. CASE ~SameAge(e, c)
    <2>1. f = u
      BY <1>5, <1>7
    <2> QED  BY <1>3, <1>7, <2>1 DEF f, u
  <1> QED  BY <1>6, <1>7

\* recv_node changes the list of the receiver only, where the copy is taken in
\* or ignored; a copy of what is listed is taken in only if the origin itself
\* has not been heard.
LEMMA RecvEffect ==
  ASSUME TypeOK, NEW c \in air, RecvNode(c)
  PROVE  /\ c \in Copies /\ c.to \in Nodes
         /\ ent' \in [Nodes -> Entries \cup {NoEntry}]
         /\ \A n \in Nodes : n # c.to => ent'[n] = ent[n]
         /\ \/ /\ ent'[c.to] = ent[c.to] /\ ent[c.to] # NoEntry
               /\ Obsolete(ent[c.to], c) \/ SameAge(ent[c.to], c)
            \/ /\ ent[c.to] = NoEntry /\ Taken(ent'[c.to], c)
               /\ ent'[c.to].times = 0 /\ ent'[c.to].outside = 0
            \/ /\ ent[c.to] # NoEntry /\ Taken(ent'[c.to], c)
               /\ ~SameAge(ent[c.to], c)
               /\ ent'[c.to].times = 0 /\ ent'[c.to].outside = 0
            \/ /\ ent[c.to] # NoEntry /\ Taken(ent'[c.to], c)
               /\ SameAge(ent[c.to], c) /\ ~ent[c.to].direct
               /\ ent'[c.to].times = ent[c.to].times
               /\ ent'[c.to].outside = IF c.from = Origin THEN ent[c.to].outside
                                                          ELSE ent[c.to].outside + 1
  <1>1. c \in Copies /\ c.to \in Nodes
    BY DEF TypeOK, Copies
  <1>2. ent \in [Nodes -> Entries \cup {NoEntry}]
    BY DEF TypeOK
  <1>3. CASE RecvNew(c)
    <2>1. PICK w \in Waits : ent' = [ent EXCEPT ![c.to] = NewEntry(c, w)]
      BY <1>3 DEF RecvNew
    <2>2. /\ Taken(NewEntry(c, w), c)
          /\ NewEntry(c, w).times = 0 /\ NewEntry(c, w).outside = 0
      BY <1>1, InsertedEntry
    <2>3. NewEntry(c, w) \in Entries
      BY <2>2 DEF Taken
    <2> QED  BY <1>1, <1>2, <1>3, <2>1, <2>2, <2>3 DEF RecvNew
  <1>4. CASE RecvKnown(c)
    <2> DEFINE e == ent[c.to]
    <2>1. PICK w \in Waits : ent' = [ent EXCEPT ![c.to] = Counted(e, c, Updated(e, c, w))]
      BY <1>4 DEF RecvKnown
    <2>2. e \in Entries /\ e # NoEntry
      BY <1>1, <1>2, <1>4 DEF RecvKnown
    <2> DEFINE f == Counted(e, c, Updated(e, c, w))
    <2>3. /\ Taken(f, c)
          /\ ~SameAge(e, c) => f.times = 0 /\ f.outside = 0
          /\ SameAge(e, c) => /\ f.times = e.times
                              /\ f.outside = IF UpToCircle(e, c) THEN e.outside + 1
                                                                ELSE e.outside
      BY <1>1, <2>2, UpdatedEntry
    <2>4. SameAge(e, c) => ~e.direct
      <3>1. PICK circle \in InCircle(e, c) : FALSE = (SameAge(e, c) /\ (circle \/ e.direct))
        BY <1>4 DEF RecvKnown, Repeated
      <3> QED  BY <3>1
    <2>5. f \in Entries
      BY <2>3 DEF Taken
    <2> HIDE DEF f
    <2>6. ent'[c.to] = f /\ \A n \in Nodes : n # c.to => ent'[n] = ent[n]
      BY <1>1, <1>2, <2>1, <2>5 DEF f
    <2>7. ent' \in [Nodes -> Entries \cup {NoEntry}]
      BY <1>1, <1>2, <2>1, <2>5 DEF f
    <2> QED  BY <1>1, <2>2, <2>3, <2>4, <2>6, <2>7 DEF UpToCircle
  <1>5. CASE RecvIgnored(c)
    <2>1. Obsolete(ent[c.to], c) \/ SameAge(ent[c.to], c)
      BY <1>5 DEF RecvIgnored, Repeated
    <2> QED  BY <1>1, <1>2, <1>5, <2>1 DEF RecvIgnored
  <1> QED  BY <1>3, <1>4, <1>5 DEF RecvNode

\* A tick only counts down.
LEMMA TickEffect ==
  ASSUME TypeOK, Tick
  PROVE  /\ ent' \in [Nodes -> Entries \cup {NoEntry}]
         /\ clean' \in [Nodes -> 0 .. CleanPeriod]
         /\ \A n \in Nodes :
              /\ clean[n] > 0 /\ clean'[n] = clean[n] - 1
              /\ ent[n] = NoEntry => ent'[n] = NoEntry
              /\ ent[n] # NoEntry =>
                   /\ ent[n] \in Entries /\ ent'[n] \in Entries
                   /\ ent'[n].data = ent[n].data /\ ent'[n].direct = ent[n].direct
                   /\ ent'[n].invalid = ent[n].invalid
                   /\ ent'[n].rebroadcast = ent[n].rebroadcast
                   /\ ent'[n].hops = ent[n].hops /\ ent'[n].times = ent[n].times
                   /\ ent'[n].outside = ent[n].outside
                   /\ ~ent[n].rebroadcast => ent[n].wait > 0 /\ ent'[n].wait = ent[n].wait - 1
                   /\ ~ent[n].invalid => ent[n].ttl > 0 /\ ent'[n].ttl = ent[n].ttl - 1
  <1>1. ent \in [Nodes -> Entries \cup {NoEntry}] /\ clean \in [Nodes -> 0 .. CleanPeriod]
    BY DEF TypeOK
  <1>2. ASSUME NEW n \in Nodes
        PROVE  clean[n] > 0 /\ clean'[n] = clean[n] - 1 /\ clean'[n] \in 0 .. CleanPeriod
    <2>1. clean[n] > 0 /\ clean'[n] = Down(clean[n])
      BY DEF Tick
    <2>2. clean[n] \in 0 .. CleanPeriod
      BY <1>1
    <2> QED  BY <2>1, <2>2, NetAssumption DEF Down
  <1>3. ASSUME NEW n \in Nodes, ent[n] = NoEntry
        PROVE  ent'[n] = NoEntry
    BY <1>3 DEF Tick
  <1>4. ASSUME NEW n \in Nodes, ent[n] # NoEntry
        PROVE  /\ ent[n] \in Entries /\ ent'[n] \in Entries
               /\ ent'[n].data = ent[n].data /\ ent'[n].direct = ent[n].direct
               /\ ent'[n].invalid = ent[n].invalid
               /\ ent'[n].rebroadcast = ent[n].rebroadcast
               /\ ent'[n].hops = ent[n].hops /\ ent'[n].times = ent[n].times
               /\ ent'[n].outside = ent[n].outside
               /\ ~ent[n].rebroadcast => ent[n].wait > 0 /\ ent'[n].wait = ent[n].wait - 1
               /\ ~ent[n].invalid => ent[n].ttl > 0 /\ ent'[n].ttl = ent[n].ttl - 1
    <2>1. ent[n] \in Entries
      BY <1>1, <1>4
    <2>2. ent'[n] = [ent[n] EXCEPT !.ttl = Down(ent[n].ttl), !.wait = Down(ent[n].wait)]
      BY <1>4 DEF Tick
    <2>3. /\ ent[n].ttl \in 0 .. ExpireTime /\ ent[n].wait \in 0 .. MaxWait
          /\ Down(ent[n].ttl) \in 0 .. ExpireTime /\ Down(ent[n].wait) \in 0 .. MaxWait
      BY <2>1, NetAssumption, WaitsAreBounded DEF Entries, Down
    <2>4. ~ent[n].invalid => ent[n].ttl > 0 /\ Down(ent[n].ttl) = ent[n].ttl - 1
      <3>1. ~ExpireDue(n)
        BY DEF Tick
      <3> QED  BY <1>4, <2>3, <3>1 DEF ExpireDue, Down
    <2>5. ~ent[n].rebroadcast => ent[n].wait > 0 /\ Down(ent[n].wait) = ent[n].wait - 1
      <3>1. ~RelayDue(n)
        BY DEF Tick
      <3> QED  BY <1>4, <2>3, <3>1, WaitsAreBounded DEF RelayDue, Down
    <2> QED  BY <2>1, <2>2, <2>3, <2>4, <2>5 DEF Entries
  <1>5. /\ ent' = [n \in Nodes |-> ent'[n]]
        /\ clean' = [n \in Nodes |-> clean'[n]]
    BY DEF Tick
  <1> QED  BY <1>1, <1>2, <1>3, <1>4, <1>5

\* The timers' handlers set one flag of one entry.
LEMMA ExpireEffect ==
  ASSUME TypeOK, NEW k \in Nodes, Expire(k)
  PROVE  /\ ent' \in [Nodes -> Entries \cup {NoEntry}]
         /\ \A n \in Nodes : n # k => ent'[n] = ent[n]
         /\ ent[k] \in Entries /\ ent'[k] \in Entries
         /\ ent[k].invalid = FALSE /\ ent[k].ttl = 0
         /\ ent'[k] = [ent[k] EXCEPT !.invalid = TRUE]
  <1>1. ent \in [Nodes -> Entries \cup {NoEntry}]
    BY DEF TypeOK
  <1>2. ent[k] \in Entries
    BY <1>1 DEF Expire, ExpireDue
  <1>3. ent' = [ent EXCEPT ![k] = [ent[k] EXCEPT !.invalid = TRUE]]
    BY DEF Expire
  <1>4. [ent[k] EXCEPT !.invalid = TRUE] \in Entries
    BY <1>2 DEF Entries
  <1>5. ent[k].invalid = FALSE /\ ent[k].ttl = 0
    BY <1>2 DEF Expire, ExpireDue, Entries
  <1> QED  BY <1>1, <1>2, <1>3, <1>4, <1>5

LEMMA RelayEffect ==
  ASSUME TypeOK, NEW k \in Nodes, Relay(k)
  PROVE  /\ ent' \in [Nodes -> Entries \cup {NoEntry}]
         /\ \A n \in Nodes : n # k => ent'[n] = ent[n]
         /\ ent[k] \in Entries /\ ent'[k] \in Entries /\ ent[k].data \in Data
         /\ ent[k].hops \in Nat
         /\ ent[k].rebroadcast = FALSE /\ ent[k].wait = 0
         /\ ent'[k].rebroadcast = TRUE /\ ent'[k].times = ent[k].times + 1
         /\ ent'[k].data = ent[k].data /\ ent'[k].direct = ent[k].direct
         /\ ent'[k].invalid = ent[k].invalid /\ ent'[k].ttl = ent[k].ttl
         /\ ent'[k].hops = ent[k].hops /\ ent'[k].outside = ent[k].outside
         /\ far' \in Nat /\ far <= far' /\ ent[k].hops + 1 <= far'
  <1>1. ent \in [Nodes -> Entries \cup {NoEntry}] /\ far \in Nat
    BY DEF TypeOK
  <1>2. ent[k] \in Entries
    BY <1>1 DEF Relay, RelayDue
  <1> DEFINE t == ent[k].times + 1
             f == [ent[k] EXCEPT !.rebroadcast = TRUE, !.times = t]
  <1>0. t \in Nat
    BY <1>2 DEF Entries
  <1>3. ent' = [ent EXCEPT ![k] = f]
    <2>1. ent' = [ent EXCEPT ![k].rebroadcast = TRUE, ![k].times = @ + 1]
      BY DEF Relay
    <2> QED  BY <1>1, <1>2, <2>1 DEF Entries
  <1> HIDE DEF t
  <1>4. /\ f \in Entries /\ ent[k].data \in Data /\ ent[k].hops \in Nat
        /\ f.rebroadcast = TRUE /\ f.times = t
        /\ f.data = ent[k].data /\ f.direct = ent[k].direct
        /\ f.invalid = ent[k].invalid /\ f.ttl = ent[k].ttl
        /\ f.hops = ent[k].hops /\ f.outside = ent[k].outside
    BY <1>2, <1>0 DEF Entries
  <1>5. ent[k].rebroadcast = FALSE /\ ent[k].wait = 0
    BY <1>2 DEF Relay, RelayDue, Entries
  <1> HIDE DEF f
  <1>6. /\ ent' \in [Nodes -> Entries \cup {NoEntry}] /\ ent'[k] = f
        /\ \A n \in Nodes : n # k => ent'[n] = ent[n]
    BY <1>1, <1>3, <1>4 DEF f
  <1>7. far' \in Nat /\ far <= far' /\ ent[k].hops + 1 <= far'
    BY <1>1, <1>4 DEF Relay
  <1> QED  BY <1>2, <1>4, <1>5, <1>6, <1>7 DEF t

\* The cleaner and a restart change the list of one node, to nothing if at all.
LEMMA ForgetEffect ==
  ASSUME TypeOK, NEW k \in Nodes, Cleaner(k) \/ Reset(k)
  PROVE  /\ ent' \in [Nodes -> Entries \cup {NoEntry}]
         /\ clean' \in [Nodes -> 0 .. CleanPeriod]
         /\ \A n \in Nodes : n # k => ent'[n] = ent[n] /\ clean'[n] = clean[n]
         /\ \/ ent'[k] = NoEntry
            \/ ent'[k] = ent[k] /\ (ent[k] # NoEntry => ~ent[k].invalid)
         /\ Cleaner(k) /\ ent[k] # NoEntry /\ ent'[k] = NoEntry =>
              ent[k].invalid /\ clean[k] = 0
  <1>1. /\ ent \in [Nodes -> Entries \cup {NoEntry}] /\ clean \in [Nodes -> 0 .. CleanPeriod]
        /\ CleanPeriod \in 0 .. CleanPeriod
    BY NetAssumption DEF TypeOK
  <1>2. CASE Cleaner(k)
    <2> DEFINE e == IF ent[k] # NoEntry /\ ent[k].invalid THEN NoEntry ELSE ent[k]
    <2>1. /\ ent' = [ent EXCEPT ![k] = e] /\ clean' = [clean EXCEPT ![k] = CleanPeriod]
          /\ clean[k] = 0
      BY <1>2 DEF Cleaner
    <2>2. e \in Entries \cup {NoEntry}
      BY <1>1
    <2>3. /\ e = NoEntry \/ (e = ent[k] /\ (ent[k] # NoEntry => ~ent[k].invalid))
          /\ ent[k] # NoEntry /\ e = NoEntry => ent[k].invalid
      OBVIOUS
    <2> HIDE DEF e
    <2>4. /\ ent' \in [Nodes -> Entries \cup {NoEntry}] /\ ent'[k] = e
          /\ clean' \in [Nodes -> 0 .. CleanPeriod]
          /\ \A n \in Nodes : n # k => ent'[n] = ent[n] /\ clean'[n] = clean[n]
      BY <1>1, <2>1, <2>2
    <2> QED  BY <2>1, <2>3, <2>4
  <1>3. CASE Reset(k) /\ ~Cleaner(k)
    <2>1. /\ ent' = [ent EXCEPT ![k] = NoEntry] /\ clean' = [clean EXCEPT ![k] = CleanPeriod]
      BY <1>3 DEF Reset
    <2> QED  BY <1>1, <1>3, <2>1
  <1> QED  BY <1>2, <1>3

------------------------------------------------------------------------------
(***************************************************************************)
(* Types.                                                                  *)
(***************************************************************************)

LEMMA InitTypes == Init => TypeOK
  BY NetAssumption DEF Init, TypeOK

LEMMA NextTypes ==
  ASSUME TypeOK, [Next]_vars
  PROVE  TypeOK'
  <1>1. CASE SendNode
    <2>1. Now \in Data
      BY DEF TypeOK, Now, Data
    <2>2. Broadcast(Origin, Now, 0) \subseteq Copies
      BY <2>1, BroadcastCopies
    <2>3. seqno' \in 0 .. MaxSeq /\ beacon' \in 0 .. BeaconPeriod
      BY <1>1, NetAssumption DEF SendNode, TypeOK
    <2> QED  BY <1>1, <2>2, <2>3 DEF SendNode, TypeOK
  <1>2. CASE Stop
    <2>1. up' = FALSE /\ since' = 0
      BY <1>2 DEF Stop
    <2>2. 0 \in 0 .. Horizon
      BY NetAssumption
    <2> QED  BY <1>2, <2>1, <2>2 DEF Stop, TypeOK
  <1>3. CASE Start
    BY <1>3, NetAssumption DEF Start, TypeOK
  <1>4. CASE Tick
    <2>1. beacon' \in 0 .. BeaconPeriod /\ since' \in 0 .. Horizon
      <3>1. since < Horizon /\ since' = since + 1 /\ beacon' = Down(beacon)
        BY <1>4 DEF Tick
      <3>2. since \in 0 .. Horizon /\ beacon \in 0 .. BeaconPeriod
        BY DEF TypeOK
      <3> QED  BY <3>1, <3>2, NetAssumption DEF Down
    <2>2. ent' \in [Nodes -> Entries \cup {NoEntry}] /\ clean' \in [Nodes -> 0 .. CleanPeriod]
      BY <1>4, TickEffect
    <2> QED  BY <1>4, <2>1, <2>2 DEF Tick, TypeOK
  <1>5. ASSUME NEW c \in air, RecvNode(c)
        PROVE  TypeOK'
    <2>1. ent' \in [Nodes -> Entries \cup {NoEntry}]
      BY <1>5, RecvEffect
    <2> QED  BY <1>5, <2>1 DEF RecvNode, Forget, TypeOK
  <1>6. ASSUME NEW c \in air, Lose(c)
        PROVE  TypeOK'
    <2>1. c.to \in Nodes
      BY DEF TypeOK, Copies
    <2>2. missed' \subseteq Nodes /\ lost' \in 0 .. MaxLost
      BY <1>6, <2>1, NetAssumption DEF Lose, TypeOK
    <2> QED  BY <1>6, <2>2 DEF Lose, Forget, TypeOK
  <1>7. ASSUME NEW n \in Nodes, Expire(n)
        PROVE  TypeOK'
    <2>1. ent' \in [Nodes -> Entries \cup {NoEntry}]
      BY <1>7, ExpireEffect
    <2> QED  BY <1>7, <2>1 DEF Expire, TypeOK
  <1>8. ASSUME NEW n \in Nodes, Relay(n)
        PROVE  TypeOK'
    <2>1. /\ ent' \in [Nodes -> Entries \cup {NoEntry}] /\ ent[n].data \in Data
          /\ ent[n].hops \in Nat /\ far' \in Nat
      BY <1>8, RelayEffect
    <2>2. Broadcast(n, ent[n].data, ent[n].hops + 1) \subseteq Copies
      BY <2>1, BroadcastCopies
    <2> QED  BY <1>8, <2>1, <2>2 DEF Relay, TypeOK
  <1>9. ASSUME NEW n \in Nodes, Cleaner(n)
        PROVE  TypeOK'
    <2>1. /\ ent' \in [Nodes -> Entries \cup {NoEntry}] /\ clean' \in [Nodes -> 0 .. CleanPeriod]
      BY <1>9, ForgetEffect
    <2> QED  BY <1>9, <2>1 DEF Cleaner, TypeOK
  <1>10. ASSUME NEW n \in Nodes, Reset(n)
         PROVE  TypeOK'
    <2>1. /\ ent' \in [Nodes -> Entries \cup {NoEntry}] /\ clean' \in [Nodes -> 0 .. CleanPeriod]
      BY <1>10, ForgetEffect
    <2>2. resets' \in 0 .. MaxResets
      BY <1>10, NetAssumption DEF Reset, TypeOK
    <2> QED  BY <1>10, <2>1, <2>2 DEF Reset, TypeOK
  <1>11. CASE UNCHANGED vars
    BY <1>11 DEF vars, TypeOK
  <1> QED  BY <1>1, <1>2, <1>3, <1>4, <1>5, <1>6, <1>7, <1>8, <1>9, <1>10, <1>11 DEF Next

\* The lists, the packets in the air and the histories keep their types.
THEOREM TypeCorrect == Spec => []TypeOK
  <1>1. TypeOK /\ [Next]_vars => TypeOK'
    BY NextTypes
  <1> QED  BY InitTypes, <1>1, PTL DEF Spec

------------------------------------------------------------------------------
(***************************************************************************)
(* How an entry and the air can change, for all the invariants below.      *)
(***************************************************************************)

\* One step leaves the entry of n alone, counts it down, replaces it by a copy
\* from the air, sets one of its flags, or removes it.
LEMMA EntryStep ==
  ASSUME TypeOK, [Next]_vars, NEW n \in Nodes
  PROVE  \/ ent'[n] = ent[n]
         \/ Tick
         \/ \E c \in air : RecvNode(c) /\ c.to = n /\ Taken(ent'[n], c)
         \/ Expire(n) \/ Relay(n)
         \/ ent'[n] = NoEntry
  <1>1. CASE SendNode \/ Stop \/ Start \/ UNCHANGED vars
    BY <1>1 DEF SendNode, Stop, Start, vars
  <1>2. ASSUME NEW c \in air, RecvNode(c), ent'[n] # ent[n]
        PROVE  c.to = n /\ Taken(ent'[n], c)
    BY <1>2, RecvEffect
  <1>3. ASSUME NEW c \in air, Lose(c)
        PROVE  ent'[n] = ent[n]
    BY <1>3 DEF Lose
  <1>4. ASSUME NEW k \in Nodes, Expire(k) \/ Relay(k)
        PROVE  k = n \/ ent'[n] = ent[n]
    BY <1>4, ExpireEffect, RelayEffect
  <1>5. ASSUME NEW k \in Nodes, Cleaner(k) \/ Reset(k)
        PROVE  ent'[n] = ent[n] \/ ent'[n] = NoEntry
    BY <1>5, ForgetEffect
  <1> QED  BY <1>1, <1>2, <1>3, <1>4, <1>5 DEF Next

\* A copy that was not in the air before is a beacon or a relay.
LEMMA AirStep ==
  ASSUME TypeOK, [Next]_vars, NEW c \in air', c \notin air
  PROVE  \/ SendNode /\ c.from = Origin /\ c.data = Now /\ c.hops = 0
         \/ \E k \in Nodes : /\ Relay(k) /\ c.from = k /\ c.data = ent[k].data
                             /\ c.hops = ent[k].hops + 1
  <1>1. CASE SendNode
    <2>1. Now \in Data
      BY DEF TypeOK, Now, Data
    <2>2. c \in Broadcast(Origin, Now, 0)
      BY <1>1 DEF SendNode
    <2> QED  BY <1>1, <2>1, <2>2, BroadcastCopies
  <1>2. ASSUME NEW k \in Nodes, Relay(k)
        PROVE  c.from = k /\ c.data = ent[k].data /\ c.hops = ent[k].hops + 1
    <2>1. ent[k].data \in Data /\ ent[k].hops + 1 \in Nat
      <3>1. ent[k].data \in Data /\ ent[k].hops \in Nat
        BY <1>2, RelayEffect
      <3> QED  BY <3>1
    <2>2. c \in Broadcast(k, ent[k].data, ent[k].hops + 1)
      BY <1>2 DEF Relay
    <2> QED  BY <2>1, <2>2, BroadcastCopies
  <1>3. CASE Stop \/ Start \/ Tick \/ UNCHANGED vars
    BY <1>3 DEF Stop, Start, Tick, vars
  <1>4. ASSUME NEW d \in air, RecvNode(d) \/ Lose(d)
        PROVE  FALSE
    BY <1>4 DEF RecvNode, Lose, Forget
  <1>5. ASSUME NEW k \in Nodes, Expire(k) \/ Cleaner(k) \/ Reset(k)
        PROVE  FALSE
    BY <1>5 DEF Expire, Cleaner, Reset
  <1> QED  BY <1>1, <1>2, <1>3, <1>4, <1>5 DEF Next

\* Which steps change the origin, the time and the farthest relay.
LEMMA OriginStep ==
  ASSUME TypeOK, [Next]_vars
  PROVE  /\ Stop \/ Start \/ (up' = up /\ life' = life /\ (Tick \/ since' = since))
         /\ SendNode \/ Stop \/ Start \/ Tick \/ (seqno' = seqno /\ beacon' = beacon)
         /\ Start \/ (seqno' \in Nat /\ seqno <= seqno')
         /\ far' \in Nat /\ far <= far'
  <1>0. far \in Nat /\ seqno \in Nat
    BY NetAssumption DEF TypeOK
  <1>1. CASE SendNode
    BY <1>0, <1>1 DEF SendNode
  <1>5. CASE UNCHANGED vars
    BY <1>0, <1>5 DEF vars
  <1>6. CASE Start
    <2>1. far' = far
      BY <1>6 DEF Start
    <2> QED  BY <1>0, <1>6, <2>1
  <1>7. CASE Stop
    <2>1. far' = far /\ seqno' = seqno
      BY <1>7 DEF Stop
    <2> QED  BY <1>0, <1>7, <2>1
  <1>8. CASE Tick
    <2>1. far' = far /\ seqno' = seqno /\ up' = up /\ life' = life
      BY <1>8 DEF Tick
    <2> QED  BY <1>0, <1>8, <2>1
  <1>2. ASSUME NEW c \in air, RecvNode(c) \/ Lose(c)
        PROVE  UNCHANGED <<up, life, since, seqno, beacon, far>>
    BY <1>2 DEF RecvNode, Lose
  <1>3. ASSUME NEW k \in Nodes, Expire(k) \/ Cleaner(k) \/ Reset(k)
        PROVE  UNCHANGED <<up, life, since, seqno, beacon, far>>
    BY <1>3 DEF Expire, Cleaner, Reset
  <1>4. ASSUME NEW k \in Nodes, Relay(k)
        PROVE  /\ UNCHANGED <<up, life, since, seqno, beacon>>
               /\ far' \in Nat /\ far <= far'
    BY <1>4, RelayEffect DEF Relay
  <1> QED  BY <1>0, <1>1, <1>2, <1>3, <1>4, <1>5, <1>6, <1>7, <1>8
           DEF Next

\* The parts of an entry's type that the arithmetic needs.
LEMMA EntryTypes ==
  ASSUME TypeOK, NEW n \in Nodes, ent[n] # NoEntry
  PROVE  /\ ent[n] \in Entries /\ ent[n].data \in Data
         /\ ent[n].direct \in BOOLEAN /\ ent[n].rebroadcast \in BOOLEAN
         /\ ent[n].invalid \in BOOLEAN
         /\ ent[n].ttl \in Nat /\ ent[n].ttl <= ExpireTime
         /\ ent[n].wait \in Nat /\ ent[n].wait <= MaxWait
         /\ ent[n].hops \in Nat /\ ent[n].times \in Nat /\ ent[n].outside \in Nat
         /\ clean[n] \in Nat /\ clean[n] <= CleanPeriod
  <1>1. ent[n] \in Entries /\ clean[n] \in 0 .. CleanPeriod
    BY DEF TypeOK
  <1> QED  BY <1>1, NetAssumption, WaitsAreBounded DEF Entries

------------------------------------------------------------------------------
(***************************************************************************)
(* Repeats are relayed as far as in_circle lets them in.                   *)
(***************************************************************************)

LEMMA NextRelays ==
  ASSUME TypeOK, RelaysPerEntry, [Next]_vars
  PROVE  RelaysPerEntry'
  <1> DEFINE Account(n) ==
        ent[n] # NoEntry =>
          ent[n].times + (IF ent[n].rebroadcast THEN 0 ELSE 1)
            <= (IF ent[n].direct THEN 2 ELSE 1) + ent[n].outside
  <1> SUFFICES ASSUME NEW n \in Nodes, ent'[n] # NoEntry
               PROVE  Account(n)'
    BY DEF RelaysPerEntry
  <1>0. Account(n)
    BY DEF RelaysPerEntry
  <1>1. CASE ent'[n] = ent[n]
    BY <1>0, <1>1
  <1>2. CASE Tick
    BY <1>0, <1>2, TickEffect
  <1>3. ASSUME NEW c \in air, RecvNode(c), c.to = n, Taken(ent'[n], c)
        PROVE  Account(n)'
    <2>1. ent'[n].rebroadcast = FALSE /\ ent'[n].direct = (c.from = Origin)
      BY <1>3 DEF Taken
    <2>2. CASE ent'[n].times = 0 /\ ent'[n].outside = 0
      BY <2>1, <2>2
    <2>3. CASE /\ ent[n] # NoEntry /\ ~ent[n].direct
               /\ ent'[n].times = ent[n].times
               /\ ent'[n].outside = IF c.from = Origin THEN ent[n].outside
                                                      ELSE ent[n].outside + 1
      <3>1. ent[n].times + (IF ent[n].rebroadcast THEN 0 ELSE 1) <= 1 + ent[n].outside
        BY <1>0, <2>3
      <3>2. ent[n].times \in Nat /\ ent[n].outside \in Nat
        BY <2>3, EntryTypes
      <3>3. ent[n].times <= 1 + ent[n].outside
        BY <3>1, <3>2
      <3>4. CASE c.from = Origin
        <4>1. ent'[n].direct /\ ent'[n].outside = ent[n].outside
          BY <2>1, <2>3, <3>4
        <4>2. ent[n].times + 1 <= 2 + ent[n].outside
          BY <3>2, <3>3
        <4> QED  BY <2>1, <2>3, <4>1, <4>2
      <3>5. CASE c.from # Origin
        <4>1. ~ent'[n].direct /\ ent'[n].outside = ent[n].outside + 1
          BY <2>1, <2>3, <3>5
        <4>2. ent[n].times + 1 <= 1 + (ent[n].outside + 1)
          BY <3>2, <3>3
        <4> QED  BY <2>1, <2>3, <4>1, <4>2
      <3> QED  BY <3>4, <3>5
    <2> QED  BY <1>1, <1>3, <2>2, <2>3, RecvEffect
  <1>4. CASE Expire(n)
    <2>1. ent'[n] = [ent[n] EXCEPT !.invalid = TRUE] /\ ent[n] \in Entries
      BY <1>4, ExpireEffect
    <2>2. ent[n] # NoEntry
      BY <2>1, NoEntryAssumption
    <2>3. /\ ent'[n].times = ent[n].times /\ ent'[n].rebroadcast = ent[n].rebroadcast
          /\ ent'[n].direct = ent[n].direct /\ ent'[n].outside = ent[n].outside
      BY <2>1 DEF Entries
    <2> QED  BY <1>0, <2>2, <2>3
  <1>5. CASE Relay(n)
    <2>1. /\ ent[n] \in Entries /\ ent[n].rebroadcast = FALSE /\ ent'[n].rebroadcast = TRUE
          /\ ent'[n].times = ent[n].times + 1
          /\ ent'[n].direct = ent[n].direct /\ ent'[n].outside = ent[n].outside
      BY <1>5, RelayEffect
    <2>2. ent[n] # NoEntry
      BY <2>1, NoEntryAssumption
    <2>3. ent[n].times \in Nat
      BY <2>2, EntryTypes
    <2> QED  BY <1>0, <2>1, <2>2, <2>3
  <1> QED  BY <1>1, <1>2, <1>3, <1>4, <1>5, EntryStep

------------------------------------------------------------------------------
(***************************************************************************)
(* Relays are counted, and news is of the past.                            *)
(***************************************************************************)

LEMMA NextHops ==
  ASSUME TypeOK, HopsAreCounted, [Next]_vars
  PROVE  HopsAreCounted'
  <1>0. far \in Nat /\ far' \in Nat /\ far <= far'
    BY OriginStep DEF TypeOK
  <1>1. ASSUME NEW c \in air'
        PROVE  c.hops <= far' /\ (c.from = Origin => c.hops = 0)
    <2>1. CASE c \in air
      <3>1. c.hops \in Nat
        BY <2>1 DEF TypeOK, Copies
      <3>2. c.hops <= far /\ (c.from = Origin => c.hops = 0)
        BY <2>1 DEF HopsAreCounted
      <3> QED  BY <1>0, <3>1, <3>2
    <2>2. CASE c.hops = 0
      BY <1>0, <2>2
    <2>3. ASSUME NEW k \in Nodes, Relay(k), c.from = k, c.hops = ent[k].hops + 1
          PROVE  c.hops <= far' /\ c.from # Origin
      BY <2>3, RelayEffect, NetAssumption
    <2> QED  BY <1>1, <2>1, <2>2, <2>3, AirStep
  <1>2. ASSUME NEW n \in Nodes, ent'[n] # NoEntry
        PROVE  ent'[n].hops <= far' /\ (ent'[n].direct => ent'[n].hops = 0)
    <2>1. CASE /\ ent[n] # NoEntry
               /\ ent'[n].hops = ent[n].hops /\ ent'[n].direct = ent[n].direct
      <3>1. ent[n].hops \in Nat
        BY <2>1, EntryTypes
      <3>2. ent[n].hops <= far /\ (ent[n].direct => ent[n].hops = 0)
        BY <2>1 DEF HopsAreCounted
      <3> QED  BY <1>0, <2>1, <3>1, <3>2
    <2>2. CASE ent'[n] = ent[n]
      BY <1>2, <2>1, <2>2
    <2>3. CASE Tick
      BY <1>2, <2>1, <2>3, TickEffect
    <2>4. ASSUME NEW c \in air, Taken(ent'[n], c)
          PROVE  ent'[n].hops <= far' /\ (ent'[n].direct => ent'[n].hops = 0)
      <3>1. ent'[n].hops = c.hops /\ ent'[n].direct = (c.from = Origin)
        BY <2>4 DEF Taken
      <3>2. c.hops <= far /\ (c.from = Origin => c.hops = 0)
        BY DEF HopsAreCounted
      <3>3. c.hops \in Nat
        BY DEF TypeOK, Copies
      <3>4. c.hops <= far'
        BY <1>0, <3>2, <3>3
      <3> QED  BY <3>1, <3>2, <3>4
    <2>5. CASE Expire(n)
      <3>1. ent'[n] = [ent[n] EXCEPT !.invalid = TRUE] /\ ent[n] \in Entries
        BY <2>5, ExpireEffect
      <3>2. ent'[n].hops = ent[n].hops /\ ent'[n].direct = ent[n].direct
        BY <3>1 DEF Entries
      <3> QED  BY <2>1, <3>1, <3>2, NoEntryAssumption
    <2>6. CASE Relay(n)
      <3>1. /\ ent[n] \in Entries
            /\ ent'[n].hops = ent[n].hops /\ ent'[n].direct = ent[n].direct
        BY <2>6, RelayEffect
      <3> QED  BY <2>1, <3>1, NoEntryAssumption
    <2> QED  BY <1>2, <2>2, <2>3, <2>4, <2>5, <2>6, EntryStep
  <1> QED  BY <1>1, <1>2 DEF HopsAreCounted

\* Past of NothingFromTheFuture, for the steps below.
Past(d) == d.life <= life /\ (d.life = life => d.seqno < seqno)

LEMMA PastStays ==
  ASSUME TypeOK, [Next]_vars, NEW d \in Data, Past(d)
  PROVE  d.life <= life' /\ (d.life = life' => d.seqno < seqno')
  <1>0. /\ d.life \in Nat /\ d.seqno \in Nat /\ life \in Nat /\ seqno \in Nat
    BY NetAssumption DEF TypeOK, Data
  <1>1. CASE Start
    <2>1. life' = life + 1
      BY <1>1 DEF Start
    <2> QED  BY <1>0, <2>1 DEF Past
  <1>2. CASE ~Start
    <2>1. life' = life /\ seqno' \in Nat /\ seqno <= seqno'
      BY <1>2, OriginStep DEF Stop
    <2> QED  BY <1>0, <2>1 DEF Past
  <1> QED  BY <1>1, <1>2

LEMMA NextPast ==
  ASSUME TypeOK, NothingFromTheFuture, [Next]_vars
  PROVE  NothingFromTheFuture'
  <1> DEFINE PastNext(d) == d.life <= life' /\ (d.life = life' => d.seqno < seqno')
  <1>0. /\ \A c \in air : c.data \in Data /\ Past(c.data)
        /\ \A n \in Nodes : ent[n] # NoEntry => ent[n].data \in Data /\ Past(ent[n].data)
    BY EntryTypes DEF NothingFromTheFuture, Past, TypeOK, Copies
  <1>1. ASSUME NEW c \in air'
        PROVE  PastNext(c.data)
    <2>1. CASE c \in air
      BY <1>0, <2>1, PastStays
    <2>2. CASE SendNode /\ c.data = Now
      <3>1. seqno' = seqno + 1 /\ life' = life
        BY <2>2 DEF SendNode
      <3>2. c.data.life = life /\ c.data.seqno = seqno
        BY <2>2 DEF Now
      <3>3. seqno \in Nat /\ life \in Nat
        BY NetAssumption DEF TypeOK
      <3> QED  BY <3>1, <3>2, <3>3
    <2>3. ASSUME NEW k \in Nodes, Relay(k), c.data = ent[k].data
          PROVE  PastNext(c.data)
      <3>1. ent[k] # NoEntry
        BY <2>3, RelayEffect, NoEntryAssumption
      <3> QED  BY <1>0, <2>3, <3>1, PastStays
    <2> QED  BY <1>1, <2>1, <2>2, <2>3, AirStep
  <1>2. ASSUME NEW n \in Nodes, ent'[n] # NoEntry
        PROVE  PastNext(ent'[n].data)
    <2>1. CASE ent[n] # NoEntry /\ ent'[n].data = ent[n].data
      BY <1>0, <2>1, PastStays
    <2>2. CASE ent'[n] = ent[n]
      BY <1>2, <2>1, <2>2
    <2>3. CASE Tick
      BY <1>2, <2>1, <2>3, TickEffect
    <2>4. ASSUME NEW c \in air, Taken(ent'[n], c)
          PROVE  PastNext(ent'[n].data)
      <3>1. ent'[n].data = c.data
        BY <2>4 DEF Taken
      <3> QED  BY <1>0, <3>1, PastStays
    <2>5. CASE Expire(n)
      <3>1. ent'[n] = [ent[n] EXCEPT !.invalid = TRUE] /\ ent[n] \in Entries
        BY <2>5, ExpireEffect
      <3>2. ent'[n].data = ent[n].data
        BY <3>1 DEF Entries
      <3> QED  BY <2>1, <3>1, <3>2, NoEntryAssumption
    <2>6. CASE Relay(n)
      <3>1. ent[n] \in Entries /\ ent'[n].data = ent[n].data
        BY <2>6, RelayEffect
      <3> QED  BY <2>1, <3>1, NoEntryAssumption
    <2> QED  BY <1>2, <2>2, <2>3, <2>4, <2>5, <2>6, EntryStep
  <1> QED  BY <1>1, <1>2 DEF NothingFromTheFuture

------------------------------------------------------------------------------
(***************************************************************************)
(* What is said of a life that is over has been on its way since.          *)
(***************************************************************************)

\* The account of an entry, from the time s.
RunsOut(e, c, s) ==
  /\ ~e.rebroadcast => s + e.wait <= Way(e.hops + 1)
  /\ IF e.invalid THEN s + c <= Way(e.hops) + ExpireTime + CleanPeriod
                  ELSE s + e.ttl <= Way(e.hops) + ExpireTime

\* When a life ends every account starts from 0.
LEMMA RunsOutFromZero ==
  ASSUME TypeOK, NEW n \in Nodes, ent[n] # NoEntry
  PROVE  RunsOut(ent[n], clean[n], 0)
  <1>1. /\ ent[n].ttl \in Nat /\ ent[n].ttl <= ExpireTime
        /\ ent[n].wait \in Nat /\ ent[n].wait <= MaxWait /\ ent[n].hops \in Nat
        /\ clean[n] \in Nat /\ clean[n] <= CleanPeriod
    BY EntryTypes
  <1>2. /\ Way(ent[n].hops) \in Nat /\ Way(ent[n].hops + 1) = Way(ent[n].hops) + MaxWait
        /\ ExpireTime \in Nat /\ CleanPeriod \in Nat /\ MaxWait \in Nat
    BY <1>1, WayFacts, NetAssumption, WaitsAreBounded
  <1> QED  BY <1>1, <1>2 DEF RunsOut

LEMMA NextRunsOut ==
  ASSUME TypeOK, TypeOK', StaleRunsOut, [Next]_vars
  PROVE  StaleRunsOut'
  <1>0. /\ since \in Nat /\ ExpireTime \in Nat /\ CleanPeriod \in Nat /\ MaxWait \in Nat
    BY NetAssumption, WaitsAreBounded DEF TypeOK
  <1>1. ASSUME NEW n \in Nodes, ent[n] # NoEntry, Stale(ent[n].data)
        PROVE  RunsOut(ent[n], clean[n], since)
    BY <1>1 DEF StaleRunsOut, RunsOut
  <1>2. CASE Stop \/ Start
    <2>1. since' = 0 /\ air' = air /\ ent' = ent /\ clean' = clean
      BY <1>2 DEF Stop, Start
    <2>2. \A c \in air : Way(c.hops) \in Nat
      BY WayFacts DEF TypeOK, Copies
    <2>3. \A n \in Nodes : ent[n] # NoEntry => RunsOut(ent[n], clean[n], 0)
      BY RunsOutFromZero
    <2> QED  BY <2>1, <2>2, <2>3 DEF StaleRunsOut, RunsOut
  <1>3. CASE ~Stop /\ ~Start
    <2>1. up' = up /\ life' = life /\ (Tick \/ since' = since)
      BY <1>3, OriginStep
    <2>2. \A d : Stale(d)' <=> Stale(d)
      BY <2>1 DEF Stale
    <2>3. ASSUME NEW c \in air', Stale(c.data)
          PROVE  since' <= Way(c.hops)
      <3>1. CASE Tick
        BY <2>3, <3>1 DEF Tick
      <3>2. CASE ~Tick /\ c \in air
        BY <2>1, <2>3, <3>2 DEF StaleRunsOut
      <3>3. CASE SendNode /\ c.data = Now
        BY <2>3, <3>3 DEF SendNode, Now, Stale
      <3>4. ASSUME ~Tick, NEW k \in Nodes, Relay(k), c.data = ent[k].data,
                   c.hops = ent[k].hops + 1
            PROVE  since' <= Way(c.hops)
        <4>1. ent[k] \in Entries /\ ent[k].rebroadcast = FALSE /\ ent[k].wait = 0
          BY <3>4, RelayEffect
        <4>2. ent[k] # NoEntry
          BY <4>1, NoEntryAssumption
        <4>3. since + 0 <= Way(ent[k].hops + 1)
          BY <1>1, <2>3, <3>4, <4>1, <4>2 DEF RunsOut
        <4> QED  BY <1>0, <2>1, <3>4, <4>3
      <3> QED  BY <2>3, <3>1, <3>2, <3>3, <3>4, AirStep
    <2>4. ASSUME NEW n \in Nodes, ent'[n] # NoEntry, Stale(ent'[n].data)
          PROVE  RunsOut(ent'[n], clean'[n], since')
      <3>1. CASE ent[n] # NoEntry /\ ent'[n] = ent[n] /\ ~Tick
        <4>1. RunsOut(ent[n], clean[n], since) /\ since' = since
          BY <1>1, <2>1, <2>4, <3>1
        <4>2. clean'[n] = clean[n] \/ ~ent[n].invalid
          <5>1. ASSUME NEW k \in Nodes, Cleaner(k) \/ Reset(k)
                PROVE  clean'[n] = clean[n] \/ ~ent[n].invalid
            BY <3>1, <5>1, ForgetEffect
          <5>2. ASSUME NEW c \in air, RecvNode(c) \/ Lose(c)
                PROVE  clean'[n] = clean[n]
            BY <5>2 DEF RecvNode, Lose
          <5>3. ASSUME NEW k \in Nodes, Expire(k) \/ Relay(k)
                PROVE  clean'[n] = clean[n]
            BY <5>3 DEF Expire, Relay
          <5>4. CASE SendNode \/ UNCHANGED vars
            BY <5>4 DEF SendNode, vars
          <5> QED  BY <1>3, <3>1, <5>1, <5>2, <5>3, <5>4 DEF Next
        <4> QED  BY <3>1, <4>1, <4>2 DEF RunsOut
      <3>2. CASE Tick
        <4>1. since' = since + 1 /\ ent[n] # NoEntry
          BY <2>4, <3>2, TickEffect DEF Tick
        <4>2. /\ clean[n] > 0 /\ clean'[n] = clean[n] - 1
              /\ ent'[n].data = ent[n].data /\ ent'[n].hops = ent[n].hops
              /\ ent'[n].invalid = ent[n].invalid
              /\ ent'[n].rebroadcast = ent[n].rebroadcast
              /\ ~ent[n].rebroadcast => ent[n].wait > 0 /\ ent'[n].wait = ent[n].wait - 1
              /\ ~ent[n].invalid => ent[n].ttl > 0 /\ ent'[n].ttl = ent[n].ttl - 1
          BY <3>2, <4>1, TickEffect
        <4>3. RunsOut(ent[n], clean[n], since)
          BY <1>1, <2>4, <4>1, <4>2
        <4>4. ent[n].wait \in Nat /\ ent[n].ttl \in Nat /\ clean[n] \in Nat
          BY <4>1, EntryTypes
        <4>5. ~ent'[n].rebroadcast => since' + ent'[n].wait <= Way(ent'[n].hops + 1)
          BY <1>0, <4>1, <4>2, <4>3, <4>4 DEF RunsOut
        <4>6. CASE ent[n].invalid
          BY <1>0, <4>1, <4>2, <4>3, <4>4, <4>5, <4>6 DEF RunsOut
        <4>7. CASE ~ent[n].invalid
          BY <1>0, <4>1, <4>2, <4>3, <4>4, <4>5, <4>7 DEF RunsOut
        <4> QED  BY <4>6, <4>7
      <3>3. ASSUME NEW c \in air, RecvNode(c), Taken(ent'[n], c)
            PROVE  RunsOut(ent'[n], clean'[n], since')
        <4>1. since' = since
          BY <3>3 DEF RecvNode
        <4>2. /\ ent'[n].data = c.data /\ ent'[n].invalid = FALSE
              /\ ent'[n].ttl = ExpireTime /\ ent'[n].hops = c.hops
              /\ ent'[n].wait \in 0 .. MaxWait
          BY <3>3 DEF Taken, Entries
        <4>3. since <= Way(c.hops)
          BY <2>4, <4>2 DEF StaleRunsOut
        <4>4. Way(c.hops) \in Nat /\ Way(c.hops + 1) = Way(c.hops) + MaxWait
          BY WayFacts DEF TypeOK, Copies
        <4> QED  BY <1>0, <4>1, <4>2, <4>3, <4>4 DEF RunsOut
      <3>4. CASE Expire(n)
        <4>1. /\ ent'[n] = [ent[n] EXCEPT !.invalid = TRUE] /\ ent[n] \in Entries
              /\ ent[n].invalid = FALSE /\ ent[n].ttl = 0
          BY <3>4, ExpireEffect
        <4>2. ent[n] # NoEntry
          BY <4>1, NoEntryAssumption
        <4>3. /\ ent'[n].data = ent[n].data /\ ent'[n].hops = ent[n].hops
              /\ ent'[n].rebroadcast = ent[n].rebroadcast /\ ent'[n].wait = ent[n].wait
              /\ ent'[n].invalid = TRUE
          BY <4>1 DEF Entries
        <4>4. since' = since /\ clean' = clean
          BY <3>4 DEF Expire
        <4>5. RunsOut(ent[n], clean[n], since)
          BY <1>1, <2>4, <4>2, <4>3
        <4>6. clean[n] \in Nat /\ clean[n] <= CleanPeriod /\ ent[n].hops \in Nat
          BY <4>2, EntryTypes
        <4>7. Way(ent[n].hops) \in Nat
          BY <4>6, WayFacts
        <4>8. since + 0 <= Way(ent[n].hops) + ExpireTime
          BY <4>1, <4>5 DEF RunsOut
        <4>9. since + clean[n] <= Way(ent[n].hops) + ExpireTime + CleanPeriod
          BY <1>0, <4>6, <4>7, <4>8
        <4> QED  BY <4>3, <4>4, <4>5, <4>9 DEF RunsOut
      <3>5. CASE Relay(n)
        <4>1. /\ ent[n] \in Entries /\ ent'[n].rebroadcast = TRUE
              /\ ent'[n].data = ent[n].data /\ ent'[n].hops = ent[n].hops
              /\ ent'[n].invalid = ent[n].invalid /\ ent'[n].ttl = ent[n].ttl
          BY <3>5, RelayEffect
        <4>2. ent[n] # NoEntry
          BY <4>1, NoEntryAssumption
        <4>3. since' = since /\ clean' = clean
          BY <3>5 DEF Relay
        <4>4. RunsOut(ent[n], clean[n], since)
          BY <1>1, <2>4, <4>1, <4>2
        <4> QED  BY <4>1, <4>3, <4>4 DEF RunsOut
      <3> QED  BY <2>4, <3>1, <3>2, <3>3, <3>4, <3>5, EntryStep
    <2> QED  BY <2>2, <2>3, <2>4 DEF StaleRunsOut, RunsOut
  <1> QED  BY <1>2, <1>3

------------------------------------------------------------------------------
(***************************************************************************)
(* A node that is back is heard in time.                                   *)
(***************************************************************************)

\* When no daemon stops or starts, only Tick and SendNode touch the beacons.
LEMMA NextLatest ==
  ASSUME TypeOK, NothingFromTheFuture, BeaconsAreLatest, [Next]_vars
  PROVE  BeaconsAreLatest'
  <1> SUFFICES ASSUME NEW c \in air', c.from = Origin, ~Stale(c.data)'
               PROVE  c.data.seqno + 1 = seqno' /\ beacon' = BeaconPeriod
    BY DEF BeaconsAreLatest
  <1>0. up' /\ c.data.life = life'
    BY DEF Stale
  <1>1. CASE Stop
    BY <1>0, <1>1 DEF Stop
  <1>2. CASE Start
    <2>1. c \in air /\ life' = life + 1
      BY <1>2 DEF Start
    <2>2. c.data.life <= life /\ life \in Nat
      BY <2>1, NetAssumption DEF NothingFromTheFuture, TypeOK
    <2> QED  BY <1>0, <2>1, <2>2
  <1>3. CASE Tick
    BY <1>3 DEF Tick
  <1>4. CASE ~Stop /\ ~Start /\ ~Tick
    <2>1. up' = up /\ life' = life
      BY <1>4, OriginStep
    <2>2. ~Stale(c.data)
      BY <1>0, <2>1 DEF Stale
    <2>3. CASE SendNode /\ c \in air
      <3>1. beacon = BeaconPeriod /\ beacon = 0
        BY <2>2, <2>3 DEF BeaconsAreLatest, SendNode
      <3> QED  BY <3>1, NetAssumption
    <2>4. CASE SendNode /\ c.data = Now
      <3>1. c.data.seqno = seqno
        BY <2>4 DEF Now
      <3> QED  BY <2>4, <3>1 DEF SendNode
    <2>5. CASE c \in air /\ ~SendNode
      <3>1. seqno' = seqno /\ beacon' = beacon
        BY <1>4, <2>5, OriginStep
      <3> QED  BY <2>2, <2>5, <3>1 DEF BeaconsAreLatest
    <2>6. ASSUME NEW k \in Nodes, c.from = k
          PROVE  FALSE
      BY <2>6, NetAssumption
    <2> QED  BY <2>3, <2>4, <2>5, <2>6, AirStep
  <1> QED  BY <1>1, <1>2, <1>3, <1>4

\* When a neighbour that every beacon reaches must list the origin at last.
Deadline(f) == Way(f) + ExpireTime + CleanPeriod + BeaconPeriod

\* HeardOnceUp for one node.
Heard(n) ==
  /\ ent[n] = NoEntry =>
       since <= Deadline(far) /\ (BeaconComes(n) \/ since + beacon <= Deadline(far))
  /\ ent[n] # NoEntry /\ ~Stale(ent[n].data) =>
       /\ ~ent[n].invalid
       /\ \/ ent[n].ttl + BeaconPeriod >= ExpireTime + beacon
          \/ /\ BeaconComes(n) /\ ent[n].data.seqno + 1 < seqno
             /\ ent[n].ttl + BeaconPeriod >= ExpireTime

\* The numbers of the steps below.
LEMMA TimeTypes ==
  ASSUME TypeOK
  PROVE  /\ since \in Nat /\ beacon \in Nat /\ beacon <= BeaconPeriod /\ seqno \in Nat
         /\ far \in Nat /\ Way(far) \in Nat /\ Deadline(far) \in Nat
         /\ BeaconPeriod \in Nat \ {0} /\ ExpireTime \in Nat \ {0} /\ CleanPeriod \in Nat
         /\ \A f \in Nat : far <= f => Deadline(far) <= Deadline(f) /\ Deadline(f) \in Nat
  <1>1. /\ since \in Nat /\ beacon \in Nat /\ beacon <= BeaconPeriod /\ seqno \in Nat
        /\ far \in Nat
        /\ BeaconPeriod \in Nat \ {0} /\ ExpireTime \in Nat \ {0} /\ CleanPeriod \in Nat
    BY NetAssumption DEF TypeOK
  <1>2. Way(far) \in Nat /\ \A f \in Nat : Way(f) \in Nat /\ (far <= f => Way(far) <= Way(f))
    BY <1>1, WayFacts
  <1> QED  BY <1>1, <1>2 DEF Deadline

\* A copy of the present life that n takes in starts the timeout of n anew; an
\* old one is not covered by Heard.
LEMMA TakenIsHeard ==
  ASSUME TypeOK, NEW n \in Nodes, NEW c \in air, Taken(ent'[n], c), beacon' = beacon
  PROVE  Heard(n)'
  <1>1. ent'[n] # NoEntry /\ ent'[n].invalid = FALSE /\ ent'[n].ttl = ExpireTime
    BY NoEntryAssumption DEF Taken
  <1>2. ExpireTime + BeaconPeriod >= ExpireTime + beacon'
    BY TimeTypes
  <1> QED  BY <1>1, <1>2 DEF Heard

LEMMA NextHeard ==
  ASSUME TypeOK, TypeOK', HopsAreCounted, NothingFromTheFuture, StaleRunsOut,
         BeaconsAreLatest, HeardOnceUp, [Next]_vars
  PROVE  HeardOnceUp'
  <1> SUFFICES ASSUME up', resets' = 0, BeaconPeriod < ExpireTime,
                      NEW n \in Hearers(Origin) \ missed'
               PROVE  Heard(n)'
    BY DEF HeardOnceUp, Heard, Deadline, Hearers
  <1> n \in Nodes
    BY DEF Hearers
  <1>0. /\ since \in Nat /\ beacon \in Nat /\ beacon <= BeaconPeriod /\ seqno \in Nat
        /\ far \in Nat /\ Way(far) \in Nat /\ Deadline(far) \in Nat
        /\ BeaconPeriod \in Nat \ {0} /\ ExpireTime \in Nat \ {0} /\ CleanPeriod \in Nat
        /\ \A f \in Nat : far <= f => Deadline(far) <= Deadline(f) /\ Deadline(f) \in Nat
    BY TimeTypes
  <1>1. CASE Stop
    BY <1>1 DEF Stop
  <1>2. CASE Start
    <2>1. /\ since' = 0 /\ beacon' = BeaconPeriod /\ ent' = ent /\ far' = far
          /\ life' = life + 1
      BY <1>2 DEF Start
    <2>2. ent[n] # NoEntry => Stale(ent[n].data)'
      <3>1. ent[n] # NoEntry => ent[n].data.life <= life
        BY DEF NothingFromTheFuture
      <3>2. life \in Nat
        BY NetAssumption DEF TypeOK
      <3>3. ent[n] # NoEntry => ent[n].data.life \in Nat
        BY EntryTypes, NetAssumption DEF Data
      <3> QED  BY <2>1, <3>1, <3>2, <3>3 DEF Stale
    <2>3. 0 <= Deadline(far) /\ 0 + BeaconPeriod <= Deadline(far)
      BY <1>0 DEF Deadline
    <2> QED  BY <2>1, <2>2, <2>3 DEF Heard
  <1> SUFFICES ASSUME ~Stop, ~Start
               PROVE  Heard(n)'
    BY <1>1, <1>2
  <1>3. up /\ up' = up /\ life' = life
    BY OriginStep
  <1>4. \A d : Stale(d)' <=> Stale(d)
    BY <1>3 DEF Stale
  <1>5. n \notin missed /\ resets = 0
    <2>1. CASE SendNode \/ Tick \/ UNCHANGED vars
      BY <2>1 DEF SendNode, Tick, vars
    <2>2. ASSUME NEW c \in air, RecvNode(c) \/ Lose(c)
          PROVE  n \notin missed /\ resets = 0
      BY <2>2 DEF RecvNode, Lose
    <2>3. ASSUME NEW k \in Nodes, Expire(k) \/ Relay(k) \/ Cleaner(k)
          PROVE  n \notin missed /\ resets = 0
      BY <2>3 DEF Expire, Relay, Cleaner
    <2>4. ASSUME NEW k \in Nodes, Reset(k)
          PROVE  FALSE
      <3>1. resets' = resets + 1 /\ resets \in Nat
        BY <2>4, NetAssumption DEF Reset, TypeOK
      <3> QED  BY <3>1
    <2> QED  BY <2>1, <2>2, <2>3, <2>4 DEF Next
  <1>6. Heard(n)
    BY <1>3, <1>5 DEF HeardOnceUp, Heard, Deadline
  <1>7. CASE SendNode
    <2>1. beacon = 0 /\ beacon' = BeaconPeriod /\ since' = since /\ ent' = ent
          /\ seqno' = seqno + 1 /\ far' = far
      BY <1>7 DEF SendNode
    <2>2. ~BeaconComes(n)
      BY <1>0, <2>1 DEF BeaconComes, BeaconsAreLatest
    <2>3. BeaconComes(n)'
      <3>1. Now \in Data
        BY DEF TypeOK, Now, Data
      <3>2. PICK c \in Broadcast(Origin, Now, 0) : c.to = n
        BY <3>1, BroadcastCopies
      <3>3. c.from = Origin /\ c.data = Now /\ c \in air'
        BY <1>7, <3>1, <3>2, BroadcastCopies DEF SendNode
      <3>4. c.data.life = life
        BY <3>3 DEF Now
      <3>5. ~Stale(c.data)'
        BY <1>3, <3>4 DEF Stale
      <3> QED  BY <3>2, <3>3, <3>5 DEF BeaconComes
    <2>4. ent[n] # NoEntry /\ ~Stale(ent[n].data) =>
            /\ ent[n].data.seqno + 1 < seqno' /\ ent[n].ttl + BeaconPeriod >= ExpireTime
      <3> SUFFICES ASSUME ent[n] # NoEntry, ~Stale(ent[n].data)
                   PROVE  /\ ent[n].data.seqno + 1 < seqno'
                          /\ ent[n].ttl + BeaconPeriod >= ExpireTime
        OBVIOUS
      <3>1. ent[n].data.life = life
        BY DEF Stale
      <3>2. ent[n].data.seqno < seqno
        BY <3>1 DEF NothingFromTheFuture
      <3>3. ent[n].data.seqno \in Nat
        BY EntryTypes, NetAssumption DEF Data
      <3>4. ent[n].ttl + BeaconPeriod >= ExpireTime + 0
        BY <1>6, <2>1, <2>2 DEF Heard
      <3> QED  BY <1>0, <2>1, <3>2, <3>3, <3>4
    <2>5. (ent[n] # NoEntry /\ ~Stale(ent[n].data))' => ~ent'[n].invalid
      BY <1>4, <1>6, <2>1 DEF Heard
    <2>6. ent[n] = NoEntry => since' <= Deadline(far')
      BY <1>6, <2>1 DEF Heard
    <2> QED  BY <1>4, <2>1, <2>3, <2>4, <2>5, <2>6 DEF Heard
  <1>8. CASE Tick
    <2>1. /\ beacon' = beacon - 1 /\ beacon > 0 /\ since' = since + 1 /\ far' = far
          /\ ~BeaconComes(n)
      <3>1. beacon' = Down(beacon) /\ beacon > 0 /\ since' = since + 1 /\ far' = far /\ air = {}
        BY <1>3, <1>8 DEF Tick
      <3> QED  BY <1>0, <3>1 DEF Down, BeaconComes
    <2>2. CASE ent[n] = NoEntry
      <3>1. ent'[n] = NoEntry
        BY <1>8, <2>2, TickEffect
      <3>2. since + beacon <= Deadline(far)
        BY <1>6, <2>1, <2>2 DEF Heard
      <3>3. since' + beacon' <= Deadline(far') /\ since' <= Deadline(far')
        BY <1>0, <2>1, <3>2
      <3> QED  BY <3>1, <3>3 DEF Heard
    <2>3. CASE ent[n] # NoEntry
      <3>1. /\ ent'[n].data = ent[n].data /\ ent'[n].invalid = ent[n].invalid
            /\ ent'[n] \in Entries
            /\ ~ent[n].invalid => ent[n].ttl > 0 /\ ent'[n].ttl = ent[n].ttl - 1
        BY <1>8, <2>3, TickEffect
      <3>2. ent'[n] # NoEntry
        BY <3>1, NoEntryAssumption
      <3> SUFFICES ASSUME ~Stale(ent'[n].data)
                   PROVE  /\ ~ent'[n].invalid
                          /\ ent'[n].ttl + BeaconPeriod >= ExpireTime + beacon'
        BY <1>4, <3>2 DEF Heard
      <3>3. ~ent[n].invalid /\ ent[n].ttl + BeaconPeriod >= ExpireTime + beacon
        BY <1>6, <2>1, <2>3, <3>1 DEF Heard
      <3>4. ent[n].ttl \in Nat
        BY <2>3, EntryTypes
      <3> QED  BY <1>0, <2>1, <3>1, <3>3, <3>4
    <2> QED  BY <2>2, <2>3
  <1> SUFFICES ASSUME ~SendNode, ~Tick
               PROVE  Heard(n)'
    BY <1>7, <1>8
  <1>9. /\ since' = since /\ beacon' = beacon /\ seqno' = seqno
        /\ far' \in Nat /\ far <= far'
    BY OriginStep
  <1>10. Deadline(far) <= Deadline(far') /\ Deadline(far') \in Nat
    BY <1>0, <1>9
  <1>11. ASSUME BeaconComes(n) => BeaconComes(n)',
                \/ ent'[n] = ent[n]
                \/ /\ ent[n] # NoEntry /\ ent'[n] # NoEntry
                   /\ ent'[n].data = ent[n].data /\ ent'[n].invalid = ent[n].invalid
                   /\ ent'[n].ttl = ent[n].ttl
         PROVE  Heard(n)'
    <2>1. CASE ent[n] = NoEntry
      <3>1. ent'[n] = NoEntry
        BY <1>11, <2>1
      <3>2. since <= Deadline(far) /\ (BeaconComes(n) \/ since + beacon <= Deadline(far))
        BY <1>6, <2>1 DEF Heard
      <3>3. since' <= Deadline(far')
        BY <1>0, <1>9, <1>10, <3>2
      <3>4. since + beacon <= Deadline(far) => since' + beacon' <= Deadline(far')
        BY <1>0, <1>9, <1>10
      <3> QED  BY <1>11, <3>1, <3>2, <3>3, <3>4 DEF Heard
    <2>2. CASE ent[n] # NoEntry
      <3>1. /\ ent'[n] # NoEntry /\ ent'[n].data = ent[n].data
            /\ ent'[n].invalid = ent[n].invalid /\ ent'[n].ttl = ent[n].ttl
        BY <1>11, <2>2
      <3> QED  BY <1>4, <1>6, <1>9, <1>11, <2>2, <3>1 DEF Heard
    <2> QED  BY <2>1, <2>2
  <1>12. ASSUME NEW c \in air, RecvNode(c)
         PROVE  Heard(n)'
    <2>1. air' = air \ {c}
      BY <1>12 DEF RecvNode, Forget
    <2>2. CASE ~(c.to = n /\ c.from = Origin /\ ~Stale(c.data))
      <3>1. BeaconComes(n) => BeaconComes(n)'
        BY <1>4, <2>1, <2>2 DEF BeaconComes
      <3>2. CASE ent'[n] = ent[n]
        BY <1>11, <3>1, <3>2
      <3>3. CASE Taken(ent'[n], c)
        BY <1>9, <3>3, TakenIsHeard
      <3> QED  BY <1>12, <3>2, <3>3, RecvEffect
    <2>3. CASE c.to = n /\ c.from = Origin /\ ~Stale(c.data)
      <3>1. CASE Taken(ent'[n], c)
        BY <1>9, <3>1, TakenIsHeard
      <3>2. CASE /\ ent'[n] = ent[n] /\ ent[n] # NoEntry
                 /\ Obsolete(ent[n], c) \/ SameAge(ent[n], c)
        <4> SUFFICES ASSUME ~Stale(ent[n].data)
                     PROVE  /\ ~ent[n].invalid
                            /\ ent[n].ttl + BeaconPeriod >= ExpireTime + beacon
          BY <1>4, <1>9, <3>2 DEF Heard
        <4>1. c.data.seqno + 1 = seqno
          BY <2>3 DEF BeaconsAreLatest
        <4>2. c.data.seqno \in Nat /\ ent[n].data.seqno \in Nat
          BY <3>2, EntryTypes, NetAssumption DEF TypeOK, Copies, Data
        <4>3. ent[n].data.seqno >= c.data.seqno
          BY <3>2, <4>2 DEF Obsolete, SameAge
        <4>4. ~(ent[n].data.seqno + 1 < seqno)
          BY <1>0, <4>1, <4>2, <4>3
        <4> QED  BY <1>6, <3>2, <4>4 DEF Heard
      <3> QED  BY <1>12, <2>3, <3>1, <3>2, RecvEffect
    <2> QED  BY <2>2, <2>3
  <1>13. ASSUME NEW c \in air, Lose(c)
         PROVE  Heard(n)'
    <2>1. air' = air \ {c} /\ ent' = ent
      BY <1>13 DEF Lose, Forget
    <2>2. ~(c.to = n /\ c.from = Origin /\ ~Stale(c.data))
      BY <1>13 DEF Lose, Stale
    <2>3. BeaconComes(n) => BeaconComes(n)'
      BY <1>4, <2>1, <2>2 DEF BeaconComes
    <2> QED  BY <1>11, <2>1, <2>3
  <1>14. ASSUME NEW k \in Nodes, Expire(k)
         PROVE  Heard(n)'
    <2>1. air' = air
      BY <1>14 DEF Expire
    <2>2. BeaconComes(n) => BeaconComes(n)'
      BY <1>4, <2>1 DEF BeaconComes
    <2>3. CASE k # n
      BY <1>11, <1>14, <2>2, <2>3, ExpireEffect
    <2>4. CASE k = n
      <3>1. /\ ent[n] \in Entries /\ ent[n].invalid = FALSE /\ ent[n].ttl = 0
            /\ ent'[n] = [ent[n] EXCEPT !.invalid = TRUE] /\ ent'[n] \in Entries
        BY <1>14, <2>4, ExpireEffect
      <3>2. ent'[n].data = ent[n].data
        BY <3>1 DEF Entries
      <3>3. ent[n] # NoEntry /\ ent'[n] # NoEntry
        BY <3>1, NoEntryAssumption
      <3>4. Stale(ent[n].data)
        BY <1>0, <1>6, <3>1, <3>3 DEF Heard
      <3> QED  BY <1>4, <3>2, <3>3, <3>4 DEF Heard
    <2> QED  BY <2>3, <2>4
  <1>15. ASSUME NEW k \in Nodes, Relay(k)
         PROVE  Heard(n)'
    <2>1. air \subseteq air'
      BY <1>15 DEF Relay
    <2>2. BeaconComes(n) => BeaconComes(n)'
      BY <1>4, <2>1 DEF BeaconComes
    <2>3. CASE k # n
      BY <1>11, <1>15, <2>2, <2>3, RelayEffect
    <2>4. CASE k = n
      BY <1>11, <1>15, <2>2, <2>4, RelayEffect, NoEntryAssumption
    <2> QED  BY <2>3, <2>4
  <1>16. ASSUME NEW k \in Nodes, Cleaner(k)
         PROVE  Heard(n)'
    <2>1. air' = air
      BY <1>16 DEF Cleaner
    <2>2. BeaconComes(n) => BeaconComes(n)'
      BY <1>4, <2>1 DEF BeaconComes
    <2>3. CASE ent'[n] = ent[n]
      BY <1>11, <2>2, <2>3
    <2>4. CASE ent'[n] # ent[n]
      <3>1. k = n /\ ent'[n] = NoEntry /\ ent[n] # NoEntry /\ ent[n].invalid /\ clean[n] = 0
        BY <1>16, <2>4, ForgetEffect
      <3>2. Stale(ent[n].data)
        BY <1>6, <3>1 DEF Heard
      <3>3. since + 0 <= Way(ent[n].hops) + ExpireTime + CleanPeriod
        BY <3>1, <3>2 DEF StaleRunsOut
      <3>4. ent[n].hops <= far /\ ent[n].hops \in Nat
        BY <3>1, EntryTypes DEF HopsAreCounted
      <3>5. Way(ent[n].hops) <= Way(far) /\ Way(ent[n].hops) \in Nat
        BY <1>0, <3>4, WayFacts
      <3>6. since + beacon <= Deadline(far) /\ since <= Deadline(far)
        BY <1>0, <3>3, <3>5 DEF Deadline
      <3>7. since' + beacon' <= Deadline(far') /\ since' <= Deadline(far')
        BY <1>0, <1>9, <1>10, <3>6
      <3> QED  BY <3>1, <3>7 DEF Heard
    <2> QED  BY <2>3, <2>4
  <1>17. ASSUME NEW k \in Nodes, Reset(k)
         PROVE  Heard(n)'
    <2>1. resets' = resets + 1 /\ resets = 0
      BY <1>5, <1>17 DEF Reset
    <2> QED  BY <2>1
  <1>18. CASE UNCHANGED vars
    <2>1. air' = air /\ ent' = ent
      BY <1>18 DEF vars
    <2>2. BeaconComes(n) => BeaconComes(n)'
      BY <1>4, <2>1 DEF BeaconComes
    <2> QED  BY <1>11, <2>1, <2>2
  <1> QED  BY <1>12, <1>13, <1>14, <1>15, <1>16, <1>17, <1>18 DEF Next

------------------------------------------------------------------------------
LEMMA InitInv == Init => NetInv
  <1> SUFFICES ASSUME Init PROVE NetInv
    OBVIOUS
  <1>1. TypeOK
    BY InitTypes
  <1>2. /\ RelaysPerEntry /\ HopsAreCounted /\ NothingFromTheFuture
        /\ StaleRunsOut /\ BeaconsAreLatest
    BY DEF Init, RelaysPerEntry, HopsAreCounted, NothingFromTheFuture, StaleRunsOut,
           BeaconsAreLatest
  <1>3. HeardOnceUp
    <2>1. since = 0 /\ beacon = BeaconPeriod /\ \A n \in Nodes : ent[n] = NoEntry
      BY DEF Init
    <2>2. 0 <= Deadline(far) /\ 0 + BeaconPeriod <= Deadline(far)
      BY <1>1, TimeTypes DEF Deadline
    <2> QED  BY <2>1, <2>2 DEF HeardOnceUp, Deadline, Hearers
  <1> QED  BY <1>1, <1>2, <1>3 DEF NetInv

LEMMA NextInv == NetInv /\ [Next]_vars => NetInv'
  <1> SUFFICES ASSUME NetInv, [Next]_vars PROVE NetInv'
    OBVIOUS
  <1>1. TypeOK'
    BY NextTypes DEF NetInv
  <1> QED  BY <1>1, NextRelays, NextHops, NextPast, NextRunsOut, NextLatest, NextHeard
           DEF NetInv

LEMMA InvHolds == Spec => []NetInv
  BY InitInv, NextInv, PTL DEF Spec

\* A node that is back is heard by every neighbour its beacons reach, at the
\* latest one beacon after the relays, a timeout and a cleaner period have
\* done away with its former life (recv_node, list_cleaner_cb).
THEOREM RestartIsHeard == Spec => []RestartHeardInTime
  <1>1. NetInv => RestartHeardInTime
    <2> SUFFICES ASSUME NetInv, up, resets = 0, BeaconPeriod < ExpireTime,
                        since > far * MaxWait + ExpireTime + CleanPeriod + BeaconPeriod,
                        NEW n \in Hearers(Origin) \ missed
                 PROVE  ent[n] # NoEntry /\ ent[n].data.life = life
      BY DEF RestartHeardInTime
    <2>1. n \in Nodes
      BY DEF Hearers
    <2>2. /\ since \in Nat /\ Deadline(far) \in Nat /\ Way(far) \in Nat /\ far \in Nat
          /\ BeaconPeriod \in Nat /\ ExpireTime \in Nat /\ CleanPeriod \in Nat
      BY TimeTypes DEF NetInv
    <2>3. since > Deadline(far)
      BY DEF Deadline, Way
    <2>4. ent[n] # NoEntry
      BY <2>2, <2>3 DEF NetInv, HeardOnceUp, Deadline
    <2>5. ASSUME Stale(ent[n].data)
          PROVE  FALSE
      <3>1. /\ ent[n].hops \in Nat /\ ent[n].ttl \in Nat /\ clean[n] \in Nat
            /\ ent[n].hops <= far
        BY <2>1, <2>4, EntryTypes DEF NetInv, HopsAreCounted
      <3>2. Way(ent[n].hops) <= Way(far) /\ Way(ent[n].hops) \in Nat
        BY <2>2, <3>1, WayFacts
      <3>3. IF ent[n].invalid
              THEN since + clean[n] <= Way(ent[n].hops) + ExpireTime + CleanPeriod
              ELSE since + ent[n].ttl <= Way(ent[n].hops) + ExpireTime
        BY <2>1, <2>4, <2>5 DEF NetInv, StaleRunsOut
      <3> QED  BY <2>2, <2>3, <3>1, <3>2, <3>3 DEF Deadline
    <2> QED  BY <2>4, <2>5 DEF Stale
  <1> QED  BY InvHolds, <1>1, PTL

\* An entry of a node that is gone is at most a timeout, a cleaner period and
\* one wait for every relay of its news old (rebroadcast_expire,
\* list_cleaner_cb).
THEOREM GoneIsForgotten == Spec => []GoneIsForgottenInTime
  <1>1. NetInv => GoneIsForgottenInTime
    <2> SUFFICES ASSUME NetInv, ~up, NEW n \in Nodes, ent[n] # NoEntry
                 PROVE  since <= ent[n].hops * MaxWait + ExpireTime + CleanPeriod
      BY DEF GoneIsForgottenInTime
    <2>1. /\ ent[n].hops \in Nat /\ ent[n].ttl \in Nat /\ clean[n] \in Nat
      BY EntryTypes DEF NetInv
    <2>2. /\ since \in Nat /\ ExpireTime \in Nat /\ CleanPeriod \in Nat
          /\ Way(ent[n].hops) \in Nat
      BY <2>1, TimeTypes, WayFacts DEF NetInv
    <2>3. IF ent[n].invalid
            THEN since + clean[n] <= Way(ent[n].hops) + ExpireTime + CleanPeriod
            ELSE since + ent[n].ttl <= Way(ent[n].hops) + ExpireTime
      BY DEF NetInv, StaleRunsOut, Stale
    <2>4. since <= Way(ent[n].hops) + ExpireTime + CleanPeriod
      BY <2>1, <2>2, <2>3
    <2> QED  BY <2>4 DEF Way
  <1> QED  BY InvHolds, <1>1, PTL

\* A node that has gone is taken for direct (dst_is_direct) for a timeout and
\* a cleaner period at most, whatever relays are still under way.
THEOREM DirectEnds == Spec => []DirectOnlyWhileHeard
  <1>1. NetInv /\ GoneIsForgottenInTime => DirectOnlyWhileHeard
    <2> SUFFICES ASSUME NetInv, GoneIsForgottenInTime, ~up,
                        since > ExpireTime + CleanPeriod,
                        NEW n \in Nodes, DstIsDirect(n)
                 PROVE  FALSE
      BY DEF DirectOnlyWhileHeard
    <2>1. ent[n] # NoEntry /\ ent[n].hops = 0
      BY DEF NetInv, HopsAreCounted, DstIsDirect
    <2>2. since <= 0 * MaxWait + ExpireTime + CleanPeriod
      BY <2>1 DEF GoneIsForgottenInTime
    <2>3. since \in Nat /\ ExpireTime \in Nat /\ CleanPeriod \in Nat /\ 0 * MaxWait = 0
      BY TimeTypes, WaitsAreBounded DEF NetInv
    <2> QED  BY <2>2, <2>3
  <1> QED  BY InvHolds, GoneIsForgotten, <1>1, PTL

\* While it lists the origin, a node relays what it lists at most twice and
\* once more for every repeat in_circle let in (rebroadcast_expire).
THEOREM NoFlood == Spec => []RelayedAtMostTwice
  <1>1. NetInv => RelayedAtMostTwice
    <2> SUFFICES ASSUME NetInv, NEW n \in Nodes, ent[n] # NoEntry
                 PROVE  ent[n].times <= 2 + ent[n].outside
      BY DEF RelayedAtMostTwice
    <2>1. ent[n].times \in Nat /\ ent[n].outside \in Nat
      BY EntryTypes DEF NetInv
    <2>2. ent[n].times + (IF ent[n].rebroadcast THEN 0 ELSE 1)
            <= (IF ent[n].direct THEN 2 ELSE 1) + ent[n].outside
      BY DEF NetInv, RelaysPerEntry
    <2> QED  BY <2>1, <2>2
  <1> QED  BY InvHolds, <1>1, PTL

\* Relays neither flood nor keep a node that is gone direct, in states of the
\* right types.
THEOREM RelaysStaySound == Spec => []RelaysAreSound
  <1>1. TypeOK /\ RelayedAtMostTwice /\ DirectOnlyWhileHeard => RelaysAreSound
    BY DEF RelaysAreSound
  <1> QED  BY TypeCorrect, DirectEnds, NoFlood, <1>1, PTL
=============================================================================
