------------------------------ MODULE NeighNet ------------------------------
(***************************************************************************)
(* How the news of one node spreads: the origin broadcasts a node packet   *)
(* every beacon_period (NeighManager::send_node), the others keep it in    *)
(* their neighbour lists (recv_node, neigh_list.cc) and each relays it     *)
(* once its wait_time is over (rebroadcast_expire).  Packets are UDP       *)
(* broadcasts: each receiver gets its own copy, late, or not at all.  The  *)
(* origin's daemon may stop and start again, and then counts its packets   *)
(* from 0; so may the daemons that listen.                                 *)
(*                                                                         *)
(* Lists are keyed by the address of the origin and do not interact except *)
(* in in_circle, so one origin is modelled; where the other nodes are, and *)
(* whether they list one another, changes all the time and is left open.   *)
(* Memory and the identity of timers are the subject of NeighList; its     *)
(* FlagsTellTimers is why a timer is just a countdown here: the timeout of *)
(* an entry is pending unless the entry is INVALID, its relay is pending   *)
(* unless REBROADCAST is set.                                              *)
(*                                                                         *)
(* Time is discrete.  Tick waits for whatever is due and for every packet  *)
(* in the air: radio and event loop are fast compared with the timers.     *)
(***************************************************************************)
EXTENDS Naturals, FiniteSets

CONSTANTS
  Origin,       \* the node whose beacons are followed
  Nodes,        \* the other nodes
  NoEntry,      \* what a list holds of a node it does not name
  Links,        \* who hears whom: a symmetric set of pairs
  FirstSeq,     \* how far the origin may have counted when we start to look
  MaxSeq,       \* bound: largest sequence number; the packet has 31 bits for it
  BeaconPeriod, \* beacon_period
  ExpireTime,   \* entry_expire_period
  CleanPeriod,  \* list_cleaner_period
  Waits,        \* what wait_time may return
  MaxLives,     \* bound: times the origin's daemon is started
  MaxLost,      \* bound: copies lost
  MaxResets,    \* bound: restarts of the daemons that listen
  MaxOutside,   \* bound: repeats of a packet that in_circle lets in at a node
  Horizon       \* bound: ticks between two starts or stops of the origin

ASSUME NetAssumption ==
  /\ Origin \notin Nodes
  /\ Links \subseteq (Nodes \cup {Origin}) \X (Nodes \cup {Origin})
  /\ \A l \in Links : <<l[2], l[1]>> \in Links /\ l[1] # l[2]
  /\ MaxSeq \in Nat /\ FirstSeq \subseteq 0 .. MaxSeq
  /\ BeaconPeriod \in Nat \ {0}
  /\ ExpireTime \in Nat \ {0} /\ CleanPeriod \in Nat \ {0}
  /\ Waits \subseteq Nat /\ \E w \in Waits : \A v \in Waits : v <= w
  /\ MaxLives \in Nat \ {0} /\ MaxLost \in Nat
  /\ MaxResets \in Nat /\ MaxOutside \in Nat /\ Horizon \in Nat

VARIABLES
  up,       \* the origin's daemon runs
  seqno,    \* NeighManager::seqno of the origin
  beacon,   \* ticks until send_node
  ent,      \* each node's entry for the origin, or NoEntry
  clean,    \* ticks until list_cleaner_cb, for each node
  air,      \* the copies not yet received or lost
  life,     \* history: how often the origin was started
  since,    \* history: ticks since it stopped or started
  missed,   \* history: nodes a beacon of this life did not reach
  lost,     \* history: copies lost
  resets,   \* history: restarts of listening daemons
  far       \* history: the most relays any news has passed

vars == <<up, seqno, beacon, ent, clean, air, life, since, missed, lost, resets, far>>

MaxWait == CHOOSE w \in Waits : \A v \in Waits : v <= w

\* What the packets and entries say of the origin.  The life is not in the
\* packet: it tells which data are really newer.
Data == [seqno : 0 .. MaxSeq, life : 1 .. MaxLives]

\* struct neighbor: ttl and wait are the countdowns of timeout_timer and
\* rebroadcast_timer.  The rest is history: hops is the number of relays the
\* news has passed, times how often this node has relayed it, and outside how
\* often in_circle let in a repeat of it.
Entries == [data : Data, direct : BOOLEAN, invalid : BOOLEAN, rebroadcast : BOOLEAN,
            ttl : 0 .. ExpireTime, wait : 0 .. MaxWait,
            hops : Nat, times : Nat, outside : Nat]
ASSUME NoEntryAssumption == NoEntry \notin Entries

\* A copy of a geosvr_node_packet: from is taddr, direct is taddr = saddr.
\* hops is history.
Copies == [to : Nodes, from : Nodes \cup {Origin}, data : Data, hops : Nat]

Hearers(n) == {m \in Nodes : <<n, m>> \in Links}
Broadcast(n, d, h) == {[to |-> m, from |-> n, data |-> d, hops |-> h] : m \in Hearers(n)}

------------------------------------------------------------------------------
(***************************************************************************)
(* The origin.                                                             *)
(***************************************************************************)

Now == [seqno |-> seqno, life |-> life]

\* send_node
SendNode ==
  /\ up /\ beacon = 0 /\ seqno < MaxSeq
  /\ air' = air \cup Broadcast(Origin, Now, 0)
  /\ seqno' = seqno + 1
  /\ beacon' = BeaconPeriod
  /\ UNCHANGED <<up, ent, clean, life, since, missed, lost, resets, far>>

\* The daemon is killed or the car leaves.
Stop ==
  /\ up
  /\ up' = FALSE /\ since' = 0
  /\ UNCHANGED <<seqno, beacon, ent, clean, air, life, missed, lost, resets, far>>

\* The constructor of NeighManager; seqno is a static member set to 0.
Start ==
  /\ ~up /\ life < MaxLives
  /\ up' = TRUE /\ seqno' = 0 /\ beacon' = BeaconPeriod
  /\ life' = life + 1 /\ since' = 0 /\ missed' = {}
  /\ UNCHANGED <<ent, clean, air, lost, resets, far>>

------------------------------------------------------------------------------
(***************************************************************************)
(* The listening nodes.                                                    *)
(***************************************************************************)

Obsolete(e, c) == e.data.seqno > c.data.seqno

\* in_circle(pkt).  The circle of the origin's own packet has no radius while
\* the entry holds the same data.  A relay may or may not be listed, and the
\* receiver may be anywhere.
InCircle(e, c) == IF c.from = Origin /\ e.data = c.data THEN {FALSE} ELSE BOOLEAN

SameAge(e, c) == e.data.seqno = c.data.seqno

\* Mutant: a repeated packet is always news.
Repeated_Never(e, c) == {FALSE}

Repeated(e, c) == {SameAge(e, c) /\ (circle \/ e.direct) : circle \in InCircle(e, c)}

\* neigh_list_insert
NewEntry(c, w) == [data |-> c.data, direct |-> c.from = Origin, invalid |-> FALSE,
                   rebroadcast |-> FALSE, ttl |-> ExpireTime, wait |-> w,
                   hops |-> c.hops, times |-> 0, outside |-> 0]

\* neigh_list_update: the timeout starts again, the relay only when it has
\* been sent; one that is pending will carry the new data.
Updated(e, c, w) ==
  [NewEntry(c, w) EXCEPT !.wait = IF e.rebroadcast THEN w ELSE e.wait]

\* A repeat that only in_circle can keep out comes from a relay, to a node
\* that has not heard the origin itself.
UpToCircle(e, c) == SameAge(e, c) /\ c.from # Origin /\ ~e.direct

\* f, which replaces e when c is taken in, with the account of the relays: it
\* is carried on when c is of the same age.
Counted(e, c, f) ==
  IF SameAge(e, c)
    THEN [f EXCEPT !.times = e.times,
                   !.outside = IF UpToCircle(e, c) THEN e.outside + 1 ELSE e.outside]
    ELSE f

Forget(c) == air' = air \ {c}

RecvNew(c) ==
  /\ ent[c.to] = NoEntry
  /\ \E w \in Waits : ent' = [ent EXCEPT ![c.to] = NewEntry(c, w)]

RecvKnown(c) ==
  /\ ent[c.to] # NoEntry
  /\ ~Obsolete(ent[c.to], c)
  /\ FALSE \in Repeated(ent[c.to], c)
  /\ UpToCircle(ent[c.to], c) => ent[c.to].outside < MaxOutside
  /\ \E w \in Waits : ent' = [ent EXCEPT ![c.to] = Counted(@, c, Updated(@, c, w))]

RecvIgnored(c) ==
  /\ ent[c.to] # NoEntry
  /\ Obsolete(ent[c.to], c) \/ TRUE \in Repeated(ent[c.to], c)
  /\ UNCHANGED ent

\* recv_node
RecvNode(c) ==
  /\ c \in air /\ Forget(c)
  /\ RecvNew(c) \/ RecvKnown(c) \/ RecvIgnored(c)
  /\ UNCHANGED <<up, seqno, beacon, clean, life, since, missed, lost, resets, far>>

Lose(c) ==
  /\ c \in air /\ Forget(c)
  /\ lost < MaxLost /\ lost' = lost + 1
  /\ missed' = IF c.from = Origin /\ c.data.life = life
                 THEN missed \cup {c.to} ELSE missed
  /\ UNCHANGED <<up, seqno, beacon, ent, clean, life, since, resets, far>>

ExpireDue(n) == ent[n] # NoEntry /\ ~ent[n].invalid /\ ent[n].ttl = 0
RelayDue(n) == ent[n] # NoEntry /\ ~ent[n].rebroadcast /\ ent[n].wait = 0

\* neigh_list_expire
Expire(n) ==
  /\ ExpireDue(n)
  /\ ent' = [ent EXCEPT ![n].invalid = TRUE]
  /\ UNCHANGED <<up, seqno, beacon, clean, air, life, since, missed, lost, resets, far>>

\* rebroadcast_expire
Relay(n) ==
  /\ RelayDue(n)
  /\ ent' = [ent EXCEPT ![n].rebroadcast = TRUE, ![n].times = @ + 1]
  /\ air' = air \cup Broadcast(n, ent[n].data, ent[n].hops + 1)
  /\ far' = IF ent[n].hops + 1 > far THEN ent[n].hops + 1 ELSE far
  /\ UNCHANGED <<up, seqno, beacon, clean, life, since, missed, lost, resets>>

\* Mutant: the cleaner spares the nodes that were heard directly.
Cleaner_Picky(n) ==
  /\ clean[n] = 0
  /\ clean' = [clean EXCEPT ![n] = CleanPeriod]
  /\ ent' = [ent EXCEPT ![n] = IF @ # NoEntry /\ @.invalid /\ ~@.direct THEN NoEntry ELSE @]
  /\ UNCHANGED <<up, seqno, beacon, air, life, since, missed, lost, resets, far>>

\* list_cleaner_cb
Cleaner(n) ==
  /\ clean[n] = 0
  /\ clean' = [clean EXCEPT ![n] = CleanPeriod]
  /\ ent' = [ent EXCEPT ![n] = IF @ # NoEntry /\ @.invalid THEN NoEntry ELSE @]
  /\ UNCHANGED <<up, seqno, beacon, air, life, since, missed, lost, resets, far>>

\* The daemon of a listening node is started again, with an empty list.
Reset(n) ==
  /\ resets < MaxResets /\ resets' = resets + 1
  /\ ent' = [ent EXCEPT ![n] = NoEntry]
  /\ clean' = [clean EXCEPT ![n] = CleanPeriod]
  /\ UNCHANGED <<up, seqno, beacon, air, life, since, missed, lost, far>>

\* dst_is_direct for the origin, which does not look at INVALID
DstIsDirect(n) == ent[n] # NoEntry /\ ent[n].direct

------------------------------------------------------------------------------
Down(x) == IF x > 0 THEN x - 1 ELSE 0

\* A tick of the clock all timers run on.
Tick ==
  /\ air = {} /\ since < Horizon
  /\ up => beacon > 0
  /\ \A n \in Nodes : ~ExpireDue(n) /\ ~RelayDue(n) /\ clean[n] > 0
  /\ beacon' = Down(beacon)
  /\ clean' = [n \in Nodes |-> Down(clean[n])]
  /\ ent' = [n \in Nodes |-> IF ent[n] = NoEntry THEN NoEntry
                ELSE [ent[n] EXCEPT !.ttl = Down(@), !.wait = Down(@)]]
  /\ since' = since + 1
  /\ UNCHANGED <<up, seqno, air, life, missed, lost, resets, far>>

Init ==
  /\ up = TRUE /\ seqno \in FirstSeq /\ beacon = BeaconPeriod
  /\ ent = [n \in Nodes |-> NoEntry]
  /\ clean \in [Nodes -> 1 .. CleanPeriod]
  /\ air = {}
  /\ life = 1 /\ since = 0 /\ missed = {} /\ lost = 0 /\ resets = 0 /\ far = 0

Next == \/ SendNode \/ Stop \/ Start \/ Tick
        \/ \E c \in air : RecvNode(c) \/ Lose(c)
        \/ \E n \in Nodes : Expire(n) \/ Relay(n) \/ Cleaner(n) \/ Reset(n)

Spec == Init /\ [][Next]_vars

------------------------------------------------------------------------------
(***************************************************************************)
(* Properties.                                                             *)
(***************************************************************************)

\* Every variable holds a value of its type.
TypeOK ==
  /\ up \in BOOLEAN /\ seqno \in 0 .. MaxSeq /\ beacon \in 0 .. BeaconPeriod
  /\ ent \in [Nodes -> Entries \cup {NoEntry}]
  /\ clean \in [Nodes -> 0 .. CleanPeriod]
  /\ air \subseteq Copies
  /\ life \in 1 .. MaxLives /\ since \in 0 .. Horizon
  /\ missed \subseteq Nodes /\ lost \in 0 .. MaxLost /\ resets \in 0 .. MaxResets
  /\ far \in Nat

\* A node that counts from 0 again is ignored as obsolete by neighbours that
\* still list its former life, but ignored packets do not renew an entry.  So
\* the neighbours its beacons reach list what it says now once a beacon has
\* come after the wait of every relay its former news can have passed, a
\* timeout and a cleaner period.
RestartHeardInTime ==
  /\ up /\ resets = 0 /\ BeaconPeriod < ExpireTime
  /\ since > far * MaxWait + ExpireTime + CleanPeriod + BeaconPeriod
  => \A n \in Hearers(Origin) \ missed : ent[n] # NoEntry /\ ent[n].data.life = life

\* What a list still says of a node that is gone has been on its way: a
\* timeout and a cleaner period account for the time since the node stopped,
\* and one wait for each relay the news has passed.  The number of relays has
\* no bound in the code.  A daemon that has forgotten the node, or one that
\* in_circle puts outside, takes the news in again, so it can go round for
\* ever; but it has to move to stay.
GoneIsForgottenInTime ==
  ~up => \A n \in Nodes : ent[n] # NoEntry =>
           since <= ent[n].hops * MaxWait + ExpireTime + CleanPeriod

\* dst_is_direct believes entries that are INVALID but not yet cleaned away.
\* It does so for a timeout and a cleaner period at most: relays, however
\* late, never make a node that is gone look direct or stay so.
DirectOnlyWhileHeard ==
  ~up /\ since > ExpireTime + CleanPeriod => \A n \in Nodes : ~DstIsDirect(n)

\* A packet is not flooded: a node relays what it lists at most twice, the
\* second time when the origin's own packet came after a relay of it, and once
\* more for every repeat that in_circle let in.  For those there is no limit:
\* two nodes that do not list each other, as after a restart, send the news to
\* and fro.
RelayedAtMostTwice ==
  \A n \in Nodes : ent[n] # NoEntry => ent[n].times <= 2 + ent[n].outside

\* Relays neither flood nor keep a node that is gone direct, in states of the
\* right types.
RelaysAreSound == TypeOK /\ RelayedAtMostTwice /\ DirectOnlyWhileHeard

(***************************************************************************)
(* The inductive invariant behind these properties.                        *)
(***************************************************************************)

\* What is listed has been relayed, or is about to be, once from a relay and
\* twice at most when the origin was heard, repeats let in aside.
RelaysPerEntry ==
  \A n \in Nodes : ent[n] # NoEntry =>
    ent[n].times + (IF ent[n].rebroadcast THEN 0 ELSE 1)
      <= (IF ent[n].direct THEN 2 ELSE 1) + ent[n].outside

\* The origin's own packets have passed no relay, and nothing has gone further
\* than far.
HopsAreCounted ==
  /\ \A c \in air : c.hops <= far /\ (c.from = Origin => c.hops = 0)
  /\ \A n \in Nodes : ent[n] # NoEntry =>
       ent[n].hops <= far /\ (ent[n].direct => ent[n].hops = 0)

\* Nothing tells of a life that is still to come.
NothingFromTheFuture ==
  LET Past(d) == d.life <= life /\ (d.life = life => d.seqno < seqno)
  IN  /\ \A c \in air : Past(c.data)
      /\ \A n \in Nodes : ent[n] # NoEntry => Past(ent[n].data)

\* News of a life that is over.
Stale(d) == ~up \/ d.life # life

\* How long it can have been on its way when it has passed h relays.
Way(h) == h * MaxWait

\* The time since the life was over is accounted for: by the relays, by what
\* is gone of the timeout, then by what is gone of the cleaner period.
StaleRunsOut ==
  /\ \A c \in air : Stale(c.data) => since <= Way(c.hops)
  /\ \A n \in Nodes : ent[n] # NoEntry /\ Stale(ent[n].data) =>
       /\ ~ent[n].rebroadcast => since + ent[n].wait <= Way(ent[n].hops + 1)
       /\ IF ent[n].invalid
            THEN since + clean[n] <= Way(ent[n].hops) + ExpireTime + CleanPeriod
            ELSE since + ent[n].ttl <= Way(ent[n].hops) + ExpireTime

\* The last beacon is in the air only until the clock ticks.
BeaconsAreLatest ==
  \A c \in air : c.from = Origin /\ ~Stale(c.data) =>
    c.data.seqno + 1 = seqno /\ beacon = BeaconPeriod

\* A beacon on its way to n that n has not heard of.
BeaconComes(n) == \E c \in air : c.to = n /\ c.from = Origin /\ ~Stale(c.data)

\* A neighbour that every beacon reaches lists the origin before its next
\* beacon but one, and then never lets it expire.
HeardOnceUp ==
  up /\ resets = 0 /\ BeaconPeriod < ExpireTime =>
    \A n \in Hearers(Origin) \ missed :
      /\ ent[n] = NoEntry =>
           /\ since <= Way(far) + ExpireTime + CleanPeriod + BeaconPeriod
           /\ \/ BeaconComes(n)
              \/ since + beacon <= Way(far) + ExpireTime + CleanPeriod + BeaconPeriod
      /\ ent[n] # NoEntry /\ ~Stale(ent[n].data) =>
           /\ ~ent[n].invalid
           /\ \/ ent[n].ttl + BeaconPeriod >= ExpireTime + beacon
              \/ /\ BeaconComes(n) /\ ent[n].data.seqno + 1 < seqno
                 /\ ent[n].ttl + BeaconPeriod >= ExpireTime

NetInv == /\ TypeOK /\ RelaysPerEntry /\ HopsAreCounted /\ NothingFromTheFuture
          /\ StaleRunsOut /\ BeaconsAreLatest /\ HeardOnceUp

=============================================================================
