------------------------------ MODULE NeighList ------------------------------
(***************************************************************************)
(* The neighbour list of one geosvrd process (neigh_list.cc), the timers   *)
(* its entries own (timer.cc) and the handling of received node packets    *)
(* (NeighManager::recv_node).                                              *)
(*                                                                         *)
(* geosvrd is a single-threaded libevent program: a callback runs to its   *)
(* end before the next one starts, but packets and timers come in any      *)
(* order.  Entries and timers are objects on the C heap.  An entry points  *)
(* to its timers and each timer points back to its entry, and nothing but  *)
(* the flags INVALID and REBROADCAST of the entry says whether a pointer   *)
(* to a timer still leads to one.                                          *)
(*                                                                         *)
(* Times are left out: an armed timer may fire at any moment.  Positions   *)
(* are left out: what in_circle computes from them is left open.           *)
(***************************************************************************)
EXTENDS Integers, FiniteSets

CONSTANTS
  Addrs,       \* addresses of other nodes
  Self,        \* the address of this node
  Objs,        \* chunks malloc can hand out for a struct neighbor
  Tids,        \* chunks malloc can hand out for a GeoSVRTimer
  MaxSeq,      \* bound: highest sequence number on the air
  MaxPackets,  \* bound: packets received
  FreshInCb    \* what the in_cb_ byte of a chunk malloc returns may hold

ASSUME NeighAssumption ==
  /\ Self \notin Addrs
  /\ IsFiniteSet(Objs)
  /\ MaxSeq \in Nat /\ MaxPackets \in Nat
  /\ FreshInCb \subseteq BOOLEAN

VARIABLES
  nb,       \* the entries linked into nei_list.list, by the chunk they are in
  num,      \* nei_list.num
  tm,       \* the timers pending in libevent, by the chunk they are in
  in_cb,    \* the in_cb_ byte of every chunk for timers
  ub,       \* memory was used after it had been freed
  skipped,  \* history: timers geosvr_timer_free left alone because of in_cb_
  heard,    \* history: packets received
  accepted, \* history: packets that created or changed an entry
  relayed   \* history: packets sent by rebroadcast_expire

vars == <<nb, num, tm, in_cb, ub, skipped, heard, accepted, relayed>>

\* struct neighbor: tt and rt are timeout_timer and rebroadcast_timer.
Neighbors == [addr : Addrs, seqno : 0..MaxSeq, direct : BOOLEAN,
              rebroadcast : BOOLEAN, invalid : BOOLEAN, tt : Tids, rt : Tids]

\* struct GeoSVRTimer: func_ and data_.
Timers == [kind : {"expire", "rebroadcast"}, data : Objs]

\* struct geosvr_node_packet: a node sends its own packets with taddr equal
\* to saddr and direct set, and relays others with its address as taddr.
Packets == {p \in [taddr : Addrs \cup {Self}, saddr : Addrs \cup {Self},
                   direct : BOOLEAN, seqno : 0..MaxSeq] :
              p.direct <=> p.taddr = p.saddr}

Listed == DOMAIN nb
Pending == DOMAIN tm

------------------------------------------------------------------------------
(***************************************************************************)
(* timer.cc                                                                *)
(***************************************************************************)

\* Chunks malloc may return.
FreeTids == Tids \ Pending
FreeObjs == Objs \ Listed

\* geosvr_timer_new for the timers in f.
TimersNew(f) == [t \in Pending \cup DOMAIN f |->
                   IF t \in DOMAIN f THEN f[t] ELSE tm[t]]

\* geosvr_timer_new does not write in_cb_: in the chunks T it holds whatever
\* malloc returned, while the other chunks are as in f.
Unwritten(T, f) ==
  {[t \in Tids |-> IF t \in T THEN g[t] ELSE f[t]] : g \in [T -> FreshInCb]}

\* geosvr_timer_free of the timers in T.  It takes in_cb_ for "called from
\* its callback" and then leaves the timer for timer_callback to free.
Freed(T) == {t \in T : ~in_cb[t]}
TimersWithout(T) == [t \in Pending \ T |-> tm[t]]

\* geosvr_timer_reset, and timer_callback when the callback is over.
ClearInCb(t) == [in_cb EXCEPT ![t] = FALSE]

------------------------------------------------------------------------------
(***************************************************************************)
(* neigh_list.cc and NeighManager::recv_node                               *)
(***************************************************************************)

\* Mutant: neigh_list_find skips expired entries.
Find_OnlyValid(a) == {e \in Listed : nb[e].addr = a /\ ~nb[e].invalid}

\* neigh_list_find, which believes num; one entry at most is expected.
Find(a) == IF num = 0 THEN {} ELSE {e \in Listed : nb[e].addr = a}

\* neigh_list_insert
Insert(p) ==
  \E e \in FreeObjs : \E t1 \in FreeTids : \E t2 \in FreeTids \ {t1} :
    /\ nb' = [x \in Listed \cup {e} |->
                IF x = e
                  THEN [addr |-> p.saddr, seqno |-> p.seqno, direct |-> p.direct,
                        rebroadcast |-> FALSE, invalid |-> FALSE,
                        tt |-> t1, rt |-> t2]
                  ELSE nb[x]]
    /\ tm' = TimersNew([t \in {t1, t2} |->
                [kind |-> IF t = t1 THEN "expire" ELSE "rebroadcast", data |-> e]])
    /\ in_cb' \in Unwritten({t1, t2}, in_cb)
    /\ num' = num + 1
    /\ UNCHANGED ub

\* Mutant: no new rebroadcast timer is made for an entry already relayed.
RenewRebroadcast_Never(e) == FALSE

\* neigh_list_update: a timer that has fired is gone and is replaced; one
\* that is pending is reset (timeout) or left to run (rebroadcast).
RenewTimeout(e) == nb[e].invalid
RenewRebroadcast(e) == nb[e].rebroadcast

Update(e, p) ==
  \E t1 \in (IF RenewTimeout(e) THEN FreeTids ELSE {nb[e].tt}) :
  \E t2 \in (IF RenewRebroadcast(e) THEN FreeTids \ {t1} ELSE {nb[e].rt}) :
    /\ nb' = [nb EXCEPT ![e] =
                [addr |-> nb[e].addr, seqno |-> p.seqno, direct |-> p.direct,
                 rebroadcast |-> FALSE, invalid |-> FALSE, tt |-> t1, rt |-> t2]]
    /\ LET new == (IF RenewTimeout(e) THEN {t1} ELSE {})
                    \cup (IF RenewRebroadcast(e) THEN {t2} ELSE {})
       IN /\ tm' = TimersNew([t \in new |->
                     [kind |-> IF t = t1 THEN "expire" ELSE "rebroadcast", data |-> e]])
          /\ in_cb' \in Unwritten(new, IF RenewTimeout(e) THEN in_cb ELSE ClearInCb(t1))
    /\ ub' = (~RenewTimeout(e) /\ t1 \notin Pending)
    /\ UNCHANGED num

\* in_circle finds no circle when the relay is not in the list.
InCircle(p) == IF Find(p.taddr) = {} THEN {FALSE} ELSE BOOLEAN

\* Mutant: the sequence number is not compared.
Obsolete_Dropped(e, p) == FALSE

Obsolete(e, p) == nb[e].seqno > p.seqno

Repeated(e, p, circle) == nb[e].seqno = p.seqno /\ (circle \/ nb[e].direct)

RecvIgnored(p) ==
  /\ \/ p.taddr = Self \/ p.saddr = Self
     \/ \E e \in Find(p.saddr), circle \in InCircle(p) :
          Obsolete(e, p) \/ Repeated(e, p, circle)
  /\ UNCHANGED <<nb, num, tm, in_cb, ub, accepted>>

RecvNew(p) ==
  /\ p.taddr # Self /\ p.saddr # Self
  /\ Find(p.saddr) = {}
  /\ Insert(p)
  /\ accepted' = accepted + 1

RecvKnown(p) ==
  /\ p.taddr # Self /\ p.saddr # Self
  /\ \E e \in Find(p.saddr), circle \in InCircle(p) :
       ~Obsolete(e, p) /\ ~Repeated(e, p, circle) /\ Update(e, p)
  /\ accepted' = accepted + 1

RecvNode(p) ==
  /\ heard < MaxPackets
  /\ heard' = heard + 1
  /\ RecvIgnored(p) \/ RecvNew(p) \/ RecvKnown(p)
  /\ UNCHANGED <<skipped, relayed>>

\* The entry the timer points to is listed and points to the timer.
Owned(t) ==
  /\ tm[t].data \in Listed
  /\ t = (IF tm[t].kind = "expire" THEN nb[tm[t].data].tt ELSE nb[tm[t].data].rt)

\* A timer fires although its entry was freed.
FireOrphan(t) ==
  /\ t \in Pending /\ ~Owned(t)
  /\ ub' = TRUE
  /\ UNCHANGED <<nb, num, tm, in_cb, skipped, heard, accepted, relayed>>

\* timer_callback runs the function, which returns 0, and frees the timer.
TimerDone(t) == tm' = TimersWithout({t}) /\ in_cb' = ClearInCb(t)

\* Mutant: the callback forgets to set INVALID.
Expire_NoFlag(t) ==
  /\ t \in Pending /\ tm[t].kind = "expire" /\ Owned(t)
  /\ TimerDone(t)
  /\ UNCHANGED <<nb, num, ub, skipped, heard, accepted, relayed>>

\* neigh_list_expire
Expire(t) ==
  /\ t \in Pending /\ tm[t].kind = "expire" /\ Owned(t)
  /\ nb' = [nb EXCEPT ![tm[t].data].invalid = TRUE]
  /\ TimerDone(t)
  /\ UNCHANGED <<num, ub, skipped, heard, accepted, relayed>>

\* Mutant: the callback returns 1 and timer_callback arms the timer again.
RebroadcastExpire_Rearmed(t) ==
  /\ t \in Pending /\ tm[t].kind = "rebroadcast" /\ Owned(t)
  /\ in_cb' = ClearInCb(t)
  /\ relayed' = relayed + 1
  /\ UNCHANGED <<nb, num, tm, ub, skipped, heard, accepted>>

\* rebroadcast_expire
RebroadcastExpire(t) ==
  /\ t \in Pending /\ tm[t].kind = "rebroadcast" /\ Owned(t)
  /\ nb' = [nb EXCEPT ![tm[t].data].rebroadcast = TRUE]
  /\ TimerDone(t)
  /\ relayed' = relayed + 1
  /\ UNCHANGED <<num, ub, skipped, heard, accepted>>

\* list_cleaner_cb calls neigh_list_delete for every INVALID entry, which
\* frees its rebroadcast timer unless the flag says that it has fired.
Doomed == {e \in Listed : nb[e].invalid}
ToFree == {nb[e].rt : e \in {f \in Doomed : ~nb[f].rebroadcast}}

Cleaner ==
  /\ nb' = [e \in Listed \ Doomed |-> nb[e]]
  /\ num' = num - Cardinality(Doomed)
  /\ tm' = TimersWithout(Freed(ToFree))
  /\ skipped' = skipped \cup (ToFree \ Freed(ToFree))
  /\ ub' = \E t \in ToFree : t \notin Pending
  /\ UNCHANGED <<in_cb, heard, accepted, relayed>>

------------------------------------------------------------------------------
\* neigh_list_init
Init ==
  /\ nb = [e \in {} |-> {}] /\ num = 0
  /\ tm = [t \in {} |-> {}]
  /\ in_cb = [t \in Tids |-> FALSE]
  /\ ub = FALSE /\ skipped = {}
  /\ heard = 0 /\ accepted = 0 /\ relayed = 0

TimerStep(t) == Expire(t) \/ RebroadcastExpire(t) \/ FireOrphan(t)

\* Nothing is said of a process that has used freed memory.
Halted == ub /\ UNCHANGED vars

Next == \/ ~ub /\ (\/ \E p \in Packets : RecvNode(p)
                   \/ \E t \in Tids : TimerStep(t)
                   \/ Cleaner)
        \/ Halted

Spec == Init /\ [][Next]_vars

\* The event loop serves every timer that is due; packets need not come.
Fairness == /\ \A t \in Tids : WF_vars(~ub /\ TimerStep(t))
            /\ WF_vars(~ub /\ Cleaner)

FairSpec == Spec /\ Fairness

------------------------------------------------------------------------------
(***************************************************************************)
(* Properties.                                                             *)
(***************************************************************************)

\* Every variable holds a value of its C type.
TypeOK ==
  /\ nb \in [Listed -> Neighbors] /\ Listed \subseteq Objs
  /\ num \in Nat
  /\ tm \in [Pending -> Timers] /\ Pending \subseteq Tids
  /\ in_cb \in [Tids -> BOOLEAN]
  /\ ub \in BOOLEAN
  /\ skipped \subseteq Tids
  /\ heard \in Nat /\ accepted \in Nat /\ relayed \in Nat

\* neigh_list_find can stop at its first match and trust num: no address is
\* listed twice and num counts the entries (recv_node inserts only what
\* neigh_list_find did not find, list_cleaner_cb deletes many at once).
OneEntryPerAddress ==
  /\ \A e, f \in Listed : nb[e].addr = nb[f].addr => e = f
  /\ num = Cardinality(Listed)

\* The linked list of neigh_list.cc and its count agree, in states of the
\* right types.
ListIsSound == TypeOK /\ OneEntryPerAddress

\* The flags of an entry tell the truth about its timers: an entry that is
\* not INVALID has its timeout pending, one that was not rebroadcast has
\* its rebroadcast pending, and each of these timers points back to it.
\* neigh_list_update and neigh_list_delete rely on nothing else when they
\* reset, replace or free a timer.
FlagsTellTimers ==
  ~ub =>
  \A e \in Listed :
    /\ ~nb[e].invalid =>
         nb[e].tt \in Pending /\ tm[nb[e].tt] = [kind |-> "expire", data |-> e]
    /\ ~nb[e].rebroadcast =>
         nb[e].rt \in Pending /\ tm[nb[e].rt] = [kind |-> "rebroadcast", data |-> e]

\* A pending timer belongs to a listed entry whose flag says it is pending,
\* so its callback finds the entry it was made for.  The exceptions are the
\* timers that geosvr_timer_free took to be inside their callback although
\* in_cb_ had never been written.
TimersKnowTheirEntry ==
  ~ub =>
  \A t \in Pending \ skipped :
    /\ Owned(t)
    /\ IF tm[t].kind = "expire" THEN ~nb[tm[t].data].invalid
                                ELSE ~nb[tm[t].data].rebroadcast

\* No freed timer is reset or freed again and no timer fires for a freed
\* entry, unless in_cb_ was read uninitialized before.
NoUseAfterFree == ub => skipped # {}

\* The two timers of an entry, which free themselves when they fire, and the
\* entry, which outlives them, never lose track of one another (timer.cc,
\* neigh_list.cc), but for an in_cb_ that was never written.
TimersAreSound == FlagsTellTimers /\ TimersKnowTheirEntry /\ NoUseAfterFree

\* Packets that only repeat known data are not relayed again: there are no
\* more rebroadcasts than packets that brought something new.
RelaysAreEarned == relayed <= accepted

\* Data of a neighbour is never replaced by older data while its entry
\* lives ("we ignore obsolete packet using seqno" in recv_node).
SeqnoNeverBack ==
  [][\A e \in Listed \cap DOMAIN nb' :
       nb[e].addr = nb'[e].addr => nb[e].seqno <= nb'[e].seqno]_vars

\* Once packets stop coming, every neighbour expires and is cleaned away.
SilentNeighboursForgotten == <>[](Listed = {} \/ ub)

=============================================================================
