-------------------------- MODULE NeighList_proofs --------------------------
(***************************************************************************)
(* Proofs about NeighList, for every set of addresses, chunks and sequence *)
(* numbers, and for any contents of fresh memory.                          *)
(***************************************************************************)
EXTENDS NeighList, FiniteSetTheorems, TLAPS

\* A timer that escaped geosvr_timer_free stays pending, and no entry that
\* comes to live in the chunk of its old entry takes it for its own.
SkippedStayPending == ~ub => \A t \in skipped : t \in Pending /\ ~Owned(t)

IInv == /\ TypeOK
        /\ OneEntryPerAddress
        /\ FlagsTellTimers
        /\ TimersKnowTheirEntry
        /\ SkippedStayPending
        /\ NoUseAfterFree

------------------------------------------------------------------------------
\* The types of the fields of an entry and of a timer.
LEMMA Fields ==
  ASSUME TypeOK
  PROVE  /\ \A e \in Listed : /\ nb[e].addr \in Addrs /\ nb[e].seqno \in 0..MaxSeq
                              /\ nb[e].direct \in BOOLEAN
                              /\ nb[e].rebroadcast \in BOOLEAN
                              /\ nb[e].invalid \in BOOLEAN
                              /\ nb[e].tt \in Tids /\ nb[e].rt \in Tids
         /\ \A t \in Pending : tm[t].kind \in {"expire", "rebroadcast"} /\ tm[t].data \in Objs
<1>1. \A e \in Listed : nb[e] \in Neighbors  BY DEF TypeOK
<1>2. \A t \in Pending : tm[t] \in Timers  BY DEF TypeOK
<1> QED BY <1>1, <1>2 DEF Neighbors, Timers

\* Setting a flag of an entry changes nothing else in it.
LEMMA FlagSet ==
  ASSUME NEW n \in Neighbors
  PROVE  /\ [n EXCEPT !.invalid = TRUE] \in Neighbors
         /\ [n EXCEPT !.invalid = TRUE].invalid = TRUE
         /\ [n EXCEPT !.invalid = TRUE].rebroadcast = n.rebroadcast
         /\ [n EXCEPT !.invalid = TRUE].addr = n.addr
         /\ [n EXCEPT !.invalid = TRUE].tt = n.tt
         /\ [n EXCEPT !.invalid = TRUE].rt = n.rt
         /\ [n EXCEPT !.rebroadcast = TRUE] \in Neighbors
         /\ [n EXCEPT !.rebroadcast = TRUE].rebroadcast = TRUE
         /\ [n EXCEPT !.rebroadcast = TRUE].invalid = n.invalid
         /\ [n EXCEPT !.rebroadcast = TRUE].addr = n.addr
         /\ [n EXCEPT !.rebroadcast = TRUE].tt = n.tt
         /\ [n EXCEPT !.rebroadcast = TRUE].rt = n.rt
<1>1. [n EXCEPT !.invalid = TRUE] \in Neighbors  BY DEF Neighbors
<1>2. [n EXCEPT !.rebroadcast = TRUE] \in Neighbors  BY DEF Neighbors
<1>3. [n EXCEPT !.invalid = TRUE].invalid = TRUE  BY DEF Neighbors
<1>4. [n EXCEPT !.rebroadcast = TRUE].rebroadcast = TRUE  BY DEF Neighbors
<1>5. [n EXCEPT !.invalid = TRUE].rebroadcast = n.rebroadcast  BY DEF Neighbors
<1>6. [n EXCEPT !.rebroadcast = TRUE].invalid = n.invalid  BY DEF Neighbors
<1>7. /\ [n EXCEPT !.invalid = TRUE].addr = n.addr
      /\ [n EXCEPT !.invalid = TRUE].tt = n.tt
      /\ [n EXCEPT !.invalid = TRUE].rt = n.rt
  BY DEF Neighbors
<1>8. /\ [n EXCEPT !.rebroadcast = TRUE].addr = n.addr
      /\ [n EXCEPT !.rebroadcast = TRUE].tt = n.tt
      /\ [n EXCEPT !.rebroadcast = TRUE].rt = n.rt
  BY DEF Neighbors
<1> QED BY <1>1, <1>2, <1>3, <1>4, <1>5, <1>6, <1>7, <1>8

\* The list is finite, since malloc has only so many chunks.
LEMMA ListedFinite ==
  ASSUME TypeOK, NEW S \in SUBSET Listed
  PROVE  IsFiniteSet(Listed) /\ IsFiniteSet(S)
  BY NeighAssumption, FS_Subset DEF TypeOK

\* geosvr_timer_new leaves some Boolean in in_cb_.
LEMMA UnwrittenType ==
  ASSUME NEW T, NEW f \in [Tids -> BOOLEAN], NEW g \in Unwritten(T, f)
  PROVE  g \in [Tids -> BOOLEAN]
  BY NeighAssumption DEF Unwritten

\* The inductive invariant holds after neigh_list_init.
LEMMA InitInv == Init => IInv
<1> SUFFICES ASSUME Init PROVE IInv
  OBVIOUS
<1>1. Listed = {} /\ Pending = {} /\ num = 0 /\ ub = FALSE /\ skipped = {}
  BY DEF Init, Listed, Pending
<1>2. TypeOK
  <2>1. nb \in [Listed -> Neighbors] /\ tm \in [Pending -> Timers]
    BY <1>1 DEF Init, Listed, Pending
  <2>2. in_cb \in [Tids -> BOOLEAN]
    BY NeighAssumption DEF Init
  <2>3. Listed \subseteq Objs /\ Pending \subseteq Tids /\ skipped \subseteq Tids
    BY <1>1
  <2>4. num \in Nat /\ heard \in Nat /\ accepted \in Nat /\ relayed \in Nat
    BY DEF Init
  <2>5. ub \in BOOLEAN
    BY DEF Init
  <2> QED BY <2>1, <2>2, <2>3, <2>4, <2>5 DEF TypeOK
<1>3. OneEntryPerAddress  BY <1>1, FS_EmptySet DEF OneEntryPerAddress
<1>4. FlagsTellTimers /\ TimersKnowTheirEntry /\ SkippedStayPending /\ NoUseAfterFree
  BY <1>1 DEF FlagsTellTimers, TimersKnowTheirEntry, SkippedStayPending, NoUseAfterFree
<1> QED BY <1>2, <1>3, <1>4 DEF IInv

------------------------------------------------------------------------------
\* neigh_list_insert keeps the invariant when the address is not listed yet.
LEMMA InsertInv ==
  ASSUME IInv, ~ub, NEW p \in Packets, RecvNew(p),
         heard' = heard + 1, UNCHANGED <<skipped, relayed>>
  PROVE  IInv'
<1> USE NeighAssumption DEF IInv
<1>1. PICK e \in FreeObjs, t1 \in FreeTids, t2 \in FreeTids :
        /\ t1 # t2
        /\ nb' = [x \in Listed \cup {e} |->
                    IF x = e
                      THEN [addr |-> p.saddr, seqno |-> p.seqno, direct |-> p.direct,
                            rebroadcast |-> FALSE, invalid |-> FALSE,
                            tt |-> t1, rt |-> t2]
                      ELSE nb[x]]
        /\ tm' = TimersNew([t \in {t1, t2} |->
                    [kind |-> IF t = t1 THEN "expire" ELSE "rebroadcast", data |-> e]])
        /\ in_cb' \in Unwritten({t1, t2}, in_cb)
        /\ num' = num + 1
        /\ UNCHANGED ub
  BY DEF RecvNew, Insert
<1>2. /\ Listed' = Listed \cup {e} /\ e \notin Listed /\ e \in Objs
      /\ \A x \in Listed : x # e /\ nb'[x] = nb[x]
      /\ nb'[e] = [addr |-> p.saddr, seqno |-> p.seqno, direct |-> p.direct,
                   rebroadcast |-> FALSE, invalid |-> FALSE, tt |-> t1, rt |-> t2]
  BY <1>1 DEF Listed, FreeObjs
<1>3. /\ Pending' = Pending \cup {t1, t2} /\ t1 # t2
      /\ t1 \in Tids /\ t2 \in Tids /\ t1 \notin Pending /\ t2 \notin Pending
      /\ \A t \in Pending : tm'[t] = tm[t]
      /\ tm'[t1] = [kind |-> "expire", data |-> e]
      /\ tm'[t2] = [kind |-> "rebroadcast", data |-> e]
  BY <1>1 DEF Pending, FreeTids, TimersNew
<1>4. p.saddr \in Addrs /\ p.seqno \in 0..MaxSeq /\ p.direct \in BOOLEAN
  BY DEF Packets, RecvNew
<1>5. TypeOK'
  <2>1. nb'[e] \in Neighbors  BY <1>2, <1>3, <1>4 DEF Neighbors
  <2>2. nb' \in [Listed' -> Neighbors] /\ Listed' \subseteq Objs
    BY <1>1, <1>2, <2>1 DEF TypeOK
  <2>3. tm'[t1] \in Timers /\ tm'[t2] \in Timers  BY <1>2, <1>3 DEF Timers
  <2>4. tm' \in [Pending' -> Timers] /\ Pending' \subseteq Tids
    <3>1. \A t \in Pending' : tm'[t] \in Timers  BY <1>3, <2>3 DEF TypeOK
    <3>2. tm' = [t \in Pending' |-> tm'[t]]  BY <1>1 DEF TimersNew, Pending
    <3> QED BY <1>3, <3>1, <3>2 DEF TypeOK
  <2>5. num' \in Nat /\ heard' \in Nat /\ accepted' \in Nat /\ relayed' \in Nat
    BY <1>1 DEF TypeOK, RecvNew
  <2>6. in_cb' \in [Tids -> BOOLEAN]
    <3>1. in_cb \in [Tids -> BOOLEAN]  BY DEF TypeOK
    <3> QED BY <1>1, <3>1, UnwrittenType
  <2> QED BY <1>1, <2>2, <2>4, <2>5, <2>6 DEF TypeOK
<1>6. OneEntryPerAddress'
  <2>1. \A x \in Listed : nb[x].addr # p.saddr
    <3>1. CASE num = 0
      <4>1. Listed = {}
        BY <3>1, ListedFinite, FS_EmptySet DEF OneEntryPerAddress
      <4> QED BY <4>1
    <3>2. CASE num # 0  BY <3>2 DEF RecvNew, Find
    <3> QED BY <3>1, <3>2
  <2>2. (\A x, y \in Listed : nb[x].addr = nb[y].addr => x = y)'
    BY <1>2, <2>1 DEF OneEntryPerAddress
  <2>3. Cardinality(Listed') = Cardinality(Listed) + 1
    BY <1>2, ListedFinite, FS_AddElement
  <2> QED BY <1>1, <2>2, <2>3 DEF OneEntryPerAddress
<1>7. FlagsTellTimers'
  BY <1>1, <1>2, <1>3, Fields DEF FlagsTellTimers
<1>8. TimersKnowTheirEntry' /\ SkippedStayPending'
  <2>1. \A t \in Pending : Owned(t) => Owned(t)'
    BY <1>2, <1>3 DEF Owned
  <2>2. \A t \in Pending : ~Owned(t) => ~Owned(t)'
    BY <1>2, <1>3 DEF Owned
  <2>3. Owned(t1)' /\ Owned(t2)'
    BY <1>2, <1>3 DEF Owned
  <2>4. SkippedStayPending'
    BY <1>3, <2>2 DEF SkippedStayPending
  <2>5. TimersKnowTheirEntry'
    <3> SUFFICES ASSUME NEW t \in Pending' \ skipped'
                 PROVE  /\ Owned(t)'
                        /\ (IF tm[t].kind = "expire" THEN ~nb[tm[t].data].invalid
                                                     ELSE ~nb[tm[t].data].rebroadcast)'
      BY DEF TimersKnowTheirEntry
    <3>1. CASE t \in Pending
      BY <3>1, <2>1, <1>2, <1>3 DEF TimersKnowTheirEntry, Owned
    <3>2. CASE t \in {t1, t2}
      BY <3>2, <2>3, <1>2, <1>3
    <3> QED BY <1>3, <3>1, <3>2
  <2> QED BY <2>4, <2>5
<1>9. NoUseAfterFree'  BY <1>1 DEF NoUseAfterFree
<1> QED BY <1>5, <1>6, <1>7, <1>8, <1>9

------------------------------------------------------------------------------
\* The effect of neigh_list_update on entry e, whose timers are t1 and t2
\* afterwards: the old one while it is pending, else a new one.
Updated(e, p, t1, t2) ==
  /\ nb[e].addr = p.saddr /\ nb[e].seqno <= p.seqno
  /\ IF nb[e].invalid THEN t1 \notin Pending ELSE t1 = nb[e].tt
  /\ IF nb[e].rebroadcast THEN t2 \notin Pending ELSE t2 = nb[e].rt
  /\ t1 # t2
  /\ nb' = [nb EXCEPT ![e] =
              [addr |-> nb[e].addr, seqno |-> p.seqno, direct |-> p.direct,
               rebroadcast |-> FALSE, invalid |-> FALSE, tt |-> t1, rt |-> t2]]
  /\ Pending' = Pending \cup {t1, t2}
  /\ tm' = [t \in Pending' |-> tm'[t]]
  /\ \A t \in Pending : tm'[t] = tm[t]
  /\ tm'[t1] = [kind |-> "expire", data |-> e]
  /\ tm'[t2] = [kind |-> "rebroadcast", data |-> e]
  /\ in_cb' \in [Tids -> BOOLEAN]
  /\ ub' = FALSE /\ num' = num

\* recv_node updates one entry when the neighbour is listed.
LEMMA UpdateFacts ==
  ASSUME IInv, ~ub, NEW p \in Packets, RecvKnown(p)
  PROVE  \E e \in Listed, t1 \in Tids, t2 \in Tids : Updated(e, p, t1, t2)
<1> USE NeighAssumption DEF IInv
<1>1. PICK e \in Find(p.saddr) : ~Obsolete(e, p) /\ Update(e, p)
  BY DEF RecvKnown
<1>2. e \in Listed /\ nb[e].addr = p.saddr
  BY <1>1 DEF Find
<1>3. nb[e].seqno <= p.seqno
  <2>1. nb[e].seqno \in Nat /\ p.seqno \in Nat
    BY <1>2, Fields DEF Packets
  <2> QED BY <1>1, <2>1 DEF Obsolete
<1> DEFINE New(t1, t2) == (IF RenewTimeout(e) THEN {t1} ELSE {})
                            \cup (IF RenewRebroadcast(e) THEN {t2} ELSE {})
<1>4. PICK t1 \in (IF RenewTimeout(e) THEN FreeTids ELSE {nb[e].tt}) :
      \E t2 \in (IF RenewRebroadcast(e) THEN FreeTids \ {t1} ELSE {nb[e].rt}) :
        /\ nb' = [nb EXCEPT ![e] =
                    [addr |-> nb[e].addr, seqno |-> p.seqno, direct |-> p.direct,
                     rebroadcast |-> FALSE, invalid |-> FALSE, tt |-> t1, rt |-> t2]]
        /\ tm' = TimersNew([t \in New(t1, t2) |->
                   [kind |-> IF t = t1 THEN "expire" ELSE "rebroadcast", data |-> e]])
        /\ in_cb' \in Unwritten(New(t1, t2),
                                IF RenewTimeout(e) THEN in_cb ELSE ClearInCb(t1))
        /\ ub' = (~RenewTimeout(e) /\ t1 \notin Pending)
        /\ UNCHANGED num
  BY <1>1 DEF Update
<1>5. PICK t2 \in (IF RenewRebroadcast(e) THEN FreeTids \ {t1} ELSE {nb[e].rt}) :
        /\ nb' = [nb EXCEPT ![e] =
                    [addr |-> nb[e].addr, seqno |-> p.seqno, direct |-> p.direct,
                     rebroadcast |-> FALSE, invalid |-> FALSE, tt |-> t1, rt |-> t2]]
        /\ tm' = TimersNew([t \in New(t1, t2) |->
                   [kind |-> IF t = t1 THEN "expire" ELSE "rebroadcast", data |-> e]])
        /\ in_cb' \in Unwritten(New(t1, t2),
                                IF RenewTimeout(e) THEN in_cb ELSE ClearInCb(t1))
        /\ ub' = (~RenewTimeout(e) /\ t1 \notin Pending)
        /\ UNCHANGED num
  BY <1>4
<1>6. /\ ~nb[e].invalid => /\ t1 = nb[e].tt /\ t1 \in Pending
                           /\ tm[t1] = [kind |-> "expire", data |-> e]
      /\ ~nb[e].rebroadcast => /\ t2 = nb[e].rt /\ t2 \in Pending
                               /\ tm[t2] = [kind |-> "rebroadcast", data |-> e]
  BY <1>2, <1>4, <1>5 DEF FlagsTellTimers, RenewTimeout, RenewRebroadcast
<1>7. /\ t1 \in Tids /\ t2 \in Tids
      /\ nb[e].invalid => t1 \notin Pending
      /\ nb[e].rebroadcast => t2 \notin Pending /\ t2 # t1
  BY <1>2, <1>4, <1>5, Fields DEF RenewTimeout, RenewRebroadcast, FreeTids
<1>8. t1 # t2
  <2>1. CASE nb[e].rebroadcast  BY <2>1, <1>7
  <2>2. CASE ~nb[e].rebroadcast /\ nb[e].invalid  BY <2>2, <1>6, <1>7
  <2>3. CASE ~nb[e].rebroadcast /\ ~nb[e].invalid
    <3>1. tm[t1].kind # tm[t2].kind  BY <2>3, <1>6
    <3> QED BY <3>1
  <2> QED BY <2>1, <2>2, <2>3
<1>9. Pending' = Pending \cup New(t1, t2)
  BY <1>5 DEF Pending, TimersNew
<1>10. /\ New(t1, t2) \subseteq {t1, t2}
       /\ \A t \in {t1, t2} : t \in New(t1, t2) <=> t \notin Pending
  BY <1>6, <1>7, <1>8 DEF RenewTimeout, RenewRebroadcast
<1>11. tm' = [t \in Pending' |-> tm'[t]]
  BY <1>5 DEF Pending, TimersNew
<1>12. /\ \A t \in Pending : tm'[t] = tm[t]
       /\ \A t \in New(t1, t2) :
            tm'[t] = [kind |-> IF t = t1 THEN "expire" ELSE "rebroadcast", data |-> e]
  <2> HIDE DEF New
  <2>1. \A t \in New(t1, t2) : t \notin Pending  BY <1>10
  <2> QED BY <1>5, <2>1 DEF TimersNew
<1>13. tm'[t1] = [kind |-> "expire", data |-> e]
  <2>1. CASE t1 \in New(t1, t2)  BY <2>1, <1>12
  <2>2. CASE t1 \notin New(t1, t2)  BY <2>2, <1>6, <1>7, <1>10, <1>12
  <2> QED BY <2>1, <2>2
<1>14. tm'[t2] = [kind |-> "rebroadcast", data |-> e]
  <2>1. CASE t2 \in New(t1, t2)  BY <2>1, <1>8, <1>12
  <2>2. CASE t2 \notin New(t1, t2)  BY <2>2, <1>6, <1>7, <1>10, <1>12
  <2> QED BY <2>1, <2>2
<1>15. in_cb' \in [Tids -> BOOLEAN]
  <2>1. (IF RenewTimeout(e) THEN in_cb ELSE ClearInCb(t1)) \in [Tids -> BOOLEAN]
    BY <1>7 DEF TypeOK, ClearInCb
  <2> HIDE DEF New
  <2> QED BY <1>5, <2>1, UnwrittenType
<1>16. ub' = FALSE  BY <1>5, <1>6 DEF RenewTimeout
<1>17. Pending' = Pending \cup {t1, t2}  BY <1>9, <1>10
<1>18. /\ IF nb[e].invalid THEN t1 \notin Pending ELSE t1 = nb[e].tt
       /\ IF nb[e].rebroadcast THEN t2 \notin Pending ELSE t2 = nb[e].rt
  BY <1>6, <1>7
<1> HIDE DEF New
<1> QED BY <1>2, <1>3, <1>5, <1>7, <1>8, <1>11, <1>12, <1>13, <1>14, <1>15, <1>16, <1>17, <1>18
      DEF Updated

\* recv_node for a neighbour that is listed.  A pending timer is owned after
\* the update exactly when it was before: a pointer of the entry is changed
\* only when its flag says that the old timer is gone.
LEMMA UpdateInv ==
  ASSUME IInv, ~ub, NEW p \in Packets, RecvKnown(p),
         heard' = heard + 1, UNCHANGED <<skipped, relayed>>
  PROVE  IInv'
<1> USE NeighAssumption DEF IInv
<1>0. PICK e \in Listed, t1 \in Tids, t2 \in Tids : Updated(e, p, t1, t2)
  BY UpdateFacts
<1>1. /\ nb[e].addr = p.saddr /\ nb[e].seqno <= p.seqno
      /\ IF nb[e].invalid THEN t1 \notin Pending ELSE t1 = nb[e].tt
      /\ IF nb[e].rebroadcast THEN t2 \notin Pending ELSE t2 = nb[e].rt
      /\ t1 # t2
      /\ nb' = [nb EXCEPT ![e] =
                  [addr |-> nb[e].addr, seqno |-> p.seqno, direct |-> p.direct,
                   rebroadcast |-> FALSE, invalid |-> FALSE, tt |-> t1, rt |-> t2]]
      /\ Pending' = Pending \cup {t1, t2}
      /\ tm' = [t \in Pending' |-> tm'[t]]
      /\ \A t \in Pending : tm'[t] = tm[t]
      /\ tm'[t1] = [kind |-> "expire", data |-> e]
      /\ tm'[t2] = [kind |-> "rebroadcast", data |-> e]
      /\ in_cb' \in [Tids -> BOOLEAN]
      /\ ub' = FALSE /\ num' = num
  BY <1>0 DEF Updated
<1>2. /\ Listed' = Listed
      /\ \A x \in Listed \ {e} : nb'[x] = nb[x]
      /\ nb'[e] = [addr |-> nb[e].addr, seqno |-> p.seqno, direct |-> p.direct,
                   rebroadcast |-> FALSE, invalid |-> FALSE, tt |-> t1, rt |-> t2]
  BY <1>1 DEF Listed, TypeOK
<1>3. TypeOK'
  <2>1. p.seqno \in 0..MaxSeq /\ p.direct \in BOOLEAN  BY DEF Packets
  <2>2. nb'[e] \in Neighbors  BY <1>2, <2>1, Fields DEF Neighbors
  <2>3. nb' \in [Listed' -> Neighbors] /\ Listed' \subseteq Objs
    BY <1>1, <1>2, <2>2 DEF TypeOK
  <2>4. tm'[t1] \in Timers /\ tm'[t2] \in Timers
    BY <1>1 DEF Timers, TypeOK
  <2>5. tm' \in [Pending' -> Timers] /\ Pending' \subseteq Tids
    <3>1. \A t \in Pending' : tm'[t] \in Timers  BY <1>1, <2>4 DEF TypeOK
    <3> QED BY <1>1, <3>1 DEF TypeOK
  <2>6. num' \in Nat /\ heard' \in Nat /\ accepted' \in Nat /\ relayed' \in Nat
    BY <1>1 DEF TypeOK, RecvKnown
  <2>7. in_cb' \in [Tids -> BOOLEAN] /\ skipped' \subseteq Tids
    BY <1>1 DEF TypeOK
  <2>8. ub' \in BOOLEAN  BY <1>1
  <2> QED BY <2>3, <2>5, <2>6, <2>7, <2>8 DEF TypeOK
<1>4. OneEntryPerAddress'
  <2>1. \A x \in Listed : nb'[x].addr = nb[x].addr  BY <1>2
  <2> QED BY <1>1, <1>2, <2>1 DEF OneEntryPerAddress
<1>5. FlagsTellTimers'
  <2> SUFFICES ASSUME NEW x \in Listed
               PROVE  /\ ~nb'[x].invalid => /\ nb'[x].tt \in Pending'
                                            /\ tm'[nb'[x].tt] = [kind |-> "expire", data |-> x]
                      /\ ~nb'[x].rebroadcast => /\ nb'[x].rt \in Pending'
                                                /\ tm'[nb'[x].rt] = [kind |-> "rebroadcast", data |-> x]
    BY <1>2 DEF FlagsTellTimers
  <2>1. CASE x = e  BY <2>1, <1>1, <1>2
  <2>2. CASE x # e  BY <2>2, <1>1, <1>2 DEF FlagsTellTimers
  <2> QED BY <2>1, <2>2
<1>6. \A t \in Pending : Owned(t) <=> Owned(t)'
  <2> SUFFICES ASSUME NEW t \in Pending PROVE Owned(t) <=> Owned(t)'
    OBVIOUS
  <2>1. CASE tm[t].data # e  BY <2>1, <1>1, <1>2 DEF Owned
  <2>2. CASE tm[t].data = e
    <3>1. Owned(t) => IF tm[t].kind = "expire" THEN ~nb[e].invalid ELSE ~nb[e].rebroadcast
      BY <2>2 DEF TimersKnowTheirEntry, SkippedStayPending
    <3>2. Owned(t) <=> t = (IF tm[t].kind = "expire" THEN nb[e].tt ELSE nb[e].rt)
      BY <2>2 DEF Owned
    <3>3. Owned(t)' <=> t = (IF tm[t].kind = "expire" THEN t1 ELSE t2)
      BY <2>2, <1>1, <1>2 DEF Owned
    <3> QED BY <1>1, <3>1, <3>2, <3>3
  <2> QED BY <2>1, <2>2
<1>7. SkippedStayPending'
  BY <1>1, <1>6 DEF SkippedStayPending
<1>8. TimersKnowTheirEntry'
  <2> SUFFICES ASSUME NEW t \in Pending' \ skipped'
               PROVE  /\ Owned(t)'
                      /\ (IF tm[t].kind = "expire" THEN ~nb[tm[t].data].invalid
                                                   ELSE ~nb[tm[t].data].rebroadcast)'
    BY DEF TimersKnowTheirEntry
  <2>1. CASE t \in {t1, t2}  BY <2>1, <1>1, <1>2 DEF Owned
  <2>2. CASE t \in Pending
    <3>1. Owned(t) /\ Owned(t)'  BY <2>2, <1>6 DEF TimersKnowTheirEntry
    <3>2. CASE tm[t].data = e
      <4>1. nb'[e].invalid = FALSE /\ nb'[e].rebroadcast = FALSE  BY <1>2
      <4> QED BY <3>1, <3>2, <4>1, <2>2, <1>1
    <3>3. CASE tm[t].data # e
      BY <3>1, <3>3, <2>2, <1>1, <1>2 DEF TimersKnowTheirEntry, Owned
    <3> QED BY <3>1, <3>2, <3>3
  <2> QED BY <1>1, <2>1, <2>2
<1>9. NoUseAfterFree'  BY <1>1 DEF NoUseAfterFree
<1> QED BY <1>3, <1>4, <1>5, <1>7, <1>8, <1>9

\* A step that leaves the list, its timers and the memory alone.
LEMMA UntouchedInv ==
  ASSUME IInv, UNCHANGED <<nb, num, tm, in_cb, ub, skipped>>,
         heard' \in Nat, accepted' \in Nat, relayed' \in Nat
  PROVE  IInv'
<1>1. Listed' = Listed /\ Pending' = Pending  BY DEF Listed, Pending
<1>2. \A t : Owned(t)' = Owned(t)  BY DEF Owned, Listed
<1> QED BY <1>1, <1>2 DEF IInv, TypeOK, OneEntryPerAddress, FlagsTellTimers,
             TimersKnowTheirEntry, SkippedStayPending, NoUseAfterFree

------------------------------------------------------------------------------
\* A timer that fires is not pending any more, and the flag its callback
\* sets says so.
LEMMA FiredInv ==
  ASSUME IInv, ~ub, NEW t \in Pending, Owned(t), TimerDone(t),
         nb' = IF tm[t].kind = "expire"
                 THEN [nb EXCEPT ![tm[t].data].invalid = TRUE]
                 ELSE [nb EXCEPT ![tm[t].data].rebroadcast = TRUE],
         UNCHANGED <<num, ub, skipped, heard, accepted>>, relayed' \in Nat
  PROVE  IInv'
<1> USE DEF IInv
<1> DEFINE e == tm[t].data
<1>1. /\ e \in Listed /\ t \in Tids /\ tm[t].kind \in {"expire", "rebroadcast"}
      /\ t = (IF tm[t].kind = "expire" THEN nb[e].tt ELSE nb[e].rt)
  BY Fields DEF Owned, TypeOK
<1>2. /\ Pending' = Pending \ {t} /\ tm' = [u \in Pending' |-> tm'[u]]
      /\ \A u \in Pending \ {t} : tm'[u] = tm[u]
  BY DEF TimerDone, TimersWithout, Pending
<1> HIDE DEF e
<1>3. /\ Listed' = Listed /\ nb' = [x \in Listed |-> nb'[x]]
      /\ \A x \in Listed \ {e} : nb'[x] = nb[x]
  BY <1>1 DEF Listed, TypeOK, e
<1>4. /\ nb'[e].addr = nb[e].addr /\ nb'[e].tt = nb[e].tt /\ nb'[e].rt = nb[e].rt
      /\ nb'[e].invalid = IF tm[t].kind = "expire" THEN TRUE ELSE nb[e].invalid
      /\ nb'[e].rebroadcast = IF tm[t].kind = "expire" THEN nb[e].rebroadcast ELSE TRUE
      /\ nb'[e] \in Neighbors
  <2>1. nb[e] \in Neighbors  BY <1>1 DEF TypeOK
  <2>2. nb'[e] = IF tm[t].kind = "expire" THEN [nb[e] EXCEPT !.invalid = TRUE]
                                          ELSE [nb[e] EXCEPT !.rebroadcast = TRUE]
    BY <1>1 DEF TypeOK, e
  <2>3. CASE tm[t].kind = "expire"
    <3>1. nb'[e] = [nb[e] EXCEPT !.invalid = TRUE]  BY <2>2, <2>3
    <3>2. /\ nb'[e].addr = nb[e].addr /\ nb'[e].tt = nb[e].tt /\ nb'[e].rt = nb[e].rt
          /\ nb'[e] \in Neighbors
      BY <2>1, <3>1, FlagSet, ZenonT(40)
    <3>3. nb'[e].invalid = TRUE  BY <2>1, <3>1 DEF Neighbors
    <3>4. nb'[e].rebroadcast = nb[e].rebroadcast  BY <2>1, <3>1, FlagSet, ZenonT(40)
    <3> QED BY <2>3, <3>2, <3>3, <3>4
  <2>4. CASE tm[t].kind = "rebroadcast"
    <3>1. nb'[e] = [nb[e] EXCEPT !.rebroadcast = TRUE]  BY <2>2, <2>4
    <3>2. /\ nb'[e].addr = nb[e].addr /\ nb'[e].tt = nb[e].tt /\ nb'[e].rt = nb[e].rt
          /\ nb'[e] \in Neighbors
      BY <2>1, <3>1, FlagSet, ZenonT(40)
    <3>3. nb'[e].rebroadcast = TRUE  BY <2>1, <3>1 DEF Neighbors
    <3>4. nb'[e].invalid = nb[e].invalid  BY <2>1, <3>1, FlagSet, ZenonT(40)
    <3> QED BY <2>4, <3>2, <3>3, <3>4
  <2> QED BY <1>1, <2>3, <2>4
<1>5. TypeOK'
  <2>1. nb' \in [Listed' -> Neighbors] /\ Listed' \subseteq Objs
    BY <1>3, <1>4 DEF TypeOK
  <2>2. tm' \in [Pending' -> Timers] /\ Pending' \subseteq Tids
    BY <1>2 DEF TypeOK
  <2>3. in_cb' \in [Tids -> BOOLEAN]
    BY <1>1 DEF TypeOK, TimerDone, ClearInCb
  <2> QED BY <2>1, <2>2, <2>3 DEF TypeOK
<1>6. OneEntryPerAddress'
  <2>1. \A x \in Listed : nb'[x].addr = nb[x].addr  BY <1>3, <1>4
  <2> QED BY <1>3, <2>1 DEF OneEntryPerAddress
<1>7. \A u \in Pending \ {t} : Owned(u)' <=> Owned(u)
  <2>1. \A x \in Listed : nb'[x].tt = nb[x].tt /\ nb'[x].rt = nb[x].rt
    BY <1>3, <1>4
  <2> QED BY <1>2, <1>3, <2>1 DEF Owned
<1>8. FlagsTellTimers'
  <2> SUFFICES ASSUME NEW x \in Listed
               PROVE  /\ ~nb'[x].invalid => /\ nb'[x].tt \in Pending'
                                            /\ tm'[nb'[x].tt] = [kind |-> "expire", data |-> x]
                      /\ ~nb'[x].rebroadcast => /\ nb'[x].rt \in Pending'
                                                /\ tm'[nb'[x].rt] = [kind |-> "rebroadcast", data |-> x]
    BY <1>3 DEF FlagsTellTimers
  <2>1. /\ ~nb[x].invalid => /\ nb[x].tt \in Pending
                             /\ tm[nb[x].tt] = [kind |-> "expire", data |-> x]
        /\ ~nb[x].rebroadcast => /\ nb[x].rt \in Pending
                                 /\ tm[nb[x].rt] = [kind |-> "rebroadcast", data |-> x]
    BY DEF FlagsTellTimers
  <2>2. CASE x # e
    <3>1. nb'[x] = nb[x]  BY <2>2, <1>3
    <3>2. /\ ~nb[x].invalid => nb[x].tt # t
          /\ ~nb[x].rebroadcast => nb[x].rt # t
      BY <2>1, <2>2 DEF e
    <3> QED BY <2>1, <3>1, <3>2, <1>2
  <2>3. CASE x = e
    <3>1. /\ ~nb'[e].invalid => ~nb[e].invalid /\ tm[t].kind = "rebroadcast"
          /\ ~nb'[e].rebroadcast => ~nb[e].rebroadcast /\ tm[t].kind = "expire"
      BY <1>1, <1>4
    <3>2. /\ ~nb'[e].invalid => nb[e].tt # t
          /\ ~nb'[e].rebroadcast => nb[e].rt # t
      BY <2>1, <2>3, <3>1
    <3> QED BY <2>1, <2>3, <3>1, <3>2, <1>2, <1>4
  <2> QED BY <2>2, <2>3
<1>9. SkippedStayPending'
  BY <1>2, <1>7 DEF SkippedStayPending
<1>10. TimersKnowTheirEntry'
  <2> SUFFICES ASSUME NEW u \in Pending' \ skipped'
               PROVE  /\ Owned(u)'
                      /\ (IF tm[u].kind = "expire" THEN ~nb[tm[u].data].invalid
                                                   ELSE ~nb[tm[u].data].rebroadcast)'
    BY DEF TimersKnowTheirEntry
  <2>1. /\ u \in Pending \ {t} /\ Owned(u) /\ Owned(u)' /\ tm'[u] = tm[u]
        /\ IF tm[u].kind = "expire" THEN ~nb[tm[u].data].invalid
                                    ELSE ~nb[tm[u].data].rebroadcast
    BY <1>2, <1>7 DEF TimersKnowTheirEntry
  <2>2. CASE tm[u].data # e  BY <2>1, <2>2, <1>3 DEF Owned
  <2>3. CASE tm[u].data = e
    <3>1. u = IF tm[u].kind = "expire" THEN nb[e].tt ELSE nb[e].rt
      BY <2>1, <2>3 DEF Owned
    <3>2. tm[u].kind \in {"expire", "rebroadcast"}  BY <2>1, Fields
    <3>3. tm[u].kind # tm[t].kind  BY <2>1, <3>1, <3>2, <1>1
    <3> QED BY <2>1, <2>3, <3>2, <3>3, <1>1, <1>4
  <2> QED BY <2>2, <2>3
<1>11. NoUseAfterFree'  BY DEF NoUseAfterFree
<1> QED BY <1>5, <1>6, <1>8, <1>9, <1>10, <1>11

\* list_cleaner_cb: the timers it frees are exactly those of the entries it
\* deletes, apart from the ones in_cb_ makes it leave behind.
LEMMA CleanerInv ==
  ASSUME IInv, ~ub, Cleaner
  PROVE  IInv'
<1> USE DEF IInv
<1>1. /\ Doomed \subseteq Listed /\ Listed' = Listed \ Doomed
      /\ nb' = [x \in Listed' |-> nb'[x]]
      /\ \A x \in Listed' : nb'[x] = nb[x] /\ ~nb[x].invalid
  BY DEF Cleaner, Listed, Doomed
<1>2. /\ Pending' = Pending \ Freed(ToFree) /\ tm' = [t \in Pending' |-> tm'[t]]
      /\ \A t \in Pending' : tm'[t] = tm[t]
  BY DEF Cleaner, TimersWithout, Pending
<1>3. \A t \in ToFree : /\ t \in Pending /\ t \in Tids
                        /\ tm[t].kind = "rebroadcast" /\ tm[t].data \in Doomed
                        /\ t \notin skipped
  <2> SUFFICES ASSUME NEW t \in ToFree
               PROVE  /\ t \in Pending /\ t \in Tids
                      /\ tm[t].kind = "rebroadcast" /\ tm[t].data \in Doomed
                      /\ t \notin skipped
    OBVIOUS
  <2>0. PICK x \in Doomed : ~nb[x].rebroadcast /\ t = nb[x].rt
    BY DEF ToFree
  <2>1. /\ nb[x].rt \in Pending /\ nb[x].rt \in Tids
        /\ tm[nb[x].rt] = [kind |-> "rebroadcast", data |-> x]
    BY <1>1, <2>0, Fields DEF FlagsTellTimers
  <2>2. Owned(t)  BY <1>1, <2>0, <2>1 DEF Owned
  <2> QED BY <2>0, <2>1, <2>2 DEF SkippedStayPending
<1>4. \A t \in Pending \ skipped : tm[t].data \in Doomed => t \in ToFree
  <2> SUFFICES ASSUME NEW t \in Pending \ skipped, tm[t].data \in Doomed
               PROVE  t \in ToFree
    OBVIOUS
  <2>1. nb[tm[t].data].invalid  BY DEF Doomed
  <2>2. ~nb[tm[t].data].rebroadcast /\ t = nb[tm[t].data].rt
    BY <2>1 DEF TimersKnowTheirEntry, Owned
  <2> QED BY <2>2 DEF ToFree
<1>5. ub' = FALSE  BY <1>3 DEF Cleaner
<1>6. Freed(ToFree) \subseteq ToFree  BY DEF Freed
<1>7. TypeOK'
  <2>1. nb' \in [Listed' -> Neighbors] /\ Listed' \subseteq Objs
    BY <1>1 DEF TypeOK
  <2>2. tm' \in [Pending' -> Timers] /\ Pending' \subseteq Tids
    BY <1>2 DEF TypeOK
  <2>3. num' \in Nat
    <3>1. /\ IsFiniteSet(Listed) /\ IsFiniteSet(Doomed)
          /\ Cardinality(Doomed) \in Nat /\ Cardinality(Listed) \in Nat
          /\ Cardinality(Doomed) <= Cardinality(Listed)
      BY <1>1, ListedFinite, FS_CardinalityType, FS_Subset
    <3> QED BY <3>1 DEF Cleaner, OneEntryPerAddress
  <2>4. skipped' \subseteq Tids  BY <1>3 DEF Cleaner, TypeOK
  <2>5. in_cb' \in [Tids -> BOOLEAN] /\ heard' \in Nat /\ accepted' \in Nat /\ relayed' \in Nat
    BY DEF Cleaner, TypeOK
  <2>6. ub' \in BOOLEAN  BY <1>5
  <2> QED BY <2>1, <2>2, <2>3, <2>4, <2>5, <2>6 DEF TypeOK
<1>8. OneEntryPerAddress'
  <2>1. (\A x, y \in Listed : nb[x].addr = nb[y].addr => x = y)'
    BY <1>1 DEF OneEntryPerAddress
  <2>2. Cardinality(Listed') = Cardinality(Listed) - Cardinality(Doomed)
    <3>1. IsFiniteSet(Listed)  BY ListedFinite
    <3>2. Listed \cap Doomed = Doomed  BY <1>1
    <3>3. Cardinality(Listed \ Doomed) = Cardinality(Listed) - Cardinality(Listed \cap Doomed)
      BY <3>1, FS_Difference
    <3> QED BY <1>1, <3>2, <3>3
  <2> QED BY <2>1, <2>2 DEF OneEntryPerAddress, Cleaner
<1>9. \A x \in Listed' : nb[x].rt \notin ToFree \/ nb[x].rebroadcast
  <2> SUFFICES ASSUME NEW x \in Listed', nb[x].rt \in ToFree, ~nb[x].rebroadcast
               PROVE  FALSE
    OBVIOUS
  <2>1. x \in Listed /\ x \notin Doomed  BY <1>1
  <2>2. tm[nb[x].rt] = [kind |-> "rebroadcast", data |-> x]  BY <2>1 DEF FlagsTellTimers
  <2> QED BY <2>1, <2>2, <1>3
<1>10. FlagsTellTimers'
  <2> SUFFICES ASSUME NEW x \in Listed'
               PROVE  /\ nb[x].tt \in Pending' /\ tm'[nb[x].tt] = [kind |-> "expire", data |-> x]
                      /\ ~nb[x].rebroadcast => /\ nb[x].rt \in Pending'
                                               /\ tm'[nb[x].rt] = [kind |-> "rebroadcast", data |-> x]
    BY <1>1 DEF FlagsTellTimers
  <2>1. /\ nb[x].tt \in Pending /\ tm[nb[x].tt] = [kind |-> "expire", data |-> x]
        /\ ~nb[x].rebroadcast => /\ nb[x].rt \in Pending
                                 /\ tm[nb[x].rt] = [kind |-> "rebroadcast", data |-> x]
    BY <1>1 DEF FlagsTellTimers
  <2>2. nb[x].tt \notin ToFree  BY <2>1, <1>3
  <2> QED BY <2>1, <2>2, <1>2, <1>6, <1>9
<1>11. \A t \in Pending' : Owned(t)' <=> Owned(t) /\ tm[t].data \notin Doomed
  BY <1>1, <1>2 DEF Owned
<1>12. SkippedStayPending'
  <2> SUFFICES ASSUME NEW t \in skipped' PROVE t \in Pending' /\ ~Owned(t)'
    BY DEF SkippedStayPending
  <2>1. CASE t \in skipped
    <3>1. t \in Pending /\ ~Owned(t) /\ t \notin ToFree
      BY <2>1, <1>3 DEF SkippedStayPending
    <3> QED BY <3>1, <1>2, <1>6, <1>11
  <2>2. CASE t \in ToFree \ Freed(ToFree)
    <3>1. t \in Pending' /\ tm[t].data \in Doomed  BY <2>2, <1>2, <1>3
    <3> QED BY <3>1, <1>11
  <2> QED BY <2>1, <2>2 DEF Cleaner
<1>13. TimersKnowTheirEntry'
  <2> SUFFICES ASSUME NEW t \in Pending' \ skipped'
               PROVE  /\ Owned(t)'
                      /\ (IF tm[t].kind = "expire" THEN ~nb[tm[t].data].invalid
                                                   ELSE ~nb[tm[t].data].rebroadcast)'
    BY DEF TimersKnowTheirEntry
  <2>1. t \in Pending \ skipped /\ t \notin ToFree
    BY <1>2 DEF Cleaner
  <2>2. Owned(t) /\ tm[t].data \notin Doomed /\ tm[t].data \in Listed'
    BY <2>1, <1>1, <1>4 DEF TimersKnowTheirEntry, Owned
  <2> QED BY <2>1, <2>2, <1>1, <1>2, <1>11 DEF TimersKnowTheirEntry
<1>14. NoUseAfterFree'  BY <1>5 DEF NoUseAfterFree
<1> QED BY <1>7, <1>8, <1>10, <1>12, <1>13, <1>14

\* A timer fires for an entry that was freed: only one that escaped
\* geosvr_timer_free can.
LEMMA OrphanInv ==
  ASSUME IInv, ~ub, NEW t \in Tids, FireOrphan(t)
  PROVE  IInv'
<1> USE DEF IInv
<1>1. t \in skipped  BY DEF FireOrphan, TimersKnowTheirEntry
<1>2. ub' = TRUE /\ UNCHANGED <<nb, num, tm, in_cb, skipped, heard, accepted, relayed>>
  BY DEF FireOrphan
<1>3. Listed' = Listed /\ Pending' = Pending  BY <1>2 DEF Listed, Pending
<1>4. TypeOK'
  <2>1. ub' \in BOOLEAN  BY <1>2
  <2> QED BY <1>2, <1>3, <2>1 DEF TypeOK
<1>5. OneEntryPerAddress'  BY <1>2, <1>3 DEF OneEntryPerAddress
<1>6. NoUseAfterFree'  BY <1>1, <1>2 DEF NoUseAfterFree
<1>7. FlagsTellTimers' /\ TimersKnowTheirEntry' /\ SkippedStayPending'
  BY <1>2 DEF FlagsTellTimers, TimersKnowTheirEntry, SkippedStayPending
<1> QED BY <1>4, <1>5, <1>6, <1>7

------------------------------------------------------------------------------
\* Every step of geosvrd preserves the invariant.
LEMMA NextInv == IInv /\ [Next]_vars => IInv'
<1> SUFFICES ASSUME IInv, [Next]_vars PROVE IInv'
  OBVIOUS
<1>1. ASSUME NEW p \in Packets, RecvNode(p), ~ub PROVE IInv'
  <2>1. heard' = heard + 1 /\ UNCHANGED <<skipped, relayed>>
    BY <1>1 DEF RecvNode
  <2>2. heard \in Nat /\ accepted \in Nat /\ relayed \in Nat
    BY DEF IInv, TypeOK
  <2>3. CASE RecvIgnored(p)
    <3>1. UNCHANGED <<nb, num, tm, in_cb, ub, skipped>> /\ accepted' = accepted
      BY <2>1, <2>3 DEF RecvIgnored
    <3> QED BY <2>1, <2>2, <3>1, UntouchedInv
  <2>4. CASE RecvNew(p)  BY <1>1, <2>1, <2>4, InsertInv
  <2>5. CASE RecvKnown(p)  BY <1>1, <2>1, <2>5, UpdateInv
  <2> QED BY <1>1, <2>3, <2>4, <2>5 DEF RecvNode
<1>2. ASSUME NEW t \in Tids, Expire(t), ~ub PROVE IInv'
  <2>1. relayed' \in Nat  BY <1>2 DEF Expire, IInv, TypeOK
  <2> QED BY <1>2, <2>1, FiredInv DEF Expire
<1>3. ASSUME NEW t \in Tids, RebroadcastExpire(t), ~ub PROVE IInv'
  <2>1. relayed' \in Nat  BY <1>3 DEF RebroadcastExpire, IInv, TypeOK
  <2>2. tm[t].kind # "expire"  BY <1>3 DEF RebroadcastExpire
  <2> QED BY <1>3, <2>1, <2>2, FiredInv DEF RebroadcastExpire
<1>4. ASSUME NEW t \in Tids, FireOrphan(t), ~ub PROVE IInv'
  BY <1>4, OrphanInv
<1>5. ASSUME Cleaner, ~ub PROVE IInv'
  BY <1>5, CleanerInv
<1>6. CASE UNCHANGED vars
  <2>1. heard \in Nat /\ accepted \in Nat /\ relayed \in Nat
    BY DEF IInv, TypeOK
  <2> QED BY <1>6, <2>1, UntouchedInv DEF vars
<1> QED BY <1>1, <1>2, <1>3, <1>4, <1>5, <1>6 DEF Next, TimerStep, Halted

\* The invariant holds in every state geosvrd reaches.
LEMMA Inductive == Spec => []IInv
  BY InitInv, NextInv, PTL DEF Spec

------------------------------------------------------------------------------
\* Every variable keeps its type.
THEOREM TypeCorrect == Spec => []TypeOK
  BY Inductive, PTL DEF IInv

\* neigh_list_find's early exits (num is 0, the first match) lose nothing.
THEOREM ListStaysSound == Spec => []OneEntryPerAddress
  BY Inductive, PTL DEF IInv

\* The list and its count agree, in states of the right types.
THEOREM ListSound == Spec => []ListIsSound
<1>1. TypeOK /\ OneEntryPerAddress => ListIsSound  BY DEF ListIsSound
<1> QED BY <1>1, TypeCorrect, ListStaysSound, PTL

\* The flags alone tell neigh_list_update and neigh_list_delete which of an
\* entry's timers exist.
THEOREM FlagsAreTruthful == Spec => []FlagsTellTimers
  BY Inductive, PTL DEF IInv

\* Every pending timer finds its entry, but for those that in_cb_ kept alive.
THEOREM TimersFindEntries == Spec => []TimersKnowTheirEntry
  BY Inductive, PTL DEF IInv

\* Memory is used after free only after an uninitialized in_cb_ was read.
THEOREM FreedMemoryUnused == Spec => []NoUseAfterFree
  BY Inductive, PTL DEF IInv

\* Timers and entries keep track of one another, but for an unwritten in_cb_.
THEOREM TimersStaySound == Spec => []TimersAreSound
<1>1. FlagsTellTimers /\ TimersKnowTheirEntry /\ NoUseAfterFree => TimersAreSound
  BY DEF TimersAreSound
<1> QED BY <1>1, FlagsAreTruthful, TimersFindEntries, FreedMemoryUnused, PTL

\* recv_node never replaces the data of a neighbour by older data.
THEOREM SeqnoMonotone == Spec => SeqnoNeverBack
<1> DEFINE NoBack == \A e \in Listed \cap DOMAIN nb' :
                       nb[e].addr = nb'[e].addr => nb[e].seqno <= nb'[e].seqno
<1>1. IInv /\ [Next]_vars => [NoBack]_vars
  <2> SUFFICES ASSUME IInv, Next PROVE NoBack
    OBVIOUS
  <2>1. \A e \in Listed : nb[e].seqno \in Nat /\ nb[e].seqno <= nb[e].seqno
    BY Fields DEF IInv
  <2>2. ASSUME NEW p \in Packets, RecvNode(p), ~ub PROVE NoBack
    <3>1. CASE RecvIgnored(p)
      <4>1. nb' = nb  BY <3>1 DEF RecvIgnored
      <4> QED BY <2>1, <4>1
    <3>2. CASE RecvNew(p)
      <4>1. \A e \in Listed : nb'[e] = nb[e]
        BY <3>2 DEF RecvNew, Insert, FreeObjs
      <4> QED BY <2>1, <4>1
    <3>3. CASE RecvKnown(p)
      <4>1. PICK e \in Listed, t1 \in Tids, t2 \in Tids : Updated(e, p, t1, t2)
        BY <2>2, <3>3, UpdateFacts
      <4>2. /\ nb[e].seqno <= p.seqno
            /\ nb' = [nb EXCEPT ![e] =
                 [addr |-> nb[e].addr, seqno |-> p.seqno, direct |-> p.direct,
                  rebroadcast |-> FALSE, invalid |-> FALSE, tt |-> t1, rt |-> t2]]
        BY <4>1 DEF Updated
      <4>3. nb'[e].seqno = p.seqno /\ \A x \in Listed \ {e} : nb'[x] = nb[x]
        BY <4>2 DEF IInv, TypeOK
      <4> QED BY <2>1, <4>2, <4>3
    <3> QED BY <2>2, <3>1, <3>2, <3>3 DEF RecvNode
  <2>3. ASSUME NEW t \in Tids, Expire(t) PROVE NoBack
    <3>1. \A e \in Listed : nb[e] \in Neighbors  BY DEF IInv, TypeOK
    <3>2. \A e \in Listed : nb'[e].seqno = nb[e].seqno
      BY <2>3, <3>1 DEF Expire, IInv, TypeOK, Neighbors
    <3> QED BY <2>1, <3>2
  <2>4. ASSUME NEW t \in Tids, RebroadcastExpire(t) PROVE NoBack
    <3>1. \A e \in Listed : nb[e] \in Neighbors  BY DEF IInv, TypeOK
    <3>2. \A e \in Listed : nb'[e].seqno = nb[e].seqno
      BY <2>4, <3>1 DEF RebroadcastExpire, IInv, TypeOK, Neighbors
    <3> QED BY <2>1, <3>2
  <2>5. ASSUME NEW t \in Tids, FireOrphan(t) PROVE NoBack
    <3>1. nb' = nb  BY <2>5 DEF FireOrphan
    <3> QED BY <2>1, <3>1
  <2>6. ASSUME Cleaner PROVE NoBack
    <3>1. \A e \in DOMAIN nb' : nb'[e] = nb[e]  BY <2>6 DEF Cleaner
    <3> QED BY <2>1, <3>1
  <2>7. CASE UNCHANGED vars
    <3>1. nb' = nb  BY <2>7 DEF vars
    <3> QED BY <2>1, <3>1
  <2> QED BY <2>2, <2>3, <2>4, <2>5, <2>6, <2>7 DEF Next, TimerStep, Halted
<1> QED BY <1>1, Inductive, PTL DEF Spec, SeqnoNeverBack

------------------------------------------------------------------------------
(***************************************************************************)
(* Relays.  Each pending rebroadcast timer stands for one relay to come.   *)
(***************************************************************************)
Owed == {t \in Pending : tm[t].kind = "rebroadcast"}

\* What was relayed and what is still owed was earned by accepted packets.
EarnedInv == /\ IsFiniteSet(Owed)
             /\ relayed + Cardinality(Owed) <= accepted

\* Nothing more is owed, and the counters stay.
LEMMA OwesNoMore ==
  ASSUME TypeOK, EarnedInv, Owed' \subseteq Owed, accepted' = accepted, relayed' = relayed
  PROVE  EarnedInv'
<1>1. IsFiniteSet(Owed') /\ Cardinality(Owed') <= Cardinality(Owed)
  BY FS_Subset DEF EarnedInv
<1>2. Cardinality(Owed') \in Nat /\ Cardinality(Owed) \in Nat
  BY <1>1, FS_CardinalityType DEF EarnedInv
<1>3. relayed \in Nat /\ accepted \in Nat  BY DEF TypeOK
<1> QED BY <1>1, <1>2, <1>3 DEF EarnedInv

\* An accepted packet lets one relay more be owed.
LEMMA OwesOneMore ==
  ASSUME TypeOK, EarnedInv, NEW t, Owed' \subseteq Owed \cup {t},
         accepted' = accepted + 1, relayed' = relayed
  PROVE  EarnedInv'
<1>1. IsFiniteSet(Owed) /\ Cardinality(Owed) \in Nat
  BY FS_CardinalityType DEF EarnedInv
<1>2. /\ IsFiniteSet(Owed \cup {t})
      /\ \/ Cardinality(Owed \cup {t}) = Cardinality(Owed)
         \/ Cardinality(Owed \cup {t}) = Cardinality(Owed) + 1
  BY <1>1, FS_AddElement
<1>3. IsFiniteSet(Owed') /\ Cardinality(Owed') <= Cardinality(Owed \cup {t})
  BY <1>2, FS_Subset
<1>4. Cardinality(Owed') \in Nat  BY <1>3, FS_CardinalityType
<1>5. relayed \in Nat /\ accepted \in Nat /\ relayed + Cardinality(Owed) <= accepted
  BY DEF TypeOK, EarnedInv
<1>6. relayed' + Cardinality(Owed') <= accepted'
  BY <1>1, <1>2, <1>3, <1>4, <1>5
<1> QED BY <1>3, <1>6 DEF EarnedInv

\* The relays sent by rebroadcast_expire never outnumber the packets that
\* recv_node accepted, however packets, timers and the cleaner interleave.
THEOREM NoUnearnedRelay == Spec => []RelaysAreEarned
<1>1. Init => EarnedInv
  <2> SUFFICES ASSUME Init PROVE EarnedInv
    OBVIOUS
  <2>1. Owed = {}  BY DEF Init, Owed, Pending
  <2>2. IsFiniteSet({}) /\ Cardinality({}) = 0  BY FS_EmptySet
  <2> QED BY <2>1, <2>2 DEF Init, EarnedInv
<1>2. IInv /\ EarnedInv /\ [Next]_vars => EarnedInv'
  <2> SUFFICES ASSUME IInv, EarnedInv, [Next]_vars PROVE EarnedInv'
    OBVIOUS
  <2>0. TypeOK  BY DEF IInv
  <2>1. ASSUME NEW p \in Packets, RecvNode(p) PROVE EarnedInv'
    <3>0. relayed' = relayed  BY <2>1 DEF RecvNode
    <3>1. CASE RecvIgnored(p)
      <4>1. Owed' = Owed /\ accepted' = accepted
        BY <3>1 DEF RecvIgnored, Owed, Pending
      <4> QED BY <2>0, <3>0, <4>1, OwesNoMore
    <3>2. CASE RecvNew(p)
      <4>1. accepted' = accepted + 1  BY <3>2 DEF RecvNew
      <4>2. PICK e \in FreeObjs, t1 \in FreeTids, t2 \in FreeTids :
              tm' = TimersNew([t \in {t1, t2} |->
                [kind |-> IF t = t1 THEN "expire" ELSE "rebroadcast", data |-> e]])
        BY <3>2 DEF RecvNew, Insert
      <4>3. Owed' \subseteq Owed \cup {t2}
        BY <4>2 DEF TimersNew, Owed, Pending
      <4> QED BY <2>0, <3>0, <4>1, <4>3, OwesOneMore
    <3>3. CASE RecvKnown(p)
      <4>1. accepted' = accepted + 1  BY <3>3 DEF RecvKnown
      <4>2. PICK e \in Listed : Update(e, p)
        <5>1. PICK e \in Find(p.saddr) : Update(e, p)  BY <3>3 DEF RecvKnown
        <5>2. e \in Listed  BY DEF Find
        <5> QED BY <5>1, <5>2
      <4>3. PICK t1, t2, new :
              /\ new \subseteq {t1, t2}
              /\ tm' = TimersNew([t \in new |->
                   [kind |-> IF t = t1 THEN "expire" ELSE "rebroadcast", data |-> e]])
        <5>0. PICK t1 \in (IF RenewTimeout(e) THEN FreeTids ELSE {nb[e].tt}) :
                \E t2 \in (IF RenewRebroadcast(e) THEN FreeTids \ {t1} ELSE {nb[e].rt}) :
                  LET new == (IF RenewTimeout(e) THEN {t1} ELSE {})
                               \cup (IF RenewRebroadcast(e) THEN {t2} ELSE {})
                  IN tm' = TimersNew([t \in new |->
                       [kind |-> IF t = t1 THEN "expire" ELSE "rebroadcast", data |-> e]])
          BY <4>2, Zenon DEF Update
        <5>1. PICK t2 \in (IF RenewRebroadcast(e) THEN FreeTids \ {t1} ELSE {nb[e].rt}) :
                LET new == (IF RenewTimeout(e) THEN {t1} ELSE {})
                             \cup (IF RenewRebroadcast(e) THEN {t2} ELSE {})
                IN tm' = TimersNew([t \in new |->
                     [kind |-> IF t = t1 THEN "expire" ELSE "rebroadcast", data |-> e]])
          BY <5>0, Zenon
        <5> DEFINE N == (IF RenewTimeout(e) THEN {t1} ELSE {})
                          \cup (IF RenewRebroadcast(e) THEN {t2} ELSE {})
        <5>2. N \subseteq {t1, t2}  OBVIOUS
        <5>3. tm' = TimersNew([t \in N |->
                     [kind |-> IF t = t1 THEN "expire" ELSE "rebroadcast", data |-> e]])
          BY <5>1
        <5> HIDE DEF N
        <5> QED BY <5>2, <5>3
      <4>4. Owed' \subseteq Owed \cup {t2}
        BY <4>3 DEF TimersNew, Owed, Pending
      <4> QED BY <2>0, <3>0, <4>1, <4>4, OwesOneMore
    <3> QED BY <2>1, <3>1, <3>2, <3>3 DEF RecvNode
  <2>2. ASSUME NEW t \in Tids, Expire(t) PROVE EarnedInv'
    <3>1. Owed' \subseteq Owed /\ UNCHANGED <<accepted, relayed>>
      BY <2>2 DEF Expire, TimerDone, TimersWithout, Owed, Pending
    <3> QED BY <2>0, <3>1, OwesNoMore
  <2>3. ASSUME NEW t \in Tids, RebroadcastExpire(t) PROVE EarnedInv'
    <3>1. t \in Owed /\ relayed' = relayed + 1 /\ accepted' = accepted
      BY <2>3 DEF RebroadcastExpire, Owed
    <3>2. Owed' = Owed \ {t}
      BY <2>3 DEF RebroadcastExpire, TimerDone, TimersWithout, Owed, Pending
    <3>3. IsFiniteSet(Owed') /\ Cardinality(Owed') = Cardinality(Owed) - 1
      BY <3>1, <3>2, FS_RemoveElement DEF EarnedInv
    <3>4. Cardinality(Owed) \in Nat /\ relayed \in Nat /\ accepted \in Nat
      BY <2>0, FS_CardinalityType DEF EarnedInv, TypeOK
    <3>5. relayed' + Cardinality(Owed') <= accepted'
      BY <3>1, <3>3, <3>4 DEF EarnedInv
    <3> QED BY <3>3, <3>5 DEF EarnedInv
  <2>4. ASSUME NEW t \in Tids, FireOrphan(t) PROVE EarnedInv'
    <3>1. Owed' = Owed /\ UNCHANGED <<accepted, relayed>>
      BY <2>4 DEF FireOrphan, Owed, Pending
    <3> QED BY <2>0, <3>1, OwesNoMore
  <2>5. ASSUME Cleaner PROVE EarnedInv'
    <3>1. Owed' \subseteq Owed /\ UNCHANGED <<accepted, relayed>>
      BY <2>5 DEF Cleaner, TimersWithout, Owed, Pending
    <3> QED BY <2>0, <3>1, OwesNoMore
  <2>6. CASE UNCHANGED vars
    <3>1. Owed' = Owed /\ UNCHANGED <<accepted, relayed>>
      BY <2>6 DEF vars, Owed, Pending
    <3> QED BY <2>0, <3>1, OwesNoMore
  <2> QED BY <2>1, <2>2, <2>3, <2>4, <2>5, <2>6 DEF Next, TimerStep, Halted
<1>3. TypeOK /\ EarnedInv => RelaysAreEarned
  <2> SUFFICES ASSUME TypeOK, EarnedInv PROVE RelaysAreEarned
    OBVIOUS
  <2>1. Cardinality(Owed) \in Nat /\ relayed \in Nat /\ accepted \in Nat
    BY FS_CardinalityType DEF EarnedInv, TypeOK
  <2> QED BY <2>1 DEF EarnedInv, RelaysAreEarned
<1>4. IInv => TypeOK  BY DEF IInv
<1> QED BY <1>1, <1>2, <1>3, <1>4, Inductive, PTL DEF Spec

=============================================================================
