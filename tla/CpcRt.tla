-------------------------------- MODULE CpcRt --------------------------------
(***************************************************************************)
(* The route table of the CPC kernel module (ns2/cpc/linux_kernel/cpc_rt.c)*)
(* with its expiry timer.                                                  *)
(*                                                                         *)
(* Three contexts share the table: the netlink handler, which adds and     *)
(* deletes routes (one at a time, under cpcnl_sem); the timer handler,     *)
(* which reads jiffies first and takes rt_lock afterwards; and the unload  *)
(* path, which deletes the timer without the lock and then empties the     *)
(* list.  A step ends where another of them can come in between.           *)
(*                                                                         *)
(* jiffies is an unsigned long and wraps around (it is set up to do so     *)
(* five minutes after boot on a 32-bit machine); expiry times are compared *)
(* with a plain >, and the timer handler keeps jiffies in an int.          *)
(***************************************************************************)
EXTENDS Integers, Sequences, SequencesExt

CONSTANTS
  Daddrs,      \* destinations
  Lifetimes,   \* route lifetimes in jiffies, (time * HZ) / 1000
  LongMod,     \* 2^(bits of unsigned long)
  IntMod,      \* 2^(bits of int)
  RtMaxLen,    \* RT_MAX_LEN, 1024 in the code
  MaxRefused,  \* bound: refused additions considered
  MaxDelay     \* bound: ticks by which a step of the kernel may be late

ASSUME RtAssumption ==
  /\ Lifetimes \subseteq Nat
  /\ LongMod \in Nat \ {0} /\ IntMod \in Nat \ {0} /\ IntMod <= LongMod
  /\ \A t \in Lifetimes : t < LongMod
  /\ RtMaxLen \in Nat /\ MaxRefused \in Nat
  /\ MaxDelay \in Nat /\ 2 * MaxDelay < LongMod

VARIABLES
  jiffies,
  rt,        \* rt_head: the entries from first to last
  rt_len,    \* the counter kept next to it
  pending,   \* timer_pending(&rt_timer)
  texp,      \* rt_timer.expires, 0 while the timer is not pending
  handler,   \* the timer handler: [run |-> BOOLEAN, time |-> its copy of jiffies]
  adder,     \* cpc_rt_add between kmalloc and write_lock_bh: <<>> or <<entry>>
  rtphase,   \* "up", "stopping" (timer deleted), "gone" (list flushed)
  refused,   \* history: additions refused because rt_len was too large
  raced,     \* history: the timer was deleted while its handler was running
  skewed     \* history: a clock value in use has been cut off, see Skew

rtVars == <<jiffies, rt, rt_len, pending, texp, handler, adder, rtphase, refused,
          raced, skewed>>

Clock == 0 .. LongMod - 1

\* left is history: the ticks until the route is due, negative afterwards.
Entries == [daddr : Daddrs, expires : Clock, left : Int]

HandlerIdle == [run |-> FALSE, time |-> 0]

\* The conversion of an unsigned long to int and back to unsigned long.
ThroughInt(j) == LET low == j % IntMod
                 IN  IF 2 * low < IntMod THEN low ELSE LongMod - IntMod + low

\* time_after_eq(jiffies, t), by which the kernel decides that a timer is due.
Due(t) == 2 * ((jiffies - t) % LongMod) < LongMod

------------------------------------------------------------------------------
(***************************************************************************)
(* Histories.                                                              *)
(***************************************************************************)

\* Nothing refers to a clock value.
Unused == rt = <<>> /\ adder = <<>> /\ ~handler.run

\* bad says that this step cuts off a clock value.  The effect lasts until
\* nothing is left that refers to one.
Skew(bad) == skewed' = (bad \/ (skewed /\ ~Unused'))

Aged(s) == [i \in DOMAIN s |->
              [s[i] EXCEPT !.left = IF @ = -MaxDelay THEN @ ELSE @ - 1]]

Late(s) == \E i \in DOMAIN s : s[i].left = -MaxDelay

------------------------------------------------------------------------------
\* One clock tick.  A due timer is not left waiting, nor a spin lock held, for
\* MaxDelay ticks, which is less than half the range of the clock.
Tick ==
  /\ skewed \/ ~(Late(rt) \/ Late(adder))
  /\ jiffies' = (jiffies + 1) % LongMod
  /\ rt' = Aged(rt) /\ adder' = Aged(adder)
  /\ UNCHANGED <<rt_len, pending, texp, handler, rtphase, refused, raced>>
  /\ Skew(jiffies' = 0 /\ ~Unused)

\* mod_timer on a pending timer, add_timer on one that is not.
Arm(t) == pending' = TRUE /\ texp' = t

\* Mutant: the handler does not set the timer again.
SetNextTimeout_Missing(s) == UNCHANGED <<pending, texp>>

\* __cpc_rt_set_next_timeout for the list s.
SetNextTimeout(s) ==
  IF s = <<>> THEN UNCHANGED <<pending, texp>> ELSE Arm(s[1].expires)

\* cpc_rt_add up to the lock.  Nothing happens when the destination is there
\* already, whatever its next hop, or when kmalloc fails.
AddBegin(d, life) ==
  /\ rtphase = "up" /\ adder = <<>> /\ refused < MaxRefused
  /\ \A i \in DOMAIN rt : rt[i].daddr # d
  /\ adder' = << [daddr |-> d, expires |-> (jiffies + life) % LongMod, left |-> life] >>
  /\ UNCHANGED <<jiffies, rt, rt_len, pending, texp, handler, rtphase, refused, raced>>
  /\ Skew(jiffies + life >= LongMod)

\* Mutant: the search stops at entries that expire earlier.
Place_Reversed(k, e) ==
  /\ k \in 1 .. Len(rt) + 1
  /\ \A j \in 1 .. k - 1 : rt[j].expires >= e.expires
  /\ k <= Len(rt) => rt[k].expires < e.expires

\* The place __cpc_rt_add finds: before the first entry that expires later.
Place(k, e) ==
  /\ k \in 1 .. Len(rt) + 1
  /\ \A j \in 1 .. k - 1 : rt[j].expires <= e.expires
  /\ k <= Len(rt) => rt[k].expires > e.expires

\* The new entry is linked; only a new first entry moves the timer.
AddLinked(k, e) ==
  /\ rt_len <= RtMaxLen
  /\ Place(k, e)
  /\ rt' = InsertAt(rt, k, e)
  /\ rt_len' = rt_len + 1
  /\ UNCHANGED refused
  /\ IF k = 1 THEN Arm(e.expires) ELSE UNCHANGED <<pending, texp>>

\* -ENOSPC: the entry is freed, and rt_len counted up all the same.
AddRefused ==
  /\ rt_len > RtMaxLen
  /\ rt_len' = rt_len + 1
  /\ refused' = refused + 1
  /\ UNCHANGED <<rt, pending, texp>>

\* cpc_rt_add under the lock.
AddEnd ==
  /\ adder # <<>>
  /\ adder' = <<>>
  /\ AddRefused \/ \E k \in 1 .. Len(rt) + 1 : AddLinked(k, adder[1])
  /\ UNCHANGED <<jiffies, handler, rtphase, raced>>
  /\ Skew(FALSE)

\* Mutant: the timer stays set for the entry that was removed.
Del_TimerKept(d) ==
  /\ rtphase = "up" /\ adder = <<>>
  /\ \E i \in DOMAIN rt :
       /\ rt[i].daddr = d
       /\ \A j \in 1 .. i - 1 : rt[j].daddr # d
       /\ rt' = RemoveAt(rt, i)
  /\ rt_len' = rt_len - 1
  /\ UNCHANGED <<jiffies, pending, texp, handler, adder, rtphase, refused, raced>>
  /\ Skew(FALSE)

\* cpc_rt_del.  When the list is empty afterwards the timer stays pending.
Del(d) ==
  /\ rtphase = "up" /\ adder = <<>>
  /\ \E i \in DOMAIN rt :
       /\ rt[i].daddr = d
       /\ \A j \in 1 .. i - 1 : rt[j].daddr # d
       /\ rt' = RemoveAt(rt, i)
       /\ IF i = 1 /\ Len(rt) > 1 THEN Arm(rt[2].expires)
                                  ELSE UNCHANGED <<pending, texp>>
  /\ rt_len' = rt_len - 1
  /\ UNCHANGED <<jiffies, handler, adder, rtphase, refused, raced>>
  /\ Skew(FALSE)

\* Mutant: the copy of jiffies is one tick ahead.
TimerFires_Ahead ==
  /\ pending /\ Due(texp) /\ ~handler.run
  /\ pending' = FALSE /\ texp' = 0
  /\ handler' = [run |-> TRUE, time |-> (jiffies + 1) % LongMod]
  /\ UNCHANGED <<jiffies, rt, rt_len, adder, rtphase, refused, raced>>
  /\ Skew(ThroughInt(jiffies) # jiffies)

\* The timer softirq takes the timer off and enters cpc_rt_timeout, which
\* reads jiffies.  The kernel does not run a timer twice at the same time.
TimerFires ==
  /\ pending /\ Due(texp) /\ ~handler.run
  /\ pending' = FALSE /\ texp' = 0
  /\ handler' = [run |-> TRUE, time |-> ThroughInt(jiffies)]
  /\ UNCHANGED <<jiffies, rt, rt_len, adder, rtphase, refused, raced>>
  /\ Skew(ThroughInt(jiffies) # jiffies)

\* The entries before k are expired for a handler that read t.
ExpiredBefore(k, t) ==
  /\ k \in 1 .. Len(rt) + 1
  /\ \A j \in 1 .. k - 1 : rt[j].expires <= t
  /\ k <= Len(rt) => rt[k].expires > t

\* cpc_rt_timeout under the lock.
Timeout ==
  /\ handler.run
  /\ handler' = HandlerIdle
  /\ \E k \in 1 .. Len(rt) + 1 :
       /\ ExpiredBefore(k, handler.time)
       /\ rt' = SubSeq(rt, k, Len(rt))
       /\ rt_len' = rt_len - (k - 1)
       /\ SetNextTimeout(SubSeq(rt, k, Len(rt)))
  /\ UNCHANGED <<jiffies, adder, rtphase, refused, raced>>
  /\ Skew(FALSE)

\* cpc_rt_flush when the module is unloaded: timer_pending and del_timer, not
\* del_timer_sync.  No netlink handler is active any more.
FlushTimer ==
  /\ rtphase = "up" /\ adder = <<>>
  /\ rtphase' = "stopping"
  /\ pending' = FALSE /\ texp' = 0
  /\ raced' = handler.run
  /\ UNCHANGED <<jiffies, rt, rt_len, handler, adder, refused, skewed>>

FlushList ==
  /\ rtphase = "stopping"
  /\ rtphase' = "gone"
  /\ rt' = <<>>
  /\ rt_len' = rt_len - Len(rt)
  /\ UNCHANGED <<jiffies, pending, texp, handler, adder, refused, raced>>
  /\ Skew(FALSE)

------------------------------------------------------------------------------
\* cpc_rt_init.  The module may be loaded at any time.
RtInit ==
  /\ jiffies \in Clock
  /\ rt = <<>> /\ rt_len = 0
  /\ pending = FALSE /\ texp = 0
  /\ handler = HandlerIdle /\ adder = <<>>
  /\ rtphase = "up"
  /\ refused = 0 /\ raced = FALSE /\ skewed = FALSE

RtNext ==
  \/ Tick
  \/ \E d \in Daddrs, life \in Lifetimes : AddBegin(d, life)
  \/ AddEnd
  \/ \E d \in Daddrs : Del(d)
  \/ TimerFires \/ Timeout
  \/ FlushTimer \/ FlushList

RtSpec == RtInit /\ [][RtNext]_rtVars

\* Time passes, due timers are run, and code that holds or waits for a spin
\* lock gets on.
RtFairness == /\ WF_rtVars(Tick) /\ WF_rtVars(TimerFires) /\ WF_rtVars(Timeout)
              /\ WF_rtVars(AddEnd) /\ WF_rtVars(FlushList)

RtFairSpec == RtSpec /\ RtFairness

------------------------------------------------------------------------------
(***************************************************************************)
(* Properties.                                                             *)
(***************************************************************************)

\* Every variable holds a value of its C type, as far as the model keeps it.
RtTypeOK ==
  /\ jiffies \in Clock
  /\ rt \in Seq(Entries)
  /\ rt_len \in Nat
  /\ pending \in BOOLEAN /\ texp \in Clock
  /\ handler \in [run : BOOLEAN, time : Clock]
  /\ adder \in Seq(Entries) /\ Len(adder) <= 1
  /\ rtphase \in {"up", "stopping", "gone"}
  /\ refused \in Nat /\ raced \in BOOLEAN /\ skewed \in BOOLEAN

\* cpc_rt_timeout stops at the first entry that expires later than now, so
\* the list must stay in the order of the expiry times although additions,
\* deletions and the timer handler interleave (cpc_rt.c, __cpc_rt_add).
SortedByExpiry ==
  \A i, j \in DOMAIN rt : i < j => rt[i].expires <= rt[j].expires

\* While there are routes and the timer handler is not at work, the timer is
\* set for the first of them.  The timer is touched in five places of cpc_rt.c
\* and nothing else ever looks for expired routes, so one that forgot it would
\* leave every route of the table in place for good.
TimerArmedForHead ==
  rtphase = "up" /\ rt # <<>> /\ ~handler.run => pending /\ texp = rt[1].expires

\* A route whose lifetime is over is about to be found: the timer is due or
\* its handler at work.  This holds while no clock value in use has been cut
\* off by a wrap-around or by the int in cpc_rt_timeout.
OverdueIsSeen ==
  rtphase = "up" /\ ~skewed =>
    \A i \in DOMAIN rt : rt[i].left <= 0 => handler.run \/ (pending /\ Due(texp))

\* The timer handler removes no route before its lifetime is over, under the
\* same proviso, although it compares with a clock value read before it got
\* the lock.
NoEarlyExpiry ==
  [][Timeout /\ ~skewed =>
       \A i \in DOMAIN rt : rt[i].left > 0 =>
         \E j \in DOMAIN rt' : rt'[j] = rt[i]]_rtVars

\* One entry per destination: cpc_rt_add looks for the destination before it
\* takes the write lock, and relies on being the only one that adds.
OneRoutePerDestination ==
  \A i, j \in DOMAIN rt : rt[i].daddr = rt[j].daddr => i = j

\* rt_len is the number of routes and of refused additions since the module
\* was loaded; the table never holds more than RT_MAX_LEN + 1 of them.
RtLenCountsRefusals ==
  /\ rt_len = Len(rt) + refused
  /\ Len(rt) <= RtMaxLen + 1

\* Once the module is gone its timer is not pending and its handler not at
\* work, unless the handler was running when cpc_rt_flush deleted the timer:
\* then it can set the timer again behind the back of cpc_rt_flush.
TimerGoneUnlessRaced ==
  rtphase = "gone" /\ ~raced => ~pending /\ ~handler.run

\* The table through every interleaving of cpc_rt_add, cpc_rt_del and
\* cpc_rt_timeout: of the right types, in order, without duplicates, and counted
\* up to refusals.
TableIsSound ==
  /\ RtTypeOK
  /\ SortedByExpiry /\ OneRoutePerDestination /\ RtLenCountsRefusals

\* The one timer of the table: set for the first route, in time for every
\* route, and gone with the module unless cpc_rt_flush met its handler.
TimerIsSound == TimerArmedForHead /\ OverdueIsSeen /\ TimerGoneUnlessRaced

\* Every route leaves the table after a while, unless a clock value in use
\* has been cut off.
RoutesExpire ==
  \A d \in Daddrs :
    (\E i \in DOMAIN rt : rt[i].daddr = d)
      ~> (skewed \/ \A i \in DOMAIN rt : rt[i].daddr # d)

=============================================================================
