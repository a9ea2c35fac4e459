--------------------------- MODULE ArpCacheProofs ---------------------------
(***************************************************************************)
(* Address resolution for any number of addresses, hosts, packets and      *)
(* retries, and any length of the pending queue.                           *)
(***************************************************************************)
EXTENDS ArpCache, TLAPS

Entries ==
    [state : {"alive", "wait", "dead", "permanent", "auto"}, mac : Macs \cup {NoMac},
     pending : Seq(Nat), retries : Nat, expired : BOOLEAN]

Messages ==
    [kind : {"request"}, for : Addresses] \cup [kind : {"reply"}, for : Addresses, host : Macs]

TypeOK ==
    /\ cache \in [Addresses -> Entries \cup {NoEntry}]
    /\ net \subseteq Messages
    /\ owns \in [Macs -> SUBSET Assignable]
    /\ dynamic \in BOOLEAN
    /\ given \in Nat
    /\ lastSent \in [Addresses -> Nat]
    /\ requests \in [Addresses -> Nat]

Increasing(q) == \A i, j \in 1 .. Len(q) : i < j => q[i] < q[j]

(* The packets that wait with an entry are numbers of packets sent after   *)
(* the one that left last, up to n.                                        *)
Queue(q, last, n) ==
    /\ Increasing(q)
    /\ \A i \in 1 .. Len(q) : last < q[i] /\ q[i] <= n

(* An entry that waits has a packet to wait with, and its retries are the  *)
(* retransmissions asked for; one that does not wait starts over with no   *)
(* packet and no retry.                                                    *)
Consistent(e, last, n, asked) ==
    /\ e.state = "wait" => /\ e.pending # << >> /\ Queue(e.pending, last, n)
                           /\ e.retries = asked /\ asked <= MaxRetries
    /\ e.state \in {"alive", "dead"} => e.pending = << >> /\ e.retries = 0

(* Host m has the address a. *)
HasAddress(o, m, a) == m \in Macs /\ a \in o[m]

IInv ==
    /\ TypeOK
    /\ \A a \in Addresses : lastSent[a] <= given
    /\ \A a \in Addresses : Consistent(cache[a], lastSent[a], given, requests[a])
    /\ \A a \in Addresses : Is(a, "auto") => dynamic /\ HasAddress(owns, cache[a].mac, a)

-----------------------------------------------------------------------------
(* The tests the handlers make on the state of an entry tell whether there *)
(* is one.                                                                 *)
LEMMA EntryOrNone ==
    ASSUME NEW e \in Entries \cup {NoEntry}
    PROVE  /\ e # NoEntry <=> e \in Entries
           /\ e = NoEntry <=> e.state = "none"
BY DEF Entries, NoEntry

(* A queue stays in order when the next packet is appended: MarkWaitReply  *)
(* and UpdateWaitReply.                                                    *)
LEMMA AppendNext ==
    ASSUME NEW q \in Seq(Nat), NEW last \in Nat, NEW n \in Nat,
           Queue(q, last, n), last <= n
    PROVE  /\ Append(q, n + 1) \in Seq(Nat) /\ Append(q, n + 1) # << >>
           /\ Queue(Append(q, n + 1), last, n + 1)
<1> DEFINE r == Append(q, n + 1)
<1>1. /\ r \in Seq(Nat) /\ Len(r) = Len(q) + 1
      /\ \A i \in 1 .. Len(q) : r[i] = q[i]
      /\ r[Len(q) + 1] = n + 1
  OBVIOUS
<1> HIDE DEF r
<1>2. \A i \in 1 .. Len(r) : i \in 1 .. Len(q) \/ i = Len(q) + 1
  BY <1>1
<1>3. ASSUME NEW i \in 1 .. Len(r) PROVE last < r[i] /\ r[i] <= n + 1
  <2>1. CASE i \in 1 .. Len(q)
    <3>1. r[i] = q[i] /\ q[i] \in Nat /\ last < q[i] /\ q[i] <= n
      BY <1>1, <2>1 DEF Queue
    <3> QED BY <3>1
  <2>2. CASE i = Len(q) + 1
    BY <1>1, <2>2
  <2> QED BY <1>2, <2>1, <2>2
<1>4. ASSUME NEW i \in 1 .. Len(r), NEW j \in 1 .. Len(r), i < j
      PROVE  r[i] < r[j]
  <2>0. i \in 1 .. Len(q)
    BY <1>1, <1>4
  <2>1. i \in 1 .. Len(q) /\ q[i] \in Nat /\ q[i] < n + 1
    BY <2>0 DEF Queue
  <2>2. CASE j \in 1 .. Len(q)
    BY <2>1, <2>2, <1>1, <1>4 DEF Queue, Increasing
  <2>3. CASE j = Len(q) + 1
    BY <2>1, <2>3, <1>1
  <2> QED BY <2>2, <2>3, <1>2
<1> QED BY <1>1, <1>3, <1>4 DEF Queue, Increasing, r

(* An entry stays consistent when packets are sent to other addresses, or  *)
(* to this one without leaving.                                            *)
LEMMA ConsistentLater ==
    ASSUME NEW e \in Entries \cup {NoEntry}, NEW last \in Nat, NEW n \in Nat, NEW asked \in Nat,
           Consistent(e, last, n, asked)
    PROVE  Consistent(e, last, n + 1, asked)
<1>1. CASE e.state = "wait"
  <2>1. e \in Entries
    BY <1>1, EntryOrNone DEF NoEntry
  <2> QED BY <1>1, <2>1 DEF Consistent, Queue, Entries
<1>2. CASE e.state # "wait"
  BY <1>2 DEF Consistent
<1> QED BY <1>1, <1>2

(* There is no entry whose state is not that of an Entry: an address       *)
(* without one is consistent.                                              *)
LEMMA NoneIsConsistent ==
    ASSUME NEW last, NEW n, NEW asked
    PROVE  Consistent(NoEntry, last, n, asked)
BY DEF Consistent, NoEntry

(* Resolution starts with a new entry, or over with one that was resolved  *)
(* or given up.                                                            *)
LEMMA MarkWaitReplyStarts ==
    ASSUME NEW e \in Entries, NEW last \in Nat, NEW n \in Nat, last <= n,
           e.pending = << >>, e.retries = 0
    PROVE  /\ MarkWaitReply(e, n + 1) \in Entries
           /\ Consistent(MarkWaitReply(e, n + 1), last, n + 1, 0)
           /\ MarkWaitReply(e, n + 1).state = "wait"
<1> DEFINE r == MarkWaitReply(e, n + 1)
<1>1. e.pending \in Seq(Nat) /\ Queue(e.pending, last, n)
  BY DEF Queue, Increasing, Entries
<1>2. r.pending = Append(e.pending, n + 1) /\ r.state = "wait" /\ r.retries = 0
  BY DEF MarkWaitReply, Entries
<1>3. r \in Entries
  <2>1. Append(e.pending, n + 1) \in Seq(Nat)
    BY <1>1
  <2> QED BY <2>1 DEF MarkWaitReply, Entries
<1>4. r.pending # << >> /\ Queue(r.pending, last, n + 1)
  <2> HIDE DEF r
  <2> QED BY <1>1, <1>2, AppendNext
<1> QED BY <1>2, <1>3, <1>4, ArpAssumption DEF Consistent

(* Marking an entry permanent or generated leaves the packets that wait    *)
(* with it; no resolution starts over with such an entry.                  *)
LEMMA MarkStaticConsistent ==
    ASSUME NEW e \in Entries, NEW m \in Macs, NEW state \in {"permanent", "auto"},
           NEW last, NEW n, NEW asked
    PROVE  /\ MarkStatic(e, m, state) \in Entries
           /\ MarkStatic(e, m, state).state = state
           /\ MarkStatic(e, m, state).mac = m
           /\ Consistent(MarkStatic(e, m, state), last, n, asked)
BY DEF MarkStatic, Entries, Consistent

(* A retry leaves the packets that wait. *)
LEMMA RetriedWaits ==
    ASSUME NEW e \in Entries
    PROVE  /\ Retried(e) \in Entries /\ Retried(e).state = e.state
           /\ Retried(e).pending = e.pending /\ Retried(e).retries = e.retries + 1
<1>1. e.retries \in Nat /\ e.retries + 1 \in Nat
  BY DEF Entries
<1> QED BY <1>1 DEF Retried, Entries

(* An entry that is resolved has nothing left over. *)
LEMMA ResolvedIsIdle ==
    ASSUME NEW e \in Entries, NEW m \in Macs, NEW r,
           r = [MarkAlive(e, m) EXCEPT !.pending = << >>]
    PROVE  r \in Entries /\ r.state = "alive" /\ r.pending = << >> /\ r.retries = 0
<1>1. /\ MarkAlive(e, m) \in Entries /\ MarkAlive(e, m).state = "alive"
      /\ MarkAlive(e, m).retries = 0
  BY DEF MarkAlive, Entries
<1>2. << >> \in Seq(Nat)
  OBVIOUS
<1> QED BY <1>1, <1>2 DEF Entries

(* Nor has one that is given up. *)
LEMMA GivenUpIsIdle ==
    ASSUME NEW e \in Entries, NEW r, r = [MarkDead(e) EXCEPT !.pending = << >>]
    PROVE  r \in Entries /\ r.state = "dead" /\ r.pending = << >> /\ r.retries = 0
<1>1. /\ MarkDead(e) \in Entries /\ MarkDead(e).state = "dead"
      /\ MarkDead(e).retries = 0
  BY DEF MarkDead, Entries
<1>2. << >> \in Seq(Nat)
  OBVIOUS
<1> QED BY <1>1, <1>2 DEF Entries

(* ArpCache::Add makes an entry that nothing waits for yet.                *)
LEMMA NewEntryIsEntry ==
    NewEntry \in Entries /\ NewEntry.pending = << >> /\ NewEntry.retries = 0
BY DEF NewEntry, Entries, NoMac

-----------------------------------------------------------------------------
(* The invariant holds of the empty cache.                                 *)
LEMMA IInvInit == Init => IInv
<1> SUFFICES ASSUME Init PROVE IInv
  OBVIOUS
<1> USE DEF Init
<1>1. TypeOK
  BY DEF TypeOK
<1>2. \A a \in Addresses : cache[a] = NoEntry /\ lastSent[a] = 0
  OBVIOUS
<1>3. \A a \in Addresses : Is(a, "auto") => FALSE
  BY <1>2 DEF Is, NoEntry
<1>4. \A a \in Addresses : Consistent(cache[a], lastSent[a], given, requests[a])
  BY <1>2, NoneIsConsistent
<1> QED BY <1>1, <1>2, <1>3, <1>4 DEF IInv

(* A packet to the neighbour: Lookup preserves the invariant. *)
LEMMA LookupStep ==
    ASSUME IInv, NEW a \in Addresses, Lookup(a)
    PROVE  IInv'
<1> DEFINE p == given + 1
<1>0. /\ TypeOK /\ cache[a] \in Entries \cup {NoEntry}
      /\ given \in Nat /\ lastSent[a] \in Nat /\ requests[a] \in Nat /\ lastSent[a] <= given
      /\ Consistent(cache[a], lastSent[a], given, requests[a])
      /\ Exists(a) => cache[a] \in Entries
  BY EntryOrNone DEF IInv, TypeOK, Exists
<1>1. given' = p /\ UNCHANGED <<owns, dynamic>>
  BY DEF Lookup
<1>2. \A b \in Addresses : Consistent(cache[b], lastSent[b], p, requests[b])
  BY ConsistentLater DEF IInv, TypeOK
<1>3. ASSUME NEW e \in Entries, e.pending = << >>, e.retries = 0, StartResolution(a, e, p)
      PROVE  IInv'
  <2> DEFINE r == MarkWaitReply(e, p)
  <2>1. r \in Entries /\ Consistent(r, lastSent[a], p, 0) /\ r.state = "wait"
    BY <1>0, <1>3, MarkWaitReplyStarts
  <2> HIDE DEF r
  <2>2. /\ cache' = [cache EXCEPT ![a] = r] /\ requests' = [requests EXCEPT ![a] = 0]
        /\ net' = net \cup {SendArpRequest(a)} /\ UNCHANGED lastSent
    BY <1>3 DEF StartResolution, r
  <2>3. TypeOK'
    BY <1>0, <1>1, <2>1, <2>2 DEF TypeOK, SendArpRequest, Messages
  <2>4. (\A b \in Addresses : lastSent[b] <= given)'
    BY <1>1, <2>2 DEF IInv, TypeOK
  <2>5. (\A b \in Addresses : Consistent(cache[b], lastSent[b], given, requests[b]))'
    BY <1>0, <1>1, <1>2, <2>1, <2>2 DEF TypeOK
  <2>6. (\A b \in Addresses : Is(b, "auto") => dynamic /\ HasAddress(owns, cache[b].mac, b))'
    BY <1>0, <1>1, <2>1, <2>2 DEF IInv, TypeOK, Is
  <2> QED BY <2>3, <2>4, <2>5, <2>6 DEF IInv
<1>4. ASSUME lastSent' = [lastSent EXCEPT ![a] = p], UNCHANGED <<cache, timer, net, requests>>,
             cache[a].state # "wait"
      PROVE  IInv'
  <2>1. TypeOK'
    BY <1>0, <1>1, <1>4 DEF TypeOK
  <2>2. (\A b \in Addresses : lastSent[b] <= given)'
    BY <1>0, <1>1, <1>4 DEF IInv, TypeOK
  <2>3. Consistent(cache[a], p, p, requests[a])
    BY <1>0, <1>4 DEF Consistent
  <2>4. (\A b \in Addresses : Consistent(cache[b], lastSent[b], given, requests[b]))'
    BY <1>0, <1>1, <1>2, <1>4, <2>3 DEF TypeOK
  <2> QED BY <1>1, <1>4, <2>1, <2>2, <2>4 DEF IInv, Is
<1>5. CASE ~Exists(a) /\ StartResolution(a, NewEntry, p)
  BY <1>3, <1>5, NewEntryIsEntry
<1>6. CASE /\ Exists(a) /\ cache[a].state \in {"alive", "dead"} /\ cache[a].expired
           /\ StartResolution(a, cache[a], p)
  BY <1>0, <1>3, <1>6 DEF Consistent
<1>7. CASE /\ Exists(a) /\ Is(a, "alive") /\ ~cache[a].expired
           /\ lastSent' = [lastSent EXCEPT ![a] = p] /\ UNCHANGED <<cache, timer, net, requests>>
  BY <1>4, <1>7 DEF Is
<1>8. CASE UNCHANGED <<cache, timer, net, requests, lastSent>>
  <2>1. TypeOK'
    BY <1>0, <1>1, <1>8 DEF TypeOK
  <2>2. (\A b \in Addresses : lastSent[b] <= given)'
    BY <1>0, <1>1, <1>8 DEF IInv, TypeOK
  <2>3. (\A b \in Addresses : Consistent(cache[b], lastSent[b], given, requests[b]))'
    BY <1>1, <1>2, <1>8
  <2> QED BY <1>1, <1>8, <2>1, <2>2, <2>3 DEF IInv, Is
<1>9. CASE /\ Exists(a) /\ Is(a, "wait")
           /\ cache' = [cache EXCEPT ![a] = UpdateWaitReply(@, p)]
           /\ UNCHANGED <<timer, net, requests, lastSent>>
  <2> DEFINE e == cache[a]
             r == UpdateWaitReply(e, p)
  <2>1. e \in Entries /\ e.state = "wait" /\ Consistent(e, lastSent[a], p, requests[a])
    BY <1>0, <1>2, <1>9 DEF Is
  <2>2. r \in Entries /\ r.state = "wait" /\ Consistent(r, lastSent[a], p, requests[a])
    <3>1. CASE r = e
      BY <2>1, <3>1
    <3>2. CASE r = [e EXCEPT !.pending = Append(@, p)]
      <4>1. e.pending \in Seq(Nat) /\ Queue(e.pending, lastSent[a], given)
        BY <1>0, <2>1 DEF Consistent, Entries
      <4>2. /\ Append(e.pending, p) \in Seq(Nat) /\ Append(e.pending, p) # << >>
            /\ Queue(Append(e.pending, p), lastSent[a], p)
        BY <1>0, <4>1, AppendNext
      <4>3. /\ r.pending = Append(e.pending, p) /\ r.state = "wait"
            /\ r.retries = e.retries /\ r \in Entries
        BY <2>1, <3>2, <4>2 DEF Entries
      <4> QED BY <2>1, <4>2, <4>3 DEF Consistent
    <3> QED BY <3>1, <3>2 DEF UpdateWaitReply
  <2>3. cache' = [cache EXCEPT ![a] = r]
    BY <1>9
  <2> HIDE DEF r
  <2>4. TypeOK'
    BY <1>0, <1>1, <1>9, <2>2, <2>3 DEF TypeOK
  <2>5. (\A b \in Addresses : lastSent[b] <= given)'
    BY <1>0, <1>1, <1>9 DEF IInv, TypeOK
  <2>6. (\A b \in Addresses : Consistent(cache[b], lastSent[b], given, requests[b]))'
    BY <1>0, <1>1, <1>2, <1>9, <2>2, <2>3 DEF TypeOK
  <2>7. (\A b \in Addresses : Is(b, "auto") => dynamic /\ HasAddress(owns, cache[b].mac, b))'
    BY <1>0, <1>1, <1>9, <2>2, <2>3 DEF IInv, TypeOK, Is
  <2> QED BY <2>4, <2>5, <2>6, <2>7 DEF IInv
<1>10. CASE /\ Exists(a) /\ cache[a].state \in {"permanent", "auto"}
            /\ lastSent' = [lastSent EXCEPT ![a] = p] /\ UNCHANGED <<cache, timer, net, requests>>
  BY <1>4, <1>10
<1> QED BY <1>5, <1>6, <1>7, <1>8, <1>9, <1>10 DEF Lookup

(* A step after which each entry is as it was, gone, or one that may be    *)
(* there, and that sends no packet.                                        *)
LEMMA EntriesStep ==
    ASSUME IInv, NEW f \in [Addresses -> Entries \cup {NoEntry}], cache' = f,
           net' \subseteq Messages, owns' \in [Macs -> SUBSET Assignable], dynamic' \in BOOLEAN,
           UNCHANGED <<given, lastSent, requests>>,
           \A a \in Addresses : f[a] # cache[a] =>
               Consistent(f[a], lastSent[a], given, requests[a]),
           \A a \in Addresses : f[a].state = "auto" => dynamic' /\ HasAddress(owns', f[a].mac, a)
    PROVE  IInv'
<1>1. TypeOK'
  BY DEF IInv, TypeOK
<1>2. (\A a \in Addresses : Consistent(cache[a], lastSent[a], given, requests[a]))'
  BY DEF IInv, TypeOK
<1>3. (\A a \in Addresses : Is(a, "auto") => dynamic /\ HasAddress(owns, cache[a].mac, a))'
  BY DEF Is
<1> QED BY <1>1, <1>2, <1>3 DEF IInv

(* The timer of the cache: every entry that waits is retried or given up. *)
LEMMA TimeoutStep ==
    ASSUME IInv, HandleWaitReplyTimeout
    PROVE  IInv'
<1> DEFINE retried == {a \in Addresses : Is(a, "wait") /\ cache[a].retries < MaxRetries}
<1>1. /\ cache' = [a \in Addresses |-> AfterTimeout(cache[a])]
      /\ net' = net \cup {SendArpRequest(a) : a \in retried}
      /\ requests' = [a \in Addresses |-> IF a \in retried THEN requests[a] + 1 ELSE requests[a]]
      /\ UNCHANGED <<owns, dynamic, given, lastSent>>
  BY DEF HandleWaitReplyTimeout
<1>2. ASSUME NEW a \in Addresses
      PROVE  /\ cache'[a] \in Entries \cup {NoEntry}
             /\ requests'[a] \in Nat
             /\ Consistent(cache'[a], lastSent[a], given, requests'[a])
             /\ cache'[a].state = "auto" => cache'[a] = cache[a]
  <2> DEFINE e == cache[a]
  <2>0. /\ e \in Entries \cup {NoEntry} /\ requests[a] \in Nat /\ MaxRetries \in Nat
        /\ Consistent(e, lastSent[a], given, requests[a]) /\ cache'[a] = AfterTimeout(e)
    BY <1>1, ArpAssumption DEF IInv, TypeOK
  <2>1. CASE e.state # "wait"
    <3>1. cache'[a] = e /\ requests'[a] = requests[a]
      BY <1>1, <2>0, <2>1 DEF AfterTimeout, Is
    <3> QED BY <2>0, <3>1
  <2>2. CASE e.state = "wait" /\ e.retries < MaxRetries
    <3>1. e \in Entries
      BY <2>0, <2>2, EntryOrNone DEF NoEntry
    <3>2. requests'[a] = requests[a] + 1
      BY <1>1, <2>2 DEF Is
    <3>3. cache'[a] = Retried(e)
      BY <2>0, <2>2 DEF AfterTimeout
    <3>4. /\ Retried(e) \in Entries /\ Retried(e).state = "wait"
          /\ Retried(e).pending = e.pending /\ Retried(e).retries = e.retries + 1
      BY <2>2, <3>1, RetriedWaits
    <3>5. Consistent(Retried(e), lastSent[a], given, requests[a] + 1)
      BY <2>0, <2>2, <3>4 DEF Consistent
    <3> QED BY <2>0, <3>2, <3>3, <3>4, <3>5
  <2>3. CASE e.state = "wait" /\ ~(e.retries < MaxRetries)
    <3>1. e \in Entries
      BY <2>0, <2>3, EntryOrNone DEF NoEntry
    <3>2. requests'[a] = requests[a]
      BY <1>1, <2>3 DEF Is
    <3> DEFINE r == [MarkDead(e) EXCEPT !.pending = << >>]
    <3>3. cache'[a] = r
      BY <2>0, <2>3 DEF AfterTimeout
    <3>4. r \in Entries /\ r.state = "dead" /\ r.pending = << >> /\ r.retries = 0
      BY <3>1, GivenUpIsIdle
    <3> HIDE DEF r
    <3>5. Consistent(r, lastSent[a], given, requests[a])
      BY <3>4 DEF Consistent
    <3> QED BY <2>0, <3>2, <3>3, <3>4, <3>5
  <2> QED BY <2>1, <2>2, <2>3
<1>3. TypeOK'
  <2>1. cache' \in [Addresses -> Entries \cup {NoEntry}]
    BY <1>1, <1>2
  <2>2. requests' \in [Addresses -> Nat]
    BY <1>1, <1>2
  <2>3. net' \subseteq Messages
    BY <1>1 DEF IInv, TypeOK, SendArpRequest, Messages
  <2> QED BY <1>1, <2>1, <2>2, <2>3 DEF IInv, TypeOK
<1>4. (\A a \in Addresses : Consistent(cache[a], lastSent[a], given, requests[a]))'
  BY <1>1, <1>2
<1>5. (\A a \in Addresses : Is(a, "auto") => dynamic /\ HasAddress(owns, cache[a].mac, a))'
  BY <1>1, <1>2 DEF IInv, Is
<1>6. (\A a \in Addresses : lastSent[a] <= given)'
  BY <1>1 DEF IInv
<1> QED BY <1>3, <1>4, <1>5, <1>6 DEF IInv

(* A reply: the packets that wait leave, the last of them last. *)
LEMMA ReplyStep ==
    ASSUME IInv, NEW msg \in net, ReceiveReply(msg)
    PROVE  IInv'
<1> DEFINE a == msg.for
           e == cache[a]
<1>1. a \in Addresses /\ msg.host \in Macs /\ net' \subseteq Messages
  <2>1. msg \in Messages /\ msg.kind = "reply"
    BY DEF ReceiveReply, IInv, TypeOK
  <2> QED BY <2>1 DEF Messages, ReceiveReply, IInv, TypeOK
<1>2. UNCHANGED <<timer, owns, dynamic, given, requests>>
  BY DEF ReceiveReply
<1>3. CASE ~Is(a, "wait")
  <2>1. UNCHANGED <<cache, lastSent>>
    BY <1>3 DEF ReceiveReply
  <2>2. TypeOK'
    BY <1>1, <1>2, <2>1 DEF IInv, TypeOK
  <2> QED BY <1>2, <2>1, <2>2 DEF IInv, Is
<1>4. CASE Is(a, "wait")
  <2>1. Resolve(a, msg.host)
    BY <1>4 DEF ReceiveReply
  <2>2. e \in Entries /\ e.state = "wait" /\ Consistent(e, lastSent[a], given, requests[a])
    BY <1>1, <1>4, EntryOrNone DEF IInv, TypeOK, Is, NoEntry
  <2> DEFINE r == [MarkAlive(e, msg.host) EXCEPT !.pending = << >>]
             l == e.pending[Len(e.pending)]
  <2>3. r \in Entries /\ r.state = "alive" /\ r.pending = << >> /\ r.retries = 0
    <3>1. e \in Entries /\ msg.host \in Macs /\ r = [MarkAlive(e, msg.host) EXCEPT !.pending = << >>]
      BY <1>1, <2>2
    <3> HIDE DEF e, r
    <3> QED BY <3>1, ResolvedIsIdle
  <2>4. l \in Nat /\ l <= given
    <3>1. e.pending \in Seq(Nat) /\ e.pending # << >>
      BY <2>2 DEF Entries, Consistent
    <3>2. Len(e.pending) \in 1 .. Len(e.pending)
      BY <3>1
    <3> QED BY <2>2, <3>1, <3>2 DEF Consistent, Queue
  <2>5. cache' = [cache EXCEPT ![a] = r] /\ lastSent' = [lastSent EXCEPT ![a] = l]
    BY <2>1 DEF Resolve
  <2> HIDE DEF r, l
  <2>6. TypeOK'
    BY <1>1, <1>2, <2>3, <2>4, <2>5 DEF IInv, TypeOK
  <2>7. (\A b \in Addresses : lastSent[b] <= given)'
    BY <1>1, <1>2, <2>4, <2>5 DEF IInv, TypeOK
  <2>8. Consistent(r, l, given, requests[a])
    BY <2>3 DEF Consistent
  <2>9. (\A b \in Addresses : Consistent(cache[b], lastSent[b], given, requests[b]))'
    BY <1>1, <1>2, <2>5, <2>8 DEF IInv, TypeOK
  <2>10. (\A b \in Addresses : Is(b, "auto") => dynamic /\ HasAddress(owns, cache[b].mac, b))'
    BY <1>1, <1>2, <2>3, <2>5 DEF IInv, TypeOK, Is
  <2> QED BY <2>6, <2>7, <2>9, <2>10 DEF IInv
<1> QED BY <1>3, <1>4

(* A message is answered or lost. *)
LEMMA NetworkStep ==
    ASSUME IInv, NEW msg \in net,
           Lose(msg) \/ \E m \in Macs : ReceiveRequest(msg, m)
    PROVE  IInv'
<1>1. UNCHANGED <<cache, owns, dynamic, given, lastSent, requests>>
  BY DEF Lose, ReceiveRequest
<1>2. net' \subseteq Messages
  <2>1. CASE Lose(msg)
    BY <2>1 DEF Lose, IInv, TypeOK
  <2>2. ASSUME NEW m \in Macs, ReceiveRequest(msg, m) PROVE net' \subseteq Messages
    <3>1. msg.for \in Addresses
      BY <2>2, ArpAssumption DEF ReceiveRequest, IInv, TypeOK
    <3> QED BY <2>2, <3>1 DEF ReceiveRequest, IInv, TypeOK, Messages
  <2> QED BY <2>1, <2>2
<1>3. TypeOK'
  BY <1>1, <1>2 DEF IInv, TypeOK
<1> QED BY <1>1, <1>3 DEF IInv, Is

(* Time passes for an entry that does not wait. *)
LEMMA ExpireStep ==
    ASSUME IInv, NEW a \in Addresses, Expire(a)
    PROVE  IInv'
<1> DEFINE e == cache[a]
           r == [e EXCEPT !.expired = TRUE]
           f == [cache EXCEPT ![a] = r]
<1>1. e \in Entries /\ Consistent(e, lastSent[a], given, requests[a])
  BY EntryOrNone DEF Expire, IInv, TypeOK, Exists
<1>2. /\ r \in Entries /\ r.state = e.state /\ r.pending = e.pending
      /\ r.retries = e.retries /\ r.mac = e.mac
  BY <1>1 DEF Entries
<1>3. cache' = f /\ UNCHANGED <<net, owns, dynamic, given, lastSent, requests>>
  BY DEF Expire
<1> HIDE DEF r
<1>4. Consistent(r, lastSent[a], given, requests[a])
  BY <1>1, <1>2 DEF Consistent
<1>5. \A b \in Addresses : f[b].state = "auto" => dynamic' /\ HasAddress(owns', f[b].mac, b)
  BY <1>2, <1>3 DEF IInv, TypeOK, Is
<1>6. f \in [Addresses -> Entries \cup {NoEntry}]
  BY <1>2 DEF IInv, TypeOK
<1>7. \A b \in Addresses : f[b] # cache[b] => Consistent(f[b], lastSent[b], given, requests[b])
  BY <1>4 DEF IInv, TypeOK
<1>8. net' \subseteq Messages /\ owns' \in [Macs -> SUBSET Assignable] /\ dynamic' \in BOOLEAN
  BY <1>3 DEF IInv, TypeOK
<1> QED BY <1>3, <1>5, <1>6, <1>7, <1>8, EntriesStep

(* The entries that Flush, FlushAutoGenerated and the removal of an        *)
(* address take away.                                                      *)
LEMMA RemovalStep ==
    ASSUME IInv, NEW gone \in SUBSET Addresses,
           cache' = [a \in Addresses |-> IF a \in gone THEN NoEntry ELSE cache[a]],
           owns' \in [Macs -> SUBSET Assignable],
           \A m \in Macs : owns[m] \subseteq owns'[m] \cup IF dynamic THEN gone ELSE Addresses,
           UNCHANGED <<net, dynamic, given, lastSent, requests>>
    PROVE  IInv'
<1> DEFINE f == [a \in Addresses |-> IF a \in gone THEN NoEntry ELSE cache[a]]
<1>1. f \in [Addresses -> Entries \cup {NoEntry}]
  BY DEF IInv, TypeOK
<1>2. \A a \in Addresses : f[a] # cache[a] => Consistent(f[a], lastSent[a], given, requests[a])
  BY NoneIsConsistent
<1>3. ASSUME NEW a \in Addresses, f[a].state = "auto"
      PROVE  dynamic' /\ HasAddress(owns', f[a].mac, a)
  <2>1. a \notin gone /\ f[a] = cache[a] /\ cache[a].state = "auto"
    BY <1>3 DEF NoEntry
  <2>2. dynamic /\ HasAddress(owns, cache[a].mac, a)
    BY <2>1 DEF IInv, Is
  <2> QED BY <2>1, <2>2 DEF HasAddress
<1>4. net' \subseteq Messages /\ dynamic' \in BOOLEAN
  BY DEF IInv, TypeOK
<1> QED BY <1>1, <1>2, <1>3, <1>4, EntriesStep

(* The entries that a user or NeighborCacheHelper writes, at any moment. *)
LEMMA StaticStep ==
    ASSUME IInv, NEW S \in SUBSET Addresses, NEW host \in [S -> Macs],
           NEW state \in {"permanent", "auto"},
           cache' = [a \in Addresses |->
               IF a \in S THEN MarkStatic(IF Exists(a) THEN cache[a] ELSE NewEntry, host[a], state)
               ELSE cache[a]],
           owns' \in [Macs -> SUBSET Assignable],
           \A m \in Macs : owns[m] \subseteq owns'[m],
           dynamic' \in BOOLEAN, dynamic => dynamic',
           state = "auto" => dynamic' /\ \A a \in S : a \in owns'[host[a]],
           UNCHANGED <<net, given, lastSent, requests>>
    PROVE  IInv'
<1> DEFINE old(a) == IF Exists(a) THEN cache[a] ELSE NewEntry
           f == [a \in Addresses |-> IF a \in S THEN MarkStatic(old(a), host[a], state) ELSE cache[a]]
<1>1. \A a \in Addresses : old(a) \in Entries
  BY EntryOrNone, NewEntryIsEntry DEF IInv, TypeOK, Exists
<1> HIDE DEF old
<1>2. ASSUME NEW a \in S
      PROVE  /\ f[a] \in Entries /\ f[a].state = state /\ f[a].mac = host[a]
             /\ Consistent(f[a], lastSent[a], given, requests[a])
  BY <1>1, MarkStaticConsistent
<1>3. f \in [Addresses -> Entries \cup {NoEntry}]
  BY <1>2 DEF IInv, TypeOK
<1>4. \A a \in Addresses : f[a] # cache[a] => Consistent(f[a], lastSent[a], given, requests[a])
  BY <1>2
<1>5. ASSUME NEW a \in Addresses, f[a].state = "auto"
      PROVE  dynamic' /\ HasAddress(owns', f[a].mac, a)
  <2>1. CASE a \in S
    BY <1>2, <1>5, <2>1 DEF HasAddress
  <2>2. CASE a \notin S
    BY <1>5, <2>2 DEF IInv, Is, HasAddress
  <2> QED BY <2>1, <2>2
<1>6. net' \subseteq Messages
  BY DEF IInv, TypeOK
<1>7. cache' = f
  BY DEF old
<1> QED BY <1>3, <1>4, <1>5, <1>6, <1>7, EntriesStep

(* What AddEntry writes, as StaticStep has it. *)
LEMMA AddEntryStep ==
    ASSUME IInv, NEW a \in Addresses, NEW m \in Macs, NEW state \in {"permanent", "auto"},
           AddEntry(a, m, state),
           owns' \in [Macs -> SUBSET Assignable],
           \A k \in Macs : owns[k] \subseteq owns'[k],
           UNCHANGED <<net, dynamic, given, lastSent, requests>>,
           state = "auto" => dynamic /\ a \in owns'[m]
    PROVE  IInv'
<1> DEFINE S == {a}
           host == [b \in S |-> m]
<1>1. cache' = [b \in Addresses |->
            IF b \in S THEN MarkStatic(IF Exists(b) THEN cache[b] ELSE NewEntry, host[b], state)
            ELSE cache[b]]
  BY DEF AddEntry, IInv, TypeOK
<1>2. host \in [S -> Macs] /\ \A b \in S : b = a /\ host[b] = m
  OBVIOUS
<1>3. dynamic' \in BOOLEAN
  BY DEF IInv, TypeOK
<1> HIDE DEF host
<1> QED BY <1>1, <1>2, <1>3, StaticStep

(* Addresses come and go, and NeighborCacheHelper follows them. *)
LEMMA HelperStep ==
    ASSUME IInv,
           \/ \E a \in Addresses, m \in Macs :
                AddPermanent(a, m) \/ AddAddress(a, m) \/ RemoveAddress(a, m)
           \/ PopulateNeighborCache \/ FlushAutoGenerated \/ Flush
    PROVE  IInv'
<1>0. /\ owns \in [Macs -> SUBSET Assignable] /\ dynamic \in BOOLEAN
      /\ cache \in [Addresses -> Entries \cup {NoEntry}]
  BY DEF IInv, TypeOK
<1>1. ASSUME NEW a \in Addresses, NEW m \in Macs, AddPermanent(a, m) PROVE IInv'
  BY <1>0, <1>1, AddEntryStep DEF AddPermanent
<1>2. ASSUME NEW a \in Addresses, NEW m \in Macs, AddAddress(a, m) PROVE IInv'
  <2>1. /\ owns' \in [Macs -> SUBSET Assignable] /\ a \in owns'[m]
        /\ \A k \in Macs : owns[k] \subseteq owns'[k]
        /\ UNCHANGED <<net, dynamic, given, lastSent, requests>>
    BY <1>0, <1>2 DEF AddAddress
  <2>2. CASE dynamic
    BY <1>2, <2>1, <2>2, AddEntryStep DEF AddAddress
  <2>3. CASE ~dynamic
    <3> DEFINE gone == {}
    <3>1. cache' = [b \in Addresses |-> IF b \in gone THEN NoEntry ELSE cache[b]]
      BY <1>0, <1>2, <2>3 DEF AddAddress
    <3>2. \A k \in Macs : owns[k] \subseteq owns'[k] \cup IF dynamic THEN gone ELSE Addresses
      BY <2>1
    <3>3. gone \in SUBSET Addresses
      OBVIOUS
    <3> HIDE DEF gone
    <3> QED BY <3>3, <2>1, <3>1, <3>2, RemovalStep
  <2> QED BY <1>0, <2>2, <2>3
<1>3. ASSUME NEW a \in Addresses, NEW m \in Macs, RemoveAddress(a, m) PROVE IInv'
  <2> DEFINE gone == IF dynamic THEN {a} ELSE {}
  <2>1. /\ owns' \in [Macs -> SUBSET Assignable]
        /\ \A k \in Macs : owns[k] \subseteq owns'[k] \cup {a}
        /\ UNCHANGED <<net, dynamic, given, lastSent, requests>>
    BY <1>0, <1>3 DEF RemoveAddress
  <2>2. cache' = [b \in Addresses |-> IF b \in gone THEN NoEntry ELSE cache[b]]
    BY <1>0, <1>3 DEF RemoveAddress
  <2>3. \A k \in Macs : owns[k] \subseteq owns'[k] \cup IF dynamic THEN gone ELSE Addresses
    BY <1>0, <2>1, ArpAssumption
  <2>4. gone \in SUBSET Addresses
    OBVIOUS
  <2> HIDE DEF gone
  <2> QED BY <2>1, <2>2, <2>3, <2>4, RemovalStep
<1>4. CASE PopulateNeighborCache
  <2> DEFINE S == {a \in Addresses : \E m \in Macs : a \in owns[m]}
  <2>1. PICK last \in [S -> Macs] :
          /\ \A a \in DOMAIN last : a \in owns[last[a]]
          /\ cache' = [a \in Addresses |->
                IF a \in DOMAIN last
                THEN MarkStatic(IF Exists(a) THEN cache[a] ELSE NewEntry, last[a], "auto")
                ELSE cache[a]]
    BY <1>4 DEF PopulateNeighborCache
  <2>2. DOMAIN last = S /\ S \subseteq Addresses
    OBVIOUS
  <2>3. dynamic' = TRUE /\ UNCHANGED <<net, owns, given, lastSent, requests>>
    BY <1>4 DEF PopulateNeighborCache
  <2>4. cache' = [a \in Addresses |->
            IF a \in S THEN MarkStatic(IF Exists(a) THEN cache[a] ELSE NewEntry, last[a], "auto")
            ELSE cache[a]]
    BY <2>1, <2>2
  <2>5. \A a \in S : a \in owns'[last[a]]
    BY <2>1, <2>2, <2>3
  <2>6. \A m \in Macs : owns[m] \subseteq owns'[m]
    BY <2>3
  <2> HIDE DEF S
  <2> QED BY <1>0, <2>2, <2>3, <2>4, <2>5, <2>6, StaticStep
<1>5. CASE FlushAutoGenerated \/ Flush
  <2>1. PICK gone \in SUBSET Addresses :
          cache' = [a \in Addresses |-> IF a \in gone THEN NoEntry ELSE cache[a]]
    <3>1. CASE Flush
      BY <3>1 DEF Flush
    <3>2. CASE FlushAutoGenerated
      <4> DEFINE gone == {a \in Addresses : Is(a, "auto")}
      <4>1. cache' = [a \in Addresses |-> IF a \in gone THEN NoEntry ELSE cache[a]]
        BY <3>2 DEF FlushAutoGenerated
      <4> QED BY <4>1
    <3> QED BY <1>5, <3>1, <3>2
  <2>2. UNCHANGED <<net, owns, dynamic, given, lastSent, requests>>
    BY <1>5 DEF Flush, FlushAutoGenerated
  <2>3. \A m \in Macs : owns[m] \subseteq owns'[m] \cup IF dynamic THEN gone ELSE Addresses
    BY <2>2
  <2> QED BY <1>0, <2>1, <2>2, <2>3, RemovalStep
<1> QED BY <1>1, <1>2, <1>3, <1>4, <1>5

-----------------------------------------------------------------------------
(* Every step preserves the invariant. *)
LEMMA IInvNext == IInv /\ [Next]_vars => IInv'
<1> SUFFICES ASSUME IInv, [Next]_vars PROVE IInv'
  OBVIOUS
<1>1. CASE UNCHANGED vars
  BY <1>1 DEF vars, IInv, TypeOK, Is
<1> QED BY <1>1, LookupStep, ExpireStep, TimeoutStep, NetworkStep, ReplyStep, HelperStep DEF Next

(* The invariant holds of every reachable state of the ARP cache. *)
LEMMA Invariance == Spec => []IInv
BY IInvInit, IInvNext, PTL DEF Spec

(* Packets to one address leave in the order in which they were sent,      *)
(* through every resolution, retry and overwriting of its entry.           *)
THEOREM ArpInOrder == Spec => []InOrder
<1>1. IInv => InOrder
  <2> SUFFICES ASSUME IInv, NEW a \in Addresses, Exists(a)
               PROVE  /\ Is(a, "wait") =>
                            \A i \in 1 .. Len(<< lastSent[a] >> \o cache[a].pending) - 1 :
                                (<< lastSent[a] >> \o cache[a].pending)[i]
                                    < (<< lastSent[a] >> \o cache[a].pending)[i + 1]
                      /\ cache[a].state \in {"alive", "dead"} => cache[a].pending = << >>
    BY DEF InOrder
  <2> DEFINE q == cache[a].pending
             w == << lastSent[a] >> \o q
  <2>1. cache[a] \in Entries /\ Consistent(cache[a], lastSent[a], given, requests[a])
    BY EntryOrNone DEF IInv, TypeOK, Exists
  <2>2. q \in Seq(Nat) /\ lastSent[a] \in Nat
    BY <2>1 DEF Entries, IInv, TypeOK
  <2>3. ASSUME Is(a, "wait"), NEW i \in 1 .. Len(w) - 1
        PROVE  w[i] < w[i + 1]
    <3>1. Queue(q, lastSent[a], given)
      BY <2>1, <2>3 DEF Consistent, Is
    <3> HIDE DEF q
    <3>2. Len(w) = Len(q) + 1 /\ w[1] = lastSent[a] /\ \A j \in 1 .. Len(q) : w[j + 1] = q[j]
      BY <2>2
    <3>3. i \in 1 .. Len(q) /\ w[i + 1] = q[i]
      BY <2>2, <2>3, <3>2
    <3>4. CASE i = 1
      BY <3>1, <3>2, <3>3, <3>4 DEF Queue
    <3>5. CASE i # 1
      <4>1. i - 1 \in 1 .. Len(q) /\ (i - 1) + 1 = i /\ i - 1 < i
        BY <2>2, <3>3, <3>5
      <4>2. w[i] = q[i - 1]
        BY <3>2, <4>1
      <4> HIDE DEF w
      <4> QED BY <3>1, <3>3, <4>1, <4>2 DEF Queue, Increasing
    <3> QED BY <3>4, <3>5
  <2> QED BY <2>1, <2>3 DEF Consistent
<1> QED BY <1>1, Invariance, PTL

(* A generated entry names a host that has the address, however addresses  *)
(* come and go once the helper's callbacks are set.                        *)
THEOREM ArpAutoGeneratedIsCurrent == Spec => []AutoGeneratedIsCurrent
<1>1. IInv => AutoGeneratedIsCurrent
  BY DEF IInv, AutoGeneratedIsCurrent, HasAddress
<1> QED BY <1>1, Invariance, PTL

(* An entry is given up only after MaxRetries retransmissions.             *)
THEOREM ArpRetriedBeforeDead == Spec => RetriedBeforeDead
<1> DEFINE A == \A a \in Addresses :
                  Is(a, "wait") /\ cache'[a].state = "dead" => requests[a] = MaxRetries
<1>1. IInv /\ [Next]_vars => [A]_vars
  <2> SUFFICES ASSUME IInv, [Next]_vars, NEW a \in Addresses,
                      Is(a, "wait"), cache'[a].state = "dead"
               PROVE  requests[a] = MaxRetries
    OBVIOUS
  <2>0. /\ cache \in [Addresses -> Entries \cup {NoEntry}] /\ cache[a].state = "wait"
        /\ requests[a] <= MaxRetries /\ cache[a].retries = requests[a]
        /\ cache[a] \in Entries /\ Exists(a) /\ requests[a] \in Nat /\ MaxRetries \in Nat
    BY EntryOrNone, ArpAssumption DEF IInv, TypeOK, Consistent, Is, Exists, NoEntry
  <2>1. CASE HandleWaitReplyTimeout
    <3>1. cache'[a] = AfterTimeout(cache[a])
      BY <2>1 DEF HandleWaitReplyTimeout
    <3>2. CASE cache[a].retries < MaxRetries
      <4>1. cache'[a] = Retried(cache[a])
        BY <2>0, <3>1, <3>2 DEF AfterTimeout
      <4> QED BY <2>0, <4>1, RetriedWaits
    <3> QED BY <2>0, <3>2
  <2>2. ASSUME NEW b \in Addresses, Lookup(b) PROVE FALSE
    <3>1. CASE b # a
      BY <2>0, <2>2, <3>1 DEF Lookup, StartResolution
    <3>2. CASE b = a
      <4>1. cache' = [cache EXCEPT ![a] = UpdateWaitReply(@, given + 1)]
        BY <2>0, <2>2, <3>2 DEF Lookup, Is
      <4>2. UpdateWaitReply(cache[a], given + 1).state = cache[a].state
        BY <2>0 DEF UpdateWaitReply, Entries
      <4> QED BY <2>0, <4>1, <4>2
    <3> QED BY <3>1, <3>2
  <2>3. ASSUME NEW b \in Addresses, Expire(b) PROVE FALSE
    BY <2>0, <2>3 DEF Expire
  <2>4. ASSUME NEW msg \in net, ReceiveReply(msg) PROVE FALSE
    <3>1. CASE Resolve(msg.for, msg.host)
      <4>1. cache'[a] = cache[a] \/ cache'[a] = [MarkAlive(cache[a], msg.host) EXCEPT !.pending = << >>]
        BY <2>0, <3>1 DEF Resolve
      <4>2. msg \in Messages /\ msg.kind = "reply"
        BY <2>4 DEF IInv, TypeOK, ReceiveReply
      <4>3. msg.host \in Macs
        BY <4>2 DEF Messages
      <4> QED BY <2>0, <4>1, <4>3, ResolvedIsIdle
    <3>2. CASE UNCHANGED cache
      BY <2>0, <3>2
    <3> QED BY <2>4, <3>1, <3>2 DEF ReceiveReply
  <2>5. ASSUME UNCHANGED cache PROVE FALSE
    BY <2>0, <2>5
  <2>6. ASSUME NEW b \in Addresses, NEW m \in Macs,
               AddPermanent(b, m) \/ AddAddress(b, m) \/ RemoveAddress(b, m)
        PROVE  FALSE
    <3>1. ASSUME NEW state \in {"permanent", "auto"}, AddEntry(b, m, state) PROVE FALSE
      <4>1. cache'[a] = cache[a] \/ cache'[a] = MarkStatic(cache[a], m, state)
        BY <2>0, <3>1 DEF AddEntry
      <4> QED BY <2>0, <4>1, MarkStaticConsistent
    <3>2. CASE cache' = [cache EXCEPT ![b] = NoEntry]
      BY <2>0, <3>2 DEF NoEntry
    <3> QED BY <2>5, <2>6, <3>1, <3>2 DEF AddPermanent, AddAddress, RemoveAddress
  <2>7. ASSUME PopulateNeighborCache PROVE FALSE
    <3>1. \/ cache'[a] = cache[a]
          \/ \E m \in Macs : cache'[a] = MarkStatic(cache[a], m, "auto")
      BY <2>0, <2>7 DEF PopulateNeighborCache
    <3> QED BY <2>0, <3>1, MarkStaticConsistent
  <2>8. ASSUME FlushAutoGenerated \/ Flush PROVE FALSE
    BY <2>0, <2>8 DEF FlushAutoGenerated, Flush, NoEntry
  <2> QED BY <2>1, <2>2, <2>3, <2>4, <2>5, <2>6, <2>7, <2>8
          DEF Next, vars, ReceiveRequest, Lose
<1> QED BY <1>1, Invariance, PTL DEF Spec, RetriedBeforeDead
=============================================================================
