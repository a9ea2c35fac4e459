--------------------------- MODULE InternetProofs ---------------------------
(***************************************************************************)
(* Protocols of the internet module.  Icmpv6L4Protocol: the neighbour      *)
(* cache entry for every sequence of messages, timeouts and calls,         *)
(* whatever the length of the waiting list and the number of               *)
(* solicitations, and duplicate address detection for any number of hosts  *)
(* on the link, as long as a probe and its answer fit into DadTimeout.     *)
(* Rip: split horizon and poisoned reverse for any tree of routers, any    *)
(* metric of an unreachable network and any delays.                        *)
(***************************************************************************)
EXTENDS NdiscCache, DuplicateAddress, Rip, SequenceTheorems, WellFoundedInduction,
        NaturalsInduction, TLAPS

States == {"INCOMPLETE", "REACHABLE", "STALE", "DELAY", "PROBE"} \cup Static

CacheEntries ==
    [state : States,
     mac : Macs \cup {NoMac}, waiting : Seq(Nat),
     timer : {"none", "reachable", "retransmit", "delay", "probe"}, ns : Nat]

TypeOK ==
    /\ forwarding \in BOOLEAN
    /\ entry \in CacheEntries \cup {NoEntry}
    /\ given \in Nat
    /\ left \subseteq Nat
    /\ asked \in Nat

(* The timers whose functions do not count solicitations. *)
Idle == {"none", "reachable", "delay"}

MaxProbes == IF MaxUnicastSolicit = 0 THEN 1 ELSE MaxUnicastSolicit

(* While the entry solicits, its counter is the number of solicitations;   *)
(* while it resolves, a packet waits for the answer.                       *)
Soliciting(e, k) ==
    /\ e.timer = "retransmit" => e.waiting # << >> /\ e.ns = k /\ k <= MaxMulticastSolicit
    /\ e.timer = "probe" => e.ns = k /\ k \in 1 .. MaxProbes

(* Only packets that were given wait, and at a router none that has left.  *)
Unsent(e, n, gone, router) ==
    \A p \in Range(e.waiting) : p <= n /\ (router => p \notin gone)

IInv ==
    /\ TypeOK
    /\ \A p \in left : p <= given
    /\ Exists => Soliciting(entry, asked) /\ Unsent(entry, given, left, forwarding)

(* r is an entry with the packets of e that counts no solicitations, or    *)
(* goes on counting those of e.                                            *)
Kept(r, e) ==
    /\ r \in CacheEntries
    /\ r.waiting = e.waiting
    /\ r.timer \in Idle \/ (r.timer = e.timer /\ r.ns = e.ns)

-----------------------------------------------------------------------------
(* There is an entry exactly when its state is not that of NoEntry. *)
LEMMA EntryOrNone ==
    ASSUME NEW e \in CacheEntries \cup {NoEntry}
    PROVE  /\ e # NoEntry <=> e \in CacheEntries
           /\ e = NoEntry <=> e.state = "NONE"
BY DEF CacheEntries, NoEntry, States, Static

(* What the marking functions and timers of the entry leave alone. *)
LEMMA KeptByMarks ==
    ASSUME NEW e \in CacheEntries
    PROVE  /\ Kept(e, e)
           /\ \A t \in Idle : Kept(Start(e, t), e)
           /\ Kept(StopNudTimer(e), e)
           /\ \A state \in States : Kept(Mark(e, state), e)
           /\ \A m \in Macs \cup {NoMac} :
                /\ Kept(MarkReachable(e, m), e)
                /\ Kept(MarkStale(e, m), e)
                /\ Kept([e EXCEPT !.mac = m], e)
                /\ Kept(Confirmed(e, m), e) /\ Confirmed(e, m).timer = "reachable"
           /\ Kept(UpdateReachableTimer(e), e)
<1> USE DEF Kept, CacheEntries, Idle
<1>1. Kept(e, e) /\ Kept(StopNudTimer(e), e) /\ Kept(UpdateReachableTimer(e), e)
  BY DEF StopNudTimer, UpdateReachableTimer, Start
<1>2. ASSUME NEW t \in Idle PROVE Kept(Start(e, t), e)
  BY DEF Start
<1>3. ASSUME NEW state \in States PROVE Kept(Mark(e, state), e)
  BY DEF Mark
<1>4. ASSUME NEW m \in Macs \cup {NoMac}
      PROVE  /\ Kept(MarkReachable(e, m), e)
             /\ Kept(MarkStale(e, m), e)
             /\ Kept([e EXCEPT !.mac = m], e)
             /\ Kept(Confirmed(e, m), e) /\ Confirmed(e, m).timer = "reachable"
  <2> USE DEF States
  <2>1. Kept(MarkReachable(e, m), e)
    BY DEF MarkReachable
  <2>2. Kept(MarkStale(e, m), e)
    BY DEF MarkStale
  <2>3. Kept([e EXCEPT !.mac = m], e)
    OBVIOUS
  <2>4. Kept(Confirmed(e, m), e) /\ Confirmed(e, m).timer = "reachable"
    BY DEF Confirmed, Start, MarkReachable
  <2> QED BY <2>1, <2>2, <2>3, <2>4
<1> HIDE DEF Kept, CacheEntries, Idle
<1> QED BY <1>1, <1>2, <1>3, <1>4

(* Marks one after the other. *)
LEMMA KeptThen ==
    ASSUME NEW e, NEW r, Kept(r, e)
    PROVE  /\ \A t \in Idle : Kept(Start(r, t), e)
           /\ Kept(StopNudTimer(r), e)
           /\ \A state \in States : Kept(Mark(r, state), e)
           /\ \A m \in Macs \cup {NoMac} :
                /\ Kept(MarkStale(r, m), e)
                /\ Kept([r EXCEPT !.mac = m], e)
                /\ Kept(Confirmed(r, m), e) /\ Confirmed(r, m).timer = "reachable"
<1>1. r \in CacheEntries
  BY DEF Kept
<1>2. ASSUME NEW s, Kept(s, r) PROVE Kept(s, e)
  BY <1>2 DEF Kept, Idle
<1> QED BY <1>1, <1>2, KeptByMarks

(* A new entry solicits nobody. *)
LEMMA AddIsEntry ==
    ASSUME NEW m \in Macs \cup {NoMac}, NEW r,
           NEW state \in States, r = Add(state, m)
    PROVE  r \in CacheEntries /\ r.waiting = << >> /\ r.timer = "none" /\ r.ns = 0
<1>1. << >> \in Seq(Nat)
  OBVIOUS
<1> QED BY <1>1 DEF Add, CacheEntries

(* AddWaitingPacket keeps the list within the packets given, and puts the  *)
(* new one into it.                                                        *)
LEMMA AddWaitingPacketKeeps ==
    ASSUME NEW e \in CacheEntries, NEW p \in Nat, NEW r, r = AddWaitingPacket(e, p)
    PROVE  /\ r \in CacheEntries /\ r.waiting # << >>
           /\ r.timer = e.timer /\ r.ns = e.ns
           /\ Range(r.waiting) \subseteq Range(e.waiting) \cup {p}
<1> DEFINE w == e.waiting
           t == IF Len(w) >= UnresQlen THEN Tail(w) ELSE w
<1>1. w \in Seq(Nat)
  BY DEF CacheEntries
<1>2. t \in Seq(Nat) /\ Range(t) \subseteq Range(w)
  <2>1. CASE Len(w) >= UnresQlen
    <3> HIDE DEF w
    <3>1. w # << >> /\ t = Tail(w)
      BY <1>1, <2>1, NdiscAssumption
    <3>2. Tail(w) \in Seq(Nat) /\ Len(Tail(w)) = Len(w) - 1
          /\ \A i \in 1 .. Len(w) - 1 : Tail(w)[i] = w[i + 1]
      BY <1>1, <3>1
    <3>3. \A i \in 1 .. Len(w) - 1 : i + 1 \in DOMAIN w
      BY <1>1
    <3>4. Range(Tail(w)) \subseteq Range(w)
      BY <1>1, <3>2, <3>3 DEF Range
    <3> QED BY <3>1, <3>2, <3>4
  <2>2. CASE ~(Len(w) >= UnresQlen)
    BY <1>1, <2>2
  <2> QED BY <2>1, <2>2
<1>3. r = [e EXCEPT !.waiting = Append(t, p)]
  BY DEF AddWaitingPacket, CacheEntries
<1> HIDE DEF t
<1>4. /\ Append(t, p) \in Seq(Nat) /\ Append(t, p) # << >>
      /\ Range(Append(t, p)) \subseteq Range(t) \cup {p}
  <2>1. /\ Append(t, p) \in Seq(Nat) /\ Len(Append(t, p)) = Len(t) + 1
        /\ \A i \in 1 .. Len(t) : Append(t, p)[i] = t[i]
        /\ Append(t, p)[Len(t) + 1] = p
    BY <1>2
  <2>2. \A i \in 1 .. Len(t) + 1 : i \in 1 .. Len(t) \/ i = Len(t) + 1
    BY <1>2
  <2> QED BY <1>2, <2>1, <2>2 DEF Range
<1>5. r \in CacheEntries /\ r.waiting = Append(t, p) /\ r.timer = e.timer /\ r.ns = e.ns
  BY <1>3, <1>4 DEF CacheEntries
<1> QED BY <1>2, <1>4, <1>5

-----------------------------------------------------------------------------
(* The invariant holds without an entry.                                   *)
LEMMA IInvInit == Init => IInv
BY DEF Init, IInv, TypeOK, Exists

(* A step that leaves the packets where they are, or has none. *)
LEMMA UpdateStep ==
    ASSUME IInv, NEW r, Update(r), UNCHANGED <<forwarding, given, asked>>,
           \/ r = NoEntry
           \/ Exists /\ Kept(r, entry)
           \/ r \in CacheEntries /\ r.timer \in Idle /\ r.waiting = << >>
    PROVE  IInv'
<1>0. entry' = r /\ left' = left
  BY DEF Update
<1>1. CASE r = NoEntry
  BY <1>0, <1>1 DEF IInv, TypeOK, Exists
<1>2. CASE Exists /\ Kept(r, entry)
  <2>1. r \in CacheEntries /\ TypeOK'
    BY <1>0, <1>2 DEF IInv, TypeOK, Kept
  <2>2. Soliciting(r, asked)
    BY <1>2 DEF IInv, Soliciting, Kept, Idle
  <2>3. Unsent(r, given, left, forwarding)
    BY <1>2 DEF IInv, Unsent, Kept
  <2> QED BY <1>0, <2>1, <2>2, <2>3 DEF IInv
<1>3. CASE r \in CacheEntries /\ r.timer \in Idle /\ r.waiting = << >>
  <2>1. TypeOK'
    BY <1>0, <1>3 DEF IInv, TypeOK
  <2>2. Soliciting(r, asked)
    BY <1>3 DEF Soliciting, Idle
  <2>3. Range(r.waiting) = {}
    BY <1>3 DEF Range
  <2> QED BY <1>0, <2>1, <2>2, <2>3 DEF IInv, Unsent
<1> QED BY <1>1, <1>2, <1>3

(* The waiting packets leave and the list is emptied. *)
LEMMA ReleaseStep ==
    ASSUME IInv, Exists, NEW r \in CacheEntries, r.timer \in Idle, r.waiting = entry.waiting,
           Release(r), UNCHANGED <<forwarding, given, asked>>
    PROVE  IInv'
<1> DEFINE s == [r EXCEPT !.waiting = << >>]
<1>1. entry' = s /\ left' = left \cup Range(entry.waiting)
  BY DEF Release
<1>2. s \in CacheEntries /\ s.waiting = << >> /\ s.timer \in Idle
  <2>1. << >> \in Seq(Nat)
    OBVIOUS
  <2> QED BY <2>1 DEF CacheEntries
<1> HIDE DEF s
<1>3. \A p \in Range(entry.waiting) : p \in Nat /\ p <= given
  <2>1. entry.waiting \in Seq(Nat)
    BY EntryOrNone DEF IInv, TypeOK, Exists, CacheEntries
  <2> QED BY <2>1 DEF IInv, Unsent, Range
<1>4. TypeOK'
  BY <1>1, <1>2, <1>3 DEF IInv, TypeOK
<1>5. Soliciting(s, asked) /\ Range(s.waiting) = {}
  BY <1>2 DEF Soliciting, Idle, Range
<1> QED BY <1>1, <1>2, <1>3, <1>4, <1>5 DEF IInv, Unsent

(* The packets leave and stay in the list, which only a host does. *)
LEMMA KeptReleaseStep ==
    ASSUME IInv, Exists, ~forwarding, NEW r, Kept(r, entry), r.timer \in Idle,
           entry' = r, left' = left \cup Range(r.waiting), UNCHANGED <<forwarding, given, asked>>
    PROVE  IInv'
<1>1. \A p \in Range(r.waiting) : p \in Nat /\ p <= given
  <2>1. entry.waiting \in Seq(Nat) /\ r.waiting = entry.waiting
    BY EntryOrNone DEF IInv, TypeOK, Exists, CacheEntries, Kept
  <2> QED BY <2>1 DEF IInv, Unsent, Range
<1>2. TypeOK'
  BY <1>1 DEF IInv, TypeOK, Kept
<1>3. Soliciting(r, asked)
  BY DEF Soliciting, Idle
<1> QED BY <1>1, <1>2, <1>3 DEF IInv, Unsent

(* A packet to the neighbour leaves, waits, or is dropped. *)
LEMMA LookupStep ==
    ASSUME IInv, Lookup
    PROVE  IInv'
<1> DEFINE p == given + 1
<1>0. given' = p /\ given < p /\ p \in Nat /\ given \in Nat /\ UNCHANGED <<forwarding, own>>
  BY DEF Lookup, IInv, TypeOK
<1>1. ASSUME Exists, NEW r, Kept(r, entry), entry' = r, left' = left \cup {p}, UNCHANGED asked
      PROVE  IInv'
  <2>1. TypeOK'
    BY <1>0, <1>1 DEF IInv, TypeOK, Kept
  <2>2. Soliciting(r, asked)
    BY <1>1 DEF IInv, Soliciting, Kept, Idle
  <2>3. \A x \in Range(r.waiting) : x \in Nat /\ x <= given /\ (forwarding => x \notin left)
    <3>1. r.waiting \in Seq(Nat) /\ r.waiting = entry.waiting
      BY <1>1 DEF Kept, CacheEntries
    <3> QED BY <1>1, <3>1 DEF IInv, Unsent, Range
  <2>4. Unsent(r, p, left \cup {p}, forwarding)
    BY <1>0, <2>3 DEF Unsent
  <2>5. \A x \in left' : x <= p
    BY <1>0, <1>1 DEF IInv, TypeOK
  <2> QED BY <1>0, <1>1, <2>1, <2>2, <2>4, <2>5 DEF IInv
<1>2. CASE /\ entry.state \in {"REACHABLE", "DELAY"} \cup Static
           /\ left' = left \cup {p} /\ UNCHANGED <<entry, asked>>
  <2>1. Exists /\ entry \in CacheEntries
    BY <1>2, EntryOrNone DEF Exists, IInv, TypeOK, NoEntry, Static
  <2>2. Kept(entry, entry)
    BY <2>1 DEF Kept
  <2> QED BY <1>1, <1>2, <2>1, <2>2
<1>3. CASE /\ entry.state = "STALE"
           /\ entry' = Mark(Start(entry, "delay"), "DELAY")
           /\ left' = left \cup {p} /\ UNCHANGED asked
  <2>1. Exists /\ entry \in CacheEntries
    BY <1>3, EntryOrNone DEF Exists, IInv, TypeOK, NoEntry
  <2>2. Kept(Start(entry, "delay"), entry)
    BY <2>1, KeptByMarks DEF Idle
  <2>3. Kept(Mark(Start(entry, "delay"), "DELAY"), entry)
    BY <2>2, KeptThen DEF States
  <2> QED BY <1>1, <1>3, <2>1, <2>3
<1>4. CASE /\ entry.state \in {"INCOMPLETE", "PROBE"}
           /\ Update(AddWaitingPacket(entry, p)) /\ UNCHANGED asked
  <2> DEFINE r == AddWaitingPacket(entry, p)
  <2>1. Exists /\ entry \in CacheEntries
    BY <1>4, EntryOrNone DEF Exists, IInv, TypeOK, NoEntry
  <2>2. /\ r \in CacheEntries /\ r.waiting # << >>
        /\ r.timer = entry.timer /\ r.ns = entry.ns
        /\ Range(r.waiting) \subseteq Range(entry.waiting) \cup {p}
    <3> HIDE DEF p
    <3> QED BY <1>0, <2>1, AddWaitingPacketKeeps
  <2> HIDE DEF r
  <2>3. entry' = r /\ left' = left
    BY <1>4 DEF Update, r
  <2>4. TypeOK'
    BY <1>0, <1>4, <2>2, <2>3 DEF IInv, TypeOK
  <2>5. Soliciting(r, asked)
    BY <2>1, <2>2 DEF IInv, Soliciting
  <2>6. \A x \in left : x \in Nat /\ x <= given
    BY DEF IInv, TypeOK
  <2>7. \A x \in Range(entry.waiting) : x \in Nat /\ x <= given /\ (forwarding => x \notin left)
    <3>1. entry.waiting \in Seq(Nat)
      BY <2>1 DEF CacheEntries
    <3> QED BY <2>1, <3>1 DEF IInv, Unsent, Range
  <2>8. p \notin left /\ \A x \in Nat : x <= given => x <= p
    BY <1>0, <2>6
  <2>9. Unsent(r, p, left, forwarding)
    BY <1>0, <2>2, <2>7, <2>8 DEF Unsent
  <2>10. \A x \in left' : x <= p
    BY <2>3, <2>6, <2>8
  <2> QED BY <1>0, <1>4, <2>3, <2>4, <2>5, <2>9, <2>10 DEF IInv
<1>5. CASE ~Exists /\ UNCHANGED <<entry, left, asked>>
  <2>1. TypeOK' /\ ~Exists'
    BY <1>0, <1>5 DEF IInv, TypeOK, Exists
  <2>2. \A x \in left' : x <= p
    BY <1>0, <1>5 DEF IInv, TypeOK
  <2> QED BY <1>0, <2>1, <2>2 DEF IInv
<1>6. CASE /\ ~Exists
           /\ Update([Start(Add("INCOMPLETE", NoMac), "retransmit") EXCEPT !.waiting = << p >>])
           /\ asked' = 0
  <2> DEFINE n == Add("INCOMPLETE", NoMac)
             r == [Start(n, "retransmit") EXCEPT !.waiting = << p >>]
  <2>1. n \in CacheEntries /\ n.ns = 0
    BY AddIsEntry DEF States
  <2> HIDE DEF n
  <2>2. << p >> \in Seq(Nat) /\ << p >> # << >> /\ Range(<< p >>) = {p}
    BY <1>0 DEF Range
  <2>3. r \in CacheEntries /\ r.timer = "retransmit" /\ r.ns = 0 /\ r.waiting = << p >>
    BY <2>1, <2>2 DEF Start, CacheEntries, States
  <2>4. entry' = r /\ left' = left
    BY <1>6 DEF Update, n
  <2> HIDE DEF r
  <2>5. TypeOK'
    BY <1>0, <1>6, <2>3, <2>4 DEF IInv, TypeOK
  <2>6. Soliciting(r, 0)
    BY <2>2, <2>3, NdiscAssumption DEF Soliciting
  <2>7. \A x \in left : x \in Nat /\ x <= given
    BY DEF IInv, TypeOK
  <2>8. p \notin left /\ \A x \in left : x <= p
    BY <1>0, <2>7
  <2>9. Unsent(r, p, left, forwarding)
    BY <1>0, <2>2, <2>3, <2>8 DEF Unsent
  <2> QED BY <1>0, <1>6, <2>4, <2>5, <2>6, <2>8, <2>9 DEF IInv
<1> QED BY <1>2, <1>3, <1>4, <1>5, <1>6 DEF Lookup

(* Each function of the timer. *)
LEMMA TimeoutStep ==
    ASSUME IInv, Timeout
    PROVE  IInv'
<1>0. /\ Exists /\ entry \in CacheEntries /\ asked \in Nat /\ MaxMulticastSolicit \in Nat
      /\ MaxUnicastSolicit \in Nat /\ UNCHANGED <<forwarding, own, given, left>>
      /\ Soliciting(entry, asked) /\ Unsent(entry, given, left, forwarding)
  BY EntryOrNone, NdiscAssumption DEF Timeout, IInv, TypeOK, Exists
<1>1. CASE FunctionReachableTimeout
  <2>1. Kept(Start(entry, "none"), entry)
    BY <1>0, KeptByMarks DEF Idle
  <2>2. Kept(Mark(Start(entry, "none"), "STALE"), entry)
    BY <2>1, KeptThen DEF States
  <2> QED BY <1>0, <1>1, <2>2, UpdateStep DEF FunctionReachableTimeout, Update
<1>2. ASSUME RemoveEntry PROVE IInv'
  BY <1>0, <1>2, UpdateStep DEF RemoveEntry, Update
<1>3. ASSUME NEW r \in CacheEntries, entry' = r, asked' \in Nat,
             r.waiting = entry.waiting, Soliciting(r, asked')
      PROVE  IInv'
  <2>1. TypeOK'
    BY <1>0, <1>3 DEF IInv, TypeOK
  <2>2. Unsent(r, given, left, forwarding)
    BY <1>0, <1>3 DEF Unsent
  <2> QED BY <1>0, <1>3, <2>1, <2>2 DEF IInv
<1>4. ASSUME NEW t \in {"retransmit", "probe"}, entry.timer = t, Solicit(t),
             entry.ns < (IF t = "probe" THEN MaxUnicastSolicit ELSE MaxMulticastSolicit)
      PROVE  IInv'
  <2> DEFINE r == [Start(entry, t) EXCEPT !.ns = @ + 1]
  <2>1. entry.ns = asked /\ (t = "retransmit" => entry.waiting # << >>)
    BY <1>0, <1>4 DEF Soliciting
  <2>2. entry.ns + 1 \in Nat /\ asked + 1 \in Nat
    BY <1>0 DEF CacheEntries
  <2>3. /\ r \in CacheEntries /\ r.waiting = entry.waiting /\ r.timer = t
        /\ r.ns = entry.ns + 1
    BY <1>0, <2>2 DEF Start, CacheEntries
  <2>4. entry' = r /\ asked' = asked + 1
    BY <1>4 DEF Solicit
  <2> HIDE DEF r
  <2>5. Soliciting(r, asked + 1)
    BY <1>0, <1>4, <2>1, <2>3 DEF Soliciting, MaxProbes
  <2> QED BY <1>3, <2>2, <2>3, <2>4, <2>5
<1>5. CASE FunctionRetransmitTimeout
  BY <1>2, <1>4, <1>5 DEF FunctionRetransmitTimeout
<1>6. CASE FunctionProbeTimeout
  BY <1>2, <1>4, <1>6 DEF FunctionProbeTimeout
<1>7. CASE FunctionDelayTimeout
  <2> DEFINE r == [Mark(Start(entry, "probe"), "PROBE") EXCEPT !.ns = 1]
  <2>1. CASE entry' = r /\ asked' = 1
    <3>1. /\ r \in CacheEntries /\ r.waiting = entry.waiting /\ r.timer = "probe" /\ r.ns = 1
      BY <1>0 DEF Mark, Start, CacheEntries, States
    <3> HIDE DEF r
    <3>2. Soliciting(r, 1)
      BY <1>0, <3>1 DEF Soliciting, MaxProbes
    <3> QED BY <1>3, <2>1, <3>1, <3>2
  <2> QED BY <1>2, <1>7, <2>1 DEF FunctionDelayTimeout
<1> QED BY <1>1, <1>5, <1>6, <1>7 DEF Timeout

(* A neighbour advertisement. *)
LEMMA HandleNAStep ==
    ASSUME IInv, NEW m \in Macs, NEW flags, HandleNA(m, flags)
    PROVE  IInv'
<1> DEFINE e == StopNudTimer(entry)
           takes == "O" \in flags \/ m = e.mac
           confirms == "S" \in flags /\ takes
           renamed == IF takes THEN [e EXCEPT !.mac = m] ELSE e
<1>0. Exists /\ entry \in CacheEntries /\ UNCHANGED <<forwarding, own, given, asked>>
  BY EntryOrNone DEF HandleNA, IInv, TypeOK, Exists
<1>1. Kept(e, entry)
  BY <1>0, KeptByMarks
<1>2. Kept(renamed, entry) /\ Kept(MarkStale(e, m), entry) /\ Kept(Mark(e, "STALE"), entry)
  <2> HIDE DEF e
  <2> QED BY <1>1, KeptThen DEF States
<1>3. Kept(Confirmed(e, m), entry) /\ Confirmed(e, m).timer \in Idle
  BY <1>1, KeptThen DEF Idle
<1>4. \/ Release(Confirmed(e, m))
      \/ Update(MarkStale(e, m)) \/ Update(Mark(e, "STALE"))
      \/ Update(IF "S" \in flags THEN Confirmed(e, m) ELSE renamed)
      \/ Update(IF confirms THEN Confirmed(e, m) ELSE renamed)
      \/ Update(renamed)
  BY DEF HandleNA
<1> HIDE DEF e, takes, confirms, renamed
<1>5. CASE Release(Confirmed(e, m))
  BY <1>0, <1>3, <1>5, ReleaseStep DEF Kept
<1>6. ASSUME NEW r, Kept(r, entry), Update(r) PROVE IInv'
  BY <1>0, <1>6, UpdateStep
<1> QED BY <1>1, <1>2, <1>3, <1>4, <1>5, <1>6

(* Solicitations and redirections: the sender's address is learnt. *)
LEMMA LearnStep ==
    ASSUME IInv, NEW m \in Macs, LearnSource(m) \/ HandleRedirection(m)
    PROVE  IInv'
<1>0. UNCHANGED <<forwarding, own, given, asked>>
  BY DEF LearnSource, HandleRedirection
<1>1. CASE ~Exists
  <2>1. Update(Add("STALE", m))
    BY <1>1 DEF LearnSource, HandleRedirection
  <2>2. /\ Add("STALE", m) \in CacheEntries /\ Add("STALE", m).timer \in Idle
        /\ Add("STALE", m).waiting = << >>
    BY AddIsEntry DEF States, Idle
  <2> QED BY <1>0, <2>1, <2>2, UpdateStep
<1>2. CASE Exists
  <2> DEFINE e == UpdateReachableTimer(entry)
  <2>0. entry \in CacheEntries
    BY <1>2, EntryOrNone DEF IInv, TypeOK, Exists
  <2>1. Kept(e, entry) /\ Kept(MarkStale(e, m), entry)
    BY <2>0, KeptByMarks, KeptThen
  <2>2. Kept(entry, entry) /\ Kept(MarkStale(entry, m), entry)
    BY <2>0, KeptByMarks
  <2>3. Update(e) \/ Update(MarkStale(e, m)) \/ Update(entry) \/ Update(MarkStale(entry, m))
    BY <1>2 DEF LearnSource, HandleRedirection
  <2> HIDE DEF e
  <2>4. ASSUME NEW r, Kept(r, entry), Update(r) PROVE IInv'
    BY <1>0, <1>2, <2>4, UpdateStep
  <2> QED BY <2>1, <2>2, <2>3, <2>4
<1> QED BY <1>1, <1>2

(* A router advertisement, at a host. *)
LEMMA ReceiveLLAStep ==
    ASSUME IInv, NEW m \in Macs, ReceiveLLA(m)
    PROVE  IInv'
<1> DEFINE e == UpdateReachableTimer(entry)
           moved == MarkStale(e, m)
           found == Confirmed(StopNudTimer(e), m)
<1>0. ~forwarding /\ UNCHANGED <<forwarding, own, given, asked>>
  BY DEF ReceiveLLA
<1>1. CASE ~Exists
  <2> DEFINE n == Add("REACHABLE", m)
             r == Start(n, "reachable")
  <2>1. n \in CacheEntries /\ n.waiting = << >>
    BY AddIsEntry DEF States
  <2>2. Update(r)
    BY <1>1 DEF ReceiveLLA, Exists, NoEntry, Static
  <2> HIDE DEF n
  <2>3. Kept(r, n)
    BY <2>1, KeptByMarks DEF Idle
  <2>4. r \in CacheEntries /\ r.waiting = << >>
    BY <2>1, <2>3 DEF Kept
  <2>5. r.timer = "reachable"
    BY <2>1 DEF Start, CacheEntries
  <2> QED BY <1>0, <2>2, <2>4, <2>5, UpdateStep DEF Idle
<1>2. CASE Exists
  <2>0. entry \in CacheEntries
    BY <1>2, EntryOrNone DEF IInv, TypeOK, Exists
  <2>1. Kept(e, entry)
    BY <2>0, KeptByMarks
  <2>2. Kept(moved, entry) /\ Kept(StopNudTimer(e), entry)
    BY <2>1, KeptThen
  <2>3. Kept(found, entry) /\ found.timer \in Idle
    BY <2>2, KeptThen DEF Idle
  <2>4. Kept(Start(e, "reachable"), entry) /\ Kept(Start(moved, "reachable"), entry)
    BY <2>1, <2>2, KeptThen DEF Idle
  <2>5. \/ Release(found) \/ Update(moved) \/ Update(found) \/ Update(e)
        \/ Update(Start(moved, "reachable")) \/ Update(Start(e, "reachable"))
        \/ entry' = found /\ left' = left \cup Range(found.waiting)
    BY <1>2 DEF ReceiveLLA
  <2> HIDE DEF e, moved, found
  <2>6. CASE Release(found)
    BY <1>0, <1>2, <2>3, <2>6, ReleaseStep DEF Kept
  <2>7. CASE entry' = found /\ left' = left \cup Range(found.waiting)
    BY <1>0, <1>2, <2>3, <2>7, KeptReleaseStep
  <2>8. ASSUME NEW r, Kept(r, entry), Update(r) PROVE IInv'
    BY <1>0, <1>2, <2>8, UpdateStep
  <2> QED BY <2>1, <2>2, <2>3, <2>4, <2>5, <2>6, <2>7, <2>8
<1> QED BY <1>1, <1>2

(* Other packets, hints of applications, the helper and the user. *)
LEMMA OtherStep ==
    ASSUME IInv,
           \/ LookupAddress \/ ReceivePacket \/ ReachabilityHint
           \/ RemoveAutoGeneratedEntries \/ Flush \/ ChangeAddresses
           \/ \E m \in Macs, state \in Static : AddEntry(m, state)
    PROVE  IInv'
<1>0. UNCHANGED <<forwarding, given, asked>>
  BY DEF LookupAddress, ReceivePacket, ReachabilityHint, RemoveAutoGeneratedEntries, Flush,
         ChangeAddresses, AddEntry
<1>1. ASSUME Exists, NEW r, Kept(r, entry), Update(r) PROVE IInv'
  BY <1>0, <1>1, UpdateStep
<1>2. Exists => entry \in CacheEntries
  BY EntryOrNone DEF IInv, TypeOK, Exists
<1>3. CASE LookupAddress
  <2>1. Exists
    BY <1>3 DEF LookupAddress, Exists, NoEntry
  <2>2. Kept(Start(entry, "delay"), entry)
    BY <1>2, <2>1, KeptByMarks DEF Idle
  <2>3. Kept(Mark(Start(entry, "delay"), "DELAY"), entry)
    BY <2>2, KeptThen DEF States
  <2> QED BY <1>1, <1>3, <2>1, <2>3 DEF LookupAddress, Update
<1>4. CASE ReceivePacket
  BY <1>1, <1>2, <1>4, KeptByMarks DEF ReceivePacket
<1>5. CASE ReachabilityHint
  <2>1. Exists /\ entry.mac \in Macs \cup {NoMac}
    BY <1>2, <1>5 DEF ReachabilityHint, CacheEntries
  <2>2. /\ Kept(UpdateReachableTimer(entry), entry)
        /\ Kept(Confirmed(entry, entry.mac), entry) /\ Confirmed(entry, entry.mac).timer \in Idle
    BY <1>2, <2>1, KeptByMarks DEF Idle
  <2>3. CASE Release(Confirmed(entry, entry.mac))
    BY <1>0, <2>1, <2>2, <2>3, ReleaseStep DEF Kept
  <2> QED BY <1>1, <1>5, <2>1, <2>2, <2>3 DEF ReachabilityHint
<1>6. CASE RemoveAutoGeneratedEntries \/ Flush
  BY <1>0, <1>6, UpdateStep DEF RemoveAutoGeneratedEntries, Flush
<1>7. CASE ChangeAddresses
  BY <1>7 DEF ChangeAddresses, IInv, TypeOK, Exists
<1>8. ASSUME NEW m \in Macs, NEW state \in Static, AddEntry(m, state) PROVE IInv'
  <2> DEFINE n == IF Exists THEN entry ELSE Add(state, m)
             e == StopNudTimer(n)
             r == [e EXCEPT !.state = state, !.mac = m]
  <2>1. n \in CacheEntries /\ (~Exists => n.waiting = << >>)
    BY <1>2, AddIsEntry DEF States
  <2>2. Exists => n = entry
    OBVIOUS
  <2>3. Update(r)
    BY <1>8 DEF AddEntry
  <2> HIDE DEF n
  <2>4. e \in CacheEntries /\ e.waiting = n.waiting /\ e.timer = "none"
    BY <2>1 DEF StopNudTimer, CacheEntries
  <2> HIDE DEF e
  <2>5. r \in CacheEntries /\ r.waiting = n.waiting /\ r.timer = "none"
    BY <2>4 DEF CacheEntries, States
  <2> HIDE DEF r
  <2> QED BY <1>0, <2>1, <2>2, <2>3, <2>5, UpdateStep DEF Kept, Idle
<1> QED BY <1>3, <1>4, <1>5, <1>6, <1>7, <1>8

-----------------------------------------------------------------------------
(* Every step preserves the invariant. *)
LEMMA IInvNext == IInv /\ [Next]_vars => IInv'
<1> SUFFICES ASSUME IInv, [Next]_vars PROVE IInv'
  OBVIOUS
<1>1. CASE UNCHANGED vars
  BY <1>1 DEF vars, IInv, TypeOK, Exists
<1>2. ASSUME NEW m \in Macs, HandleNS(m) \/ HandleRS(m) \/ HandleRedirection(m) PROVE IInv'
  BY <1>2, LearnStep DEF HandleNS, HandleRS
<1> QED BY <1>1, <1>2, LookupStep, TimeoutStep, HandleNAStep, ReceiveLLAStep, OtherStep DEF Next

(* The invariant holds of every reachable state of the entry. *)
LEMMA Invariance == Spec => []IInv
BY IInvInit, IInvNext, PTL DEF Spec

(* When FunctionRetransmitTimeout takes the front of the waiting list,     *)
(* there is one.                                                           *)
THEOREM NdiscFrontExists == Spec => []FrontExists
<1>1. IInv => FrontExists
  BY DEF IInv, Soliciting, FrontExists
<1> QED BY <1>1, Invariance, PTL

(* At a router no packet that has left waits, so none leaves twice. *)
THEOREM NdiscWaitingHaveNotLeft == Spec => []WaitingHaveNotLeft
<1>1. IInv => WaitingHaveNotLeft
  BY DEF IInv, Unsent, WaitingHaveNotLeft
<1> QED BY <1>1, Invariance, PTL

(* A neighbour is given up only after all its solicitations.               *)
THEOREM NdiscSolicitedBeforeGivenUp == Spec => SolicitedBeforeGivenUp
<1> DEFINE A == Timeout /\ entry' = NoEntry /\ own = "matching" =>
                  asked = IF entry.timer # "probe" THEN MaxMulticastSolicit
                          ELSE IF MaxUnicastSolicit = 0 THEN 1 ELSE MaxUnicastSolicit
<1>1. IInv /\ [Next]_vars => [A]_vars
  <2> SUFFICES ASSUME IInv, Timeout, entry' = NoEntry, own = "matching"
               PROVE  asked = IF entry.timer # "probe" THEN MaxMulticastSolicit
                              ELSE IF MaxUnicastSolicit = 0 THEN 1 ELSE MaxUnicastSolicit
    OBVIOUS
  <2>0. /\ entry \in CacheEntries /\ Soliciting(entry, asked) /\ entry' \notin CacheEntries
        /\ {asked, MaxMulticastSolicit, MaxUnicastSolicit} \subseteq Nat
    BY EntryOrNone, NdiscAssumption DEF Timeout, IInv, TypeOK, Exists
  <2>1. ~FunctionReachableTimeout
    <3>1. Mark(Start(entry, "none"), "STALE") \in CacheEntries
      BY <2>0 DEF Mark, Start, CacheEntries, States
    <3> QED BY <2>0, <3>1 DEF FunctionReachableTimeout
  <2>2. ~FunctionDelayTimeout
    <3>1. [Mark(Start(entry, "probe"), "PROBE") EXCEPT !.ns = 1] \in CacheEntries
      BY <2>0 DEF Mark, Start, CacheEntries, States
    <3> QED BY <2>0, <3>1 DEF FunctionDelayTimeout
  <2>3. ASSUME NEW t \in {"retransmit", "probe"}, Solicit(t) PROVE FALSE
    <3>1. entry.ns + 1 \in Nat
      BY <2>0 DEF CacheEntries
    <3>2. [Start(entry, t) EXCEPT !.ns = @ + 1] \in CacheEntries
      BY <2>0, <3>1 DEF Start, CacheEntries
    <3> QED BY <2>0, <2>3, <3>2 DEF Solicit
  <2>4. CASE FunctionRetransmitTimeout
    BY <2>0, <2>3, <2>4 DEF FunctionRetransmitTimeout, Soliciting
  <2>5. CASE FunctionProbeTimeout
    <3>1. entry.timer = "probe" /\ ~(entry.ns < MaxUnicastSolicit)
      BY <2>3, <2>5 DEF FunctionProbeTimeout
    <3>2. entry.ns = asked /\ asked \in 1 .. MaxProbes
      BY <2>0, <3>1 DEF Soliciting
    <3> QED BY <2>0, <3>1, <3>2 DEF MaxProbes
  <2> QED BY <2>1, <2>2, <2>4, <2>5 DEF Timeout
<1> QED BY <1>1, Invariance, PTL DEF Spec, SolicitedBeforeGivenUp

-----------------------------------------------------------------------------
(***************************************************************************)
(* Duplicate address detection.                                            *)
(***************************************************************************)
(* A probe and its answer arrive before the timeout. *)
AnswerFits == 2 * MaxDelay < DadTimeout

Message == [kind : {"NS", "NA"}, from : Hosts, to : Hosts, left : Nat]

DadTypeOK ==
    /\ addr \in [Hosts -> {"absent", "tentative", "preferred", "invalid"}]
    /\ timeouts \in [Hosts -> SUBSET Nat]
    /\ net \subseteq Message
    /\ sound \subseteq Hosts

(* HandleNA looks at the address of a host that detects. *)
Looks == \A h \in sound : addr[h] = "tentative" => h \notin known

(* Detection at k has found, or will find in time, that h has the address: *)
(* k's probe is on its way to h, or an answer is on its way to k.          *)
Stopped(k, h) ==
    \/ addr[k] = "invalid"
    \/ /\ addr[k] = "tentative"
       /\ \E msg \in net :
            \/ /\ msg.kind = "NS" /\ msg.from = k /\ msg.to = h
               /\ \A t \in timeouts[k] : msg.left + MaxDelay < t
            \/ /\ msg.kind = "NA" /\ msg.to = k
               /\ \A t \in timeouts[k] : msg.left < t

(* Of two hosts that have the address, the one that added it last stops. *)
OneStops ==
    \A h, k \in sound : h # k /\ addr[h] # "absent" /\ addr[k] # "absent" =>
        Stopped(h, k) \/ Stopped(k, h)

DadIInv == DadTypeOK /\ Looks /\ OneStops

-----------------------------------------------------------------------------
(* Nothing is there at the start. *)
LEMMA DadIInvInit == DadInit => DadIInv
BY DEF DadInit, DadIInv, DadTypeOK, Looks, OneStops

(* What a multicast reaches. *)
LEMMA MulticastReaches ==
    ASSUME NEW kind \in {"NS", "NA"}, NEW h \in Hosts
    PROVE  /\ Multicast(kind, h) \subseteq Message
           /\ \A k \in Hosts \ {h} :
                \E msg \in Multicast(kind, h) :
                    msg.kind = kind /\ msg.from = h /\ msg.to = k /\ msg.left = MaxDelay
<1>1. MaxDelay \in Nat
  BY DadAssumption
<1>2. Multicast(kind, h) \subseteq Message
  BY <1>1 DEF Multicast, Message
<1>3. ASSUME NEW k \in Hosts \ {h}
      PROVE  \E msg \in Multicast(kind, h) :
                msg.kind = kind /\ msg.from = h /\ msg.to = k /\ msg.left = MaxDelay
  <2> DEFINE m == [kind |-> kind, from |-> h, to |-> k, left |-> MaxDelay]
  <2>1. m \in Multicast(kind, h)
    BY DEF Multicast
  <2> QED BY <2>1
<1> QED BY <1>2, <1>3

(* A step that takes no message away, leaves the timeouts and the state of *)
(* the address at k alone, or ends its detection, leaves it stopped.       *)
LEMMA StaysStopped ==
    ASSUME NEW h, NEW k, Stopped(k, h),
           net \subseteq net', timeouts'[k] \subseteq timeouts[k],
           addr'[k] = addr[k] \/ addr'[k] = "invalid"
    PROVE  Stopped(k, h)'
<1>1. Stopped(k, h)' <=>
        \/ addr'[k] = "invalid"
        \/ /\ addr'[k] = "tentative"
           /\ \E msg \in net' :
                \/ /\ msg.kind = "NS" /\ msg.from = k /\ msg.to = h
                   /\ \A t \in timeouts'[k] : msg.left + MaxDelay < t
                \/ /\ msg.kind = "NA" /\ msg.to = k
                   /\ \A t \in timeouts'[k] : msg.left < t
  BY DEF Stopped
<1> QED BY <1>1 DEF Stopped

(* AddAddress: the probe reaches every host that has the address already. *)
LEMMA AddAddressStep ==
    ASSUME AnswerFits, DadIInv, NEW a \in Hosts, AddAddress(a)
    PROVE  DadIInv'
<1>0. {DadTimeout, MaxDelay} \subseteq Nat
  BY DadAssumption
<1>1. /\ addr' = [addr EXCEPT ![a] = "tentative"] /\ known' = known
      /\ timeouts' = [timeouts EXCEPT ![a] = @ \cup {IF a \in noDad THEN 0 ELSE DadTimeout}]
      /\ net' = IF a \in noDad THEN net ELSE net \cup Multicast("NS", a)
      /\ sound' = IF a \in noDad \cup known \/ timeouts[a] # {}
                   THEN sound \ {a} ELSE sound \cup {a}
  BY DEF AddAddress, DoDAD
<1>2. DadTypeOK'
  BY <1>0, <1>1, MulticastReaches DEF DadIInv, DadTypeOK
<1>3. Looks'
  BY <1>1 DEF DadIInv, DadTypeOK, Looks
<1>4. ASSUME NEW h \in sound', h # a, a \in sound', addr'[h] # "absent" PROVE Stopped(a, h)'
  <2>1. a \notin noDad /\ timeouts[a] = {}
    BY <1>1, <1>4
  <2>2. timeouts'[a] = {DadTimeout} /\ addr'[a] = "tentative" /\ h \in Hosts
    BY <1>1, <1>2, <2>1 DEF DadIInv, DadTypeOK
  <2>3. PICK msg \in Multicast("NS", a) :
            msg.kind = "NS" /\ msg.from = a /\ msg.to = h /\ msg.left = MaxDelay
    BY <1>4, <2>2, MulticastReaches
  <2>4. msg \in net' /\ \A t \in timeouts'[a] : msg.left + MaxDelay < t
    BY <1>0, <1>1, <2>1, <2>2, <2>3 DEF AnswerFits
  <2> QED BY <2>2, <2>3, <2>4 DEF Stopped
<1>5. ASSUME NEW h \in sound', NEW k \in sound', h # k, h # a, k # a,
             addr'[h] # "absent", addr'[k] # "absent"
      PROVE  Stopped(h, k)' \/ Stopped(k, h)'
  <2>1. /\ h \in sound /\ k \in sound /\ h \in Hosts /\ k \in Hosts /\ net \subseteq net'
        /\ addr'[h] = addr[h] /\ addr'[k] = addr[k]
        /\ timeouts'[h] = timeouts[h] /\ timeouts'[k] = timeouts[k]
    BY <1>1, <1>5 DEF DadIInv, DadTypeOK
  <2>2. Stopped(h, k) \/ Stopped(k, h)
    BY <1>5, <2>1 DEF DadIInv, OneStops
  <2> QED BY <2>1, <2>2, StaysStopped
<1>6. OneStops'
  BY <1>4, <1>5 DEF OneStops
<1> QED BY <1>2, <1>3, <1>6 DEF DadIInv

(* RemoveAddress: the host has nothing to stop any more. *)
LEMMA RemoveAddressStep ==
    ASSUME DadIInv, NEW a \in Hosts, RemoveAddress(a)
    PROVE  DadIInv'
<1>1. addr' = [addr EXCEPT ![a] = "absent"] /\ UNCHANGED <<timeouts, net, known, sound>>
  BY DEF RemoveAddress
<1>2. DadTypeOK' /\ Looks'
  BY <1>1 DEF DadIInv, DadTypeOK, Looks
<1>3. ASSUME NEW h \in sound, NEW k \in sound, h # k, addr'[h] # "absent", addr'[k] # "absent"
      PROVE  Stopped(h, k)' \/ Stopped(k, h)'
  <2>1. addr'[h] = addr[h] /\ addr'[k] = addr[k]
    BY <1>1, <1>3 DEF DadIInv, DadTypeOK
  <2>2. Stopped(h, k) \/ Stopped(k, h)
    BY <1>3, <2>1 DEF DadIInv, OneStops
  <2> QED BY <1>1, <2>1, <2>2, StaysStopped
<1>4. OneStops'
  BY <1>1, <1>3 DEF OneStops
<1> QED BY <1>2, <1>4 DEF DadIInv

(* FunctionDadTimeout: a host that is being stopped does not time out yet, *)
(* the message that stops it being due before.                             *)
LEMMA DadTimeoutStep ==
    ASSUME DadIInv, NEW a \in Hosts, FunctionDadTimeout(a)
    PROVE  DadIInv'
<1>1. /\ 0 \in timeouts[a] /\ UNCHANGED <<net, known, sound>>
      /\ timeouts' = [timeouts EXCEPT ![a] = @ \ {0}]
      /\ addr' = [addr EXCEPT ![a] = IF @ \in {"absent", "invalid"} THEN @ ELSE "preferred"]
  BY DEF FunctionDadTimeout
<1>2. DadTypeOK' /\ Looks'
  BY <1>1 DEF DadIInv, DadTypeOK, Looks
<1>3. ASSUME NEW k \in Hosts, NEW h, Stopped(k, h) PROVE Stopped(k, h)'
  <2>1. CASE k # a
    <3>1. addr'[k] = addr[k] /\ timeouts'[k] = timeouts[k]
      BY <1>1, <2>1 DEF DadIInv, DadTypeOK
    <3> QED BY <1>1, <1>3, <3>1, StaysStopped
  <2>2. CASE k = a
    <3>1. addr[k] = "invalid"
      <4>1. \A msg \in net : ~(msg.left + MaxDelay < 0) /\ ~(msg.left < 0)
        BY DadAssumption DEF DadIInv, DadTypeOK, Message
      <4> QED BY <1>1, <1>3, <2>2, <4>1 DEF Stopped
    <3>2. addr'[k] = "invalid"
      BY <1>1, <2>2, <3>1 DEF DadIInv, DadTypeOK
    <3> QED BY <3>2 DEF Stopped
  <2> QED BY <2>1, <2>2
<1>4. ASSUME NEW h \in sound, addr'[h] # "absent" PROVE addr[h] # "absent"
  BY <1>1, <1>4 DEF DadIInv, DadTypeOK
<1>5. sound \subseteq Hosts
  BY DEF DadIInv, DadTypeOK
<1>6. OneStops'
  BY <1>1, <1>3, <1>4, <1>5 DEF DadIInv, OneStops
<1> QED BY <1>2, <1>6 DEF DadIInv

(* HandleNS: the probe that stops k is answered by h, which has the        *)
(* address.                                                                *)
LEMMA DadHandleNSStep ==
    ASSUME DadIInv, NEW msg \in net, DadHandleNS(msg)
    PROVE  DadIInv'
<1>0. MaxDelay \in Nat /\ msg \in Message /\ msg.to \in Hosts /\ msg.left \in Nat /\ msg.kind = "NS"
  BY DadAssumption DEF DadIInv, DadTypeOK, Message, DadHandleNS
<1>1. /\ net' = (net \ {msg}) \cup
                IF addr[msg.to] = "absent" THEN {} ELSE Multicast("NA", msg.to)
      /\ UNCHANGED <<addr, timeouts, known, sound>>
  BY DEF DadHandleNS
<1>2. DadTypeOK' /\ Looks'
  BY <1>0, <1>1, MulticastReaches DEF DadIInv, DadTypeOK, Looks
<1>3. ASSUME NEW k \in Hosts, NEW h \in Hosts, h # k, addr[h] # "absent", Stopped(k, h)
      PROVE  Stopped(k, h)'
  <2>1. CASE addr[k] = "invalid"
    BY <1>1, <2>1 DEF Stopped
  <2>2. CASE addr[k] # "invalid"
    <3>1. PICK m \in net :
            \/ /\ m.kind = "NS" /\ m.from = k /\ m.to = h
               /\ \A t \in timeouts[k] : m.left + MaxDelay < t
            \/ /\ m.kind = "NA" /\ m.to = k
               /\ \A t \in timeouts[k] : m.left < t
      BY <1>3, <2>2 DEF Stopped
    <3>2. addr[k] = "tentative"
      BY <1>3, <2>2 DEF Stopped
    <3>3. CASE m # msg
      <4>1. m \in net'
        BY <1>1, <3>3
      <4> QED BY <1>1, <3>1, <3>2, <4>1 DEF Stopped
    <3>4. CASE m = msg
      <4>1. msg.to = h /\ \A t \in timeouts[k] : msg.left + MaxDelay < t
        BY <1>0, <3>1, <3>4
      <4>2. \A t \in timeouts[k] : MaxDelay < t
        <5>1. timeouts[k] \subseteq Nat
          BY DEF DadIInv, DadTypeOK
        <5> QED BY <1>0, <4>1, <5>1
      <4>3. PICK n \in Multicast("NA", h) : n.kind = "NA" /\ n.to = k /\ n.left = MaxDelay
        BY <1>3, MulticastReaches
      <4>4. n \in net'
        BY <1>1, <1>3, <4>1, <4>3
      <4> QED BY <1>1, <3>2, <4>2, <4>3, <4>4 DEF Stopped
    <3> QED BY <3>3, <3>4
  <2> QED BY <2>1, <2>2
<1>4. sound \subseteq Hosts
  BY DEF DadIInv, DadTypeOK
<1>5. OneStops'
  BY <1>1, <1>3, <1>4 DEF DadIInv, OneStops
<1> QED BY <1>2, <1>5 DEF DadIInv

(* HandleNA: a host that detects looks at its own address. *)
LEMMA DadHandleNAStep ==
    ASSUME DadIInv, NEW msg \in net, DadHandleNA(msg)
    PROVE  DadIInv'
<1>1. /\ msg.kind = "NA" /\ net' = net \ {msg} /\ UNCHANGED <<timeouts, known, sound>>
      /\ addr' = IF msg.to \notin known /\ addr[msg.to] = "tentative"
                 THEN [addr EXCEPT ![msg.to] = "invalid"] ELSE addr
  BY DEF DadHandleNA
<1>2. DadTypeOK' /\ Looks'
  BY <1>1 DEF DadIInv, DadTypeOK, Looks
<1>3. \A h \in Hosts : \/ addr'[h] = addr[h]
                       \/ addr[h] = "tentative" /\ addr'[h] = "invalid"
  BY <1>1 DEF DadIInv, DadTypeOK
<1>4. ASSUME NEW k \in sound, NEW h, Stopped(k, h) PROVE Stopped(k, h)'
  <2>0. k \in Hosts
    BY DEF DadIInv, DadTypeOK
  <2>1. CASE addr'[k] = "invalid"
    BY <2>1 DEF Stopped
  <2>2. CASE addr'[k] # "invalid"
    <3>1. addr'[k] = addr[k] /\ addr[k] = "tentative"
      BY <1>3, <1>4, <2>0, <2>2 DEF Stopped
    <3>2. PICK m \in net :
            \/ /\ m.kind = "NS" /\ m.from = k /\ m.to = h
               /\ \A t \in timeouts[k] : m.left + MaxDelay < t
            \/ /\ m.kind = "NA" /\ m.to = k
               /\ \A t \in timeouts[k] : m.left < t
      BY <1>4, <3>1 DEF Stopped
    <3>3. m # msg
      <4>1. SUFFICES ASSUME m = msg PROVE FALSE
        OBVIOUS
      <4>2. msg.to = k
        BY <1>1, <3>2, <4>1
      <4>3. k \notin known
        BY <3>1 DEF DadIInv, Looks
      <4>4. addr'[k] = "invalid"
        BY <1>1, <2>0, <3>1, <4>2, <4>3 DEF DadIInv, DadTypeOK
      <4> QED BY <2>2, <4>4
    <3> QED BY <1>1, <3>1, <3>2, <3>3 DEF Stopped
  <2> QED BY <2>1, <2>2
<1>5. ASSUME NEW h \in sound, addr'[h] # "absent" PROVE addr[h] # "absent"
  BY <1>3, <1>5 DEF DadIInv, DadTypeOK
<1>6. OneStops'
  BY <1>1, <1>4, <1>5 DEF DadIInv, OneStops
<1> QED BY <1>2, <1>6 DEF DadIInv

(* The neighbour cache changes where the address is not being detected, or *)
(* at a host that is not relied on any more.                               *)
LEMMA CacheStep ==
    ASSUME DadIInv, NEW a \in Hosts, Learn(a) \/ Forget(a)
    PROVE  DadIInv'
<1>1. /\ UNCHANGED <<addr, timeouts, net>> /\ sound' \subseteq sound
      /\ \A h \in known' : h \in known \/ (h = a /\ (addr[a] = "tentative" => a \notin sound'))
  BY DEF Learn, Forget
<1>2. DadTypeOK' /\ Looks'
  BY <1>1 DEF DadIInv, DadTypeOK, Looks
<1>3. OneStops'
  BY <1>1, StaysStopped DEF DadIInv, OneStops
<1> QED BY <1>2, <1>3 DEF DadIInv

(* A tick brings messages and timeouts nearer by the same. *)
LEMMA TickStep ==
    ASSUME DadIInv, Tick
    PROVE  DadIInv'
<1>1. /\ \A msg \in net : msg.left > 0
      /\ \A h \in Hosts : 0 \notin timeouts[h]
      /\ net' = {[msg EXCEPT !.left = @ - 1] : msg \in net}
      /\ timeouts' = [h \in Hosts |-> {t - 1 : t \in timeouts[h]}]
      /\ UNCHANGED <<addr, known, sound>>
  BY DEF Tick
<1>2. ASSUME NEW msg \in net
      PROVE  /\ [msg EXCEPT !.left = @ - 1] \in net'
             /\ [msg EXCEPT !.left = @ - 1] \in Message
             /\ [msg EXCEPT !.left = @ - 1].kind = msg.kind
             /\ [msg EXCEPT !.left = @ - 1].from = msg.from
             /\ [msg EXCEPT !.left = @ - 1].to = msg.to
             /\ [msg EXCEPT !.left = @ - 1].left = msg.left - 1
             /\ msg.left \in Nat
  <2>1. msg \in Message /\ msg.left > 0
    BY <1>1 DEF DadIInv, DadTypeOK
  <2>2. [msg EXCEPT !.left = @ - 1] \in net'
    BY <1>1
  <2>3. /\ msg.left \in Nat /\ msg.left - 1 \in Nat
        /\ msg.kind \in {"NS", "NA"} /\ msg.from \in Hosts /\ msg.to \in Hosts
        /\ msg = [kind |-> msg.kind, from |-> msg.from, to |-> msg.to, left |-> msg.left]
    BY <2>1 DEF Message
  <2>4. [msg EXCEPT !.left = @ - 1] =
            [kind |-> msg.kind, from |-> msg.from, to |-> msg.to, left |-> msg.left - 1]
    BY <2>3
  <2> QED BY <2>2, <2>3, <2>4 DEF Message
<1>3. \A h \in Hosts : \A u \in timeouts'[h] : u \in Nat /\ \E t \in timeouts[h] : t \in Nat /\ u = t - 1
  <2>1. \A h \in Hosts : timeouts[h] \subseteq Nat /\ timeouts'[h] = {t - 1 : t \in timeouts[h]}
    BY <1>1 DEF DadIInv, DadTypeOK
  <2> QED BY <1>1, <2>1
<1>4. DadTypeOK'
  <2>1. timeouts' \in [Hosts -> SUBSET Nat]
    BY <1>1, <1>3
  <2>2. net' \subseteq Message
    BY <1>1, <1>2
  <2> QED BY <1>1, <2>1, <2>2 DEF DadIInv, DadTypeOK
<1>5. ASSUME NEW k \in Hosts, NEW h, Stopped(k, h) PROVE Stopped(k, h)'
  <2>1. CASE addr[k] = "invalid"
    BY <1>1, <2>1 DEF Stopped
  <2>2. CASE addr[k] # "invalid"
    <3>1. PICK m \in net :
            \/ /\ m.kind = "NS" /\ m.from = k /\ m.to = h
               /\ \A t \in timeouts[k] : m.left + MaxDelay < t
            \/ /\ m.kind = "NA" /\ m.to = k
               /\ \A t \in timeouts[k] : m.left < t
      BY <1>5, <2>2 DEF Stopped
    <3>2. addr'[k] = "tentative"
      BY <1>1, <1>5, <2>2 DEF Stopped
    <3> DEFINE n == [m EXCEPT !.left = @ - 1]
    <3>3. /\ n \in net' /\ n.kind = m.kind /\ n.from = m.from /\ n.to = m.to
          /\ n.left = m.left - 1 /\ m.left \in Nat
      BY <1>2
    <3> HIDE DEF n
    <3>4. MaxDelay \in Nat
      BY DadAssumption
    <3>5. CASE m.kind = "NS"
      <4>1. \A u \in timeouts'[k] : n.left + MaxDelay < u
        BY <1>3, <3>1, <3>3, <3>4, <3>5
      <4> QED BY <3>1, <3>2, <3>3, <3>5, <4>1 DEF Stopped
    <3>6. CASE m.kind = "NA"
      <4>1. \A u \in timeouts'[k] : n.left < u
        BY <1>3, <3>1, <3>3, <3>6
      <4> QED BY <3>1, <3>2, <3>3, <3>6, <4>1 DEF Stopped
    <3> QED BY <3>1, <3>5, <3>6
  <2> QED BY <2>1, <2>2
<1>6. sound \subseteq Hosts
  BY DEF DadIInv, DadTypeOK
<1>7. OneStops'
  BY <1>1, <1>5, <1>6 DEF DadIInv, OneStops
<1> QED BY <1>1, <1>4, <1>7 DEF DadIInv, Looks

(* Every step keeps the invariant. *)
LEMMA DadIInvNext ==
    ASSUME AnswerFits, DadIInv, [DadNext]_dadVars
    PROVE  DadIInv'
<1>1. ASSUME UNCHANGED dadVars PROVE DadIInv'
  <2>1. UNCHANGED <<addr, timeouts, net, known, sound>>
    BY <1>1 DEF dadVars
  <2>2. OneStops'
    BY <2>1, StaysStopped DEF DadIInv, OneStops
  <2> QED BY <2>1, <2>2 DEF DadIInv, DadTypeOK, Looks
<1> QED BY <1>1, AddAddressStep, RemoveAddressStep, DadTimeoutStep, DadHandleNSStep, DadHandleNAStep,
           CacheStep, TickStep DEF DadNext

-----------------------------------------------------------------------------
(* Two hosts that do detection never both use the address, however many    *)
(* hosts there are and however often they add and remove it, as long as    *)
(* twice the largest delay of a message is below m_dadTimeout.             *)
THEOREM DadUnique == AnswerFits => (DadSpec => []Unique)
<1> SUFFICES ASSUME AnswerFits PROVE DadSpec => []Unique
  OBVIOUS
<1>1. DadIInv /\ [DadNext]_dadVars => DadIInv'
  BY DadIInvNext
<1>2. DadIInv => Unique
  BY DEF DadIInv, OneStops, Stopped, Unique
<1> QED BY DadIInvInit, <1>1, <1>2, PTL DEF DadSpec

-----------------------------------------------------------------------------
(***************************************************************************)
(* Rip: routes, and what the messages under way announce.                  *)
(***************************************************************************)
Gateways == Routers \cup {Net}

Route == [gw : Gateways, metric : Nat, valid : BOOLEAN, changed : BOOLEAN,
          event : {"none", "invalidate", "delete"}, left : Nat]

(* Routes that say nothing, or lead to g. *)
LeadTo(g) == {route \in Route : route.metric < LinkDown => route.gw = g}

(* What r may announce to n: nothing, if n is where r's routes lead. *)
MayAnnounce(toward, r, n) == {e \in Nat : toward[r] = n => e >= LinkDown}

Messages(E) == [command : {"REQUEST"}] \cup [command : {"RESPONSE"}, entries : Seq(E)]

(* All routes lead to Net, and nothing is announced in that direction. *)
Follow(toward) ==
    \A r \in Routers :
        /\ routes[r] \in Seq(LeadTo(toward[r]))
        /\ \A n \in Neighbours(r) : chan[r][n] \in Seq(Messages(MayAnnounce(toward, r, n)))

Shape ==
    /\ network \in Networks
    /\ DOMAIN routes = Routers /\ DOMAIN chan = Routers
    /\ \A r \in Routers : DOMAIN chan[r] = Neighbours(r)

RipIInv ==
    /\ Shape
    /\ network.strategy # "NO_SPLIT_HORIZON" =>
        \A toward \in [Routers -> Gateways] : IsTree(toward) => Follow(toward)

-----------------------------------------------------------------------------
(* A set of naturals that is not empty has a smallest element. *)
LEMMA SmallestOf ==
    ASSUME NEW A \in SUBSET Nat, A # {}
    PROVE  \E m \in A : \A x \in A : m <= x
<1>1. PICK m \in A : \A x \in A : <<x, m>> \notin OpToRel(<, Nat)
  BY WFMin, NatLessThanWellFounded
<1>2. \A x \in A : ~(x < m)
  BY <1>1 DEF OpToRel
<1> QED BY <1>2

(* FlattenSeq, which puts the entries of a message together, returns a     *)
(* sequence.                                                               *)
LEMMA FlattenIsSeq ==
    ASSUME NEW S, NEW ss \in Seq(Seq(S))
    PROVE  FlattenSeq(ss) \in Seq(S)
<1> DEFINE N == Len(ss)
           Is(f, n) == f = [i \in 1 .. n |-> IF i = 1 THEN ss[i] ELSE f[i - 1] \o ss[i]]
<1>0. N \in Nat /\ \A i \in 1 .. N : ss[i] \in Seq(S)
  OBVIOUS
<1>1. CASE N = 0
  <2>1. ss = << >>
    BY <1>1
  <2> QED BY <1>1, <2>1 DEF FlattenSeq
<1>2. CASE N # 0
  <2> HIDE DEF N
  <2>1. \E f : Is(f, N)
    <3> DEFINE A == {n \in Nat : n <= N /\ ~\E f : Is(f, n)}
    <3> HIDE DEF Is
    <3>1. SUFFICES ASSUME A # {} PROVE FALSE
      <4>1. N \in Nat /\ N <= N
        BY <1>0
      <4> QED BY <4>1
    <3>2. PICK m \in A : \A x \in A : m <= x
      BY <3>1, SmallestOf
    <3>3. m # 0
      <4>1. Is(<< >>, 0)
        BY DEF Is
      <4> QED BY <3>2, <4>1
    <3>4. m - 1 \in Nat /\ m - 1 <= N /\ m - 1 \notin A
      BY <3>2, <3>3, <1>0
    <3>5. PICK f : Is(f, m - 1)
      BY <3>4
    <3> DEFINE g == [i \in 1 .. m |-> IF i = m THEN (IF m = 1 THEN ss[m] ELSE f[m - 1] \o ss[m]) ELSE f[i]]
    <3>6. ASSUME NEW i \in 1 .. m
          PROVE  g[i] = IF i = 1 THEN ss[i] ELSE g[i - 1] \o ss[i]
      <4>1. CASE i = m
        BY <3>2, <3>3, <4>1
      <4>2. CASE i # m
        <5>0. i \in 1 .. m - 1
          BY <3>2, <4>2
        <5>1. f[i] = IF i = 1 THEN ss[i] ELSE f[i - 1] \o ss[i]
          BY <3>5, <5>0 DEF Is
        <5>2. i # 1 => g[i - 1] = f[i - 1]
          BY <3>2, <4>2
        <5> QED BY <4>2, <5>1, <5>2
      <4> QED BY <4>1, <4>2
    <3>7. Is(g, m)
      <4> DEFINE h == [i \in 1 .. m |-> IF i = 1 THEN ss[i] ELSE g[i - 1] \o ss[i]]
      <4>1. \A i \in 1 .. m : g[i] = h[i]
        BY <3>6
      <4> QED BY <4>1 DEF Is
    <3> QED BY <3>2, <3>7
  <2> DEFINE fl[i \in 1 .. Len(ss)] == IF i = 1 THEN ss[i] ELSE fl[i - 1] \o ss[i]
  <2>2. FlattenSeq(ss) = fl[Len(ss)]
    BY <1>2 DEF FlattenSeq, N
  <2>3. Is(fl, N)
    BY <2>1 DEF N
  <2> HIDE DEF fl
  <2>4. ASSUME NEW i \in 1 .. N PROVE fl[i] = IF i = 1 THEN ss[i] ELSE fl[i - 1] \o ss[i]
    BY <2>3
  <2>5. \A i \in 1 .. N : fl[i] \in Seq(S)
    <3> DEFINE A == {n \in 1 .. N : fl[n] \notin Seq(S)}
    <3>1. SUFFICES ASSUME A # {} PROVE FALSE
      OBVIOUS
    <3>2. PICK m \in A : \A x \in A : m <= x
      <4>1. A \in SUBSET Nat
        BY <1>0
      <4> HIDE DEF A
      <4> QED BY <3>1, <4>1, SmallestOf
    <3>3. CASE m = 1
      BY <1>0, <2>4, <3>2, <3>3
    <3>4. CASE m # 1
      <4>1. m \in 1 .. N /\ m - 1 \in 1 .. N /\ m - 1 \notin A
        BY <1>0, <3>2, <3>4
      <4>2. fl[m] = fl[m - 1] \o ss[m]
        BY <2>4, <3>4, <4>1
      <4>3. fl[m - 1] \in Seq(S) /\ ss[m] \in Seq(S)
        BY <1>0, <4>1
      <4>4. fl[m - 1] \o ss[m] \in Seq(S)
        BY <4>3, ConcatProperties
      <4> QED BY <3>2, <4>2, <4>4
    <3> QED BY <3>3, <3>4
  <2> QED BY <1>0, <1>2, <2>2, <2>5 DEF N
<1> QED BY <1>1, <1>2

-----------------------------------------------------------------------------

(* A sequence is a function on an interval. *)
LEMMA SeqByElements ==
    ASSUME NEW T, NEW m \in Nat, NEW s, s = [k \in 1 .. m |-> s[k]],
           \A k \in 1 .. m : s[k] \in T
    PROVE  s \in Seq(T)
<1>1. s \in [1 .. m -> T]
  OBVIOUS
<1> QED BY <1>1, SeqDef

-----------------------------------------------------------------------------
(* A route that is invalidated leads nowhere. *)
LEMMA InvalidatedLeads ==
    ASSUME NEW g, NEW route \in Route
    PROVE  InvalidateRoute(route) \in LeadTo(g)
<1>0. {LinkDown, GarbageCollectionDelay} \subseteq Nat
  BY RipAssumption
<1>1. ASSUME NEW x, x = [route EXCEPT !.valid = FALSE, !.metric = LinkDown, !.changed = TRUE,
                                     !.event = "delete", !.left = GarbageCollectionDelay]
      PROVE  x \in Route /\ x.metric = LinkDown
  BY <1>0, <1>1 DEF Route
<1>2. InvalidateRoute(route) \in Route /\ InvalidateRoute(route).metric = LinkDown
  BY <1>1 DEF InvalidateRoute
<1> QED BY <1>0, <1>2 DEF LeadTo

(* What an entry makes of a route: it leads the same way, if the entry     *)
(* comes from there or says that the network is unreachable.               *)
LEMMA UpdatedLeads ==
    ASSUME NEW g \in Gateways, NEW route \in LeadTo(g), NEW n \in Routers, NEW metric \in Nat,
           n = g \/ metric >= LinkDown
    PROVE  Updated(route, n, metric) \in LeadTo(g)
<1>0. {LinkDown, TimeoutDelay, GarbageCollectionDelay} \subseteq Nat
  BY RipAssumption
<1>1. route \in Route /\ route.metric \in Nat /\ (route.metric < LinkDown => route.gw = g)
  BY DEF LeadTo, Route
<1>2. Learnt(n, metric) \in LeadTo(g)
  BY <1>0 DEF Learnt, LeadTo, Route, Gateways
<1>3. Refreshed(route) \in LeadTo(g)
  BY <1>0, <1>1 DEF Refreshed, LeadTo, Route
<1>4. InvalidateRoute(route) \in LeadTo(g)
  BY <1>1, InvalidatedLeads
<1> HIDE DEF LeadTo
<1>5. Updated(route, n, metric) \in {Learnt(n, metric), Refreshed(route), InvalidateRoute(route), route}
  BY DEF Updated
<1> QED BY <1>2, <1>3, <1>4, <1>5

(* One entry of a response. *)
LEMMA HandleEntryLeads ==
    ASSUME NEW g \in Gateways, NEW table \in Seq(LeadTo(g)), NEW n \in Routers, NEW metric \in Nat,
           n = g \/ metric = LinkDown
    PROVE  HandleEntry(table, n, metric) \in Seq(LeadTo(g))
<1>0. {LinkDown, TimeoutDelay} \subseteq Nat
  BY RipAssumption
<1>1. CASE table # << >>
  <2> DEFINE s == [k \in DOMAIN table |-> Updated(table[k], n, metric)]
  <2>1. DOMAIN table = 1 .. Len(table) /\ Len(table) \in Nat
    OBVIOUS
  <2>2. \A k \in 1 .. Len(table) : table[k] \in LeadTo(g)
    OBVIOUS
  <2>3. \A k \in 1 .. Len(table) : Updated(table[k], n, metric) \in LeadTo(g)
    BY <1>0, <2>2, UpdatedLeads
  <2>4. s \in [1 .. Len(table) -> LeadTo(g)]
    BY <2>1, <2>3
  <2>5. s \in Seq(LeadTo(g))
    BY <2>1, <2>4, SeqDef
  <2> QED BY <1>1, <2>5 DEF HandleEntry
<1>2. CASE table = << >> /\ metric = LinkDown
  BY <1>2 DEF HandleEntry
<1>3. CASE table = << >> /\ metric # LinkDown
  <2>1. Learnt(n, metric) \in LeadTo(g)
    BY <1>0, <1>3 DEF Learnt, LeadTo, Route, Gateways
  <2>2. HandleEntry(table, n, metric) = << Learnt(n, metric) >>
    BY <1>3 DEF HandleEntry
  <2> QED BY <2>1, <2>2
<1> QED BY <1>1, <1>2, <1>3

(* All entries of a response, one after the other. *)
LEMMA HandleEntriesLead ==
    ASSUME NEW g \in Gateways, NEW table \in Seq(LeadTo(g)), NEW n \in Routers,
           NEW entries \in Seq(Nat),
           n = g \/ \A k \in 1 .. Len(entries) : entries[k] >= LinkDown
    PROVE  HandleEntries(table, n, entries) \in Seq(LeadTo(g))
<1> DEFINE N == Len(entries)
           Is(f, m) == f = [k \in 0 .. m |->
                IF k = 0 THEN table ELSE HandleEntry(f[k - 1], n, Cost(entries[k]))]
<1>0. N \in Nat /\ LinkDown \in Nat
  BY RipAssumption
<1>1. \A k \in 1 .. N : /\ Cost(entries[k]) \in Nat
                        /\ n = g \/ Cost(entries[k]) = LinkDown
  <2>1. SUFFICES ASSUME NEW k \in 1 .. N
                 PROVE  Cost(entries[k]) \in Nat /\ (n = g \/ Cost(entries[k]) = LinkDown)
    OBVIOUS
  <2>2. entries[k] \in Nat /\ (n = g \/ entries[k] >= LinkDown)
    BY <1>0
  <2> QED BY <1>0, <2>2 DEF Cost
<1> HIDE DEF N
<1>2. \E f : Is(f, N)
  <2> DEFINE A == {m \in Nat : m <= N /\ ~\E f : Is(f, m)}
  <2> HIDE DEF Is
  <2>1. SUFFICES ASSUME A # {} PROVE FALSE
    <3>1. N \in Nat /\ N <= N
      BY <1>0
    <3> QED BY <3>1
  <2>2. PICK m \in A : \A x \in A : m <= x
    BY <2>1, SmallestOf
  <2>3. m # 0
    <3>1. Is([k \in 0 .. 0 |-> table], 0)
      BY DEF Is
    <3> QED BY <2>2, <3>1
  <2>4. m - 1 \in Nat /\ m - 1 <= N /\ m - 1 \notin A
    <3>1. m \in Nat /\ m <= N /\ N \in Nat
      BY <1>0, <2>2
    <3>2. m - 1 \in Nat /\ m - 1 <= N /\ ~(m <= m - 1)
      BY <2>3, <3>1
    <3> HIDE DEF A
    <3> QED BY <2>2, <3>2
  <2>5. PICK f : Is(f, m - 1)
    BY <2>4
  <2> DEFINE h == [k \in 0 .. m |->
                    IF k = m THEN HandleEntry(f[m - 1], n, Cost(entries[m])) ELSE f[k]]
  <2>6. ASSUME NEW k \in 0 .. m
        PROVE  h[k] = IF k = 0 THEN table ELSE HandleEntry(h[k - 1], n, Cost(entries[k]))
    <3>1. CASE k = m
      <4>1. h[m] = HandleEntry(f[m - 1], n, Cost(entries[m])) /\ h[m - 1] = f[m - 1]
        BY <2>2, <2>3
      <4> QED BY <2>3, <3>1, <4>1
    <3>2. CASE k # m
      <4>0. k \in 0 .. m - 1
        BY <2>2, <3>2
      <4>1. f[k] = IF k = 0 THEN table ELSE HandleEntry(f[k - 1], n, Cost(entries[k]))
        BY <2>5, <4>0 DEF Is
      <4>2. k # 0 => h[k - 1] = f[k - 1]
        BY <2>2, <3>2
      <4>3. h[k] = f[k]
        BY <3>2
      <4> QED BY <4>1, <4>2, <4>3
    <3> QED BY <3>1, <3>2
  <2>7. Is(h, m)
    <3> DEFINE i == [k \in 0 .. m |->
                        IF k = 0 THEN table ELSE HandleEntry(h[k - 1], n, Cost(entries[k]))]
    <3>1. \A k \in 0 .. m : h[k] = i[k]
      BY <2>6
    <3>2. h = i
      BY <3>1
    <3> QED BY <3>2 DEF Is
  <2> QED BY <2>2, <2>7
<1> DEFINE after[k \in 0 .. Len(entries)] ==
            IF k = 0 THEN table ELSE HandleEntry(after[k - 1], n, Cost(entries[k]))
<1>3. HandleEntries(table, n, entries) = after[Len(entries)]
  BY DEF HandleEntries, Tables
<1>4. Is(after, N)
  BY <1>2 DEF N
<1> HIDE DEF after
<1>5. ASSUME NEW k \in 0 .. N
      PROVE  after[k] = IF k = 0 THEN table ELSE HandleEntry(after[k - 1], n, Cost(entries[k]))
  BY <1>4
<1>6. \A k \in 0 .. N : after[k] \in Seq(LeadTo(g))
  <2> DEFINE A == {m \in 0 .. N : after[m] \notin Seq(LeadTo(g))}
  <2>1. SUFFICES ASSUME A # {} PROVE FALSE
    OBVIOUS
  <2>2. PICK m \in A : \A x \in A : m <= x
    <3>1. A \in SUBSET Nat
      BY <1>0
    <3> HIDE DEF A
    <3> QED BY <2>1, <3>1, SmallestOf
  <2>3. m # 0
    BY <1>0, <1>5, <2>2
  <2>4. m \in 1 .. N /\ m - 1 \in 0 .. N /\ m - 1 \notin A
    BY <1>0, <2>2, <2>3
  <2>5. after[m] = HandleEntry(after[m - 1], n, Cost(entries[m]))
    BY <1>5, <2>2, <2>3
  <2>6. after[m - 1] \in Seq(LeadTo(g))
    BY <2>4
  <2>7. after[m] \in Seq(LeadTo(g))
    BY <1>1, <2>4, <2>5, <2>6, HandleEntryLeads
  <2> QED BY <2>2, <2>7
<1>7. N \in 0 .. N
  BY <1>0
<1> QED BY <1>3, <1>6, <1>7 DEF N

(* erase of a route. *)
LEMMA RemoveAtLeads ==
    ASSUME NEW T, NEW s \in Seq(T), NEW k \in DOMAIN s
    PROVE  RemoveAt(s, k) \in Seq(T)
<1>0. Len(s) \in Nat /\ DOMAIN s = 1 .. Len(s) /\ k \in 1 .. Len(s)
  OBVIOUS
<1>1. SubSeq(s, 1, k - 1) \in Seq(T) /\ SubSeq(s, k + 1, Len(s)) \in Seq(T)
  BY <1>0
<1> QED BY <1>1, ConcatProperties DEF RemoveAt

-----------------------------------------------------------------------------
(* Split horizon: what DoSendRouteUpdate and HandleRequests write into a   *)
(* message.                                                                *)
LEMMA EntriesMayBeAnnounced ==
    ASSUME NEW toward, NEW r \in Routers, NEW n \in Routers,
           network.strategy \in {"SPLIT_HORIZON", "POISON_REVERSE"},
           NEW table \in Seq(LeadTo(toward[r])), NEW included
    PROVE  Entries(table, included, n) \in Seq(MayAnnounce(toward, r, n))
<1> DEFINE E == MayAnnounce(toward, r, n)
           ss == [k \in DOMAIN table |->
                    IF k \in included /\ ~(network.strategy = "SPLIT_HORIZON" /\ table[k].gw = n)
                    THEN << Entry(table[k], n) >> ELSE << >>]
<1>0. LinkDown \in Nat /\ DOMAIN table = 1 .. Len(table) /\ Len(table) \in Nat
  BY RipAssumption
<1>1. ASSUME NEW k \in DOMAIN table, ~(network.strategy = "SPLIT_HORIZON" /\ table[k].gw = n)
      PROVE  Entry(table[k], n) \in E
  <2>1. table[k] \in LeadTo(toward[r])
    BY <1>0
  <2>2. table[k].metric \in Nat /\ (table[k].metric < LinkDown => table[k].gw = toward[r])
    BY <2>1 DEF LeadTo, Route
  <2> QED BY <1>0, <1>1, <2>2 DEF Entry, MayAnnounce
<1> HIDE DEF E
<1>2. \A k \in DOMAIN table : ss[k] \in Seq(E)
  BY <1>1
<1>3. ss \in [1 .. Len(table) -> Seq(E)]
  BY <1>0, <1>2
<1>4. ss \in Seq(Seq(E))
  BY <1>0, <1>3, SeqDef
<1> HIDE DEF ss
<1>5. FlattenSeq(ss) \in Seq(E)
  BY <1>4, FlattenIsSeq
<1> QED BY <1>5 DEF Entries, ss, E

(* A response is a message, or none. *)
LEMMA ResponseIsMessage ==
    ASSUME NEW E, NEW es \in Seq(E)
    PROVE  Response(es) \in Seq(Messages(E)) /\ Request \in Seq(Messages(E))
<1>1. [command |-> "RESPONSE", entries |-> es] \in Messages(E)
  BY DEF Messages
<1>2. [command |-> "REQUEST"] \in Messages(E)
  BY DEF Messages
<1> HIDE DEF Messages
<1> QED BY <1>1, <1>2 DEF Response, Request

(* The two ends of a link. *)
LEMMA NeighboursAreMutual ==
    ASSUME NEW r \in Routers, NEW n \in Neighbours(r)
    PROVE  n \in Routers /\ n # r /\ r \in Neighbours(n)
<1>1. n \in Routers /\ n # r /\ {r, n} \in network.links
  BY DEF Neighbours
<1>2. {r, n} = {n, r}
  OBVIOUS
<1> QED BY <1>1, <1>2 DEF Neighbours

(* A network does not change, nor does who talks to whom. *)
LEMMA ShapeNext ==
    ASSUME Shape, [RipNext]_ripVars
    PROVE  Shape' /\ network' = network
<1>0. ASSUME network' = network, DOMAIN routes' = Routers, DOMAIN chan' = Routers,
             \A r \in Routers : DOMAIN chan'[r] = Neighbours(r)
      PROVE  Shape'
  BY <1>0 DEF Shape, Neighbours
<1>1. ASSUME NEW r \in Routers, NEW messages, SendToAll(r, messages)
      PROVE  DOMAIN chan' = Routers /\ \A q \in Routers : DOMAIN chan'[q] = Neighbours(q)
  BY <1>1 DEF Shape, SendToAll
<1>2. ASSUME NEW r \in Routers, RunTriggered(r) PROVE Shape' /\ network' = network
  BY <1>0, <1>1, <1>2 DEF RunTriggered, DoSendRouteUpdate, Shape
<1>3. ASSUME NEW r \in Routers, SendUnsolicitedRouteUpdate(r) PROVE Shape' /\ network' = network
  BY <1>0, <1>1, <1>3 DEF SendUnsolicitedRouteUpdate, DoSendRouteUpdate, Shape
<1>4. ASSUME NEW r \in Routers, NEW k \in DOMAIN routes[r], Expire(r, k)
      PROVE  Shape' /\ network' = network
  BY <1>0, <1>4 DEF Expire, Shape
<1>5. ASSUME NEW r \in Routers, NEW n \in Neighbours(r), ReceiveResponse(r, n)
      PROVE  Shape' /\ network' = network
  BY <1>0, <1>5 DEF ReceiveResponse, Shape
<1>6. ASSUME NEW r \in Routers, NEW n \in Neighbours(r), ReceiveRequest(r, n)
      PROVE  Shape' /\ network' = network
  BY <1>0, <1>6 DEF ReceiveRequest, Shape
<1>7. ASSUME NEW r \in Routers, NEW n \in Neighbours(r), Drop(r, n)
      PROVE  Shape' /\ network' = network
  BY <1>0, <1>7 DEF Drop, Shape
<1>8. ASSUME NEW r \in Routers, NEW i \in Interfaces(r), NotifyInterfaceDown(r, i) \/ NotifyInterfaceUp(r, i)
      PROVE  Shape' /\ network' = network
  BY <1>0, <1>8 DEF NotifyInterfaceDown, NotifyInterfaceUp, Shape
<1>9. ASSUME Round PROVE Shape' /\ network' = network
  BY <1>0, <1>9 DEF Round, Shape
<1>10. ASSUME UNCHANGED ripVars PROVE Shape' /\ network' = network
  BY <1>0, <1>10 DEF ripVars, Shape
<1> QED BY <1>2, <1>3, <1>4, <1>5, <1>6, <1>7, <1>8, <1>9, <1>10 DEF RipNext, RouterStep

-----------------------------------------------------------------------------
(* What is to be shown of a step. *)
LEMMA StillFollow ==
    ASSUME NEW toward, network' = network,
           \A q \in Routers : routes'[q] \in Seq(LeadTo(toward[q])),
           \A q \in Routers : \A m \in Neighbours(q) :
                chan'[q][m] \in Seq(Messages(MayAnnounce(toward, q, m)))
    PROVE  Follow(toward)'
BY DEF Follow, Neighbours

(* The routes of one router change. *)
LEMMA TableStep ==
    ASSUME NEW toward \in [Routers -> Gateways], Shape, Follow(toward), network' = network,
           NEW r \in Routers, NEW table \in Seq(LeadTo(toward[r])),
           routes' = [routes EXCEPT ![r] = table], chan' = chan
    PROVE  Follow(toward)'
<1>1. \A q \in Routers : routes'[q] \in Seq(LeadTo(toward[q]))
  BY DEF Follow, Shape
<1>2. \A q \in Routers : \A m \in Neighbours(q) :
            chan'[q][m] \in Seq(Messages(MayAnnounce(toward, q, m)))
  BY DEF Follow
<1> QED BY <1>1, <1>2, StillFollow

(* The table with every route changed in a way that leads the same way. *)
LEMMA MappedTable ==
    ASSUME NEW T, NEW table \in Seq(T), NEW new, DOMAIN new = DOMAIN table,
           new = [k \in DOMAIN table |-> new[k]],
           \A k \in DOMAIN table : table[k] \in T => new[k] \in T
    PROVE  new \in Seq(T)
<1>1. DOMAIN table = 1 .. Len(table) /\ Len(table) \in Nat /\ \A k \in DOMAIN table : table[k] \in T
  OBVIOUS
<1> QED BY <1>1, SeqByElements

(* An update for all neighbours. *)
LEMMA RouteUpdateStep ==
    ASSUME NEW toward \in [Routers -> Gateways], IsTree(toward), Shape, Follow(toward),
           network.strategy # "NO_SPLIT_HORIZON", network' = network,
           NEW r \in Routers, NEW periodic, DoSendRouteUpdate(r, periodic)
    PROVE  Follow(toward)'
<1> DEFINE included == {k \in DOMAIN routes[r] : periodic \/ routes[r][k].changed}
           new == [k \in DOMAIN routes[r] |-> [routes[r][k] EXCEPT !.changed = FALSE]]
<1>0. /\ chan' = [chan EXCEPT ![r] = [n \in Neighbours(r) |->
                    IF n \in ifs[r] THEN Response(Entries(routes[r], included, n)) ELSE << >>]]
      /\ routes' = [routes EXCEPT ![r] = new]
  BY DEF DoSendRouteUpdate, SendToAll
<1>1. network.strategy \in {"SPLIT_HORIZON", "POISON_REVERSE"}
  BY RipAssumption DEF Shape, Strategies
<1>2. routes[r] \in Seq(LeadTo(toward[r]))
  BY DEF Follow
<1> HIDE DEF included
<1>3. ASSUME NEW n \in Neighbours(r)
      PROVE  Response(Entries(routes[r], included, n)) \in Seq(Messages(MayAnnounce(toward, r, n)))
  <2>1. n \in Routers
    BY DEF Neighbours
  <2> QED BY <1>1, <1>2, <2>1, EntriesMayBeAnnounced, ResponseIsMessage
<1>4. new \in Seq(LeadTo(toward[r]))
  <2>1. ASSUME NEW k \in DOMAIN routes[r], routes[r][k] \in LeadTo(toward[r])
        PROVE  new[k] \in LeadTo(toward[r])
    BY <2>1 DEF LeadTo, Route
  <2> QED BY <1>2, <2>1, MappedTable
<1> HIDE DEF new
<1>5. \A q \in Routers : routes'[q] \in Seq(LeadTo(toward[q]))
  BY <1>0, <1>4 DEF Follow, Shape
<1>6. \A q \in Routers : \A m \in Neighbours(q) :
            chan'[q][m] \in Seq(Messages(MayAnnounce(toward, q, m)))
  BY <1>0, <1>3 DEF Follow, Shape
<1> QED BY <1>5, <1>6, StillFollow

(* A request to all neighbours. *)
LEMMA RequestStep ==
    ASSUME NEW toward \in [Routers -> Gateways], IsTree(toward), Shape, Follow(toward),
           network.strategy # "NO_SPLIT_HORIZON", network' = network,
           NEW r \in Routers, SendToAll(r, [n \in Neighbours(r) |-> Request]), routes' = routes
    PROVE  Follow(toward)'
<1>1. chan' = [chan EXCEPT ![r] =
                [n \in Neighbours(r) |-> IF n \in ifs[r] THEN Request ELSE << >>]]
  BY DEF SendToAll
<1>2. \A n \in Neighbours(r) : Request \in Seq(Messages(MayAnnounce(toward, r, n)))
  <2>1. \A n : << >> \in Seq(MayAnnounce(toward, r, n))
    OBVIOUS
  <2> QED BY <2>1, ResponseIsMessage
<1>3. \A q \in Routers : \A m \in Neighbours(q) :
            chan'[q][m] \in Seq(Messages(MayAnnounce(toward, q, m)))
  BY <1>1, <1>2 DEF Follow, Shape
<1>4. \A q \in Routers : routes'[q] \in Seq(LeadTo(toward[q]))
  BY DEF Follow
<1> QED BY <1>3, <1>4, StillFollow

(* A response is taken in. *)
LEMMA ReceiveResponseStep ==
    ASSUME NEW toward \in [Routers -> Gateways], IsTree(toward), Shape, Follow(toward),
           network.strategy # "NO_SPLIT_HORIZON", network' = network,
           NEW r \in Routers, NEW n \in Neighbours(r), ReceiveResponse(r, n)
    PROVE  Follow(toward)'
<1> DEFINE msg == Head(chan[n][r])
           E == MayAnnounce(toward, n, r)
           new == HandleEntries(routes[r], n, msg.entries)
<1>0. /\ chan[n][r] # << >> /\ msg.command = "RESPONSE"
      /\ routes' = [routes EXCEPT ![r] = new]
      /\ chan' = [chan EXCEPT ![n][r] = Tail(@)]
  BY DEF ReceiveResponse, Comes
<1>1. n \in Routers /\ n # r /\ r \in Neighbours(n)
  BY NeighboursAreMutual
<1>2. chan[n][r] \in Seq(Messages(E)) /\ routes[r] \in Seq(LeadTo(toward[r]))
  BY <1>1 DEF Follow
<1>3. msg \in Messages(E) /\ Tail(chan[n][r]) \in Seq(Messages(E))
  <2> HIDE DEF E
  <2> QED BY <1>0, <1>2
<1>4. msg.entries \in Seq(E)
  <2> HIDE DEF E, msg
  <2> QED BY <1>0, <1>3 DEF Messages
<1>5. /\ msg.entries \in Seq(Nat)
      /\ n = toward[r] \/ \A k \in 1 .. Len(msg.entries) : msg.entries[k] >= LinkDown
  <2>1. toward[r] = n <=> toward[n] # r
    BY DEF IsTree
  <2>2. \A k \in 1 .. Len(msg.entries) : msg.entries[k] \in E
    <3> HIDE DEF E, msg
    <3> QED BY <1>4
  <2>3. \A e \in E : e \in Nat /\ (toward[n] = r => e >= LinkDown)
    BY DEF MayAnnounce
  <2> HIDE DEF E, msg
  <2> QED BY <1>4, <2>1, <2>2, <2>3
<1>6. toward[r] \in Gateways
  OBVIOUS
<1>7. new \in Seq(LeadTo(toward[r]))
  <2> HIDE DEF msg
  <2> QED BY <1>1, <1>2, <1>5, <1>6, HandleEntriesLead
<1> HIDE DEF new, msg
<1>8. \A q \in Routers : routes'[q] \in Seq(LeadTo(toward[q]))
  BY <1>0, <1>7 DEF Follow, Shape
<1>9. \A q \in Routers : \A m \in Neighbours(q) :
            chan'[q][m] \in Seq(Messages(MayAnnounce(toward, q, m)))
  BY <1>0, <1>1, <1>3 DEF Follow, Shape
<1> QED BY <1>8, <1>9, StillFollow

(* A request is answered. *)
LEMMA ReceiveRequestStep ==
    ASSUME NEW toward \in [Routers -> Gateways], IsTree(toward), Shape, Follow(toward),
           network.strategy # "NO_SPLIT_HORIZON", network' = network,
           NEW r \in Routers, NEW n \in Neighbours(r), ReceiveRequest(r, n)
    PROVE  Follow(toward)'
<1> DEFINE valid == {k \in DOMAIN routes[r] : routes[r][k].valid}
           answer == Response(Entries(routes[r], valid, n))
           E == MayAnnounce(toward, n, r)
           F == MayAnnounce(toward, r, n)
<1>0. /\ chan[n][r] # << >> /\ routes' = routes
      /\ chan' = [chan EXCEPT ![n][r] = Tail(@), ![r][n] = @ \o answer]
  BY DEF ReceiveRequest, Comes
<1>1. n \in Routers /\ n # r /\ r \in Neighbours(n)
  BY NeighboursAreMutual
<1>2. /\ chan[n][r] \in Seq(Messages(E)) /\ chan[r][n] \in Seq(Messages(F))
      /\ routes[r] \in Seq(LeadTo(toward[r]))
  BY <1>1 DEF Follow
<1>3. answer \in Seq(Messages(F))
  <2>1. network.strategy \in {"SPLIT_HORIZON", "POISON_REVERSE"}
    BY RipAssumption DEF Shape, Strategies
  <2> HIDE DEF valid
  <2> QED BY <1>1, <1>2, <2>1, EntriesMayBeAnnounced, ResponseIsMessage
<1> HIDE DEF answer, E, F
<1>4. Tail(chan[n][r]) \in Seq(Messages(E)) /\ chan[r][n] \o answer \in Seq(Messages(F))
  BY <1>0, <1>2, <1>3, ConcatProperties
<1>5. /\ chan'[n][r] = Tail(chan[n][r]) /\ chan'[r][n] = chan[r][n] \o answer
      /\ \A q \in Routers : \A m \in Neighbours(q) :
            <<q, m>> # <<n, r>> /\ <<q, m>> # <<r, n>> => chan'[q][m] = chan[q][m]
  BY <1>0, <1>1 DEF Shape
<1>6. ASSUME NEW q \in Routers, NEW m \in Neighbours(q)
      PROVE  chan'[q][m] \in Seq(Messages(MayAnnounce(toward, q, m)))
  <2>1. CASE q = n /\ m = r
    BY <1>4, <1>5, <2>1 DEF E
  <2>2. CASE q = r /\ m = n
    BY <1>4, <1>5, <2>2 DEF F
  <2>3. CASE ~(q = n /\ m = r) /\ ~(q = r /\ m = n)
    <3>1. chan'[q][m] = chan[q][m]
      BY <1>5, <2>3
    <3> QED BY <3>1 DEF Follow
  <2> QED BY <2>1, <2>2, <2>3
<1>7. \A q \in Routers : routes'[q] \in Seq(LeadTo(toward[q]))
  BY <1>0 DEF Follow
<1> QED BY <1>6, <1>7, StillFollow

(* A message is dropped. *)
LEMMA DropStep ==
    ASSUME NEW toward \in [Routers -> Gateways], IsTree(toward), Shape, Follow(toward),
           network.strategy # "NO_SPLIT_HORIZON", network' = network,
           NEW r \in Routers, NEW n \in Neighbours(r), Drop(r, n)
    PROVE  Follow(toward)'
<1>0. chan[n][r] # << >> /\ routes' = routes /\ chan' = [chan EXCEPT ![n][r] = Tail(@)]
  BY DEF Drop
<1>1. n \in Routers /\ n # r /\ r \in Neighbours(n)
  BY NeighboursAreMutual
<1> DEFINE M == Messages(MayAnnounce(toward, n, r))
<1>2. chan[n][r] \in Seq(M)
  BY <1>1 DEF Follow
<1>3. Tail(chan[n][r]) \in Seq(M)
  <2> HIDE DEF M
  <2> QED BY <1>0, <1>2
<1>4. \A q \in Routers : \A m \in Neighbours(q) :
            chan'[q][m] \in Seq(Messages(MayAnnounce(toward, q, m)))
  BY <1>0, <1>1, <1>3 DEF Follow, Shape
<1>5. \A q \in Routers : routes'[q] \in Seq(LeadTo(toward[q]))
  BY <1>0 DEF Follow
<1> QED BY <1>4, <1>5, StillFollow

(* A route times out. *)
LEMMA ExpireStep ==
    ASSUME NEW toward \in [Routers -> Gateways], IsTree(toward), Shape, Follow(toward),
           network.strategy # "NO_SPLIT_HORIZON", network' = network,
           NEW r \in Routers, NEW k \in DOMAIN routes[r], Expire(r, k)
    PROVE  Follow(toward)'
<1> DEFINE table == routes[r]
           new == IF table[k].event = "invalidate"
                  THEN [table EXCEPT ![k] = InvalidateRoute(table[k])] ELSE RemoveAt(table, k)
<1>1. routes' = [routes EXCEPT ![r] = new] /\ chan' = chan
  BY DEF Expire
<1>2. table \in Seq(LeadTo(toward[r]))
  BY DEF Follow
<1> HIDE DEF table
<1>3. table[k] \in LeadTo(toward[r]) /\ k \in DOMAIN table
  BY <1>2 DEF table
<1>4. InvalidateRoute(table[k]) \in LeadTo(toward[r])
  <2>1. table[k] \in Route
    BY <1>3 DEF LeadTo
  <2> QED BY <2>1, InvalidatedLeads
<1>5. [table EXCEPT ![k] = InvalidateRoute(table[k])] \in Seq(LeadTo(toward[r]))
  BY <1>2, <1>3, <1>4
<1>6. RemoveAt(table, k) \in Seq(LeadTo(toward[r]))
  BY <1>2, <1>3, RemoveAtLeads
<1>7. new \in Seq(LeadTo(toward[r]))
  BY <1>5, <1>6
<1> QED BY <1>1, <1>7, TableStep

(* An interface goes down. *)
LEMMA DownStep ==
    ASSUME NEW toward \in [Routers -> Gateways], IsTree(toward), Shape, Follow(toward),
           network.strategy # "NO_SPLIT_HORIZON", network' = network,
           NEW r \in Routers, NEW i \in Interfaces(r), NotifyInterfaceDown(r, i)
    PROVE  Follow(toward)'
<1> DEFINE table == routes[r]
           new == [k \in DOMAIN table |->
                    IF table[k].gw = i THEN InvalidateRoute(table[k]) ELSE table[k]]
<1>1. routes' = [routes EXCEPT ![r] = new] /\ chan' = chan
  BY DEF NotifyInterfaceDown
<1>2. table \in Seq(LeadTo(toward[r]))
  BY DEF Follow
<1> HIDE DEF table
<1>3. \A k \in DOMAIN table : table[k] \in LeadTo(toward[r]) => new[k] \in LeadTo(toward[r])
  <2>1. \A x \in LeadTo(toward[r]) : InvalidateRoute(x) \in LeadTo(toward[r])
    BY InvalidatedLeads DEF LeadTo
  <2> QED BY <2>1
<1>4. new \in Seq(LeadTo(toward[r]))
  BY <1>2, <1>3, MappedTable
<1> QED BY <1>1, <1>4, TableStep

(* The route of an interface leads to Net itself. *)
LEMMA DirectRouteLeads == DirectRoute \in LeadTo(Net)
BY DEF DirectRoute, LeadTo, Route, Gateways

(* An interface goes up: only the routers on Net have one to it. *)
LEMMA UpStep ==
    ASSUME NEW toward \in [Routers -> Gateways], IsTree(toward), Shape, Follow(toward),
           network.strategy # "NO_SPLIT_HORIZON", network' = network,
           NEW r \in Routers, NEW i \in Interfaces(r), NotifyInterfaceUp(r, i)
    PROVE  Follow(toward)'
<1>1. /\ chan' = chan
      /\ routes' = IF i = Net THEN [routes EXCEPT ![r] = Append(routes[r], DirectRoute)] ELSE routes
  BY DEF NotifyInterfaceUp
<1>2. routes[r] \in Seq(LeadTo(toward[r]))
  BY DEF Follow
<1>3. CASE i = Net
  <2>1. r \in network.owners
    BY <1>3, RipAssumption DEF Interfaces, Neighbours, Net
  <2>2. toward[r] = Net
    BY <2>1 DEF IsTree
  <2>3. Append(routes[r], DirectRoute) \in Seq(LeadTo(toward[r]))
    BY <1>2, <2>2, DirectRouteLeads
  <2> QED BY <1>1, <1>3, <2>3, TableStep
<1>4. CASE i # Net
  BY <1>1, <1>4, StillFollow DEF Follow
<1> QED BY <1>3, <1>4

(* Time passes. *)
LEMMA RoundStep ==
    ASSUME NEW toward \in [Routers -> Gateways], IsTree(toward), Shape, Follow(toward),
           network.strategy # "NO_SPLIT_HORIZON", network' = network,
           Round
    PROVE  Follow(toward)'
<1>1. /\ chan' = chan
      /\ routes' = [r \in Routers |-> [k \in DOMAIN routes[r] |->
                    [routes[r][k] EXCEPT !.left = IF @ = 0 THEN 0 ELSE @ - 1]]]
  BY DEF Round
<1>2. ASSUME NEW r \in Routers PROVE routes'[r] \in Seq(LeadTo(toward[r]))
  <2> DEFINE table == routes[r]
             new == [k \in DOMAIN table |-> [table[k] EXCEPT !.left = IF @ = 0 THEN 0 ELSE @ - 1]]
  <2>1. table \in Seq(LeadTo(toward[r]))
    BY DEF Follow
  <2>2. routes'[r] = new
    BY <1>1
  <2>3. ASSUME NEW x \in LeadTo(toward[r])
        PROVE  [x EXCEPT !.left = IF @ = 0 THEN 0 ELSE @ - 1] \in LeadTo(toward[r])
    BY DEF LeadTo, Route
  <2> HIDE DEF table
  <2>4. new \in Seq(LeadTo(toward[r]))
    BY <2>1, <2>3, MappedTable
  <2> QED BY <2>2, <2>4
<1> QED BY <1>1, <1>2, StillFollow DEF Follow

(* Every step of every router keeps the direction. *)
LEMMA FollowNext ==
    ASSUME NEW toward \in [Routers -> Gateways], IsTree(toward), Shape, Follow(toward),
           network.strategy # "NO_SPLIT_HORIZON", network' = network, [RipNext]_ripVars
    PROVE  Follow(toward)'
<1>1. ASSUME NEW r \in Routers, RunTriggered(r) \/ SendUnsolicitedRouteUpdate(r)
      PROVE  Follow(toward)'
  BY <1>1, RouteUpdateStep, RequestStep DEF RunTriggered, SendUnsolicitedRouteUpdate
<1>2. ASSUME UNCHANGED ripVars PROVE Follow(toward)'
  BY <1>2, StillFollow DEF ripVars, Follow
<1> QED BY <1>1, <1>2, ReceiveResponseStep, ReceiveRequestStep, DropStep, ExpireStep, DownStep,
           UpStep, RoundStep DEF RipNext, RouterStep

(* At the start there is at most the direct route. *)
LEMMA RipIInvInit == RipInit => RipIInv
<1> SUFFICES ASSUME RipInit PROVE RipIInv
  OBVIOUS
<1>1. /\ network \in Networks
      /\ routes = [r \in Routers |-> IF r \in network.owners THEN << DirectRoute >> ELSE << >>]
      /\ chan = [r \in Routers |-> [n \in Neighbours(r) |-> << >>]]
  BY DEF RipInit
<1>2. Shape
  BY <1>1 DEF Shape
<1>3. ASSUME NEW toward \in [Routers -> Gateways], IsTree(toward) PROVE Follow(toward)
  <2>1. ASSUME NEW r \in Routers PROVE routes[r] \in Seq(LeadTo(toward[r]))
    <3>1. CASE r \in network.owners
      <4>1. toward[r] = Net
        BY <1>3, <3>1 DEF IsTree
      <4>2. << DirectRoute >> \in Seq(LeadTo(toward[r]))
        BY <4>1, DirectRouteLeads
      <4> QED BY <1>1, <3>1, <4>2
    <3>2. CASE r \notin network.owners
      BY <1>1, <3>2
    <3> QED BY <3>1, <3>2
  <2>2. \A r \in Routers : \A n \in Neighbours(r) :
            chan[r][n] \in Seq(Messages(MayAnnounce(toward, r, n)))
    BY <1>1
  <2> QED BY <2>1, <2>2 DEF Follow
<1> QED BY <1>2, <1>3 DEF RipIInv

(* The invariant is inductive. *)
LEMMA RipIInvNext ==
    ASSUME RipIInv, [RipNext]_ripVars
    PROVE  RipIInv'
<1>1. Shape /\ Shape' /\ network' = network
  BY ShapeNext DEF RipIInv
<1>2. ASSUME network.strategy # "NO_SPLIT_HORIZON", NEW toward \in [Routers -> Gateways], IsTree(toward)'
      PROVE  Follow(toward)'
  <2>1. IsTree(toward)
    BY <1>1, <1>2 DEF IsTree, Neighbours
  <2> QED BY <1>1, <1>2, <2>1, FollowNext DEF RipIInv
<1> QED BY <1>1, <1>2 DEF RipIInv

-----------------------------------------------------------------------------
(* Split horizon and poisoned reverse do what they are for: in every tree  *)
(* of routers with one of them on the network, whatever messages are lost, *)
(* whatever times out and whichever interfaces go down and up, two         *)
(* neighbours never forward to the network by each other.                  *)
THEOREM RipNoMutualRoutes == RipSpec => []NoMutualRoutes
<1>1. RipIInv /\ [RipNext]_ripVars => RipIInv'
  BY RipIInvNext
<1>2. ASSUME RipIInv PROVE NoMutualRoutes
  <2>1. SUFFICES ASSUME network.strategy # "NO_SPLIT_HORIZON",
                        NEW toward \in [Routers -> Routers \cup {Net}], IsTree(toward),
                        NEW r \in Routers, NEW n \in Neighbours(r), Uses(r, n), Uses(n, r)
                 PROVE  FALSE
    BY DEF NoMutualRoutes
  <2>2. Follow(toward)
    BY <1>2, <2>1 DEF RipIInv, Gateways
  <2>3. ASSUME NEW q \in Routers, NEW m, Uses(q, m) PROVE toward[q] = m
    <3>1. routes[q] \in Seq(LeadTo(toward[q]))
      BY <2>2 DEF Follow
    <3>2. PICK k \in DOMAIN routes[q] : routes[q][k].gw = m /\ routes[q][k].metric < LinkDown
      BY <2>3 DEF Uses
    <3>3. routes[q][k] \in LeadTo(toward[q])
      BY <3>1
    <3> QED BY <3>2, <3>3 DEF LeadTo
  <2>4. toward[r] = n /\ toward[n] = r
    BY <2>1, <2>3, NeighboursAreMutual
  <2> QED BY <2>1, <2>4 DEF IsTree
<1>3. RipIInv => NoMutualRoutes
  BY <1>2
<1> QED BY RipIInvInit, <1>1, <1>3, PTL DEF RipSpec
=============================================================================
