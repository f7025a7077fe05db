------------------------------ MODULE HioProof ------------------------------
(***************************************************************************)
(* Proofs about what is done with an hio_t, for every value of the         *)
(* constants: the table of KCP conversations of a UDP socket, and reading  *)
(* a given number of bytes or up to a delimiter.                           *)
(***************************************************************************)
EXTENDS Rudp, ReadUntil, FiniteSetTheorems, SequenceTheorems, WellFoundedInduction, TLAPS

-----------------------------------------------------------------------------
(***************************************************************************)
(* The table of KCP conversations (Rudp), for any set of peers and any     *)
(* number of entries and events: entries are freed once, with their        *)
(* timers, and a posted close finds the entry it was posted for.           *)
(***************************************************************************)

\* What the loop's queue holds.
Events == [kind : {"close"}, entry : Nat] \cup [kind : {"write"}, addr : Addr]

IsClose(i) == events[i].kind = "close"

\* The table, the entries and their timers: whatever is posted, an entry is in
\* the table under its address or freed, and only one that is not freed has an
\* io or a control block.
TableInv ==
    /\ addrOf \in Seq(Addr)
    /\ table \in [Addr -> Nat]
    /\ \A a \in Addr : table[a] # 0 => table[a] \in Entry /\ addrOf[table[a]] = a
    /\ freed \subseteq Entry /\ owned \subseteq Entry /\ kcps \subseteq owned
    /\ \A e \in Entry : (e \in freed) # (table[addrOf[e]] = e)
    /\ owned \cap freed = {}
    /\ events \in Seq(Events) /\ pending \in Nat /\ pending <= Len(events)
    /\ \A i \in DOMAIN events : IsClose(i) => events[i].entry \in Entry

\* The posted closes: each is of an entry in use, no two are of the same one,
\* and at the time of a read none is of a peer that may be rejected, for it was
\* posted by an earlier read and the eventfd comes first.
EventsInv ==
    /\ step \in {"poll", "events", "read", "timers"}
    /\ \A i \in DOMAIN events : IsClose(i) => events[i].entry \in owned
    /\ \A i, j \in DOMAIN events :
          IsClose(i) /\ IsClose(j) /\ events[i].entry = events[j].entry => i = j
    /\ \A i \in DOMAIN events :
          IsClose(i) /\ addrOf[events[i].entry] \in Rejected =>
              step \in {"timers", "poll"} \/ (step = "events" /\ i <= pending)

-----------------------------------------------------------------------------

\* Looking an address up leaves it with an entry of the table, old or new, and
\* the others as they were.
LEMMA GetEntry ==
    ASSUME TableInv, NEW a \in Addr, rudp_get(a)
    PROVE  /\ addrOf' \in Seq(Addr) /\ table' \in [Addr -> Nat]
           /\ \A b \in Addr : table'[b] # 0 => table'[b] \in Entry' /\ addrOf'[table'[b]] = b
           /\ \A e \in Entry : e \in Entry' /\ addrOf'[e] = addrOf[e]
           /\ \A e \in Entry' : (e \in freed) # (table'[addrOf'[e]] = e)
           /\ table'[a] \in Entry' /\ table'[a] \notin freed
           /\ table[a] # 0 => table' = table /\ addrOf' = addrOf
<1> DEFINE n == Len(addrOf)
<1>1. n \in Nat /\ Entry = 1 .. n /\ addrOf \in Seq(Addr) /\ table \in [Addr -> Nat]
  BY SMTT(20) DEF TableInv, Entry
<1>2. /\ \A b \in Addr : table[b] # 0 => table[b] \in Entry /\ addrOf[table[b]] = b
      /\ \A e \in Entry : (e \in freed) # (table[addrOf[e]] = e)
      /\ freed \subseteq Entry
  BY Zenon DEF TableInv
<1>3. CASE table[a] # 0
  <2>1. table' = table /\ addrOf' = addrOf /\ Entry' = Entry
    BY Zenon, <1>3 DEF rudp_get, Entry
  <2>2. table[a] \in Entry /\ addrOf[table[a]] = a
    BY Zenon, <1>2, <1>3
  <2>3. table[a] \notin freed
    BY Zenon, <1>2, <2>2
  <2> QED  BY Zenon, <1>1, <1>2, <2>1, <2>2, <2>3
<1>4. CASE table[a] = 0
  <2>1. addrOf' = Append(addrOf, a) /\ table' = [table EXCEPT ![a] = Len(addrOf')]
    BY Zenon, <1>4 DEF rudp_get
  <2>2. /\ addrOf' \in Seq(Addr) /\ Len(addrOf') = n + 1 /\ addrOf'[n + 1] = a
        /\ \A e \in 1 .. n : addrOf'[e] = addrOf[e]
    BY SMTT(20), <1>1, <2>1
  <2>3. Entry' = 1 .. n + 1
    BY Zenon, <2>2 DEF Entry
  <2>4. table' \in [Addr -> Nat] /\ table'[a] = n + 1 /\ \A b \in Addr : b # a => table'[b] = table[b]
    BY SMTT(20), <1>1, <2>1, <2>2
  <2> HIDE DEF n
  <2>5. \A e \in Entry : e \in Entry' /\ addrOf'[e] = addrOf[e] /\ e # n + 1
    BY SMTT(20), <1>1, <2>2, <2>3
  <2>6. n + 1 \in Entry' /\ n + 1 \notin freed /\ \A e \in Entry' : e \in Entry \/ e = n + 1
    BY SMTT(20), <1>1, <1>2, <2>3
  <2>7. \A b \in Addr : table'[b] # 0 => table'[b] \in Entry' /\ addrOf'[table'[b]] = b
    BY SMTT(20), <1>2, <2>2, <2>4, <2>5, <2>6
  <2>8. ASSUME NEW e \in Entry'
        PROVE  (e \in freed) # (table'[addrOf'[e]] = e)
    <3>1. CASE e = n + 1
      <4>1. e \notin freed /\ table'[addrOf'[e]] = e
        BY Zenon, <3>1, <2>2, <2>4, <2>6
      <4> QED  BY Zenon, <4>1
    <3>2. CASE e \in Entry
      <4>0. addrOf[e] \in Addr
        BY SMTT(20), <3>2, <1>1 DEF n
      <4>1. addrOf'[e] = addrOf[e] /\ e # n + 1 /\ addrOf[e] \in Addr
        BY Zenon, <3>2, <2>5, <4>0
      <4>2. CASE addrOf[e] = a
        <5>1. table[a] # e
          BY SMTT(20), <1>1, <1>4, <3>2
        <5> QED  BY Zenon, <1>2, <3>2, <4>1, <4>2, <5>1, <2>4
      <4>3. CASE addrOf[e] # a
        BY SMTT(20), <1>2, <3>2, <4>1, <4>3, <2>4
      <4> QED  BY Zenon, <4>2, <4>3
    <3> QED  BY Zenon, <3>1, <3>2, <2>6
  <2> QED  BY Zenon, <1>4, <2>2, <2>4, <2>5, <2>6, <2>7, <2>8
<1> QED  BY Zenon, <1>3, <1>4

\* A posted event joins the end of the queue.
LEMMA Posted ==
    ASSUME events \in Seq(Events), NEW ev \in Events, events' = Append(events, ev)
    PROVE  /\ events' \in Seq(Events) /\ Len(events') = Len(events) + 1 /\ Len(events) \in Nat
           /\ DOMAIN events = 1 .. Len(events) /\ DOMAIN events' = 1 .. Len(events) + 1
           /\ \A i \in DOMAIN events : i \in DOMAIN events' /\ events'[i] = events[i]
           /\ \A i \in DOMAIN events' : i \in DOMAIN events \/ i = Len(events) + 1
           /\ events'[Len(events) + 1] = ev
BY SMTT(20)

\* The front event leaves the queue.
LEMMA Taken ==
    ASSUME events \in Seq(Events), Len(events) > 0, events' = Tail(events)
    PROVE  /\ events' \in Seq(Events) /\ Len(events') = Len(events) - 1
           /\ 1 \in DOMAIN events /\ Head(events) = events[1]
           /\ \A i \in DOMAIN events' : i \in Nat /\ i + 1 \in DOMAIN events /\ events'[i] = events[i + 1] /\ i + 1 # 1
BY SMTT(20)

\* What is posted.
LEMMA EventTypes ==
    /\ \A e \in Nat : CloseOf(e) \in Events /\ CloseOf(e).kind = "close" /\ CloseOf(e).entry = e
    /\ \A a \in Addr : WriteTo(a) \in Events /\ WriteTo(a).kind = "write"
    /\ \A ev \in Events : (ev.kind = "close" /\ ev.entry \in Nat /\ ev = CloseOf(ev.entry)) \/ (ev.kind = "write" /\ ev.addr \in Addr)
BY SMTT(20) DEF CloseOf, WriteTo, Events

\* What a step does to the queue keeps every posted close a pointer to an entry.
LEMMA QueueOfEntries ==
    ASSUME TableInv, \A e \in Entry : e \in Entry', pending' \in Nat,
           \/ events' = events /\ pending' <= Len(events)
           \/ /\ pending' = pending
              /\ \E ev \in Events : /\ events' = Append(events, ev)
                                    /\ ev.kind = "close" => ev.entry \in Entry'
           \/ pending > 0 /\ events' = Tail(events) /\ pending' = pending - 1
    PROVE  /\ events' \in Seq(Events) /\ pending' <= Len(events')
           /\ \A i \in DOMAIN events' : IsClose(i)' => events'[i].entry \in Entry'
<1>1. /\ events \in Seq(Events) /\ pending \in Nat /\ pending <= Len(events)
      /\ \A i \in DOMAIN events : events[i].kind = "close" => events[i].entry \in Entry
  BY Zenon DEF TableInv, IsClose
<1>2. CASE events' = events /\ pending' <= Len(events)
  BY Zenon, <1>1, <1>2 DEF IsClose
<1>3. CASE pending' = pending /\ \E ev \in Events : /\ events' = Append(events, ev)
                                                    /\ ev.kind = "close" => ev.entry \in Entry'
  <2>1. PICK ev \in Events : events' = Append(events, ev) /\ (ev.kind = "close" => ev.entry \in Entry')
    BY Zenon, <1>3
  <2>2. /\ events' \in Seq(Events) /\ Len(events') = Len(events) + 1 /\ Len(events) \in Nat
        /\ \A i \in DOMAIN events : i \in DOMAIN events' /\ events'[i] = events[i]
        /\ \A i \in DOMAIN events' : i \in DOMAIN events \/ i = Len(events) + 1
        /\ events'[Len(events) + 1] = ev
    BY Zenon, <1>1, <2>1, Posted
  <2>3. pending' <= Len(events')
    BY SMTT(20), <1>1, <1>3, <2>2
  <2>4. \A i \in DOMAIN events' : events'[i].kind = "close" => events'[i].entry \in Entry'
    BY Zenon, <1>1, <2>1, <2>2
  <2> QED  BY Zenon, <2>2, <2>3, <2>4 DEF IsClose
<1>4. CASE pending > 0 /\ events' = Tail(events) /\ pending' = pending - 1
  <2>1. Len(events) \in Nat /\ Len(events) > 0 /\ pending \in Nat /\ pending <= Len(events)
    BY SMTT(20), <1>1, <1>4
  <2>2. /\ events' \in Seq(Events)
        /\ \A i \in DOMAIN events' : i + 1 \in DOMAIN events /\ events'[i] = events[i + 1]
    BY Zenon, <1>1, <1>4, <2>1, Taken
  <2>4. Len(events') = Len(events) - 1
    BY Zenon, <1>1, <1>4, <2>1, Taken
  <2>3. pending' <= Len(events')
    BY SMTT(20), <1>4, <2>1, <2>4
  <2> QED  BY Zenon, <1>1, <2>2, <2>3 DEF IsClose
<1> QED  BY Zenon, <1>2, <1>3, <1>4

\* hio_get_kcp keeps the table: the entry it finds or makes is not freed.
LEMMA GetKcpTable ==
    ASSUME TableInv, NEW a \in Addr, hio_get_kcp(a), pending' \in Nat,
           \/ events' = events /\ pending' = pending
           \/ pending > 0 /\ events' = Tail(events) /\ pending' = pending - 1
    PROVE  TableInv'
<1>1. rudp_get(a) /\ freed' = freed /\ owned' = owned \cup {table'[a]} /\ kcps' = kcps \cup {table'[a]}
  BY Zenon DEF hio_get_kcp
<1>2. /\ addrOf' \in Seq(Addr) /\ table' \in [Addr -> Nat]
      /\ \A b \in Addr : table'[b] # 0 => table'[b] \in Entry' /\ addrOf'[table'[b]] = b
      /\ \A e \in Entry : e \in Entry' /\ addrOf'[e] = addrOf[e]
      /\ \A e \in Entry' : (e \in freed) # (table'[addrOf'[e]] = e)
      /\ table'[a] \in Entry' /\ table'[a] \notin freed
  BY Zenon, <1>1, GetEntry
<1>3. freed \subseteq Entry /\ owned \subseteq Entry /\ kcps \subseteq owned /\ owned \cap freed = {}
  BY Zenon DEF TableInv
<1>4. /\ freed' \subseteq Entry' /\ owned' \subseteq Entry' /\ kcps' \subseteq owned'
      /\ owned' \cap freed' = {}
  BY ZenonT(30), <1>1, <1>2, <1>3
<1>5. pending <= Len(events)
  BY Zenon DEF TableInv
<1>6. /\ events' \in Seq(Events) /\ pending' <= Len(events')
      /\ \A i \in DOMAIN events' : IsClose(i)' => events'[i].entry \in Entry'
  BY Zenon, <1>2, <1>5, QueueOfEntries
<1>7. \A e \in Entry' : (e \in freed') # (table'[addrOf'[e]] = e)
  BY Zenon, <1>1, <1>2
<1> QED  BY Zenon, <1>2, <1>4, <1>6, <1>7 DEF TableInv

\* A step that leaves the table and what is freed alone, and gives an io only
\* to entries of the table.
LEMMA SameTable ==
    ASSUME TableInv, UNCHANGED << table, addrOf, freed, kcps >>, pending' \in Nat,
           owned \subseteq owned', \A e \in owned' : e \in owned \/ \E a \in Addr : e = table[a] /\ e # 0,
           \/ events' = events /\ pending' <= Len(events)
           \/ /\ pending' = pending
              /\ \E ev \in Events : /\ events' = Append(events, ev)
                                    /\ ev.kind = "close" => ev.entry \in Entry
    PROVE  TableInv'
<1>1. Entry' = Entry
  BY Zenon DEF Entry
<1>2. /\ events' \in Seq(Events) /\ pending' <= Len(events')
      /\ \A i \in DOMAIN events' : IsClose(i)' => events'[i].entry \in Entry'
  BY Zenon, <1>1, QueueOfEntries
<1>3. \A a \in Addr : table[a] # 0 => table[a] \in Entry /\ table[a] \notin freed
  BY Zenon DEF TableInv
<1>4. owned' \subseteq Entry /\ owned' \cap freed = {}
  BY SMTT(20), <1>3 DEF TableInv
<1> QED  BY Zenon, <1>1, <1>2, <1>4 DEF TableInv

\* Every step keeps the table.
LEMMA TableStep == TableInv /\ [RudpNext]_rudpvars => TableInv'
<1> SUFFICES ASSUME TableInv, [RudpNext]_rudpvars
             PROVE  TableInv'
  BY Zenon
<1>0. /\ pending \in Nat /\ pending <= Len(events) /\ events \in Seq(Events) /\ Len(events) \in Nat
      /\ Entry = 1 .. Len(addrOf) /\ Len(addrOf) \in Nat
  BY SMTT(20) DEF TableInv, Entry
<1>1. ASSUME NEW a \in Addr, UserClose(a)
      PROVE  TableInv'
  <2>1. table[a] \in Entry /\ table[a] # 0
    BY SMTT(20), <1>0, <1>1 DEF UserClose, TableInv
  <2>2. /\ UNCHANGED << table, addrOf, freed, kcps, owned, pending >>
        /\ events' = Append(events, CloseOf(table[a]))
    BY Zenon, <1>1, <2>1 DEF UserClose, hio_close_rudp, rudp_get, Post
  <2>3. CloseOf(table[a]) \in Events /\ CloseOf(table[a]).entry \in Entry
    BY SMTT(20), <2>1, <1>0, EventTypes
  <2> QED  BY Zenon, <1>0, <2>2, <2>3, SameTable
<1>2. ASSUME NEW a \in Addr, UserWrite(a)
      PROVE  TableInv'
  <2>1. /\ UNCHANGED << table, addrOf, freed, kcps, owned, pending >>
        /\ events' = Append(events, WriteTo(a))
    BY Zenon, <1>2 DEF UserWrite, Post
  <2>2. WriteTo(a) \in Events /\ WriteTo(a).kind # "close"
    BY Zenon, EventTypes
  <2> QED  BY Zenon, <1>0, <2>1, <2>2, SameTable
<1>3. ASSUME NEW a \in Addr, ReadData(a)
      PROVE  TableInv'
  BY Zenon, <1>0, <1>3, GetKcpTable DEF ReadData
<1>4. ASSUME NEW a \in Addr, ReadForeign(a)
      PROVE  TableInv'
  <2>1. table[a] \in Entry /\ table[a] # 0
    BY SMTT(20), <1>0, <1>4 DEF ReadForeign, TableInv
  <2>2. /\ UNCHANGED << table, addrOf, freed, kcps, pending >>
        /\ owned' = owned \cup {table[a]}
        /\ events' = Append(events, CloseOf(table[a]))
    BY Zenon, <1>4, <2>1 DEF ReadForeign, hio_close_rudp, rudp_get, Post
  <2>3. CloseOf(table[a]) \in Events /\ CloseOf(table[a]).entry \in Entry
    BY SMTT(20), <2>1, <1>0, EventTypes
  <2> QED  BY Zenon, <1>0, <2>1, <2>2, <2>3, SameTable
<1>5. CASE Poll \/ EventsDone \/ TimersDone \/ UNCHANGED rudpvars
  <2>1. /\ UNCHANGED << table, addrOf, freed, kcps, owned, events >>
        /\ pending' = pending \/ pending' = Len(events)
    BY <1>5, Zenon DEF Poll, EventsDone, TimersDone, rudpvars
  <2> QED  BY SMTT(20), <1>0, <2>1, SameTable
<1>6. CASE WriteEvent
  <2>1. /\ pending > 0 /\ Head(events).kind = "write" /\ hio_get_kcp(Head(events).addr)
        /\ events' = Tail(events) /\ pending' = pending - 1
    BY Zenon, <1>6 DEF WriteEvent
  <2>2. Len(events) > 0 /\ Head(events) \in Events
    BY SMTT(20), <1>0, <2>1
  <2>3. Head(events).addr \in Addr
    BY Zenon, <2>1, <2>2, EventTypes
  <2>4. pending' \in Nat
    BY SMTT(20), <1>0, <2>1
  <2> QED  BY Zenon, <2>1, <2>3, <2>4, GetKcpTable
<1>7. CASE CloseEvent
  <2> DEFINE e == Head(events).entry
             found == {table[addrOf[e]]} \ {0}
  <2>1. /\ pending > 0 /\ Head(events).kind = "close" /\ e \notin freed /\ e \in owned
        /\ table' = [table EXCEPT ![addrOf[e]] = 0] /\ addrOf' = addrOf
        /\ freed' = freed \cup found /\ kcps' = kcps \ found /\ owned' = owned \ found
        /\ events' = Tail(events) /\ pending' = pending - 1
    BY Zenon, <1>7 DEF CloseEvent
  <2>2. e \in Entry
    BY Zenon, <2>1 DEF TableInv
  <2>3. table[addrOf[e]] = e /\ addrOf[e] \in Addr /\ e \in Nat /\ e # 0
    BY SMTT(20), <1>0, <2>1, <2>2 DEF TableInv
  <2>4. found = {e}
    BY Zenon, <2>3
  <2> HIDE DEF e, found
  <2>5. Entry' = Entry /\ pending' \in Nat
    BY SMTT(20), <1>0, <2>1 DEF Entry
  <2>6. /\ events' \in Seq(Events) /\ pending' <= Len(events')
        /\ \A i \in DOMAIN events' : IsClose(i)' => events'[i].entry \in Entry'
    BY Zenon, <2>1, <2>5, QueueOfEntries
  <2>7. /\ table' \in [Addr -> Nat] /\ table'[addrOf[e]] = 0
        /\ \A b \in Addr : b # addrOf[e] => table'[b] = table[b]
    BY Zenon, <2>1, <2>3 DEF TableInv
  <2>8. ASSUME NEW d \in Entry
        PROVE  (d \in freed') # (table'[addrOf[d]] = d)
    <3>1. (d \in freed) # (table[addrOf[d]] = d) /\ addrOf[d] \in Addr /\ d # 0
      BY SMTT(20), <1>0 DEF TableInv
    <3>2. CASE addrOf[d] = addrOf[e]
      BY SMTT(20), <3>1, <3>2, <2>1, <2>3, <2>4, <2>7
    <3>3. CASE addrOf[d] # addrOf[e]
      <4>1. d # e
        BY Zenon, <3>3
      <4> QED  BY SMTT(20), <3>1, <3>3, <4>1, <2>1, <2>4, <2>7
    <3> QED  BY Zenon, <3>2, <3>3
  <2>9. \A b \in Addr : table'[b] # 0 => table'[b] \in Entry /\ addrOf[table'[b]] = b
    BY Zenon, <2>7 DEF TableInv
  <2>10. /\ freed' \subseteq Entry /\ owned' \subseteq Entry /\ kcps' \subseteq owned'
         /\ owned' \cap freed' = {}
    BY Zenon, <2>1, <2>2, <2>4 DEF TableInv
  <2>11. addrOf' \in Seq(Addr)
    BY Zenon, <2>1 DEF TableInv
  <2> QED  BY SMTT(20), <2>1, <2>5, <2>6, <2>7, <2>8, <2>9, <2>10, <2>11 DEF TableInv
<1>8. CASE CloseSocket
  <2>1. /\ freed' = freed \cup ({table[a] : a \in Addr} \ {0})
        /\ table' = [a \in Addr |-> 0] /\ kcps' = kcps \ freed' /\ owned' = owned \ freed'
        /\ UNCHANGED << addrOf, events, pending >>
    BY Zenon, <1>8 DEF CloseSocket
  <2>2. Entry' = Entry
    BY Zenon, <2>1 DEF Entry
  <2>3. ASSUME NEW d \in Entry
        PROVE  (d \in freed') # (table'[addrOf[d]] = d)
    <3>1. (d \in freed) # (table[addrOf[d]] = d) /\ addrOf[d] \in Addr /\ d # 0
      BY SMTT(20), <1>0 DEF TableInv
    <3>2. d \in freed'
      BY SMTT(20), <2>1, <3>1
    <3> QED  BY Zenon, <2>1, <3>1, <3>2
  <2>4. freed' \subseteq Entry
    BY SMTT(20), <2>1 DEF TableInv
  <2>5. /\ events' \in Seq(Events) /\ pending' \in Nat /\ pending' <= Len(events')
        /\ \A i \in DOMAIN events' : IsClose(i)' => events'[i].entry \in Entry
    BY Zenon, <2>1 DEF TableInv, IsClose
  <2> QED  BY Zenon, <2>1, <2>2, <2>3, <2>4, <2>5 DEF TableInv
<1> QED  BY Zenon, <1>1, <1>2, <1>3, <1>4, <1>5, <1>6, <1>7, <1>8 DEF RudpNext

\* The empty table.
LEMMA TableInit == RudpInit => TableInv
BY SMTT(20) DEF RudpInit, TableInv, Entry, IsClose

\* Whatever peers and threads do, an entry is in the table under its own address
\* or freed, once, and its update timer goes with it.
THEOREM EntriesAndTimers == RudpSpec => []TimersOfLiveEntries
<1>1. TableInv => TimersOfLiveEntries
  BY Zenon DEF TableInv, TimersOfLiveEntries
<1> QED  BY <1>1, TableInit, TableStep, PTL DEF RudpSpec

-----------------------------------------------------------------------------

\* An entry that is in use is the one of its address.
LEMMA InUseInTable ==
    ASSUME TableInv, NEW e \in owned
    PROVE  e \in Entry /\ e \notin freed /\ addrOf[e] \in Addr /\ table[addrOf[e]] = e
BY SMTT(20) DEF TableInv, Entry

\* The loop runs the front event: the closes behind it are still of entries in
\* use, if the front was not a close of one of them.
LEMMA EventRun ==
    ASSUME TableInv, EventsInv, step = "events", pending > 0, UNCHANGED step,
           events' = Tail(events), pending' = pending - 1,
           \A e \in Entry : addrOf'[e] = addrOf[e],
           \A e \in owned : e \in owned' \/ (IsClose(1) /\ e = events[1].entry)
    PROVE  EventsInv'
<1>1. events \in Seq(Events) /\ pending \in Nat /\ pending <= Len(events) /\ Len(events) \in Nat
  BY SMTT(20) DEF TableInv
<1>2. /\ 1 \in DOMAIN events
      /\ \A i \in DOMAIN events' : i \in Nat /\ i + 1 \in DOMAIN events /\ events'[i] = events[i + 1] /\ i + 1 # 1
  BY SMTT(20), <1>1, Taken
<1>3. \A i \in DOMAIN events : IsClose(i) => events[i].entry \in Entry /\ events[i].entry \in owned
  BY Zenon DEF TableInv, EventsInv
<1>4. \A i, j \in DOMAIN events :
          IsClose(i) /\ IsClose(j) /\ events[i].entry = events[j].entry => i = j
  BY Zenon DEF EventsInv
<1>5. ASSUME NEW i \in DOMAIN events', IsClose(i)'
      PROVE  /\ events'[i].entry \in owned'
             /\ addrOf'[events'[i].entry] \in Rejected => i <= pending'
  <2>1. IsClose(i + 1) /\ events'[i].entry = events[i + 1].entry
    BY Zenon, <1>2, <1>5 DEF IsClose
  <2>2. events'[i].entry \in owned'
    BY Zenon, <1>2, <1>3, <1>4, <2>1
  <2>3. addrOf'[events'[i].entry] \in Rejected => i + 1 <= pending
    BY Zenon, <1>2, <1>3, <2>1 DEF EventsInv
  <2> QED  BY SMTT(20), <1>1, <1>2, <2>2, <2>3
<1>6. ASSUME NEW i \in DOMAIN events', NEW j \in DOMAIN events',
             IsClose(i)', IsClose(j)', events'[i].entry = events'[j].entry
      PROVE  i = j
  <2>1. IsClose(i + 1) /\ IsClose(j + 1) /\ events[i + 1].entry = events[j + 1].entry
    BY Zenon, <1>2, <1>6 DEF IsClose
  <2>2. i + 1 = j + 1
    BY Zenon, <1>2, <1>4, <2>1
  <2> QED  BY SMTT(20), <1>2, <2>2
<1> QED  BY Zenon, <1>5, <1>6 DEF EventsInv

\* A close is posted for an entry in use that no queued close is for.
LEMMA ClosePosted ==
    ASSUME TableInv, EventsInv, NEW e \in Entry, events' = Append(events, CloseOf(e)),
           UNCHANGED << addrOf, pending >>, owned \subseteq owned', e \in owned',
           \A i \in DOMAIN events : IsClose(i) => events[i].entry # e,
           \/ step' = step /\ addrOf[e] \notin Rejected
           \/ step = "read" /\ step' = "timers"
    PROVE  EventsInv'
<1>1. events \in Seq(Events) /\ e \in Nat
  BY SMTT(20) DEF TableInv, Entry
<1>2. CloseOf(e) \in Events /\ CloseOf(e).entry = e
  BY Zenon, <1>1, EventTypes
<1>3. /\ \A i \in DOMAIN events : i \in DOMAIN events' /\ events'[i] = events[i]
      /\ \A i \in DOMAIN events' : i \in DOMAIN events \/ i = Len(events) + 1
      /\ events'[Len(events) + 1] = CloseOf(e)
  BY Zenon, <1>1, <1>2, Posted
<1>4. ASSUME NEW i \in DOMAIN events', IsClose(i)'
      PROVE  /\ events'[i].entry \in owned'
             /\ addrOf'[events'[i].entry] \in Rejected =>
                  step' \in {"timers", "poll"} \/ (step' = "events" /\ i <= pending')
  <2>1. CASE i \in DOMAIN events
    BY Zenon, <1>3, <1>4, <2>1 DEF EventsInv, IsClose
  <2>2. CASE i = Len(events) + 1
    BY Zenon, <1>2, <1>3, <2>2
  <2> QED  BY Zenon, <1>3, <2>1, <2>2
<1>5. ASSUME NEW i \in DOMAIN events', NEW j \in DOMAIN events',
             IsClose(i)', IsClose(j)', events'[i].entry = events'[j].entry
      PROVE  i = j
  BY SMTT(20), <1>2, <1>3, <1>5 DEF EventsInv, IsClose
<1>6. step' \in {"poll", "events", "read", "timers"}
  BY Zenon DEF EventsInv
<1> QED  BY Zenon, <1>4, <1>5, <1>6 DEF EventsInv

\* Where threads close only peers that are never rejected, every step keeps what
\* is known of the posted closes.
LEMMA EventsStep ==
    ASSUME Rejected \cap Closable = {}, TableInv, EventsInv, [RudpNext]_rudpvars
    PROVE  EventsInv'
<1>0. /\ events \in Seq(Events) /\ pending \in Nat /\ pending <= Len(events) /\ Len(events) \in Nat
      /\ DOMAIN events = 1 .. Len(events) /\ owned \subseteq Entry /\ kcps \subseteq owned
  BY SMTT(20) DEF TableInv
<1>1. ASSUME NEW a \in Addr, UserClose(a)
      PROVE  EventsInv'
  <2>1. table[a] \in owned /\ table[a] # 0 /\ a \in Closable
    BY SMTT(20), <1>0, <1>1 DEF UserClose, TableInv, Entry
  <2>2. /\ UNCHANGED << addrOf, owned, pending, step >>
        /\ events' = Append(events, CloseOf(table[a]))
        /\ \A i \in DOMAIN events : events[i] # CloseOf(table[a])
    BY Zenon, <1>0, <1>1, <2>1 DEF UserClose, hio_close_rudp, rudp_get, Post
  <2>3. \A i \in DOMAIN events : IsClose(i) => events[i] = CloseOf(events[i].entry)
    BY SMTT(20), <1>0, EventTypes DEF IsClose
  <2>4. addrOf[table[a]] = a /\ table[a] \in Entry
    BY Zenon, <2>1 DEF TableInv
  <2> QED  BY Zenon, <2>1, <2>2, <2>3, <2>4, ClosePosted
<1>2. ASSUME NEW a \in Addr, UserWrite(a)
      PROVE  EventsInv'
  <2>1. events' = Append(events, WriteTo(a)) /\ UNCHANGED << addrOf, owned, pending, step >>
    BY Zenon, <1>2 DEF UserWrite, Post
  <2>2. WriteTo(a) \in Events /\ WriteTo(a).kind # "close"
    BY Zenon, EventTypes
  <2>3. /\ \A i \in DOMAIN events : i \in DOMAIN events' /\ events'[i] = events[i]
        /\ \A i \in DOMAIN events' : i \in DOMAIN events \/ i = Len(events) + 1
        /\ events'[Len(events) + 1] = WriteTo(a)
    BY Zenon, <1>0, <2>1, <2>2, Posted
  <2>4. \A i \in DOMAIN events' : IsClose(i)' => i \in DOMAIN events /\ IsClose(i) /\ events'[i] = events[i]
    BY Zenon, <2>2, <2>3 DEF IsClose
  <2> QED  BY SMTT(20), <2>1, <2>4 DEF EventsInv
<1>3. ASSUME NEW a \in Addr, ReadData(a)
      PROVE  EventsInv'
  <2>1. /\ rudp_get(a) /\ owned \subseteq owned' /\ step = "read" /\ step' = "timers"
        /\ UNCHANGED << events, pending >>
    BY Zenon, <1>3 DEF ReadData, hio_get_kcp
  <2>2. \A e \in Entry : addrOf'[e] = addrOf[e]
    BY Zenon, <2>1, GetEntry
  <2> QED  BY Zenon, <2>1, <2>2 DEF EventsInv, IsClose
<1>4. ASSUME NEW a \in Addr, ReadForeign(a)
      PROVE  EventsInv'
  <2>1. table[a] \in owned /\ table[a] # 0 /\ a \in Rejected /\ step = "read" /\ step' = "timers"
    BY SMTT(20), <1>0, <1>4 DEF ReadForeign, TableInv, Entry
  <2>2. /\ UNCHANGED << addrOf, pending >> /\ owned \subseteq owned'
        /\ events' = Append(events, CloseOf(table[a]))
    BY Zenon, <1>4, <2>1 DEF ReadForeign, hio_close_rudp, rudp_get, Post
  <2>3. addrOf[table[a]] = a /\ table[a] \in Entry
    BY Zenon, <2>1 DEF TableInv
  <2>4. \A i \in DOMAIN events : IsClose(i) => events[i].entry # table[a]
    BY Zenon, <2>1, <2>3 DEF EventsInv
  <2> QED  BY Zenon, <2>1, <2>2, <2>3, <2>4, ClosePosted
<1>5. CASE UNCHANGED rudpvars
  BY Zenon, <1>5 DEF EventsInv, IsClose, rudpvars
<1>6. CASE Poll
  <2>1. UNCHANGED << addrOf, owned, events >> /\ pending' = Len(events) /\ step' = "events"
    BY Zenon, <1>6 DEF Poll
  <2>2. \A i \in DOMAIN events : i <= pending'
    BY SMTT(20), <1>0, <2>1
  <2> QED  BY Zenon, <2>1, <2>2 DEF EventsInv, IsClose
<1>7. CASE EventsDone
  <2>1. /\ UNCHANGED << addrOf, owned, events, pending >> /\ pending = 0 /\ step = "events"
        /\ step' \in {"read", "timers"}
    BY Zenon, <1>7 DEF EventsDone
  <2>2. \A i \in DOMAIN events : ~(i <= pending)
    BY SMTT(20), <1>0, <2>1
  <2>3. \A i \in DOMAIN events : IsClose(i) => addrOf[events[i].entry] \notin Rejected
    BY Zenon, <2>1, <2>2 DEF EventsInv
  <2> QED  BY Zenon, <2>1, <2>3 DEF EventsInv, IsClose
<1>8. CASE TimersDone
  BY Zenon, <1>8 DEF TimersDone, EventsInv, IsClose
<1>9. CASE CloseSocket
  <2>1. events' = << >> /\ step' = "timers"
    BY Zenon, <1>9 DEF CloseSocket
  <2> QED  BY SMTT(20), <2>1 DEF EventsInv
<1>10. CASE WriteEvent
  <2>1. /\ step = "events" /\ pending > 0 /\ Head(events).kind = "write" /\ hio_get_kcp(Head(events).addr)
        /\ events' = Tail(events) /\ pending' = pending - 1 /\ UNCHANGED step
    BY Zenon, <1>10 DEF WriteEvent
  <2>2. Head(events) \in Events
    BY SMTT(20), <1>0, <2>1
  <2>3. Head(events).addr \in Addr
    BY Zenon, <2>1, <2>2, EventTypes
  <2>4. rudp_get(Head(events).addr) /\ owned \subseteq owned'
    BY Zenon, <2>1 DEF hio_get_kcp
  <2>5. \A e \in Entry : addrOf'[e] = addrOf[e]
    BY Zenon, <2>3, <2>4, GetEntry
  <2> QED  BY Zenon, <2>1, <2>4, <2>5, EventRun
<1>11. CASE CloseEvent
  <2> DEFINE e == Head(events).entry
  <2>1. /\ step = "events" /\ pending > 0 /\ Head(events).kind = "close" /\ e \in owned
        /\ addrOf' = addrOf /\ owned' = owned \ ({table[addrOf[e]]} \ {0})
        /\ events' = Tail(events) /\ pending' = pending - 1 /\ UNCHANGED step
    BY Zenon, <1>11 DEF CloseEvent
  <2>2. Head(events) = events[1]
    BY SMTT(20), <1>0, <2>1
  <2>3. table[addrOf[e]] = e
    BY Zenon, <2>1, InUseInTable
  <2>4. \A d \in owned : d \in owned' \/ (IsClose(1) /\ d = events[1].entry)
    BY Zenon, <2>1, <2>2, <2>3 DEF IsClose
  <2> QED  BY Zenon, <2>1, <2>4, EventRun
<1> QED
  BY Zenon, <1>1, <1>2, <1>3, <1>4, <1>5, <1>6, <1>7, <1>8, <1>9, <1>10, <1>11 DEF RudpNext

\* The pointer a posted close carries is, when the loop follows it, the entry of
\* the table it was posted for: where threads close only conversations whose
\* peers send no foreign conversation numbers.
THEOREM ClosesFindTheirEntries ==
    ASSUME Rejected \cap Closable = {}
    PROVE  RudpSpec => []CloseFindsItsEntry
<1>1. RudpInit => TableInv /\ EventsInv
  <2>1. RudpInit => EventsInv
    BY SMTT(20) DEF RudpInit, EventsInv
  <2> QED  BY Zenon, <2>1, TableInit
<1>2. (TableInv /\ EventsInv) /\ [RudpNext]_rudpvars => (TableInv /\ EventsInv)'
  BY Zenon, TableStep, EventsStep
<1>3. TableInv /\ EventsInv => CloseFindsItsEntry
  <2> SUFFICES ASSUME TableInv, EventsInv, step = "events", pending > 0, Head(events).kind = "close"
               PROVE  LET e == Head(events).entry IN
                      e \notin freed /\ e \in owned /\ table[addrOf[e]] = e
    BY Zenon DEF CloseFindsItsEntry
  <2>1. 1 \in DOMAIN events /\ Head(events) = events[1]
    BY SMTT(20) DEF TableInv
  <2>2. Head(events).entry \in owned
    BY Zenon, <2>1 DEF EventsInv, IsClose
  <2> QED  BY Zenon, <2>2, InUseInTable
<1> QED  BY <1>1, <1>2, <1>3, PTL DEF RudpSpec

-----------------------------------------------------------------------------
(***************************************************************************)
(* The concatenation of a sequence of sequences (FlattenSeq).              *)
(***************************************************************************)

\* A set of numbers that is not empty has a least member.
LEMMA LeastNumber ==
    ASSUME NEW S, S \subseteq Nat, S # {}
    PROVE  \E m \in S : m \in Nat /\ \A x \in S : m <= x
<1>1. PICK m \in S : \A y \in S : ~ (<< y, m >> \in OpToRel(<, Nat))
  BY Zenon, NatLessThanWellFounded, WFMin
<1>2. \A y \in S : m <= y
  <2> SUFFICES ASSUME NEW y \in S, ~(m <= y)  PROVE FALSE
    BY Zenon
  <2>1. y \in Nat /\ m \in Nat /\ y < m
    BY SMTT(20)
  <2>2. << y, m >> \in Nat \X Nat /\ << y, m >>[1] < << y, m >>[2]
    BY SMTT(20), <2>1
  <2>3. << y, m >> \in OpToRel(<, Nat)
    BY Zenon, <2>2 DEF OpToRel
  <2> QED  BY Zenon, <1>1, <2>3
<1> QED  BY Zenon, <1>2

\* f[i] is what the first i sequences of s give, for i up to n.
Concats(f, s, n) == \A i \in 1 .. n : f[i] = IF i = 1 THEN s[i] ELSE f[i - 1] \o s[i]

\* The same, with sequences over S.
ConcatsIn(f, s, n, S) == f \in [1 .. n -> Seq(S)] /\ Concats(f, s, n)

\* Two of them, of sequences that agree.
BothConcats(f, s, g, t, n) ==
    n \in Nat /\ Concats(f, s, n) /\ Concats(g, t, n) /\ \A i \in 1 .. n : s[i] = t[i]

\* They are the same.
SameConcats(f, g, n) == \A k \in 1 .. n : f[k] = g[k]

\* There are such concatenations.
LEMMA ConcatsExist ==
    ASSUME NEW S, NEW s \in Seq(Seq(S)), NEW n \in Nat, n <= Len(s)
    PROVE  \E f : ConcatsIn(f, s, n, S)
<1> DEFINE Bad == {k \in Nat : k <= Len(s) /\ ~ \E f : ConcatsIn(f, s, k, S)}
<1> SUFFICES ASSUME Bad # {}  PROVE FALSE
  BY Zenon
<1>1. PICK k \in Bad : k \in Nat /\ \A x \in Bad : k <= x
  BY Zenon, LeastNumber
<1>2. k <= Len(s) /\ Len(s) \in Nat /\ ~ \E f : ConcatsIn(f, s, k, S)
  BY Zenon, LenProperties
<1>3. k # 0
  <2> SUFFICES ASSUME k = 0  PROVE FALSE
    BY Zenon
  <2> DEFINE f == [i \in 1 .. 0 |-> << >>]
  <2>1. f \in [1 .. 0 -> Seq(S)] /\ 1 .. 0 = {}
    BY SMTT(20)
  <2>2. ConcatsIn(f, s, 0, S)
    BY Zenon, <2>1 DEF ConcatsIn, Concats
  <2> QED  BY Zenon, <1>2, <2>2
<1>4. k - 1 \in Nat /\ k - 1 <= Len(s) /\ ~(k <= k - 1) /\ k \in 1 .. Len(s) /\ k - 1 + 1 = k
  BY SMTT(20), <1>1, <1>2, <1>3
<1>5. k - 1 \notin Bad
  BY Zenon, <1>1, <1>4
<1>6. PICK f : ConcatsIn(f, s, k - 1, S)
  BY Zenon, <1>4, <1>5
<1>7. s[k] \in Seq(S)
  BY Zenon, <1>4, ElementOfSeq
<1> DEFINE g == [i \in 1 .. k |-> IF i = k THEN IF k = 1 THEN s[k] ELSE f[k - 1] \o s[k] ELSE f[i]]
<1>8. \A i \in 1 .. k : i = k \/ (i \in 1 .. k - 1 /\ i # k)
  BY SMTT(20), <1>1
<1>9. \A i \in 1 .. k : i # 1 => i - 1 \in 1 .. k /\ i - 1 # k /\ i - 1 \in 1 .. k - 1
  BY SMTT(20), <1>1
<1>10. k \in 1 .. k
  BY SMTT(20), <1>4
<1>11. \A i \in 1 .. k - 1 : f[i] \in Seq(S) /\ f[i] = IF i = 1 THEN s[i] ELSE f[i - 1] \o s[i]
  BY Zenon, <1>6 DEF ConcatsIn, Concats
<1>12. k # 1 => f[k - 1] \o s[k] \in Seq(S)
  <2> SUFFICES ASSUME k # 1  PROVE f[k - 1] \o s[k] \in Seq(S)
    BY Zenon
  <2>1. f[k - 1] \in Seq(S)
    BY Zenon, <1>9, <1>10, <1>11
  <2> QED  BY Zenon, <1>7, <2>1, ConcatProperties
<1>13. \A i \in 1 .. k : g[i] = IF i = k THEN IF k = 1 THEN s[k] ELSE f[k - 1] \o s[k] ELSE f[i]
  BY Zenon
<1>14. g \in [1 .. k -> Seq(S)]
  <2>1. \A i \in 1 .. k : g[i] \in Seq(S)
    BY Zenon, <1>7, <1>8, <1>11, <1>12, <1>13
  <2> QED  BY Zenon, <2>1
<1> HIDE DEF g
<1>15. ASSUME NEW i \in 1 .. k  PROVE g[i] = IF i = 1 THEN s[i] ELSE g[i - 1] \o s[i]
  <2>1. CASE i = k
    <3>1. CASE k = 1
      BY Zenon, <1>10, <1>13, <2>1, <3>1
    <3>2. CASE k # 1
      <4>1. g[k] = f[k - 1] \o s[k]
        BY Zenon, <1>10, <1>13, <3>2
      <4>2. g[k - 1] = f[k - 1]
        BY Zenon, <1>9, <1>10, <1>13, <3>2
      <4> QED  BY Zenon, <2>1, <3>2, <4>1, <4>2
    <3> QED  BY Zenon, <3>1, <3>2
  <2>2. CASE i # k
    <3>1. i \in 1 .. k - 1 /\ g[i] = f[i]
      BY Zenon, <1>8, <1>13, <2>2
    <3>2. i # 1 => g[i - 1] = f[i - 1]
      BY Zenon, <1>9, <1>13
    <3> QED  BY Zenon, <1>11, <3>1, <3>2
  <2> QED  BY Zenon, <2>1, <2>2
<1>16. ConcatsIn(g, s, k, S)
  BY Zenon, <1>14, <1>15 DEF ConcatsIn, Concats
<1> QED  BY Zenon, <1>2, <1>16

\* They are determined by the sequences.
LEMMA ConcatsUnique ==
    ASSUME NEW s, NEW t, NEW f, NEW g, NEW n, BothConcats(f, s, g, t, n)
    PROVE  SameConcats(f, g, n)
<1> DEFINE Bad == {i \in Nat : i \in 1 .. n /\ f[i] # g[i]}
<1> SUFFICES ASSUME NEW k \in 1 .. n, f[k] # g[k]  PROVE FALSE
  BY Zenon DEF SameConcats
<1>0. n \in Nat /\ Concats(f, s, n) /\ Concats(g, t, n) /\ \A i \in 1 .. n : s[i] = t[i]
  BY Zenon DEF BothConcats
<1>a. k \in Nat
  BY SMTT(20), <1>0
<1>1. PICK m \in Bad : m \in Nat /\ \A x \in Bad : m <= x
  BY Zenon, <1>a, LeastNumber
<1>2. m \in 1 .. n /\ f[m] # g[m] /\ s[m] = t[m]
  BY Zenon, <1>0
<1>3. m # 1
  BY Zenon, <1>0, <1>2 DEF Concats
<1>4. m - 1 \in Nat /\ m - 1 \in 1 .. n /\ ~(m <= m - 1)
  BY SMTT(20), <1>0, <1>2, <1>3
<1>5. f[m - 1] = g[m - 1]
  BY Zenon, <1>1, <1>4
<1>6. f[m] = f[m - 1] \o s[m] /\ g[m] = g[m - 1] \o t[m]
  BY Zenon, <1>0, <1>2, <1>3 DEF Concats
<1> QED  BY Zenon, <1>2, <1>5, <1>6

\* What FlattenSeq returns for a sequence that is not empty.
LEMMA FlattenIs ==
    ASSUME NEW S, NEW s \in Seq(Seq(S)), s # << >>, NEW f, ConcatsIn(f, s, Len(s), S)
    PROVE  FlattenSeq(s) = f[Len(s)]
<1> DEFINE h == CHOOSE x : x = [i \in 1 .. Len(s) |-> IF i = 1 THEN s[i] ELSE x[i - 1] \o s[i]]
<1>1. Len(s) \in Nat /\ Len(s) # 0 /\ Len(s) \in 1 .. Len(s)
  BY SMTT(20)
<1>2. FlattenSeq(s) = h[Len(s)]
  BY Zenon, <1>1 DEF FlattenSeq
<1>3. f = [i \in 1 .. Len(s) |-> IF i = 1 THEN s[i] ELSE f[i - 1] \o s[i]]
  BY Zenon DEF ConcatsIn, Concats
<1>4. h = [i \in 1 .. Len(s) |-> IF i = 1 THEN s[i] ELSE h[i - 1] \o s[i]]
  BY Zenon, <1>3
<1> HIDE DEF h
<1>5. BothConcats(f, s, h, s, Len(s))
  BY Zenon, <1>1, <1>3, <1>4 DEF Concats, BothConcats
<1>6. f[Len(s)] = h[Len(s)]
  <2>1. SameConcats(f, h, Len(s))
    BY Zenon, <1>5, ConcatsUnique
  <2> QED  BY Zenon, <1>1, <2>1 DEF SameConcats
<1> QED  BY Zenon, <1>2, <1>6

\* Nothing gives nothing.
LEMMA FlattenEmpty == FlattenSeq(<< >>) = << >>
<1>1. Len(<< >>) = 0
  BY SMTT(20)
<1> QED  BY Zenon, <1>1 DEF FlattenSeq

\* One sequence more.
LEMMA FlattenAppend ==
    ASSUME NEW S, NEW s \in Seq(Seq(S)), NEW e \in Seq(S)
    PROVE  FlattenSeq(s) \in Seq(S) /\ FlattenSeq(Append(s, e)) = FlattenSeq(s) \o e
<1> DEFINE n == Len(s)
           t == Append(s, e)
<1>1. n \in Nat
  BY Zenon, LenProperties
<1> HIDE DEF t, n
<1>2. t \in Seq(Seq(S)) /\ t # << >> /\ Len(t) = n + 1 /\ (\A i \in 1 .. n : t[i] = s[i]) /\ t[n + 1] = e
  <2> DEFINE T == Seq(S)
  <2>1. s \in Seq(T) /\ e \in T
    BY Zenon
  <2> HIDE DEF T
  <2>2. t \in Seq(T) /\ t # << >> /\ Len(t) = n + 1 /\ (\A i \in 1 .. n : t[i] = s[i]) /\ t[n + 1] = e
    <3>1. t \in Seq(T) /\ Len(t) = n + 1 /\ t[n + 1] = e
      BY SMTT(20), <2>1 DEF n, t
    <3>2. \A i \in 1 .. n : t[i] = s[i]
      BY SMTT(20), <2>1 DEF n, t
    <3>3. t # << >>
      BY SMTT(20), <3>1, <1>1
    <3> QED  BY Zenon, <3>1, <3>2, <3>3
  <2> QED  BY Zenon, <2>2 DEF T
<1>3. n + 1 \in Nat /\ n + 1 <= n + 1 /\ n <= n /\ n + 1 \in 1 .. n + 1 /\ (n + 1) - 1 = n
      /\ \A i \in 1 .. n : i \in 1 .. n + 1
  BY SMTT(20), <1>1
<1>4. PICK g : ConcatsIn(g, t, n + 1, S)
  BY Zenon, <1>2, <1>3, ConcatsExist
<1>5. FlattenSeq(t) = g[n + 1]
  BY Zenon, <1>2, <1>4, FlattenIs
<1>6. CASE s = << >>
  <2>1. n = 0
    BY SMTT(20), <1>6 DEF n
  <2>2. n + 1 = 1
    BY SMTT(20), <2>1
  <2>3. g[n + 1] = e
    BY Zenon, <1>2, <1>3, <1>4, <2>2 DEF ConcatsIn, Concats
  <2>4. FlattenSeq(s) = << >> /\ << >> \in Seq(S) /\ << >> \o e = e
    BY Zenon, <1>6, FlattenEmpty, EmptySeq, ConcatEmptySeq
  <2> QED  BY Zenon, <1>5, <2>3, <2>4 DEF t
<1>7. CASE s # << >>
  <2>1. n # 0 /\ n \in 1 .. n
    BY SMTT(20), <1>1, <1>7 DEF n
  <2>2. n + 1 # 1
    BY SMTT(20), <1>1, <2>1
  <2>3. PICK f : ConcatsIn(f, s, n, S)
    BY Zenon, <1>1, <1>3, ConcatsExist DEF n
  <2>4. FlattenSeq(s) = f[n] /\ f[n] \in Seq(S)
    BY Zenon, <1>7, <2>1, <2>3, FlattenIs DEF n, ConcatsIn
  <2>5. f[n] = g[n]
    <3>1. Concats(f, s, n)
      BY Zenon, <2>3 DEF ConcatsIn
    <3>2. Concats(g, t, n)
      BY Zenon, <1>3, <1>4 DEF ConcatsIn, Concats
    <3>3. \A i \in 1 .. n : s[i] = t[i]
      BY Zenon, <1>2
    <3>4. BothConcats(f, s, g, t, n)
      BY Zenon, <1>1, <3>1, <3>2, <3>3 DEF BothConcats
    <3>5. SameConcats(f, g, n)
      BY Zenon, <3>4, ConcatsUnique
    <3> QED  BY Zenon, <2>1, <3>5 DEF SameConcats
  <2>6. g[n + 1] = IF n + 1 = 1 THEN t[n + 1] ELSE g[(n + 1) - 1] \o t[n + 1]
    <3> DEFINE m == n + 1
    <3>1. Concats(g, t, m) /\ m \in 1 .. m
      BY Zenon, <1>3, <1>4 DEF ConcatsIn
    <3> HIDE DEF m
    <3>2. g[m] = IF m = 1 THEN t[m] ELSE g[m - 1] \o t[m]
      BY Zenon, <3>1 DEF Concats
    <3> QED  BY Zenon, <3>2 DEF m
  <2> QED  BY Zenon, <1>2, <1>3, <1>5, <2>2, <2>4, <2>5, <2>6 DEF t
<1> QED  BY Zenon, <1>6, <1>7

-----------------------------------------------------------------------------
(***************************************************************************)
(* Reading on request.                                                     *)
(***************************************************************************)

\* Delimiters are not 0, and where they are asked for, no read fills the buffer
\* to its end.
DelimsApart == Delims # {} => ~FullReads /\ 0 \notin Delims

\* What is in the buffer lies within it.
BufferIn(b) ==
    /\ b \in [base : Seq(Byte), head : Nat, tail : Nat, own : BOOLEAN]
    /\ b.head <= b.tail /\ b.tail <= Len(b.base)

\* Between two reads there is a byte to spare, and nothing is left in a buffer
\* that is the loop's.
BufferOK(b) ==
    /\ BufferIn(b)
    /\ b.tail < Len(b.base)
    /\ ~b.own => b.tail = 0

\* A request for a length has room for all of it, in a buffer of the io's own,
\* unless it was refused (over); and behind what is left in the buffer nio_read put a 0.
RequestOK(b, f, u, ov) ==
    /\ f = "length" => u \in Nat /\ b.tail - b.head < u /\ (~ov => b.head + u <= Len(b.base))
    /\ f = "delim" => u \in Delims
    /\ f # "none" => ov \/ b.own
    /\ f # "length" /\ b.head # b.tail => b.base[b.tail + 1] = 0

RuTypeOK ==
    /\ flag \in {"none", "length", "delim"} /\ once \in BOOLEAN
    /\ out \in Seq(Seq(Byte)) /\ taken \in Seq(Byte)

RuInv ==
    /\ RuTypeOK
    /\ BufferOK(rb)
    /\ RequestOK(rb, flag, until, over)
    /\ flag # "none" => once
    /\ StreamExact

\* The fields of a buffer.
LEMMA BufferFields ==
    ASSUME NEW b, BufferIn(b)
    PROVE  /\ b.base \in Seq(Byte) /\ b.head \in Nat /\ b.tail \in Nat /\ b.own \in BOOLEAN
           /\ Len(b.base) \in Nat /\ b.head <= b.tail /\ b.tail <= Len(b.base)
           /\ b.tail - b.head \in Nat
           /\ b = [base |-> b.base, head |-> b.head, tail |-> b.tail, own |-> b.own]
BY SMTT(20) DEF BufferIn

\* What is in the buffer.
LEMMA DataIs ==
    ASSUME NEW b, BufferIn(b)
    PROVE  /\ Data(b) \in Seq(Byte) /\ Len(Data(b)) = b.tail - b.head
           /\ \A i \in 1 .. b.tail - b.head : Data(b)[i] = b.base[b.head + i]
<1> DEFINE s == b.base
           h == b.head
           t == b.tail
<1>1. s \in Seq(Byte) /\ h \in Nat /\ t \in Nat /\ h <= t /\ t <= Len(s) /\ Len(s) \in Nat
  BY Zenon, BufferFields
<1>2. Data(b) = SubSeq(s, h + 1, t)
  BY Zenon DEF Data
<1> HIDE DEF s, h, t
<1>3. SubSeq(s, h + 1, t) \in Seq(Byte) /\ Len(SubSeq(s, h + 1, t)) = t - h
      /\ \A i \in 1 .. t - h : SubSeq(s, h + 1, t)[i] = s[h + i]
  BY SMTT(20), <1>1
<1> QED  BY Zenon, <1>2, <1>3 DEF s, h, t

\* Buffers that hold the same bytes hold the same data.
LEMMA SameData ==
    ASSUME NEW b, BufferIn(b), NEW c, BufferIn(c), c.tail - c.head = b.tail - b.head,
           \A i \in 1 .. b.tail - b.head : c.base[c.head + i] = b.base[b.head + i]
    PROVE  Data(c) = Data(b)
<1> DEFINE p == Data(c)
           q == Data(b)
           n == b.tail - b.head
<1>1. p \in Seq(Byte) /\ q \in Seq(Byte) /\ Len(p) = n /\ Len(q) = n
  BY Zenon, DataIs
<1>2. \A i \in 1 .. n : p[i] = q[i]
  BY Zenon, DataIs
<1> HIDE DEF p, q, n
<1>3. p = q
  BY Zenon, <1>1, <1>2, SeqEqual
<1> QED  BY Zenon, <1>3 DEF p, q

\* An empty buffer starts again at its beginning.
LEMMA RewoundOK ==
    ASSUME NEW b, BufferIn(b)
    PROVE  /\ BufferIn(Rewound(b)) /\ Data(Rewound(b)) = Data(b)
           /\ Rewound(b).base = b.base /\ Rewound(b).own = b.own
           /\ b.head = b.tail => Rewound(b).head = 0 /\ Rewound(b).tail = 0
           /\ b.head # b.tail => Rewound(b) = b
<1>1. CASE b.head # b.tail
  BY Zenon, <1>1 DEF Rewound
<1>2. CASE b.head = b.tail
  <2> DEFINE c == [b EXCEPT !.head = 0, !.tail = 0]
  <2>1. Rewound(b) = c
    BY Zenon, <1>2 DEF Rewound
  <2>a. b.base \in Seq(Byte) /\ b.head \in Nat /\ b.tail \in Nat /\ Len(b.base) \in Nat
    BY Zenon, BufferFields
  <2>2. c.head = 0 /\ c.tail = 0 /\ c.base = b.base /\ c.own = b.own
        /\ c \in [base : Seq(Byte), head : Nat, tail : Nat, own : BOOLEAN]
    <3>1. b \in [base : Seq(Byte), head : Nat, tail : Nat, own : BOOLEAN]
      BY Zenon DEF BufferIn
    <3>2. c.base = b.base /\ c.own = b.own /\ c.head = 0 /\ c.tail = 0
      BY Zenon, <3>1
    <3>3. c \in [base : Seq(Byte), head : Nat, tail : Nat, own : BOOLEAN]
      BY Zenon, <3>1, 0 \in Nat
    <3> QED  BY Zenon, <3>2, <3>3
  <2> HIDE DEF c
  <2>3. b.tail - b.head = 0 /\ c.tail - c.head = 0 /\ c.head <= c.tail /\ c.tail <= Len(c.base)
    BY SMTT(20), <1>2, <2>2, <2>a
  <2>4. BufferIn(c)
    BY Zenon, <2>2, <2>3 DEF BufferIn
  <2>5. \A i \in 1 .. b.tail - b.head : c.base[c.head + i] = b.base[b.head + i]
    BY SMTT(20), <2>3
  <2>6. Data(c) = Data(b)
    BY Zenon, <2>3, <2>4, <2>5, SameData
  <2> QED  BY Zenon, <1>2, <2>1, <2>2, <2>4, <2>6 DEF c
<1> QED  BY Zenon, <1>1, <1>2

\* Handing up n bytes leaves the others.
LEMMA DataSplit ==
    ASSUME NEW b, BufferIn(b), NEW n \in Nat, n <= b.tail - b.head
    PROVE  LET p == SubSeq(Data(b), 1, n)
               c == [b EXCEPT !.head = @ + Len(p)]
           IN  /\ p \in Seq(Byte) /\ Len(p) = n
               /\ BufferIn(c) /\ c.head = b.head + n /\ c.tail = b.tail /\ c.base = b.base /\ c.own = b.own
               /\ Data(b) = p \o Data(c)
<1> DEFINE d == Data(b)
           p == SubSeq(Data(b), 1, n)
           c == [b EXCEPT !.head = @ + Len(p)]
<1>1. d \in Seq(Byte) /\ Len(d) = b.tail - b.head /\ (\A i \in 1 .. b.tail - b.head : d[i] = b.base[b.head + i])
  BY Zenon, DataIs
<1> HIDE DEF d
<1>2. b.base \in Seq(Byte) /\ b.head \in Nat /\ b.tail \in Nat /\ Len(b.base) \in Nat /\ b.head <= b.tail
      /\ b.tail <= Len(b.base)
  BY Zenon, BufferFields
<1>3. SubSeq(d, 1, n) \in Seq(Byte) /\ Len(SubSeq(d, 1, n)) = n /\ \A i \in 1 .. n : SubSeq(d, 1, n)[i] = d[i]
  BY SMTT(20), <1>1, <1>2
<1>4. p \in Seq(Byte) /\ Len(p) = n /\ \A i \in 1 .. n : p[i] = d[i]
  BY Zenon, <1>3 DEF d
<1> HIDE DEF p
<1>5. c.head = b.head + n /\ c.tail = b.tail /\ c.base = b.base /\ c.own = b.own
      /\ c \in [base : Seq(Byte), head : Nat, tail : Nat, own : BOOLEAN]
  BY SMTT(20), <1>2, <1>4 DEF BufferIn
<1> HIDE DEF c
<1>6. BufferIn(c)
  BY SMTT(20), <1>2, <1>5 DEF BufferIn
<1>7. Data(c) \in Seq(Byte) /\ Len(Data(c)) = c.tail - c.head
      /\ (\A i \in 1 .. c.tail - c.head : Data(c)[i] = c.base[c.head + i])
  BY Zenon, <1>6, DataIs
<1>8. d = p \o Data(c)
  <2> DEFINE q == Data(c)
             h == b.head
             t == b.tail
             s == b.base
  <2>1. q \in Seq(Byte) /\ Len(q) = t - (h + n) /\ \A i \in 1 .. t - (h + n) : q[i] = s[(h + n) + i]
    BY Zenon, <1>5, <1>7
  <2>2. d \in Seq(Byte) /\ Len(d) = t - h /\ (\A i \in 1 .. t - h : d[i] = s[h + i]) /\ n <= t - h
        /\ h \in Nat /\ t \in Nat
    BY Zenon, <1>1, <1>2
  <2> HIDE DEF q, h, t, s
  <2>3. p \o q \in Seq(Byte) /\ Len(p \o q) = Len(d)
    BY SMTT(20), <1>4, <2>1, <2>2
  <2>4. ASSUME NEW i \in 1 .. Len(d)  PROVE d[i] = (p \o q)[i]
    <3>1. CASE i <= n
      BY SMTT(20), <1>4, <2>1, <2>2, <3>1
    <3>2. CASE ~(i <= n)
      <4>1. (p \o q)[i] = q[i - n] /\ i - n \in 1 .. t - (h + n) /\ (h + n) + (i - n) = h + i /\ i \in 1 .. t - h
        BY SMTT(20), <1>4, <2>1, <2>2, <3>2
      <4> QED  BY Zenon, <2>1, <2>2, <4>1
    <3> QED  BY Zenon, <3>1, <3>2
  <2>5. d = p \o q
    BY Zenon, <2>2, <2>3, <2>4, SeqEqual
  <2> QED  BY Zenon, <2>5 DEF q
<1> QED  BY Zenon, <1>4, <1>5, <1>6, <1>8 DEF d, p, c

(***************************************************************************)
(* hio_read_cb: the first n bytes of the buffer b are handed up.  What is  *)
(* left needs a byte to spare, in a buffer of the io's own.                *)
(***************************************************************************)
LEMMA HandUpOK ==
    ASSUME RuTypeOK, NEW b, BufferIn(b), NEW n \in Nat, n <= b.tail - b.head, 0 < Len(b.base),
           n < b.tail - b.head => b.tail < Len(b.base) /\ b.own,
           NEW from, HandUp(b, SubSeq(Data(b), 1, n), from)
    PROVE  /\ BufferOK(rb')
           /\ out' \in Seq(Seq(Byte)) /\ once' \in BOOLEAN
           /\ FlattenSeq(out') \o Data(rb') = FlattenSeq(out) \o Data(b)
           /\ rb'.head # rb'.tail => rb'.base = b.base /\ rb'.tail = b.tail /\ b.head # b.tail
<1> DEFINE p == SubSeq(Data(b), 1, n)
           c == [b EXCEPT !.head = @ + Len(p)]
<1>1. p \in Seq(Byte) /\ Len(p) = n /\ BufferIn(c) /\ c.head = b.head + n /\ c.tail = b.tail
      /\ c.base = b.base /\ c.own = b.own /\ Data(b) = p \o Data(c)
  BY Zenon, DataSplit
<1>2. out' = Append(out, p) /\ rb' = Rewound(c) /\ once' = FALSE
  BY Zenon DEF HandUp
<1> HIDE DEF p, c
<1>3. b.head \in Nat /\ b.tail \in Nat /\ Len(b.base) \in Nat /\ b.head <= b.tail
  BY Zenon, BufferFields
<1>4. /\ BufferIn(rb') /\ Data(rb') = Data(c) /\ rb'.base = b.base /\ rb'.own = b.own
      /\ c.head = c.tail => rb'.head = 0 /\ rb'.tail = 0
      /\ c.head # c.tail => rb' = c
  BY Zenon, <1>1, <1>2, RewoundOK
<1>5. c.head # c.tail => n < b.tail - b.head /\ b.head # b.tail
  BY SMTT(20), <1>1, <1>3
<1>6. BufferOK(rb')
  BY Zenon, <1>1, <1>4, <1>5 DEF BufferOK
<1>7. FlattenSeq(out) \in Seq(Byte) /\ FlattenSeq(out') = FlattenSeq(out) \o p
  BY Zenon, <1>1, <1>2, FlattenAppend DEF RuTypeOK
<1>8. out' \in Seq(Seq(Byte))
  <2> DEFINE T == Seq(Byte)
  <2>1. out \in Seq(T) /\ p \in T
    BY Zenon, <1>1 DEF RuTypeOK
  <2> HIDE DEF T
  <2>2. Append(out, p) \in Seq(T)
    BY SMTT(20), <2>1
  <2> QED  BY Zenon, <1>2, <2>2 DEF T
<1>9. Data(c) \in Seq(Byte)
  BY Zenon, <1>1, DataIs
<1>10. (FlattenSeq(out) \o p) \o Data(c) = FlattenSeq(out) \o (p \o Data(c))
  <2> DEFINE u == FlattenSeq(out)
             v == Data(c)
  <2>1. u \in Seq(Byte) /\ p \in Seq(Byte) /\ v \in Seq(Byte)
    BY Zenon, <1>1, <1>7, <1>9
  <2> HIDE DEF u, v
  <2>2. (u \o p) \o v = u \o (p \o v)
    BY SMTT(20), <2>1, ConcatAssociative
  <2> QED  BY Zenon, <2>2 DEF u, v
<1>11. FlattenSeq(out') \o Data(rb') = FlattenSeq(out) \o Data(b)
  BY Zenon, <1>1, <1>4, <1>7, <1>10
<1>12. rb'.head # rb'.tail => rb'.base = b.base /\ rb'.tail = b.tail /\ b.head # b.tail
  BY Zenon, <1>1, <1>4, <1>5
<1> QED  BY Zenon, <1>2, <1>6, <1>8, <1>11, <1>12

\* hio_alloc_readbuf keeps what is in the buffer.
LEMMA ResizedOK ==
    ASSUME ReadUntilAssumption, NEW b, BufferOK(b), NEW n \in Nat \ {0}, b.own => Len(b.base) <= n
    PROVE  LET c == Resized(b, n)
           IN  /\ BufferOK(c) /\ Data(c) = Data(b)
               /\ c.head = b.head /\ c.tail = b.tail /\ Len(c.base) = n
               /\ c.head # c.tail => c.base[c.tail + 1] = b.base[b.tail + 1]
<1> DEFINE s == b.base
           w == IF ~b.own THEN Zeros(n) ELSE [i \in 1 .. n |-> IF i <= Len(s) THEN s[i] ELSE 0]
           c == [b EXCEPT !.base = w, !.own = TRUE]
<1>1. Resized(b, n) = c
  BY Zenon DEF Resized
<1>2. s \in Seq(Byte) /\ b.head \in Nat /\ b.tail \in Nat /\ Len(s) \in Nat /\ b.own \in BOOLEAN
      /\ b.head <= b.tail /\ b.tail < Len(s) /\ (~b.own => b.tail = 0)
      /\ b \in [base : Seq(Byte), head : Nat, tail : Nat, own : BOOLEAN]
  BY Zenon, BufferFields DEF BufferOK, BufferIn
<1> HIDE DEF s
<1>3. w \in Seq(Byte) /\ Len(w) = n /\ (b.own => \A i \in 1 .. Len(s) : w[i] = s[i])
  <2>1. CASE b.own
    <3> DEFINE v == [i \in 1 .. n |-> IF i <= Len(s) THEN s[i] ELSE 0]
    <3>1. v \in Seq(Byte) /\ Len(v) = n /\ \A i \in 1 .. Len(s) : v[i] = s[i]
      <4>1. \A i \in 1 .. n : (IF i <= Len(s) THEN s[i] ELSE 0) \in Byte
        BY SMTT(20), <1>2 DEF ReadUntilAssumption
      <4>2. v \in [1 .. n -> Byte]
        BY Zenon, <4>1
      <4>3. \A i \in 1 .. Len(s) : i \in 1 .. n /\ i <= Len(s)
        BY SMTT(20), <1>2, <2>1 DEF s
      <4>4. \A i \in 1 .. Len(s) : v[i] = s[i]
        BY Zenon, <4>3
      <4> HIDE DEF v
      <4>5. v \in Seq(Byte) /\ Len(v) = n
        BY SMTT(20), <4>2
      <4> QED  BY Zenon, <4>4, <4>5
    <3>2. w = v
      BY Zenon, <2>1
    <3> QED  BY Zenon, <3>1, <3>2
  <2>2. CASE ~b.own
    <3>1. w = Zeros(n)
      BY Zenon, <2>2
    <3>2. Zeros(n) \in Seq(Byte) /\ Len(Zeros(n)) = n
      BY SMTT(20) DEF Zeros, ReadUntilAssumption
    <3> QED  BY Zenon, <2>2, <3>1, <3>2
  <2> QED  BY Zenon, <2>1, <2>2
<1> HIDE DEF w
<1>4. c.head = b.head /\ c.tail = b.tail /\ c.base = w /\ c.own = TRUE
      /\ c \in [base : Seq(Byte), head : Nat, tail : Nat, own : BOOLEAN]
  BY Zenon, <1>2, <1>3
<1> HIDE DEF c
<1>5. c.tail < Len(c.base) /\ c.tail <= Len(c.base) /\ c.tail - c.head = b.tail - b.head
  BY SMTT(20), <1>2, <1>3, <1>4 DEF s
<1>6. BufferOK(c)
  BY Zenon, <1>2, <1>4, <1>5 DEF BufferOK, BufferIn
<1>7. \A i \in 1 .. b.tail - b.head : b.own /\ b.head + i \in 1 .. Len(s)
  BY SMTT(20), <1>2
<1>8. \A i \in 1 .. b.tail - b.head : c.base[c.head + i] = b.base[b.head + i]
  <2> SUFFICES ASSUME NEW i \in 1 .. b.tail - b.head  PROVE c.base[c.head + i] = b.base[b.head + i]
    BY Zenon
  <2>1. b.own /\ b.head + i \in 1 .. Len(s)
    BY Zenon, <1>7
  <2>2. w[b.head + i] = s[b.head + i]
    BY Zenon, <1>3, <2>1
  <2> QED  BY Zenon, <1>4, <2>2 DEF s
<1>9. Data(c) = Data(b)
  <2>1. BufferIn(b) /\ BufferIn(c)
    BY Zenon, <1>6 DEF BufferOK
  <2> QED  BY Zenon, <1>5, <1>8, <2>1, SameData
<1>10. c.head # c.tail => b.own /\ b.tail + 1 \in 1 .. Len(s)
  BY SMTT(20), <1>2, <1>4
<1>11. c.head # c.tail => c.base[c.tail + 1] = b.base[b.tail + 1]
  BY Zenon, <1>3, <1>4, <1>10 DEF s
<1> QED  BY Zenon, <1>1, <1>3, <1>4, <1>6, <1>9, <1>11

\* hio_memmove_readbuf moves it to the beginning.
LEMMA MovedOK ==
    ASSUME NEW b, BufferOK(b)
    PROVE  LET c == Moved(b)
           IN  /\ BufferOK(c) /\ Data(c) = Data(b)
               /\ c.head = 0 /\ c.tail = b.tail - b.head /\ Len(c.base) = Len(b.base) /\ c.own = b.own
<1>1. b.base \in Seq(Byte) /\ b.head \in Nat /\ b.tail \in Nat /\ Len(b.base) \in Nat /\ b.own \in BOOLEAN
      /\ b.head <= b.tail /\ b.tail < Len(b.base) /\ (~b.own => b.tail = 0) /\ BufferIn(b)
      /\ b \in [base : Seq(Byte), head : Nat, tail : Nat, own : BOOLEAN]
  BY Zenon, BufferFields DEF BufferOK, BufferIn
<1>2. CASE b.tail <= b.head
  <2>1. b.head = b.tail /\ b.tail - b.head = 0 /\ 0 < Len(b.base)
    BY SMTT(20), <1>1, <1>2
  <2>2. Moved(b) = Rewound(b)
    BY Zenon, <1>2 DEF Moved
  <2> QED  BY Zenon, <1>1, <2>1, <2>2, RewoundOK DEF BufferOK
<1>3. CASE ~(b.tail <= b.head)
  <2> DEFINE n == b.tail - b.head
             s == b.base
             d == Data(b)
             w == d \o SubSeq(s, n + 1, Len(s))
             c == [b EXCEPT !.base = w, !.head = 0, !.tail = n]
  <2>1. Moved(b) = c
    BY Zenon, <1>3 DEF Moved
  <2>2. d \in Seq(Byte) /\ Len(d) = n /\ (\A i \in 1 .. n : d[i] = s[b.head + i]) /\ n \in Nat
    BY Zenon, <1>1, DataIs, BufferFields
  <2>3. n < Len(s) /\ s \in Seq(Byte) /\ Len(s) \in Nat /\ b.own
    BY SMTT(20), <1>1, <1>3
  <2> HIDE DEF n, s, d
  <2>4. w \in Seq(Byte) /\ Len(w) = Len(s) /\ \A i \in 1 .. n : w[i] = d[i]
    <3> DEFINE e == SubSeq(s, n + 1, Len(s))
    <3>1. e \in Seq(Byte) /\ Len(e) = Len(s) - n
      BY SMTT(20), <2>2, <2>3
    <3> HIDE DEF e
    <3>2. d \o e \in Seq(Byte) /\ Len(d \o e) = n + (Len(s) - n) /\ \A i \in 1 .. n : (d \o e)[i] = d[i]
      BY SMTT(20), <2>2, <3>1
    <3>3. n + (Len(s) - n) = Len(s)
      BY SMTT(20), <2>2, <2>3
    <3> QED  BY Zenon, <3>2, <3>3 DEF e
  <2> HIDE DEF w
  <2>5. c.head = 0 /\ c.tail = n /\ c.base = w /\ c.own = b.own
        /\ c \in [base : Seq(Byte), head : Nat, tail : Nat, own : BOOLEAN]
    BY Zenon, <1>1, <2>2, <2>4, 0 \in Nat
  <2> HIDE DEF c
  <2>6. c.head <= c.tail /\ c.tail <= Len(c.base) /\ c.tail < Len(c.base) /\ c.tail - c.head = b.tail - b.head
        /\ \A i \in 1 .. b.tail - b.head : c.head + i = i /\ i \in 1 .. n
    BY SMTT(20), <1>1, <2>2, <2>3, <2>4, <2>5 DEF n
  <2>7. BufferOK(c)
    BY Zenon, <2>3, <2>5, <2>6 DEF BufferOK, BufferIn
  <2>8. \A i \in 1 .. b.tail - b.head : c.base[c.head + i] = b.base[b.head + i]
    BY Zenon, <2>2, <2>4, <2>5, <2>6 DEF s
  <2>9. Data(c) = Data(b)
    BY Zenon, <1>1, <2>6, <2>7, <2>8, SameData DEF BufferOK
  <2> QED  BY Zenon, <2>1, <2>4, <2>5, <2>7, <2>9 DEF n, s
<1> QED  BY Zenon, <1>2, <1>3

\* nio_read puts what it read behind what is there, and a 0 if there is room.
LEMMA ReceivedOK ==
    ASSUME ReadUntilAssumption, BufferIn(rb), NEW c \in Seq(Byte), Len(c) <= Len(rb.base) - rb.tail
    PROVE  LET b == Received(c)
           IN  /\ BufferIn(b) /\ Data(b) = Data(rb) \o c
               /\ b.head = rb.head /\ b.tail = rb.tail + Len(c) /\ Len(b.base) = Len(rb.base) /\ b.own = rb.own
               /\ Len(c) < Room /\ b.tail < Len(b.base) => b.base[b.tail + 1] = 0
<1> DEFINE s == rb.base
           h == rb.head
           t == rb.tail
           m == Len(c)
           w == [i \in 1 .. Size |-> IF i - rb.tail \in 1 .. Len(c) THEN c[i - rb.tail]
                                     ELSE IF i = rb.tail + Len(c) + 1 /\ Len(c) < Room THEN 0
                                     ELSE rb.base[i]]
           b == [rb EXCEPT !.tail = @ + Len(c), !.base = w]
<1>1. Received(c) = b
  BY Zenon DEF Received
<1>2. s \in Seq(Byte) /\ h \in Nat /\ t \in Nat /\ Len(s) \in Nat /\ h <= t /\ t <= Len(s)
      /\ rb \in [base : Seq(Byte), head : Nat, tail : Nat, own : BOOLEAN] /\ m \in Nat
  BY Zenon, BufferFields, LenProperties DEF BufferIn
<1>a. m <= Len(s) - t
  BY Zenon
<1>3. w = [i \in 1 .. Len(s) |-> IF i - t \in 1 .. m THEN c[i - t]
                                 ELSE IF i = t + m + 1 /\ m < Room THEN 0 ELSE s[i]]
  BY Zenon DEF Size
<1> HIDE DEF s, h, t, m, w
<1>4. \A i \in 1 .. Len(s) : w[i] = IF i - t \in 1 .. m THEN c[i - t]
                                    ELSE IF i = t + m + 1 /\ m < Room THEN 0 ELSE s[i]
  BY Zenon, <1>3
<1>5. w \in Seq(Byte) /\ Len(w) = Len(s)
  <2>1. ASSUME NEW i \in 1 .. Len(s)  PROVE w[i] \in Byte
    <3>1. s[i] \in Byte
      BY Zenon, <1>2, ElementOfSeq
    <3>2. \A j \in 1 .. m : c[j] \in Byte
      BY Zenon, ElementOfSeq DEF m
    <3>3. 0 \in Byte
      BY Zenon DEF ReadUntilAssumption
    <3> QED  BY Zenon, <1>4, <3>1, <3>2, <3>3
  <2>2. w \in [1 .. Len(s) -> Byte]
    BY Zenon, <1>3, <2>1
  <2> DEFINE k == Len(s)
  <2>3. k \in Nat /\ w \in [1 .. k -> Byte]
    BY Zenon, <1>2, <2>2
  <2> HIDE DEF k
  <2>4. w \in Seq(Byte) /\ Len(w) = k
    BY SMTT(20), <2>3
  <2> QED  BY Zenon, <2>4 DEF k
<1>6. b.head = h /\ b.tail = t + m /\ b.base = w /\ b.own = rb.own
  BY Zenon, <1>2 DEF h, t, m
<1>7. b \in [base : Seq(Byte), head : Nat, tail : Nat, own : BOOLEAN]
  <2>1. rb.tail + Len(c) \in Nat
    BY SMTT(20), <1>2 DEF t, m
  <2> QED  BY Zenon, <1>2, <1>5, <2>1
<1> HIDE DEF b
<1>8. b.head <= b.tail /\ b.tail <= Len(b.base) /\ b.tail - b.head = (t - h) + m /\ t - h \in Nat
      /\ (b.tail < Len(b.base) => t + m + 1 \in 1 .. Len(s) /\ ~((t + m + 1) - t \in 1 .. m))
      /\ b.tail + 1 = t + m + 1
  BY SMTT(20), <1>2, <1>a, <1>5, <1>6
<1>9. BufferIn(b)
  BY Zenon, <1>7, <1>8 DEF BufferIn
<1>10. m < Room /\ b.tail < Len(b.base) => b.base[b.tail + 1] = 0
  BY Zenon, <1>4, <1>6, <1>8
<1>11. Data(b) = Data(rb) \o c
  <2> DEFINE p == Data(b)
             q == Data(rb)
             n == t - h
  <2>1. p \in Seq(Byte) /\ Len(p) = n + m /\ \A i \in 1 .. n + m : p[i] = w[h + i]
    BY Zenon, <1>6, <1>8, <1>9, DataIs
  <2>2. q \in Seq(Byte) /\ Len(q) = n /\ \A i \in 1 .. n : q[i] = s[h + i]
    BY Zenon, DataIs DEF s, t, h
  <2>3. n \in Nat /\ n = t - h
    BY Zenon, <1>8
  <2> HIDE DEF p, q, n
  <2>4. q \o c \in Seq(Byte) /\ Len(q \o c) = Len(p)
        /\ \A i \in 1 .. n + m : (q \o c)[i] = IF i <= n THEN q[i] ELSE c[i - n]
    BY Zenon, <2>1, <2>2, ConcatProperties DEF m
  <2>5. ASSUME NEW i \in 1 .. Len(p)  PROVE p[i] = (q \o c)[i]
    <3>0. i \in 1 .. n + m
      BY Zenon, <2>1
    <3>1. CASE i <= n
      <4>1. h + i \in 1 .. Len(s) /\ ~((h + i) - t \in 1 .. m) /\ h + i # t + m + 1 /\ i \in 1 .. n
        BY SMTT(20), <1>2, <1>a, <2>3, <3>0, <3>1
      <4> QED  BY Zenon, <1>4, <2>1, <2>2, <2>4, <3>0, <3>1, <4>1
    <3>2. CASE ~(i <= n)
      <4>1. h + i \in 1 .. Len(s) /\ (h + i) - t \in 1 .. m /\ (h + i) - t = i - n
        BY SMTT(20), <1>2, <1>a, <2>3, <3>0, <3>2
      <4> QED  BY Zenon, <1>4, <2>1, <2>4, <3>0, <3>2, <4>1
    <3> QED  BY Zenon, <3>1, <3>2
  <2>6. p = q \o c
    BY Zenon, <2>1, <2>4, <2>5, SeqEqual
  <2> QED  BY Zenon, <2>6 DEF p, q
<1> QED  BY Zenon, <1>1, <1>5, <1>6, <1>9, <1>10, <1>11 DEF s, h, t, m

\* A request that what is buffered meets: the first n bytes are handed up.
LEMMA RequestMet ==
    ASSUME ReadUntilAssumption, RuInv, ~once, NEW n \in Nat, n <= rb.tail - rb.head, NEW from,
           HandUp(rb, SubSeq(Data(rb), 1, n), from), UNCHANGED << flag, until, over, taken >>
    PROVE  RuInv'
<1>1. /\ RuTypeOK /\ BufferOK(rb) /\ BufferIn(rb) /\ RequestOK(rb, flag, until, over)
      /\ flag = "none" /\ StreamExact
  BY Zenon DEF RuInv, BufferOK
<1>2. rb.head \in Nat /\ rb.tail \in Nat /\ Len(rb.base) \in Nat /\ rb.head <= rb.tail /\ rb.tail < Len(rb.base)
      /\ (~rb.own => rb.tail = 0)
  BY Zenon, <1>1, BufferFields DEF BufferOK
<1>3. 0 < Len(rb.base) /\ (n < rb.tail - rb.head => rb.tail < Len(rb.base) /\ rb.own)
  BY SMTT(20), <1>2
<1>4. /\ BufferOK(rb') /\ out' \in Seq(Seq(Byte)) /\ once' \in BOOLEAN
      /\ FlattenSeq(out') \o Data(rb') = FlattenSeq(out) \o Data(rb)
      /\ rb'.head # rb'.tail => rb'.base = rb.base /\ rb'.tail = rb.tail /\ rb.head # rb.tail
  BY Zenon, <1>1, <1>3, HandUpOK
<1>5. RequestOK(rb', flag', until', over')
  BY Zenon, <1>1, <1>4 DEF RequestOK
<1> QED  BY Zenon, <1>1, <1>4, <1>5 DEF RuInv, RuTypeOK, StreamExact

\* A sequence is its own first Len(s) elements.
LEMMA WholeSeq ==
    ASSUME NEW S, NEW s \in Seq(S)
    PROVE  SubSeq(s, 1, Len(s)) = s
BY SMTT(20)

\* A set of numbers that is not empty has its minimum.
LEMMA MinOf ==
    ASSUME NEW S, S \subseteq Nat, S # {}
    PROVE  Min(S) \in S
<1>1. \E m \in S : \A x \in S : m <= x
  BY Zenon, LeastNumber
<1> QED  BY Zenon, <1>1 DEF Min

\* hio_alloc_readbuf, which may refuse, keeps what is in the buffer.
LEMMA AllocOK ==
    ASSUME ReadUntilAssumption, NEW b, BufferOK(b), NEW n \in Nat \ {0}, ~b.own \/ Len(b.base) < n,
           Alloc(b, n)
    PROVE  /\ BufferOK(rb') /\ Data(rb') = Data(b) /\ rb'.head = b.head /\ rb'.tail = b.tail
           /\ over' \/ (rb'.own /\ Len(rb'.base) = n)
           /\ rb'.head # rb'.tail => rb'.base[rb'.tail + 1] = b.base[b.tail + 1]
<1>1. CASE n > MaxBufSize
  BY Zenon, <1>1 DEF Alloc
<1>2. CASE ~(n > MaxBufSize)
  <2>1. rb' = Resized(b, n)
    BY Zenon, <1>2 DEF Alloc
  <2>2. b.own => Len(b.base) <= n
    <3>1. b.own \in BOOLEAN /\ Len(b.base) \in Nat
      BY Zenon, BufferFields DEF BufferOK
    <3> QED  BY SMTT(20), <3>1
  <2>3. /\ BufferOK(rb') /\ Data(rb') = Data(b) /\ rb'.head = b.head /\ rb'.tail = b.tail
        /\ Len(rb'.base) = n
        /\ rb'.head # rb'.tail => rb'.base[rb'.tail + 1] = b.base[b.tail + 1]
    BY Zenon, <2>1, <2>2, ResizedOK
  <2>4. rb'.own
    <3>1. b \in [base : Seq(Byte), head : Nat, tail : Nat, own : BOOLEAN]
      BY Zenon DEF BufferOK, BufferIn
    <3> QED  BY Zenon, <2>1, <3>1 DEF Resized
  <2> QED  BY Zenon, <2>3, <2>4
<1> QED  BY Zenon, <1>1, <1>2

\* A request that has to wait leaves the stream as it is.
LEMMA RequestOpen ==
    ASSUME RuInv, BufferOK(rb'), Data(rb') = Data(rb), RequestOK(rb', flag', until', over'),
           flag' \in {"none", "length", "delim"}, once', UNCHANGED << out, taken >>, once' \in BOOLEAN
    PROVE  RuInv'
BY Zenon DEF RuInv, RuTypeOK, StreamExact

\* hio_read_until_length.
LEMMA ReadUntilLengthOK ==
    ASSUME ReadUntilAssumption, RuInv, NEW n \in Lengths, ReadUntilLength(n)
    PROVE  RuInv'
<1>1. n \in Nat /\ BufferOK(rb) /\ BufferIn(rb) /\ rb.tail - rb.head \in Nat
  BY Zenon, BufferFields DEF ReadUntilAssumption, RuInv, BufferOK
<1>2. CASE Buffered >= n
  <2>1. n <= rb.tail - rb.head
    BY SMTT(20), <1>1, <1>2 DEF Buffered
  <2>2. ~once /\ HandUp(rb, SubSeq(Data(rb), 1, n), caller) /\ UNCHANGED << flag, until, over, taken >>
    BY Zenon, <1>2 DEF ReadUntilLength, MayAsk
  <2> QED  BY Zenon, <1>1, <2>1, <2>2, RequestMet
<1>3. CASE ~(Buffered >= n)
  <2> DEFINE b == Moved(rb)
  <2>1. /\ flag' = "length" /\ until' = n /\ once' = TRUE /\ UNCHANGED << out, taken >>
        /\ IF ~b.own \/ Len(b.base) < b.head + n THEN Alloc(b, b.head + n) ELSE rb' = b /\ UNCHANGED over
    BY Zenon, <1>3 DEF ReadUntilLength, Asks
  <2>2. /\ BufferOK(b) /\ Data(b) = Data(rb) /\ b.head = 0 /\ b.tail = rb.tail - rb.head
        /\ Len(b.base) \in Nat /\ b.own \in BOOLEAN
    BY Zenon, <1>1, MovedOK, BufferFields DEF BufferOK
  <2> HIDE DEF b
  <2>3. b.head + n \in Nat \ {0} /\ b.tail - b.head < n /\ b.tail \in Nat
    BY SMTT(20), <1>1, <1>3, <2>2 DEF Buffered
  <2>4. CASE ~b.own \/ Len(b.base) < b.head + n
    <3>1. /\ BufferOK(rb') /\ Data(rb') = Data(b) /\ rb'.head = b.head /\ rb'.tail = b.tail
          /\ over' \/ (rb'.own /\ Len(rb'.base) = b.head + n)
      BY Zenon, <2>1, <2>2, <2>3, <2>4, AllocOK
    <3>2. rb'.tail - rb'.head < n /\ b.head + n <= b.head + n
      BY SMTT(20), <2>3, <3>1
    <3>3. RequestOK(rb', flag', until', over')
      BY Zenon, <1>1, <2>1, <3>1, <3>2 DEF RequestOK
    <3> QED  BY Zenon, <2>1, <2>2, <3>1, <3>3, RequestOpen
  <2>5. CASE ~(~b.own \/ Len(b.base) < b.head + n)
    <3>1. rb' = b /\ b.own
      BY Zenon, <2>1, <2>5
    <3>2. b.head + n <= Len(b.base)
      BY SMTT(20), <1>1, <2>2, <2>5
    <3>3. RequestOK(rb', flag', until', over')
      BY Zenon, <1>1, <2>1, <2>3, <3>1, <3>2 DEF RequestOK
    <3> QED  BY Zenon, <2>1, <2>2, <3>1, <3>3, RequestOpen
  <2> QED  BY Zenon, <2>4, <2>5
<1> QED  BY Zenon, <1>2, <1>3

\* hio_read_until_delim: the byte behind the tail is 0, not a delimiter.
LEMMA ReadUntilDelimOK ==
    ASSUME ReadUntilAssumption, DelimsApart, RuInv, NEW d \in Delims, NEW x \in Behind, ReadUntilDelim(d, x)
    PROVE  RuInv'
<1> DEFINE D == Data(rb)
           s == IF Buffered > 0 THEN Append(D, x) ELSE << >>
           hits == {i \in 1 .. Len(s) : s[i] = d}
<1>1. /\ BufferOK(rb) /\ BufferIn(rb) /\ rb.tail - rb.head \in Nat /\ ~once /\ flag = "none" /\ d # 0
      /\ rb.head \in Nat /\ rb.tail \in Nat /\ rb.tail < Len(rb.base) /\ Len(rb.base) \in Nat /\ rb.own \in BOOLEAN
      /\ RequestOK(rb, flag, until, over)
  BY Zenon, BufferFields DEF RuInv, BufferOK, DelimsApart, ReadUntilDelim, MayAsk
<1>2. rb.head # rb.tail => x = 0
  BY Zenon, <1>1 DEF Behind, Size, RequestOK
<1>3. D \in Seq(Byte) /\ Len(D) = rb.tail - rb.head
  BY Zenon, <1>1, DataIs
<1> HIDE DEF D
<1>4. CASE hits # {}
  <2> DEFINE m == Min(hits)
  <2>1. Len(s) \in Nat /\ hits \subseteq Nat
    <3>1. Len(s) \in Nat
      BY SMTT(20), <1>3
    <3> HIDE DEF s
    <3> QED  BY SMTT(20), <3>1
  <2>2. m \in hits
    BY Zenon, <1>4, <2>1, MinOf
  <2>3. m \in 1 .. Len(s) /\ s[m] = d
    BY Zenon, <2>2
  <2>4. ~once /\ HandUp(rb, SubSeq(s, 1, m), caller) /\ UNCHANGED << flag, until, over, taken >>
    BY Zenon, <1>1, <1>4 DEF ReadUntilDelim, D
  <2> HIDE DEF m, hits
  <2>5. Buffered > 0
    <3> SUFFICES ASSUME ~(Buffered > 0)  PROVE FALSE
      BY Zenon
    <3>1. s = << >>
      BY Zenon
    <3> HIDE DEF s
    <3> QED  BY SMTT(20), <2>3, <3>1
  <2>6. s = Append(D, x) /\ x = 0
    <3>1. rb.head # rb.tail
      BY SMTT(20), <1>1, <2>5 DEF Buffered
    <3> QED  BY Zenon, <1>2, <2>5, <3>1
  <2> HIDE DEF s
  <2>7. m \in Nat /\ m <= Len(D)
    BY SMTT(20), <1>1, <1>3, <2>3, <2>6
  <2>8. SubSeq(s, 1, m) = SubSeq(D, 1, m)
    BY SMTT(20), <1>3, <2>6, <2>7
  <2> QED  BY Zenon, <1>3, <2>4, <2>7, <2>8, RequestMet DEF D
<1>5. CASE hits = {}
  <2>1. /\ flag' = "delim" /\ until' = d /\ once' = TRUE /\ UNCHANGED << out, taken >>
        /\ IF ~rb.own \/ Size < ReadBufSize THEN Alloc(rb, ReadBufSize) ELSE UNCHANGED << rb, over >>
    BY Zenon, <1>5 DEF ReadUntilDelim, Asks, D
  <2> HIDE DEF hits, s
  <2>2. CASE ~rb.own \/ Size < ReadBufSize
    <3>1. ReadBufSize \in Nat \ {0} /\ (~rb.own \/ Len(rb.base) < ReadBufSize) /\ Alloc(rb, ReadBufSize)
      BY Zenon, <2>1, <2>2 DEF ReadUntilAssumption, Size
    <3>2. /\ BufferOK(rb') /\ Data(rb') = Data(rb) /\ rb'.head = rb.head /\ rb'.tail = rb.tail
          /\ over' \/ rb'.own
          /\ rb'.head # rb'.tail => rb'.base[rb'.tail + 1] = rb.base[rb.tail + 1]
      BY Zenon, <1>1, <3>1, AllocOK
    <3>3. RequestOK(rb', flag', until', over')
      BY Zenon, <1>1, <2>1, <3>2 DEF RequestOK
    <3> QED  BY Zenon, <2>1, <3>2, <3>3, RequestOpen
  <2>3. CASE ~(~rb.own \/ Size < ReadBufSize)
    <3>1. UNCHANGED << rb, over >> /\ rb.own
      BY Zenon, <2>1, <2>3
    <3>2. RequestOK(rb', flag', until', over')
      BY Zenon, <1>1, <2>1, <3>1 DEF RequestOK
    <3> QED  BY Zenon, <1>1, <2>1, <3>1, <3>2, RequestOpen
  <2> QED  BY Zenon, <2>2, <2>3
<1> QED  BY Zenon, <1>4, <1>5

\* hio_read_remain hands up all there is.
LEMMA ReadRemainOK ==
    ASSUME ReadUntilAssumption, RuInv, ReadRemain
    PROVE  RuInv'
<1> DEFINE D == Data(rb)
           n == rb.tail - rb.head
<1>1. BufferIn(rb) /\ n \in Nat /\ D \in Seq(Byte) /\ Len(D) = n
  BY Zenon, BufferFields, DataIs DEF RuInv, BufferOK
<1>2. ~once /\ HandUp(rb, D, caller) /\ UNCHANGED << flag, until, over, taken >>
  BY Zenon DEF ReadRemain, MayAsk
<1> HIDE DEF D
<1>3. D = SubSeq(D, 1, n)
  BY Zenon, <1>1, WholeSeq
<1>4. n <= rb.tail - rb.head
  BY SMTT(20), <1>1
<1> HIDE DEF n
<1> QED  BY Zenon, <1>1, <1>2, <1>3, <1>4, RequestMet DEF D

\* hio_read_once.
LEMMA ReadOnceOK ==
    ASSUME RuInv, ReadOnce
    PROVE  RuInv'
BY Zenon, RequestOpen DEF ReadOnce, Asks, RuInv, RuTypeOK

\* An empty buffer holds nothing.
LEMMA NoData ==
    ASSUME NEW b, BufferIn(b), b.head = b.tail
    PROVE  Data(b) = << >>
<1> DEFINE D == Data(b)
<1>1. D \in Seq(Byte) /\ Len(D) = b.tail - b.head /\ b.tail \in Nat
  BY Zenon, DataIs, BufferFields
<1> HIDE DEF D
<1>2. Len(D) = 0
  BY SMTT(20), <1>1
<1>3. D = << >>
  BY SMTT(20), <1>1, <1>2
<1> QED  BY Zenon, <1>3 DEF D

\* hio_read.
LEMMA ReadStartOK ==
    ASSUME RuInv, ReadStart
    PROVE  RuInv'
<1>1. /\ RuTypeOK /\ BufferOK(rb) /\ BufferIn(rb) /\ RequestOK(rb, flag, until, over) /\ StreamExact
      /\ flag = "none" /\ UNCHANGED << flag, until, once, over, taken >>
  BY Zenon DEF RuInv, BufferOK, ReadStart
<1>2. CASE Buffered > 0
  <2> DEFINE b == [rb EXCEPT !.head = 0, !.tail = 0]
             D == Data(rb)
             u == FlattenSeq(out)
  <2>1. out' = Append(out, D) /\ rb' = b
    BY Zenon, <1>2 DEF ReadStart
  <2>2. /\ b.head = 0 /\ b.tail = 0 /\ b.base = rb.base
        /\ b \in [base : Seq(Byte), head : Nat, tail : Nat, own : BOOLEAN]
    <3>1. rb \in [base : Seq(Byte), head : Nat, tail : Nat, own : BOOLEAN]
      BY Zenon, <1>1 DEF BufferIn
    <3> QED  BY Zenon, <3>1, 0 \in Nat
  <2> HIDE DEF b
  <2>3. b.head <= b.tail /\ b.tail < Len(b.base) /\ b.tail <= Len(b.base)
    <3>1. rb.tail \in Nat /\ Len(rb.base) \in Nat /\ rb.tail < Len(rb.base)
      BY Zenon, <1>1, BufferFields DEF BufferOK
    <3> QED  BY SMTT(20), <2>2, <3>1
  <2>4. BufferOK(b) /\ BufferIn(b)
    BY Zenon, <2>2, <2>3 DEF BufferOK, BufferIn
  <2>5. Data(b) = << >>
    BY Zenon, <2>2, <2>4, NoData
  <2>6. D \in Seq(Byte)
    BY Zenon, <1>1, DataIs
  <2> HIDE DEF D
  <2>7. u \in Seq(Byte) /\ FlattenSeq(out') = u \o D
    BY Zenon, <1>1, <2>1, <2>6, FlattenAppend DEF RuTypeOK
  <2>8. out' \in Seq(Seq(Byte))
    <3> DEFINE T == Seq(Byte)
    <3>1. out \in Seq(T) /\ D \in T
      BY Zenon, <1>1, <2>6 DEF RuTypeOK
    <3> HIDE DEF T
    <3>2. Append(out, D) \in Seq(T)
      BY SMTT(20), <3>1
    <3> QED  BY Zenon, <2>1, <3>2 DEF T
  <2>9. FlattenSeq(out') \o Data(rb') = taken
    <3>1. u \o D = taken
      BY Zenon, <1>1 DEF StreamExact, D
    <3> HIDE DEF u
    <3>2. u \o D \in Seq(Byte)
      BY Zenon, <2>6, <2>7, ConcatProperties
    <3>3. (u \o D) \o << >> = u \o D
      BY Zenon, <3>2, ConcatEmptySeq
    <3> QED  BY Zenon, <2>1, <2>5, <2>7, <3>1, <3>3
  <2>10. RequestOK(rb', flag', until', over')
    BY Zenon, <1>1, <2>1, <2>2 DEF RequestOK
  <2> QED  BY Zenon, <1>1, <2>1, <2>4, <2>8, <2>9, <2>10 DEF RuInv, RuTypeOK, StreamExact
<1>3. CASE ~(Buffered > 0)
  <2>1. UNCHANGED << out, rb >>
    BY Zenon, <1>3 DEF ReadStart
  <2> QED  BY Zenon, <1>1, <2>1 DEF RuInv, RuTypeOK, StreamExact
<1> QED  BY Zenon, <1>2, <1>3

\* With a byte to spare, readbuf autosize only rewinds an empty buffer.
LEMMA AutosizeOK ==
    ASSUME NEW b, BufferOK(b), NEW f, NEW u, NEW ov, RequestOK(b, f, u, ov), Autosize(b)
    PROVE  BufferOK(rb') /\ Data(rb') = Data(b) /\ RequestOK(rb', f, u, ov) /\ UNCHANGED over
<1> DEFINE r == Rewound(b)
<1>1. /\ BufferIn(b) /\ b.head \in Nat /\ b.tail \in Nat /\ Len(b.base) \in Nat /\ b.tail < Len(b.base)
      /\ (~b.own => b.tail = 0)
  BY Zenon, BufferFields DEF BufferOK
<1>2. /\ BufferIn(r) /\ Data(r) = Data(b) /\ r.base = b.base /\ r.own = b.own
      /\ b.head = b.tail => r.head = 0 /\ r.tail = 0
      /\ b.head # b.tail => r = b
  BY Zenon, <1>1, RewoundOK
<1> HIDE DEF r
<1>3. r.tail < Len(r.base) /\ r.tail # Len(r.base) /\ (~r.own => r.tail = 0)
  BY SMTT(20), <1>1, <1>2
<1>4. rb' = r /\ UNCHANGED over
  BY Zenon, <1>3 DEF Autosize, r
<1>5. RequestOK(r, f, u, ov)
  <2>1. CASE b.head # b.tail
    BY Zenon, <1>2, <2>1
  <2>2. CASE b.head = b.tail
    <3>1. f = "length" => u \in Nat /\ b.tail - b.head < u /\ (~ov => b.head + u <= Len(b.base))
      BY Zenon DEF RequestOK
    <3>2. f = "length" => u \in Nat /\ r.tail - r.head < u /\ (~ov => r.head + u <= Len(r.base))
      BY SMTT(20), <1>1, <1>2, <2>2, <3>1
    <3> QED  BY Zenon, <1>2, <2>2, <3>2 DEF RequestOK
  <2> QED  BY Zenon, <2>1, <2>2
<1> QED  BY Zenon, <1>2, <1>3, <1>4, <1>5 DEF BufferOK

\* The callback returns.
LEMMA ReturnedOK ==
    ASSUME RuInv, Returned
    PROVE  RuInv'
<1>1. BufferOK(rb) /\ RequestOK(rb, flag, until, over) /\ UNCHANGED << flag, until, once, taken, out >>
  BY Zenon DEF RuInv, Returned
<1>2. BufferOK(rb') /\ Data(rb') = Data(rb) /\ RequestOK(rb', flag, until, over) /\ UNCHANGED over
  <2>1. CASE caller = "handler"
    BY Zenon, <1>1, <2>1, AutosizeOK DEF Returned
  <2>2. CASE caller # "handler"
    BY Zenon, <1>1, <2>2 DEF Returned
  <2> QED  BY Zenon, <2>1, <2>2
<1> QED  BY Zenon, <1>1, <1>2 DEF RuInv, RuTypeOK, StreamExact

\* What was handed up, and the buffer with what was just read, is the stream.
LEMMA StreamGrows ==
    ASSUME RuInv, NEW c \in Seq(Byte), NEW b, Data(b) = Data(rb) \o c
    PROVE  FlattenSeq(out) \o Data(b) = taken \o c
<1> DEFINE u == FlattenSeq(out)
           D == Data(rb)
<1>1. u \in Seq(Byte) /\ D \in Seq(Byte) /\ u \o D = taken
  <2>1. << >> \in Seq(Byte)
    BY Zenon, EmptySeq
  <2> QED  BY Zenon, <2>1, FlattenAppend, DataIs DEF RuInv, RuTypeOK, StreamExact, BufferOK
<1>2. Data(b) = D \o c
  BY Zenon
<1> HIDE DEF u, D
<1>3. (u \o D) \o c = u \o (D \o c)
  <2>1. u \in Seq(Byte) /\ D \in Seq(Byte) /\ c \in Seq(Byte)
    BY Zenon, <1>1
  <2> QED  BY SMTT(20), <2>1, ConcatAssociative
<1> QED  BY Zenon, <1>1, <1>2, <1>3 DEF u

\* nio_read and hio_handle_read.
LEMMA NioReadOK ==
    ASSUME ReadUntilAssumption, DelimsApart, RuInv, NEW c \in Seq(Byte), NioRead(c)
    PROVE  RuInv'
<1> DEFINE b == Received(c)
           n == b.tail - b.head
           m == Len(c)
           hits == {i \in 1 .. n : i > n - Len(c) /\ Data(b)[i] = until}
<1>1. /\ RuTypeOK /\ BufferOK(rb) /\ BufferIn(rb) /\ RequestOK(rb, flag, until, over)
      /\ ~over /\ m <= Room /\ ((flag # "length" /\ ~FullReads) => m < Room)
      /\ taken' = taken \o c /\ UNCHANGED until
  BY Zenon DEF RuInv, BufferOK, NioRead
<1>2. /\ \/ /\ flag = "length" /\ n >= until
            /\ HandUp(b, SubSeq(Data(b), 1, until), "handler") /\ flag' = "none" /\ UNCHANGED over
         \/ /\ flag = "delim" /\ hits # {}
            /\ HandUp(b, SubSeq(Data(b), 1, Min(hits)), "return") /\ flag' = "none" /\ UNCHANGED over
         \/ /\ flag = "none"
            /\ HandUp(b, Data(b), "handler") /\ UNCHANGED << flag, over >>
         \/ /\ \/ flag = "length" /\ n < until
               \/ flag = "delim" /\ hits = {}
            /\ Autosize(b) /\ UNCHANGED << flag, once, reading, caller, out >>
  BY Zenon DEF NioRead
<1>3. /\ rb.head \in Nat /\ rb.tail \in Nat /\ Len(rb.base) \in Nat /\ rb.head <= rb.tail
      /\ rb.tail < Len(rb.base) /\ m \in Nat
  BY Zenon, <1>1, BufferFields, LenProperties DEF BufferOK
<1>4. /\ flag = "length" => until \in Nat /\ rb.head + until <= Len(rb.base) /\ rb.own
      /\ flag = "delim" => until \in Delims /\ rb.own
  BY Zenon, <1>1 DEF RequestOK
<1>5. flag = "length" => Room = until - (rb.tail - rb.head)
  BY Zenon DEF Room, Buffered
<1>6. flag # "length" => Room = Len(rb.base) - rb.tail
  BY Zenon DEF Room, Size
<1>7. m <= Len(rb.base) - rb.tail
  BY SMTT(20), <1>1, <1>3, <1>4, <1>5, <1>6
<1>8. /\ BufferIn(b) /\ Data(b) = Data(rb) \o c
      /\ b.head = rb.head /\ b.tail = rb.tail + m /\ Len(b.base) = Len(rb.base) /\ b.own = rb.own
      /\ m < Room /\ b.tail < Len(b.base) => b.base[b.tail + 1] = 0
  BY Zenon, <1>1, <1>7, ReceivedOK
<1>9. FlattenSeq(out) \o Data(b) = taken \o c
  BY Zenon, <1>8, StreamGrows
<1>10. Data(b) \in Seq(Byte) /\ Len(Data(b)) = n
  BY Zenon, <1>8, DataIs
<1> HIDE DEF b, m
<1>11. n \in Nat /\ n = (rb.tail - rb.head) + m /\ 0 < Len(b.base)
  BY SMTT(20), <1>3, <1>8
<1>12. taken \o c \in Seq(Byte)
  BY Zenon, <1>1, ConcatProperties DEF RuTypeOK
<1> HIDE DEF n, hits
<1>13. ASSUME NEW k \in Nat, k <= n, k < n => b.tail < Len(b.base) /\ b.own /\ b.base[b.tail + 1] = 0,
              NEW from, HandUp(b, SubSeq(Data(b), 1, k), from), flag' = "none"
       PROVE  RuInv'
  <2>1. /\ BufferOK(rb') /\ out' \in Seq(Seq(Byte)) /\ once' \in BOOLEAN
        /\ FlattenSeq(out') \o Data(rb') = FlattenSeq(out) \o Data(b)
        /\ rb'.head # rb'.tail => rb'.base = b.base /\ rb'.tail = b.tail
    BY Zenon, <1>1, <1>8, <1>11, <1>13, HandUpOK DEF n
  <2>2. rb'.head # rb'.tail => k < n
    <3> SUFFICES ASSUME rb'.head # rb'.tail, ~(k < n)  PROVE FALSE
      BY Zenon
    <3>1. k = n
      BY SMTT(20), <1>11, <1>13
    <3> DEFINE p == SubSeq(Data(b), 1, k)
               r == [b EXCEPT !.head = @ + Len(p)]
    <3>2. BufferIn(r) /\ r.head = b.head + k /\ r.tail = b.tail
      BY Zenon, <1>8, <1>13, DataSplit DEF n
    <3>3. rb' = Rewound(r)
      BY Zenon, <1>13 DEF HandUp
    <3> HIDE DEF r
    <3>4. r.head = r.tail
      BY SMTT(20), <1>3, <1>8, <3>1, <3>2 DEF n
    <3> QED  BY Zenon, <3>2, <3>3, <3>4, RewoundOK
  <2>3. RequestOK(rb', flag', until', over')
    BY Zenon, <1>13, <2>1, <2>2 DEF RequestOK
  <2> QED  BY Zenon, <1>1, <1>9, <1>12, <1>13, <2>1, <2>3 DEF RuInv, RuTypeOK, StreamExact
<1>14. CASE flag = "length" /\ n >= until /\ HandUp(b, SubSeq(Data(b), 1, until), "handler") /\ flag' = "none"
  <2>1. until \in Nat /\ until <= n /\ ~(until < n)
    BY SMTT(20), <1>1, <1>3, <1>4, <1>5, <1>11, <1>14
  <2> QED  BY Zenon, <1>13, <1>14, <2>1
<1>15. flag = "delim" => m < Room /\ b.own /\ b.tail < Len(b.base) /\ b.base[b.tail + 1] = 0
  <2> SUFFICES ASSUME flag = "delim"  PROVE m < Room /\ b.own /\ b.tail < Len(b.base) /\ b.base[b.tail + 1] = 0
    BY Zenon
  <2>1. m < Room /\ b.own
    BY Zenon, <1>1, <1>4, <1>8 DEF DelimsApart
  <2>2. b.tail < Len(b.base)
    BY SMTT(20), <1>3, <1>6, <1>8, <2>1
  <2> QED  BY Zenon, <1>8, <2>1, <2>2
<1>16. CASE flag = "delim" /\ hits # {} /\ HandUp(b, SubSeq(Data(b), 1, Min(hits)), "return") /\ flag' = "none"
  <2>1. hits \subseteq 1 .. n
    BY Zenon DEF hits
  <2>2. hits \subseteq Nat
    BY SMTT(20), <2>1
  <2>3. Min(hits) \in 1 .. n
    BY Zenon, <1>16, <2>1, <2>2, MinOf
  <2>4. Min(hits) \in Nat /\ Min(hits) <= n
    BY SMTT(20), <2>3, <1>11
  <2> QED  BY Zenon, <1>13, <1>15, <1>16, <2>4
<1>17. CASE flag = "none" /\ HandUp(b, Data(b), "handler") /\ UNCHANGED flag
  <2> DEFINE D == Data(b)
  <2> HIDE DEF D
  <2>1. D = SubSeq(D, 1, n)
    BY Zenon, <1>10, WholeSeq DEF D
  <2>2. n <= n /\ ~(n < n)
    BY SMTT(20), <1>11
  <2> QED  BY Zenon, <1>11, <1>13, <1>17, <2>1, <2>2 DEF D
<1>18. CASE /\ \/ flag = "length" /\ n < until
               \/ flag = "delim" /\ hits = {}
            /\ Autosize(b) /\ UNCHANGED << flag, once, reading, caller, out >>
  <2>1. b.own /\ b.tail < Len(b.base) /\ (flag = "length" => n < until /\ b.head + until <= Len(b.base))
    <3>1. CASE flag = "length"
      <4>1. n < until
        BY Zenon, <1>18, <3>1
      <4> QED  BY SMTT(20), <1>3, <1>4, <1>8, <1>11, <3>1, <4>1
    <3>2. CASE flag = "delim"
      BY Zenon, <1>15, <3>2
    <3> QED  BY Zenon, <1>18, <3>1, <3>2
  <2>2. BufferOK(b)
    BY Zenon, <1>8, <2>1 DEF BufferOK
  <2>3. RequestOK(b, flag, until, over)
    BY Zenon, <1>4, <1>15, <1>18, <2>1 DEF RequestOK, n
  <2>4. BufferOK(rb') /\ Data(rb') = Data(b) /\ RequestOK(rb', flag, until, over) /\ UNCHANGED over
    BY Zenon, <1>18, <2>2, <2>3, AutosizeOK
  <2> QED  BY Zenon, <1>1, <1>9, <1>12, <1>18, <2>4 DEF RuInv, RuTypeOK, StreamExact
<1> QED  BY Zenon, <1>2, <1>14, <1>16, <1>17, <1>18

\* The first state.
LEMMA RuInitOK ==
    ASSUME ReadUntilAssumption, RuInit
    PROVE  RuInv
<1>1. ReadBufSize \in Nat \ {0} /\ 0 \in Byte
  BY Zenon DEF ReadUntilAssumption
<1> DEFINE z == Zeros(ReadBufSize)
<1>2. z \in Seq(Byte) /\ Len(z) = ReadBufSize
  BY SMTT(20), <1>1 DEF Zeros
<1> HIDE DEF z
<1>3. /\ rb = [base |-> z, head |-> 0, tail |-> 0, own |-> FALSE] /\ flag = "none" /\ once = FALSE
      /\ taken = << >> /\ out = << >>
  BY Zenon DEF RuInit, z
<1>4. rb.base = z /\ rb.head = 0 /\ rb.tail = 0 /\ rb.own = FALSE
      /\ rb \in [base : Seq(Byte), head : Nat, tail : Nat, own : BOOLEAN]
  BY Zenon, <1>2, <1>3, 0 \in Nat
<1>5. rb.head <= rb.tail /\ rb.tail <= Len(rb.base) /\ rb.tail < Len(rb.base)
  BY SMTT(20), <1>1, <1>2, <1>4
<1>6. BufferIn(rb) /\ BufferOK(rb)
  BY Zenon, <1>4, <1>5 DEF BufferIn, BufferOK
<1>7. << >> \in Seq(Byte) /\ << >> \in Seq(Seq(Byte)) /\ << >> \o << >> = << >>
  BY Zenon, EmptySeq, ConcatEmptySeq
<1>8. FlattenSeq(out) \o Data(rb) = taken
  BY Zenon, <1>3, <1>4, <1>6, <1>7, NoData, FlattenEmpty
<1> QED  BY Zenon, <1>3, <1>4, <1>6, <1>7, <1>8 DEF RuInv, RuTypeOK, RequestOK, StreamExact

\* Every step keeps the invariant.
LEMMA RuNextOK ==
    ASSUME ReadUntilAssumption, DelimsApart, RuInv, [RuNext]_ruvars
    PROVE  RuInv'
<1>1. CASE \E n \in Lengths : ReadUntilLength(n)
  BY Zenon, <1>1, ReadUntilLengthOK
<1>2. CASE \E d \in Delims, x \in Behind : ReadUntilDelim(d, x)
  BY Zenon, <1>2, ReadUntilDelimOK
<1>3. CASE ReadRemain
  BY Zenon, <1>3, ReadRemainOK
<1>4. CASE ReadOnce
  BY Zenon, <1>4, ReadOnceOK
<1>5. CASE ReadStart
  BY Zenon, <1>5, ReadStartOK
<1>6. CASE Returned
  BY Zenon, <1>6, ReturnedOK
<1>7. CASE \E n \in 1 .. MaxBytes - Len(taken) : \E c \in [1 .. n -> Byte] : NioRead(c)
  <2>1. PICK n \in 1 .. MaxBytes - Len(taken) : \E c \in [1 .. n -> Byte] : NioRead(c)
    BY Zenon, <1>7
  <2>2. PICK c \in [1 .. n -> Byte] : NioRead(c)
    BY Zenon, <2>1
  <2>3. n \in Nat
    <3>1. MaxBytes \in Nat /\ Len(taken) \in Nat
      BY Zenon, LenProperties DEF RuInv, RuTypeOK, ReadUntilAssumption
    <3> QED  BY SMTT(20), <3>1
  <2>4. c \in Seq(Byte)
    BY SMTT(20), <2>3
  <2> QED  BY Zenon, <2>2, <2>4, NioReadOK
<1>8. CASE UNCHANGED ruvars
  BY Zenon, <1>8 DEF ruvars, RuInv, RuTypeOK, StreamExact
<1> QED  BY Zenon, <1>1, <1>2, <1>3, <1>4, <1>5, <1>6, <1>7, <1>8 DEF RuNext

\* nio_read finds room, inside the buffer.
LEMMA RoomAlways ==
    ASSUME RuInv
    PROVE  ReadHasRoom
<1>1. /\ rb.head \in Nat /\ rb.tail \in Nat /\ Len(rb.base) \in Nat /\ rb.head <= rb.tail
      /\ rb.tail < Len(rb.base) /\ RequestOK(rb, flag, until, over)
  BY Zenon, BufferFields DEF RuInv, BufferOK
<1>2. CASE flag = "length"
  <2>1. until \in Nat /\ rb.tail - rb.head < until /\ (~over => rb.head + until <= Len(rb.base))
    BY Zenon, <1>1, <1>2 DEF RequestOK
  <2>2. Room = until - (rb.tail - rb.head)
    BY Zenon, <1>2 DEF Room, Buffered
  <2>3. Room > 0 /\ (~over => rb.tail + Room <= Len(rb.base))
    BY SMTT(20), <1>1, <2>1, <2>2
  <2> QED  BY Zenon, <2>3 DEF ReadHasRoom, Size
<1>3. CASE flag # "length"
  <2>1. Room = Len(rb.base) - rb.tail
    BY Zenon, <1>3 DEF Room, Size
  <2>2. Room > 0 /\ rb.tail + Room <= Len(rb.base)
    BY SMTT(20), <1>1, <2>1
  <2> QED  BY Zenon, <2>2 DEF ReadHasRoom, Size
<1> QED  BY Zenon, <1>2, <1>3

(***************************************************************************)
(* However the reads split the stream and whatever the application asks    *)
(* for, what is handed up and what is buffered is what was received, and   *)
(* nio_read finds room inside the buffer (hio_read_until_length,           *)
(* hio_read_until_delim, hio_read_remain, hio_handle_read): unless         *)
(* delimiters are asked for and one of them is 0 or a read fills the       *)
(* buffer to its end (DelimsApart).                                        *)
(***************************************************************************)
THEOREM PiecesAlwaysExact ==
    ASSUME ReadUntilAssumption, DelimsApart
    PROVE  RuSpec => []PiecesExact
<1>1. RuInit => RuInv
  BY Zenon, RuInitOK
<1>2. RuInv /\ [RuNext]_ruvars => RuInv'
  BY Zenon, RuNextOK
<1>3. RuInv => PiecesExact
  BY Zenon, RoomAlways DEF RuInv, PiecesExact
<1> QED  BY <1>1, <1>2, <1>3, PTL DEF RuSpec
=============================================================================
