-------------------------- MODULE IoWatcherProof ----------------------------
(***************************************************************************)
(* Every engine reports every watched event that is ready, for any number  *)
(* of descriptors and any sequence of hio_add and hio_del.                 *)
(*                                                                         *)
(* The inductive invariant says of each engine what relates its own record *)
(* to io->events: equality for the interest lists and fd_sets, the count   *)
(* that decides whether to poll at all, the bijection between the arrays   *)
(* of poll and kqueue and the indexes into them, and one request at least  *)
(* for exactly the events of the descriptor with io_uring.  hio_add and    *)
(* hio_del keep it; the theorem follows by the poll of each engine.        *)
(***************************************************************************)
EXTENDS IoWatcher, FiniteSetTheorems, WellFoundedInduction, TLAPS

-----------------------------------------------------------------------------
(***************************************************************************)
(* The arrays of poll and kqueue, from which an entry is taken by moving   *)
(* the last one into its place: the indexes in the ios stay right whatever *)
(* is added, changed and taken away.                                       *)
(***************************************************************************)

\* An entry of pollfds.
PollFd == [fd : Fds, events : SUBSET Bits]

\* Each entry of pollfds is that of the descriptor that points to it; ev is what
\* is to be watched.
PollfdsOK(t, index, ev) ==
    /\ t \in Seq(PollFd) /\ index \in [Fds -> [Bits -> Int]]
    /\ \A i \in DOMAIN t : index[t[i].fd]["READ"] = i - 1
    /\ \A fd \in Fds : LET i == index[fd]["READ"] + 1
                       IN  IF ev[fd] = {} THEN i = 0
                           ELSE i \in DOMAIN t /\ t[i].fd = fd /\ t[i].events = ev[fd]

\* An entry of changes.
Change == [fd : Fds, events : Bits]

\* Likewise of the changes of kqueue, for each descriptor and filter; ev is what
\* is to be watched.
ChangesOK(t, index, ev) ==
    /\ t \in Seq(Change) /\ index \in [Fds -> [Bits -> Int]]
    /\ \A i \in DOMAIN t : index[t[i].fd][t[i].events] = i - 1
    /\ \A fd \in Fds, b \in Bits : LET i == index[fd][b] + 1
                                   IN  IF b \notin ev[fd] THEN i = 0
                                       ELSE i \in DOMAIN t /\ t[i].fd = fd /\ t[i].events = b
-----------------------------------------------------------------------------

\* The entries of an array.
LEMMA Entries ==
    ASSUME NEW T, NEW t \in Seq(T)
    PROVE  Len(t) \in Nat /\ DOMAIN t = 1 .. Len(t) /\ \A i \in DOMAIN t : t[i] \in T
BY SMTT(20)

\* Those after one more was put at the end.
LEMMA Appended ==
    ASSUME NEW T, NEW t \in Seq(T), NEW x \in T
    PROVE  /\ Append(t, x) \in Seq(T) /\ DOMAIN Append(t, x) = 1 .. Len(t) + 1
           /\ \A i \in DOMAIN t : Append(t, x)[i] = t[i]
           /\ Append(t, x)[Len(t) + 1] = x
BY SMTT(20)

\* A function on 1 .. n is an array.
LEMMA FunctionIsSeq ==
    ASSUME NEW T, NEW n \in Nat, NEW f \in [1 .. n -> T]
    PROVE  f \in Seq(T)
BY SMTT(20)

\* event_index after one assignment.
LEMMA SetIndex ==
    ASSUME NEW index \in [Fds -> [Bits -> Int]], NEW fd \in Fds, NEW b \in Bits, NEW v \in Int
    PROVE  /\ [index EXCEPT ![fd][b] = v] \in [Fds -> [Bits -> Int]]
           /\ \A g \in Fds, c \in Bits : [index EXCEPT ![fd][b] = v][g][c] = IF g = fd /\ c = b THEN v ELSE index[g][c]
BY Zenon

\* The fields of a change.
LEMMA ChangeParts == \A x \in Change : x.fd \in Fds /\ x.events \in Bits
BY Zenon DEF Change

\* The fields of a pollfd.
LEMMA PollFdParts == \A x \in PollFd : x.fd \in Fds /\ x.events \in SUBSET Bits
BY Zenon DEF PollFd

\* What is left of an array without its i-th entry.
LEMMA EntryGone ==
    ASSUME NEW T, NEW t \in Seq(T), NEW i \in DOMAIN t
    PROVE  /\ WithoutEntry(t, i) \in Seq(T) /\ DOMAIN WithoutEntry(t, i) = 1 .. Len(t) - 1
           /\ \A j \in 1 .. Len(t) - 1 : WithoutEntry(t, i)[j] = IF j = i THEN t[Len(t)] ELSE t[j]
<1> DEFINE u == [t EXCEPT ![i] = t[Len(t)]]
<1>1. u \in Seq(T) /\ Len(u) = Len(t) /\ Len(t) \in Nat /\ Len(t) > 0
  BY SMTT(20)
<1>2. \A j \in 1 .. Len(t) : u[j] = IF j = i THEN t[Len(t)] ELSE t[j]
  BY SMTT(20)
<1> HIDE DEF u
<1>3. /\ SubSeq(u, 1, Len(t) - 1) \in Seq(T) /\ DOMAIN SubSeq(u, 1, Len(t) - 1) = 1 .. Len(t) - 1
      /\ \A j \in 1 .. Len(t) - 1 : SubSeq(u, 1, Len(t) - 1)[j] = u[j]
  BY SMTT(20), <1>1
<1> QED  BY SMTT(20), <1>1, <1>2, <1>3 DEF u, WithoutEntry

\* The kernel's list stays a list of events.
LEMMA AppliedType ==
    ASSUME NEW in \in [Fds -> SUBSET Bits], NEW t
    PROVE  Applied(in, t) \in [Fds -> SUBSET Bits]
BY Zenon DEF Applied

\* One more change at the end.
LEMMA ChangeAdded ==
    ASSUME NEW t, NEW index, NEW ev \in [Fds -> SUBSET Bits], ChangesOK(t, index, ev),
           NEW fd \in Fds, NEW b \in Bits, b \notin ev[fd]
    PROVE  ChangesOK(Append(t, [fd |-> fd, events |-> b]), [index EXCEPT ![fd][b] = Len(t)],
                     [ev EXCEPT ![fd] = @ \cup {b}])
<1> DEFINE entry == [fd |-> fd, events |-> b]
           u == Append(t, entry)
           idx == [index EXCEPT ![fd][b] = Len(t)]
           e == [ev EXCEPT ![fd] = @ \cup {b}]
<1>1. /\ t \in Seq(Change) /\ index \in [Fds -> [Bits -> Int]]
      /\ Len(t) \in Nat /\ DOMAIN t = 1 .. Len(t) /\ \A i \in DOMAIN t : t[i].fd \in Fds /\ t[i].events \in Bits
  BY Zenon, Entries, ChangeParts DEF ChangesOK
<1>2. /\ u \in Seq(Change) /\ DOMAIN u = 1 .. Len(t) + 1
      /\ \A i \in DOMAIN t : u[i] = t[i]
      /\ u[Len(t) + 1].fd = fd /\ u[Len(t) + 1].events = b
  <2>1. entry \in Change /\ entry.fd = fd /\ entry.events = b
    BY Zenon DEF Change
  <2> HIDE DEF entry
  <2> QED  BY SMTT(20), <2>1, <1>1, Appended
<1>3. /\ idx \in [Fds -> [Bits -> Int]]
      /\ \A g \in Fds, c \in Bits : idx[g][c] = IF g = fd /\ c = b THEN Len(t) ELSE index[g][c]
  BY SMTT(20), <1>1
<1>4. \A g \in Fds, c \in Bits : c \in e[g] <=> c \in ev[g] \/ (g = fd /\ c = b)
  BY Zenon
<1>5. /\ \A i \in DOMAIN t : t[i].fd \in Fds /\ t[i].events \in Bits /\ index[t[i].fd][t[i].events] = i - 1
      /\ \A g \in Fds, c \in Bits : LET i == index[g][c] + 1
                                    IN  IF c \notin ev[g] THEN i = 0
                                        ELSE i \in DOMAIN t /\ t[i].fd = g /\ t[i].events = c
  BY Zenon, <1>1 DEF ChangesOK
<1>6. index[fd][b] = -1
  BY SMTT(20), <1>1, <1>5
<1> HIDE DEF u, idx, e
<1>7. \A i \in DOMAIN u : idx[u[i].fd][u[i].events] = i - 1
  <2> TAKE i \in DOMAIN u
  <2>1. CASE i = Len(t) + 1
    BY SMTT(20), <2>1, <1>1, <1>2, <1>3
  <2>2. CASE i \in DOMAIN t
    <3>1. ~(t[i].fd = fd /\ t[i].events = b)
      BY SMTT(20), <2>2, <1>1, <1>5, <1>6
    <3>2. u[i] = t[i] /\ t[i].fd \in Fds /\ t[i].events \in Bits /\ index[t[i].fd][t[i].events] = i - 1
      BY Zenon, <2>2, <1>2, <1>5
    <3>3. idx[t[i].fd][t[i].events] = index[t[i].fd][t[i].events]
      BY Zenon, <3>1, <3>2, <1>3
    <3> QED  BY Zenon, <3>2, <3>3
  <2> QED  BY SMTT(20), <2>1, <2>2, <1>1, <1>2
<1>8. \A g \in Fds, c \in Bits : LET i == idx[g][c] + 1
                                 IN  IF c \notin e[g] THEN i = 0
                                     ELSE i \in DOMAIN u /\ u[i].fd = g /\ u[i].events = c
  <2> TAKE g \in Fds, c \in Bits
  <2>1. CASE g = fd /\ c = b
    BY SMTT(20), <2>1, <1>1, <1>2, <1>3, <1>4
  <2>2. CASE ~(g = fd /\ c = b)
    <3>1. idx[g][c] = index[g][c] /\ (c \in e[g] <=> c \in ev[g])
      BY Zenon, <2>2, <1>3, <1>4
    <3>2. CASE c \notin ev[g]
      BY Zenon, <3>1, <3>2, <1>5
    <3>3. CASE c \in ev[g]
      BY SMTT(20), <3>1, <3>3, <1>1, <1>2, <1>5
    <3> QED  BY Zenon, <3>2, <3>3
  <2> QED  BY Zenon, <2>1, <2>2
<1> QED  BY Zenon, <1>2, <1>3, <1>7, <1>8 DEF ChangesOK, u, idx, e

\* One change taken away, and the last moved into its place.
LEMMA ChangeGone ==
    ASSUME NEW t, NEW index, NEW ev \in [Fds -> SUBSET Bits], ChangesOK(t, index, ev),
           NEW fd \in Fds, NEW b \in Bits, b \in ev[fd],
           NEW i, i = index[fd][b] + 1
    PROVE  ChangesOK(WithoutEntry(t, i),
                     [index EXCEPT ![t[Len(t)].fd][t[Len(t)].events] = i - 1, ![fd][b] = -1],
                     [ev EXCEPT ![fd] = @ \ {b}])
<1> DEFINE n == Len(t)
           last == t[n]
           u == WithoutEntry(t, i)
           idx == [index EXCEPT ![last.fd][last.events] = i - 1, ![fd][b] = -1]
           e == [ev EXCEPT ![fd] = @ \ {b}]
<1>1. /\ t \in Seq(Change) /\ index \in [Fds -> [Bits -> Int]]
      /\ n \in Nat /\ DOMAIN t = 1 .. n /\ \A j \in DOMAIN t : t[j].fd \in Fds /\ t[j].events \in Bits
  BY Zenon, Entries, ChangeParts DEF ChangesOK
<1>2. /\ \A j \in DOMAIN t : t[j].fd \in Fds /\ t[j].events \in Bits /\ index[t[j].fd][t[j].events] = j - 1
      /\ \A g \in Fds, c \in Bits : LET j == index[g][c] + 1
                                    IN  IF c \notin ev[g] THEN j = 0
                                        ELSE j \in DOMAIN t /\ t[j].fd = g /\ t[j].events = c
  BY Zenon, <1>1 DEF ChangesOK
<1>3. i \in 1 .. n /\ t[i].fd = fd /\ t[i].events = b
  BY Zenon, <1>1, <1>2
<1>a. last = t[n]
  BY Zenon
<1> HIDE DEF n, last
<1>4. n \in DOMAIN t /\ last.fd \in Fds /\ last.events \in Bits /\ index[last.fd][last.events] = n - 1
  <2>1. n \in DOMAIN t
    BY SMTT(20), <1>1, <1>3
  <2> QED  BY Zenon, <2>1, <1>a, <1>1, <1>2
<1>5. /\ u \in Seq(Change) /\ DOMAIN u = 1 .. n - 1
      /\ \A j \in 1 .. n - 1 : u[j] = IF j = i THEN last ELSE t[j]
  BY SMTT(20), <1>1, <1>3, EntryGone DEF n, last
<1>6. /\ idx \in [Fds -> [Bits -> Int]]
      /\ \A g \in Fds, c \in Bits : idx[g][c] = IF g = fd /\ c = b THEN -1
                                                ELSE IF g = last.fd /\ c = last.events THEN i - 1
                                                ELSE index[g][c]
  <2> DEFINE idx1 == [index EXCEPT ![last.fd][last.events] = i - 1]
  <2>1. i - 1 \in Int /\ -1 \in Int
    BY SMTT(20), <1>3
  <2>2. /\ idx1 \in [Fds -> [Bits -> Int]]
        /\ \A g \in Fds, c \in Bits : idx1[g][c] = IF g = last.fd /\ c = last.events THEN i - 1 ELSE index[g][c]
    BY SMTT(20), <2>1, <1>1, <1>4, SetIndex
  <2>3. idx = [idx1 EXCEPT ![fd][b] = -1]
    BY Zenon
  <2> HIDE DEF idx1, idx
  <2>4. /\ idx \in [Fds -> [Bits -> Int]]
        /\ \A g \in Fds, c \in Bits : idx[g][c] = IF g = fd /\ c = b THEN -1 ELSE idx1[g][c]
    BY SMTT(20), <2>1, <2>2, <2>3, SetIndex
  <2> QED  BY SMTT(20), <2>2, <2>4
<1>7. \A g \in Fds, c \in Bits : c \in e[g] <=> c \in ev[g] /\ ~(g = fd /\ c = b)
  BY Zenon
<1> HIDE DEF u, idx, e
<1>8. \A j \in DOMAIN u : idx[u[j].fd][u[j].events] = j - 1
  <2> TAKE j \in DOMAIN u
  <2>1. CASE j = i
    <3>1. ~(last.fd = fd /\ last.events = b)
      BY SMTT(20), <2>1, <1>1, <1>2, <1>3, <1>4, <1>5
    <3>2. u[j] = last
      BY Zenon, <2>1, <1>5
    <3>3. idx[last.fd][last.events] = i - 1
      BY Zenon, <3>1, <1>4, <1>6
    <3> QED  BY Zenon, <3>2, <3>3, <2>1
  <2>2. CASE j # i
    <3>1. j \in DOMAIN t /\ j # n /\ u[j] = t[j] /\ index[t[j].fd][t[j].events] = j - 1
      BY SMTT(20), <2>2, <1>1, <1>2, <1>5
    <3>2. ~(t[j].fd = fd /\ t[j].events = b) /\ ~(t[j].fd = last.fd /\ t[j].events = last.events)
      BY SMTT(20), <3>1, <2>2, <1>1, <1>3, <1>4
    <3>3. idx[t[j].fd][t[j].events] = index[t[j].fd][t[j].events]
      BY Zenon, <3>1, <3>2, <1>1, <1>6
    <3> QED  BY Zenon, <3>1, <3>3
  <2> QED  BY Zenon, <2>1, <2>2
<1>9. \A g \in Fds, c \in Bits : LET j == idx[g][c] + 1
                                 IN  IF c \notin e[g] THEN j = 0
                                     ELSE j \in DOMAIN u /\ u[j].fd = g /\ u[j].events = c
  <2> TAKE g \in Fds, c \in Bits
  <2>1. CASE g = fd /\ c = b
    BY SMTT(20), <2>1, <1>6, <1>7
  <2>2. CASE ~(g = fd /\ c = b) /\ c \notin ev[g]
    <3>1. index[g][c] = -1
      BY SMTT(20), <2>2, <1>1, <1>2
    <3>2. ~(g = last.fd /\ c = last.events)
      BY SMTT(20), <3>1, <1>1, <1>4
    <3> QED  BY SMTT(20), <3>1, <3>2, <2>2, <1>6, <1>7
  <2>3. CASE ~(g = fd /\ c = b) /\ c \in ev[g] /\ ~(g = last.fd /\ c = last.events)
    <3> DEFINE j == index[g][c] + 1
    <3>1. j \in DOMAIN t /\ t[j].fd = g /\ t[j].events = c /\ idx[g][c] = index[g][c] /\ c \in e[g]
      BY Zenon, <2>3, <1>2, <1>6, <1>7
    <3>2. j # n /\ j # i
      BY Zenon, <3>1, <2>3, <1>3, <1>4, <1>a
    <3> HIDE DEF j
    <3>3. j \in DOMAIN u /\ u[j] = t[j]
      BY SMTT(20), <3>1, <3>2, <1>1, <1>5
    <3> QED  BY Zenon, <3>1, <3>3 DEF j
  <2>4. CASE ~(g = fd /\ c = b) /\ c \in ev[g] /\ g = last.fd /\ c = last.events
    <3>1. idx[g][c] = i - 1 /\ c \in e[g]
      BY Zenon, <2>4, <1>2, <1>4, <1>6, <1>7
    <3>2. i # n
      BY Zenon, <2>4, <1>3, <1>a
    <3>3. i \in DOMAIN u /\ u[i] = last /\ idx[g][c] + 1 = i
      BY SMTT(20), <3>1, <3>2, <1>1, <1>3, <1>5
    <3> QED  BY Zenon, <3>1, <3>3, <2>4
  <2> QED  BY Zenon, <2>1, <2>2, <2>3, <2>4
<1> HIDE DEF n, last
<1>b. ChangesOK(u, idx, e)
  BY Zenon, <1>5, <1>6, <1>8, <1>9 DEF ChangesOK
<1> QED  BY Zenon, <1>b DEF u, idx, e, n, last

-----------------------------------------------------------------------------

WatchOK(w, ev) == ChangesOK(w.table, w.index, ev) /\ w.interest \in [Fds -> SUBSET Bits]

\* __add_event adds an event to what kqueue watches.
LEMMA WatchAdded ==
    ASSUME NEW w, NEW ev \in [Fds -> SUBSET Bits], WatchOK(w, ev),
           NEW fd \in Fds, NEW b \in Bits, b \notin ev[fd]
    PROVE  WatchOK(__add_event(w, fd, b), [ev EXCEPT ![fd] = @ \cup {b}])
<1> DEFINE t == Append(w.table, [fd |-> fd, events |-> b])
           idx == [w.index EXCEPT ![fd][b] = Len(w.table)]
           e == [ev EXCEPT ![fd] = @ \cup {b}]
<1>1. ~(w.index[fd][b] >= 0)
  <2>1. w.index[fd][b] \in Int /\ w.index[fd][b] + 1 = 0
    BY SMTT(20) DEF WatchOK, ChangesOK
  <2> QED  BY SMTT(20), <2>1
<1>2. ChangesOK(t, idx, e)
  BY ChangeAdded, Zenon DEF WatchOK
<1>3. Applied(w.interest, t) \in [Fds -> SUBSET Bits]
  BY Zenon, AppliedType DEF WatchOK
<1>4. __add_event(w, fd, b) = [table |-> t, index |-> idx, interest |-> Applied(w.interest, t)]
  BY Zenon, <1>1 DEF __add_event
<1> HIDE DEF t, idx, e
<1>5. WatchOK(__add_event(w, fd, b), e)
  BY SMTT(20), <1>2, <1>3, <1>4 DEF WatchOK
<1> QED  BY Zenon, <1>5 DEF e

\* __del_event takes one away, if it is there.
LEMMA WatchGone ==
    ASSUME NEW w, NEW ev \in [Fds -> SUBSET Bits], WatchOK(w, ev), NEW fd \in Fds, NEW b \in Bits
    PROVE  WatchOK(__del_event(w, fd, b), [ev EXCEPT ![fd] = @ \ {b}])
<1> DEFINE i == w.index[fd][b] + 1
           last == w.table[Len(w.table)]
           t == WithoutEntry(w.table, i)
           idx == [w.index EXCEPT ![last.fd][last.events] = i - 1, ![fd][b] = -1]
           in == [Applied(w.interest, t) EXCEPT ![fd] = @ \ {b}]
           e == [ev EXCEPT ![fd] = @ \ {b}]
<1>1. w.index[fd][b] \in Int /\ (b \notin ev[fd] => i = 0) /\ (b \in ev[fd] => i \in DOMAIN w.table)
  BY SMTT(20) DEF WatchOK, ChangesOK
<1>2. CASE b \notin ev[fd]
  <2>1. e = ev
    BY Zenon, <1>2
  <2>2. w.index[fd][b] < 0
    BY SMTT(20), <1>1, <1>2
  <2>3. __del_event(w, fd, b) = w
    BY <2>2, Zenon DEF __del_event
  <2> QED  BY <2>1, <2>3, Zenon
<1>3. CASE b \in ev[fd]
  <2>1. ~(w.index[fd][b] < 0)
    <3>1. DOMAIN w.table = 1 .. Len(w.table) /\ Len(w.table) \in Nat
      BY Zenon, Entries DEF WatchOK, ChangesOK
    <3> QED  BY SMTT(20), <3>1, <1>1, <1>3
  <2>2. ChangesOK(t, idx, e)
    BY <1>3, ChangeGone, Zenon DEF WatchOK
  <2>3. in \in [Fds -> SUBSET Bits]
    <3>1. Applied(w.interest, t) \in [Fds -> SUBSET Bits]
      BY Zenon, AppliedType DEF WatchOK
    <3> QED  BY Zenon, <3>1
  <2>4. __del_event(w, fd, b) = [table |-> t, index |-> idx, interest |-> in]
    BY Zenon, <2>1 DEF __del_event
  <2> HIDE DEF t, idx, in, e
  <2>5. WatchOK(__del_event(w, fd, b), e)
    BY SMTT(20), <2>2, <2>3, <2>4 DEF WatchOK
  <2> QED  BY Zenon, <2>5 DEF e
<1> QED  BY Zenon, <1>2, <1>3

-----------------------------------------------------------------------------

\* One more pollfd at the end.
LEMMA PollfdAdded ==
    ASSUME NEW t, NEW index, NEW ev \in [Fds -> SUBSET Bits], PollfdsOK(t, index, ev),
           NEW fd \in Fds, NEW m \in SUBSET Bits, ev[fd] = {}, m # {}
    PROVE  PollfdsOK(Append(t, [fd |-> fd, events |-> m]), [index EXCEPT ![fd]["READ"] = Len(t)],
                     [ev EXCEPT ![fd] = m])
<1> DEFINE entry == [fd |-> fd, events |-> m]
           u == Append(t, entry)
           idx == [index EXCEPT ![fd]["READ"] = Len(t)]
           e == [ev EXCEPT ![fd] = m]
<1>0. "READ" \in Bits
  BY Zenon DEF Bits
<1>1. /\ t \in Seq(PollFd) /\ index \in [Fds -> [Bits -> Int]]
      /\ Len(t) \in Nat /\ DOMAIN t = 1 .. Len(t) /\ \A i \in DOMAIN t : t[i].fd \in Fds
  BY Zenon, Entries, PollFdParts DEF PollfdsOK
<1>2. /\ u \in Seq(PollFd) /\ DOMAIN u = 1 .. Len(t) + 1
      /\ \A i \in DOMAIN t : u[i] = t[i]
      /\ u[Len(t) + 1].fd = fd /\ u[Len(t) + 1].events = m
  <2>1. entry \in PollFd /\ entry.fd = fd /\ entry.events = m
    BY Zenon DEF PollFd
  <2> HIDE DEF entry
  <2> QED  BY SMTT(20), <2>1, <1>1, Appended
<1>3. /\ idx \in [Fds -> [Bits -> Int]]
      /\ \A g \in Fds : idx[g]["READ"] = IF g = fd THEN Len(t) ELSE index[g]["READ"]
  BY SMTT(20), <1>0, <1>1, SetIndex
<1>4. \A g \in Fds : e[g] = IF g = fd THEN m ELSE ev[g]
  BY Zenon
<1>5. /\ \A i \in DOMAIN t : index[t[i].fd]["READ"] = i - 1
      /\ \A g \in Fds : LET i == index[g]["READ"] + 1
                        IN  IF ev[g] = {} THEN i = 0
                            ELSE i \in DOMAIN t /\ t[i].fd = g /\ t[i].events = ev[g]
  BY Zenon DEF PollfdsOK
<1>6. index[fd]["READ"] = -1
  <2>1. index[fd]["READ"] \in Int /\ index[fd]["READ"] + 1 = 0
    BY SMTT(20), <1>0, <1>1, <1>5
  <2> QED  BY SMTT(20), <2>1
<1> HIDE DEF u, idx, e
<1>7. \A i \in DOMAIN u : idx[u[i].fd]["READ"] = i - 1
  <2> TAKE i \in DOMAIN u
  <2>1. CASE i = Len(t) + 1
    BY SMTT(20), <2>1, <1>1, <1>2, <1>3
  <2>2. CASE i \in DOMAIN t
    <3>1. t[i].fd # fd
      BY SMTT(20), <2>2, <1>1, <1>5, <1>6
    <3>2. u[i] = t[i] /\ t[i].fd \in Fds /\ index[t[i].fd]["READ"] = i - 1
      BY Zenon, <2>2, <1>1, <1>2, <1>5
    <3> QED  BY Zenon, <3>1, <3>2, <1>3
  <2> QED  BY SMTT(20), <2>1, <2>2, <1>1, <1>2
<1>8. \A g \in Fds : LET i == idx[g]["READ"] + 1
                     IN  IF e[g] = {} THEN i = 0
                         ELSE i \in DOMAIN u /\ u[i].fd = g /\ u[i].events = e[g]
  <2> TAKE g \in Fds
  <2>1. CASE g = fd
    BY SMTT(20), <2>1, <1>1, <1>2, <1>3, <1>4
  <2>2. CASE g # fd
    <3>1. idx[g]["READ"] = index[g]["READ"] /\ e[g] = ev[g]
      BY Zenon, <2>2, <1>3, <1>4
    <3>2. CASE ev[g] = {}
      BY Zenon, <3>1, <3>2, <1>5
    <3>3. CASE ev[g] # {}
      BY SMTT(20), <3>1, <3>3, <1>1, <1>2, <1>5
    <3> QED  BY Zenon, <3>2, <3>3
  <2> QED  BY Zenon, <2>1, <2>2
<1>9. PollfdsOK(u, idx, e)
  BY Zenon, <1>2, <1>3, <1>7, <1>8 DEF PollfdsOK
<1> QED  BY Zenon, <1>9 DEF u, idx, e

\* A pollfd with other events.
LEMMA PollfdChanged ==
    ASSUME NEW t, NEW index, NEW ev \in [Fds -> SUBSET Bits], PollfdsOK(t, index, ev),
           NEW fd \in Fds, NEW m \in SUBSET Bits, ev[fd] # {}, m # {},
           NEW i, i = index[fd]["READ"] + 1
    PROVE  PollfdsOK([t EXCEPT ![i].events = m], index, [ev EXCEPT ![fd] = m])
<1> DEFINE u == [t EXCEPT ![i].events = m]
           e == [ev EXCEPT ![fd] = m]
<1>1. /\ t \in Seq(PollFd) /\ index \in [Fds -> [Bits -> Int]]
      /\ Len(t) \in Nat /\ DOMAIN t = 1 .. Len(t) /\ \A j \in DOMAIN t : t[j] \in PollFd /\ t[j].fd \in Fds
  BY Zenon, Entries, PollFdParts DEF PollfdsOK
<1>2. /\ \A j \in DOMAIN t : index[t[j].fd]["READ"] = j - 1
      /\ \A g \in Fds : LET j == index[g]["READ"] + 1
                        IN  IF ev[g] = {} THEN j = 0
                            ELSE j \in DOMAIN t /\ t[j].fd = g /\ t[j].events = ev[g]
  BY Zenon DEF PollfdsOK
<1>3. i \in DOMAIN t /\ t[i].fd = fd
  BY Zenon, <1>2
<1>4. \A g \in Fds : e[g] = IF g = fd THEN m ELSE ev[g]
  BY Zenon
<1>5. /\ DOMAIN u = DOMAIN t /\ \A j \in DOMAIN t : j # i => u[j] = t[j]
      /\ u[i] = [t[i] EXCEPT !.events = m]
  BY Zenon, <1>1, <1>3
<1>6. u[i] \in PollFd /\ u[i].fd = fd /\ u[i].events = m
  BY <1>1, <1>3, <1>5, ZenonT(60) DEF PollFd
<1>7. u \in Seq(PollFd)
  <2>1. u \in [1 .. Len(t) -> PollFd]
    <3>1. u = [j \in DOMAIN t |-> u[j]]
      BY <1>1, <1>3, Zenon
    <3>2. \A j \in DOMAIN t : u[j] \in PollFd
      BY Zenon, <1>1, <1>5, <1>6
    <3> HIDE DEF u
    <3> QED  BY Zenon, <3>1, <3>2, <1>1
  <2> HIDE DEF u
  <2> QED  BY <2>1, <1>1, FunctionIsSeq, Zenon
<1> HIDE DEF u, e
<1>8. \A j \in DOMAIN u : index[u[j].fd]["READ"] = j - 1
  <2> TAKE j \in DOMAIN u
  <2>1. u[j].fd = t[j].fd /\ j \in DOMAIN t
    BY <1>3, <1>5, <1>6, Zenon
  <2> QED  BY Zenon, <2>1, <1>2
<1>9. \A g \in Fds : LET j == index[g]["READ"] + 1
                     IN  IF e[g] = {} THEN j = 0
                         ELSE j \in DOMAIN u /\ u[j].fd = g /\ u[j].events = e[g]
  <2> TAKE g \in Fds
  <2>1. CASE g = fd
    BY Zenon, <2>1, <1>3, <1>4, <1>5, <1>6
  <2>2. CASE g # fd
    BY ZenonT(30), <2>2, <1>2, <1>3, <1>4, <1>5
  <2> QED  BY Zenon, <2>1, <2>2
<1>a. PollfdsOK(u, index, e)
  BY <1>1, <1>7, <1>8, <1>9, Zenon DEF PollfdsOK
<1> QED  BY Zenon, <1>a DEF u, e

\* A pollfd taken away, and the last moved into its place.
LEMMA PollfdGone ==
    ASSUME NEW t, NEW index, NEW ev \in [Fds -> SUBSET Bits], PollfdsOK(t, index, ev),
           NEW fd \in Fds, ev[fd] # {}, NEW i, i = index[fd]["READ"] + 1
    PROVE  PollfdsOK(WithoutEntry(t, i),
                     [index EXCEPT ![t[Len(t)].fd]["READ"] = i - 1, ![fd]["READ"] = -1],
                     [ev EXCEPT ![fd] = {}])
<1> DEFINE n == Len(t)
           last == t[n]
           u == WithoutEntry(t, i)
           idx1 == [index EXCEPT ![last.fd]["READ"] = i - 1]
           idx == [idx1 EXCEPT ![fd]["READ"] = -1]
           e == [ev EXCEPT ![fd] = {}]
<1>0. "READ" \in Bits
  BY Zenon DEF Bits
<1>1. /\ t \in Seq(PollFd) /\ index \in [Fds -> [Bits -> Int]]
      /\ n \in Nat /\ DOMAIN t = 1 .. n /\ \A j \in DOMAIN t : t[j].fd \in Fds
  BY Zenon, Entries, PollFdParts DEF PollfdsOK
<1>2. /\ \A j \in DOMAIN t : index[t[j].fd]["READ"] = j - 1
      /\ \A g \in Fds : LET j == index[g]["READ"] + 1
                        IN  IF ev[g] = {} THEN j = 0
                            ELSE j \in DOMAIN t /\ t[j].fd = g /\ t[j].events = ev[g]
  BY Zenon DEF PollfdsOK
<1>3. i \in 1 .. n /\ t[i].fd = fd
  BY Zenon, <1>1, <1>2
<1>a. last = t[n]
  BY Zenon
<1> HIDE DEF n, last
<1>4. n \in DOMAIN t /\ last.fd \in Fds /\ index[last.fd]["READ"] = n - 1
  <2>1. n \in DOMAIN t
    BY SMTT(20), <1>1, <1>3
  <2> QED  BY Zenon, <2>1, <1>a, <1>1, <1>2
<1>5. /\ u \in Seq(PollFd) /\ DOMAIN u = 1 .. n - 1
      /\ \A j \in 1 .. n - 1 : u[j] = IF j = i THEN last ELSE t[j]
  <2>1. t \in Seq(PollFd) /\ i \in DOMAIN t
    BY Zenon, <1>1, <1>3
  <2> QED  BY Zenon, <2>1, EntryGone DEF n, last
<1>6. /\ idx \in [Fds -> [Bits -> Int]]
      /\ \A g \in Fds : idx[g]["READ"] = IF g = fd THEN -1
                                         ELSE IF g = last.fd THEN i - 1 ELSE index[g]["READ"]
  <2>1. i - 1 \in Int /\ -1 \in Int
    BY SMTT(20), <1>3
  <2>2. /\ idx1 \in [Fds -> [Bits -> Int]]
        /\ \A g \in Fds : idx1[g]["READ"] = IF g = last.fd THEN i - 1 ELSE index[g]["READ"]
    BY SMTT(20), <2>1, <1>0, <1>1, <1>4, SetIndex
  <2> HIDE DEF idx1
  <2>4. /\ idx \in [Fds -> [Bits -> Int]]
        /\ \A g \in Fds : idx[g]["READ"] = IF g = fd THEN -1 ELSE idx1[g]["READ"]
    BY SMTT(20), <2>1, <2>2, <1>0, SetIndex
  <2> QED  BY Zenon, <2>2, <2>4
<1>7. \A g \in Fds : e[g] = IF g = fd THEN {} ELSE ev[g]
  BY Zenon
<1> HIDE DEF u, idx, e
<1>8. \A j \in DOMAIN u : idx[u[j].fd]["READ"] = j - 1
  <2> TAKE j \in DOMAIN u
  <2>1. CASE j = i
    <3>1. last.fd # fd
      BY SMTT(20), <2>1, <1>1, <1>2, <1>3, <1>4, <1>5
    <3>2. u[j] = last
      BY Zenon, <2>1, <1>5
    <3> QED  BY Zenon, <3>1, <3>2, <2>1, <1>4, <1>6
  <2>2. CASE j # i
    <3>1. j \in DOMAIN t /\ j # n /\ u[j] = t[j] /\ index[t[j].fd]["READ"] = j - 1
      BY SMTT(20), <2>2, <1>1, <1>2, <1>5
    <3>2. t[j].fd # fd /\ t[j].fd # last.fd
      BY SMTT(20), <3>1, <2>2, <1>1, <1>3, <1>4
    <3> QED  BY Zenon, <3>1, <3>2, <1>1, <1>6
  <2> QED  BY Zenon, <2>1, <2>2
<1>9. \A g \in Fds : LET j == idx[g]["READ"] + 1
                     IN  IF e[g] = {} THEN j = 0
                         ELSE j \in DOMAIN u /\ u[j].fd = g /\ u[j].events = e[g]
  <2> TAKE g \in Fds
  <2>1. CASE g = fd
    BY SMTT(20), <2>1, <1>6, <1>7
  <2>2. CASE g # fd /\ ev[g] = {}
    <3>1. index[g]["READ"] = -1
      <4>1. index[g]["READ"] \in Int /\ index[g]["READ"] + 1 = 0
        BY ZenonT(30), <2>2, <1>0, <1>1, <1>2
      <4> QED  BY SMTT(20), <4>1
    <3>2. g # last.fd
      BY SMTT(20), <3>1, <1>1, <1>4
    <3> QED  BY SMTT(20), <3>1, <3>2, <2>2, <1>6, <1>7
  <2>3. CASE g # fd /\ ev[g] # {} /\ g # last.fd
    <3> DEFINE j == index[g]["READ"] + 1
    <3>1. j \in DOMAIN t /\ t[j].fd = g /\ t[j].events = ev[g] /\ idx[g]["READ"] + 1 = j /\ e[g] = ev[g]
      BY Zenon, <2>3, <1>2, <1>6, <1>7
    <3>2. j # n /\ j # i
      BY Zenon, <3>1, <2>3, <1>3, <1>4, <1>a
    <3> HIDE DEF j
    <3>3. j \in DOMAIN u /\ u[j] = t[j]
      BY SMTT(20), <3>1, <3>2, <1>1, <1>5
    <3> QED  BY Zenon, <3>1, <3>3, <2>3
  <2>4. CASE g # fd /\ ev[g] # {} /\ g = last.fd
    <3>1. idx[g]["READ"] = i - 1 /\ e[g] = ev[g]
      BY Zenon, <2>4, <1>6, <1>7
    <3>2. i # n
      BY Zenon, <2>4, <1>3, <1>a
    <3>3. i \in DOMAIN u /\ u[i] = last /\ idx[g]["READ"] + 1 = i
      BY SMTT(20), <3>1, <3>2, <1>1, <1>3, <1>5
    <3>4. last.events = ev[g]
      <4>1. index[g]["READ"] + 1 = n
        BY SMTT(20), <2>4, <1>1, <1>4
      <4> QED  BY ZenonT(30), <4>1, <2>4, <1>a, <1>2
    <3> QED  BY Zenon, <3>1, <3>3, <3>4, <2>4
  <2> QED  BY Zenon, <2>1, <2>2, <2>3, <2>4
<1> HIDE DEF idx1
<1>b. PollfdsOK(u, idx, e)
  BY Zenon, <1>5, <1>6, <1>8, <1>9 DEF PollfdsOK
<1> QED  BY Zenon, <1>b DEF u, idx, idx1, e, n, last
-----------------------------------------------------------------------------


Active == {fd \in Fds : io_events[fd] # {}}

Having(b) == {fd \in Fds : b \in io_events[fd]}

IwTypeOK ==
    /\ engine \in DOMAIN Used
    /\ io_events \in [Fds -> SUBSET Bits] /\ revents \in [Fds -> SUBSET Bits]
    /\ interest \in [Fds -> SUBSET Bits]
    /\ nwatched \in Int /\ nset \in [Bits -> Int] /\ max_fd \in Int
    /\ event_index \in [Fds -> [Bits -> Int]]
    /\ polls \in [Fds -> [SUBSET Bits -> Nat]] /\ canceled \in [Fds -> Nat]

EngineOK ==
    /\ engine \in {"epoll", "port", "select"} => interest = io_events
    /\ engine \in {"epoll", "io_uring"} => nwatched = Cardinality(Active)
    /\ engine = "select" => \A b \in Bits : nset[b] = Cardinality(Having(b))
    /\ engine = "poll" => PollfdsOK(table, event_index, io_events)
    /\ engine = "kqueue" => ChangesOK(table, event_index, io_events)
    /\ engine = "io_uring" => \A fd \in Fds : io_events[fd] # {} => polls[fd][io_events[fd]] > 0

IwInv == IwTypeOK /\ EngineOK

-----------------------------------------------------------------------------

\* Descriptors and their subsets are finite.
LEMMA FdsFinite == IsFiniteSet(Fds) /\ \A S \in SUBSET Fds : IsFiniteSet(S) /\ Cardinality(S) \in Nat
<1>1. IsFiniteSet(Fds)
  BY SMTT(20), FS_Interval, IoWatcherAssumption DEF Fds, IoWatcherAssumption
<1> QED
  BY Zenon, <1>1, FS_Subset, FS_CardinalityType

\* The count of a set goes up with an element added and down with one removed.
LEMMA Counting ==
    ASSUME NEW S \in SUBSET Fds, NEW fd \in Fds
    PROVE  /\ fd \notin S => Cardinality(S \cup {fd}) = Cardinality(S) + 1
           /\ fd \in S => Cardinality(S \ {fd}) = Cardinality(S) - 1
           /\ Cardinality(S) = 0 => S = {}
BY FdsFinite, FS_AddElement, FS_RemoveElement, FS_EmptySet, ZenonT(60)

-----------------------------------------------------------------------------

\* What hio_add leaves of io->events, and of the sets counted.
LEMMA EventsAdded ==
    ASSUME IwInv, NEW fd \in Fds, NEW ev \in (SUBSET Bits) \ {{}}, hio_add(fd, ev)
    PROVE  /\ io_events' \in [Fds -> SUBSET Bits] /\ io_events[fd] \cap ev = {}
           /\ \A g \in Fds : io_events'[g] = IF g = fd THEN io_events[fd] \cup ev ELSE io_events[g]
           /\ Active' = Active \cup {fd}
           /\ \A b \in Bits : Having(b)' = IF b \in ev THEN Having(b) \cup {fd} ELSE Having(b)
<1>1. io_events \in [Fds -> SUBSET Bits] /\ io_events' = [io_events EXCEPT ![fd] = @ \cup ev]
  BY Zenon DEF IwInv, IwTypeOK, hio_add
<1>2. /\ io_events' \in [Fds -> SUBSET Bits]
      /\ \A g \in Fds : io_events'[g] = IF g = fd THEN io_events[fd] \cup ev ELSE io_events[g]
  BY Zenon, <1>1
<1>3. Active' = Active \cup {fd}
  BY Zenon, <1>2 DEF Active
<1>4. \A b \in Bits : Having(b)' = IF b \in ev THEN Having(b) \cup {fd} ELSE Having(b)
  BY Zenon, <1>2 DEF Having
<1> QED  BY Zenon, <1>2, <1>3, <1>4 DEF hio_add

\* Likewise for hio_del.
LEMMA EventsGone ==
    ASSUME IwInv, NEW fd \in Fds, NEW ev \in (SUBSET Bits) \ {{}}, hio_del(fd, ev)
    PROVE  /\ io_events' \in [Fds -> SUBSET Bits] /\ io_events[fd] \cap ev # {}
           /\ \A g \in Fds : io_events'[g] = IF g = fd THEN io_events[fd] \ ev ELSE io_events[g]
           /\ Active' = IF io_events[fd] \ ev = {} THEN Active \ {fd} ELSE Active
           /\ \A b \in Bits : Having(b)' = IF b \in ev THEN Having(b) \ {fd} ELSE Having(b)
<1>1. io_events \in [Fds -> SUBSET Bits] /\ io_events' = [io_events EXCEPT ![fd] = @ \ ev]
  BY Zenon DEF IwInv, IwTypeOK, hio_del
<1>2. /\ io_events' \in [Fds -> SUBSET Bits]
      /\ \A g \in Fds : io_events'[g] = IF g = fd THEN io_events[fd] \ ev ELSE io_events[g]
  BY Zenon, <1>1
<1> QED  BY Zenon, <1>2 DEF hio_del, Active, Having

-----------------------------------------------------------------------------

\* The engines start with nothing watched.
LEMMA InitInv == IwInit => IwInv
<1> SUFFICES ASSUME IwInit PROVE IwInv
  BY Zenon
<1>1. IwTypeOK
  BY SMTT(20) DEF IwInit, IwTypeOK
<1>2. Active = {} /\ \A b \in Bits : Having(b) = {}
  BY Zenon DEF IwInit, Active, Having
<1>3. Cardinality({}) = 0
  BY Zenon, FS_EmptySet
<1>4. << >> \in Seq(Change) /\ << >> \in Seq(PollFd) /\ DOMAIN << >> = {}
  BY SMTT(20)
<1>5. event_index \in [Fds -> [Bits -> Int]] /\ \A fd \in Fds, b \in Bits : event_index[fd][b] + 1 = 0
  BY SMTT(20) DEF IwInit
<1>6. ChangesOK(table, event_index, io_events) /\ PollfdsOK(table, event_index, io_events)
  <2>1. "READ" \in Bits
    BY Zenon DEF Bits
  <2>2. table = << >> /\ \A fd \in Fds : io_events[fd] = {}
    BY Zenon DEF IwInit
  <2> QED  BY Zenon, <1>4, <1>5, <2>1, <2>2 DEF ChangesOK, PollfdsOK
<1> QED  BY <1>1, <1>2, <1>3, <1>6, ZenonT(60) DEF IwInit, IwInv, EngineOK

\* hio_add preserves the invariant, engine by engine.
LEMMA AddInv ==
    ASSUME IwInv, NEW fd \in Fds, NEW ev \in (SUBSET Bits) \ {{}}, hio_add(fd, ev)
    PROVE  IwInv'
<1>1. /\ io_events' \in [Fds -> SUBSET Bits] /\ io_events[fd] \cap ev = {}
      /\ \A g \in Fds : io_events'[g] = IF g = fd THEN io_events[fd] \cup ev ELSE io_events[g]
      /\ Active' = Active \cup {fd}
      /\ \A b \in Bits : Having(b)' = IF b \in ev THEN Having(b) \cup {fd} ELSE Having(b)
  BY EventsAdded, ZenonT(60)
<1>2. io_events' = [io_events EXCEPT ![fd] = @ \cup ev] /\ engine' = engine /\ revents' = revents
  BY Zenon DEF hio_add
<1>3. /\ Active \in SUBSET Fds /\ (fd \in Active <=> io_events[fd] # {})
      /\ \A b \in Bits : Having(b) \in SUBSET Fds /\ (fd \in Having(b) <=> b \in io_events[fd])
  BY Zenon DEF Active, Having
<1>4. IwTypeOK /\ EngineOK
  BY Zenon DEF IwInv
<1>5. Cardinality(Active') = IF io_events[fd] = {} THEN Cardinality(Active) + 1 ELSE Cardinality(Active)
  <2>1. CASE io_events[fd] = {}
    BY Zenon, <2>1, <1>1, <1>3, Counting
  <2>2. CASE io_events[fd] # {}
    <3>1. Active' = Active
      BY Zenon, <2>2, <1>1, <1>3
    <3> QED  BY Zenon, <3>1, <2>2
  <2> QED  BY Zenon, <2>1, <2>2
<1>6. CASE engine = "epoll"
  <2>1. EpollAdd(fd, ev)
    BY Zenon, <1>6 DEF hio_add, iowatcher_add_event
  <2>2. interest = io_events
    BY Zenon, <1>4, <1>6 DEF EngineOK
  <2>3. interest' = io_events'
    <3>1. CASE io_events[fd] = {}
      BY Zenon, <3>1, <2>1, <2>2, <1>2 DEF EpollAdd, epoll_ctl
    <3>2. CASE io_events[fd] # {}
      BY <3>2, <2>1, <2>2, <1>2, ZenonT(60) DEF EpollAdd, epoll_ctl
    <3> QED  BY Zenon, <3>1, <3>2
  <2>4. nwatched' = Cardinality(Active')
    BY Zenon, <2>1, <1>4, <1>5, <1>6 DEF EpollAdd, EngineOK
  <2>5. IwTypeOK'
    <3>1. nwatched' \in Int
      BY SMTT(20), <2>1, <1>4 DEF EpollAdd, IwTypeOK
    <3> QED  BY <3>1, <2>1, <2>3, <1>1, <1>2, <1>4, ZenonT(60) DEF EpollAdd, IwTypeOK
  <2> QED  BY Zenon, <2>3, <2>4, <2>5, <1>2, <1>6 DEF IwInv, EngineOK
<1>7. CASE engine = "port"
  <2>1. PortAdd(fd, ev)
    BY Zenon, <1>7 DEF hio_add, iowatcher_add_event
  <2>2. interest = io_events
    BY Zenon, <1>4, <1>7 DEF EngineOK
  <2>3. interest' = io_events'
    BY Zenon, <2>1, <2>2, <1>2 DEF PortAdd
  <2>5. IwTypeOK'
    <3>1. nwatched' \in Int
      BY SMTT(20), <2>1, <1>4 DEF PortAdd, IwTypeOK
    <3> QED  BY <3>1, <2>1, <2>3, <1>1, <1>2, <1>4, ZenonT(60) DEF PortAdd, IwTypeOK
  <2> QED  BY Zenon, <2>3, <2>5, <1>2, <1>7 DEF IwInv, EngineOK
<1>8. CASE engine = "select"
  <2>1. SelectAdd(fd, ev)
    BY Zenon, <1>8 DEF hio_add, iowatcher_add_event
  <2>2. interest = io_events
    BY Zenon, <1>4, <1>8 DEF EngineOK
  <2>3. interest' = io_events'
    BY Zenon, <2>1, <2>2, <1>2 DEF SelectAdd
  <2>4. \A b \in Bits : nset'[b] = Cardinality(Having(b)')
    <3> TAKE b \in Bits
    <3>1. nset[b] = Cardinality(Having(b))
      BY Zenon, <1>4, <1>8 DEF EngineOK
    <3>2. CASE b \in ev
      <4>1. b \notin io_events[fd]
        BY Zenon, <3>2, <1>1
      <4>2. nset'[b] = nset[b] + 1
        BY Zenon, <3>2, <4>1, <2>1, <2>2 DEF SelectAdd
      <4> QED  BY ZenonT(30), <3>1, <3>2, <4>1, <4>2, <1>1, <1>3, Counting
    <3>3. CASE b \notin ev
      <4>1. nset'[b] = nset[b] /\ Having(b)' = Having(b)
        BY Zenon, <3>3, <2>1, <1>1 DEF SelectAdd
      <4> QED  BY Zenon, <3>1, <4>1
    <3> QED  BY Zenon, <3>2, <3>3
  <2>5. IwTypeOK'
    <3>1. nset' \in [Bits -> Int] /\ max_fd' \in Int
      BY SMTT(20), <2>1, <1>4, IoWatcherAssumption DEF SelectAdd, IwTypeOK, Fds, IoWatcherAssumption
    <3> QED  BY <3>1, <2>1, <2>3, <1>1, <1>2, <1>4, ZenonT(60) DEF SelectAdd, IwTypeOK
  <2> QED  BY Zenon, <2>3, <2>4, <2>5, <1>2, <1>8 DEF IwInv, EngineOK
<1>9. CASE engine = "poll"
  <2>1. PollAdd(fd, ev)
    BY Zenon, <1>9 DEF hio_add, iowatcher_add_event
  <2>2. PollfdsOK(table, event_index, io_events) /\ io_events \in [Fds -> SUBSET Bits]
    BY Zenon, <1>4, <1>9 DEF EngineOK, IwTypeOK
  <2>3. PollfdsOK(table', event_index', io_events')
    <3> DEFINE idx == event_index[fd]["READ"]
    <3>1. CASE io_events[fd] = {}
      <4>1. idx < 0
        <5>1. idx \in Int /\ idx + 1 = 0
          BY SMTT(20), <3>1, <2>2 DEF PollfdsOK, Bits
        <5> QED  BY SMTT(20), <5>1
      <4>2. /\ table' = Append(table, [fd |-> fd, events |-> ev])
            /\ event_index' = [event_index EXCEPT ![fd]["READ"] = Len(table)]
        BY Zenon, <4>1, <2>1 DEF PollAdd
      <4>3. io_events' = [io_events EXCEPT ![fd] = ev]
        BY Zenon, <3>1, <1>2
      <4> QED  BY <4>2, <4>3, <3>1, <2>2, PollfdAdded, ZenonT(60)
    <3>2. CASE io_events[fd] # {}
      <4>1. idx \in Int /\ idx + 1 \in DOMAIN table /\ table[idx + 1].events = io_events[fd]
        BY SMTT(20), <3>2, <2>2 DEF PollfdsOK, Bits
      <4>2. ~(idx < 0)
        <5>1. DOMAIN table = 1 .. Len(table) /\ Len(table) \in Nat
          BY Zenon, <2>2, Entries DEF PollfdsOK
        <5> QED  BY SMTT(20), <5>1, <4>1
      <4>3. /\ table' = [table EXCEPT ![idx + 1].events = io_events[fd] \cup ev]
            /\ event_index' = event_index
        BY Zenon, <4>1, <4>2, <2>1 DEF PollAdd
      <4>4. io_events[fd] \cup ev \in SUBSET Bits /\ io_events[fd] \cup ev # {}
        BY Zenon, <2>2
      <4> QED  BY <4>3, <4>4, <3>2, <2>2, <1>2, PollfdChanged, ZenonT(60)
    <3> QED  BY Zenon, <3>1, <3>2
  <2>4. IwTypeOK'
    BY <2>1, <2>3, <1>1, <1>2, <1>4, ZenonT(60) DEF PollAdd, IwTypeOK, PollfdsOK
  <2> QED  BY Zenon, <2>3, <2>4, <1>2, <1>9 DEF IwInv, EngineOK
<1>10. CASE engine = "kqueue"
  <2> DEFINE w0 == Watch
             w1 == IF "READ" \in ev THEN __add_event(w0, fd, "READ") ELSE w0
             w2 == IF "WRITE" \in ev THEN __add_event(w1, fd, "WRITE") ELSE w1
             e1 == IF "READ" \in ev THEN [io_events EXCEPT ![fd] = @ \cup {"READ"}] ELSE io_events
             e2 == IF "WRITE" \in ev THEN [e1 EXCEPT ![fd] = @ \cup {"WRITE"}] ELSE e1
  <2>1. Watched(w2)
    BY Zenon, <1>10 DEF hio_add, iowatcher_add_event, KqueueAdd
  <2>2. "READ" \in Bits /\ "WRITE" \in Bits /\ "READ" # "WRITE" /\ \A b \in Bits : b = "READ" \/ b = "WRITE"
    BY Zenon DEF Bits
  <2>3. WatchOK(w0, io_events) /\ io_events \in [Fds -> SUBSET Bits]
    BY Zenon, <1>4, <1>10 DEF EngineOK, IwTypeOK, WatchOK, Watch
  <2>4. WatchOK(w1, e1) /\ e1 \in [Fds -> SUBSET Bits] /\ ("WRITE" \in ev => "WRITE" \notin e1[fd])
    <3>1. CASE "READ" \in ev
      <4>1. "READ" \notin io_events[fd] /\ ("WRITE" \in ev => "WRITE" \notin io_events[fd])
        BY Zenon, <3>1, <1>1
      <4>2. WatchOK(__add_event(w0, fd, "READ"), [io_events EXCEPT ![fd] = @ \cup {"READ"}])
        BY <4>1, <2>2, <2>3, WatchAdded, ZenonT(60)
      <4>3. e1 \in [Fds -> SUBSET Bits] /\ ("WRITE" \in ev => "WRITE" \notin e1[fd])
        BY Zenon, <3>1, <4>1, <2>2, <2>3
      <4> QED  BY Zenon, <3>1, <4>2, <4>3
    <3>2. CASE "READ" \notin ev
      <4>1. "WRITE" \in ev => "WRITE" \notin io_events[fd]
        BY Zenon, <1>1
      <4> QED  BY Zenon, <3>2, <4>1, <2>3
    <3> QED  BY Zenon, <3>1, <3>2
  <2>5. WatchOK(w2, e2)
    <3>1. CASE "WRITE" \in ev
      <4> HIDE DEF w1, e1
      <4>1. WatchOK(__add_event(w1, fd, "WRITE"), [e1 EXCEPT ![fd] = @ \cup {"WRITE"}])
        BY <3>1, <2>2, <2>4, WatchAdded, ZenonT(60)
      <4> QED  BY Zenon, <3>1, <4>1
    <3>2. CASE "WRITE" \notin ev
      BY Zenon, <3>2, <2>4
    <3> QED  BY Zenon, <3>1, <3>2
  <2>6. e2 = io_events'
    <3>1. ev = {"READ", "WRITE"} \/ ev = {"READ"} \/ ev = {"WRITE"}
      BY Zenon, <2>2
    <3>2. CASE ev = {"READ", "WRITE"}
      BY <3>2, <2>2, <2>3, <1>2, ZenonT(60)
    <3>3. CASE ev = {"READ"}
      BY Zenon, <3>3, <2>2, <2>3, <1>2
    <3>4. CASE ev = {"WRITE"}
      BY Zenon, <3>4, <2>2, <2>3, <1>2
    <3> QED  BY Zenon, <3>1, <3>2, <3>3, <3>4
  <2> HIDE DEF w0, w1, w2, e1, e2
  <2>7. ChangesOK(table', event_index', io_events') /\ interest' \in [Fds -> SUBSET Bits]
    BY Zenon, <2>1, <2>5, <2>6 DEF Watched, WatchOK
  <2>8. IwTypeOK'
    BY <2>1, <2>7, <1>1, <1>2, <1>4, ZenonT(60) DEF Watched, IwTypeOK, ChangesOK
  <2> QED  BY Zenon, <2>7, <2>8, <1>2, <1>10 DEF IwInv, EngineOK
<1>11. CASE engine = "io_uring"
  <2>1. UringAdd(fd, ev)
    BY Zenon, <1>11 DEF hio_add, iowatcher_add_event
  <2> DEFINE all == io_events[fd] \cup ev
  <2>2. all \in SUBSET Bits /\ all = io_events'[fd] /\ polls \in [Fds -> [SUBSET Bits -> Nat]] /\ canceled \in [Fds -> Nat]
    BY <1>1, <1>4, ZenonT(60) DEF IwTypeOK
  <2> HIDE DEF all
  <2>3. nwatched' = IF io_events[fd] = {} THEN nwatched + 1 ELSE nwatched
    BY Zenon, <2>1 DEF UringAdd
  <2>4. /\ polls' \in [Fds -> [SUBSET Bits -> Nat]] /\ canceled' \in [Fds -> Nat]
        /\ polls'[fd][all] > 0 /\ \A g \in Fds : g # fd => polls'[g] = polls[g]
    <3>1. CASE io_events[fd] = {}
      <4>1. polls' = [polls EXCEPT ![fd][all] = @ + 1] /\ canceled' = canceled
        BY Zenon, <3>1, <2>1 DEF UringAdd, all
      <4> DEFINE q == [polls[fd] EXCEPT ![all] = @ + 1]
      <4>2. q \in [SUBSET Bits -> Nat] /\ q[all] > 0
        BY SMTT(20), <2>2
      <4>3. polls' = [polls EXCEPT ![fd] = q]
        BY Zenon, <4>1
      <4> HIDE DEF q
      <4> QED  BY ZenonT(30), <4>1, <4>2, <4>3, <2>2
    <3>2. CASE io_events[fd] # {}
      <4>1. PICK m \in SUBSET Bits : UringRemove(fd, m, [Removed(polls[fd], m) EXCEPT ![all] = @ + 1])
        BY <3>2, <2>1, ZenonT(60) DEF UringAdd, all
      <4> DEFINE p == Removed(polls[fd], m)
      <4>2. p \in [SUBSET Bits -> Nat]
        <5>1. polls[fd] \in [SUBSET Bits -> Nat]
          BY <2>2, ZenonT(60)
        <5> QED  BY SMTT(20), <5>1 DEF Removed
      <4>3. /\ polls' = [polls EXCEPT ![fd] = [p EXCEPT ![all] = @ + 1]]
            /\ canceled' = [canceled EXCEPT ![fd] = IF polls[fd][m] > 0 THEN @ + 1 ELSE @]
        BY Zenon, <4>1 DEF UringRemove
      <4> HIDE DEF p
      <4>4. [p EXCEPT ![all] = @ + 1] \in [SUBSET Bits -> Nat] /\ [p EXCEPT ![all] = @ + 1][all] > 0
        BY SMTT(20), <4>2, <2>2
      <4> QED  BY SMTT(20), <4>3, <4>4, <2>2
    <3> QED  BY <3>1, <3>2, ZenonT(60)
  <2>5. nwatched' = Cardinality(Active')
    BY Zenon, <2>3, <1>4, <1>5, <1>11 DEF EngineOK
  <2>6. \A g \in Fds : io_events'[g] # {} => polls'[g][io_events'[g]] > 0
    <3> TAKE g \in Fds
    <3>1. CASE g = fd
      BY Zenon, <3>1, <2>2, <2>4
    <3>2. CASE g # fd
      BY Zenon, <3>2, <2>4, <1>1, <1>4, <1>11 DEF EngineOK
    <3> QED  BY Zenon, <3>1, <3>2
  <2>7. IwTypeOK'
    <3>1. nwatched' \in Int
      BY SMTT(20), <2>3, <1>4 DEF IwTypeOK
    <3> QED  BY <3>1, <2>1, <2>4, <1>1, <1>2, <1>4, ZenonT(60) DEF UringAdd, IwTypeOK
  <2> QED  BY <2>5, <2>6, <2>7, <1>2, <1>11, Zenon DEF IwInv, EngineOK
<1> QED  BY Zenon, <1>6, <1>7, <1>8, <1>9, <1>10, <1>11 DEF hio_add, iowatcher_add_event

\* hio_del preserves it.
LEMMA DelInv ==
    ASSUME IwInv, NEW fd \in Fds, NEW ev \in (SUBSET Bits) \ {{}}, hio_del(fd, ev)
    PROVE  IwInv'
<1> DEFINE left == io_events[fd] \ ev
<1>1. /\ io_events' \in [Fds -> SUBSET Bits] /\ io_events[fd] \cap ev # {}
      /\ \A g \in Fds : io_events'[g] = IF g = fd THEN left ELSE io_events[g]
      /\ Active' = IF left = {} THEN Active \ {fd} ELSE Active
      /\ \A b \in Bits : Having(b)' = IF b \in ev THEN Having(b) \ {fd} ELSE Having(b)
  BY EventsGone, ZenonT(60)
<1>2. io_events' = [io_events EXCEPT ![fd] = left] /\ engine' = engine /\ revents' = revents
  BY Zenon DEF hio_del
<1>3. /\ Active \in SUBSET Fds /\ fd \in Active
      /\ \A b \in Bits : Having(b) \in SUBSET Fds /\ (fd \in Having(b) <=> b \in io_events[fd])
  BY Zenon, <1>1 DEF Active, Having
<1>4. IwTypeOK /\ EngineOK
  BY Zenon DEF IwInv
<1>5. Cardinality(Active') = IF left = {} THEN Cardinality(Active) - 1 ELSE Cardinality(Active)
  BY Zenon, <1>1, <1>3, Counting
<1>a. io_events \in [Fds -> SUBSET Bits] /\ io_events[fd] # {} /\ left \in SUBSET Bits
  BY Zenon, <1>1, <1>4 DEF IwTypeOK
<1>6. CASE engine = "epoll"
  <2>1. EpollDel(fd, ev)
    BY Zenon, <1>6 DEF hio_del, iowatcher_del_event
  <2>2. interest = io_events
    BY Zenon, <1>4, <1>6 DEF EngineOK
  <2>3. interest' = io_events'
    <3>1. CASE left = {}
      BY <3>1, <2>1, <2>2, <1>2, ZenonT(60) DEF EpollDel, epoll_ctl
    <3>2. CASE left # {}
      BY <3>2, <2>1, <2>2, <1>2, <1>a, ZenonT(60) DEF EpollDel, epoll_ctl
    <3> QED  BY Zenon, <3>1, <3>2
  <2>4. nwatched' = Cardinality(Active')
    BY Zenon, <2>1, <1>4, <1>5, <1>6 DEF EpollDel, EngineOK
  <2>5. IwTypeOK'
    <3>1. nwatched' \in Int
      BY SMTT(20), <2>1, <1>4 DEF EpollDel, IwTypeOK
    <3> QED  BY <3>1, <2>1, <2>3, <1>1, <1>2, <1>4, ZenonT(60) DEF EpollDel, IwTypeOK
  <2> QED  BY Zenon, <2>3, <2>4, <2>5, <1>2, <1>6 DEF IwInv, EngineOK
<1>7. CASE engine = "port"
  <2>1. PortDel(fd, ev)
    BY Zenon, <1>7 DEF hio_del, iowatcher_del_event
  <2>2. interest = io_events
    BY Zenon, <1>4, <1>7 DEF EngineOK
  <2>3. interest' = io_events'
    BY Zenon, <2>1, <2>2, <1>2 DEF PortDel
  <2>5. IwTypeOK'
    <3>1. nwatched' \in Int
      BY SMTT(20), <2>1, <1>4 DEF PortDel, IwTypeOK
    <3> QED  BY <3>1, <2>1, <2>3, <1>1, <1>2, <1>4, ZenonT(60) DEF PortDel, IwTypeOK
  <2> QED  BY Zenon, <2>3, <2>5, <1>2, <1>7 DEF IwInv, EngineOK
<1>8. CASE engine = "select"
  <2>1. SelectDel(fd, ev)
    BY Zenon, <1>8 DEF hio_del, iowatcher_del_event
  <2>2. interest = io_events
    BY Zenon, <1>4, <1>8 DEF EngineOK
  <2>3. interest' = io_events'
    BY Zenon, <2>1, <2>2, <1>2 DEF SelectDel
  <2>4. \A b \in Bits : nset'[b] = Cardinality(Having(b)')
    <3> TAKE b \in Bits
    <3>1. nset[b] = Cardinality(Having(b))
      BY Zenon, <1>4, <1>8 DEF EngineOK
    <3>2. CASE b \in ev /\ b \in io_events[fd]
      <4>1. nset'[b] = nset[b] - 1
        BY Zenon, <3>2, <2>1, <2>2 DEF SelectDel
      <4> QED  BY ZenonT(30), <3>1, <3>2, <4>1, <1>1, <1>3, Counting
    <3>3. CASE ~(b \in ev /\ b \in io_events[fd])
      <4>1. nset'[b] = nset[b] /\ Having(b)' = Having(b)
        BY <3>3, <2>1, <2>2, <1>1, <1>3, ZenonT(60) DEF SelectDel
      <4> QED  BY Zenon, <3>1, <4>1
    <3> QED  BY Zenon, <3>2, <3>3
  <2>5. IwTypeOK'
    <3>1. nset' \in [Bits -> Int] /\ max_fd' \in Int
      BY SMTT(20), <2>1, <1>4 DEF SelectDel, IwTypeOK
    <3> QED  BY <3>1, <2>1, <2>3, <1>1, <1>2, <1>4, ZenonT(60) DEF SelectDel, IwTypeOK
  <2> QED  BY Zenon, <2>3, <2>4, <2>5, <1>2, <1>8 DEF IwInv, EngineOK
<1>9. CASE engine = "poll"
  <2> DEFINE i == event_index[fd]["READ"] + 1
  <2>1. PollDel(fd, ev)
    BY Zenon, <1>9 DEF hio_del, iowatcher_del_event
  <2>2. PollfdsOK(table, event_index, io_events)
    BY Zenon, <1>4, <1>9 DEF EngineOK
  <2>3. i \in DOMAIN table /\ table[i].events \ ev = left /\ i # 0
    <3>1. i \in DOMAIN table /\ table[i].events = io_events[fd]
      BY Zenon, <2>2, <1>a DEF PollfdsOK, Bits
    <3>2. DOMAIN table = 1 .. Len(table) /\ Len(table) \in Nat
      BY Zenon, <2>2, Entries DEF PollfdsOK
    <3> QED  BY SMTT(20), <3>1, <3>2
  <2>4. PollfdsOK(table', event_index', io_events')
    <3>1. CASE left # {}
      <4>1. table' = [table EXCEPT ![i].events = left] /\ event_index' = event_index
        BY <3>1, <2>1, <2>3, ZenonT(60) DEF PollDel
      <4> HIDE DEF left
      <4> QED  BY <4>1, <3>1, <2>2, <1>2, <1>a, PollfdChanged, ZenonT(60)
    <3>2. CASE left = {}
      <4>1. /\ table' = WithoutEntry(table, i)
            /\ event_index' = [event_index EXCEPT ![table[Len(table)].fd]["READ"] = i - 1, ![fd]["READ"] = -1]
        BY Zenon, <3>2, <2>1, <2>3 DEF PollDel
      <4>2. io_events' = [io_events EXCEPT ![fd] = {}]
        BY <3>2, <1>2, ZenonT(60)
      <4>3. PollfdsOK(WithoutEntry(table, i),
                      [event_index EXCEPT ![table[Len(table)].fd]["READ"] = i - 1, ![fd]["READ"] = -1],
                      [io_events EXCEPT ![fd] = {}])
        <5> HIDE DEF left
        <5> QED  BY <2>2, <1>a, PollfdGone, ZenonT(60)
      <4> QED  BY Zenon, <4>1, <4>2, <4>3
    <3> QED  BY Zenon, <3>1, <3>2
  <2>5. IwTypeOK'
    BY <2>1, <2>4, <1>1, <1>2, <1>4, ZenonT(60) DEF PollDel, IwTypeOK, PollfdsOK
  <2> QED  BY Zenon, <2>4, <2>5, <1>2, <1>9 DEF IwInv, EngineOK
<1>10. CASE engine = "kqueue"
  <2> DEFINE w0 == Watch
             w1 == IF "READ" \in ev THEN __del_event(w0, fd, "READ") ELSE w0
             w2 == IF "WRITE" \in ev THEN __del_event(w1, fd, "WRITE") ELSE w1
             e1 == IF "READ" \in ev THEN [io_events EXCEPT ![fd] = @ \ {"READ"}] ELSE io_events
             e2 == IF "WRITE" \in ev THEN [e1 EXCEPT ![fd] = @ \ {"WRITE"}] ELSE e1
  <2>1. Watched(w2)
    BY Zenon, <1>10 DEF hio_del, iowatcher_del_event, KqueueDel
  <2>2. "READ" \in Bits /\ "WRITE" \in Bits /\ "READ" # "WRITE" /\ \A b \in Bits : b = "READ" \/ b = "WRITE"
    BY Zenon DEF Bits
  <2>3. WatchOK(w0, io_events)
    BY Zenon, <1>4, <1>10 DEF EngineOK, IwTypeOK, WatchOK, Watch
  <2>4. WatchOK(w1, e1) /\ e1 \in [Fds -> SUBSET Bits]
    <3>1. WatchOK(__del_event(w0, fd, "READ"), [io_events EXCEPT ![fd] = @ \ {"READ"}])
      BY <2>2, <2>3, <1>a, WatchGone, ZenonT(60)
    <3>2. e1 \in [Fds -> SUBSET Bits]
      BY Zenon, <1>a
    <3> QED  BY Zenon, <3>1, <3>2, <2>3
  <2>5. WatchOK(w2, e2)
    <3> HIDE DEF w1, e1
    <3>1. WatchOK(__del_event(w1, fd, "WRITE"), [e1 EXCEPT ![fd] = @ \ {"WRITE"}])
      BY <2>2, <2>4, WatchGone, ZenonT(60)
    <3> QED  BY Zenon, <3>1, <2>4
  <2>6. e2 = io_events'
    <3>1. ev = {"READ", "WRITE"} \/ ev = {"READ"} \/ ev = {"WRITE"}
      BY Zenon, <2>2
    <3>2. CASE ev = {"READ", "WRITE"}
      BY <3>2, <2>2, <1>a, <1>2, ZenonT(60)
    <3>3. CASE ev = {"READ"}
      BY Zenon, <3>3, <2>2, <1>a, <1>2
    <3>4. CASE ev = {"WRITE"}
      BY Zenon, <3>4, <2>2, <1>a, <1>2
    <3> QED  BY Zenon, <3>1, <3>2, <3>3, <3>4
  <2> HIDE DEF w0, w1, w2, e1, e2
  <2>7. ChangesOK(table', event_index', io_events') /\ interest' \in [Fds -> SUBSET Bits]
    BY Zenon, <2>1, <2>5, <2>6 DEF Watched, WatchOK
  <2>8. IwTypeOK'
    BY <2>1, <2>7, <1>1, <1>2, <1>4, ZenonT(60) DEF Watched, IwTypeOK, ChangesOK
  <2> QED  BY Zenon, <2>7, <2>8, <1>2, <1>10 DEF IwInv, EngineOK
<1>11. CASE engine = "io_uring"
  <2>1. UringDel(fd, ev)
    BY Zenon, <1>11 DEF hio_del, iowatcher_del_event
  <2>2. left = io_events'[fd] /\ polls \in [Fds -> [SUBSET Bits -> Nat]] /\ canceled \in [Fds -> Nat]
    BY <1>1, <1>4, ZenonT(60) DEF IwTypeOK
  <2>3. PICK m \in SUBSET Bits :
            IF left = {}
            THEN UringRemove(fd, m, Removed(polls[fd], m)) /\ nwatched' = nwatched - 1
            ELSE UringRemove(fd, m, [Removed(polls[fd], m) EXCEPT ![left] = @ + 1]) /\ nwatched' = nwatched
    BY <2>1, ZenonT(60) DEF UringDel
  <2> HIDE DEF left
  <2>4. /\ polls' \in [Fds -> [SUBSET Bits -> Nat]] /\ canceled' \in [Fds -> Nat]
        /\ left # {} => polls'[fd][left] > 0
        /\ \A g \in Fds : g # fd => polls'[g] = polls[g]
    <3> DEFINE p == Removed(polls[fd], m)
               q == IF left = {} THEN p ELSE [p EXCEPT ![left] = @ + 1]
    <3>1. p \in [SUBSET Bits -> Nat]
      <4>1. polls[fd] \in [SUBSET Bits -> Nat]
        BY <2>2, ZenonT(60)
      <4> QED  BY SMTT(20), <4>1 DEF Removed
    <3>2. /\ polls' = [polls EXCEPT ![fd] = q]
          /\ canceled' = [canceled EXCEPT ![fd] = IF polls[fd][m] > 0 THEN @ + 1 ELSE @]
      BY Zenon, <2>3 DEF UringRemove
    <3> HIDE DEF p
    <3>3. q \in [SUBSET Bits -> Nat] /\ (left # {} => q[left] > 0)
      BY SMTT(20), <3>1, <1>a
    <3> HIDE DEF q
    <3> QED  BY SMTT(20), <3>2, <3>3, <2>2
  <2>5. nwatched' = Cardinality(Active')
    BY SMTT(20), <2>3, <1>4, <1>5, <1>11 DEF EngineOK
  <2>6. \A g \in Fds : io_events'[g] # {} => polls'[g][io_events'[g]] > 0
    <3> TAKE g \in Fds
    <3>1. CASE g = fd
      BY Zenon, <3>1, <2>2, <2>4
    <3>2. CASE g # fd
      BY Zenon, <3>2, <2>4, <1>1, <1>4, <1>11 DEF EngineOK
    <3> QED  BY Zenon, <3>1, <3>2
  <2>7. IwTypeOK'
    <3>1. nwatched' \in Int
      BY SMTT(20), <2>3, <1>4 DEF IwTypeOK
    <3> QED  BY <3>1, <2>1, <2>4, <1>1, <1>2, <1>4, ZenonT(60) DEF UringDel, IwTypeOK
  <2> QED  BY Zenon, <2>5, <2>6, <2>7, <1>2, <1>11 DEF IwInv, EngineOK
<1> QED  BY Zenon, <1>6, <1>7, <1>8, <1>9, <1>10, <1>11 DEF hio_del, iowatcher_del_event

-----------------------------------------------------------------------------
(* The poll of each engine. *)

\* In a set of descriptors there is a highest one: find_max_active_fd finds it.
LEMMA Highest ==
    ASSUME NEW S \in SUBSET Fds, S # {}
    PROVE  \E m \in S : \A x \in S : x <= m
<1> DEFINE U == {n \in Nat : \A x \in S : x <= n}
           R == OpToRel(<, Nat)
<1>1. NFds \in U /\ U \subseteq Nat
  BY SMTT(20), IoWatcherAssumption DEF IoWatcherAssumption, Fds
<1>2. IsWellFoundedOn(R, Nat)
  BY NatLessThanWellFounded, ZenonT(60)
<1>3. PICK m \in U : \A n \in U : ~(<< n, m >> \in R)
  <2> HIDE DEF U, R
  <2> QED  BY <1>1, <1>2, WFMin, ZenonT(60)
<1>4. \A n \in U : ~(n < m)
  BY <1>3, ZenonT(60) DEF OpToRel
<1>5. m \in Nat /\ \A x \in S : x \in Nat /\ x <= m
  BY SMTT(20), IoWatcherAssumption DEF Fds, IoWatcherAssumption
<1>6. m \in S
  <2> SUFFICES ASSUME m \notin S PROVE FALSE
    BY Zenon
  <2>1. \A x \in S : x <= m - 1
    BY SMTT(20), <1>5
  <2>2. m - 1 \in Nat
    <3>1. PICK x \in S : TRUE
      BY Zenon
    <3> QED  BY SMTT(20), <3>1, <2>1, <1>5
  <2> QED  BY SMTT(20), <1>4, <2>1, <2>2
<1> QED  BY Zenon, <1>5, <1>6

\* find_max_active_fd is the highest descriptor with an event.
LEMMA MaxActive ==
    ASSUME IwTypeOK
    PROVE  /\ find_max_active_fd \in Int
           /\ \A fd \in Active : fd <= find_max_active_fd
<1>1. \A fd \in Fds : fd \in Int
  BY SMTT(20), IoWatcherAssumption DEF Fds, IoWatcherAssumption
<1>2. CASE Active = {}
  BY SMTT(20), <1>2 DEF Active, find_max_active_fd
<1>3. CASE Active # {}
  <2>1. \E m \in Active : \A x \in Active : x <= m
    BY <1>3, Highest, ZenonT(60) DEF Active
  <2>2. \E m \in Fds : io_events[m] # {} /\ \A g \in Fds : io_events[g] # {} => g <= m
    BY Zenon, <2>1 DEF Active
  <2>3. find_max_active_fd = CHOOSE m \in Fds : io_events[m] # {} /\ \A g \in Fds : io_events[g] # {} => g <= m
    BY <1>3, ZenonT(60) DEF Active, find_max_active_fd
  <2> QED  BY Zenon, <1>1, <2>2, <2>3 DEF Active
<1> QED  BY Zenon, <1>2, <1>3

\* remove_bad_fds preserves the invariant.
LEMMA BadInv ==
    ASSUME IwInv, NEW bad \in SUBSET Fds, remove_bad_fds(bad)
    PROVE  IwInv'
<1> DEFINE gone == {fd \in bad : fd <= SelectMax /\ interest[fd] # {}}
<1>1. /\ engine = "select" /\ engine' = engine /\ revents' = revents
      /\ max_fd' = IF SelectMax \in gone THEN -1 ELSE SelectMax
      /\ interest' = [fd \in Fds |-> IF fd \in gone THEN {} ELSE interest[fd]]
      /\ io_events' = [fd \in Fds |-> IF fd \in gone THEN {} ELSE io_events[fd]]
      /\ nset' = [b \in Bits |-> nset[b] - Cardinality({fd \in gone : b \in interest[fd]})]
      /\ UNCHANGED << nwatched, table, event_index, polls, canceled >>
  BY Zenon DEF remove_bad_fds
<1>2. interest = io_events /\ (\A b \in Bits : nset[b] = Cardinality(Having(b))) /\ IwTypeOK
  BY Zenon, <1>1 DEF IwInv, EngineOK
<1>3. gone \in SUBSET Fds /\ SelectMax \in Int
  BY <1>2, MaxActive, ZenonT(60) DEF SelectMax, IwTypeOK
<1> HIDE DEF gone
<1>4. interest' = io_events'
  BY Zenon, <1>1, <1>2
<1>5. ASSUME NEW b \in Bits
      PROVE  nset'[b] = Cardinality(Having(b)') /\ nset'[b] \in Int
  <2> DEFINE H == {fd \in gone : b \in interest[fd]}
  <2>1. Having(b)' = Having(b) \ H /\ Having(b) \cap H = H
    BY Zenon, <1>1, <1>2, <1>3 DEF Having
  <2>2. Having(b) \in SUBSET Fds /\ H \in SUBSET Fds
    BY Zenon, <1>3 DEF Having
  <2>3. nset'[b] = nset[b] - Cardinality(H)
    BY Zenon, <1>1
  <2> HIDE DEF H
  <2>4. Cardinality(Having(b) \ H) = Cardinality(Having(b)) - Cardinality(Having(b) \cap H)
    BY <2>2, FdsFinite, FS_Difference, ZenonT(60)
  <2>5. Cardinality(Having(b)) \in Nat /\ Cardinality(H) \in Nat
    BY Zenon, <2>2, FdsFinite
  <2>6. Cardinality(Having(b)') = nset[b] - Cardinality(H) /\ nset[b] \in Nat
    BY <2>1, <2>4, <2>5, <1>2, ZenonT(60)
  <2> QED  BY SMTT(20), <2>3, <2>5, <2>6
<1>6. nset' \in [Bits -> Int]
  BY Zenon, <1>1, <1>5
<1>7. io_events' \in [Fds -> SUBSET Bits] /\ max_fd' \in Int
  BY SMTT(20), <1>1, <1>2, <1>3 DEF IwTypeOK
<1>8. IwTypeOK'
  BY <1>1, <1>2, <1>4, <1>6, <1>7, ZenonT(60) DEF IwTypeOK
<1> QED  BY Zenon, <1>1, <1>4, <1>5, <1>8 DEF IwInv, EngineOK

\* What a descriptor reports are events.
LEMMA HangupType ==
    ASSUME NEW ws \in SUBSET Bits, NEW ready
    PROVE  Hangup(ws, ready) \in SUBSET Bits /\ BothFilters(ws, ready) \in SUBSET Bits
BY Zenon DEF Hangup, BothFilters

\* A poll that only reports, and sets the interest list and max_fd, preserves
\* the invariant.
LEMMA ReportInv ==
    ASSUME IwInv,
           UNCHANGED << engine, io_events, nwatched, nset, table, event_index, polls, canceled >>,
           revents' \in [Fds -> SUBSET Bits], interest' \in [Fds -> SUBSET Bits], max_fd' \in Int,
           engine \in {"epoll", "port", "select"} => interest' = io_events
    PROVE  IwInv'
<1>1. IwTypeOK'
  BY ZenonT(60) DEF IwInv, IwTypeOK
<1>2. Active' = Active /\ \A b \in Bits : Having(b)' = Having(b)
  BY Zenon DEF Active, Having
<1>3. PollfdsOK(table', event_index', io_events') <=> PollfdsOK(table, event_index, io_events)
  BY Zenon
<1>4. ChangesOK(table', event_index', io_events') <=> ChangesOK(table, event_index, io_events)
  BY Zenon
<1> QED  BY Zenon, <1>1, <1>2, <1>3, <1>4 DEF IwInv, EngineOK

\* What the entries of pollfds ask for is what is watched.
LEMMA AskedIsWatched ==
    ASSUME IwInv, engine = "poll"
    PROVE  \A fd \in Fds : Asked(fd) = io_events[fd]
<1>1. PollfdsOK(table, event_index, io_events)
  BY Zenon DEF IwInv, EngineOK
<1> TAKE fd \in Fds
<1> DEFINE i == event_index[fd]["READ"] + 1
<1>2. \A j \in DOMAIN table : j \in Int /\ (table[j].fd = fd => j = i)
  <2>1. DOMAIN table = 1 .. Len(table) /\ Len(table) \in Nat
    BY Zenon, <1>1, Entries DEF PollfdsOK
  <2>2. \A j \in DOMAIN table : event_index[table[j].fd]["READ"] = j - 1
    BY Zenon, <1>1 DEF PollfdsOK
  <2> QED  BY SMTT(20), <2>1, <2>2
<1>3. IF io_events[fd] = {} THEN i = 0
      ELSE i \in DOMAIN table /\ table[i].fd = fd /\ table[i].events = io_events[fd]
  BY Zenon, <1>1 DEF PollfdsOK
<1>4. 0 \notin DOMAIN table
  <2>1. DOMAIN table = 1 .. Len(table) /\ Len(table) \in Nat
    BY Zenon, <1>1, Entries DEF PollfdsOK
  <2> QED  BY SMTT(20), <2>1
<1> HIDE DEF i
<1>5. CASE io_events[fd] = {}
  BY Zenon, <1>2, <1>3, <1>4, <1>5 DEF Asked
<1>6. CASE io_events[fd] # {}
  <2>1. {j \in DOMAIN table : table[j].fd = fd} = {i}
    BY Zenon, <1>2, <1>3, <1>6
  <2> QED  BY Zenon, <2>1, <1>3, <1>6 DEF Asked
<1> QED  BY Zenon, <1>5, <1>6

\* Every watched filter is in the interest list once the changes are applied.
LEMMA ChangesApplied ==
    ASSUME IwInv, engine = "kqueue"
    PROVE  \A fd \in Fds : io_events[fd] \subseteq Applied(interest, table)[fd]
<1>1. ChangesOK(table, event_index, io_events) /\ io_events \in [Fds -> SUBSET Bits]
  BY Zenon DEF IwInv, EngineOK, IwTypeOK
<1> TAKE fd \in Fds
<1> SUFFICES ASSUME NEW b \in io_events[fd]
             PROVE  b \in Applied(interest, table)[fd]
  BY Zenon
<1>2. b \in Bits
  BY Zenon, <1>1
<1>3. \E i \in DOMAIN table : table[i].fd = fd /\ table[i].events = b
  BY SMTT(20), <1>1, <1>2 DEF ChangesOK
<1> QED  BY Zenon, <1>2, <1>3 DEF Applied

\* The engines that read nothing when nothing is watched miss nothing.
LEMMA NothingMissed ==
    ASSUME IwInv, NothingWatched
    PROVE  \A fd \in Fds : io_events[fd] = {}
<1>1. IwTypeOK /\ EngineOK
  BY Zenon DEF IwInv
<1>2. CASE engine \in {"epoll", "io_uring"} /\ nwatched = 0
  <2>1. Cardinality(Active) = 0 /\ Active \in SUBSET Fds
    BY Zenon, <1>1, <1>2 DEF EngineOK, Active
  <2>2. Active = {}
    BY Zenon, <2>1, FdsFinite, FS_EmptySet
  <2> QED  BY Zenon, <2>2 DEF Active
<1>3. CASE engine = "poll" /\ table = << >>
  <2>1. PollfdsOK(table, event_index, io_events)
    BY Zenon, <1>1, <1>3 DEF EngineOK
  <2> QED  BY SMTT(20), <1>3, <2>1 DEF PollfdsOK
<1>4. CASE engine = "kqueue" /\ table = << >>
  <2>1. ChangesOK(table, event_index, io_events) /\ \A fd \in Fds : io_events[fd] \in SUBSET Bits
    BY Zenon, <1>1, <1>4 DEF EngineOK, IwTypeOK
  <2> QED  BY SMTT(20), <1>4, <2>1 DEF ChangesOK
<1>5. CASE engine = "select" /\ \A b \in Bits : nset[b] = 0
  <2>1. \A b \in Bits : Cardinality(Having(b)) = 0 /\ Having(b) \in SUBSET Fds
    BY Zenon, <1>1, <1>5 DEF EngineOK, Having
  <2>2. \A b \in Bits : Having(b) = {}
    BY Zenon, <2>1, FdsFinite, FS_EmptySet
  <2> QED  BY Zenon, <2>2, <1>1 DEF Having, IwTypeOK
<1> QED  BY Zenon, <1>2, <1>3, <1>4, <1>5 DEF NothingWatched

-----------------------------------------------------------------------------

\* What a poll finds of a descriptor are events, and all those of them that are
\* watched and ready.
LEMMA FindsReady ==
    ASSUME IwInv, NEW fd \in Fds, NEW ready \in Readiness
    PROVE  /\ Finds(fd, ready) \in SUBSET Bits
           /\ \/ io_events[fd] \cap ready[fd] \subseteq Finds(fd, ready)
              \/ engine = "select" /\ max_fd # -1 /\ fd > max_fd
<1>1. IwTypeOK /\ EngineOK /\ io_events[fd] \in SUBSET Bits
  BY Zenon DEF IwInv, IwTypeOK
<1>2. CASE NothingWatched
  BY Zenon, <1>2, NothingMissed DEF Finds
<1>3. CASE ~NothingWatched /\ engine = "epoll"
  <2>1. interest[fd] = io_events[fd] /\ Finds(fd, ready) = Hangup(interest[fd], ready[fd])
    BY Zenon, <1>1, <1>3 DEF EngineOK, Finds
  <2> QED  BY Zenon, <2>1, <1>1 DEF Hangup
<1>4. CASE ~NothingWatched /\ engine = "poll"
  <2>1. Asked(fd) = io_events[fd] /\ Finds(fd, ready) = Hangup(Asked(fd), ready[fd])
    BY Zenon, <1>4, AskedIsWatched DEF Finds
  <2> QED  BY Zenon, <2>1, <1>1 DEF Hangup
<1>5. CASE ~NothingWatched /\ engine = "kqueue"
  <2> DEFINE in == Applied(interest, table)
  <2>1. in[fd] \in SUBSET Bits /\ io_events[fd] \subseteq in[fd]
    BY SMTT(20), <1>1, <1>5, ChangesApplied, AppliedType DEF IwTypeOK
  <2>2. Finds(fd, ready) = BothFilters(in[fd], ready[fd])
    BY Zenon, <1>5 DEF Finds
  <2> HIDE DEF in
  <2> QED  BY Zenon, <2>1, <2>2, <1>1 DEF BothFilters
<1>6. CASE ~NothingWatched /\ engine = "port"
  <2>1. interest[fd] = io_events[fd] /\ Finds(fd, ready) = interest[fd] \cap ready[fd]
    BY Zenon, <1>1, <1>6 DEF EngineOK, Finds
  <2> QED  BY Zenon, <2>1, <1>1
<1>7. CASE ~NothingWatched /\ engine = "select"
  <2>1. /\ interest[fd] = io_events[fd]
        /\ Finds(fd, ready) = IF fd <= SelectMax THEN interest[fd] \cap ready[fd] ELSE {}
    BY Zenon, <1>1, <1>7 DEF EngineOK, Finds
  <2>2. max_fd \in Int /\ fd \in Int
    BY SMTT(20), <1>1, IoWatcherAssumption DEF IwTypeOK, Fds, IoWatcherAssumption
  <2>3. io_events[fd] = {} \/ fd <= SelectMax \/ (max_fd # -1 /\ fd > max_fd)
    <3>1. CASE max_fd = -1
      BY Zenon, <3>1, <1>1, MaxActive DEF SelectMax, Active
    <3>2. CASE max_fd # -1
      BY SMTT(20), <3>2, <2>2 DEF SelectMax
    <3> QED  BY Zenon, <3>1, <3>2
  <2> QED  BY Zenon, <2>1, <2>3, <1>1, <1>7
<1>8. CASE ~NothingWatched /\ engine = "io_uring"
  <2>1. Finds(fd, ready) = ByRequests(fd, ready) \cup ByCanceled(fd)
    BY Zenon, <1>8 DEF Finds
  <2>2. \A m \in SUBSET Bits : Hangup(m, ready[fd]) \in SUBSET Bits
    BY Zenon, HangupType
  <2>3. ByRequests(fd, ready) \subseteq Bits
    BY Zenon, <2>2 DEF ByRequests
  <2>4. ByCanceled(fd) \subseteq Bits
    BY Zenon, <1>1 DEF ByCanceled
  <2>5. io_events[fd] # {} => polls[fd][io_events[fd]] > 0
    BY Zenon, <1>1, <1>8 DEF EngineOK
  <2>6. io_events[fd] # {} => Hangup(io_events[fd], ready[fd]) \subseteq ByRequests(fd, ready)
    BY Zenon, <2>5, <1>1 DEF ByRequests
  <2>7. io_events[fd] \cap ready[fd] \subseteq Hangup(io_events[fd], ready[fd])
    BY Zenon, <1>1 DEF Hangup
  <2> QED  BY Zenon, <2>1, <2>3, <2>4, <2>6, <2>7
<1>9. engine \in {"epoll", "port", "poll", "kqueue", "select", "io_uring"}
  BY Zenon, <1>1, IoWatcherAssumption DEF IwTypeOK, IoWatcherAssumption
<1> QED  BY Zenon, <1>2, <1>3, <1>4, <1>5, <1>6, <1>7, <1>8, <1>9

\* A poll leaves revents a set of events.
LEMMA ReportedType ==
    ASSUME IwInv, NEW ready \in Readiness, Reported(ready)
    PROVE  revents' \in [Fds -> SUBSET Bits]
<1>1. \A fd \in Fds : Finds(fd, ready) \in SUBSET Bits
  BY Zenon, FindsReady
<1>2. revents \in [Fds -> SUBSET Bits] /\ revents' = [fd \in Fds |-> revents[fd] \cup Finds(fd, ready)]
  BY Zenon DEF IwInv, IwTypeOK, Reported
<1> QED  BY Zenon, <1>1, <1>2

\* The poll of io_uring: a descriptor with events has a request for them, before
\* and after.
LEMMA UringPollInv ==
    ASSUME IwInv, NEW ready \in Readiness, UringPoll(ready)
    PROVE  IwInv'
<1>1. IwTypeOK /\ EngineOK /\ engine = "io_uring"
  BY Zenon DEF IwInv, UringPoll
<1>2. /\ canceled' = [fd \in Fds |-> 0]
      /\ UNCHANGED << engine, io_events, interest, nwatched, nset, table, event_index, max_fd >>
      /\ polls' = [fd \in Fds |-> [m \in SUBSET Bits |->
            (IF Hangup(m, ready[fd]) # {} THEN 0 ELSE polls[fd][m])
            + (IF m # {} /\ m = io_events[fd] THEN Completed(polls[fd], ready[fd]) + canceled[fd] ELSE 0)]]
  BY Zenon DEF UringPoll
<1>4. revents' \in [Fds -> SUBSET Bits]
  BY Zenon, ReportedType DEF UringPoll
<1>6. ASSUME NEW fd \in Fds
      PROVE  /\ Completed(polls[fd], ready[fd]) \in Nat
             /\ \A m \in (SUBSET Bits) \ {{}} :
                  Hangup(m, ready[fd]) # {} => Completed(polls[fd], ready[fd]) >= polls[fd][m]
  <2> DEFINE p == polls[fd]
             n(m) == IF Hangup(m, ready[fd]) # {} THEN p[m] ELSE 0
  <2>1. p \in [SUBSET Bits -> Nat]
    BY <1>1, ZenonT(60) DEF IwTypeOK
  <2>2. {"READ"} \in SUBSET Bits /\ {"WRITE"} \in SUBSET Bits /\ Bits \in SUBSET Bits
    BY Zenon DEF Bits
  <2>3. \A m \in (SUBSET Bits) \ {{}} : m = {"READ"} \/ m = {"WRITE"} \/ m = Bits
    BY ZenonT(60) DEF Bits
  <2>4. Completed(p, ready[fd]) = n({"READ"}) + n({"WRITE"}) + n(Bits)
    BY Zenon DEF Completed
  <2> HIDE DEF p
  <2>5. n({"READ"}) \in Nat /\ n({"WRITE"}) \in Nat /\ n(Bits) \in Nat
    BY Zenon, <2>1, <2>2
  <2>6. \A m \in SUBSET Bits : Hangup(m, ready[fd]) # {} => n(m) = p[m]
    BY Zenon
  <2> HIDE DEF n
  <2>7. Completed(p, ready[fd]) \in Nat
    BY SMTT(20), <2>4, <2>5
  <2>8. /\ Completed(p, ready[fd]) >= n({"READ"}) /\ Completed(p, ready[fd]) >= n({"WRITE"})
        /\ Completed(p, ready[fd]) >= n(Bits)
    BY SMTT(20), <2>4, <2>5
  <2>9. \A m \in (SUBSET Bits) \ {{}} : Completed(p, ready[fd]) >= n(m)
    BY <2>3, <2>8, ZenonT(60)
  <2>10. \A m \in (SUBSET Bits) \ {{}} :
           Hangup(m, ready[fd]) # {} => Completed(p, ready[fd]) >= p[m]
    BY Zenon, <2>6, <2>9
  <2> QED  BY Zenon, <2>7, <2>10 DEF p
<1>7. ASSUME NEW fd \in Fds, NEW m \in SUBSET Bits
      PROVE  /\ polls'[fd][m] \in Nat
             /\ m # {} /\ m = io_events[fd] => polls'[fd][m] > 0
  <2> DEFINE c == Completed(polls[fd], ready[fd])
             a == polls[fd][m]
  <2>1. a \in Nat /\ canceled[fd] \in Nat /\ c \in Nat
    BY ZenonT(30), <1>1, <1>6 DEF IwTypeOK
  <2>2. m # {} /\ Hangup(m, ready[fd]) # {} => c >= a
    BY Zenon, <1>6
  <2>3. m # {} /\ m = io_events[fd] => a > 0
    BY Zenon, <1>1 DEF EngineOK
  <2>4. polls'[fd][m] = (IF Hangup(m, ready[fd]) # {} THEN 0 ELSE a)
                        + (IF m # {} /\ m = io_events[fd] THEN c + canceled[fd] ELSE 0)
    BY Zenon, <1>2
  <2> HIDE DEF a, c
  <2> QED  BY SMTT(20), <2>1, <2>2, <2>3, <2>4
<1>8. polls' \in [Fds -> [SUBSET Bits -> Nat]]
  <2> DEFINE f(fd) == [m \in SUBSET Bits |->
            (IF Hangup(m, ready[fd]) # {} THEN 0 ELSE polls[fd][m])
            + (IF m # {} /\ m = io_events[fd] THEN Completed(polls[fd], ready[fd]) + canceled[fd] ELSE 0)]
  <2>1. \A fd \in Fds : f(fd) \in [SUBSET Bits -> Nat] /\ polls'[fd] = f(fd)
    BY <1>2, <1>7, ZenonT(60)
  <2>2. polls' = [fd \in Fds |-> f(fd)]
    BY Zenon, <1>2
  <2> HIDE DEF f
  <2> QED  BY <2>1, <2>2, ZenonT(60)
<1>9. IwTypeOK'
  BY <1>1, <1>2, <1>4, <1>8, ZenonT(60) DEF IwTypeOK
<1>10. Active' = Active /\ nwatched' = nwatched /\ nwatched = Cardinality(Active)
  BY Zenon, <1>1, <1>2 DEF Active, EngineOK
<1>11. \A fd \in Fds : io_events'[fd] # {} => polls'[fd][io_events'[fd]] > 0
  BY <1>1, <1>2, <1>7, ZenonT(60) DEF IwTypeOK
<1>12. EngineOK'
  BY <1>1, <1>2, <1>10, <1>11, ZenonT(60) DEF EngineOK
<1> QED  BY Zenon, <1>9, <1>12 DEF IwInv

\* The poll of every engine preserves the invariant.
LEMMA PollInv ==
    ASSUME IwInv, NEW ready \in Readiness, iowatcher_poll_events(ready)
    PROVE  IwInv'
<1>1. IwTypeOK /\ EngineOK
  BY Zenon DEF IwInv
<1>2. CASE UNCHANGED iwvars
  <2>1. /\ UNCHANGED << engine, io_events, nwatched, nset, table, event_index, polls, canceled >>
        /\ revents' = revents /\ interest' = interest /\ max_fd' = max_fd
    BY Zenon, <1>2 DEF iwvars
  <2> QED  BY Zenon, <2>1, <1>1, ReportInv DEF IwTypeOK, EngineOK
<1>3. CASE EpollPoll(ready)
  <2>1. /\ engine \in {"epoll", "poll"} /\ interest' = interest /\ max_fd' = max_fd
        /\ UNCHANGED << engine, io_events, nwatched, nset, table, event_index, polls, canceled >>
    BY Zenon, <1>3 DEF EpollPoll
  <2>2. revents' \in [Fds -> SUBSET Bits]
    BY Zenon, <1>3, ReportedType DEF EpollPoll
  <2> QED  BY Zenon, <2>1, <2>2, <1>1, ReportInv DEF IwTypeOK, EngineOK
<1>5. CASE KqueuePoll(ready)
  <2>1. /\ engine = "kqueue" /\ interest' = Applied(interest, table) /\ max_fd' = max_fd
        /\ UNCHANGED << engine, io_events, nwatched, nset, table, event_index, polls, canceled >>
    BY Zenon, <1>5 DEF KqueuePoll
  <2>2. revents' \in [Fds -> SUBSET Bits]
    BY Zenon, <1>5, ReportedType DEF KqueuePoll
  <2>3. interest' \in [Fds -> SUBSET Bits]
    BY Zenon, <2>1, <1>1, AppliedType DEF IwTypeOK
  <2> QED  BY Zenon, <2>1, <2>2, <2>3, <1>1, ReportInv DEF IwTypeOK
<1>6. CASE PortPoll(ready)
  <2>1. /\ engine = "port" /\ max_fd' = max_fd
        /\ interest' = [fd \in Fds |-> IF interest[fd] \cap ready[fd] = {} THEN interest[fd] ELSE io_events[fd]]
        /\ UNCHANGED << engine, io_events, nwatched, nset, table, event_index, polls, canceled >>
    BY Zenon, <1>6 DEF PortPoll
  <2>2. revents' \in [Fds -> SUBSET Bits]
    BY Zenon, <1>6, ReportedType DEF PortPoll
  <2>3. interest = io_events /\ interest \in [Fds -> SUBSET Bits]
    BY Zenon, <2>1, <1>1 DEF EngineOK, IwTypeOK
  <2>4. interest' = io_events
    BY Zenon, <2>1, <2>3
  <2> QED  BY Zenon, <2>1, <2>2, <2>3, <2>4, <1>1, ReportInv DEF IwTypeOK
<1>7. CASE SelectPoll(ready)
  <2>1. /\ engine = "select" /\ max_fd' = SelectMax /\ interest' = interest
        /\ revents' = [fd \in Fds |-> IF Finds(fd, ready) # {} THEN Finds(fd, ready) ELSE revents[fd]]
        /\ UNCHANGED << engine, io_events, nwatched, nset, table, event_index, polls, canceled >>
    BY Zenon, <1>7 DEF SelectPoll
  <2>2. interest = io_events /\ interest \in [Fds -> SUBSET Bits] /\ revents \in [Fds -> SUBSET Bits]
    BY Zenon, <2>1, <1>1 DEF EngineOK, IwTypeOK
  <2>3. SelectMax \in Int
    BY <1>1, MaxActive, ZenonT(60) DEF SelectMax, IwTypeOK
  <2>4. \A fd \in Fds : Finds(fd, ready) \in SUBSET Bits
    BY Zenon, FindsReady
  <2>5. revents' \in [Fds -> SUBSET Bits]
    BY Zenon, <2>1, <2>2, <2>4
  <2> QED  BY Zenon, <2>1, <2>2, <2>3, <2>5, ReportInv
<1> QED  BY Zenon, <1>2, <1>3, <1>5, <1>6, <1>7, UringPollInv DEF iowatcher_poll_events

\* Every step of the loop preserves the invariant.
LEMMA StepInv == IwInv /\ [IwNext]_iwvars => IwInv'
<1> SUFFICES ASSUME IwInv, [IwNext]_iwvars
             PROVE  IwInv'
  BY Zenon
<1>1. IwTypeOK /\ EngineOK
  BY Zenon DEF IwInv
<1>2. CASE UNCHANGED iwvars
  <2>1. /\ UNCHANGED << engine, io_events, nwatched, nset, table, event_index, polls, canceled >>
        /\ revents' = revents /\ interest' = interest /\ max_fd' = max_fd
    BY Zenon, <1>2 DEF iwvars
  <2> QED  BY Zenon, <2>1, <1>1, ReportInv DEF IwTypeOK, EngineOK
<1>3. ASSUME NEW fd \in Fds, Handled(fd)
      PROVE  IwInv'
  <2>1. /\ UNCHANGED << engine, io_events, nwatched, nset, table, event_index, polls, canceled >>
        /\ revents' = [revents EXCEPT ![fd] = {}] /\ interest' = interest /\ max_fd' = max_fd
    BY Zenon, <1>3 DEF Handled
  <2>2. revents' \in [Fds -> SUBSET Bits]
    BY Zenon, <2>1, <1>1 DEF IwTypeOK
  <2> QED  BY Zenon, <2>1, <2>2, <1>1, ReportInv DEF IwTypeOK, EngineOK
<1> QED  BY Zenon, <1>2, <1>3, AddInv, DelInv, PollInv, BadInv DEF IwNext

\* Whatever was added and deleted before, with every engine and any number of
\* descriptors, every watched event that is ready is reported by the poll.
THEOREM ReadyIsAlwaysReported == IwSpec => []ReadyIsReported
<1>1. IwInv => ReadyIsReported
  BY Zenon, FindsReady DEF ReadyIsReported
<1> QED  BY <1>1, InitInv, StepInv, PTL DEF IwSpec
=============================================================================
