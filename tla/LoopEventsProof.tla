--------------------------- MODULE LoopEventsProof ---------------------------
(***************************************************************************)
(* The dispatch of events, for any timers, idles and ios, any delays and   *)
(* repeats and any number of calls and runs, when user code deletes no     *)
(* timer it has reset in the same round and no io that a stopped run left  *)
(* pending: events are freed once, the counters of the loop count, and a   *)
(* callback is one the event is due.                                       *)
(*                                                                         *)
(* The parts of the inductive invariant:                                   *)
(*   Lists    an event is linked once, on the list of its priority;        *)
(*   EvOK(e)  what the flags of an event, the heap, the idle list and the  *)
(*            links say of each other;                                     *)
(*   Phases   between two rounds only ios are linked, and are pending;     *)
(*   Counts   the counters against what they count;                        *)
(*   BudgetOK repeat against the callbacks the event is still due.         *)
(***************************************************************************)
EXTENDS LoopEvents, FiniteSetTheorems, TLAPS

PCs == {"out", "poll", "polled", "timers", "dispatch", "cb", "freed"}

LType ==
    /\ live \subseteq Ev /\ owned \subseteq Ev /\ stale \subseteq Ev /\ stale \cap Idles = {}
    /\ active \in [Ev -> BOOLEAN] /\ pending \in [Ev -> BOOLEAN] /\ destroy \in [Ev -> BOOLEAN]
    /\ repeat \in [Counted -> 0 .. INFINITE] /\ budget \in [Counted -> Int]
    /\ events \in [Ios -> SUBSET {"R", "W"}]
    /\ loop_timers \subseteq Timers /\ idles \subseteq Idles
    /\ pendings \in [Prio -> Seq(Ev)]
    /\ loop_pc \in PCs /\ cur \in Ev \cup {NoEvent} /\ (loop_pc = "cb" <=> cur # NoEvent)

Lists ==
    /\ \A p \in Prio : \A i \in 1 .. Len(pendings[p]) :
          PriorityOf(pendings[p][i]) = p /\ pendings[p][i] # cur
    /\ \A p \in Prio : \A i, j \in 1 .. Len(pendings[p]) : pendings[p][i] = pendings[p][j] => i = j

EvOK(e) ==
    /\ e \in Linked => e \in live
    /\ pending[e] => e \in Linked /\ e \notin stale
    /\ e \in stale => e \in Linked
    /\ active[e] => e \in owned
    /\ e \in Counted =>
          /\ e \in Linked => pending[e] \/ e \in stale
          /\ e \in owned => e \in live /\ active[e]
          /\ e \in loop_timers \cup idles => e \in live /\ active[e] /\ ~destroy[e]
          /\ e \in live => e \in loop_timers \cup idles \/ (pending[e] /\ destroy[e])
    /\ e \in Ios =>
          /\ e \in live /\ e \in owned /\ ~destroy[e]
          /\ active[e] <=> events[e] # {}
          /\ pending[e] => active[e]

Phases ==
    /\ loop_pc \notin {"dispatch", "cb"} => \A e \in Linked : e \in Ios /\ pending[e]
    /\ loop_pc = "freed" => live = {} /\ Linked = {} /\ loop_timers = {} /\ idles = {}

Actives == {e \in Ev : active[e]}
Pending == {e \in Ev : pending[e]}

Counts ==
    /\ ntimers = Cardinality(loop_timers) /\ nidles = Cardinality(idles)
    /\ nios = Cardinality(Registered) /\ nactives = Cardinality(Actives)
    /\ loop_pc \notin {"dispatch", "cb"} => npendings = Cardinality(Pending)

\* What the event is still to run, without the callback that is under way.
Due(e) == IF pending[e] /\ e # cur THEN repeat[e] + 1 ELSE repeat[e]

BudgetOK(e) ==
    /\ budget[e] <= INFINITE
    /\ budget[e] # INFINITE =>
          /\ repeat[e] # INFINITE /\ budget[e] >= Due(e)
          /\ e \in loop_timers \cup idles => repeat[e] > 0

LoopInv ==
    /\ LType /\ Phases /\ \A e \in Counted : BudgetOK(e)
    /\ loop_pc # "freed" => Lists /\ Counts /\ \A e \in Ev : EvOK(e)

-----------------------------------------------------------------------------
(* Counts and flags. *)

\* Events are finitely many.
LEMMA Finite ==
    ASSUME NEW S, S \subseteq Ev
    PROVE  IsFiniteSet(S) /\ Cardinality(S) \in Nat
<1>1. IsFiniteSet(Ev)
  BY Zenon, LoopAssumption DEF LoopAssumption
<1> QED  BY Zenon, <1>1, FS_Subset, FS_CardinalityType

\* One event more, or less.
LEMMA OneMore ==
    ASSUME NEW S, S \subseteq Ev, NEW e \in Ev
    PROVE  Cardinality(S \cup {e}) = IF e \in S THEN Cardinality(S) ELSE Cardinality(S) + 1
<1>1. e \in S => S \cup {e} = S
  BY Zenon
<1> QED  BY Zenon, <1>1, Finite, FS_AddElement

LEMMA OneLess ==
    ASSUME NEW S, S \subseteq Ev, NEW e \in Ev
    PROVE  Cardinality(S \ {e}) = IF e \in S THEN Cardinality(S) - 1 ELSE Cardinality(S)
<1>1. e \notin S => S \ {e} = S
  BY Zenon
<1> QED  BY Zenon, <1>1, Finite, FS_RemoveElement

\* EVENT_ACTIVE and EVENT_INACTIVE keep nactives in step.
LEMMA Activated ==
    ASSUME LType, NEW e \in Ev, EVENT_ACTIVE(e), nactives = Cardinality(Actives)
    PROVE  /\ active' \in [Ev -> BOOLEAN] /\ active'[e] = TRUE
           /\ \A f \in Ev : f # e => active'[f] = active[f]
           /\ nactives' = Cardinality(Actives')
<1>1. /\ active' \in [Ev -> BOOLEAN] /\ active'[e] = TRUE
      /\ \A f \in Ev : f # e => active'[f] = active[f]
  BY Zenon DEF LType, EVENT_ACTIVE
<1>2. Actives' = Actives \cup {e} /\ Actives \subseteq Ev /\ (e \in Actives <=> active[e])
  BY Zenon, <1>1 DEF Actives
<1> QED  BY Zenon, <1>1, <1>2, OneMore DEF EVENT_ACTIVE

LEMMA Inactivated ==
    ASSUME LType, NEW e \in Ev, EVENT_INACTIVE(e), nactives = Cardinality(Actives)
    PROVE  /\ active' \in [Ev -> BOOLEAN] /\ active'[e] = FALSE
           /\ \A f \in Ev : f # e => active'[f] = active[f]
           /\ nactives' = Cardinality(Actives')
<1>1. /\ active' \in [Ev -> BOOLEAN] /\ active'[e] = FALSE
      /\ \A f \in Ev : f # e => active'[f] = active[f]
  BY Zenon DEF LType, EVENT_INACTIVE
<1>2. Actives' = Actives \ {e} /\ Actives \subseteq Ev /\ (e \in Actives <=> active[e])
  BY Zenon, <1>1 DEF Actives
<1> QED  BY Zenon, <1>1, <1>2, OneLess DEF EVENT_INACTIVE

\* The flags of an event, and where it is.
Same(e) ==
    /\ e \in live' <=> e \in live
    /\ e \in owned' <=> e \in owned
    /\ e \in stale' <=> e \in stale
    /\ e \in loop_timers' \cup idles' <=> e \in loop_timers \cup idles
    /\ active'[e] = active[e] /\ pending'[e] = pending[e] /\ destroy'[e] = destroy[e]
    /\ e \in Ios => events'[e] = events[e]

\* The invariant holds of an event nothing happens to.
LEMMA SameOK ==
    ASSUME NEW e \in Ev, EvOK(e), Same(e), e \in Linked' <=> e \in Linked
    PROVE  EvOK(e)'
BY Zenon DEF EvOK, Same

\* No list changes.
LEMMA ListsSame ==
    ASSUME Lists, UNCHANGED << pendings, cur >>
    PROVE  Lists' /\ Linked' = Linked
BY Zenon DEF Lists, Linked

-----------------------------------------------------------------------------
(* User code: it changes one event, and no list. *)

\* The parts of the invariant in a state before hloop_free.
LEMMA InvParts ==
    ASSUME LoopInv, loop_pc # "freed"
    PROVE  /\ LType /\ Lists /\ Phases /\ Counts
           /\ (\A e \in Ev : EvOK(e)) /\ \A e \in Counted : BudgetOK(e)
BY Zenon DEF LoopInv

\* The invariant after a call of user code about event x.
LEMMA UserStep ==
    ASSUME LoopInv, loop_pc \in {"out", "cb"}, UNCHANGED << pendings, cur, loop_pc >>, NEW x \in Ev,
           LType', Counts',
           \A e \in Ev : e # x => Same(e),
           \A e \in Counted : e # x => repeat'[e] = repeat[e] /\ budget'[e] = budget[e],
           EvOK(x)',
           loop_pc = "out" /\ pending[x] => pending'[x],
           x \in Counted => BudgetOK(x)'
    PROVE  LoopInv'
<1>0. /\ LType /\ Lists /\ Phases /\ Counts
      /\ (\A e \in Ev : EvOK(e)) /\ \A e \in Counted : BudgetOK(e)
      /\ loop_pc' # "freed"
  BY Zenon, InvParts
<1>1. Lists' /\ Linked' = Linked
  BY Zenon, <1>0, ListsSame
<1>2. \A e \in Ev : EvOK(e)'
  BY Zenon, <1>0, <1>1, SameOK
<1>3. Phases'
  <2> SUFFICES ASSUME loop_pc = "out", NEW e \in Linked  PROVE e \in Ios /\ pending'[e]
    BY Zenon, <1>0, <1>1 DEF Phases
  <2>1. e \in Ios /\ pending[e] /\ e \in Ev
    BY Zenon, <1>0 DEF Phases, Ev
  <2>2. CASE e = x
    BY Zenon, <2>1, <2>2
  <2>3. CASE e # x
    BY Zenon, <2>1, <2>3 DEF Same
  <2> QED  BY Zenon, <2>2, <2>3
<1>4. \A e \in Counted : BudgetOK(e)'
  <2> SUFFICES ASSUME NEW e \in Counted, e # x  PROVE BudgetOK(e)'
    BY Zenon
  <2>1. e \in Ev /\ Same(e) /\ repeat'[e] = repeat[e] /\ budget'[e] = budget[e]
    BY Zenon DEF Ev
  <2>2. Due(e)' = Due(e)
    BY Zenon, <2>1 DEF Due, Same
  <2> QED  BY Zenon, <1>0, <2>1, <2>2 DEF BudgetOK, Same
<1> QED  BY Zenon, <1>0, <1>1, <1>2, <1>3, <1>4 DEF LoopInv

\* What the constants give: kinds of events do not overlap.
LEMMA Kinds ==
    /\ Timers \cap Idles = {} /\ Counted \cap Ios = {} /\ Counted \subseteq Ev /\ Ios \subseteq Ev
    /\ NoEvent \notin Ev /\ INFINITE \in Nat \ {0} /\ Repeats \subseteq 0 .. INFINITE
BY Zenon, LoopAssumption DEF LoopAssumption, Timers, Counted, Ev

\* htimer_add, htimer_add_period and hidle_add: a new event that is not linked.
LEMMA Added ==
    ASSUME LoopInv, UserCode, NEW x \in Counted, NEW r \in Repeats, EVENT_ADD(x),
           repeat' = [repeat EXCEPT ![x] = r], budget' = [budget EXCEPT ![x] = Entitled(r)],
           UNCHANGED << events, pendings, stale, nios, npendings >>,
           \/ x \in Timers /\ loop_timers' = loop_timers \cup {x} /\ ntimers' = ntimers + 1 /\ UNCHANGED << idles, nidles >>
           \/ x \in Idles /\ idles' = idles \cup {x} /\ nidles' = nidles + 1 /\ UNCHANGED << loop_timers, ntimers >>
    PROVE  LoopInv'
<1>0. /\ loop_pc \in {"out", "cb"} /\ UNCHANGED << pendings, cur, loop_pc >> /\ x \in Ev
      /\ x \notin live /\ live' = live \cup {x} /\ owned' = owned \cup {x}
      /\ EVENT_ACTIVE(x) /\ x \notin Ios
  BY Zenon, Kinds DEF UserCode, EVENT_ADD
<1>1. /\ LType /\ Lists /\ Phases /\ Counts
      /\ (\A e \in Ev : EvOK(e)) /\ \A e \in Counted : BudgetOK(e)
  BY Zenon, <1>0, InvParts
<1>2. /\ active' \in [Ev -> BOOLEAN] /\ active'[x] = TRUE
      /\ \A f \in Ev : f # x => active'[f] = active[f]
      /\ nactives' = Cardinality(Actives')
  BY Zenon, <1>0, <1>1, Activated DEF Counts
<1>3. /\ pending' \in [Ev -> BOOLEAN] /\ pending'[x] = FALSE
      /\ destroy' \in [Ev -> BOOLEAN] /\ destroy'[x] = FALSE
      /\ \A f \in Ev : f # x => pending'[f] = pending[f] /\ destroy'[f] = destroy[f]
  BY Zenon, <1>0, <1>1 DEF EVENT_ADD, LType
<1>4. /\ repeat' \in [Counted -> 0 .. INFINITE] /\ repeat'[x] = r
      /\ budget' \in [Counted -> Int] /\ budget'[x] = Entitled(r)
      /\ \A f \in Counted : f # x => repeat'[f] = repeat[f] /\ budget'[f] = budget[f]
  BY SMTT(20), <1>1, Kinds DEF LType, Entitled
<1>5. LType'
  BY Zenon, <1>0, <1>1, <1>2, <1>3, <1>4 DEF LType
<1>6. x \notin Linked /\ x \notin stale /\ x \notin loop_timers \cup idles /\ pending[x] = FALSE
  BY Zenon, <1>0, <1>1 DEF EvOK, LType
<1>7. Linked' = Linked
  BY Zenon, <1>0, <1>1, ListsSame
<1>8. EvOK(x)'
  BY Zenon, <1>0, <1>2, <1>3, <1>6, <1>7 DEF EvOK
<1>9. \A e \in Ev : e # x => Same(e)
  BY SMTT(20), <1>0, <1>2, <1>3 DEF Same
<1>10. Counts'
  <2>1. loop_timers \subseteq Ev /\ idles \subseteq Ev
    BY Zenon, <1>1 DEF LType, Ev, Counted
  <2>2. ntimers' = Cardinality(loop_timers')
    BY SMTT(20), <1>0, <1>1, <1>6, <2>1, OneMore DEF Counts
  <2>3. nidles' = Cardinality(idles')
    BY SMTT(20), <1>0, <1>1, <1>6, <2>1, OneMore DEF Counts
  <2>4. Registered' = Registered
    BY Zenon DEF Registered
  <2>5. Pending' = Pending
    BY Zenon, <1>3, <1>6 DEF Pending
  <2> QED  BY Zenon, <1>0, <1>1, <1>2, <2>2, <2>3, <2>4, <2>5 DEF Counts
<1>11. BudgetOK(x)'
  <2>1. Due(x)' = r
    BY Zenon, <1>3, <1>4 DEF Due
  <2>2. r \in Int /\ INFINITE \in Int /\ (r = 0 \/ r > 0) /\ r <= INFINITE
    BY SMTT(20), Kinds
  <2> QED  BY SMTT(20), <1>4, <2>1, <2>2 DEF Entitled, BudgetOK
<1> QED  BY Zenon, <1>0, <1>4, <1>5, <1>6, <1>8, <1>9, <1>10, <1>11, UserStep

\* htimer_del and hidle_del: EVENT_DEL leaves an event that is pending to the
\* loop, and one that is not is on no list.
LEMMA Deleted ==
    ASSUME LoopInv, UserCode, NEW x \in Counted, x \in owned, x \notin stale, owned' = owned \ {x},
           active[x] =>
              /\ destroy' = [destroy EXCEPT ![x] = TRUE]
              /\ EVENT_DEL(x)
              /\ \/ /\ x \in Timers /\ loop_timers' = loop_timers \ {x} /\ UNCHANGED << idles, nidles >>
                    /\ ntimers' = IF destroy[x] THEN ntimers ELSE ntimers - 1
                 \/ /\ x \in Idles /\ idles' = idles \ {x} /\ UNCHANGED << loop_timers, ntimers >>
                    /\ nidles' = IF destroy[x] THEN nidles ELSE nidles - 1,
           UNCHANGED << pending, repeat, budget, events, pendings, stale, nios, npendings >>
    PROVE  LoopInv'
<1>0. /\ loop_pc \in {"out", "cb"} /\ UNCHANGED << pendings, cur, loop_pc >> /\ x \in Ev /\ x \notin Ios
  BY Zenon, Kinds DEF UserCode
<1>1. /\ LType /\ Lists /\ Phases /\ Counts
      /\ (\A e \in Ev : EvOK(e)) /\ \A e \in Counted : BudgetOK(e)
  BY Zenon, <1>0, InvParts
<1>2. /\ x \in live /\ active[x]
      /\ x \in loop_timers \cup idles <=> ~destroy[x]
      /\ destroy[x] => pending[x]
      /\ x \in Linked => pending[x]
  BY Zenon, <1>0, <1>1 DEF EvOK
<1>3. /\ destroy' \in [Ev -> BOOLEAN] /\ destroy'[x] = TRUE
      /\ \A f \in Ev : f # x => destroy'[f] = destroy[f]
  BY Zenon, <1>0, <1>1, <1>2 DEF LType
<1>4. /\ active' \in [Ev -> BOOLEAN] /\ active'[x] = FALSE
      /\ \A f \in Ev : f # x => active'[f] = active[f]
      /\ nactives' = Cardinality(Actives')
  BY Zenon, <1>0, <1>1, <1>2, Inactivated DEF Counts, EVENT_DEL
<1>5. live' = (IF pending[x] THEN live ELSE live \ {x}) /\ x \notin loop_timers' \cup idles'
  BY Zenon, <1>1, <1>2, Kinds DEF EVENT_DEL, LType
<1>6. LType'
  BY Zenon, <1>0, <1>1, <1>2, <1>3, <1>4, <1>5 DEF LType
<1>7. Linked' = Linked
  BY Zenon, <1>0, <1>1, ListsSame
<1>8. EvOK(x)'
  BY Zenon, <1>0, <1>1, <1>2, <1>3, <1>4, <1>5, <1>7 DEF EvOK
<1>9. \A e \in Ev : e # x => Same(e)
  BY Zenon, <1>0, <1>2, <1>3, <1>4, <1>5 DEF Same
<1>10. Counts'
  <2>1. loop_timers \subseteq Ev /\ idles \subseteq Ev /\ (x \in Timers => x \notin idles) /\ (x \in Idles => x \notin loop_timers)
    BY Zenon, <1>1, Kinds DEF LType, Ev, Counted
  <2>2. ntimers' = Cardinality(loop_timers')
    BY SMTT(20), <1>0, <1>1, <1>2, <2>1, OneLess DEF Counts
  <2>3. nidles' = Cardinality(idles')
    BY SMTT(20), <1>0, <1>1, <1>2, <2>1, OneLess DEF Counts
  <2>4. Registered' = Registered /\ Pending' = Pending
    BY Zenon DEF Registered, Pending
  <2> QED  BY Zenon, <1>0, <1>1, <1>4, <2>2, <2>3, <2>4 DEF Counts
<1>11. BudgetOK(x)'
  <2>1. Due(x)' = Due(x)
    BY Zenon, <1>0 DEF Due
  <2> QED  BY Zenon, <1>1, <1>5, <2>1 DEF BudgetOK
<1> QED  BY Zenon, <1>0, <1>5, <1>6, <1>8, <1>9, <1>10, <1>11, UserStep

\* htimer_reset: back into the heap; the timer stays on its list, if it is on
\* one, and is not pending.
LEMMA Reset ==
    ASSUME LoopInv, NEW t \in Timeouts, NEW d, htimer_reset(t, d)
    PROVE  LoopInv'
<1>0. /\ loop_pc \in {"out", "cb"} /\ UNCHANGED << pendings, cur, loop_pc >> /\ t \in Ev /\ t \notin Ios /\ t \in Counted
      /\ t \in owned /\ t \in Timers /\ EVENT_ACTIVE(t) /\ UNCHANGED << live, events, idles, owned >>
      /\ loop_timers' = loop_timers \cup {t} /\ stale' = stale \cup ({t} \cap Linked)
  BY Zenon, Kinds DEF UserCode, htimer_reset, EVENT_RESET, Timers, Counted
<1>1. /\ LType /\ Lists /\ Phases /\ Counts
      /\ (\A e \in Ev : EvOK(e)) /\ \A e \in Counted : BudgetOK(e)
  BY Zenon, <1>0, InvParts
<1>2. /\ active' \in [Ev -> BOOLEAN] /\ active'[t] = TRUE
      /\ \A f \in Ev : f # t => active'[f] = active[f]
      /\ nactives' = Cardinality(Actives')
  BY Zenon, <1>0, <1>1, Activated DEF Counts
<1>3. /\ pending' \in [Ev -> BOOLEAN] /\ pending'[t] = FALSE
      /\ destroy' \in [Ev -> BOOLEAN] /\ destroy'[t] = FALSE
      /\ \A f \in Ev : f # t => pending'[f] = pending[f] /\ destroy'[f] = destroy[f]
  BY Zenon, <1>0, <1>1 DEF htimer_reset, EVENT_RESET, LType
<1>4. /\ repeat' \in [Counted -> 0 .. INFINITE] /\ repeat'[t] = (IF repeat[t] = 0 THEN 1 ELSE repeat[t])
      /\ budget' \in [Counted -> Int] /\ budget'[t] = (IF budget[t] = 0 THEN 1 ELSE budget[t])
      /\ \A f \in Counted : f # t => repeat'[f] = repeat[f] /\ budget'[f] = budget[f]
  BY SMTT(20), <1>0, <1>1, Kinds DEF LType, htimer_reset
<1>5. LType'
  <2>1. stale' \subseteq Ev /\ stale' \cap Idles = {}
    BY SMTT(20), <1>0, <1>1, Kinds DEF LType
  <2> QED  BY Zenon, <1>0, <1>1, <1>2, <1>3, <1>4, <2>1 DEF LType
<1>6. /\ t \in live /\ (t \in loop_timers <=> ~destroy[t]) /\ (loop_pc = "out" => pending[t] = FALSE)
  <2>1. EvOK(t) /\ t \notin idles /\ pending[t] \in BOOLEAN
    BY Zenon, <1>0, <1>1, Kinds DEF LType
  <2>2. t \in live /\ (t \in loop_timers <=> ~destroy[t])
    BY Zenon, <1>0, <2>1 DEF EvOK
  <2>3. loop_pc = "out" => ~pending[t]
    BY Zenon, <1>0, <1>1, <2>1 DEF EvOK, Phases
  <2> QED  BY Zenon, <2>1, <2>2, <2>3
<1>7. Linked' = Linked
  BY Zenon, <1>0, <1>1, ListsSame
<1>8. EvOK(t)'
  <2>1. EvOK(t)
    BY Zenon, <1>0, <1>1
  <2> QED  BY Zenon, <1>0, <1>2, <1>3, <1>6, <1>7, <2>1 DEF EvOK
<1>9. \A e \in Ev : e # t => Same(e)
  BY Zenon, <1>0, <1>2, <1>3 DEF Same
<1>10. Counts'
  <2>1. loop_timers \subseteq Ev
    BY Zenon, <1>1 DEF LType, Ev, Counted
  <2>2. ntimers' = Cardinality(loop_timers')
    BY Zenon, <1>0, <1>1, <1>6, <2>1, OneMore DEF Counts, htimer_reset
  <2>3. Registered' = Registered
    BY Zenon, <1>0 DEF Registered
  <2>4. loop_pc = "out" => Pending' = Pending
    BY Zenon, <1>3, <1>6 DEF Pending
  <2> QED  BY Zenon, <1>0, <1>1, <1>2, <2>2, <2>3, <2>4 DEF Counts, htimer_reset
<1>11. BudgetOK(t)'
  <2>1. Due(t)' = repeat'[t]
    BY Zenon, <1>3 DEF Due
  <2>2. /\ repeat[t] \in Int /\ budget[t] \in Int /\ INFINITE \in Int /\ INFINITE > 0 /\ repeat[t] >= 0
        /\ Due(t) >= repeat[t] /\ Due(t) \in Int
    BY SMTT(20), <1>0, <1>1, Kinds DEF LType, Due
  <2>3. budget[t] <= INFINITE /\ (budget[t] # INFINITE => repeat[t] # INFINITE /\ budget[t] >= repeat[t])
    BY SMTT(20), <1>0, <1>1, <2>2 DEF BudgetOK
  <2>4. budget'[t] <= INFINITE
    BY SMTT(20), <1>4, <2>2, <2>3
  <2>5. budget'[t] # INFINITE => repeat'[t] # INFINITE /\ budget'[t] >= repeat'[t] /\ repeat'[t] > 0
    BY SMTT(20), <1>4, <2>2, <2>3
  <2> QED  BY Zenon, <2>1, <2>4, <2>5 DEF BudgetOK
<1> QED  BY Zenon, <1>0, <1>4, <1>5, <1>6, <1>8, <1>9, <1>10, <1>11, UserStep

\* hio_add and hio_del.
LEMMA IoAdded ==
    ASSUME LoopInv, NEW io \in Ios, NEW evs \in SUBSET {"R", "W"}, evs # {}, IoAdd(io, evs)
    PROVE  LoopInv'
<1>0. /\ loop_pc \in {"out", "cb"} /\ UNCHANGED << pendings, cur, loop_pc >> /\ io \in Ev /\ io \notin Counted
      /\ EVENT_ACTIVE(io) /\ UNCHANGED << live, pending, destroy, loop_timers, idles, owned, repeat, budget >>
      /\ stale' = IF active[io] THEN stale ELSE stale \cup ({io} \cap Linked)
  BY Zenon, Kinds DEF UserCode, IoAdd, sets
<1>1. /\ LType /\ Lists /\ Phases /\ Counts
      /\ (\A e \in Ev : EvOK(e)) /\ \A e \in Counted : BudgetOK(e)
  BY Zenon, <1>0, InvParts
<1>2. /\ active' \in [Ev -> BOOLEAN] /\ active'[io] = TRUE
      /\ \A f \in Ev : f # io => active'[f] = active[f]
      /\ nactives' = Cardinality(Actives')
  BY Zenon, <1>0, <1>1, Activated DEF Counts
<1>3. /\ events' \in [Ios -> SUBSET {"R", "W"}] /\ events'[io] # {}
      /\ \A f \in Ios : f # io => events'[f] = events[f]
  BY Zenon, <1>1 DEF LType, IoAdd
<1>4. LType'
  <2>1. stale' \subseteq Ev /\ stale' \cap Idles = {}
    BY SMTT(20), <1>0, <1>1, Kinds DEF LType, Counted
  <2> QED  BY Zenon, <1>0, <1>1, <1>2, <1>3, <2>1 DEF LType
<1>5. /\ io \in live /\ io \in owned /\ ~destroy[io] /\ (active[io] <=> events[io] # {})
      /\ pending[io] => active[io]
  BY Zenon, <1>0, <1>1 DEF EvOK
<1>6. Linked' = Linked
  BY Zenon, <1>0, <1>1, ListsSame
<1>7. EvOK(io)'
  <2>1. EvOK(io)
    BY Zenon, <1>0, <1>1
  <2> QED  BY Zenon, <1>0, <1>2, <1>3, <1>5, <1>6, <2>1 DEF EvOK
<1>8. \A e \in Ev : e # io => Same(e)
  BY Zenon, <1>0, <1>2, <1>3 DEF Same
<1>9. Counts'
  <2>1. Registered' = Registered \cup {io} /\ Registered \subseteq Ev /\ (io \in Registered <=> active[io])
    BY Zenon, <1>3, <1>5, Kinds DEF Registered
  <2>2. nios' = Cardinality(Registered')
    BY Zenon, <1>0, <1>1, <2>1, OneMore DEF Counts, IoAdd
  <2>3. Pending' = Pending
    BY Zenon, <1>0 DEF Pending
  <2> QED  BY Zenon, <1>0, <1>1, <1>2, <2>2, <2>3 DEF Counts, IoAdd
<1> QED  BY Zenon, <1>0, <1>4, <1>7, <1>8, <1>9, UserStep

LEMMA IoDeleted ==
    ASSUME ~DelAfterStop, LoopInv, NEW io \in Ios, NEW evs, IoDel(io, evs)
    PROVE  LoopInv'
<1>0. /\ loop_pc \in {"out", "cb"} /\ UNCHANGED << pendings, cur, loop_pc >> /\ io \in Ev /\ io \notin Counted
      /\ UNCHANGED << live, destroy, loop_timers, idles, owned, stale, repeat, budget, ntimers, nidles >>
      /\ active[io] /\ (loop_pc = "out" => io \notin Linked) /\ events' = [events EXCEPT ![io] = @ \ evs]
  BY Zenon, Kinds DEF UserCode, IoDel, sets, ghosts
<1>1. /\ LType /\ Lists /\ Phases /\ Counts
      /\ (\A e \in Ev : EvOK(e)) /\ \A e \in Counted : BudgetOK(e)
  BY Zenon, <1>0, InvParts
<1>2. /\ events' \in [Ios -> SUBSET {"R", "W"}] /\ events'[io] = events[io] \ evs
      /\ \A f \in Ios : f # io => events'[f] = events[f]
  BY Zenon, <1>0, <1>1 DEF LType
<1>3. /\ active' \in [Ev -> BOOLEAN] /\ (active'[io] <=> events'[io] # {})
      /\ \A f \in Ev : f # io => active'[f] = active[f]
      /\ nactives' = Cardinality(Actives')
  <2>1. CASE events'[io] = {}
    BY Zenon, <1>0, <1>1, <2>1, Inactivated DEF Counts, IoDel
  <2>2. CASE events'[io] # {}
    <3>1. active' = active /\ nactives' = nactives
      BY Zenon, <2>2 DEF IoDel
    <3>2. Actives' = Actives /\ active' \in [Ev -> BOOLEAN]
      BY Zenon, <1>1, <3>1 DEF Actives, LType
    <3> QED  BY Zenon, <1>0, <1>1, <2>2, <3>1, <3>2 DEF Counts
  <2> QED  BY Zenon, <2>1, <2>2
<1>4. /\ pending' \in [Ev -> BOOLEAN] /\ (pending'[io] <=> events'[io] # {} /\ pending[io])
      /\ \A f \in Ev : f # io => pending'[f] = pending[f]
  <2>1. CASE events'[io] = {}
    BY Zenon, <1>0, <1>1, <2>1 DEF IoDel, LType, EVENT_UNPENDING
  <2>2. CASE events'[io] # {}
    BY Zenon, <1>0, <1>1, <2>2 DEF IoDel, LType
  <2> QED  BY Zenon, <2>1, <2>2
<1>5. LType'
  BY Zenon, <1>0, <1>1, <1>2, <1>3, <1>4 DEF LType
<1>6. /\ io \in live /\ io \in owned /\ ~destroy[io] /\ (active[io] <=> events[io] # {})
      /\ loop_pc = "out" => pending[io] = FALSE
  BY Zenon, <1>0, <1>1 DEF EvOK, LType
<1>7. Linked' = Linked
  BY Zenon, <1>0, <1>1, ListsSame
<1>8. EvOK(io)'
  <2>1. EvOK(io)
    BY Zenon, <1>0, <1>1
  <2> QED  BY Zenon, <1>0, <1>2, <1>3, <1>4, <1>6, <1>7, <2>1 DEF EvOK
<1>9. \A e \in Ev : e # io => Same(e)
  BY Zenon, <1>0, <1>2, <1>3, <1>4 DEF Same
<1>10. Counts'
  <2>1. Registered \subseteq Ev /\ io \in Registered
    BY Zenon, <1>0, <1>6, Kinds DEF Registered
  <2>2. nios' = Cardinality(Registered')
    <3>1. CASE events'[io] = {}
      <4>1. Registered' = Registered \ {io}
        BY Zenon, <1>2, <3>1 DEF Registered
      <4> QED  BY Zenon, <1>0, <1>1, <2>1, <3>1, <4>1, OneLess DEF Counts, IoDel
    <3>2. CASE events'[io] # {}
      <4>1. Registered' = Registered
        BY Zenon, <1>2, <2>1, <3>2 DEF Registered
      <4> QED  BY Zenon, <1>1, <3>2, <4>1 DEF Counts, IoDel
    <3> QED  BY Zenon, <3>1, <3>2
  <2>3. loop_pc = "out" => Pending' = Pending /\ npendings' = npendings
    <3>1. loop_pc = "out" => Pending' = Pending
      BY Zenon, <1>4, <1>6 DEF Pending
    <3> QED  BY Zenon, <3>1, <1>6 DEF IoDel, EVENT_UNPENDING
  <2> QED  BY Zenon, <1>0, <1>1, <1>3, <2>2, <2>3 DEF Counts
<1> QED  BY Zenon, <1>0, <1>5, <1>6, <1>8, <1>9, <1>10, UserStep

-----------------------------------------------------------------------------
(* The loop. *)

\* Steps of hloop_run that only say where it is.
LEMMA Moved ==
    ASSUME LoopInv, UNCHANGED << flags, repeat, events, sets, counters, cur, ghosts >>,
           {loop_pc, loop_pc'} \subseteq {"out", "poll", "polled", "timers"} \/ loop_pc' = loop_pc
    PROVE  LoopInv'
<1>0. /\ UNCHANGED << live, active, pending, destroy, repeat, events, loop_timers, idles, pendings, nactives, ntimers,
                      nidles, nios, npendings, cur, owned, stale, budget >>
      /\ loop_pc \in PCs /\ loop_pc' \in PCs /\ (loop_pc' = "cb" <=> loop_pc = "cb") /\ (loop_pc' = "freed" <=> loop_pc = "freed")
      /\ (loop_pc' \in {"dispatch", "cb"} <=> loop_pc \in {"dispatch", "cb"})
  BY Zenon DEF flags, sets, counters, ghosts, LoopInv, LType, PCs
<1>1. LType'
  BY Zenon, <1>0 DEF LoopInv, LType
<1>2. Linked' = Linked
  BY Zenon, <1>0 DEF Linked
<1>3. Phases'
  BY Zenon, <1>0, <1>2 DEF LoopInv, Phases
<1>4. \A e \in Counted : BudgetOK(e)'
  BY Zenon, <1>0 DEF LoopInv, BudgetOK, Due
<1>5. loop_pc' # "freed" => Lists'
  BY Zenon, <1>0 DEF LoopInv, Lists
<1>6. loop_pc' # "freed" => Counts'
  BY Zenon, <1>0 DEF LoopInv, Counts, Registered, Actives, Pending
<1>7. loop_pc' # "freed" => \A e \in Ev : EvOK(e)'
  BY Zenon, <1>0, <1>2 DEF LoopInv, EvOK
<1> QED  BY Zenon, <1>1, <1>3, <1>4, <1>5, <1>6, <1>7 DEF LoopInv

\* The round is over: what was pending has been visited.
LEMMA RoundEnds ==
    ASSUME LoopInv, EndRound
    PROVE  LoopInv'
<1>0. /\ UNCHANGED << live, active, pending, destroy, repeat, events, loop_timers, idles, pendings, nactives, ntimers,
                      nidles, nios, cur, owned, stale, budget >>
      /\ loop_pc = "dispatch" /\ loop_pc' = "poll" /\ npendings' = 0 /\ \A p \in Prio : pendings[p] = << >>
  BY Zenon DEF EndRound, flags, fields, sets, ghosts
<1>1. /\ LType /\ Lists /\ Phases /\ Counts
      /\ (\A e \in Ev : EvOK(e)) /\ \A e \in Counted : BudgetOK(e)
  BY Zenon, <1>0, InvParts
<1>2. LType'
  BY Zenon, <1>0, <1>1 DEF LType, PCs
<1>3. Linked' = Linked /\ Linked = {}
  BY SMTT(20), <1>0, <1>1, Kinds DEF Linked, LType
<1>4. Pending' = {} /\ Actives' = Actives /\ Registered' = Registered
  BY Zenon, <1>0, <1>1, <1>3 DEF EvOK, Pending, Actives, Registered
<1>5. Counts'
  BY Zenon, <1>0, <1>1, <1>4, FS_EmptySet DEF Counts
<1>6. Phases' /\ Lists'
  BY Zenon, <1>0, <1>1, <1>3 DEF Phases, Lists
<1>7. \A e \in Ev : EvOK(e)'
  BY Zenon, <1>0, <1>1, <1>3 DEF EvOK
<1>8. \A e \in Counted : BudgetOK(e)'
  BY Zenon, <1>0, <1>1 DEF BudgetOK, Due
<1> QED  BY Zenon, <1>0, <1>2, <1>5, <1>6, <1>7, <1>8 DEF LoopInv

\* hloop_free finds all events that are left: between two runs only ios are
\* linked.
LEMMA Freed ==
    ASSUME LoopInv, hloop_free
    PROVE  LoopInv'
<1>0. /\ UNCHANGED << active, pending, destroy, repeat, events, cur, budget >>
      /\ loop_pc = "out" /\ loop_pc' = "freed" /\ live' = live \ (loop_timers \cup idles \cup Ios) /\ loop_timers' = {} /\ idles' = {}
      /\ pendings' = [p \in Prio |-> << >>] /\ owned' = {} /\ stale' = {}
  BY Zenon DEF hloop_free, fields
<1>1. /\ LType /\ Lists /\ Phases /\ Counts
      /\ (\A e \in Ev : EvOK(e)) /\ \A e \in Counted : BudgetOK(e)
  BY Zenon, <1>0, InvParts
<1>2. LType'
  <2>1. pendings' \in [Prio -> Seq(Ev)]
    BY SMTT(20), <1>0
  <2> QED  BY Zenon, <1>0, <1>1, <2>1 DEF LType, PCs
<1>3. Linked' = {}
  <2>1. cur' = NoEvent /\ NoEvent \notin Ev /\ \A p \in Prio : pendings'[p] = << >>
    BY Zenon, <1>0, <1>1, Kinds DEF LType
  <2> QED  BY SMTT(20), <2>1 DEF Linked
<1>4. live' = {}
  <2>1. \A e \in Ev : e \in live => e \in loop_timers \cup idles \cup Ios
    BY Zenon, <1>0, <1>1, Kinds DEF EvOK, Phases, Ev
  <2> QED  BY Zenon, <1>0, <1>1, <2>1 DEF LType
<1>5. Phases'
  BY Zenon, <1>0, <1>3, <1>4 DEF Phases
<1>6. \A e \in Counted : BudgetOK(e)'
  BY Zenon, <1>0, <1>1 DEF BudgetOK, Due
<1> QED  BY Zenon, <1>0, <1>2, <1>5, <1>6 DEF LoopInv

OnList(e, q) == \E i \in 1 .. Len(q) : q[i] = e

\* The lists EVENT_PENDING makes: each event of S once, before what was there.
LEMMA Pushed ==
    ASSUME NEW S, S \subseteq Ev, NEW s \in Orders(S), NEW q \in Seq(Ev),
           \A e \in S : ~OnList(e, q),
           \A i, j \in 1 .. Len(q) : q[i] = q[j] => i = j
    PROVE  /\ s \o q \in Seq(Ev)
           /\ \A i, j \in 1 .. Len(s \o q) : (s \o q)[i] = (s \o q)[j] => i = j
           /\ \A e \in Ev : OnList(e, s \o q) <=> e \in S \/ OnList(e, q)
<1>0. Cardinality(S) \in Nat
  BY Zenon, Finite
<1>1. /\ s \in Seq(S) /\ Len(s) = Cardinality(S) /\ DOMAIN s = 1 .. Len(s)
  BY SMTT(20), <1>0 DEF Orders
<1>2. /\ s \in Seq(Ev) /\ \A i \in 1 .. Len(s) : s[i] \in S
  BY SMTT(20), <1>1
<1>3. /\ \A e \in S : \E i \in 1 .. Len(s) : s[i] = e
      /\ \A i, j \in 1 .. Len(s) : s[i] = s[j] => i = j
  BY Zenon, <1>1 DEF Orders
<1>4. /\ s \o q \in Seq(Ev) /\ Len(s \o q) = Len(s) + Len(q)
      /\ \A i \in 1 .. Len(s) + Len(q) : (s \o q)[i] = IF i <= Len(s) THEN s[i] ELSE q[i - Len(s)]
  BY SMTT(20), <1>2
<1>5. Len(s) \in Nat /\ Len(q) \in Nat
  BY SMTT(20), <1>2
<1>6. \A i, j \in 1 .. Len(s \o q) : (s \o q)[i] = (s \o q)[j] => i = j
  <2> SUFFICES ASSUME NEW i \in 1 .. Len(s) + Len(q), NEW j \in 1 .. Len(s) + Len(q),
                      (s \o q)[i] = (s \o q)[j]
               PROVE  i = j
    BY Zenon, <1>4
  <2>1. CASE i <= Len(s) /\ j <= Len(s)
    BY SMTT(20), <1>3, <1>4, <1>5, <2>1
  <2>2. CASE i > Len(s) /\ j > Len(s)
    <3>1. i - Len(s) \in 1 .. Len(q) /\ j - Len(s) \in 1 .. Len(q)
      BY SMTT(20), <1>5, <2>2
    <3>2. q[i - Len(s)] = q[j - Len(s)]
      BY SMTT(20), <1>4, <1>5, <2>2
    <3>3. i - Len(s) = j - Len(s)
      BY Zenon, <3>1, <3>2
    <3> QED  BY SMTT(20), <1>5, <3>3
  <2>3. CASE i <= Len(s) /\ j > Len(s)
    <3>1. (s \o q)[i] \in S /\ j - Len(s) \in 1 .. Len(q) /\ (s \o q)[j] = q[j - Len(s)]
      BY SMTT(20), <1>2, <1>4, <1>5, <2>3
    <3> QED  BY Zenon, <3>1 DEF OnList
  <2>4. CASE i > Len(s) /\ j <= Len(s)
    <3>1. (s \o q)[j] \in S /\ i - Len(s) \in 1 .. Len(q) /\ (s \o q)[i] = q[i - Len(s)]
      BY SMTT(20), <1>2, <1>4, <1>5, <2>4
    <3> QED  BY Zenon, <3>1 DEF OnList
  <2> QED  BY SMTT(20), <1>5, <2>1, <2>2, <2>3, <2>4
<1>7. ASSUME NEW e \in Ev  PROVE OnList(e, s \o q) <=> e \in S \/ OnList(e, q)
  <2>1. ASSUME OnList(e, s \o q)  PROVE e \in S \/ OnList(e, q)
    <3>1. PICK i \in 1 .. Len(s) + Len(q) : (s \o q)[i] = e
      BY Zenon, <1>4, <2>1 DEF OnList
    <3>2. CASE i <= Len(s)
      BY SMTT(20), <1>2, <1>4, <1>5, <3>1, <3>2
    <3>3. CASE i > Len(s)
      <4>1. i - Len(s) \in 1 .. Len(q) /\ q[i - Len(s)] = e
        BY SMTT(20), <1>4, <1>5, <3>1, <3>3
      <4> QED  BY Zenon, <4>1 DEF OnList
    <3> QED  BY SMTT(20), <1>5, <3>2, <3>3
  <2>2. ASSUME e \in S  PROVE OnList(e, s \o q)
    <3>1. PICK i \in 1 .. Len(s) : s[i] = e
      BY Zenon, <1>3, <2>2
    <3>2. i \in 1 .. Len(s) + Len(q) /\ (s \o q)[i] = e
      BY SMTT(20), <1>4, <1>5, <3>1
    <3> QED  BY Zenon, <1>4, <3>2 DEF OnList
  <2>3. ASSUME OnList(e, q)  PROVE OnList(e, s \o q)
    <3>1. PICK i \in 1 .. Len(q) : q[i] = e
      BY Zenon, <2>3 DEF OnList
    <3>2. i + Len(s) \in 1 .. Len(s) + Len(q) /\ (s \o q)[i + Len(s)] = e
      <4>1. i + Len(s) \in 1 .. Len(s) + Len(q) /\ ~(i + Len(s) <= Len(s)) /\ i + Len(s) - Len(s) = i
        BY SMTT(20), <1>5
      <4> QED  BY SMTT(20), <1>4, <3>1, <4>1
    <3> QED  BY Zenon, <1>4, <3>2 DEF OnList
  <2> QED  BY Zenon, <2>1, <2>2, <2>3
<1> QED  BY Zenon, <1>4, <1>6, <1>7

\* The members of S that have priority p.
Of(S, p) == {e \in S : PriorityOf(e) = p}

\* Events that are not linked are pushed, each on the list of its priority.
LEMMA AllPushed ==
    ASSUME LType, Lists, cur = NoEvent, cur' = cur, NEW S, S \subseteq Ev, S \cap Linked = {},
           DOMAIN pendings' = Prio, pendings' = [p \in Prio |-> pendings'[p]],
           \A p \in Prio : \E s \in Orders(Of(S, p)) : pendings'[p] = s \o pendings[p]
    PROVE  /\ pendings' \in [Prio -> Seq(Ev)] /\ Lists'
           /\ \A e \in Ev : e \in Linked' <=> e \in Linked \/ e \in S
<1>0. NoEvent \notin Ev
  BY Zenon, Kinds
<1>1. ASSUME NEW p \in Prio
      PROVE  /\ pendings'[p] \in Seq(Ev)
             /\ \A i, j \in 1 .. Len(pendings'[p]) : pendings'[p][i] = pendings'[p][j] => i = j
             /\ \A e \in Ev : OnList(e, pendings'[p]) <=> e \in Of(S, p) \/ OnList(e, pendings[p])
  <2>1. PICK s \in Orders(Of(S, p)) : pendings'[p] = s \o pendings[p]
    BY Zenon, <1>1
  <2>2. Of(S, p) \subseteq Ev /\ pendings[p] \in Seq(Ev)
    BY Zenon DEF Of, LType
  <2>3. \A e \in Of(S, p) : ~OnList(e, pendings[p])
    BY SMTT(20), <1>1, <2>2 DEF Of, OnList, Linked
  <2>4. \A i, j \in 1 .. Len(pendings[p]) : pendings[p][i] = pendings[p][j] => i = j
    BY Zenon, <1>1 DEF Lists
  <2>5. /\ s \o pendings[p] \in Seq(Ev)
        /\ \A i, j \in 1 .. Len(s \o pendings[p]) : (s \o pendings[p])[i] = (s \o pendings[p])[j] => i = j
        /\ \A e \in Ev : OnList(e, s \o pendings[p]) <=> e \in Of(S, p) \/ OnList(e, pendings[p])
    <3> DEFINE T == Of(S, p)
               q == pendings[p]
    <3> HIDE DEF T, q
    <3>1. T \subseteq Ev /\ q \in Seq(Ev) /\ s \in Orders(T)
      BY Zenon, <2>1, <2>2 DEF T, q
    <3>2. (\A e \in T : ~OnList(e, q)) /\ \A i, j \in 1 .. Len(q) : q[i] = q[j] => i = j
      BY Zenon, <2>3, <2>4 DEF T, q
    <3>3. /\ s \o q \in Seq(Ev)
          /\ \A i, j \in 1 .. Len(s \o q) : (s \o q)[i] = (s \o q)[j] => i = j
          /\ \A e \in Ev : OnList(e, s \o q) <=> e \in T \/ OnList(e, q)
      BY Zenon, <3>1, <3>2, Pushed
    <3> QED  BY Zenon, <3>3 DEF T, q
  <2> QED  BY Zenon, <2>1, <2>5
<1>2. pendings' \in [Prio -> Seq(Ev)]
  BY Zenon, <1>1
<1>3. \A e \in Ev : e \in Linked' <=> \E p \in Prio : OnList(e, pendings'[p])
  <2>1. cur' = NoEvent /\ \A p \in Prio : DOMAIN pendings'[p] = 1 .. Len(pendings'[p])
    BY SMTT(20), <1>1
  <2> QED  BY ZenonT(30), <1>0, <2>1 DEF Linked, OnList
<1>4. \A e \in Ev : e \in Linked <=> \E p \in Prio : OnList(e, pendings[p])
  <2>1. \A p \in Prio : DOMAIN pendings[p] = 1 .. Len(pendings[p])
    BY SMTT(20) DEF LType
  <2> QED  BY ZenonT(30), <1>0, <2>1 DEF Linked, OnList
<1>5. \A e \in S : PriorityOf(e) \in Prio /\ e \in Of(S, PriorityOf(e))
  BY SMTT(20) DEF PriorityOf, Prio, Of
<1>6. \A e \in Ev : e \in Linked' <=> e \in Linked \/ e \in S
  BY Zenon, <1>1, <1>3, <1>4, <1>5 DEF Of
<1>7. Lists'
  <2>1. ASSUME NEW p \in Prio, NEW i \in 1 .. Len(pendings'[p])
        PROVE  PriorityOf(pendings'[p][i]) = p /\ pendings'[p][i] # cur'
    <3>1. pendings'[p][i] \in Ev /\ OnList(pendings'[p][i], pendings'[p])
      BY SMTT(20), <1>1, <2>1 DEF OnList
    <3>2. CASE pendings'[p][i] \in Of(S, p)
      BY Zenon, <1>0, <3>1, <3>2 DEF Of
    <3>3. CASE OnList(pendings'[p][i], pendings[p])
      BY ZenonT(30), <1>0, <3>1, <3>3 DEF OnList, Lists
    <3> QED  BY Zenon, <1>1, <3>1, <3>2, <3>3
  <2> QED  BY Zenon, <1>1, <2>1 DEF Lists
<1> QED  BY Zenon, <1>2, <1>6, <1>7

\* The lists that do not change.
LEMMA NoneOf == << >> \in Orders({})
BY SMTT(20), FS_EmptySet DEF Orders

\* What the watcher reports is pushed.
LEMMA Polled ==
    ASSUME LoopInv, NEW d, NEW ready \in SUBSET Registered, PollIos(d, ready)
    PROVE  LoopInv'
<1> DEFINE F == {io \in ready : ~pending[io]}
<1>0. /\ UNCHANGED << live, active, destroy, repeat, events, loop_timers, idles, nactives, ntimers, nidles, nios, cur,
                      owned, budget >>
      /\ loop_pc = "poll" /\ loop_pc' = (IF F \cap Linked = {} THEN "polled" ELSE "ring")
      /\ npendings' = npendings + Cardinality(F)
      /\ pending' = [e \in Ev |-> pending[e] \/ e \in F] /\ stale' = stale \ F
      /\ \E s \in Orders(F) : pendings' = [pendings EXCEPT ![2] = s \o @]
  BY Zenon DEF PollIos
<1>1. /\ LType /\ Lists /\ Phases /\ Counts
      /\ (\A e \in Ev : EvOK(e)) /\ \A e \in Counted : BudgetOK(e)
  BY Zenon, <1>0, InvParts
<1>2. /\ F \subseteq Ios /\ F \subseteq Ev /\ F \cap Linked = {} /\ cur = NoEvent
      /\ \A e \in F : ~pending[e] /\ events[e] # {}
  BY Zenon, <1>0, <1>1, Kinds DEF Phases, LType, Registered
<1>3. /\ pending' \in [Ev -> BOOLEAN] /\ \A e \in Ev : pending'[e] <=> pending[e] \/ e \in F
  BY <1>0, <1>1, Zenon DEF LType
<1> HIDE DEF F
<1>4. /\ pendings' \in [Prio -> Seq(Ev)] /\ Lists'
      /\ \A e \in Ev : e \in Linked' <=> e \in Linked \/ e \in F
  <2>1. PICK s \in Orders(F) : pendings' = [pendings EXCEPT ![2] = s \o @]
    BY Zenon, <1>0
  <2>2. 2 \in Prio /\ pendings \in [Prio -> Seq(Ev)]
    BY SMTT(20), <1>1 DEF Prio, LType
  <2>3. /\ pendings'[2] = s \o pendings[2] /\ \A p \in Prio : p # 2 => pendings'[p] = pendings[p]
        /\ DOMAIN pendings' = Prio /\ pendings' = [p \in Prio |-> pendings'[p]]
    BY Zenon, <2>1, <2>2
  <2>4. Of(F, 2) = F /\ \A p \in Prio : p # 2 => Of(F, p) = {}
    <3>1. \A e \in F : PriorityOf(e) = 2
      BY Zenon, <1>2, LoopAssumption DEF PriorityOf, LoopAssumption
    <3> QED  BY Zenon, <3>1 DEF Of
  <2>5. \A p \in Prio : p # 2 => pendings'[p] = << >> \o pendings[p]
    BY SMTT(20), <2>2, <2>3
  <2>6. \A p \in Prio : \E t \in Orders(Of(F, p)) : pendings'[p] = t \o pendings[p]
    BY Zenon, <2>3, <2>4, <2>5, NoneOf
  <2> QED  BY Zenon, <1>0, <1>1, <1>2, <2>3, <2>6, AllPushed
<1>5. loop_pc' = "polled" /\ LType'
  BY Zenon, <1>0, <1>1, <1>2, <1>3, <1>4 DEF LType, PCs
<1>6. \A e \in Ev : EvOK(e)'
  <2> SUFFICES ASSUME NEW e \in Ev  PROVE EvOK(e)'
    BY Zenon
  <2>1. EvOK(e)
    BY Zenon, <1>1
  <2>2. CASE e \notin F
    <3>1. Same(e) /\ (e \in Linked' <=> e \in Linked)
      BY Zenon, <1>0, <1>1, <1>3, <1>4, <2>2 DEF Same, LType
    <3> QED  BY Zenon, <2>1, <3>1, SameOK
  <2>3. CASE e \in F
    BY Zenon, <1>0, <1>2, <1>3, <1>4, <2>1, <2>3, Kinds DEF EvOK
  <2> QED  BY Zenon, <2>2, <2>3
<1>7. Phases'
  BY Zenon, <1>1, <1>0, <1>2, <1>3, <1>4, <1>5, Kinds DEF Phases, Linked
<1>8. Counts'
  <2>1. Pending' = Pending \cup F /\ Pending \cap F = {} /\ Pending \subseteq Ev
    BY Zenon, <1>2, <1>3 DEF Pending
  <2>2. Cardinality(Pending') = Cardinality(Pending) + Cardinality(F)
    BY SMTT(20), <1>2, <2>1, Finite, FS_Union, FS_EmptySet
  <2> QED  BY Zenon, <1>0, <1>1, <2>2 DEF Counts, Registered, Actives
<1>9. \A e \in Counted : BudgetOK(e)'
  <2> SUFFICES ASSUME NEW e \in Counted  PROVE BudgetOK(e)'
    BY Zenon
  <2>1. Due(e)' = Due(e)
    BY Zenon, <1>0, <1>2, <1>3, Kinds DEF Due
  <2> QED  BY Zenon, <1>0, <1>1, <2>1 DEF BudgetOK
<1> QED  BY Zenon, <1>5, <1>4, <1>6, <1>7, <1>8, <1>9 DEF LoopInv

\* Timers that expired and idles are pushed; those on their last repetition are
\* marked destroy and leave the heap, or the list of idles.
LEMMA Expired ==
    ASSUME LoopInv, ProcessTimersAndIdles
    PROVE  LoopInv'
<1> DEFINE due == IF ntimers = 0 THEN {} ELSE {t \in loop_timers : next[t] <= 0}
           idle == IF nidles # 0 /\ npendings = 0 /\ (\A t \in due : pending[t]) THEN idles ELSE {}
           F == due \cup idle
           last == {e \in F : Decrement(repeat[e]) = 0}
           N == {e \in F : ~pending[e]}
<1>0. /\ loop_pc \in {"timers", "polled"} /\ loop_pc' = (IF npendings' = 0 THEN "poll" ELSE "dispatch")
      /\ UNCHANGED << live, active, events, nactives, nios, cur, owned, budget >>
      /\ repeat' = [e \in Counted |-> IF e \in F THEN Decrement(repeat[e]) ELSE repeat[e]]
      /\ destroy' = [e \in Ev |-> destroy[e] \/ e \in last]
      /\ loop_timers' = loop_timers \ last /\ idles' = idles \ last
      /\ ntimers' = ntimers - Cardinality(last \cap Timers) /\ nidles' = nidles - Cardinality(last \cap Idles)
      /\ npendings' = npendings + Cardinality(N)
      /\ pending' = [e \in Ev |-> pending[e] \/ e \in N] /\ stale' = stale \ N
  BY Zenon DEF ProcessTimersAndIdles
<1>1. \E s \in Orders(N \cap Timeouts), u \in Orders(N \cap Periods), w \in Orders(N \cap Idles) :
          pendings' = [pendings EXCEPT ![4] = s \o @, ![3] = u \o @, ![1] = w \o @]
  <2>1. \E s \in Orders(N \cap Timeouts), u \in Orders(N \cap Periods), w \in Orders(N \cap Idles) :
            /\ \A i, j \in DOMAIN s : i < j => next[s[i]] >= next[s[j]]
            /\ pendings' = [pendings EXCEPT ![4] = s \o @, ![3] = u \o @, ![1] = w \o @]
    BY Zenon DEF ProcessTimersAndIdles
  <2> QED  BY <2>1, Zenon
<1>2. /\ LType /\ Lists /\ Phases /\ Counts /\ cur = NoEvent
      /\ (\A e \in Ev : EvOK(e)) /\ \A e \in Counted : BudgetOK(e)
  BY Zenon, <1>0, InvParts DEF LType
<1>3. F \subseteq loop_timers \cup idles /\ last \subseteq F /\ \A e \in F : e \in last <=> Decrement(repeat[e]) = 0
  BY Zenon
<1>4. N = {e \in F : ~pending[e]}
  BY Zenon
<1> HIDE DEF due, idle, F, last, N
<1>5. F \subseteq Counted /\ F \subseteq Ev /\ F \cap Linked = {} /\ \A e \in F : ~pending[e]
  <2>1. F \subseteq Counted /\ F \subseteq Ev
    BY Zenon, <1>2, <1>3, Kinds DEF LType, Counted
  <2> QED  BY Zenon, <1>0, <1>2, <2>1, Kinds DEF Phases, EvOK
<1>6. N = F
  BY Zenon, <1>4, <1>5
<1>7. /\ pending' \in [Ev -> BOOLEAN] /\ \A e \in Ev : pending'[e] <=> pending[e] \/ e \in F
  BY <1>0, <1>2, <1>6, Zenon DEF LType
<1>8. /\ destroy' \in [Ev -> BOOLEAN] /\ \A e \in Ev : destroy'[e] <=> destroy[e] \/ e \in last
  BY <1>0, <1>2, Zenon DEF LType
<1>9. /\ repeat' \in [Counted -> 0 .. INFINITE]
      /\ \A e \in Counted : repeat'[e] = IF e \in F THEN Decrement(repeat[e]) ELSE repeat[e]
  <2>1. \A r \in 0 .. INFINITE : Decrement(r) \in 0 .. INFINITE
    BY SMTT(20), Kinds DEF Decrement
  <2> QED  BY Zenon, <1>0, <1>2, <2>1 DEF LType
<1>10. /\ pendings' \in [Prio -> Seq(Ev)] /\ Lists'
       /\ \A e \in Ev : e \in Linked' <=> e \in Linked \/ e \in F
  <2>1. PICK s \in Orders(N \cap Timeouts), u \in Orders(N \cap Periods), w \in Orders(N \cap Idles) :
            pendings' = [pendings EXCEPT ![4] = s \o @, ![3] = u \o @, ![1] = w \o @]
    BY Zenon, <1>1
  <2>2. Prio = {1, 2, 3, 4} /\ pendings \in [Prio -> Seq(Ev)]
    BY SMTT(20), <1>2 DEF Prio, LType
  <2>3. /\ pendings'[4] = s \o pendings[4] /\ pendings'[3] = u \o pendings[3] /\ pendings'[1] = w \o pendings[1]
        /\ pendings'[2] = pendings[2] /\ DOMAIN pendings' = Prio /\ pendings' = [p \in Prio |-> pendings'[p]]
    <3> DEFINE a == s \o pendings[4]
               b == u \o pendings[3]
               c == w \o pendings[1]
    <3>1. pendings' = [[[pendings EXCEPT ![4] = a] EXCEPT ![3] = b] EXCEPT ![1] = c]
      BY <2>1, Zenon
    <3> HIDE DEF a, b, c
    <3>2. /\ pendings'[4] = a /\ pendings'[3] = b /\ pendings'[1] = c /\ pendings'[2] = pendings[2]
          /\ DOMAIN pendings' = Prio
      BY SMTT(20), <2>2, <3>1
    <3>3. pendings' = [p \in Prio |-> pendings'[p]]
      BY Zenon, <2>2, <3>1
    <3> QED  BY Zenon, <3>2, <3>3 DEF a, b, c
  <2>4. pendings'[2] = << >> \o pendings[2]
    BY SMTT(20), <2>2, <2>3
  <2>5. /\ Of(F, 4) = F \cap Timeouts /\ Of(F, 3) = F \cap Periods /\ Of(F, 1) = F \cap Idles /\ Of(F, 2) = {}
    BY SMTT(20), <1>5, LoopAssumption DEF Of, PriorityOf, LoopAssumption, Counted, Timers
  <2>6. \A p \in Prio : \E t \in Orders(Of(F, p)) : pendings'[p] = t \o pendings[p]
    BY Zenon, <1>6, <2>2, <2>3, <2>4, <2>5, NoneOf
  <2> QED  BY Zenon, <1>0, <1>2, <1>5, <2>3, <2>6, AllPushed
<1>11. LType'
  BY Zenon, <1>0, <1>2, <1>7, <1>8, <1>9, <1>10, <1>6 DEF LType, PCs
<1>12. \A e \in Ev : EvOK(e)'
  <2> SUFFICES ASSUME NEW e \in Ev  PROVE EvOK(e)'
    BY Zenon
  <2>1. EvOK(e)
    BY Zenon, <1>2
  <2>2. CASE e \notin F
    <3>1. Same(e) /\ (e \in Linked' <=> e \in Linked)
      BY Zenon, <1>0, <1>2, <1>3, <1>6, <1>7, <1>8, <1>10, <2>2 DEF Same, LType
    <3> QED  BY Zenon, <2>1, <3>1, SameOK
  <2>3. CASE e \in F
    <3>1. e \in Counted /\ e \notin Ios /\ e \in live /\ active[e] /\ ~destroy[e]
      BY Zenon, <1>3, <1>5, <2>1, <2>3, Kinds DEF EvOK
    <3> QED  BY Zenon, <1>0, <1>3, <1>6, <1>7, <1>8, <1>10, <2>1, <2>3, <3>1 DEF EvOK
  <2> QED  BY Zenon, <2>2, <2>3
<1>13. Pending' = Pending \cup F /\ Cardinality(Pending') = Cardinality(Pending) + Cardinality(F)
  <2>1. Pending' = Pending \cup F /\ Pending \cap F = {} /\ Pending \subseteq Ev
    BY Zenon, <1>5, <1>7 DEF Pending
  <2>2. /\ IsFiniteSet(Pending) /\ IsFiniteSet(F)
        /\ Cardinality(Pending) \in Nat /\ Cardinality(F) \in Nat
    BY Zenon, <1>5, <2>1, Finite
  <2>3. Cardinality(Pending \cup F) = Cardinality(Pending) + Cardinality(F) - Cardinality(Pending \cap F)
    BY Zenon, <2>2, FS_Union
  <2>4. Cardinality(Pending \cap F) = 0
    BY Zenon, <2>1, FS_EmptySet
  <2> QED  BY SMTT(20), <2>1, <2>2, <2>3, <2>4
<1>14. loop_pc' = "poll" => F = {}
  <2>1. Cardinality(Pending) \in Nat /\ Cardinality(F) \in Nat /\ IsFiniteSet(F)
    BY Zenon, <1>5, Finite DEF Pending
  <2>2. npendings = Cardinality(Pending) /\ npendings' = npendings + Cardinality(F)
    BY Zenon, <1>0, <1>2, <1>6 DEF Counts
  <2>3. loop_pc' = "poll" => Cardinality(F) = 0
    BY SMTT(20), <1>0, <2>1, <2>2
  <2> QED  BY Zenon, <2>1, <2>3, FS_EmptySet
<1>15. Phases'
  BY Zenon, <1>0, <1>2, <1>7, <1>10, <1>14, Kinds DEF Phases, Linked
<1>16. Counts'
  <2>1. /\ loop_timers \subseteq Ev /\ idles \subseteq Ev /\ loop_timers \cap last = last \cap Timers /\ idles \cap last = last \cap Idles
    BY Zenon, <1>2, <1>3, Kinds DEF LType, Ev, Counted
  <2>2. Cardinality(loop_timers \ last) = Cardinality(loop_timers) - Cardinality(loop_timers \cap last)
    BY Zenon, <2>1, Finite, FS_Difference
  <2>3. Cardinality(idles \ last) = Cardinality(idles) - Cardinality(idles \cap last)
    BY Zenon, <2>1, Finite, FS_Difference
  <2>4. npendings' = Cardinality(Pending')
    BY Zenon, <1>0, <1>2, <1>6, <1>13 DEF Counts
  <2>5. ntimers' = Cardinality(loop_timers') /\ nidles' = Cardinality(idles')
    BY Zenon, <1>0, <1>2, <2>1, <2>2, <2>3 DEF Counts
  <2>6. Registered' = Registered /\ Actives' = Actives
    BY Zenon, <1>0 DEF Registered, Actives
  <2> QED  BY Zenon, <1>0, <1>2, <2>4, <2>5, <2>6 DEF Counts
<1>17. ASSUME NEW e \in Counted  PROVE BudgetOK(e)'
  <2>0. e \in Ev /\ e # cur' /\ BudgetOK(e) /\ repeat[e] \in Int /\ INFINITE \in Int /\ budget'[e] = budget[e]
    BY SMTT(20), <1>0, <1>2, Kinds DEF LType
  <2>1. CASE e \notin F
    <3>1. Due(e)' = Due(e) /\ repeat'[e] = repeat[e] /\ (e \in loop_timers' \cup idles' => e \in loop_timers \cup idles)
      BY Zenon, <1>0, <1>2, <1>7, <1>9, <2>0, <2>1 DEF Due
    <3> QED  BY Zenon, <2>0, <3>1 DEF BudgetOK
  <2>2. CASE e \in F
    <3>1. Due(e) = repeat[e] /\ Due(e)' = repeat'[e] + 1 /\ repeat'[e] = Decrement(repeat[e])
      BY Zenon, <1>5, <1>7, <1>9, <2>0, <2>2 DEF Due
    <3>2. e \in loop_timers \cup idles /\ (e \in loop_timers' \cup idles' => Decrement(repeat[e]) # 0)
      BY Zenon, <1>0, <1>3, <2>2
    <3>3. budget[e] # INFINITE => repeat[e] # INFINITE /\ repeat[e] > 0 /\ budget[e] >= repeat[e]
      BY Zenon, <2>0, <3>1, <3>2 DEF BudgetOK
    <3>4. budget[e] # INFINITE => repeat'[e] = repeat[e] - 1
      BY SMTT(20), <2>0, <3>1, <3>3 DEF Decrement
    <3>5. budget[e] # INFINITE =>
             /\ repeat'[e] # INFINITE /\ budget[e] >= repeat'[e] + 1
             /\ e \in loop_timers' \cup idles' => repeat'[e] > 0
      <4>1. repeat[e] <= INFINITE /\ budget[e] \in Int
        BY SMTT(20), <1>2 DEF LType
      <4> QED  BY SMTT(20), <2>0, <3>1, <3>2, <3>3, <3>4, <4>1
    <3> QED  BY Zenon, <2>0, <3>1, <3>5 DEF BudgetOK
  <2> QED  BY Zenon, <2>1, <2>2
<1>18. loop_pc' # "freed"
  BY Zenon, <1>0
<1> QED  BY Zenon, <1>10, <1>11, <1>12, <1>15, <1>16, <1>17, <1>18 DEF LoopInv

\* hloop_process_pendings takes the first event of a list: it is linked nowhere
\* else, and stays so while its callback runs.
LEMMA Popped ==
    ASSUME LType, Lists, cur = NoEvent, NEW p \in Prio, pendings[p] # << >>,
           pendings' = [pendings EXCEPT ![p] = Tail(@)], NEW h, h = Head(pendings[p]), cur' \in {NoEvent, h}
    PROVE  /\ h \in Ev /\ h \in Linked /\ pendings' \in [Prio -> Seq(Ev)] /\ Lists'
           /\ \A e \in Ev : e \in Linked' <=> (e \in Linked /\ e # h) \/ e = cur'
<1> DEFINE q == pendings[p]
<1>0. NoEvent \notin Ev /\ q \in Seq(Ev) /\ pendings \in [Prio -> Seq(Ev)]
  BY Zenon, Kinds DEF LType
<1>1. /\ Len(q) \in Nat /\ Len(q) >= 1 /\ h = q[1] /\ h \in Ev
      /\ Tail(q) \in Seq(Ev) /\ Len(Tail(q)) = Len(q) - 1
      /\ \A i \in 1 .. Len(q) - 1 : Tail(q)[i] = q[i + 1]
  BY SMTT(20), <1>0
<1>2. /\ pendings' \in [Prio -> Seq(Ev)] /\ pendings'[p] = Tail(q)
      /\ \A r \in Prio : r # p => pendings'[r] = pendings[r]
  BY Zenon, <1>0, <1>1
<1>3. \A r \in Prio : \A i \in 1 .. Len(pendings[r]) : pendings[r][i] = h => r = p /\ i = 1
  BY SMTT(20), <1>1 DEF Lists
<1>4. /\ \A r \in Prio : \A i \in 1 .. Len(pendings[r]) : PriorityOf(pendings[r][i]) = r
      /\ \A r \in Prio : \A i, j \in 1 .. Len(pendings[r]) : pendings[r][i] = pendings[r][j] => i = j
  BY Zenon DEF Lists
<1> HIDE DEF q
<1>5. \A r \in Prio : \A i \in 1 .. Len(pendings'[r]) :
          \E k \in 1 .. Len(pendings[r]) : /\ pendings'[r][i] = pendings[r][k] /\ (r = p => k = i + 1) /\ (r # p => k = i)
                                           /\ pendings'[r][i] \in Ev /\ pendings'[r][i] # h
  <2> SUFFICES ASSUME NEW r \in Prio, NEW i \in 1 .. Len(pendings'[r])
               PROVE  \E k \in 1 .. Len(pendings[r]) :
                          /\ pendings'[r][i] = pendings[r][k] /\ (r = p => k = i + 1) /\ (r # p => k = i)
                          /\ pendings'[r][i] \in Ev /\ pendings'[r][i] # h
    BY Zenon
  <2>0. pendings[r] \in Seq(Ev) /\ pendings'[r] \in Seq(Ev)
    BY Zenon, <1>0, <1>2
  <2>1. CASE r = p
    <3>1. i \in 1 .. Len(q) - 1 /\ i + 1 \in 1 .. Len(q) /\ pendings'[r][i] = q[i + 1]
      <4>1. pendings'[r] = Tail(q)
        BY Zenon, <1>2, <2>1
      <4>2. i \in 1 .. Len(Tail(q)) /\ pendings'[r][i] = Tail(q)[i]
        BY Zenon, <4>1
      <4>3. i \in 1 .. Len(q) - 1 /\ i + 1 \in 1 .. Len(q)
        BY SMTT(20), <1>1, <4>2
      <4> QED  BY Zenon, <1>1, <4>2, <4>3
    <3>2. q[i + 1] \in Ev /\ q[i + 1] # h /\ pendings[r] = q
      BY SMTT(20), <1>0, <1>1, <1>3, <2>1, <3>1 DEF q
    <3> QED  BY Zenon, <2>1, <3>1, <3>2
  <2>2. CASE r # p
    BY SMTT(20), <1>2, <1>3, <2>0, <2>2
  <2> QED  BY Zenon, <2>1, <2>2
<1>6. Lists'
  <2>1. ASSUME NEW r \in Prio, NEW i \in 1 .. Len(pendings'[r])
        PROVE  PriorityOf(pendings'[r][i]) = r /\ pendings'[r][i] # cur'
    BY SMTT(20), <1>0, <1>4, <1>5
  <2>2. ASSUME NEW r \in Prio, NEW i \in 1 .. Len(pendings'[r]), NEW j \in 1 .. Len(pendings'[r]),
               pendings'[r][i] = pendings'[r][j]
        PROVE  i = j
    <3>1. PICK k \in 1 .. Len(pendings[r]) : pendings'[r][i] = pendings[r][k] /\ (r = p => k = i + 1) /\ (r # p => k = i)
      BY Zenon, <1>5
    <3>2. PICK l \in 1 .. Len(pendings[r]) : pendings'[r][j] = pendings[r][l] /\ (r = p => l = j + 1) /\ (r # p => l = j)
      BY Zenon, <1>5
    <3>3. k = l
      BY Zenon, <1>4, <2>2, <3>1, <3>2
    <3> QED  BY SMTT(20), <3>1, <3>2, <3>3
  <2> QED  BY Zenon, <2>1, <2>2 DEF Lists
<1>7. h \in Linked
  BY SMTT(20), <1>0, <1>1 DEF Linked, q
<1>8. ASSUME NEW e \in Ev  PROVE e \in Linked' <=> (e \in Linked /\ e # h) \/ e = cur'
  <2>1. ASSUME e \in Linked', e # cur'  PROVE e \in Linked /\ e # h
    <3>1. PICK r \in Prio : \E i \in DOMAIN pendings'[r] : pendings'[r][i] = e
      BY Zenon, <2>1 DEF Linked
    <3>2. PICK i \in 1 .. Len(pendings'[r]) : pendings'[r][i] = e
      BY SMTT(20), <1>2, <3>1
    <3>3. PICK k \in 1 .. Len(pendings[r]) : pendings[r][k] = e /\ e # h
      BY Zenon, <1>5, <3>2
    <3> QED  BY SMTT(20), <1>0, <3>3 DEF Linked
  <2>2. ASSUME e \in Linked, e # h  PROVE e \in Linked'
    <3>1. PICK r \in Prio : \E i \in DOMAIN pendings[r] : pendings[r][i] = e
      BY Zenon, <1>0, <2>2 DEF Linked
    <3>2. PICK i \in 1 .. Len(pendings[r]) : pendings[r][i] = e
      BY SMTT(20), <1>0, <3>1
    <3>3. \E k \in 1 .. Len(pendings'[r]) : pendings'[r][k] = e
      <4>1. CASE r # p
        BY Zenon, <1>2, <3>2, <4>1
      <4>2. CASE r = p
        <5>1. pendings[r] = q /\ i \in 1 .. Len(q) /\ i # 1
          BY Zenon, <1>1, <2>2, <3>2, <4>2 DEF q
        <5>2. i - 1 \in 1 .. Len(q) - 1 /\ Tail(q)[i - 1] = q[(i - 1) + 1] /\ (i - 1) + 1 = i
          BY SMTT(20), <1>1, <5>1
        <5> QED  BY Zenon, <1>1, <1>2, <3>2, <4>2, <5>1, <5>2
      <4> QED  BY Zenon, <4>1, <4>2
    <3> QED  BY SMTT(20), <1>2, <3>3 DEF Linked
  <2>3. e = cur' => e \in Linked'
    BY Zenon DEF Linked
  <2> QED  BY Zenon, <2>1, <2>2, <2>3
<1> QED  BY Zenon, <1>1, <1>2, <1>6, <1>7, <1>8

\* The end of a visit: the event is no longer linked, and is freed if it was
\* marked destroy.
LEMMA Finished ==
    ASSUME LType, NEW x \in Ev, EvOK(x), nactives = Cardinality(Actives), Finish(x), stale' = stale \ {x},
           UNCHANGED << destroy, events, loop_timers, idles >>, x \notin Linked'
    PROVE  /\ live' \subseteq Ev /\ owned' \subseteq Ev /\ stale' \subseteq Ev
           /\ active' \in [Ev -> BOOLEAN] /\ pending' \in [Ev -> BOOLEAN]
           /\ nactives' = Cardinality(Actives') /\ EvOK(x)' /\ ~pending'[x]
           /\ \A e \in Ev : e # x => Same(e)
<1>1. pending' \in [Ev -> BOOLEAN] /\ ~pending'[x] /\ \A e \in Ev : e # x => pending'[e] = pending[e]
  BY Zenon DEF Finish, LType
<1>2. CASE destroy[x]
  <2>1. EVENT_INACTIVE(x) /\ live' = live \ {x} /\ owned' = owned \ {x}
    BY Zenon, <1>2 DEF Finish
  <2>2. /\ active' \in [Ev -> BOOLEAN] /\ active'[x] = FALSE
        /\ \A f \in Ev : f # x => active'[f] = active[f]
        /\ nactives' = Cardinality(Actives')
    BY Zenon, <2>1, Inactivated
  <2>3. x \notin Ios /\ (x \in Counted => x \notin loop_timers \cup idles)
    BY Zenon, <1>2 DEF EvOK
  <2>4. EvOK(x)'
    BY Zenon, <1>1, <2>1, <2>2, <2>3 DEF EvOK
  <2> QED  BY Zenon, <1>1, <2>1, <2>2, <2>4 DEF LType, Same
<1>3. CASE ~destroy[x]
  <2>1. UNCHANGED << active, nactives, live, owned >>
    BY Zenon, <1>3 DEF Finish
  <2>2. EvOK(x)'
    BY Zenon, <1>1, <1>3, <2>1 DEF EvOK
  <2> QED  BY Zenon, <1>1, <2>1, <2>2 DEF LType, Same, Actives
<1> QED  BY Zenon, <1>2, <1>3

\* hloop_process_pendings visits an event: its callback runs if it is pending
\* and active, it is freed if it was deleted, and left if it was reset.
LEMMA Visited ==
    ASSUME LoopInv, NEW p \in Prio, Visit(p)
    PROVE  LoopInv'
<1>a. PICK h : h = Head(pendings[p])
  BY Zenon
<1>0. /\ loop_pc = "dispatch" /\ pendings[p] # << >> /\ pendings' = [pendings EXCEPT ![p] = Tail(@)]
      /\ UNCHANGED << repeat, events, loop_timers, idles, ntimers, nidles, nios, npendings >>
  BY Zenon DEF Visit, fields
<1>1. /\ LType /\ Lists /\ Phases /\ Counts /\ cur = NoEvent
      /\ (\A e \in Ev : EvOK(e)) /\ \A e \in Counted : BudgetOK(e)
  BY Zenon, <1>0, InvParts DEF LType
<1>2. \/ /\ pending[h] /\ active[h] /\ cur' = h /\ loop_pc' = "cb"
         /\ budget' = IF h \in Counted /\ budget[h] # INFINITE THEN [budget EXCEPT ![h] = @ - 1] ELSE budget
         /\ UNCHANGED << live, active, pending, destroy, nactives, owned, stale >>
      \/ /\ Finish(h) /\ stale' = stale \ {h} /\ UNCHANGED << destroy, cur, loop_pc, budget >>
      \/ /\ ~pending[h] /\ stale' = stale \ {h}
         /\ UNCHANGED << live, active, pending, destroy, nactives, owned, cur, loop_pc, budget >>
  BY <1>a, Zenon DEF Visit, flags
<1>3. cur' \in {NoEvent, h} /\ loop_pc' \in {"dispatch", "cb"} /\ (loop_pc' = "cb" <=> cur' = h)
  <2>1. h \in Ev
    BY SMTT(20), <1>0, <1>1, <1>a DEF LType
  <2> QED  BY Zenon, <1>0, <1>1, <1>2, <2>1, Kinds
<1>4. /\ h \in Ev /\ h \in Linked /\ pendings' \in [Prio -> Seq(Ev)] /\ Lists'
      /\ \A e \in Ev : e \in Linked' <=> (e \in Linked /\ e # h) \/ e = cur'
  BY Zenon, <1>0, <1>1, <1>3, <1>a, Popped
<1>5. h # NoEvent /\ h # cur /\ \A e \in Counted : e \in Ev /\ repeat[e] \in Int /\ budget[e] \in Int
  BY SMTT(20), <1>1, <1>4, Kinds DEF LType
<1>6. Phases' /\ loop_pc' # "freed" /\ Registered' = Registered
  BY Zenon, <1>0, <1>3 DEF Phases, Registered
<1>7. CASE /\ pending[h] /\ active[h] /\ cur' = h /\ loop_pc' = "cb"
           /\ budget' = IF h \in Counted /\ budget[h] # INFINITE THEN [budget EXCEPT ![h] = @ - 1] ELSE budget
           /\ UNCHANGED << live, active, pending, destroy, nactives, owned, stale >>
  <2>1. \A e \in Ev : EvOK(e)'
    <3> SUFFICES ASSUME NEW e \in Ev  PROVE EvOK(e)'
      BY Zenon
    <3>1. Same(e) /\ (e \in Linked' <=> e \in Linked)
      BY Zenon, <1>0, <1>4, <1>7 DEF Same
    <3> QED  BY Zenon, <1>1, <3>1, SameOK
  <2>2. LType'
    BY SMTT(20), <1>0, <1>1, <1>4, <1>5, <1>7 DEF LType, PCs
  <2>3. Counts'
    BY Zenon, <1>0, <1>1, <1>6, <1>7 DEF Counts, Actives
  <2>4. ASSUME NEW e \in Counted  PROVE BudgetOK(e)'
    <3>1. CASE e # h
      <4>1. Due(e)' = Due(e) /\ budget'[e] = budget[e] /\ repeat'[e] = repeat[e]
        <5>1. budget'[e] = budget[e]
          BY Zenon, <1>1, <1>7, <3>1 DEF LType
        <5> QED  BY Zenon, <1>0, <1>1, <1>5, <1>7, <3>1, <5>1, Kinds DEF Due
      <4> QED  BY Zenon, <1>0, <1>1, <4>1 DEF BudgetOK
    <3>2. CASE e = h
      <4>1. Due(e) = repeat[e] + 1 /\ Due(e)' = repeat[e] /\ repeat'[e] = repeat[e]
        BY Zenon, <1>0, <1>5, <1>7, <3>2 DEF Due
      <4>2. budget'[e] = IF budget[e] # INFINITE THEN budget[e] - 1 ELSE INFINITE
        BY Zenon, <1>1, <1>7, <3>2 DEF LType
      <4>3. INFINITE \in Int
        BY SMTT(20), Kinds
      <4> QED  BY SMTT(20), <1>0, <1>1, <1>5, <4>1, <4>2, <4>3 DEF BudgetOK
    <3> QED  BY Zenon, <3>1, <3>2
  <2> QED  BY Zenon, <1>4, <1>6, <2>1, <2>2, <2>3, <2>4 DEF LoopInv
<1>8. CASE Finish(h) /\ stale' = stale \ {h} /\ UNCHANGED << destroy, cur, loop_pc, budget >>
  <2>0. h \notin Linked' /\ nactives = Cardinality(Actives) /\ EvOK(h)
    BY Zenon, <1>1, <1>4, <1>5, <1>8 DEF Counts
  <2>1. /\ live' \subseteq Ev /\ owned' \subseteq Ev /\ stale' \subseteq Ev
        /\ active' \in [Ev -> BOOLEAN] /\ pending' \in [Ev -> BOOLEAN]
        /\ nactives' = Cardinality(Actives') /\ EvOK(h)' /\ ~pending'[h]
        /\ \A e \in Ev : e # h => Same(e)
    <3>1. UNCHANGED << destroy, events, loop_timers, idles >> /\ Finish(h) /\ stale' = stale \ {h}
      BY Zenon, <1>0, <1>8
    <3> QED  BY <1>1, <1>4, <2>0, <3>1, Finished, Zenon
  <2>2. \A e \in Ev : EvOK(e)'
    <3> SUFFICES ASSUME NEW e \in Ev, e # h  PROVE EvOK(e)'
      BY <2>1, Zenon
    <3>1. Same(e) /\ (e \in Linked' <=> e \in Linked)
      <4>1. e # cur'
        BY Zenon, <1>1, <1>8, Kinds
      <4> QED  BY <1>4, <2>1, <4>1, Zenon
    <3> QED  BY Zenon, <1>1, <3>1, SameOK
  <2>3. LType'
    BY Zenon, <1>0, <1>1, <1>4, <1>8, <2>1 DEF LType, PCs
  <2>4. Counts'
    BY Zenon, <1>0, <1>1, <1>6, <1>8, <2>1 DEF Counts
  <2>5. ASSUME NEW e \in Counted  PROVE BudgetOK(e)'
    <3>1. Due(e)' <= Due(e) /\ Due(e) \in Int /\ Due(e)' \in Int
      BY SMTT(20), <1>0, <1>5, <1>8, <2>1 DEF Due, Same
    <3> QED  BY SMTT(20), <1>0, <1>1, <1>5, <1>8, <3>1 DEF BudgetOK
  <2> QED  BY Zenon, <1>4, <1>6, <2>2, <2>3, <2>4, <2>5 DEF LoopInv
<1>9. CASE /\ ~pending[h] /\ stale' = stale \ {h}
           /\ UNCHANGED << live, active, pending, destroy, nactives, owned, cur, loop_pc, budget >>
  <2>1. \A e \in Ev : EvOK(e)'
    <3> SUFFICES ASSUME NEW e \in Ev  PROVE EvOK(e)'
      BY Zenon
    <3>1. CASE e # h
      <4>1. Same(e) /\ (e \in Linked' <=> e \in Linked)
        BY Zenon, <1>0, <1>1, <1>4, <1>9, <3>1, Kinds DEF Same
      <4> QED  BY Zenon, <1>1, <4>1, SameOK
    <3>2. CASE e = h
      <4>1. EvOK(h) /\ h \notin Linked'
        BY Zenon, <1>1, <1>4, <1>5, <1>9
      <4> QED  BY Zenon, <1>0, <1>9, <3>2, <4>1 DEF EvOK
    <3> QED  BY Zenon, <3>1, <3>2
  <2>2. LType'
    BY Zenon, <1>0, <1>1, <1>4, <1>9 DEF LType, PCs
  <2>3. Counts'
    BY Zenon, <1>0, <1>1, <1>6, <1>9 DEF Counts, Actives
  <2>4. ASSUME NEW e \in Counted  PROVE BudgetOK(e)'
    BY Zenon, <1>0, <1>1, <1>9 DEF BudgetOK, Due
  <2> QED  BY Zenon, <1>4, <1>6, <2>1, <2>2, <2>3, <2>4 DEF LoopInv
<1> QED  BY Zenon, <1>2, <1>7, <1>8, <1>9

\* The callback returns: the event is no longer linked.
LEMMA Returned ==
    ASSUME LoopInv, Return
    PROVE  LoopInv'
<1>0. /\ loop_pc = "cb" /\ Finish(cur) /\ cur' = NoEvent /\ loop_pc' = "dispatch" /\ stale' = stale \ {cur}
      /\ UNCHANGED << destroy, repeat, events, loop_timers, idles, pendings, ntimers, nidles, nios, npendings, budget >>
  BY Zenon DEF Return, fields, sets
<1>1. /\ LType /\ Lists /\ Phases /\ Counts /\ cur \in Ev
      /\ (\A e \in Ev : EvOK(e)) /\ \A e \in Counted : BudgetOK(e)
  BY Zenon, <1>0, InvParts DEF LType
<1>2. \A p \in Prio : \A i \in 1 .. Len(pendings[p]) : pendings[p][i] # cur /\ pendings[p][i] \in Ev
  BY SMTT(20), <1>1 DEF Lists, LType
<1>3. Lists'
  BY SMTT(20), <1>0, <1>1, <1>2, Kinds DEF Lists
<1>4. \A e \in Ev : e \in Linked' <=> e \in Linked /\ e # cur
  <2>1. \A p \in Prio : DOMAIN pendings[p] = 1 .. Len(pendings[p])
    BY SMTT(20), <1>1 DEF LType
  <2> QED  BY Zenon, <1>0, <1>2, <2>1, Kinds DEF Linked
<1>a. PICK x \in Ev : x = cur
  BY Zenon, <1>1
<1>5. nactives = Cardinality(Actives) /\ EvOK(x) /\ x \notin Linked'
  BY Zenon, <1>1, <1>4, <1>a DEF Counts
<1>6. /\ live' \subseteq Ev /\ owned' \subseteq Ev /\ stale' \subseteq Ev
      /\ active' \in [Ev -> BOOLEAN] /\ pending' \in [Ev -> BOOLEAN]
      /\ nactives' = Cardinality(Actives') /\ EvOK(x)' /\ ~pending'[x]
      /\ \A e \in Ev : e # x => Same(e)
  <2>1. UNCHANGED << destroy, events, loop_timers, idles >> /\ Finish(x) /\ stale' = stale \ {x}
    BY Zenon, <1>0, <1>a
  <2> QED  BY <1>1, <1>5, <2>1, Finished, Zenon
<1>7. ASSUME NEW e \in Ev  PROVE EvOK(e)'
  <2>1. CASE e = x
    BY Zenon, <1>6, <2>1
  <2>2. CASE e # x
    <3>1. Same(e) /\ (e \in Linked' <=> e \in Linked)
      BY <1>4, <1>6, <1>a, <2>2, Zenon
    <3> QED  BY Zenon, <1>1, <3>1, SameOK
  <2> QED  BY Zenon, <2>1, <2>2
<1>8. LType'
  BY Zenon, <1>0, <1>1, <1>6 DEF LType, PCs
<1>9. Phases' /\ loop_pc' # "freed" /\ Registered' = Registered
  BY Zenon, <1>0 DEF Phases, Registered
<1>10. Counts'
  BY Zenon, <1>0, <1>1, <1>6, <1>9 DEF Counts
<1>11. ASSUME NEW e \in Counted  PROVE BudgetOK(e)'
  <2>1. e \in Ev /\ repeat[e] \in Int /\ budget[e] \in Int
    BY SMTT(20), <1>1, Kinds DEF LType
  <2>2. Due(e)' <= Due(e) /\ Due(e) \in Int /\ Due(e)' \in Int
    <3>1. e # x => pending'[e] = pending[e]
      BY Zenon, <1>6, <2>1 DEF Same
    <3>2. ~pending'[x] /\ e # NoEvent
      BY Zenon, <1>6, <2>1, Kinds
    <3> QED  BY SMTT(20), <1>0, <1>a, <2>1, <3>1, <3>2 DEF Due
  <2> QED  BY SMTT(20), <1>0, <1>1, <2>1, <2>2 DEF BudgetOK
<1> QED  BY Zenon, <1>3, <1>7, <1>8, <1>9, <1>10, <1>11 DEF LoopInv

-----------------------------------------------------------------------------
(* The steps together, and the theorems. *)

\* Nothing is pending, and only the ios, one for each descriptor, exist.
LEMMA InvInit == LoopInit => LoopInv
<1> SUFFICES ASSUME LoopInit  PROVE LoopInv
  BY Zenon
<1>1. /\ \A p \in Prio : pendings[p] = << >> /\ Len(pendings[p]) = 0
      /\ cur = NoEvent /\ loop_pc = "out"
  BY Zenon DEF LoopInit
<1>2. Linked = {}
  BY SMTT(20), <1>1, Kinds DEF Linked
<1>3. LType
  BY SMTT(20), Kinds DEF LoopInit, LType, PCs, Prio
<1>4. Lists
  BY SMTT(20), <1>1 DEF Lists
<1>5. Phases
  BY Zenon, <1>1, <1>2 DEF Phases
<1>6. \A e \in Ev : EvOK(e)
  BY Zenon, <1>2, Kinds DEF LoopInit, EvOK
<1>7. Counts
  <2>1. Actives = {} /\ Pending = {} /\ Registered = {} /\ loop_timers = {} /\ idles = {}
    BY Zenon DEF LoopInit, Actives, Pending, Registered
  <2> QED  BY Zenon, <2>1, FS_EmptySet DEF LoopInit, Counts
<1>8. ASSUME NEW e \in Counted  PROVE BudgetOK(e)
  <2>1. e \in Ev /\ budget[e] = 0 /\ repeat[e] = 0 /\ ~pending[e] /\ e \notin loop_timers \cup idles
    BY Zenon, Kinds DEF LoopInit
  <2> QED  BY SMTT(20), <2>1, Kinds DEF BudgetOK, Due
<1> QED  BY Zenon, <1>3, <1>4, <1>5, <1>6, <1>7, <1>8 DEF LoopInv

\* What user code calls, without the two misuses.
LEMMA InvUser ==
    ASSUME ~DelAfterReset, ~DelAfterStop, LoopInv, User
    PROVE  LoopInv'
<1>1. ASSUME NEW t \in Timeouts, NEW d \in Delays, NEW r \in Repeats, htimer_add(t, d, r)  PROVE LoopInv'
  <2>1. t \in Counted /\ t \in Timers
    BY Zenon DEF Counted, Timers
  <2> QED  BY Zenon, <1>1, <2>1, Added DEF htimer_add
<1>2. ASSUME NEW t \in Periods, NEW d \in Delays, NEW r \in Repeats, htimer_add_period(t, d, r)  PROVE LoopInv'
  <2>1. t \in Counted /\ t \in Timers
    BY Zenon DEF Counted, Timers
  <2> QED  BY Zenon, <1>2, <2>1, Added DEF htimer_add_period
<1>3. ASSUME NEW t \in Timers, htimer_del(t)  PROVE LoopInv'
  <2>1. t \in Counted /\ t \notin stale
    BY Zenon, <1>3 DEF Counted, htimer_del
  <2> QED  BY Zenon, <1>3, <2>1, Deleted DEF htimer_del, fields
<1>4. ASSUME NEW i \in Idles, NEW r \in Repeats, hidle_add(i, r)  PROVE LoopInv'
  <2>1. i \in Counted
    BY Zenon DEF Counted
  <2> QED  BY Zenon, <1>4, <2>1, Added DEF hidle_add
<1>5. ASSUME NEW i \in Idles, hidle_del(i)  PROVE LoopInv'
  <2>1. i \in Counted /\ i \notin stale
    BY Zenon DEF Counted, LoopInv, LType
  <2> QED  BY Zenon, <1>5, <2>1, Deleted DEF hidle_del, fields
<1>6. CASE Stall \/ hloop_stop
  <2>1. UNCHANGED << flags, repeat, events, sets, counters, cur, ghosts, loop_pc >>
    BY Zenon, <1>6 DEF Stall, hloop_stop, fields, control
  <2> QED  BY Zenon, <2>1, Moved
<1> QED  BY Zenon, <1>1, <1>2, <1>3, <1>4, <1>5, <1>6, Reset, IoAdded, IoDeleted DEF User

\* The invariant is inductive.
LEMMA InvNext ==
    ASSUME ~DelAfterReset, ~DelAfterStop, LoopInv, [LoopNext]_loopvars
    PROVE  LoopInv'
<1>1. CASE hloop_run \/ HloopRunReturns \/ SkipPoll \/ WokenByStop \/ UNCHANGED loopvars
  <2>1. /\ UNCHANGED << flags, repeat, events, sets, counters, cur, ghosts >>
        /\ {loop_pc, loop_pc'} \subseteq {"out", "poll", "polled", "timers"} \/ loop_pc' = loop_pc
    BY Zenon, <1>1 DEF hloop_run, HloopRunReturns, SkipPoll, WokenByStop, loopvars, fields, control
  <2> QED  BY Zenon, <2>1, Moved
<1>2. CASE \E d \in 0 .. MaxBlock, ready \in SUBSET Registered : PollIos(d, ready)
  BY Zenon, <1>2, Polled
<1>3. CASE \E p \in Prio : Visit(p)
  BY Zenon, <1>3, Visited
<1> QED  BY Zenon, <1>1, <1>2, <1>3, InvUser, Freed, Expired, Returned, RoundEnds DEF LoopNext, Loop, PollEvents

\* LoopInv holds in every reachable state.
LEMMA InvAlways ==
    ASSUME ~DelAfterReset, ~DelAfterStop
    PROVE  LoopSpec => []LoopInv
<1>1. LoopInv /\ [LoopNext]_loopvars => LoopInv'
  BY Zenon, InvNext
<1> QED  BY <1>1, InvInit, PTL DEF LoopSpec

(***************************************************************************)
(* Each event is freed once, whatever callbacks add, reset and delete: no  *)
(* list of pending events holds one that was freed, nothing that left the  *)
(* heap and the idle list is forgotten, and no event is pushed while it is *)
(* linked (hevent.h:249-304, hloop.c:34-138).                              *)
(***************************************************************************)
THEOREM LoopFreesEventsOnce ==
    ASSUME ~DelAfterReset, ~DelAfterStop
    PROVE  LoopSpec => []EventsFreedOnce
<1>1. LoopInv => EventsFreedOnce
  <2> SUFFICES ASSUME LoopInv  PROVE EventsFreedOnce
    BY Zenon
  <2>1. NoRing
    BY Zenon DEF LoopInv, LType, PCs, NoRing
  <2>2. CASE loop_pc = "freed"
    <3>1. live = {} /\ Linked = {} /\ loop_timers = {} /\ idles = {}
      BY Zenon, <2>2 DEF LoopInv, Phases
    <3> QED  BY Zenon, <2>1, <3>1 DEF EventsFreedOnce, NoDanglingPendings, NoLeak
  <2>3. CASE loop_pc # "freed"
    <3>1. \A e \in Ev : EvOK(e)
      BY Zenon, <2>3 DEF LoopInv
    <3>2. live \subseteq Ev /\ loop_timers \cup idles \subseteq Counted /\ Counted \subseteq Ev /\ Ev = Counted \cup Ios
      BY Zenon, Kinds DEF LoopInv, LType, Ev, Counted
    <3>3. NoDanglingPendings
      BY Zenon, <3>1 DEF NoDanglingPendings, EvOK, Linked
    <3>4. NoLeak
      BY Zenon, <2>3, <3>1, <3>2 DEF NoLeak, EvOK
    <3> QED  BY Zenon, <2>1, <3>3, <3>4 DEF EventsFreedOnce
  <2> QED  BY Zenon, <2>2, <2>3
<1> QED  BY <1>1, InvAlways, PTL

-----------------------------------------------------------------------------
(* The rest of the type invariant: times, counters and calls. *)

\* The expiry times; a timer of the heap, or one user code may reset, has a
\* timeout other than 0.
Expiries ==
    /\ timeout \in [Timeouts -> Nat] /\ next \in [Timers -> Int]
    /\ \A t \in Timeouts : t \in owned \cup loop_timers => timeout[t] # 0
    /\ phase \in 0 .. GRAN - 1 /\ lag \in Nat

CounterTypes ==
    /\ nactives \in Int /\ ntimers \in Int /\ nidles \in Int /\ nios \in Int /\ npendings \in Int
    /\ loop_status \in {"STOP", "RUNNING"} /\ ops \in 0 .. MaxCallsMade /\ runs \in 0 .. MaxRuns

\* Remainders and multiples of the steps of the clock.
LEMMA Remainder ==
    ASSUME NEW a \in Int, NEW b \in Nat \ {0}
    PROVE  a % b \in 0 .. b - 1 /\ a \div b \in Int
BY SMTT(20)

LEMMA Multiple ==
    ASSUME NEW a \in Int, NEW b \in Int
    PROVE  a * b \in Int
BY SMTT(20)

\* hloop_update_time keeps the types.
LEMMA Refreshed ==
    ASSUME Expiries, LType, NEW d \in Nat
    PROVE  UpdatedNext(d) \in [Timers -> Int] /\ UpdatedPhase(d) \in 0 .. GRAN - 1
<1>1. GRAN \in Nat \ {0}
  BY Zenon, LoopAssumption DEF LoopAssumption
<1>2. (\A t \in Timers : next[t] - lag - d \in Int) /\ 0 \in Int
  BY SMTT(20) DEF Expiries
<1>3. phase + lag + d \in Int
  BY SMTT(20), <1>1 DEF Expiries
<1> QED  BY Zenon, <1>1, <1>2, <1>3, Remainder DEF UpdatedNext, UpdatedPhase

\* Rounding a timeout down gives a time.
LEMMA Expiry ==
    ASSUME NEW d \in Nat, NEW ph \in 0 .. GRAN - 1
    PROVE  NextExpiry(d, ph) \in Int
<1>1. GRAN \in Nat \ {0}
  BY Zenon, LoopAssumption DEF LoopAssumption
<1>2. (ph + d) % GRAN \in 0 .. GRAN - 1
  BY SMTT(20), <1>1, Remainder
<1> QED  BY SMTT(20), <1>1, <1>2 DEF NextExpiry

\* Steps that leave the timers and their times alone, or forget some of them.
LEMMA SameExpiries ==
    ASSUME Expiries, UNCHANGED << timeout, next, phase >>, lag' \in Nat,
           owned' \cap Timeouts \subseteq owned, loop_timers' \subseteq loop_timers
    PROVE  Expiries'
BY Zenon DEF Expiries

LEMMA ExpiriesStep ==
    ASSUME LType, Expiries, [LoopNext]_loopvars
    PROVE  Expiries'
<1>0. /\ Timers = Timeouts \cup Periods /\ Timeouts \cap Periods = {} /\ Timeouts \cap Idles = {}
      /\ Delays \subseteq Nat \ {0} /\ GRAN \in Nat \ {0} /\ lag \in Nat /\ phase \in 0 .. GRAN - 1
  BY Zenon, LoopAssumption DEF LoopAssumption, Timers, Expiries
<1>1. ASSUME NEW t \in Timeouts, NEW d \in Delays, NEW r \in Repeats, htimer_add(t, d, r)  PROVE Expiries'
  <2>1. /\ timeout' = [timeout EXCEPT ![t] = d] /\ phase' = UpdatedPhase(0) /\ lag' = 0
        /\ next' = [UpdatedNext(0) EXCEPT ![t] = NextExpiry(d, phase')]
        /\ loop_timers' = loop_timers \cup {t} /\ owned' = owned \cup {t}
    BY Zenon, <1>1 DEF htimer_add, EVENT_ADD
  <2>2. UpdatedNext(0) \in [Timers -> Int] /\ phase' \in 0 .. GRAN - 1
    BY SMTT(20), <2>1, Refreshed
  <2>3. NextExpiry(d, phase') \in Int
    BY Zenon, <1>0, <2>2, Expiry
  <2> QED  BY SMTT(20), <1>0, <2>1, <2>2, <2>3 DEF Expiries
<1>2. ASSUME NEW t \in Periods, NEW d \in Delays, NEW r \in Repeats, htimer_add_period(t, d, r)  PROVE Expiries'
  <2>1. /\ next' = [next EXCEPT ![t] = lag + d] /\ UNCHANGED << timeout, phase, lag >>
        /\ loop_timers' = loop_timers \cup {t} /\ owned' = owned \cup {t}
    BY Zenon, <1>2 DEF htimer_add_period, EVENT_ADD, clock
  <2> QED  BY SMTT(20), <1>0, <2>1 DEF Expiries
<1>3. ASSUME NEW t \in Timeouts, NEW d \in Delays \cup {0}, htimer_reset(t, d)  PROVE Expiries'
  <2>1. /\ t \in owned /\ timeout' = [timeout EXCEPT ![t] = IF d > 0 THEN d ELSE @]
        /\ next' = [next EXCEPT ![t] = NextExpiry(timeout'[t], phase)]
        /\ loop_timers' = loop_timers \cup {t} /\ UNCHANGED << owned, phase, lag >>
    BY Zenon, <1>3 DEF htimer_reset, clock
  <2>2. timeout' \in [Timeouts -> Nat] /\ timeout'[t] # 0 /\ \A u \in Timeouts : u # t => timeout'[u] = timeout[u]
    BY SMTT(20), <1>0, <2>1 DEF Expiries
  <2>3. NextExpiry(timeout'[t], phase) \in Int
    BY Zenon, <1>0, <2>2, Expiry
  <2> QED  BY SMTT(20), <1>0, <2>1, <2>2, <2>3 DEF Expiries
<1>4. ASSUME NEW t \in Timers, htimer_del(t)  PROVE Expiries'
  BY Zenon, <1>0, <1>4, SameExpiries DEF htimer_del, fields, clock
<1>5. ASSUME NEW i \in Idles, NEW r \in Repeats, hidle_add(i, r)  PROVE Expiries'
  BY Zenon, <1>0, <1>5, SameExpiries DEF hidle_add, EVENT_ADD, clock
<1>6. ASSUME NEW i \in Idles, hidle_del(i)  PROVE Expiries'
  BY Zenon, <1>0, <1>6, SameExpiries DEF hidle_del, fields, clock
<1>7. ASSUME NEW io \in Ios, NEW evs, IoAdd(io, evs) \/ IoDel(io, evs)  PROVE Expiries'
  BY Zenon, <1>0, <1>7, SameExpiries DEF IoAdd, IoDel, sets, clock, ghosts
<1>8. CASE Stall
  <2>1. lag' \in Nat
    BY SMTT(20), <1>0, <1>8 DEF Stall
  <2> QED  BY Zenon, <1>8, <2>1, SameExpiries DEF Stall, fields, sets, ghosts
<1>9. CASE hloop_stop \/ hloop_run \/ HloopRunReturns \/ WokenByStop \/ EndRound \/ UNCHANGED loopvars
  BY Zenon, <1>0, <1>9, SameExpiries
     DEF hloop_stop, hloop_run, HloopRunReturns, WokenByStop, EndRound, loopvars, fields, sets, clock, ghosts
<1>10. CASE SkipPoll
  <2>1. UpdatedNext(0) \in [Timers -> Int] /\ UpdatedPhase(0) \in 0 .. GRAN - 1 /\ 0 \in Nat
    BY SMTT(20), Refreshed
  <2> QED  BY Zenon, <1>10, <2>1 DEF SkipPoll, Expiries, sets, ghosts
<1>11. ASSUME NEW d \in 0 .. MaxBlock, NEW ready, PollIos(d, ready)  PROVE Expiries'
  <2>1. d \in Nat /\ 0 \in Nat
    BY SMTT(20), LoopAssumption DEF LoopAssumption
  <2>2. UpdatedNext(d) \in [Timers -> Int] /\ UpdatedPhase(d) \in 0 .. GRAN - 1
    BY Zenon, <2>1, Refreshed
  <2>3. /\ next' = UpdatedNext(d) /\ phase' = UpdatedPhase(d) /\ lag' = 0
        /\ UNCHANGED << timeout, owned, loop_timers >>
    BY Zenon, <1>11 DEF PollIos
  <2> QED  BY Zenon, <2>1, <2>2, <2>3 DEF Expiries
<1>12. CASE ProcessTimersAndIdles
  <2> DEFINE due   == IF ntimers = 0 THEN {} ELSE {t \in loop_timers : next[t] <= 0}
             idle  == IF nidles # 0 /\ npendings = 0 /\ (\A t \in due : pending[t]) THEN idles ELSE {}
             last  == {e \in due \cup idle : Decrement(repeat[e]) = 0}
  <2>1. PICK again \in [due \cap Periods -> Delays] :
            /\ next' = [t \in Timers |-> IF t \notin due \ last THEN next[t]
                                         ELSE IF t \in Timeouts THEN Rearmed(t) ELSE again[t]]
            /\ loop_timers' = loop_timers \ last
    BY Zenon, <1>12 DEF ProcessTimersAndIdles
  <2>. due \subseteq loop_timers
    BY Zenon
  <2> HIDE DEF due, last
  <2>2. ASSUME NEW t \in Timeouts, t \in loop_timers  PROVE Rearmed(t) \in Int
    <3>1. next[t] \in Int /\ timeout[t] \in Nat \ {0}
      BY Zenon, <1>0, <2>2 DEF Expiries
    <3>2. 0 - next[t] \in Int
      BY SMTT(20), <3>1
    <3>3. (0 - next[t]) \div timeout[t] + 1 \in Int /\ timeout[t] \in Int
      BY SMTT(20), <3>1, <3>2, Remainder
    <3>4. timeout[t] * ((0 - next[t]) \div timeout[t] + 1) \in Int
      BY Zenon, <3>3, Multiple
    <3> QED  BY SMTT(20), <3>1, <3>4 DEF Rearmed
  <2>3. \A t \in Timers : next'[t] \in Int
    <3> SUFFICES ASSUME NEW t \in Timers  PROVE next'[t] \in Int
      BY Zenon
    <3>1. CASE t \notin due \ last
      BY Zenon, <2>1, <3>1 DEF Expiries
    <3>2. CASE t \in due \ last /\ t \in Timeouts
      BY Zenon, <2>1, <2>2, <3>2
    <3>3. CASE t \in due \ last /\ t \in Periods /\ t \notin Timeouts
      <4>1. again[t] \in Nat
        BY Zenon, <1>0, <2>1, <3>3
      <4>2. again[t] \in Int
        BY SMTT(20), <4>1
      <4> QED  BY Zenon, <2>1, <3>3, <4>2
    <3> QED  BY Zenon, <1>0, <3>1, <3>2, <3>3
  <2>4. next' \in [Timers -> Int]
    BY Zenon, <2>1, <2>3
  <2> QED  BY Zenon, <1>12, <2>1, <2>4 DEF ProcessTimersAndIdles, Expiries, clock
<1>13. ASSUME NEW p \in Prio, Visit(p)  PROVE Expiries'
  BY Zenon, <1>0, <1>13, SameExpiries DEF Visit, Finish, fields, clock
<1>14. CASE Return
  BY Zenon, <1>0, <1>14, SameExpiries DEF Return, Finish, fields, sets, clock
<1>15. CASE hloop_free
  BY Zenon, <1>0, <1>15, SameExpiries DEF hloop_free, fields, clock
<1> QED  BY Zenon, <1>1, <1>2, <1>3, <1>4, <1>5, <1>6, <1>7, <1>8, <1>9, <1>10, <1>11, <1>12, <1>13, <1>14, <1>15
            DEF LoopNext, User, Loop, PollEvents

LEMMA CountersStep ==
    ASSUME LType, CounterTypes, [LoopNext]_loopvars
    PROVE  CounterTypes'
<1>0. MaxCallsMade \in Nat /\ MaxRuns \in Nat
  BY Zenon, LoopAssumption DEF LoopAssumption
<1>1. /\ \A n \in Int : n + 1 \in Int /\ n - 1 \in Int
      /\ \A n \in Int, k \in Nat : n + k \in Int /\ n - k \in Int
      /\ 0 \in Int
  BY SMTT(20)
<1>2. ASSUME UserCode  PROVE ops' \in 0 .. MaxCallsMade /\ UNCHANGED << loop_status, runs >>
  BY SMTT(20), <1>0, <1>2 DEF UserCode, CounterTypes
<1>3. ASSUME NEW e, EVENT_ACTIVE(e) \/ EVENT_INACTIVE(e) \/ UNCHANGED nactives  PROVE nactives' \in Int
  BY Zenon, <1>1, <1>3 DEF EVENT_ACTIVE, EVENT_INACTIVE, CounterTypes
<1>4. ASSUME NEW t, NEW d, NEW r, htimer_add(t, d, r) \/ htimer_add_period(t, d, r)  PROVE CounterTypes'
  BY Zenon, <1>1, <1>2, <1>3, <1>4 DEF htimer_add, htimer_add_period, EVENT_ADD, CounterTypes
<1>5. ASSUME NEW t, NEW d, htimer_reset(t, d)  PROVE CounterTypes'
  BY Zenon, <1>1, <1>2, <1>3, <1>5 DEF htimer_reset, EVENT_RESET, CounterTypes
<1>6. ASSUME NEW t, htimer_del(t)  PROVE CounterTypes'
  BY Zenon, <1>1, <1>2, <1>3, <1>6 DEF htimer_del, EVENT_DEL, CounterTypes
<1>7. ASSUME NEW i, NEW r, hidle_add(i, r)  PROVE CounterTypes'
  BY Zenon, <1>1, <1>2, <1>3, <1>7 DEF hidle_add, EVENT_ADD, CounterTypes
<1>8. ASSUME NEW i, hidle_del(i)  PROVE CounterTypes'
  BY Zenon, <1>1, <1>2, <1>3, <1>8 DEF hidle_del, EVENT_DEL, CounterTypes
<1>9. ASSUME NEW io, NEW evs, IoAdd(io, evs)  PROVE CounterTypes'
  BY Zenon, <1>1, <1>2, <1>3, <1>9 DEF IoAdd, CounterTypes
<1>10. ASSUME NEW io, NEW evs, IoDel(io, evs)  PROVE CounterTypes'
  BY Zenon, <1>1, <1>2, <1>3, <1>10 DEF IoDel, EVENT_UNPENDING, CounterTypes
<1>11. CASE Stall \/ hloop_stop \/ HloopRunReturns \/ SkipPoll \/ WokenByStop \/ EndRound \/ hloop_free
            \/ UNCHANGED loopvars
  BY Zenon, <1>1, <1>11
     DEF Stall, hloop_stop, HloopRunReturns, SkipPoll, WokenByStop, EndRound, hloop_free, CounterTypes,
         loopvars, counters, control
<1>12. CASE hloop_run
  <2>1. runs' \in 0 .. MaxRuns
    BY SMTT(20), <1>0, <1>12 DEF hloop_run, CounterTypes
  <2> QED  BY Zenon, <1>12, <2>1 DEF hloop_run, CounterTypes, counters
<1>13. ASSUME NEW d, NEW ready \in SUBSET Registered, PollIos(d, ready)  PROVE CounterTypes'
  <2>1. PICK fresh \in SUBSET ready : npendings' = npendings + Cardinality(fresh)
    BY Zenon, <1>13 DEF PollIos
  <2>2. fresh \subseteq Ev
    BY Zenon, <2>1, Kinds DEF Registered
  <2>3. npendings' \in Int
    BY Zenon, <1>1, <2>1, <2>2, Finite DEF CounterTypes
  <2> QED  BY Zenon, <1>13, <2>3 DEF PollIos, CounterTypes
<1>14. CASE ProcessTimersAndIdles
  <2> DEFINE due   == IF ntimers = 0 THEN {} ELSE {t \in loop_timers : next[t] <= 0}
             idle  == IF nidles # 0 /\ npendings = 0 /\ (\A t \in due : pending[t]) THEN idles ELSE {}
             last  == {e \in due \cup idle : Decrement(repeat[e]) = 0}
             fresh == {e \in due \cup idle : ~pending[e]}
  <2>1. /\ due \subseteq loop_timers /\ idle \subseteq idles
            /\ ntimers' = ntimers - Cardinality(last \cap Timers)
            /\ nidles' = nidles - Cardinality(last \cap Idles)
            /\ npendings' = npendings + Cardinality(fresh)
    BY Zenon, <1>14 DEF ProcessTimersAndIdles
  <2> HIDE DEF due, idle
  <2>2. fresh \subseteq Ev /\ last \cap Timers \subseteq Ev /\ last \cap Idles \subseteq Ev
    BY Zenon, <2>1 DEF LType, Ev, Counted
  <2>3. /\ Cardinality(fresh) \in Nat /\ Cardinality(last \cap Timers) \in Nat
        /\ Cardinality(last \cap Idles) \in Nat
    BY Zenon, <2>2, Finite
  <2>4. ntimers' \in Int /\ nidles' \in Int /\ npendings' \in Int
    <3> HIDE DEF last, fresh
    <3> QED  BY Zenon, <1>1, <2>1, <2>3 DEF CounterTypes
  <2> QED  BY Zenon, <1>14, <2>4 DEF ProcessTimersAndIdles, CounterTypes
<1>15. ASSUME NEW p \in Prio, Visit(p)  PROVE CounterTypes'
  BY Zenon, <1>3, <1>15 DEF Visit, Finish, CounterTypes
<1>16. CASE Return
  BY Zenon, <1>3, <1>16 DEF Return, Finish, CounterTypes
<1> QED  BY Zenon, <1>4, <1>5, <1>6, <1>7, <1>8, <1>9, <1>10, <1>11, <1>12, <1>13, <1>14, <1>15, <1>16
            DEF LoopNext, User, Loop, PollEvents

\* All of the state keeps its type.
LEMMA TypesAlways ==
    ASSUME ~DelAfterReset, ~DelAfterStop
    PROVE  LoopSpec => []LoopTypeOK
<1>1. LoopInit => Expiries /\ CounterTypes
  <2>1. /\ 0 \in Nat /\ 0 \in Int /\ GRAN \in Nat \ {0} /\ 0 \in 0 .. MaxCallsMade /\ 0 \in 0 .. MaxRuns
        /\ 0 \in 0 .. GRAN - 1
    BY SMTT(20), LoopAssumption DEF LoopAssumption
  <2>2. Timeouts \cap Ios = {}
    BY Zenon, LoopAssumption DEF LoopAssumption
  <2> QED  BY ZenonT(40), <2>1, <2>2 DEF LoopInit, Expiries, CounterTypes
<1>2. LoopInv => LType
  BY Zenon DEF LoopInv
<1>3. LType /\ Expiries /\ CounterTypes /\ [LoopNext]_loopvars => Expiries' /\ CounterTypes'
  BY Zenon, ExpiriesStep, CountersStep
<1>4. LType /\ Expiries /\ CounterTypes => LoopTypeOK
  BY Zenon DEF LType, Expiries, CounterTypes, LoopTypeOK, PCs
<1> QED  BY <1>1, <1>2, <1>3, <1>4, InvAlways, PTL DEF LoopSpec

(***************************************************************************)
(* The counters of the loop count: timers, idles, ios and active events    *)
(* always, pending ones between two rounds, and a loop that quits for want *)
(* of active events has no timer, idle or io (hloop.c:34-192, 447-493).    *)
(* With them all of the loop's state keeps its type.                       *)
(***************************************************************************)
THEOREM LoopCountersAgree ==
    ASSUME ~DelAfterReset, ~DelAfterStop
    PROVE  LoopSpec => []CountersAgree
<1>1. LoopInv /\ LoopTypeOK => CountersAgree
  <2> SUFFICES ASSUME LoopInv, LoopTypeOK, loop_pc # "freed"  PROVE CountersAgree
    BY Zenon DEF CountersAgree
  <2>1. LType /\ Counts /\ \A e \in Ev : EvOK(e)
    BY Zenon, InvParts
  <2>2. Actives = {e \in Ev : active[e]} /\ Pending = {e \in Ev : pending[e]}
    BY Zenon DEF Actives, Pending
  <2>3. nactives = 0 => loop_timers = {} /\ idles = {} /\ Registered = {}
    <3>1. nactives = 0 => Actives = {}
      BY Zenon, <2>1, Finite, FS_EmptySet DEF Counts, Actives
    <3>2. loop_timers \cup idles \subseteq Actives
      BY Zenon, <2>1, Kinds DEF LType, EvOK, Actives, Counted
    <3>3. Registered \subseteq Actives
      BY Zenon, <2>1, Kinds DEF EvOK, Actives, Registered
    <3> QED  BY Zenon, <3>1, <3>2, <3>3
  <2> QED  BY Zenon, <2>1, <2>2, <2>3 DEF CountersAgree, Counts
<1> QED  BY <1>1, InvAlways, TypesAlways, PTL

\* A callback begins in a visit of a pending, active event.
LEMMA CallbackBegins ==
    ASSUME LoopInv, [LoopNext]_loopvars, loop_pc # "cb", loop_pc' = "cb"
    PROVE  cur' \notin stale /\ cur' \in owned
<1>1. \E p \in Prio : Visit(p)
  BY Zenon DEF LoopNext, loopvars, control, hloop_run, hloop_free, User, UserCode, htimer_add, htimer_add_period,
         htimer_reset, htimer_del, hidle_add, hidle_del, IoAdd, IoDel, Stall, hloop_stop, Loop,
         HloopRunReturns, PollEvents, SkipPoll, PollIos, WokenByStop, ProcessTimersAndIdles, Return, EndRound
<1>2. PICK p \in Prio : Visit(p)
  BY Zenon, <1>1
<1>3. loop_pc = "dispatch" /\ pendings[p] # << >> /\ pending[cur'] /\ active[cur'] /\ cur' = Head(pendings[p])
  BY Zenon, <1>2 DEF Visit
<1>4. cur' \in Ev
  BY SMTT(20), <1>3 DEF LoopInv, LType
<1> QED  BY Zenon, <1>3, <1>4, InvParts DEF EvOK

(***************************************************************************)
(* A callback is one the event is due: not on readiness that precedes its  *)
(* last re-arming, not after it was deleted, and no more often than repeat *)
(* and the resets allow (hloop.c:34-138, 650-759, hevent.h:249-304).       *)
(***************************************************************************)
THEOREM LoopCallbacksDue ==
    ASSUME ~DelAfterReset, ~DelAfterStop
    PROVE  LoopSpec => CallbacksDue
<1>1. LoopInv => WithinBudget
  <2> SUFFICES ASSUME LoopInv, NEW e \in Counted  PROVE budget[e] >= 0
    BY Zenon DEF WithinBudget
  <2>1. BudgetOK(e) /\ repeat[e] \in Nat /\ budget[e] \in Int /\ INFINITE \in Nat
    BY SMTT(20), Kinds DEF LoopInv, LType
  <2>2. Due(e) \in Nat
    BY SMTT(20), <2>1 DEF Due
  <2> QED  BY SMTT(20), <2>1, <2>2 DEF BudgetOK
<1>2. LoopInv /\ [LoopNext]_loopvars => [loop_pc # "cb" /\ loop_pc' = "cb" => cur' \notin stale]_loopvars
  BY Zenon, CallbackBegins
<1>3. LoopInv /\ [LoopNext]_loopvars => [loop_pc # "cb" /\ loop_pc' = "cb" => cur' \in owned]_loopvars
  BY Zenon, CallbackBegins
<1> QED  BY <1>1, <1>2, <1>3, InvAlways, PTL DEF LoopSpec, CallbacksDue, NoStaleCallback, NoCallbackAfterDel

=============================================================================
