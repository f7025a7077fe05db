------------------------------- MODULE MCLoop -------------------------------
(***************************************************************************)
(* The parts of the event loop, each explored on its own from an initial   *)
(* state that chooses one of them: the posting of events from other        *)
(* threads (LoopPost), the dispatch of timers, idles and ios (LoopEvents), *)
(* the TimerID table of hv::EventLoop (EvTimers), the two trees the loop   *)
(* keeps timers and UDP peers in (TimerHeap, RbTree), the engines that     *)
(* tell it what is ready (IoWatcher), the timeouts of an io (HioTimers),   *)
(* and what its reads hand up: packets cut by an unpack setting (Unpack),  *)
(* and reads until a length or a delimiter (ReadUntil).                    *)
(***************************************************************************)
EXTENDS LoopPost, LoopEvents, EvTimers, TimerHeap, RbTree, IoWatcher, HioTimers, Unpack, ReadUntil, TLC

VARIABLE part    \* the component this behaviour is about

\* One setting per way of cutting and per coding of the length field, each with
\* the bytes that matter to it: the last lets packets grow past the high water
\* mark, so that the buffer grows and shrinks.
MCSettings ==
    { [mode |-> "fixed", fixed_length |-> 3, bytes |-> 0 .. 1, most |-> 8],
      [mode |-> "delim", delimiter |-> << 1, 1, 0 >>, bytes |-> 0 .. 1, most |-> 8] } \cup
    { [mode |-> "length", body_offset |-> off + n, length_field_offset |-> off, length_field_bytes |-> n,
       length_adjustment |-> 0, coding |-> c, bytes |-> b, most |-> m] :
        << off, n, c, b, m >> \in { << 1, 1, "varint", 0 .. 3, 6 >>, << 0, 1, "asn1", 0 .. 3, 6 >>,
                                    << 0, 2, "big", 0 .. 3, 6 >>, << 0, 2, "little", 0 .. 3, 6 >>,
                                    << 0, 1, "big", {0, 3}, 10 >> } }

\* What may be ready on three descriptors, and those each engine is used with.
MCReadiness ==
    { 0 :> {"READ"} @@ 1 :> {"WRITE"} @@ 2 :> {}, 0 :> {} @@ 1 :> {"HUP"} @@ 2 :> {"READ", "WRITE"},
      [fd \in 0 .. 2 |-> {"WRITE"}] }
MCUsed ==
    "epoll" :> 0 .. 1 @@ "port" :> 0 .. 1 @@ "poll" :> 0 .. 2 @@ "kqueue" :> 0 .. 1
    @@ "select" :> 0 .. 2 @@ "io_uring" :> {1}

Parts == {"post", "dispatch", "timers", "heap", "tree", "watcher", "timeouts", "unpack", "until"}

MCInit ==
    /\ part \in Parts
    /\ key \in IF part = "heap" THEN [HeapNode -> Key] ELSE {[n \in HeapNode |-> 1]}
    /\ engine \in IF part = "watcher" THEN DOMAIN Used ELSE {"epoll"}
    /\ setting \in IF part = "unpack" THEN Settings ELSE {CHOOSE s \in Settings : s.mode = "fixed"}
    /\ Init /\ LoopInit /\ TmInit /\ HpInit /\ RbInit /\ IwInit /\ HtInit /\ UpInit /\ RuInit

\* The variables of the components of ps stay as they are.
Rest(ps) ==
    /\ UNCHANGED part
    /\ "post" \in ps => UNCHANGED vars
    /\ "dispatch" \in ps => UNCHANGED loopvars
    /\ "timers" \in ps => UNCHANGED tmvars
    /\ "heap" \in ps => UNCHANGED hpvars
    /\ "tree" \in ps => UNCHANGED rbvars
    /\ "watcher" \in ps => UNCHANGED iwvars
    /\ "timeouts" \in ps => UNCHANGED htvars
    /\ "unpack" \in ps => UNCHANGED upvars
    /\ "until" \in ps => UNCHANGED ruvars

MCNext ==
    \/ part = "post" /\ Next /\ Rest(Parts \ {"post"})
    \/ part = "dispatch" /\ LoopNext /\ Rest(Parts \ {"dispatch"})
    \/ part = "timers" /\ TmNext /\ Rest(Parts \ {"timers"})
    \/ part = "heap" /\ HpNext /\ Rest(Parts \ {"heap"})
    \/ part = "tree" /\ RbNext /\ Rest(Parts \ {"tree"})
    \/ part = "watcher" /\ IwNext /\ Rest(Parts \ {"watcher"})
    \/ part = "timeouts" /\ HtNext /\ Rest(Parts \ {"timeouts"})
    \/ part = "unpack" /\ UpNext /\ Rest(Parts \ {"unpack"})
    \/ part = "until" /\ RuNext /\ Rest(Parts \ {"until"})

MCSpec ==
    MCInit /\ [][MCNext]_<< part, vars, loopvars, tmvars, hpvars, rbvars, iwvars, htvars, upvars, ruvars >>

-----------------------------------------------------------------------------

(***************************************************************************)
(* The packets handed up are exactly those the stream holds under the      *)
(* setting, however the bytes were cut into reads, and the buffer has room *)
(* for the next read (unpack.c, hevent.c:324-413).                         *)
(***************************************************************************)
PacketsCut == part = "unpack" => PacketsExact /\ RoomForRead
=============================================================================
