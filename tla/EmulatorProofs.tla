--------------------------- MODULE EmulatorProofs ---------------------------
(***************************************************************************)
(* Proofs of the safety properties of the main loop, for every frame time, *)
(* every bound on the clock and every number of window events.             *)
(***************************************************************************)
EXTENDS Emulator, TLAPS

\* Only a refresh that has been decided sees a clock behind last_refresh.
GapOK == at \notin {"poll", "flip"} => gap \in 0 .. Cap

\* What main has done on the way to each place.
Path ==
    /\ at = "args" => arrived = 0 /\ ~ ticked /\ ~ terminated
    /\ at # "exited" => destroyed = 0
    /\ at \in {"dump", "destroy"} => terminated
    /\ at = "dump" => ~ quiet
    /\ at = "destroy" => (dumped <=> ~ quiet)
    /\ at \notin {"destroy", "exited"} => ~ dumped

IInv == TypeOK /\ GapOK /\ FrameFresh /\ EventsHandled /\ Path /\ CleanExit

USE TimeAssumption, BoundAssumption

LEMMA InitIInv == Init => IInv
<1> SUFFICES ASSUME Init PROVE IInv
  OBVIOUS
<1>1. <<>> \in Seq(Event) /\ Len(<<>>) = 0
  OBVIOUS
<1>2. TypeOK
  <2>1. /\ graphics \in BOOLEAN /\ quiet \in BOOLEAN /\ terminated \in BOOLEAN
        /\ ticked \in BOOLEAN /\ dumped \in BOOLEAN
    BY DEF Init
  <2>2. gap \in Distance /\ lag \in Distance
    BY DEF Init, Distance
  <2>3. /\ queue \in Seq(Event) /\ arrived = 0 /\ Len(queue) = 0
        /\ due = 0 /\ jumps = 0 /\ destroyed = 0
    BY <1>1 DEF Init
  <2>4. at = "args" /\ exit = "none"
    BY DEF Init
  <2>5. QED
    BY <2>1, <2>2, <2>3, <2>4 DEF TypeOK
<1>3. GapOK /\ FrameFresh /\ Path /\ CleanExit
  BY DEF Init, GapOK, FrameFresh, Path, CleanExit
<1>4. EventsHandled
  BY <1>1 DEF Init, EventsHandled, Handled
<1>5. QED
  BY <1>2, <1>3, <1>4 DEF IInv

\* The two distances stay within the bounds when the times are compared.
LEMMA CompareBounded ==
    ASSUME TypeOK, GapOK, at = "refresh"
    PROVE  Cut(gap + lag) \in Distance
  BY DEF TypeOK, GapOK, Distance, Cut

\* Taking the first event off the queue.
LEMMA TailShorter ==
    ASSUME TypeOK, queue # <<>>
    PROVE  /\ Tail(queue) \in Seq(Event)
           /\ Len(Tail(queue)) = Len(queue) - 1
           /\ Len(queue) > 0
  BY DEF TypeOK

LEMMA NextIInv == IInv /\ [Next]_vars => IInv'
<1> SUFFICES ASSUME IInv, [Next]_vars PROVE IInv'
  OBVIOUS
<1> USE DEF machine, time, events, history, outcome
<1>1. CASE RejectArgs
  BY <1>1 DEF RejectArgs, Goto, IInv, TypeOK, GapOK, FrameFresh, EventsHandled,
              Path, CleanExit, Handled, Distance
<1>2. CASE Initialise \/ Load \/ LoadUnopened \/ Fatal
  BY <1>2 DEF Initialise, Load, LoadUnopened, Fatal, Goto, IInv, TypeOK, GapOK,
              FrameFresh, EventsHandled, Path, CleanExit, Handled, Distance
<1>3. CASE LoopTest
  BY <1>3 DEF LoopTest, IInv, TypeOK, GapOK, FrameFresh, EventsHandled,
              Path, CleanExit, Handled, Distance
<1>4. CASE CpuTick \/ DebugCommand
  <2>1. /\ terminated' \in BOOLEAN /\ at \in {"cpu", "debug"}
        /\ at' \in {"refresh", "debug"}
        /\ UNCHANGED <<machine, time, events, history, outcome>>
    BY <1>4 DEF CpuTick, DebugCommand, Goto, IInv, TypeOK
  <2>2. TypeOK'
    BY <2>1 DEF IInv, TypeOK, Distance
  <2>3. GapOK' /\ FrameFresh' /\ EventsHandled' /\ Path' /\ CleanExit'
    BY <2>1 DEF IInv, GapOK, FrameFresh, EventsHandled, Path, CleanExit, Handled
  <2>4. QED
    BY <2>2, <2>3 DEF IInv
<1>5. CASE RefreshTest
  <2>1. Cut(gap + lag) \in Distance
    BY <1>5, CompareBounded DEF RefreshTest, Compare, IInv
  <2>2. TypeOK'
    <3>1. CASE graphics
      <4>1. gap' \in Distance /\ lag' \in Distance
        BY <1>5, <2>1, <3>1 DEF RefreshTest, Compare, Distance
      <4>2. at' \in {"poll", "loop"} /\ due' \in {due, arrived} /\ ticked' \in BOOLEAN
        BY <1>5, <3>1 DEF RefreshTest, Compare
      <4>3. UNCHANGED <<machine, terminated, jumps, events, outcome>> /\ at = "refresh"
        BY <1>5 DEF RefreshTest, Compare
      <4>4. QED
        BY <4>1, <4>2, <4>3 DEF IInv, TypeOK
    <3>2. CASE ~ graphics
      BY <1>5, <3>2 DEF RefreshTest, Compare, IInv, TypeOK
    <3>3. QED
      BY <3>1, <3>2
  <2>3. GapOK' /\ FrameFresh'
    BY <1>5, <2>1 DEF RefreshTest, Compare, Stale, IInv, TypeOK, GapOK, FrameFresh,
                      Distance
  <2>4. EventsHandled' /\ Path' /\ CleanExit'
    BY <1>5 DEF RefreshTest, Compare, IInv, TypeOK, EventsHandled, Path, CleanExit,
                Handled
  <2>5. QED
    BY <2>2, <2>3, <2>4 DEF IInv
<1>6. CASE Poll
  <2>1. /\ queue' \in Seq(Event) /\ Len(queue') <= Len(queue)
        /\ at' = "poll" \/ (at' = "flip" /\ Len(queue') = 0)
    BY <1>6, TailShorter DEF Poll, IInv, TypeOK
  <2>2. terminated' \in BOOLEAN
    BY <1>6 DEF Poll
  <2>3. /\ at = "poll" /\ exit' = exit /\ destroyed' = destroyed
        /\ dumped' = dumped /\ arrived' = arrived /\ due' = due
        /\ UNCHANGED <<machine, time, ticked>>
    BY <1>6 DEF Poll
  <2>4. TypeOK'
    BY <2>1, <2>2, <2>3 DEF IInv, TypeOK, Distance
  <2>5. GapOK' /\ FrameFresh' /\ CleanExit'
    BY <2>1 DEF GapOK, FrameFresh, CleanExit
  <2>6. Path' /\ EventsHandled'
    BY <2>1, <2>3 DEF IInv, TypeOK, Path, EventsHandled, Handled
  <2>7. QED
    BY <2>4, <2>5, <2>6 DEF IInv
<1>7. CASE Flip
  BY <1>7 DEF Flip, Goto, IInv, TypeOK, GapOK, FrameFresh, EventsHandled, Path,
              CleanExit, Handled, Distance
<1>8. CASE Dump
  <2>1. TypeOK'
    BY <1>8 DEF Dump, Goto, IInv, TypeOK, Distance
  <2>2. GapOK' /\ FrameFresh' /\ EventsHandled'
    BY <1>8 DEF Dump, Goto, IInv, GapOK, FrameFresh, EventsHandled, Handled
  <2>3. CleanExit'
    BY <1>8 DEF Dump, Goto, CleanExit
  <2>4. Path'
    BY <1>8 DEF Dump, Goto, IInv, Path
  <2>5. QED
    BY <2>1, <2>2, <2>3, <2>4 DEF IInv
<1>9. CASE Destroy
  BY <1>9 DEF Destroy, IInv, TypeOK, GapOK, FrameFresh, EventsHandled, Path,
              CleanExit, Handled, Distance
<1>10. CASE ClockForward \/ ClockBack
  <2>1. /\ lag' \in Distance /\ jumps' \in 0 .. MaxJumps
        /\ UNCHANGED <<at, machine, terminated, gap, events, history, outcome>>
    BY <1>10 DEF ClockForward, ClockBack, Cut, IInv, TypeOK, Distance
  <2>2. TypeOK'
    BY <2>1 DEF IInv, TypeOK, Distance
  <2>3. GapOK' /\ FrameFresh' /\ EventsHandled' /\ Path' /\ CleanExit'
    BY <2>1 DEF IInv, GapOK, FrameFresh, EventsHandled, Path, CleanExit, Handled
  <2>4. QED
    BY <2>2, <2>3 DEF IInv
<1>11. CASE QueueEvent
  <2>1. PICK e \in Event : queue' = Append(queue, e)
    BY <1>11 DEF QueueEvent
  <2>2. queue' \in Seq(Event) /\ Len(queue') = Len(queue) + 1
    BY <2>1 DEF IInv, TypeOK
  <2>3. QED
    BY <1>11, <2>2 DEF QueueEvent, Alive, IInv, TypeOK, GapOK, FrameFresh,
               EventsHandled, Path, CleanExit, Handled, Distance
<1>12. CASE UNCHANGED vars
  BY <1>12 DEF vars, IInv, TypeOK, GapOK, FrameFresh, EventsHandled, Path,
               CleanExit, Handled, Distance
<1>13. QED
  BY <1>1, <1>2, <1>3, <1>4, <1>5, <1>6, <1>7, <1>8, <1>9, <1>10, <1>11, <1>12
     DEF Next

LEMMA Invariance == Spec => []IInv
  BY InitIInv, NextIInv, PTL DEF Spec

\* The type invariant of the main loop: every distance in time stays within its
\* cut-off and emulator_destroy runs at most once.
THEOREM TypeCorrect == Spec => []TypeOK
<1>1. IInv => TypeOK
  BY DEF IInv
<1>2. QED
  BY <1>1, Invariance, PTL

\* emulator_tick never runs an instruction over a picture older than frame_time,
\* wherever the clock is set back to.
THEOREM PictureFresh == Spec => []FrameFresh
<1>1. IInv => FrameFresh
  BY DEF IInv
<1>2. QED
  BY <1>1, Invariance, PTL

\* fb_tick handles every event queued when its refresh was decided.
THEOREM EventsDrained == Spec => []EventsHandled
<1>1. IInv => EventsHandled
  BY DEF IInv
<1>2. QED
  BY <1>1, Invariance, PTL

\* main releases once, reports success only after a stop, and dumps only then.
THEOREM ExitClean == Spec => []CleanExit
<1>1. IInv => CleanExit
  BY DEF IInv
<1>2. QED
  BY <1>1, Invariance, PTL
=============================================================================
