------------------------------ MODULE Emulator ------------------------------
(***************************************************************************)
(* The main loop: main of main.c, emulator_init, emulator_load and         *)
(* emulator_tick of emulator.c, the event loop of fb_tick, the ways        *)
(* cpu_tick can end a step, and the way out through emulator_fatal.        *)
(*                                                                         *)
(* Two actors run beside the program: the wall clock, which may be set     *)
(* back, and the window system, which queues events at any moment.         *)
(*                                                                         *)
(* Times are kept as distances: gap is the last sampled now minus          *)
(* last_refresh, lag is the clock minus that now, and both are cut off at  *)
(* Cap, above which the code cannot tell them apart.  A negative distance  *)
(* is a huge uint64_t.                                                     *)
(***************************************************************************)
EXTENDS Integers, Sequences

CONSTANTS
    FrameTime,  \* frame_time: 20 ms
    Cap,        \* bound: a distance in time of Cap or more counts as Cap
    Step,       \* how far the clock moves at a time
    MaxBack,    \* bound: how far behind now the clock may be set
    MaxJumps,   \* bound: how often it is set back
    MaxEvents   \* bound: the number of window events

ASSUME TimeAssumption ==
    /\ FrameTime \in Nat
    /\ Cap \in Nat /\ Cap > FrameTime
    /\ Step \in 1 .. Cap
    /\ MaxBack \in Nat
ASSUME BoundAssumption == MaxJumps \in Nat /\ MaxEvents \in Nat

VARIABLES
    at,          \* where main is
    graphics, quiet,
    terminated,  \* emu->terminated
    gap, lag,    \* now - last_refresh and the clock - now
    queue,       \* the events SDL holds
    jumps,
    arrived,     \* history: the number of events queued so far
    due,         \* history: the number of them queued when a refresh was decided
    ticked,      \* history: emulator_tick has compared the times
    exit,        \* the exit status, "none" before the exit
    dumped,      \* history: emulator_dump has run
    destroyed    \* history: how often emulator_destroy has run

machine == <<graphics, quiet>>
time == <<gap, lag, jumps>>
events == <<queue, arrived>>
history == <<due, ticked>>
outcome == <<exit, dumped, destroyed>>
vars == <<at, machine, terminated, time, events, history, outcome>>

Distance == -MaxBack .. Cap
Event == {"quit", "key"}
Handled == arrived - Len(queue)
Cut(distance) == IF distance > Cap THEN Cap ELSE distance

SignedStale(distance) == distance > FrameTime
\* (now - last_refresh) > frame_time, in unsigned arithmetic
Stale(distance) == distance < 0 \/ distance > FrameTime

Goto(from, to) == at = from /\ at' = to
-----------------------------------------------------------------------------
Init ==
    /\ at = "args"
    /\ graphics \in BOOLEAN /\ quiet \in BOOLEAN
    /\ terminated = FALSE
    /\ gap = Cap /\ lag = 0        \* last_refresh is 0, in 1970
    /\ queue = <<>> /\ arrived = 0 /\ due = 0 /\ ticked = FALSE
    /\ jumps = 0
    /\ exit = "none" /\ dumped = FALSE /\ destroyed = 0

\* cmdline_parse and cmdline_check: a rejected command line returns from main.
RejectArgs == /\ Goto("args", "exited")
              /\ exit' = "failure"
              /\ UNCHANGED <<machine, terminated, time, events, history, dumped, destroyed>>

\* emulator_init
Initialise == /\ Goto("args", "load")
              /\ UNCHANGED <<machine, terminated, time, events, history, outcome>>

\* emulator_load.  An image that cannot be read in full is only reported.
Load == /\ Goto("load", "loop")
        /\ UNCHANGED <<machine, terminated, time, events, history, outcome>>

\* An image that cannot be opened is reported too, and then fseek gets NULL.
LoadUnopened == /\ Goto("load", "crashed")
                /\ UNCHANGED <<machine, terminated, time, events, history, outcome>>

\* "Not enough memory for kernel", and every emulator_fatal of an instruction
\* or of a dump at the breakpoint: longjmp.
Fatal == /\ at \in {"load", "cpu", "debug"}
         /\ at' = "error"
         /\ UNCHANGED <<machine, terminated, time, events, history, outcome>>

\* emulator_is_running
QuietLeaks ==
    /\ at = "loop"
    /\ at' = IF ~ terminated THEN "cpu" ELSE IF quiet THEN "exited" ELSE "dump"
    /\ exit' = IF terminated /\ quiet THEN "success" ELSE exit
    /\ UNCHANGED <<machine, terminated, time, events, history, dumped, destroyed>>

LoopTest ==
    /\ at = "loop"
    /\ at' = IF ~ terminated THEN "cpu" ELSE IF quiet THEN "destroy" ELSE "dump"
    /\ UNCHANGED <<machine, terminated, time, events, history, outcome>>

\* cpu_tick: an instruction, the zero word, or a breakpoint.
CpuTick ==
    /\ \/ Goto("cpu", "refresh") /\ terminated' \in {terminated, TRUE}
       \/ Goto("cpu", "debug") /\ UNCHANGED terminated
    /\ UNCHANGED <<machine, time, events, history, outcome>>

\* A command of debug_break that leaves its loop: q, an unknown one, or EOF.
DebugCommand ==
    /\ Goto("debug", "refresh")
    /\ terminated' \in {terminated, TRUE}
    /\ UNCHANGED <<machine, time, events, history, outcome>>

\* The rest of emulator_tick: now is sampled and compared with last_refresh,
\* which `forgets' would move even when no frame is due.
Compare(forgets) ==
    /\ at = "refresh"
    /\ \/ /\ graphics
          /\ LET distance == IF gap = Cap THEN Cap ELSE Cut(gap + lag)
             IN  /\ at' = IF Stale(distance) THEN "poll" ELSE "loop"
                 /\ gap' = IF forgets /\ ~ Stale(distance) THEN 0 ELSE distance
                 /\ due' = IF Stale(distance) THEN arrived ELSE due
          /\ lag' = 0
          /\ ticked' = TRUE
       \/ /\ ~ graphics
          /\ at' = "loop"
          /\ UNCHANGED <<gap, lag, history>>
    /\ UNCHANGED <<machine, terminated, jumps, events, outcome>>

ForgetsRefresh == Compare(TRUE)
RefreshTest == Compare(FALSE)

\* fb_tick: SDL_PollEvent until there is no event.
PollOnce ==
    /\ at = "poll"
    /\ at' = "flip"
    /\ queue' = IF queue = <<>> THEN queue ELSE Tail(queue)
    /\ terminated' = (terminated \/ (queue # <<>> /\ Head(queue) = "quit"))
    /\ UNCHANGED <<machine, time, arrived, history, outcome>>

Poll ==
    /\ at = "poll"
    /\ at' = IF queue = <<>> THEN "flip" ELSE "poll"
    /\ queue' = IF queue = <<>> THEN queue ELSE Tail(queue)
    /\ terminated' = (terminated \/ (queue # <<>> /\ Head(queue) = "quit"))
    /\ UNCHANGED <<machine, time, arrived, history, outcome>>

\* The frame is shown and last_refresh becomes the now that was sampled.
Flip ==
    /\ Goto("flip", "loop")
    /\ gap' = 0
    /\ UNCHANGED <<machine, terminated, lag, jumps, events, history, outcome>>

Dump == /\ Goto("dump", "destroy")
        /\ dumped' = TRUE
        /\ UNCHANGED <<machine, terminated, time, events, history, exit, destroyed>>

\* emulator_destroy, at the end of main or where setjmp returns from a longjmp.
ErrorFallsThrough ==
    /\ at \in {"destroy", "error"}
    /\ at' = IF at = "error" THEN "args" ELSE "exited"
    /\ exit' = IF at = "error" THEN exit ELSE "success"
    /\ destroyed' = destroyed + 1
    /\ UNCHANGED <<machine, terminated, time, events, history, dumped>>

Destroy ==
    /\ at \in {"destroy", "error"}
    /\ at' = "exited"
    /\ exit' = IF at = "error" THEN "failure" ELSE "success"
    /\ destroyed' = destroyed + 1
    /\ UNCHANGED <<machine, terminated, time, events, history, dumped>>
-----------------------------------------------------------------------------
(* The environment *)

Alive == at \notin {"args", "exited", "crashed"}

ClockForward ==
    /\ Alive
    /\ lag' = Cut(lag + Step)
    /\ UNCHANGED <<at, machine, terminated, gap, jumps, events, history, outcome>>

\* The clock is set back.  A distance cut off at Cap may be any distance above.
ClockBack ==
    /\ Alive /\ jumps < MaxJumps
    /\ jumps' = jumps + 1
    /\ \/ lag' \in -MaxBack .. lag - 1
       \/ lag = Cap /\ lag' = Cap
    /\ UNCHANGED <<at, machine, terminated, gap, events, history, outcome>>

QueueEvent ==
    /\ Alive /\ graphics /\ arrived < MaxEvents
    /\ \E e \in Event : queue' = Append(queue, e)
    /\ arrived' = arrived + 1
    /\ UNCHANGED <<at, machine, terminated, time, history, outcome>>
-----------------------------------------------------------------------------
\* Every step of the program but those that wait at the debugger's prompt.
Program == \/ RejectArgs \/ Initialise \/ Load \/ LoadUnopened
           \/ (Fatal /\ at # "debug") \/ LoopTest \/ CpuTick \/ RefreshTest
           \/ Poll \/ Flip \/ Dump \/ Destroy

Next == \/ RejectArgs \/ Initialise \/ Load \/ LoadUnopened
        \/ Fatal \/ LoopTest \/ CpuTick \/ DebugCommand \/ RefreshTest
        \/ Poll \/ Flip \/ Dump \/ Destroy
        \/ ClockForward \/ ClockBack \/ QueueEvent

Spec == Init /\ [][Next]_vars /\ WF_vars(Program) /\ WF_vars(ClockForward)
-----------------------------------------------------------------------------
TypeOK ==
    /\ at \in {"args", "load", "loop", "cpu", "debug", "refresh", "poll", "flip",
               "dump", "destroy", "error", "exited", "crashed"}
    /\ graphics \in BOOLEAN /\ quiet \in BOOLEAN /\ terminated \in BOOLEAN
    /\ gap \in Distance /\ lag \in Distance /\ ticked \in BOOLEAN
    /\ queue \in Seq(Event) /\ arrived \in 0 .. MaxEvents /\ Len(queue) <= arrived
    /\ due \in 0 .. arrived /\ jumps \in 0 .. MaxJumps
    /\ (exit = "none" <=> at # "exited")
    /\ exit \in {"none", "success", "failure"}
    /\ dumped \in BOOLEAN /\ destroyed \in 0 .. 1
-----------------------------------------------------------------------------
\* The picture is never older than frame_time when an instruction runs, counted
\* at the clock the loop read last, though the clock may have been set back in
\* between: the unsigned difference of emulator.c:117 makes a clock behind
\* last_refresh refresh at once.
FrameFresh ==
    graphics /\ ticked /\ at \notin {"poll", "flip"} => gap \in 0 .. FrameTime

\* Every event that was queued when a refresh was decided has been handled before
\* the next instruction, however many there are: the loop of framebuffer.c:203.
EventsHandled == at # "poll" => Handled >= due

\* What main leaves behind.  Success means a program that stopped, its memory
\* released once, and a dump unless --quiet; a failure releases once or, before
\* emulator_init, not at all, and never follows a dump.
CleanExit ==
    at = "exited" => \/ /\ exit = "success" /\ terminated /\ destroyed = 1
                        /\ (dumped <=> ~ quiet)
                     \/ /\ exit = "failure" /\ ~ dumped
                        /\ destroyed = 0 => arrived = 0 /\ ~ ticked /\ ~ terminated

\* A quit that the window system queued stops the emulator, unless it crashes or
\* sits at the prompt of the debugger, where nobody reads events.
QuitStops ==
    (\E i \in DOMAIN queue : queue[i] = "quit")
        ~> at \in {"exited", "crashed", "debug"}

\* emulator.c:111: "we execute a screen refresh after 34ms has passed (30 frames
\* per second)".
RefreshAfter34 == [][at = "refresh" /\ at' = "poll" => gap' > 34 \/ gap' < 0]_vars
=============================================================================
