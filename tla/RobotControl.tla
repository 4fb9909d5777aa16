---------------------------- MODULE RobotControl ----------------------------
(***************************************************************************)
(* Who moves the arm of Robot2DOF: the window's thread, which steps the     *)
(* joints while flag_impl is 2, or the thread it starts for the G-code      *)
(* program while flag_impl is 1.  Each load and store of the two atomics is *)
(* a step, except that the window's thread tests flag_impl for 2 and clears *)
(* it after the move in one (Manual).  Positions and speeds are left out: a *)
(* move takes any time.                                                     *)
(***************************************************************************)
EXTENDS Integers, Sequences

CONSTANTS
    Program,    \* the commands of the file: "known" or "unknown" ones
    MaxKeys     \* bound: keys pressed

\* A file has any number of commands; keys is counted up to its bound.
RobotAssumption == Program \in Seq({"known", "unknown"}) /\ MaxKeys \in Nat

VARIABLES
    flag_impl,      \* 0: nothing, 1: G-code, 2: manual
    thread_done,
    sim_enabled,
    ui,             \* where the window's thread is
    exec,           \* where the program's thread is; "none" before the first
    joinable,       \* execThread.joinable()
    command,        \* index of the command that is executed
    keys,           \* keys pressed so far
    asked,          \* history: a program was asked for since the last one began
    unasked,        \* history: a program began without that
    terminated      \* execThread was overwritten while joinable: std::terminate

uiVars   == <<sim_enabled, ui, joinable, keys>>
execVars == <<exec, command>>
robotVars == <<flag_impl, thread_done, sim_enabled, ui, exec, joinable, command, keys,
          asked, unasked, terminated>>

RobotTypeOK ==
    /\ flag_impl \in 0..2
    /\ thread_done \in BOOLEAN /\ sim_enabled \in BOOLEAN /\ joinable \in BOOLEAN
    /\ ui \in {"manual", "start", "ready", "join", "clear", "spawn", "events", "closing",
               "exited"}
    /\ exec \in {"none", "parse", "check", "move", "finish", "load", "store", "ended"}
    /\ command \in 0..Len(Program) + 1
    /\ keys \in 0..MaxKeys

\* The program starts with the window: flag_impl is 1.
RobotInit ==
    /\ flag_impl = 1
    /\ thread_done = TRUE
    /\ sim_enabled = FALSE
    /\ ui = "manual"
    /\ exec = "none"
    /\ joinable = FALSE
    /\ command = 0
    /\ keys = 0
    /\ asked = TRUE
    /\ unasked = FALSE
    /\ terminated = FALSE

-----------------------------------------------------------------------------
(* The window's thread *)

\* A step towards the manual target, which may be the last one.
Manual(reached) ==
    /\ ui = "manual"
    /\ ui' = "start"
    /\ flag_impl' = IF sim_enabled /\ flag_impl = 2 /\ reached THEN 0 ELSE flag_impl
    /\ UNCHANGED <<thread_done, sim_enabled, joinable, keys, execVars, asked, unasked,
                   terminated>>

\* flag_impl.load() == 1
Start ==
    /\ ui = "start"
    /\ ui' = IF flag_impl = 1 THEN "ready" ELSE "events"
    /\ UNCHANGED <<flag_impl, thread_done, sim_enabled, joinable, keys, execVars, asked,
                   unasked, terminated>>

\* && thread_done.load()
Ready ==
    /\ ui = "ready"
    /\ ui' = IF thread_done THEN "join" ELSE "events"
    /\ UNCHANGED <<flag_impl, thread_done, sim_enabled, joinable, keys, execVars, asked,
                   unasked, terminated>>

\* Mutant of Join: it does not wait for the thread that has said it is done.
Join_Skipped ==
    /\ ui = "join"
    /\ ui' = "clear"
    /\ UNCHANGED <<flag_impl, thread_done, sim_enabled, joinable, keys, execVars, asked,
                   unasked, terminated>>

Join ==
    /\ ui = "join"
    /\ joinable => exec = "ended"
    /\ joinable' = FALSE
    /\ ui' = "clear"
    /\ UNCHANGED <<flag_impl, thread_done, sim_enabled, keys, execVars, asked, unasked,
                   terminated>>

Clear ==
    /\ ui = "clear"
    /\ thread_done' = FALSE
    /\ ui' = "spawn"
    /\ UNCHANGED <<flag_impl, sim_enabled, joinable, keys, execVars, asked, unasked,
                   terminated>>

Spawn ==
    /\ ui = "spawn"
    /\ terminated' = (terminated \/ joinable)
    /\ joinable' = TRUE
    /\ exec' = "parse"
    /\ command' = 0
    /\ ui' = "events"
    /\ UNCHANGED <<flag_impl, thread_done, sim_enabled, keys, asked, unasked>>

\* PollEvents: keys G, I and S, and closing the window.
Key(flag, sim, wanted) ==
    /\ ui = "events"
    /\ keys < MaxKeys
    /\ keys' = keys + 1
    /\ flag_impl' = flag
    /\ sim_enabled' = sim
    /\ asked' = wanted
    /\ UNCHANGED <<thread_done, ui, joinable, execVars, unasked, terminated>>

KeyG == Key(1, sim_enabled, TRUE)
KeyI == Key(2, sim_enabled, asked)
KeyS == Key(flag_impl, ~sim_enabled, asked)

NextFrame(at) ==
    /\ ui = "events"
    /\ ui' = at
    /\ UNCHANGED <<flag_impl, thread_done, sim_enabled, joinable, keys, execVars, asked,
                   unasked, terminated>>

\* After the loop main waits for the program's thread.
Close ==
    /\ ui = "closing"
    /\ joinable => exec = "ended"
    /\ joinable' = FALSE
    /\ ui' = "exited"
    /\ UNCHANGED <<flag_impl, thread_done, sim_enabled, keys, execVars, asked, unasked,
                   terminated>>

-----------------------------------------------------------------------------
(* The program's thread *)

Parse ==
    /\ exec = "parse"
    /\ exec' = "check"
    /\ command' = 1
    /\ UNCHANGED <<flag_impl, thread_done, uiVars, asked, unasked, terminated>>

\* Mutant of Check: the flag is looked at after the first command only.
Check_Late ==
    /\ exec = "check"
    /\ exec' = IF command > Len(Program) \/ (command > 1 /\ flag_impl # 1) THEN "finish"
               ELSE "move"
    /\ unasked' = (unasked \/ (command = 1 /\ exec' = "move" /\ ~asked))
    /\ asked' = (asked /\ ~(command = 1 /\ exec' = "move"))
    /\ UNCHANGED <<flag_impl, thread_done, uiVars, command, terminated>>

\* The head of ExecuteGCodeStep's loop: the end of the program, a flag that is
\* not 1 any more and an unknown command end it.
Check ==
    /\ exec = "check"
    /\ exec' = IF command > Len(Program) \/ flag_impl # 1 \/ Program[command] = "unknown"
               THEN "finish" ELSE "move"
    /\ unasked' = (unasked \/ (command = 1 /\ exec' = "move" /\ ~asked))
    /\ asked' = (asked /\ ~(command = 1 /\ exec' = "move"))
    /\ UNCHANGED <<flag_impl, thread_done, uiVars, command, terminated>>

\* The command ends.  moveLinear, the arcs and dwell also return when the flag
\* is not 1 any more, moveLinearSmooth does not look at it; G90, G91 and G92
\* only change what later positions mean.
Move ==
    /\ exec = "move"
    /\ exec' = "check"
    /\ command' = command + 1
    /\ UNCHANGED <<flag_impl, thread_done, uiVars, asked, unasked, terminated>>

SetDone ==
    /\ exec = "finish"
    /\ exec' = "load"
    /\ thread_done' = TRUE
    /\ UNCHANGED <<flag_impl, uiVars, command, asked, unasked, terminated>>

\* if (flag_impl.load() == 1)
LoadFlag ==
    /\ exec = "load"
    /\ exec' = IF flag_impl = 1 THEN "store" ELSE "ended"
    /\ UNCHANGED <<flag_impl, thread_done, uiVars, command, asked, unasked, terminated>>

\* flag_impl.store(0), whatever was pressed since the load.
StoreFlag ==
    /\ exec = "store"
    /\ exec' = "ended"
    /\ flag_impl' = 0
    /\ UNCHANGED <<thread_done, uiVars, command, asked, unasked, terminated>>

RobotNext ==
    \/ \E reached \in BOOLEAN : Manual(reached)
    \/ Start \/ Ready \/ Join \/ Clear \/ Spawn
    \/ KeyG \/ KeyI \/ KeyS
    \/ \E at \in {"manual", "closing"} : NextFrame(at)
    \/ Close
    \/ Parse \/ Check \/ Move \/ SetDone \/ LoadFlag \/ StoreFlag

RobotSpec == RobotInit /\ [][RobotNext]_robotVars

-----------------------------------------------------------------------------
(* Properties *)

\* The program does not run a second time because flag_impl is still 1 when
\* thread_done is already true: the window's thread starts a thread then, but
\* joins the old one first, and the new one finds 0.
RobotRunsOnlyWhenAsked == ~unasked

\* execThread is never overwritten while it is joinable.
NeverTerminated == ~terminated

\* A thread that has ended has been seen to: thread_done is true unless the
\* window's thread is about to start the next one.  Otherwise G would do
\* nothing for ever after.
EndIsKnown == (exec \in {"none", "ended"} /\ ui # "spawn") => thread_done

\* execThread is joined before it is assigned again, and the end of a program's
\* thread does not go unnoticed.
RobotThreadsSound == RobotTypeOK /\ NeverTerminated /\ EndIsKnown

=============================================================================
