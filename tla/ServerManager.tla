--------------------------- MODULE ServerManager ---------------------------
(* The INDIGO server manager: a window that starts and stops one           *)
(* indigo_server process (indigo_server_manager_src/IndigoManagerWindow).  *)
(*                                                                         *)
(* Everything in the window runs on the GUI thread, yet handlers nest:     *)
(* startStopServer() and closeEvent() call QApplication::processEvents(),  *)
(* which may run any handler before it returns.  "frames" is that call     *)
(* stack.  The operating system's process changes on its own ("os"); what  *)
(* QProcess knows of it ("state") follows when Qt delivers the notice.     *)
EXTENDS Naturals, SequencesExt

CONSTANT MaxDepth   \* bound: handlers nested in one another

ASSUME ManagerAssumption == MaxDepth \in Nat \ {0}

VARIABLES
    serverRunning,  \* the window's own flag
    text,           \* startStopButton
    controls,       \* are the option widgets enabled?
    help,           \* is helpButton enabled?
    led,            \* statusIconLabel
    state,          \* indigoServer->state()
    os,             \* the process itself
    asked,          \* it was sent SIGTERM
    killed,         \* it was sent SIGKILL
    late,           \* waitForStarted(1000) gave up on it
    frames,         \* the handlers under way, the innermost last
    result,         \* what stopServerGracefully() returned last
    phase,          \* of the window
    located         \* serverExecutablePath is not empty

window  == <<serverRunning, text, controls, help, led>>
process == <<state, os, asked, killed, late>>
vars == <<window, process, frames, result, phase, located>>

Handlers == [fn : {"start"}, at : {"start"}]
       \cup [fn : {"stop"}, at : {"events", "wait", "after"}]
       \cup [fn : {"close"},
             at : {"question", "events", "wait", "after", "kill", "last"}]
       \cup [fn : {"destroy"}, at : {"wait", "after"}]

Init ==
    /\ serverRunning = FALSE /\ text = "Start" /\ controls = TRUE
    /\ help = TRUE /\ led = "grey"
    /\ state = "NotRunning" /\ os = "absent" /\ asked = FALSE /\ killed = FALSE
    /\ late = FALSE
    /\ frames = <<>> /\ result = TRUE /\ phase = "open"
    /\ located \in BOOLEAN

---------------------------------------------------------------------------
(* Where the GUI thread is. *)

InnermostAt(fn, ats) ==
    frames # <<>> /\ Last(frames).fn = fn /\ Last(frames).at \in ats

InnermostSteps(ats) == frames # <<>> /\ Last(frames).at \in ats

Call(fn, at) == frames' = Append(frames, [fn |-> fn, at |-> at])
Goto(at)     == frames' = [frames EXCEPT ![Len(frames)].at = at]
Return       == frames' = Front(frames)

(* Qt takes the user's clicks in the main loop and in processEvents(). *)
Clickable ==
    /\ phase = "open"
    /\ frames = <<>> \/ InnermostSteps({"events", "last"})
    /\ Len(frames) < MaxDepth

(* Notices of the process are delivered under a modal question as well. *)
Delivering ==
    /\ phase # "ended"
    /\ frames = <<>> \/ InnermostSteps({"events", "last", "question"})

---------------------------------------------------------------------------
(* The process. *)

Exec == os = "forked" /\ os' \in {"alive", "failed"}

Exit == (os = "alive" \/ (os = "forked" /\ asked)) /\ os' = "dead"

ServerProcess ==
    /\ Exec \/ Exit
    /\ UNCHANGED <<window, state, asked, killed, late, frames, result, phase,
                   located>>

(* What handleProcessStateChanged() does to the window. *)

UpdateControlsState(running) == controls' = ~running /\ help' = ~running

(* Mutants: the handler forgets the flag; the LED. *)
FlagStays ==
    /\ serverRunning /\ text' = "Start" /\ controls' = TRUE /\ help' = TRUE
    /\ led' \in {"grey", "red"} /\ UNCHANGED serverRunning

NotRunningFlagStays == FlagStays \/ (~serverRunning /\ UNCHANGED window)

NotRunningLedStays ==
    IF serverRunning
    THEN /\ text' = "Start" /\ serverRunning' = FALSE
         /\ UpdateControlsState(FALSE) /\ UNCHANGED led
    ELSE UNCHANGED window

BecameNotRunning ==
    IF serverRunning
    THEN /\ text' = "Start" /\ serverRunning' = FALSE
         /\ UpdateControlsState(FALSE)
         /\ led' \in {"grey", "red"}
    ELSE UNCHANGED window

BecameRunning ==
    /\ led' = "green" /\ help' = FALSE
    /\ UNCHANGED <<serverRunning, text, controls>>

(* Qt learns that exec succeeded, that it failed, that the process ended. *)

LearnStarted ==
    /\ state = "Starting" /\ os \in {"alive", "dead"}
    /\ state' = "Running" /\ UNCHANGED os

LearnGone(known, was) ==
    /\ state = known /\ os = was
    /\ state' = "NotRunning" /\ os' = "absent"

LearnEnded == LearnGone("Running", "dead")
LearnFailed == LearnGone("Starting", "failed")

HandleProcessStateChanged ==
    /\ Delivering
    /\ \/ LearnStarted /\ BecameRunning
       \/ (LearnFailed \/ LearnEnded) /\ BecameNotRunning
    /\ UNCHANGED <<asked, killed, late, frames, result, phase, located>>

---------------------------------------------------------------------------
(* Starting: the first half of startStopServer(). *)

NotFound ==
    /\ led' = "red"
    /\ UNCHANGED <<serverRunning, text, controls, help, process, frames,
                   result, phase>>

(* QProcess::start() forks only when the process is not running; else it
   does nothing, and waitForStarted() answers for the process there is.    *)
BeginStart ==
    /\ Call("start", "start")
    /\ IF state = "NotRunning"
       THEN /\ state' = "Starting" /\ os' = "forked"
            /\ asked' = FALSE /\ killed' = FALSE /\ late' = FALSE
            /\ led' = "orange" /\ help' = FALSE
            /\ UNCHANGED <<serverRunning, text, controls>>
       ELSE UNCHANGED <<window, process>>
    /\ UNCHANGED <<result, phase>>

StartServer ==
    /\ Clickable /\ ~serverRunning
    /\ located' \in {located, TRUE}
    /\ IF located' THEN BeginStart ELSE NotFound

Started ==
    /\ LearnStarted \/ (state = "Running" /\ UNCHANGED <<state, os>>)
    /\ led' = "green" /\ text' = "Stop" /\ serverRunning' = TRUE
    /\ UpdateControlsState(TRUE)
    /\ UNCHANGED late

NotStarted ==
    /\ \/ LearnFailed /\ UNCHANGED late
       \/ /\ state = "Starting" /\ os = "forked"
          /\ late' = TRUE /\ UNCHANGED <<state, os>>
    /\ led' = "red"
    /\ UNCHANGED <<serverRunning, text, controls, help>>

StartReturns ==
    /\ InnermostAt("start", {"start"})
    /\ Started \/ NotStarted
    /\ Return
    /\ UNCHANGED <<asked, killed, result, phase, located>>

---------------------------------------------------------------------------
(* stopServerGracefully(), as the three callers run it. *)

(* terminate() reaches a process Qt knows of; waitForFinished() returns
   FALSE at once when it knows of none.                                    *)
Terminate ==
    IF state = "NotRunning"
    THEN result' = FALSE /\ Goto("after") /\ UNCHANGED asked
    ELSE Goto("wait") /\ asked' = TRUE /\ UNCHANGED result

EventsProcessed ==
    /\ InnermostSteps({"events"})
    /\ Terminate
    /\ UNCHANGED <<window, state, os, killed, late, phase, located>>

Finished ==
    /\ InnermostSteps({"wait"})
    /\ \/ LearnStarted /\ BecameRunning /\ UNCHANGED <<frames, result>>
       \/ LearnFailed /\ BecameNotRunning /\ result' = FALSE /\ Goto("after")
       \/ LearnEnded /\ BecameNotRunning /\ result' = TRUE /\ Goto("after")
    /\ UNCHANGED <<asked, killed, late, phase, located>>

(* Mutant: waitForFinished(-1). *)
WaitsForever == InnermostSteps({}) /\ UNCHANGED vars

TimedOut ==
    /\ InnermostSteps({"wait"}) /\ os \in {"forked", "alive"}
    /\ result' = FALSE /\ Goto("after")
    /\ UNCHANGED <<window, process, phase, located>>

(* Mutant: the result is not looked at. *)
NoKill == UNCHANGED killed

Kill == killed' = (killed \/ (~result /\ state # "NotRunning"))

---------------------------------------------------------------------------
(* Stopping: the second half of startStopServer(). *)

(* Mutant: the click asks first, as closing does. *)
StopServerAsking ==
    /\ Clickable /\ serverRunning
    /\ Call("stop", "question")
    /\ UNCHANGED <<window, process, result, phase, located>>

StopServer ==
    /\ Clickable /\ serverRunning
    /\ led' = "orange"
    /\ Call("stop", "events")
    /\ UNCHANGED <<serverRunning, text, controls, help, process, result,
                   phase, located>>

(* Mutant: the controls are left to the stateChanged handler. *)
StopReturnsControlsStay ==
    /\ InnermostAt("stop", {"after"})
    /\ Kill
    /\ led' = "grey" /\ text' = "Start" /\ serverRunning' = FALSE
    /\ Return
    /\ UNCHANGED <<controls, help, state, os, asked, late, result, phase,
                   located>>

StopReturns ==
    /\ InnermostAt("stop", {"after"})
    /\ Kill
    /\ led' = "grey" /\ text' = "Start" /\ serverRunning' = FALSE
    /\ UpdateControlsState(FALSE)
    /\ Return
    /\ UNCHANGED <<state, os, asked, late, result, phase, located>>

---------------------------------------------------------------------------
(* Closing the window: closeEvent() and then the destructor. *)

Closing == \E i \in DOMAIN frames : frames[i].fn = "close"

CloseEvent ==
    /\ Clickable /\ ~Closing
    /\ IF serverRunning
       THEN Call("close", "question") /\ UNCHANGED phase
       ELSE phase' = "closed" /\ UNCHANGED frames
    /\ UNCHANGED <<window, process, result, located>>

Answer ==
    /\ InnermostAt("close", {"question"})
    /\ \/ Return /\ UNCHANGED led                            \* Cancel
       \/ led' = "orange" /\ Goto("events")                  \* Ok
    /\ UNCHANGED <<serverRunning, text, controls, help, process, result,
                   phase, located>>

CloseKills ==
    /\ InnermostAt("close", {"after"})
    /\ IF result
       THEN Goto("last") /\ serverRunning' = FALSE
       ELSE Goto("kill") /\ UNCHANGED serverRunning
    /\ Kill
    /\ UNCHANGED <<text, controls, help, led, state, os, asked, late, result,
                   phase, located>>

(* waitForFinished(1000) sees the killed process end, or gives up. *)
CloseWaits ==
    /\ InnermostAt("close", {"kill"})
    /\ \/ LearnStarted /\ BecameRunning /\ UNCHANGED frames
       \/ LearnEnded /\ BecameNotRunning /\ UNCHANGED frames
       \/ /\ Goto("last") /\ serverRunning' = FALSE
          /\ UNCHANGED <<text, controls, help, led, state, os>>
    /\ UNCHANGED <<asked, killed, late, result, phase, located>>

CloseReturns ==
    /\ InnermostAt("close", {"last"})
    /\ Return /\ phase' = "closed"
    /\ UNCHANGED <<window, process, result, located>>

(* app.exec() returns once every handler has; main() destroys the window. *)
Destroy ==
    /\ phase = "closed" /\ frames = <<>>
    /\ IF state = "NotRunning"
       THEN phase' = "ended" /\ UNCHANGED <<asked, frames>>
       ELSE Call("destroy", "wait") /\ asked' = TRUE /\ UNCHANGED phase
    /\ UNCHANGED <<window, state, os, killed, late, result, located>>

(* ~QProcess kills what is left and waits for it. *)
DestroyReturns ==
    /\ InnermostAt("destroy", {"after"})
    /\ Return /\ phase' = "ended"
    /\ killed' = (killed \/ state # "NotRunning")
    /\ state' = "NotRunning" /\ os' = "absent"
    /\ UNCHANGED <<window, asked, late, result, located>>

---------------------------------------------------------------------------
ShowServerHelp ==
    /\ Clickable /\ help /\ ~serverRunning /\ ~located
    /\ led' = "red"
    /\ UNCHANGED <<serverRunning, text, controls, help, process, frames,
                   result, phase, located>>

Next ==
    \/ ServerProcess \/ HandleProcessStateChanged
    \/ StartServer \/ StartReturns \/ StopServer \/ StopReturns
    \/ EventsProcessed \/ Finished \/ TimedOut
    \/ CloseEvent \/ Answer \/ CloseKills \/ CloseWaits \/ CloseReturns
    \/ Destroy \/ DestroyReturns \/ ShowServerHelp

Spec == Init /\ [][Next]_vars

(* Blocking calls end: they time out.  processEvents() ends at every depth,
   whatever it ran meanwhile: it handles the events there are, and returns.
   A killed process dies and an exec ends one way or the other.  Nobody has
   to click, to answer the question or to stop for SIGTERM.                *)
Fairness ==
    /\ WF_vars(StartReturns) /\ WF_vars(Finished \/ TimedOut)
    /\ WF_vars(StopReturns) /\ WF_vars(CloseKills) /\ WF_vars(CloseWaits)
    /\ \A d \in 1..MaxDepth :
           SF_vars(Len(frames) = d /\ (EventsProcessed \/ CloseReturns))
    /\ WF_vars(Destroy) /\ WF_vars(DestroyReturns)
    /\ WF_vars(Exec /\ ServerProcess) /\ WF_vars(killed /\ ServerProcess)

FairSpec == Spec /\ Fairness

---------------------------------------------------------------------------
(* Types: the values of the window and of QProcess, and which handler can be
   suspended where; the window ends only when no handler is left.          *)
TypeOK ==
    /\ serverRunning \in BOOLEAN /\ text \in {"Start", "Stop"}
    /\ controls \in BOOLEAN /\ help \in BOOLEAN
    /\ led \in {"grey", "orange", "green", "red"}
    /\ state \in {"NotRunning", "Starting", "Running"}
    /\ os \in {"absent", "forked", "failed", "alive", "dead"}
    /\ asked \in BOOLEAN /\ killed \in BOOLEAN /\ late \in BOOLEAN
    /\ frames \in Seq(Handlers) /\ Len(frames) <= MaxDepth
    /\ result \in BOOLEAN /\ located \in BOOLEAN
    /\ phase \in {"open", "closed", "ended"}
    /\ phase = "ended" => frames = <<>>

(* The window believes in a running server only while QProcess does: no
   order of clicks, nested handlers and notices leaves serverRunning set for
   a process Qt has seen end, in which case the next click would "stop"
   nothing and closing would ask about a server that is gone.              *)
FlagMatchesProcess ==
    phase # "ended" /\ serverRunning => state = "Running"

(* The button and the option widgets follow the flag, however handlers are
   nested: no server runs while its options can be edited, none is missing
   while they cannot.  Only the end of closeEvent() clears the flag alone.
   The help button may stay disabled (after a start that fails), never
   enabled while a server runs.                                            *)
WindowMatchesFlag ==
    phase # "open" \/ Closing \/
    /\ text = IF serverRunning THEN "Stop" ELSE "Start"
    /\ controls = ~serverRunning
    /\ help => controls

(* A running server is known to the window: it can be stopped by the button,
   and closing asks about it.  The exceptions are one that was killed and one
   that starts after waitForStarted(1000) gave up, which runs while the
   button says "Start Server".                                             *)
RunningIsKnown == state = "Running" => serverRunning \/ killed \/ late

(* The green LED is lit only while QProcess runs the server, whatever of
   startStopServer(), the stateChanged handler and showServerHelp() set the
   LED last, until the window is being closed.  A server that started late
   leaves it lit: its end is not handled.                                  *)
GreenMeansRunning ==
    led = "green" /\ phase = "open" /\ ~Closing => state = "Running" \/ late

(* stopServerGracefully "Returns true if the server process exited within
   timeoutMs": whenever a caller goes on with FALSE, the process (one that
   was seen to start) must not have exited.                                *)
FalseMeansRunning ==
    InnermostSteps({"after"}) /\ ~result /\ ~late => os # "absent"

(* Stopping works: once "Stop Server" is clicked the process ends, even one
   that ignores SIGTERM and even if other handlers run meanwhile, unless a
   question about closing is left unanswered.                              *)
Stopping == \E i \in DOMAIN frames : frames[i].fn = "stop"
Questioning == InnermostSteps({"question"})
ServerStops == Stopping ~> (os \in {"absent", "dead", "failed"} \/ Questioning)

(* Closing works: once the window is closed the program ends, and then no
   server process is left behind.                                          *)
ClosingEnds == phase = "closed" ~> (phase = "ended" /\ os = "absent")
=============================================================================
