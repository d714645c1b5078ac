------------------------ MODULE ServerManagerProofs ------------------------
(* Proofs about the server manager: the stack of suspended handlers first, *)
(* then what a suspended handler may still rely on when it goes on, and    *)
(* from both that the window agrees with the process.                      *)
EXTENDS ServerManager, TLAPS

---------------------------------------------------------------------------
(* The stack of handlers.  How its next value relates to this one.         *)

Grows(fn, at) ==
    /\ Len(frames') = Len(frames) + 1
    /\ frames'[Len(frames')].fn = fn /\ frames'[Len(frames')].at = at
    /\ \A i \in 1..Len(frames) : frames'[i] = frames[i]

Shrinks ==
    /\ Len(frames') = Len(frames) - 1
    /\ \A i \in 1..Len(frames') : frames'[i] = frames[i]

Moves(at) ==
    /\ Len(frames') = Len(frames)
    /\ frames'[Len(frames)].fn = frames[Len(frames)].fn
    /\ frames'[Len(frames)].at = at
    /\ \A i \in 1..(Len(frames) - 1) : frames'[i] = frames[i]

(* A call puts one handler on top and leaves those below as they are.      *)
LEMMA Called ==
  ASSUME NEW fn, NEW at, [fn |-> fn, at |-> at] \in Handlers,
         frames \in Seq(Handlers), Call(fn, at)
  PROVE  frames' \in Seq(Handlers) /\ Grows(fn, at)
BY DEF Call, Grows

(* The first elements of a sequence.                                       *)
LEMMA Shorter ==
  ASSUME NEW S, NEW s \in Seq(S), NEW n \in Nat, n < Len(s)
  PROVE  /\ SubSeq(s, 1, n) \in Seq(S) /\ Len(SubSeq(s, 1, n)) = n
         /\ \A i \in 1..n : SubSeq(s, 1, n)[i] = s[i]
OBVIOUS

(* A return takes one handler off.                                         *)
LEMMA Returned ==
  ASSUME frames \in Seq(Handlers), frames # <<>>, Return
  PROVE  frames' \in Seq(Handlers) /\ Shrinks
<1> DEFINE n == Len(frames) - 1
<1>1. n \in Nat /\ n < Len(frames)
  OBVIOUS
<1>2. frames' = SubSeq(frames, 1, n)
  BY DEF Return, Front
<1> HIDE DEF n
<1>3. /\ frames' \in Seq(Handlers) /\ Len(frames') = n
      /\ \A i \in 1..n : frames'[i] = frames[i]
  BY <1>1, <1>2, Shorter
<1>4. QED
  BY <1>3 DEF Shrinks, n

(* A handler that goes on stays the handler it was.                        *)
LEMMA Went ==
  ASSUME NEW at, frames \in Seq(Handlers), frames # <<>>, Goto(at),
         [fn |-> frames[Len(frames)].fn, at |-> at] \in Handlers
  PROVE  frames' \in Seq(Handlers) /\ Moves(at)
<1> DEFINE n == Len(frames)
           top == [frames[n] EXCEPT !.at = at]
<1>1. n \in Nat /\ n >= 1
  OBVIOUS
<1>2. frames[n] \in Handlers
  BY <1>1
<1>3. frames[n] = [fn |-> frames[n].fn, at |-> frames[n].at]
  BY <1>2 DEF Handlers
<1>4. top = [fn |-> frames[n].fn, at |-> at]
  BY <1>3
<1>5. frames' = [frames EXCEPT ![n] = top]
  BY DEF Goto
<1>6. top \in Handlers
  BY <1>4
<1> HIDE DEF top
<1>7. frames' \in Seq(Handlers) /\ Len(frames') = n /\ frames'[n] = top
      /\ \A i \in 1..(n - 1) : frames'[i] = frames[i]
  BY <1>1, <1>5, <1>6
<1>8. top.fn = frames[n].fn /\ top.at = at
  BY <1>4
<1>9. QED
  BY <1>1, <1>7, <1>8 DEF Moves

(* Where a handler can be.                                                 *)
LEMMA Places ==
  ASSUME NEW x \in Handlers
  PROVE  /\ x.at \in {"events", "wait", "after"} => x.fn \in {"stop", "close", "destroy"}
         /\ x.at \in {"question", "kill", "last"} => x.fn = "close"
         /\ x.at = "events" => x.fn # "destroy"
         /\ x.fn \in {"stop", "close", "destroy"}
            => \A at \in {"wait", "after"} : [fn |-> x.fn, at |-> at] \in Handlers
         /\ x.fn = "close"
            => \A at \in {"events", "kill", "last"} : [fn |-> x.fn, at |-> at] \in Handlers
BY DEF Handlers

---------------------------------------------------------------------------
(* A handler that is suspended under another is handling events or about   *)
(* to close the window, and nothing runs beside the destructor.            *)
StackInv ==
    \A i \in 1..Len(frames) :
      /\ i < Len(frames) => frames[i].at \in {"events", "last"}
      /\ frames[i].fn = "destroy" => phase = "closed" /\ Len(frames) = 1

(* The two parts of TypeOK.                                                *)
Stack ==
    /\ frames \in Seq(Handlers) /\ Len(frames) <= MaxDepth
    /\ phase \in {"open", "closed", "ended"}
    /\ phase = "ended" => frames = <<>>

Values ==
    /\ serverRunning \in BOOLEAN /\ text \in {"Start", "Stop"}
    /\ controls \in BOOLEAN /\ help \in BOOLEAN
    /\ led \in {"grey", "orange", "green", "red"}
    /\ state \in {"NotRunning", "Starting", "Running"}
    /\ os \in {"absent", "forked", "failed", "alive", "dead"}
    /\ asked \in BOOLEAN /\ killed \in BOOLEAN /\ late \in BOOLEAN
    /\ result \in BOOLEAN /\ located \in BOOLEAN

LEMMA Parts == TypeOK <=> Values /\ Stack
BY DEF TypeOK, Values, Stack

(* What the stack may do without breaking its invariant: stay, ...         *)
LEMMA Stays ==
  ASSUME Stack, StackInv, UNCHANGED frames, phase' \in {"open", "closed", "ended"},
         phase' = phase \/ phase = "open" \/ frames = <<>>,
         phase' = "ended" => frames = <<>>
  PROVE  Stack' /\ StackInv'
BY DEF Stack, StackInv

(* ... be called from an empty stack or from where events are handled, ... *)
LEMMA Call1 ==
  ASSUME Stack, StackInv, UNCHANGED phase, NEW fn, NEW at,
         [fn |-> fn, at |-> at] \in Handlers, Call(fn, at),
         \/ Clickable /\ fn # "destroy"
         \/ phase = "closed" /\ frames = <<>>
  PROVE  Stack' /\ StackInv'
<1>1. frames' \in Seq(Handlers) /\ Grows(fn, at)
  BY Called DEF Stack
<1>2. CASE Clickable /\ fn # "destroy"
  <2>1. /\ phase = "open" /\ Len(frames) < MaxDepth
        /\ frames # <<>> => frames[Len(frames)].at \in {"events", "last"}
    BY <1>2 DEF Clickable, InnermostSteps, Last
  <2>2. \A i \in 1..Len(frames) : frames[i].fn # "destroy"
    BY <2>1 DEF StackInv
  <2>3. Len(frames) \in Nat
    BY DEF Stack
  <2>4. Stack'
    BY <1>1, <2>1, <2>3, ManagerAssumption DEF Stack, Grows
  <2>5. ASSUME NEW i \in 1..Len(frames')
        PROVE  /\ i < Len(frames') => frames'[i].at \in {"events", "last"}
               /\ frames'[i].fn # "destroy"
    <3>1. CASE i = Len(frames')
      BY <3>1, <1>1, <1>2, <2>3 DEF Grows
    <3>2. CASE i # Len(frames')
      <4>1. i \in 1..Len(frames) /\ frames'[i] = frames[i]
        BY <3>2, <1>1, <2>3 DEF Grows
      <4>2. i < Len(frames) => frames[i].at \in {"events", "last"}
        BY <4>1 DEF StackInv
      <4>3. i = Len(frames) => frames[i].at \in {"events", "last"}
        BY <4>1, <2>1, <2>3
      <4>4. QED
        BY <4>1, <4>2, <4>3, <2>2, <2>3
    <3>3. QED
      BY <3>1, <3>2
  <2>6. QED
    BY <2>4, <2>5 DEF StackInv
<1>3. CASE phase = "closed" /\ frames = <<>>
  <2>1. Len(frames') = 1
    BY <1>1, <1>3 DEF Grows
  <2>2. Stack'
    BY <1>1, <1>3, <2>1, ManagerAssumption DEF Stack
  <2>3. QED
    BY <1>3, <2>1, <2>2 DEF StackInv
<1>4. QED
  BY <1>2, <1>3

(* ... return, ...                                                         *)
LEMMA Return1 ==
  ASSUME Stack, StackInv, frames # <<>>, Return,
         phase' = phase \/ phase' = "closed"
         \/ (phase' = "ended" /\ frames[Len(frames)].fn = "destroy")
  PROVE  Stack' /\ StackInv' /\ Shrinks
<1>1. frames' \in Seq(Handlers) /\ Shrinks
  BY Returned DEF Stack
<1>2. Len(frames) \in Nat /\ Len(frames) >= 1 /\ Len(frames') = Len(frames) - 1
  BY <1>1 DEF Stack, Shrinks
<1>3. phase' = "ended" => frames' = <<>>
  <2>1. phase # "ended"
    BY DEF Stack
  <2>2. ASSUME frames[Len(frames)].fn = "destroy" PROVE Len(frames) = 1
    BY <1>2, <2>2 DEF StackInv
  <2>3. ASSUME phase' = "ended" PROVE Len(frames') = 0
    BY <2>1, <2>2, <2>3, <1>2
  <2>4. QED
    BY <2>3, <1>1
<1>4. Stack'
  BY <1>1, <1>2, <1>3, ManagerAssumption DEF Stack
<1>5. ASSUME NEW i \in 1..Len(frames')
      PROVE  frames'[i].at \in {"events", "last"} /\ frames'[i].fn # "destroy"
  <2>1. i \in 1..Len(frames) /\ i < Len(frames) /\ frames'[i] = frames[i]
    BY <1>1, <1>2 DEF Shrinks
  <2>2. frames[i].fn = "destroy" => Len(frames) = 1
    BY <2>1 DEF StackInv
  <2>3. QED
    BY <2>1, <2>2, <1>2 DEF StackInv
<1>6. QED
  BY <1>1, <1>4, <1>5 DEF StackInv

(* ... or go on.                                                           *)
LEMMA Goto1 ==
  ASSUME Stack, StackInv, UNCHANGED phase, frames # <<>>, NEW at, Goto(at),
         [fn |-> frames[Len(frames)].fn, at |-> at] \in Handlers
  PROVE  Stack' /\ StackInv' /\ Moves(at)
<1>1. frames' \in Seq(Handlers) /\ Moves(at)
  BY Went DEF Stack
<1>2. Len(frames) \in Nat /\ Len(frames) >= 1 /\ Len(frames') = Len(frames)
  BY <1>1 DEF Stack, Moves
<1>3. Stack'
  BY <1>1, <1>2, ManagerAssumption DEF Stack
<1>4. ASSUME NEW i \in 1..Len(frames')
      PROVE  /\ i < Len(frames') => frames'[i].at \in {"events", "last"}
             /\ frames'[i].fn = frames[i].fn
  <2>1. CASE i = Len(frames)
    BY <2>1, <1>1, <1>2 DEF Moves
  <2>2. CASE i # Len(frames)
    BY <2>2, <1>1, <1>2 DEF Moves, StackInv
  <2>3. QED
    BY <2>1, <2>2
<1>5. QED
  BY <1>1, <1>2, <1>3, <1>4 DEF StackInv

(* Where the innermost handler can go from where it is.                    *)
LEMMA Onward ==
  ASSUME Stack, frames # <<>>
  PROVE  LET top == frames[Len(frames)]
             may(at) == [fn |-> top.fn, at |-> at] \in Handlers
         IN /\ top \in Handlers
            /\ top.at \in {"events", "wait"} => may("wait") /\ may("after")
            /\ top.fn = "close" => may("events") /\ may("kill") /\ may("last")
<1>1. frames[Len(frames)] \in Handlers
  BY DEF Stack
<1>2. QED
  BY <1>1, Places

(* The top of the stack, as the guards see it.                             *)
LEMMA AtTop ==
  ASSUME NEW ats
  PROVE  /\ InnermostSteps(ats) <=> frames # <<>> /\ frames[Len(frames)].at \in ats
         /\ \A fn : InnermostAt(fn, ats) <=>
              frames # <<>> /\ frames[Len(frames)].fn = fn /\ frames[Len(frames)].at \in ats
BY DEF InnermostSteps, InnermostAt, Last

LEMMA StackStep ==
  ASSUME Stack, StackInv, [Next]_vars
  PROVE  Stack' /\ StackInv'
<1>1. CASE ServerProcess \/ HandleProcessStateChanged \/ ShowServerHelp \/ UNCHANGED vars
  BY <1>1, Stays DEF ServerProcess, HandleProcessStateChanged, ShowServerHelp, vars, Stack
<1>2. CASE StartServer
  <2>1. CASE NotFound
    BY <2>1, Stays DEF NotFound, Stack
  <2>2. CASE BeginStart
    <3>1. Call("start", "start") /\ UNCHANGED phase /\ Clickable
      BY <1>2, <2>2 DEF StartServer, BeginStart
    <3>2. [fn |-> "start", at |-> "start"] \in Handlers
      BY DEF Handlers
    <3>3. QED
      BY <3>1, <3>2, Call1
  <2>3. QED
    BY <1>2, <2>1, <2>2 DEF StartServer
<1>3. CASE StartReturns
  BY <1>3, Return1, AtTop DEF StartReturns
<1>4. CASE StopServer
  <2>1. [fn |-> "stop", at |-> "events"] \in Handlers
    BY DEF Handlers
  <2>2. QED
    BY <1>4, <2>1, Call1 DEF StopServer
<1>5. CASE StopReturns
  BY <1>5, Return1, AtTop DEF StopReturns
<1>6. CASE EventsProcessed \/ Finished \/ TimedOut
  <2>1. frames # <<>> /\ frames[Len(frames)].at \in {"events", "wait"} /\ UNCHANGED phase
    BY <1>6, AtTop DEF EventsProcessed, Finished, TimedOut
  <2>2. UNCHANGED frames \/ Goto("wait") \/ Goto("after")
    BY <1>6 DEF EventsProcessed, Terminate, Finished, TimedOut
  <2>3. QED
    BY <2>1, <2>2, Onward, Goto1, Stays DEF Stack
<1>7. CASE CloseEvent
  <2>1. [fn |-> "close", at |-> "question"] \in Handlers
    BY DEF Handlers
  <2>2. CASE serverRunning
    BY <1>7, <2>1, <2>2, Call1 DEF CloseEvent
  <2>3. CASE ~serverRunning
    BY <1>7, <2>3, Stays DEF CloseEvent, Clickable
  <2>4. QED
    BY <2>2, <2>3
<1>8. CASE Answer \/ CloseKills \/ CloseWaits
  <2>1. frames # <<>> /\ frames[Len(frames)].fn = "close" /\ UNCHANGED phase
    BY <1>8, AtTop DEF Answer, CloseKills, CloseWaits
  <2>2. UNCHANGED frames \/ Return \/ Goto("events") \/ Goto("kill") \/ Goto("last")
    BY <1>8 DEF Answer, CloseKills, CloseWaits
  <2>3. QED
    BY <2>1, <2>2, Onward, Goto1, Return1, Stays DEF Stack
<1>9. CASE CloseReturns
  BY <1>9, Return1, AtTop DEF CloseReturns
<1>10. CASE Destroy
  <2>1. [fn |-> "destroy", at |-> "wait"] \in Handlers
    BY DEF Handlers
  <2>2. CASE state = "NotRunning"
    BY <1>10, <2>2, Stays DEF Destroy
  <2>3. CASE state # "NotRunning"
    BY <1>10, <2>1, <2>3, Call1 DEF Destroy
  <2>4. QED
    BY <2>2, <2>3
<1>11. CASE DestroyReturns
  BY <1>11, Return1, AtTop DEF DestroyReturns
<1>12. QED
  BY <1>1, <1>2, <1>3, <1>4, <1>5, <1>6, <1>7, <1>8, <1>9, <1>10, <1>11 DEF Next

(* What a notice of QProcess and its handler leave.                        *)
ProcessTyped == state' \in {"NotRunning", "Starting", "Running"}
                /\ os' \in {"absent", "forked", "failed", "alive", "dead"}
WindowTyped  == /\ serverRunning' \in BOOLEAN /\ text' \in {"Start", "Stop"}
                /\ controls' \in BOOLEAN /\ help' \in BOOLEAN
                /\ led' \in {"grey", "orange", "green", "red"}

LEMMA NoticeTyped ==
  ASSUME Values
  PROVE  /\ LearnStarted \/ LearnFailed \/ LearnEnded => ProcessTyped
         /\ BecameRunning \/ BecameNotRunning => WindowTyped
<1>1. LearnStarted \/ LearnFailed \/ LearnEnded => ProcessTyped
  BY DEF Values, LearnStarted, LearnFailed, LearnEnded, LearnGone, ProcessTyped
<1>2. BecameRunning => WindowTyped
  BY DEF Values, BecameRunning, UpdateControlsState, WindowTyped, window
<1>3. BecameNotRunning => WindowTyped
  BY DEF Values, BecameNotRunning, UpdateControlsState, WindowTyped, window
<1>4. QED
  BY <1>1, <1>2, <1>3

(* The other variables keep their values' types.                           *)
LEMMA ValuesStep ==
  ASSUME Values, [Next]_vars
  PROVE  Values'
<1> USE DEF Values, window, process
<1>1. CASE ServerProcess
  BY <1>1 DEF ServerProcess, Exec, Exit
<1>2. CASE HandleProcessStateChanged
  BY <1>2, NoticeTyped DEF HandleProcessStateChanged, ProcessTyped, WindowTyped
<1>3. CASE StartServer
  <2>1. located' \in BOOLEAN
    BY <1>3 DEF StartServer
  <2>2. CASE NotFound
    BY <2>1, <2>2 DEF NotFound
  <2>3. CASE BeginStart /\ state = "NotRunning"
    BY <2>1, <2>3 DEF BeginStart
  <2>4. CASE BeginStart /\ state # "NotRunning"
    BY <2>1, <2>4 DEF BeginStart
  <2>5. QED
    BY <1>3, <2>2, <2>3, <2>4 DEF StartServer
<1>4. CASE StartReturns
  BY <1>4 DEF StartReturns, Started, NotStarted, LearnStarted, LearnFailed, LearnGone,
              UpdateControlsState
<1>5. CASE StopServer \/ CloseEvent \/ Answer \/ ShowServerHelp
  BY <1>5 DEF StopServer, CloseEvent, Answer, ShowServerHelp
<1>6. CASE StopReturns
  BY <1>6 DEF StopReturns, Kill, UpdateControlsState
<1>7. CASE EventsProcessed
  <2>1. asked' \in BOOLEAN /\ result' \in BOOLEAN
    BY <1>7 DEF EventsProcessed, Terminate
  <2>2. QED
    BY <1>7, <2>1 DEF EventsProcessed
<1>8. CASE Finished
  BY <1>8, NoticeTyped DEF Finished, ProcessTyped, WindowTyped
<1>9. CASE TimedOut \/ CloseReturns
  <2>1. UNCHANGED <<serverRunning, text, controls, help, led, located>>
        /\ UNCHANGED <<state, os, asked, killed, late>>
        /\ (result' = result \/ result' = FALSE)
    BY <1>9 DEF TimedOut, CloseReturns
  <2>2. ProcessTyped /\ WindowTyped
    BY <2>1 DEF ProcessTyped, WindowTyped
  <2>3. /\ asked' \in BOOLEAN /\ killed' \in BOOLEAN /\ late' \in BOOLEAN
        /\ result' \in BOOLEAN /\ located' \in BOOLEAN
    BY <2>1
  <2> QED
    BY <2>2, <2>3 DEF ProcessTyped, WindowTyped
<1>10. CASE CloseKills
  <2>1. serverRunning' \in BOOLEAN /\ killed' \in BOOLEAN
    BY <1>10 DEF CloseKills, Kill
  <2>2. QED
    BY <1>10, <2>1 DEF CloseKills
<1>11. CASE CloseWaits
  <2>1. CASE Goto("last") /\ serverRunning' = FALSE
             /\ UNCHANGED <<text, controls, help, led, state, os>>
    <3>1. UNCHANGED <<asked, killed, late, result, located>>
      BY <1>11 DEF CloseWaits
    <3>2. ProcessTyped /\ WindowTyped
      BY <2>1 DEF ProcessTyped, WindowTyped
    <3> QED
      BY <3>1, <3>2 DEF ProcessTyped, WindowTyped
  <2>2. CASE (LearnStarted /\ BecameRunning) \/ (LearnEnded /\ BecameNotRunning)
    BY <1>11, <2>2, NoticeTyped DEF CloseWaits, ProcessTyped, WindowTyped
  <2>3. QED
    BY <1>11, <2>1, <2>2 DEF CloseWaits
<1>12. CASE Destroy \/ DestroyReturns
  BY <1>12 DEF Destroy, DestroyReturns
<1>13. CASE UNCHANGED vars
  BY <1>13 DEF vars
<1>14. QED
  BY <1>1, <1>2, <1>3, <1>4, <1>5, <1>6, <1>7, <1>8, <1>9, <1>10, <1>11, <1>12, <1>13 DEF Next

---------------------------------------------------------------------------
(* Which handler is innermost after a step of the stack.                   *)

LEMMA TopCalled ==
  ASSUME Stack, NEW fn, NEW at, [fn |-> fn, at |-> at] \in Handlers, Call(fn, at)
  PROVE  \A ats : InnermostSteps(ats)' <=> at \in ats
<1>1. frames' \in Seq(Handlers) /\ Grows(fn, at)
  BY Called DEF Stack
<1>2. frames' # <<>> /\ frames'[Len(frames')].at = at
  BY <1>1 DEF Grows, Stack
<1>3. QED
  BY <1>2 DEF InnermostSteps, Last

LEMMA TopReturned ==
  ASSUME Stack, StackInv, frames # <<>>, Return
  PROVE  \A ats : ats \cap {"events", "last"} = {} => ~InnermostSteps(ats)'
<1>1. frames' \in Seq(Handlers) /\ Shrinks
  BY Returned DEF Stack
<1>2. ASSUME frames' # <<>> PROVE frames'[Len(frames')].at \in {"events", "last"}
  <2>1. Len(frames') \in 1..Len(frames) /\ Len(frames') < Len(frames)
        /\ frames'[Len(frames')] = frames[Len(frames')]
    BY <1>1, <1>2 DEF Shrinks, Stack
  <2>2. QED
    BY <2>1 DEF StackInv
<1>3. QED
  BY <1>2 DEF InnermostSteps, Last

LEMMA TopWent ==
  ASSUME Stack, frames # <<>>, NEW at, Goto(at),
         [fn |-> frames[Len(frames)].fn, at |-> at] \in Handlers
  PROVE  \A ats : InnermostSteps(ats)' <=> at \in ats
<1>1. frames' \in Seq(Handlers) /\ Moves(at)
  BY Went DEF Stack
<1>2. frames' # <<>> /\ frames'[Len(frames')].at = at
  BY <1>1 DEF Moves, Stack
<1>3. QED
  BY <1>2 DEF InnermostSteps, Last

---------------------------------------------------------------------------
(* Closing cannot be undone once closeEvent() has got so far.              *)
CloseAt(ats) ==
    \E i \in 1..Len(frames) : frames[i].fn = "close" /\ frames[i].at \in ats

LEMMA CloseStays ==
  ASSUME Stack, StackInv, [Next]_vars, NEW ats \in {{"last"}, {"kill", "last"}},
         CloseAt(ats)
  PROVE  CloseAt(ats)' \/ phase' # "open"
<1>1. PICK i \in 1..Len(frames) : frames[i].fn = "close" /\ frames[i].at \in ats
  BY DEF CloseAt
<1>2. Len(frames) \in Nat /\ frames # <<>>
  BY <1>1 DEF Stack
<1> DEFINE top == frames[Len(frames)]
<1>3. ASSUME NEW fn, NEW at, [fn |-> fn, at |-> at] \in Handlers, Call(fn, at)
      PROVE  CloseAt(ats)'
  <2>1. Grows(fn, at)
    BY <1>3, Called DEF Stack
  <2>2. i \in 1..Len(frames') /\ frames'[i] = frames[i]
    BY <1>2, <2>1 DEF Grows
  <2>3. QED
    BY <1>1, <2>2 DEF CloseAt
<1>4. ASSUME Return, top.fn # "close" \/ top.at \notin ats
      PROVE  CloseAt(ats)'
  <2>1. Shrinks
    BY <1>2, <1>4, Returned DEF Stack
  <2>2. i # Len(frames)
    BY <1>1, <1>4
  <2>3. i \in 1..Len(frames') /\ frames'[i] = frames[i]
    BY <1>2, <2>1, <2>2 DEF Shrinks
  <2>4. QED
    BY <1>1, <2>3 DEF CloseAt
<1>5. ASSUME NEW at, Goto(at), [fn |-> top.fn, at |-> at] \in Handlers,
             top.fn # "close" \/ top.at \notin ats \/ at \in ats
      PROVE  CloseAt(ats)'
  <2>1. Moves(at)
    BY <1>2, <1>5, Went DEF Stack
  <2>2. i \in 1..Len(frames') /\ frames'[i].fn = "close" /\ frames'[i].at \in ats
    <3>1. CASE i = Len(frames)
      BY <1>1, <1>2, <1>5, <2>1, <3>1 DEF Moves
    <3>2. CASE i # Len(frames)
      BY <1>1, <1>2, <2>1, <3>2 DEF Moves
    <3>3. QED
      BY <3>1, <3>2
  <2>3. QED
    BY <2>2 DEF CloseAt
<1>6. ASSUME UNCHANGED frames PROVE CloseAt(ats)'
  BY <1>1, <1>6 DEF CloseAt
<1> HIDE DEF top
<1>7. CASE ServerProcess \/ HandleProcessStateChanged \/ ShowServerHelp \/ UNCHANGED vars
  BY <1>6, <1>7 DEF ServerProcess, HandleProcessStateChanged, ShowServerHelp, vars
<1>8. CASE StartServer
  <2>1. [fn |-> "start", at |-> "start"] \in Handlers
    BY DEF Handlers
  <2>2. UNCHANGED frames \/ Call("start", "start")
    BY <1>8 DEF StartServer, NotFound, BeginStart
  <2>3. QED
    BY <1>3, <1>6, <2>1, <2>2
<1>9. CASE StartReturns \/ StopReturns \/ DestroyReturns
  <2>1. /\ Return
        /\ InnermostAt("start", {"start"}) \/ InnermostAt("stop", {"after"})
           \/ InnermostAt("destroy", {"after"})
    BY <1>9 DEF StartReturns, StopReturns, DestroyReturns
  <2>2. top.fn # "close"
    BY <2>1 DEF InnermostAt, Last, top
  <2>3. QED
    BY <1>4, <2>1, <2>2
<1>10. CASE StopServer
  <2>1. [fn |-> "stop", at |-> "events"] \in Handlers
    BY DEF Handlers
  <2>2. QED
    BY <1>3, <1>10, <2>1 DEF StopServer
<1>11. CASE EventsProcessed \/ Finished \/ TimedOut
  <2>1. top.at \in {"events", "wait"}
    BY <1>11, AtTop DEF EventsProcessed, Finished, TimedOut, top
  <2>2. UNCHANGED frames \/ Goto("wait") \/ Goto("after")
    BY <1>11 DEF EventsProcessed, Terminate, Finished, TimedOut
  <2>3. top.at \notin ats
    BY <2>1
  <2>4. \A at \in {"wait", "after"} : [fn |-> top.fn, at |-> at] \in Handlers
    BY <1>2, <2>1, Onward DEF top
  <2>5. QED
    BY <1>5, <1>6, <2>2, <2>3, <2>4
<1>12. CASE CloseEvent
  <2>1. [fn |-> "close", at |-> "question"] \in Handlers
    BY DEF Handlers
  <2>2. UNCHANGED frames \/ Call("close", "question")
    BY <1>12 DEF CloseEvent
  <2>3. QED
    BY <1>3, <1>6, <2>1, <2>2
<1>13. CASE Answer \/ CloseKills
  <2>1. top.at \in {"question", "after"} /\ top.fn = "close"
    BY <1>13, AtTop DEF Answer, CloseKills, top
  <2>2. Return \/ Goto("events") \/ Goto("last") \/ Goto("kill")
    BY <1>13 DEF Answer, CloseKills
  <2>3. top.at \notin ats
    BY <2>1
  <2>4. \A at \in {"events", "last", "kill"} : [fn |-> top.fn, at |-> at] \in Handlers
    BY <1>2, <2>1, Onward DEF top
  <2>5. QED
    BY <1>4, <1>5, <2>2, <2>3, <2>4
<1>14. CASE CloseWaits
  <2>1. top.fn = "close" /\ (UNCHANGED frames \/ Goto("last"))
    BY <1>14, AtTop DEF CloseWaits, top
  <2>2. [fn |-> top.fn, at |-> "last"] \in Handlers /\ "last" \in ats
    BY <1>2, <2>1, Onward DEF top
  <2>3. QED
    BY <1>5, <1>6, <2>1, <2>2
<1>15. CASE CloseReturns
  BY <1>15 DEF CloseReturns
<1>16. CASE Destroy
  BY <1>2, <1>16 DEF Destroy
<1>17. QED
  BY <1>7, <1>8, <1>9, <1>10, <1>11, <1>12, <1>13, <1>14, <1>15, <1>16 DEF Next

---------------------------------------------------------------------------
(* What a step does to the process and the window, for the properties.     *)

ProcessInv ==
    /\ state = "Starting" => late \/ InnermostSteps({"start"})
    /\ InnermostSteps({"after"}) /\ result => state = "NotRunning"
    /\ InnermostSteps({"kill"}) => killed \/ state = "NotRunning"
    /\ RunningIsKnown

(* The flag follows QProcess.                                              *)
LEMMA FlagStep ==
  ASSUME Values, Stack, FlagMatchesProcess, [Next]_vars
  PROVE  FlagMatchesProcess'
<1> USE DEF FlagMatchesProcess
<1>1. CASE ServerProcess
  BY <1>1 DEF ServerProcess, window
<1>2. CASE HandleProcessStateChanged
  BY <1>2 DEF HandleProcessStateChanged, LearnStarted, LearnFailed, LearnEnded, LearnGone,
              BecameRunning, BecameNotRunning, Values, window
<1>3. CASE StartServer
  <2>1. ~serverRunning /\ serverRunning' = serverRunning
    BY <1>3 DEF StartServer, NotFound, BeginStart, window
  <2>2. QED
    BY <2>1
<1>4. CASE StartReturns
  <2>1. phase # "ended" /\ UNCHANGED phase
    BY <1>4, AtTop DEF StartReturns, Stack
  <2>2. CASE Started
    BY <2>2 DEF Started, LearnStarted
  <2>3. CASE NotStarted
    BY <2>1, <2>3 DEF NotStarted, LearnFailed, LearnGone
  <2>4. QED
    BY <1>4, <2>2, <2>3 DEF StartReturns
<1>5. CASE StopServer \/ CloseEvent \/ Answer \/ ShowServerHelp \/ TimedOut \/ EventsProcessed
  <2>1. UNCHANGED <<serverRunning, state>> /\ (phase' = phase \/ phase # "ended")
    BY <1>5 DEF StopServer, CloseEvent, Answer, ShowServerHelp, TimedOut, EventsProcessed,
                Clickable, window, process
  <2>2. QED
    BY <2>1
<1>6. CASE StopReturns
  BY <1>6 DEF StopReturns
<1>7. CASE Finished
  BY <1>7 DEF Finished, LearnStarted, LearnFailed, LearnEnded, LearnGone,
              BecameRunning, BecameNotRunning, Values, window
<1>8. CASE CloseKills
  <2>1. UNCHANGED <<state, phase>> /\ (serverRunning' => serverRunning)
    BY <1>8 DEF CloseKills
  <2>2. QED
    BY <2>1
<1>9. CASE CloseWaits
  BY <1>9 DEF CloseWaits, LearnStarted, LearnEnded, LearnGone, BecameRunning,
              BecameNotRunning, Values, window
<1>10. CASE CloseReturns
  <2>1. phase # "ended" /\ UNCHANGED <<serverRunning, state>>
    BY <1>10, AtTop DEF CloseReturns, Stack, window, process
  <2>2. QED
    BY <2>1
<1>11. CASE Destroy \/ DestroyReturns
  <2>1. phase' = "ended" \/ (UNCHANGED <<serverRunning, state, phase>>)
    BY <1>11 DEF Destroy, DestroyReturns, window
  <2>2. QED
    BY <2>1
<1>12. CASE UNCHANGED vars
  BY <1>12 DEF vars, window, process
<1>13. QED
  BY <1>1, <1>2, <1>3, <1>4, <1>5, <1>6, <1>7, <1>8, <1>9, <1>10, <1>11, <1>12 DEF Next

(* The button and the widgets agree until closeEvent() clears the flag.    *)
Agrees ==
    /\ text = IF serverRunning THEN "Stop" ELSE "Start"
    /\ controls = ~serverRunning
    /\ help => controls

WindowInv == phase # "open" \/ CloseAt({"last"}) \/ Agrees

LEMMA AgreesStep ==
  ASSUME Values, Stack, FlagMatchesProcess, Agrees, phase = "open", [Next]_vars
  PROVE  Agrees' \/ CloseAt({"last"})' \/ phase' # "open"
<1> USE DEF Agrees, UpdateControlsState, Values
<1>1. CASE ServerProcess
  BY <1>1 DEF ServerProcess, window
<1>2. CASE HandleProcessStateChanged
  BY <1>2 DEF HandleProcessStateChanged, BecameRunning, BecameNotRunning, window
<1>3. CASE StartServer
  <2>1. UNCHANGED <<serverRunning, text, controls>> /\ (help' => help)
    BY <1>3 DEF StartServer, NotFound, BeginStart, window
  <2>2. QED
    BY <2>1
<1>4. CASE StartReturns
  BY <1>4 DEF StartReturns, Started, NotStarted
<1>5. CASE StopServer \/ CloseEvent \/ Answer \/ ShowServerHelp \/ TimedOut \/ EventsProcessed
           \/ Destroy
  <2>1. UNCHANGED <<serverRunning, text, controls, help>>
    BY <1>5 DEF StopServer, CloseEvent, Answer, ShowServerHelp, TimedOut, EventsProcessed,
                Destroy, window
  <2>2. QED
    BY <2>1
<1>6. CASE StopReturns
  BY <1>6 DEF StopReturns
<1>7. CASE Finished
  BY <1>7 DEF Finished, BecameRunning, BecameNotRunning, window
<1>8. ASSUME Goto("last"), InnermostAt("close", {"after", "kill"}) PROVE CloseAt({"last"})'
  <2>1. frames # <<>> /\ frames[Len(frames)].fn = "close"
    BY <1>8, AtTop
  <2>2. [fn |-> frames[Len(frames)].fn, at |-> "last"] \in Handlers
    BY <2>1, Onward
  <2>3. frames' \in Seq(Handlers) /\ Moves("last")
    BY <1>8, <2>1, <2>2, Went DEF Stack
  <2>4. Len(frames') \in 1..Len(frames') /\ frames'[Len(frames')].fn = "close"
        /\ frames'[Len(frames')].at = "last"
    BY <2>1, <2>3 DEF Moves, Stack
  <2>5. QED
    BY <2>4 DEF CloseAt
<1>9. CASE CloseKills
  <2>1. CASE result
    <3>1. Goto("last") /\ InnermostAt("close", {"after", "kill"})
      BY <1>9, <2>1, AtTop DEF CloseKills
    <3>2. QED
      BY <1>8, <3>1
  <2>2. CASE ~result
    BY <1>9, <2>2 DEF CloseKills
  <2>3. QED
    BY <2>1, <2>2
<1>10. CASE CloseWaits
  <2>1. CASE Goto("last")
    <3>1. InnermostAt("close", {"after", "kill"})
      BY <1>10, AtTop DEF CloseWaits
    <3>2. QED
      BY <1>8, <2>1, <3>1
  <2>2. CASE BecameRunning \/ BecameNotRunning
    BY <2>2 DEF BecameRunning, BecameNotRunning, window
  <2>3. QED
    BY <1>10, <2>1, <2>2 DEF CloseWaits
<1>11. CASE CloseReturns \/ DestroyReturns
  BY <1>11 DEF CloseReturns, DestroyReturns
<1>12. CASE UNCHANGED vars
  BY <1>12 DEF vars, window
<1>13. QED
  BY <1>1, <1>2, <1>3, <1>4, <1>5, <1>6, <1>7, <1>9, <1>10, <1>11, <1>12 DEF Next

(* A window that was closed is not opened again.                           *)
LEMMA Shuts ==
  ASSUME phase # "open", [Next]_vars
  PROVE  phase' # "open"
<1>1. phase' = phase \/ phase' \in {"closed", "ended"}
  BY DEF Next, vars, ServerProcess, HandleProcessStateChanged, StartServer, NotFound,
         BeginStart, StartReturns, StopServer, StopReturns, EventsProcessed, Finished,
         TimedOut, CloseEvent, Answer, CloseKills, CloseWaits, CloseReturns, Destroy,
         DestroyReturns, ShowServerHelp
<1>2. QED
  BY <1>1

LEMMA WindowStep ==
  ASSUME Values, Stack, StackInv, FlagMatchesProcess, WindowInv, [Next]_vars
  PROVE  WindowInv'
<1>1. phase # "open" => phase' # "open"
  BY Shuts
<1>2. CASE CloseAt({"last"})
  BY <1>2, CloseStays DEF WindowInv
<1>3. CASE phase = "open" /\ Agrees
  BY <1>3, AgreesStep DEF WindowInv
<1>4. QED
  BY <1>1, <1>2, <1>3 DEF WindowInv

(* What a handler may rely on that goes on after a wait: a start that was  *)
(* given up is remembered, a stop that succeeded left no process, and a    *)
(* stop that failed has killed it.                                         *)
LEMMA ProcessStep ==
  ASSUME Values, Stack, StackInv, ProcessInv, [Next]_vars
  PROVE  ProcessInv'
<1> USE DEF ProcessInv, RunningIsKnown
<1>2. ASSUME NEW fn, NEW at, [fn |-> fn, at |-> at] \in Handlers, Call(fn, at)
      PROVE  \A x : InnermostSteps({x})' <=> x = at
  BY <1>2, TopCalled
<1>3. ASSUME frames # <<>>, Return
      PROVE  \A x \in {"start", "after", "kill"} : ~InnermostSteps({x})'
  BY <1>3, TopReturned
<1>4. ASSUME frames # <<>>, NEW at, Goto(at),
             [fn |-> frames[Len(frames)].fn, at |-> at] \in Handlers
      PROVE  \A x : InnermostSteps({x})' <=> x = at
  BY <1>4, TopWent
<1>5. ASSUME UNCHANGED frames
      PROVE  \A x : InnermostSteps({x})' <=> InnermostSteps({x})
  BY <1>5 DEF InnermostSteps
<1>6. CASE ServerProcess \/ ShowServerHelp \/ UNCHANGED vars
  <2>1. UNCHANGED <<frames, state, late, killed, result, serverRunning>>
    BY <1>6 DEF ServerProcess, ShowServerHelp, vars, window, process
  <2>2. QED
    BY <1>5, <2>1
<1>7. CASE HandleProcessStateChanged
  <2>1. /\ UNCHANGED <<frames, late, killed, result>>
        /\ \A x \in {"start", "after", "kill"} : ~InnermostSteps({x})
    BY <1>7, AtTop DEF HandleProcessStateChanged, Delivering
  <2>2. state' = "NotRunning" \/ (state = "Starting" /\ state' = "Running")
    BY <1>7 DEF HandleProcessStateChanged, LearnStarted, LearnFailed, LearnEnded, LearnGone
  <2>3. QED
    BY <1>5, <2>1, <2>2
<1>8. CASE StartServer
  <2>1. [fn |-> "start", at |-> "start"] \in Handlers
    BY DEF Handlers
  <2>2. CASE NotFound
    <3>1. UNCHANGED <<frames, state, late, killed, result, serverRunning>>
      BY <2>2 DEF NotFound, process
    <3>2. QED
      BY <1>5, <3>1
  <2>3. CASE BeginStart
    <3>1. \A x : InnermostSteps({x})' <=> x = "start"
      BY <1>2, <2>1, <2>3 DEF BeginStart
    <3>2. CASE state = "NotRunning"
      BY <2>3, <3>1, <3>2 DEF BeginStart
    <3>3. CASE state # "NotRunning"
      <4>1. UNCHANGED <<state, late, killed, result, serverRunning>>
        BY <2>3, <3>3 DEF BeginStart, window, process
      <4>2. QED
        BY <3>1, <4>1
    <3>4. QED
      BY <3>2, <3>3
  <2>4. QED
    BY <1>8, <2>2, <2>3 DEF StartServer
<1>9. CASE StartReturns
  <2>1. \A x \in {"start", "after", "kill"} : ~InnermostSteps({x})'
    BY <1>3, <1>9, AtTop DEF StartReturns
  <2>2. CASE Started
    BY <2>1, <2>2 DEF Started, LearnStarted
  <2>3. CASE NotStarted
    BY <2>1, <2>3 DEF NotStarted, LearnFailed, LearnGone
  <2>4. QED
    BY <1>9, <2>2, <2>3 DEF StartReturns
<1>10. CASE StopServer
  <2>1. [fn |-> "stop", at |-> "events"] \in Handlers
    BY DEF Handlers
  <2>2. \A x : InnermostSteps({x})' <=> x = "events"
    BY <1>2, <1>10, <2>1 DEF StopServer
  <2>3. ~InnermostSteps({"start"})
    BY <1>10, AtTop DEF StopServer, Clickable
  <2>4. UNCHANGED <<state, late, killed, result, serverRunning>>
    BY <1>10 DEF StopServer, process
  <2>5. QED
    BY <2>2, <2>3, <2>4
<1>11. CASE StopReturns
  <2>1. frames # <<>> /\ Return /\ InnermostSteps({"after"}) /\ ~InnermostSteps({"start"})
    BY <1>11, AtTop DEF StopReturns
  <2>2. \A x \in {"start", "after", "kill"} : ~InnermostSteps({x})'
    BY <1>3, <2>1
  <2>3. UNCHANGED <<state, late>> /\ (~result /\ state # "NotRunning" => killed')
    BY <1>11 DEF StopReturns, Kill
  <2>4. QED
    BY <2>1, <2>2, <2>3
<1>12. CASE EventsProcessed
  <2>1. frames # <<>> /\ frames[Len(frames)].at = "events" /\ ~InnermostSteps({"start"})
    BY <1>12, AtTop DEF EventsProcessed
  <2>2. \A at \in {"wait", "after"} : [fn |-> frames[Len(frames)].fn, at |-> at] \in Handlers
    BY <2>1, Onward
  <2>3. UNCHANGED <<state, late, killed, serverRunning>>
    BY <1>12 DEF EventsProcessed, window
  <2>4. CASE state = "NotRunning"
    BY <2>3, <2>4
  <2>5. CASE state # "NotRunning"
    <3>1. Goto("wait")
      BY <1>12, <2>5 DEF EventsProcessed, Terminate
    <3>2. \A x : InnermostSteps({x})' <=> x = "wait"
      BY <1>4, <2>1, <2>2, <3>1
    <3>3. QED
      BY <2>1, <2>3, <3>2
  <2>6. QED
    BY <2>4, <2>5
<1>13. CASE Finished
  <2>1. /\ \A x \in {"start", "after", "kill"} : ~InnermostSteps({x})
        /\ UNCHANGED <<late, killed>>
    BY <1>13, AtTop DEF Finished
  <2>2. \/ state' = "NotRunning"
        \/ state = "Starting" /\ state' = "Running" /\ UNCHANGED frames
    BY <1>13 DEF Finished, LearnStarted, LearnFailed, LearnEnded, LearnGone
  <2>3. QED
    BY <1>5, <2>1, <2>2
<1>14. CASE TimedOut
  <2>1. frames # <<>> /\ frames[Len(frames)].at = "wait" /\ ~InnermostSteps({"start"})
    BY <1>14, AtTop DEF TimedOut
  <2>2. [fn |-> frames[Len(frames)].fn, at |-> "after"] \in Handlers
    BY <2>1, Onward
  <2>3. \A x : InnermostSteps({x})' <=> x = "after"
    BY <1>4, <1>14, <2>1, <2>2 DEF TimedOut
  <2>4. UNCHANGED <<state, late, killed, serverRunning>> /\ result' = FALSE
    BY <1>14 DEF TimedOut, window, process
  <2>5. QED
    BY <2>1, <2>3, <2>4
<1>15. CASE CloseEvent
  <2>1. [fn |-> "close", at |-> "question"] \in Handlers
    BY DEF Handlers
  <2>2. UNCHANGED <<state, late, killed, serverRunning, result>> /\ ~InnermostSteps({"start"})
    BY <1>15, AtTop DEF CloseEvent, Clickable, window, process
  <2>3. \/ UNCHANGED frames
        \/ \A x : InnermostSteps({x})' <=> x = "question"
    BY <1>2, <1>15, <2>1 DEF CloseEvent
  <2>4. QED
    BY <1>5, <2>2, <2>3
<1>16. CASE Answer
  <2>1. frames # <<>> /\ frames[Len(frames)].fn = "close" /\ ~InnermostSteps({"start"})
    BY <1>16 DEF InnermostAt, InnermostSteps, Last, Answer
  <2>2. [fn |-> frames[Len(frames)].fn, at |-> "events"] \in Handlers
    BY <2>1, Onward
  <2>3. \A x \in {"start", "after", "kill"} : ~InnermostSteps({x})'
    <3>1. CASE Return
      BY <1>3, <2>1, <3>1
    <3>2. CASE Goto("events")
      <4>1. \A x : InnermostSteps({x})' <=> x = "events"
        BY <1>4, <2>1, <2>2, <3>2
      <4>2. QED
        BY <4>1
    <3>3. QED
      BY <1>16, <3>1, <3>2 DEF Answer
  <2>4. UNCHANGED <<state, late, killed, serverRunning>>
    BY <1>16 DEF Answer, process
  <2>5. QED
    BY <2>1, <2>3, <2>4
<1>17. CASE CloseKills
  <2>1. /\ frames # <<>> /\ frames[Len(frames)].fn = "close"
        /\ InnermostSteps({"after"}) /\ ~InnermostSteps({"start"})
    BY <1>17 DEF InnermostAt, InnermostSteps, Last, CloseKills
  <2>2. \A at \in {"kill", "last"} : [fn |-> frames[Len(frames)].fn, at |-> at] \in Handlers
    BY <2>1, Onward
  <2>3. UNCHANGED <<state, late>> /\ (~result /\ state # "NotRunning" => killed')
    BY <1>17 DEF CloseKills, Kill
  <2>4. \A x \in {"start", "after"} : ~InnermostSteps({x})'
    <3>1. ASSUME NEW at \in {"kill", "last"}, Goto(at)
          PROVE  \A x \in {"start", "after"} : ~InnermostSteps({x})'
      <4>1. \A x : InnermostSteps({x})' <=> x = at
        BY <1>4, <2>1, <2>2, <3>1
      <4>2. QED
        BY <4>1
    <3>2. Goto("last") \/ Goto("kill")
      BY <1>17 DEF CloseKills
    <3>3. QED
      BY <3>1, <3>2
  <2>5. QED
    BY <2>1, <2>3, <2>4
<1>18. CASE CloseWaits
  <2>1. /\ frames # <<>> /\ frames[Len(frames)].fn = "close"
        /\ InnermostSteps({"kill"})
        /\ \A x \in {"start", "after"} : ~InnermostSteps({x})
    BY <1>18 DEF InnermostAt, InnermostSteps, Last, CloseWaits
  <2>2. [fn |-> frames[Len(frames)].fn, at |-> "last"] \in Handlers
    BY <2>1, Onward
  <2>3. UNCHANGED <<late, killed>>
    BY <1>18 DEF CloseWaits
  <2>4. \A x \in {"start", "after"} : ~InnermostSteps({x})'
    <3>1. CASE UNCHANGED frames
      BY <1>5, <2>1, <3>1
    <3>2. CASE Goto("last")
      <4>1. \A x : InnermostSteps({x})' <=> x = "last"
        BY <1>4, <2>1, <2>2, <3>2
      <4>2. QED
        BY <4>1
    <3>3. QED
      BY <1>18, <3>1, <3>2 DEF CloseWaits
  <2>5. state' = "NotRunning" \/ (state' = "Running" /\ state = "Starting") \/ UNCHANGED state
    BY <1>18 DEF CloseWaits, LearnStarted, LearnEnded, LearnGone
  <2>6. QED
    BY <2>1, <2>3, <2>4, <2>5
<1>19. CASE CloseReturns
  <2>1. frames # <<>> /\ ~InnermostSteps({"start"})
    BY <1>19 DEF InnermostAt, InnermostSteps, Last, CloseReturns
  <2>2. \A x \in {"start", "after", "kill"} : ~InnermostSteps({x})'
    BY <1>3, <1>19, <2>1 DEF CloseReturns
  <2>3. UNCHANGED <<state, late, killed, serverRunning>>
    BY <1>19 DEF CloseReturns, window, process
  <2>4. QED
    BY <2>1, <2>2, <2>3
<1>20. CASE Destroy
  <2>1. [fn |-> "destroy", at |-> "wait"] \in Handlers
    BY DEF Handlers
  <2>2. UNCHANGED <<state, late, killed, serverRunning>> /\ ~InnermostSteps({"start"})
    BY <1>20, AtTop DEF Destroy, window
  <2>3. CASE state = "NotRunning"
    BY <2>2, <2>3
  <2>4. CASE state # "NotRunning"
    <3>1. \A x : InnermostSteps({x})' <=> x = "wait"
      BY <1>2, <1>20, <2>1, <2>4 DEF Destroy
    <3>2. QED
      BY <2>2, <3>1
  <2>5. QED
    BY <2>3, <2>4
<1>21. CASE DestroyReturns
  BY <1>21 DEF DestroyReturns
<1>22. QED
  BY <1>6, <1>7, <1>8, <1>9, <1>10, <1>11, <1>12, <1>13, <1>14, <1>15, <1>16, <1>17, <1>18,
     <1>19, <1>20, <1>21 DEF Next

(* A green LED: the server runs and the window knows, or it started late.  *)
LedInv ==
    led = "green" /\ phase = "open" /\ ~CloseAt({"kill", "last"})
    => late \/ (state = "Running" /\ serverRunning)

LEMMA LedStep ==
  ASSUME Values, Stack, StackInv, FlagMatchesProcess, ProcessInv, LedInv, [Next]_vars
  PROVE  LedInv'
<1> SUFFICES ASSUME led' = "green", phase' = "open", ~CloseAt({"kill", "last"})'
             PROVE  late' \/ (state' = "Running" /\ serverRunning')
  BY DEF LedInv
<1>1. phase = "open" /\ ~CloseAt({"kill", "last"})
  BY Shuts, CloseStays
<1>2. led = "green" => late \/ (state = "Running" /\ serverRunning)
  BY <1>1 DEF LedInv
<1>3. serverRunning => state = "Running"
  BY <1>1 DEF FlagMatchesProcess
<1>4. ASSUME BecameNotRunning, UNCHANGED late PROVE late'
  BY <1>2, <1>3, <1>4 DEF BecameNotRunning, window
<1>5. CASE HandleProcessStateChanged
  <2>1. state = "Starting" => late
    BY <1>5 DEF HandleProcessStateChanged, Delivering, InnermostSteps, Last, ProcessInv
  <2>2. CASE LearnStarted
    BY <1>5, <2>1, <2>2 DEF HandleProcessStateChanged, LearnStarted
  <2>3. CASE BecameNotRunning
    BY <1>4, <1>5, <2>3 DEF HandleProcessStateChanged
  <2>4. QED
    BY <1>5, <2>2, <2>3 DEF HandleProcessStateChanged
<1>6. CASE ServerProcess \/ EventsProcessed \/ TimedOut \/ CloseEvent \/ UNCHANGED vars
  <2>1. UNCHANGED <<led, late, state, serverRunning>>
    BY <1>6 DEF ServerProcess, EventsProcessed, TimedOut, CloseEvent, vars, window, process
  <2>2. QED
    BY <1>2, <2>1
<1>7. CASE StartServer
  <2>1. CASE NotFound
    BY <2>1 DEF NotFound
  <2>2. CASE BeginStart
    BY <1>2, <2>2 DEF BeginStart, window, process
  <2>3. QED
    BY <1>7, <2>1, <2>2 DEF StartServer
<1>8. CASE StartReturns
  BY <1>8 DEF StartReturns, Started, NotStarted, LearnStarted
<1>9. CASE StopServer \/ StopReturns \/ ShowServerHelp
  BY <1>9 DEF StopServer, StopReturns, ShowServerHelp
<1>10. CASE Finished
  <2>1. state = "Starting" => late
    BY <1>10 DEF Finished, InnermostSteps, Last, ProcessInv
  <2>2. CASE LearnStarted
    BY <1>10, <2>1, <2>2 DEF Finished, LearnStarted
  <2>3. CASE BecameNotRunning
    BY <1>4, <1>10, <2>3 DEF Finished
  <2>4. QED
    BY <1>10, <2>2, <2>3 DEF Finished
<1>11. CASE Answer
  <2>1. UNCHANGED <<late, state, serverRunning>> /\ led' = led
    BY <1>11 DEF Answer, process
  <2>2. QED
    BY <1>2, <2>1
<1>12. CASE CloseKills
  <2>1. InnermostSteps({"after"}) /\ UNCHANGED <<led, late, state>>
        /\ (~result => UNCHANGED serverRunning)
    BY <1>12 DEF CloseKills, InnermostAt, InnermostSteps, Last
  <2>2. result => state = "NotRunning"
    BY <2>1 DEF ProcessInv
  <2>3. QED
    BY <1>2, <2>1, <2>2
<1>13. CASE CloseWaits
  <2>1. frames # <<>> /\ frames[Len(frames)].fn = "close" /\ frames[Len(frames)].at = "kill"
    BY <1>13 DEF CloseWaits, InnermostAt, Last
  <2>2. Len(frames) \in 1..Len(frames)
    BY <2>1 DEF Stack
  <2>3. QED
    BY <1>1, <2>1, <2>2 DEF CloseAt
<1>14. CASE CloseReturns \/ Destroy \/ DestroyReturns
  BY <1>1, <1>14 DEF CloseReturns, Destroy, DestroyReturns
<1>15. QED
  BY <1>5, <1>6, <1>7, <1>8, <1>9, <1>10, <1>11, <1>12, <1>13, <1>14 DEF Next

---------------------------------------------------------------------------
(* The invariant and what it means.                                        *)
ManagerInv ==
    /\ Values /\ Stack /\ StackInv
    /\ FlagMatchesProcess /\ ProcessInv /\ WindowInv /\ LedInv

LEMMA ManagerInit == Init => ManagerInv
<1> SUFFICES ASSUME Init PROVE ManagerInv
  OBVIOUS
<1>1. Values
  BY DEF Init, Values
<1>2. Stack /\ StackInv
  BY ManagerAssumption DEF Init, Stack, StackInv
<1>3. FlagMatchesProcess /\ LedInv
  BY DEF Init, FlagMatchesProcess, LedInv
<1>4. ProcessInv
  BY DEF Init, ProcessInv, RunningIsKnown, InnermostSteps
<1>5. WindowInv
  BY DEF Init, WindowInv, Agrees
<1>6. QED
  BY <1>1, <1>2, <1>3, <1>4, <1>5 DEF ManagerInv

LEMMA ManagerStep == ManagerInv /\ [Next]_vars => ManagerInv'
<1> SUFFICES ASSUME ManagerInv, [Next]_vars PROVE ManagerInv'
  OBVIOUS
<1>1. Values' /\ Stack' /\ StackInv'
  BY StackStep, ValuesStep DEF ManagerInv
<1>2. FlagMatchesProcess' /\ ProcessInv' /\ WindowInv' /\ LedInv'
  BY FlagStep, ProcessStep, WindowStep, LedStep DEF ManagerInv
<1>3. QED
  BY <1>1, <1>2 DEF ManagerInv

(* In every state handlers rely on what they may (ManagerInv).             *)
THEOREM Invariant == Spec => []ManagerInv
BY ManagerInit, ManagerStep, PTL DEF Spec

(* Handlers are suspended only where the code waits or handles events, and *)
(* all have returned when the window is destroyed.                         *)
THEOREM ManagerTyped == Spec => []TypeOK
<1>1. ManagerInv => TypeOK
  BY Parts DEF ManagerInv
<1>2. QED
  BY <1>1, Invariant, PTL

(* No order of clicks, nested handlers and notices leaves serverRunning    *)
(* set for a process that Qt has seen end.                                 *)
THEOREM FlagIsRight == Spec => []FlagMatchesProcess
<1>1. ManagerInv => FlagMatchesProcess
  BY DEF ManagerInv
<1>2. QED
  BY <1>1, Invariant, PTL

(* A server that runs can be stopped, or was killed, or started late.      *)
THEOREM RunningServerKnown == Spec => []RunningIsKnown
<1>1. ManagerInv => RunningIsKnown
  BY DEF ManagerInv, ProcessInv
<1>2. QED
  BY <1>1, Invariant, PTL

(* The button and the option widgets follow the flag until the window      *)
(* closes, however deep handlers are nested.                               *)
THEOREM WindowIsRight == Spec => []WindowMatchesFlag
<1>1. ASSUME ManagerInv PROVE WindowMatchesFlag
  <2>1. CloseAt({"last"}) => Closing
    BY DEF CloseAt, Closing, ManagerInv, Stack
  <2>2. QED
    BY <1>1, <2>1 DEF ManagerInv, WindowInv, Agrees, WindowMatchesFlag
<1>2. QED
  BY <1>1, Invariant, PTL

(* Whoever set the LED last, it is green only while the server runs, or    *)
(* one that started late did.                                              *)
THEOREM LedIsRight == Spec => []GreenMeansRunning
<1>1. ASSUME ManagerInv PROVE GreenMeansRunning
  <2>1. CloseAt({"kill", "last"}) => Closing
    BY <1>1 DEF CloseAt, Closing, ManagerInv, Stack
  <2>2. QED
    BY <1>1, <2>1 DEF ManagerInv, LedInv, GreenMeansRunning
<1>2. QED
  BY <1>1, Invariant, PTL
=============================================================================
