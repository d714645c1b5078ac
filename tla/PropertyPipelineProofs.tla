----------------------- MODULE PropertyPipelineProofs -----------------------
(***************************************************************************)
(* Theorems about PropertyPipeline, for every set of servers, vectors,     *)
(* states and copies.                                                      *)
(***************************************************************************)
EXTENDS PropertyPipeline, TLAPS

-----------------------------------------------------------------------------
(* Lemmas about sequences.                                                 *)

\* Appending adds one element behind the others (the GUI event queue).
LEMMA AppendElement ==
    ASSUME NEW S, NEW s \in Seq(S), NEW e \in S
    PROVE  /\ Append(s, e) \in Seq(S)
           /\ DOMAIN Append(s, e) = 1 .. Len(s) + 1
           /\ Len(Append(s, e)) = Len(s) + 1
           /\ \A i \in DOMAIN s : Append(s, e)[i] = s[i]
           /\ Append(s, e)[Len(s) + 1] = e
    OBVIOUS

\* Taking the head moves the other elements one place forward.
LEMMA TailElement ==
    ASSUME NEW S, NEW s \in Seq(S), s # <<>>
    PROVE  /\ Head(s) \in S
           /\ Head(s) = s[1]
           /\ 1 \in DOMAIN s
           /\ Tail(s) \in Seq(S)
           /\ DOMAIN Tail(s) = 1 .. Len(s) - 1
           /\ \A i \in DOMAIN Tail(s) : i + 1 \in DOMAIN s /\ Tail(s)[i] = s[i + 1]
    OBVIOUS

\* Dropping the last element (the innermost nested creation).
LEMMA FrontElement ==
    ASSUME NEW S, NEW s \in Seq(S), s # <<>>
    PROVE  /\ SubSeq(s, 1, Len(s) - 1) \in Seq(S)
           /\ DOMAIN SubSeq(s, 1, Len(s) - 1) = 1 .. Len(s) - 1
           /\ Len(s) \in DOMAIN s
           /\ \A i \in 1 .. Len(s) - 1 : SubSeq(s, 1, Len(s) - 1)[i] = s[i]
    OBVIOUS

\* The domain of a sequence, for the index sets the invariants range over.
LEMMA SeqDomain ==
    ASSUME NEW S, NEW s \in Seq(S)
    PROVE  /\ DOMAIN s = 1 .. Len(s)
           /\ Len(s) \in Nat
           /\ \A i \in DOMAIN s : s[i] \in S
    OBVIOUS

-----------------------------------------------------------------------------
(* Type correctness.  A copy is taken of an allocated vector because a     *)
(* callback is about a vector of its own server that the bus has.          *)

CallsAboutOwnVector ==
    \A t \in Servers : ~Idle(t) =>
      /\ Owner[call[t].prop] = t
      /\ vector[call[t].prop] \notin Gone

TypeInv == TypeOK /\ CallsAboutOwnVector

\* What Running says of the call of t, given the types.
LEMMA RunningCall ==
    ASSUME TypeInv, NEW t \in Servers, NEW step, Running(t, step)
    PROVE  /\ call[t] \in Call
           /\ call[t].prop \in Props
           /\ call[t].op \in PropertyKinds \cup {"message"}
           /\ call[t].step = step
           /\ vector[call[t].prop] \in AllStates
           /\ step = "second" => call[t].cell \in Cells /\ call[t].op \in PropertyKinds
           /\ step \in {"preview", "first"} => call[t].op \in PropertyKinds
           /\ step \in {"preview", "first", "message", "return"} => call[t].cell = NoCell
           /\ step = "message" => call[t].op = "message"
  <1>1. call[t] \in Call \cup {Resting} /\ call[t] # Resting
    BY DEF TypeInv, TypeOK, Running, Idle
  <1>2. call[t] \in Call
    BY <1>1
  <1>3. call[t].prop \in Props /\ vector[call[t].prop] \notin Gone
    BY <1>1, <1>2 DEF TypeInv, CallsAboutOwnVector, Call, Idle
  <1>4. vector[call[t].prop] \in AllStates
    BY <1>3 DEF TypeInv, TypeOK
  <1> QED
    BY <1>2, <1>3, <1>4 DEF Call, Running

\* Init establishes the types.
LEMMA InitTypeInv == Init => TypeInv
    BY DEF Init, TypeInv, TypeOK, CallsAboutOwnVector, Idle, Pointer, Gone

\* Posting keeps the types of the queue and of the sleeping threads.
LEMMA PostTypes ==
    ASSUME TypeOK, NEW t \in Servers, NEW kind, NEW cell, Post(t, kind, cell),
           call[t].prop \in Props,
           \/ kind \in PreviewKinds /\ cell = NoCell
           \/ kind \in Kinds \ PreviewKinds /\ cell \in Cells
    PROVE  queue' \in Seq(Event) /\ blocked' \subseteq Servers
  <1> DEFINE e == [kind |-> kind, thread |-> t, prop |-> call[t].prop, cell |-> cell]
  <1>1. e \in Event
    BY DEF Event
  <1>2. queue' = Append(queue, e) /\ queue \in Seq(Event)
    BY DEF Post, TypeOK
  <1>3. queue' \in Seq(Event)
    BY <1>1, <1>2, AppendElement
  <1>4. blocked' \subseteq Servers
    BY DEF Post, TypeOK
  <1> QED
    BY <1>3, <1>4

\* Taking an event keeps the type of the queue.
LEMMA TakeTypes ==
    ASSUME TypeOK, NEW kind, Take(kind)
    PROVE  /\ queue' \in Seq(Event)
           /\ Head(queue) \in Event
           /\ Head(queue).kind = kind
           /\ Head(queue).prop \in Props
           /\ Head(queue).thread \in Servers
           /\ kind \in Kinds \ PreviewKinds => Head(queue).cell \in Cells
  <1>1. Head(queue) \in Event /\ Tail(queue) \in Seq(Event)
    BY TailElement DEF Take, TypeOK
  <1> QED
    BY <1>1 DEF Take, Event


\* Entering a callback keeps the types and starts a call about an own vector.
LEMMA EnterTypes ==
    ASSUME TypeInv, NEW t \in Servers, NEW p \in Props, NEW op, NEW step,
           Enter(t, op, p, step),
           \/ op \in PropertyKinds /\ step = FirstStep(op, p)
           \/ op = "message" /\ step = "message",
           vector' \in [Props -> AllStates \cup Gone],
           vector'[p] \notin Gone,
           \A q \in Props : q # p => vector'[q] = vector[q]
    PROVE  TypeInv'
  <1> DEFINE c == [op |-> op, prop |-> p, step |-> step, cell |-> NoCell]
  <1>1. c \in Call /\ c # Resting
    BY DEF Call, FirstStep, Resting, PropertyKinds
  <1>2. call' = [call EXCEPT ![t] = c] /\ Owner[p] = t
    BY DEF Enter
  <1>3. UNCHANGED <<blocked, queue, nested, rebuilds, heap, text, message, node, preview>>
    BY DEF Enter, copyVars, loopVars, guiVars
  <1>4. call' \in [Servers -> Call \cup {Resting}]
    BY <1>1, <1>2 DEF TypeInv, TypeOK
  <1>5. TypeOK'
    BY <1>3, <1>4 DEF TypeInv, TypeOK
  <1>6. ASSUME NEW u \in Servers, ~Idle(u)'
        PROVE  Owner[call'[u].prop] = u /\ vector'[call'[u].prop] \notin Gone
    <2>1. CASE u = t
      BY <2>1, <1>2 DEF TypeInv, TypeOK
    <2>2. CASE u # t
      <3>1. call'[u] = call[u] /\ ~Idle(u)
        BY <1>2, <1>6, <2>2 DEF TypeInv, TypeOK, Idle
      <3>2. call[u] \in Call
        BY ZenonT(60), <3>1 DEF TypeInv, TypeOK, Idle
      <3>3. call[u].prop \in Props
        BY <3>2 DEF Call
      <3> QED
        BY <3>1, <3>3, <1>2, <2>2 DEF TypeInv, CallsAboutOwnVector
    <2> QED
      BY <2>1, <2>2
  <1> QED
    BY <1>5, <1>6 DEF TypeInv, CallsAboutOwnVector

\* A step of a call that keeps its vector keeps the calls typed.
LEMMA AdvanceTypes ==
    ASSUME TypeInv, NEW t \in Servers, NEW c \in Call, call[t] \in Call,
           call' = [call EXCEPT ![t] = c], c.prop = call[t].prop,
           UNCHANGED vector
    PROVE  /\ call' \in [Servers -> Call \cup {Resting}]
           /\ CallsAboutOwnVector'
  <1>1. call' \in [Servers -> Call \cup {Resting}]
    BY DEF TypeInv, TypeOK
  <1>2. ~Idle(t)
    BY DEF Idle, Call, Resting, PropertyKinds
  <1>3. \A u \in Servers : ~Idle(u)' => ~Idle(u) /\ call'[u].prop = call[u].prop
    BY <1>2 DEF TypeInv, TypeOK, Idle
  <1> QED
    BY <1>1, <1>3 DEF TypeInv, CallsAboutOwnVector

\* What a deletion takes away belongs to one server.
LEMMA TakenOwned ==
    ASSUME NEW p \in Props, NEW op, NEW q \in Taken(op, p)
    PROVE  q \in Props /\ Owner[q] = Owner[p]
    BY PipelineAssumption DEF Taken

\* A callback that returns frees vectors of its own server only.
LEMMA ReturnFrees ==
    ASSUME TypeInv, NEW t \in Servers, Return(t),
           call[t].prop \in Props, Owner[call[t].prop] = t
    PROVE  /\ vector' \in [Props -> AllStates \cup Gone]
           /\ \A q \in Props : Owner[q] # t => vector'[q] = vector[q]
           /\ \A q \in Props : \/ vector'[q] = vector[q]
                               \/ call[t].op = "delete" /\ q = call[t].prop
                               \/ vector'[q] = "swept"
  <1>1. vector' = [q \in Props |->
                     IF q \in Taken(call[t].op, call[t].prop) /\ vector[q] \notin Gone
                     THEN IF call[t].op = "delete" THEN "absent" ELSE "swept"
                     ELSE vector[q]]
    BY DEF Return
  <1>2. vector \in [Props -> AllStates \cup Gone]
    BY DEF TypeInv, TypeOK
  <1>3. vector' \in [Props -> AllStates \cup Gone]
    BY <1>1, <1>2 DEF Gone
  <1>4. \A q \in Props : Owner[q] # t => q \notin Taken(call[t].op, call[t].prop)
    BY TakenOwned
  <1>5. \A q \in Props : Owner[q] # t => vector'[q] = vector[q]
    BY <1>1, <1>4
  <1>6. \A q \in Props : call[t].op = "delete" /\ q \in Taken(call[t].op, call[t].prop)
                        => q = call[t].prop
    BY DEF Taken
  <1> QED
    BY <1>1, <1>3, <1>5, <1>6

\* A creation leaves the cache a cache.
LEMMA StoredTypes ==
    ASSUME TypeOK, NEW p, NEW image \in {"fresh", "rebuilt"}, NEW f \in Stored(p, image)
    PROVE  f \in [Props -> {"none", "fresh", "obsolete", "rebuilt"}]
  <1>1. f = preview \/ f = [preview EXCEPT ![p] = image]
    BY DEF Stored
  <1> QED
    BY <1>1 DEF TypeOK

\* A rebuild is at a BLOB vector.
LEMMA RebuildTypes ==
    ASSUME TypeOK, NEW p \in Blobs, BeginRebuild(p) \/ ContinueRebuild(p)
    PROVE  /\ rebuilds' \in Seq(Rebuild)
           /\ preview' \in [Props -> {"none", "fresh", "obsolete", "rebuilt"}]
  <1>1. rebuilds \in Seq(Rebuild) /\ Len(nested) \in Nat
    <2>1. rebuilds \in Seq(Rebuild) /\ nested \in Seq(Event)
      BY DEF TypeOK
    <2> QED
      BY <2>1, SeqDomain
  <1>2. CASE BeginRebuild(p)
    <2>1. [prop |-> p, inside |-> Len(nested)] \in Rebuild
      BY <1>1 DEF Rebuild
    <2>2. rebuilds' \in Seq(Rebuild)
      BY <1>1, <1>2, <2>1, AppendElement DEF BeginRebuild
    <2> QED
      BY <1>2, <2>2 DEF BeginRebuild, TypeOK
  <1>3. CASE ContinueRebuild(p)
    <2>1. rebuilds' = [rebuilds EXCEPT ![Len(rebuilds)].prop = p] /\ rebuilds # <<>>
      BY <1>3 DEF ContinueRebuild, InRebuild
    <2>2. Len(rebuilds) \in DOMAIN rebuilds /\ rebuilds[Len(rebuilds)] \in Rebuild
      BY <1>1, <2>1
    <2>3. [rebuilds[Len(rebuilds)] EXCEPT !.prop = p] \in Rebuild
      BY <2>2 DEF Rebuild
    <2>4. rebuilds' \in Seq(Rebuild)
      BY <1>1, <2>1, <2>2, <2>3
    <2>5. PICK stored \in Stored(Last(rebuilds).prop, "rebuilt") :
            preview' = [stored EXCEPT ![p] = "none"]
      BY <1>3 DEF ContinueRebuild
    <2>6. stored \in [Props -> {"none", "fresh", "obsolete", "rebuilt"}]
      BY <2>5, StoredTypes
    <2> QED
      BY <2>4, <2>5, <2>6
  <1> QED
    BY <1>2, <1>3

\* Every step of the pipeline preserves the types.
LEMMA NextTypeInv == TypeInv /\ [Next]_vars => TypeInv'
  <1> SUFFICES ASSUME TypeInv, [Next]_vars PROVE TypeInv'
    OBVIOUS
  <1> USE PipelineAssumption
  <1>1. ASSUME NEW t \in Servers, NEW p \in Props, NEW s \in States[p],
               ClientDefineProperty(t, p, s) \/ ClientUpdateProperty(t, p, s)
        PROVE  TypeInv'
    <2>1. s \in AllStates /\ s \notin Gone
      BY DEF AllStates, Gone
    <2>2. vector' = [vector EXCEPT ![p] = s] /\ vector \in [Props -> AllStates \cup Gone]
      BY <1>1 DEF ClientDefineProperty, ClientUpdateProperty, TypeInv, TypeOK
    <2>3. /\ vector' \in [Props -> AllStates \cup Gone]
          /\ vector'[p] \notin Gone
          /\ \A q \in Props : q # p => vector'[q] = vector[q]
      BY <2>1, <2>2
    <2>4. \E op \in PropertyKinds : Enter(t, op, p, FirstStep(op, p))
      BY <1>1 DEF ClientDefineProperty, ClientUpdateProperty, PropertyKinds
    <2> QED
      BY <2>3, <2>4, EnterTypes
  <1>2. ASSUME NEW t \in Servers, NEW p \in Props, NEW op \in {"delete"} \cup Sweeps,
               ClientDeleteProperty(t, op, p)
        PROVE  TypeInv'
    <2>1. op \in PropertyKinds
      BY DEF PropertyKinds, Deletions
    <2> QED
      BY <1>2, <2>1, EnterTypes DEF ClientDeleteProperty, TypeInv, TypeOK
  <1>3. ASSUME NEW t \in Servers, NEW p \in Props, ClientReceiveMessage(t, p)
        PROVE  TypeInv'
    BY <1>3, EnterTypes DEF ClientReceiveMessage, TypeInv, TypeOK
  <1>4. ASSUME NEW t \in Servers, EmitPreview(t)
        PROVE  TypeInv'
    <2> DEFINE c == [call[t] EXCEPT !.step = "first"]
    <2>1. /\ call[t] \in Call /\ call[t].step = "preview" /\ call[t].prop \in Props
          /\ call[t].op \in PropertyKinds /\ call[t].cell = NoCell
      BY <1>4, RunningCall DEF EmitPreview
    <2>2. c \in Call /\ c.prop = call[t].prop /\ call' = [call EXCEPT ![t] = c]
      BY <1>4, <2>1 DEF EmitPreview, Call
    <2>3. PreviewKind(call[t].op, vector[call[t].prop]) \in PreviewKinds
      BY DEF PreviewKind, PreviewKinds
    <2>4. queue' \in Seq(Event) /\ blocked' \subseteq Servers
      BY <1>4, <2>1, <2>3, PostTypes DEF EmitPreview, TypeInv
    <2>5. UNCHANGED <<vector, nested, rebuilds, heap, text, message, node, preview>>
      BY <1>4 DEF EmitPreview, copyVars, loopVars, guiVars
    <2>6. call' \in [Servers -> Call \cup {Resting}] /\ CallsAboutOwnVector'
      BY <2>1, <2>2, <2>5, AdvanceTypes
    <2> QED
      BY <2>4, <2>5, <2>6 DEF TypeInv, TypeOK
  <1>5. ASSUME NEW t \in Servers, EmitFirst(t)
        PROVE  TypeInv'
    <2>1. /\ call[t] \in Call /\ call[t].step = "first" /\ call[t].prop \in Props
          /\ call[t].op \in PropertyKinds /\ vector[call[t].prop] \in AllStates
      BY <1>5, RunningCall DEF EmitFirst
    <2>2. PICK c \in Cells, withMessage \in Messages,
               withText \in TextOf(call[t].op, call[t].prop) :
            /\ Allocate(c, vector[call[t].prop], withText, withMessage)
            /\ Post(t, Receivers(call[t].op)[1], c)
            /\ call' = [call EXCEPT ![t].step = "second", ![t].cell = c]
      BY <1>5 DEF EmitFirst
    <2> DEFINE d == [call[t] EXCEPT !.step = "second", !.cell = c]
    <2>3. d \in Call /\ d.prop = call[t].prop /\ call' = [call EXCEPT ![t] = d]
      BY <2>1, <2>2 DEF Call
    <2>4. queue' \in Seq(Event) /\ blocked' \subseteq Servers
      <3>1. Receivers(call[t].op)[1] \in Kinds \ PreviewKinds
        BY DEF Receivers, Kinds, PreviewKinds
      <3> QED
        BY <2>1, <2>2, <3>1, PostTypes DEF TypeInv
    <2>5. UNCHANGED <<vector, nested, rebuilds, node, preview>>
      BY <1>5 DEF EmitFirst, loopVars, guiVars
    <2>6. /\ heap' \in [Cells -> AllStates \cup {"free"}]
          /\ text' \in [Cells -> {"none", "own", "freed", "freed twice"}]
          /\ message' \in [Cells -> {"none", "live", "freed", "freed twice"}]
      <3>1. withText \in {"none", "own"}
        BY DEF TextOf
      <3> QED
        BY <2>1, <2>2, <3>1 DEF Allocate, TypeInv, TypeOK
    <2>7. call' \in [Servers -> Call \cup {Resting}] /\ CallsAboutOwnVector'
      BY <2>1, <2>3, <2>5, AdvanceTypes
    <2> QED
      BY <2>4, <2>5, <2>6, <2>7 DEF TypeInv, TypeOK
  <1>6. ASSUME NEW t \in Servers, EmitSecond(t)
        PROVE  TypeInv'
    <2> DEFINE c == [call[t] EXCEPT !.step = "return", !.cell = NoCell]
    <2>1. /\ call[t] \in Call /\ call[t].step = "second" /\ call[t].prop \in Props
          /\ call[t].op \in PropertyKinds /\ call[t].cell \in Cells
      BY <1>6, RunningCall DEF EmitSecond
    <2>2. c \in Call /\ c.prop = call[t].prop /\ call' = [call EXCEPT ![t] = c]
      BY <1>6, <2>1 DEF EmitSecond, Call
    <2>3. queue' \in Seq(Event) /\ blocked' \subseteq Servers
      <3>1. Receivers(call[t].op)[2] \in Kinds \ PreviewKinds
        BY <2>1 DEF Receivers, Kinds, PreviewKinds, PropertyKinds, Deletions, AllSweeps
      <3> QED
        BY <1>6, <2>1, <3>1, PostTypes DEF EmitSecond, TypeInv
    <2>4. UNCHANGED <<vector, nested, rebuilds, heap, text, message, node, preview>>
      BY <1>6 DEF EmitSecond, copyVars, loopVars, guiVars
    <2>5. call' \in [Servers -> Call \cup {Resting}] /\ CallsAboutOwnVector'
      BY <2>1, <2>2, <2>4, AdvanceTypes
    <2> QED
      BY <2>3, <2>4, <2>5 DEF TypeInv, TypeOK
  <1>7. ASSUME NEW t \in Servers, EmitMessage(t)
        PROVE  TypeInv'
    <2> DEFINE d == [call[t] EXCEPT !.step = "return"]
    <2>1. /\ call[t] \in Call /\ call[t].step = "message" /\ call[t].prop \in Props
          /\ vector[call[t].prop] \in AllStates
          /\ call[t].op = "message" /\ call[t].cell = NoCell
      BY <1>7, RunningCall DEF EmitMessage
    <2>2. PICK c \in Cells : /\ Allocate(c, vector[call[t].prop], "none", TRUE)
                             /\ Post(t, "message", c)
      BY <1>7 DEF EmitMessage
    <2>3. d \in Call /\ d.prop = call[t].prop /\ call' = [call EXCEPT ![t] = d]
      BY <1>7, <2>1 DEF EmitMessage, Call
    <2>4. queue' \in Seq(Event) /\ blocked' \subseteq Servers
      <3>1. "message" \in Kinds \ PreviewKinds
        BY DEF Kinds, PreviewKinds
      <3> QED
        BY <2>1, <2>2, <3>1, PostTypes DEF TypeInv
    <2>5. UNCHANGED <<vector, nested, rebuilds, node, preview>>
      BY <1>7 DEF EmitMessage, loopVars, guiVars
    <2>6. /\ heap' \in [Cells -> AllStates \cup {"free"}]
          /\ text' \in [Cells -> {"none", "own", "freed", "freed twice"}]
          /\ message' \in [Cells -> {"none", "live", "freed", "freed twice"}]
      BY <2>1, <2>2 DEF Allocate, TypeInv, TypeOK
    <2>7. call' \in [Servers -> Call \cup {Resting}] /\ CallsAboutOwnVector'
      BY <2>1, <2>3, <2>5, AdvanceTypes
    <2> QED
      BY <2>4, <2>5, <2>6, <2>7 DEF TypeInv, TypeOK
  <1>8. ASSUME NEW t \in Servers, Return(t)
        PROVE  TypeInv'
    <2>1. call[t] \in Call /\ call[t].prop \in Props /\ Owner[call[t].prop] = t
      BY <1>8, RunningCall DEF Return, Running, TypeInv, CallsAboutOwnVector
    <2>2. /\ call' = [call EXCEPT ![t] = Resting]
          /\ UNCHANGED <<blocked, queue, nested, rebuilds, heap, text, message, node,
                         preview>>
      BY <1>8 DEF Return, copyVars, loopVars, guiVars
    <2>3. /\ vector' \in [Props -> AllStates \cup Gone]
          /\ \A q \in Props : Owner[q] # t => vector'[q] = vector[q]
      BY <1>8, <2>1, ReturnFrees
    <2>4. TypeOK'
      BY <2>2, <2>3 DEF TypeInv, TypeOK
    <2>5. ASSUME NEW u \in Servers, ~Idle(u)'
          PROVE  Owner[call'[u].prop] = u /\ vector'[call'[u].prop] \notin Gone
      <3>1. u # t /\ call'[u] = call[u] /\ ~Idle(u)
        BY <2>2, <2>5 DEF TypeInv, TypeOK, Idle
      <3>2. call[u] \in Call
        BY <3>1 DEF TypeInv, TypeOK, Idle
      <3>3. call[u].prop \in Props /\ Owner[call[u].prop] = u
        BY <3>1, <3>2 DEF TypeInv, CallsAboutOwnVector, Call
      <3> QED
        BY <3>1, <3>3, <2>3 DEF TypeInv, CallsAboutOwnVector
    <2> QED
      BY <2>4, <2>5 DEF TypeInv, CallsAboutOwnVector
  <1>9. ASSUME UNCHANGED <<vector, call>>, TypeOK'
        PROVE  TypeInv'
    BY <1>9 DEF TypeInv, CallsAboutOwnVector, Idle
  <1>10. CASE OnMessageSent
    <2>1. queue' \in Seq(Event) /\ Head(queue).cell \in Cells
      BY <1>10, TakeTypes DEF OnMessageSent, TypeInv, Kinds, PreviewKinds
    <2>2. message' \in [Cells -> {"none", "live", "freed", "freed twice"}]
      BY <1>10, <2>1 DEF OnMessageSent, FreeMessage, TypeInv, TypeOK
    <2>3. UNCHANGED <<vector, call, blocked, nested, rebuilds, heap, text, node, preview>>
      BY <1>10 DEF OnMessageSent, busVars, loopVars, guiVars
    <2> QED
      BY <1>9, <2>1, <2>2, <2>3 DEF TypeInv, TypeOK
  <1>11. CASE OnMessageReceived
    <2>1. queue' \in Seq(Event) /\ Head(queue).cell \in Cells
      BY <1>11, TakeTypes DEF OnMessageReceived, TypeInv, Kinds, PreviewKinds
    <2>2. message' \in [Cells -> {"none", "live", "freed", "freed twice"}]
      BY <1>11, <2>1 DEF OnMessageReceived, FreeMessage, ForgetMessage, TypeInv, TypeOK
    <2>3. heap' \in [Cells -> AllStates \cup {"free"}]
      BY <1>11, <2>1 DEF OnMessageReceived, TypeInv, TypeOK
    <2>4. UNCHANGED <<vector, call, blocked, nested, rebuilds, text, node, preview>>
      BY <1>11 DEF OnMessageReceived, busVars, loopVars, guiVars
    <2> QED
      BY <1>9, <2>1, <2>2, <2>3, <2>4 DEF TypeInv, TypeOK
  <1>12. CASE OnCreatePreview
    <2>1. queue' \in Seq(Event) /\ Head(queue) \in Event
      BY <1>12, TakeTypes DEF OnCreatePreview, TypeInv
    <2>2. nested' \in Seq(Event)
      BY <1>12, <2>1, AppendElement DEF OnCreatePreview, TypeInv, TypeOK
    <2>3. preview' \in [Props -> {"none", "fresh", "obsolete", "rebuilt"}]
      BY <1>12 DEF OnCreatePreview, TypeInv, TypeOK
    <2>4. UNCHANGED <<vector, call, blocked, rebuilds, heap, text, message, node>>
      BY <1>12 DEF OnCreatePreview, busVars, copyVars
    <2> QED
      BY <1>9, <2>1, <2>2, <2>3, <2>4 DEF TypeInv, TypeOK
  <1>13. ASSUME NEW t \in Servers, FinishCreatePreview(t)
         PROVE  TypeInv'
    <2>1. nested' \in Seq(Event)
      BY <1>13, FrontElement DEF FinishCreatePreview, InCreation, TypeInv, TypeOK
    <2>2. preview' \in [Props -> {"none", "fresh", "obsolete", "rebuilt"}]
      BY <1>13, StoredTypes DEF FinishCreatePreview, TypeInv
    <2>3. blocked' \subseteq Servers
      BY <1>13 DEF FinishCreatePreview, Wake, TypeInv, TypeOK
    <2>4. UNCHANGED <<vector, call, queue, rebuilds, heap, text, message, node>>
      BY <1>13 DEF FinishCreatePreview, busVars, copyVars
    <2> QED
      BY <1>9, <2>1, <2>2, <2>3, <2>4 DEF TypeInv, TypeOK
  <1>14. CASE OnObsoletePreview
    <2>1. queue' \in Seq(Event)
      BY <1>14, TakeTypes DEF OnObsoletePreview, TypeInv
    <2>2. preview' \in [Props -> {"none", "fresh", "obsolete", "rebuilt"}]
      BY <1>14 DEF OnObsoletePreview, TypeInv, TypeOK
    <2>3. UNCHANGED <<vector, call, nested, rebuilds, heap, text, message, node>>
      BY <1>14 DEF OnObsoletePreview, busVars, loopVars, copyVars
    <2>4. blocked' \subseteq Servers
      BY <1>14 DEF OnObsoletePreview, Wake, TypeInv, TypeOK
    <2> QED
      BY <1>9, <2>1, <2>2, <2>3, <2>4 DEF TypeInv, TypeOK
  <1>15. ASSUME NEW kind, RemovePreview(kind)
         PROVE  TypeInv'
    <2>1. queue' \in Seq(Event)
      BY <1>15, TakeTypes DEF RemovePreview, TypeInv
    <2>2. preview' \in [Props -> {"none", "fresh", "obsolete", "rebuilt"}]
      BY <1>15 DEF RemovePreview, TypeInv, TypeOK
    <2>3. UNCHANGED <<vector, call, nested, rebuilds, heap, text, message, node>>
      BY <1>15 DEF RemovePreview, busVars, loopVars, copyVars
    <2>4. blocked' \subseteq Servers
      BY <1>15 DEF RemovePreview, TypeInv, TypeOK
    <2> QED
      BY <1>9, <2>1, <2>2, <2>3, <2>4 DEF TypeInv, TypeOK
  <1>16. CASE DefineProperty
    <2>1. /\ queue' \in Seq(Event)
          /\ Head(queue).cell \in Cells /\ Head(queue).prop \in Props
      BY <1>16, TakeTypes DEF DefineProperty, TypeInv, Kinds, PropertyKinds, PreviewKinds
    <2>2. message' \in [Cells -> {"none", "live", "freed", "freed twice"}]
      <3> DEFINE m == message[Head(queue).cell]
      <3>1. message' = [message EXCEPT ![Head(queue).cell] = FreeMessage(m)]
            \/ message' = [message EXCEPT ![Head(queue).cell] = ForgetMessage(m)]
        BY <1>16 DEF DefineProperty, Discard
      <3>2. m \in {"none", "live", "freed", "freed twice"}
        BY <2>1 DEF TypeInv, TypeOK
      <3>3. /\ FreeMessage(m) \in {"none", "live", "freed", "freed twice"}
            /\ ForgetMessage(m) \in {"none", "live", "freed", "freed twice"}
        BY <3>2 DEF FreeMessage, ForgetMessage
      <3> QED
        BY <3>1, <3>3 DEF TypeInv, TypeOK
    <2>3. heap' \in [Cells -> AllStates \cup {"free"}] /\ node' \in [Props -> Pointer]
      BY <1>16, <2>1 DEF DefineProperty, Discard, TypeInv, TypeOK, Pointer
    <2>6. text' \in [Cells -> {"none", "own", "freed", "freed twice"}]
      <3>1. text[Head(queue).cell] \in {"none", "own", "freed", "freed twice"}
        BY <2>1 DEF TypeInv, TypeOK
      <3>2. FreeText(text[Head(queue).cell]) \in {"none", "own", "freed", "freed twice"}
        BY <3>1 DEF FreeText
      <3>3. \/ text' = [text EXCEPT ![Head(queue).cell] = FreeText(@)]
            \/ text' = text
        BY <1>16 DEF DefineProperty, Discard
      <3> QED
        BY <3>2, <3>3 DEF TypeInv, TypeOK
    <2>4. blocked' \subseteq Servers
      BY <1>16 DEF DefineProperty, Wake, TypeInv, TypeOK
    <2>5. UNCHANGED <<vector, call, nested, rebuilds, preview>>
      BY <1>16 DEF DefineProperty, busVars, loopVars
    <2> QED
      BY <1>9, <2>1, <2>2, <2>3, <2>4, <2>5, <2>6 DEF TypeInv, TypeOK
  <1>17. CASE UpdateProperty
    <2>1. /\ queue' \in Seq(Event)
          /\ Head(queue).cell \in Cells /\ Head(queue).prop \in Props
      BY <1>17, TakeTypes DEF UpdateProperty, TypeInv, Kinds, PropertyKinds, PreviewKinds
    <2>2. message' \in [Cells -> {"none", "live", "freed", "freed twice"}]
      <3> DEFINE m == message[Head(queue).cell]
      <3>1. message' = [message EXCEPT ![Head(queue).cell] = FreeMessage(m)]
            \/ message' = [message EXCEPT ![Head(queue).cell] = ForgetMessage(m)]
        BY <1>17 DEF UpdateProperty, Discard
      <3>2. m \in {"none", "live", "freed", "freed twice"}
        BY <2>1 DEF TypeInv, TypeOK
      <3>3. /\ FreeMessage(m) \in {"none", "live", "freed", "freed twice"}
            /\ ForgetMessage(m) \in {"none", "live", "freed", "freed twice"}
        BY <3>2 DEF FreeMessage, ForgetMessage
      <3> QED
        BY <3>1, <3>3 DEF TypeInv, TypeOK
    <2>3. heap' \in [Cells -> AllStates \cup {"free"}]
      <3> DEFINE c == Head(queue).cell
                 h == [heap EXCEPT ![node[Head(queue).prop]] = heap[c]]
      <3>1. heap \in [Cells -> AllStates \cup {"free"}] /\ heap[c] \in AllStates \cup {"free"}
        BY <2>1 DEF TypeInv, TypeOK
      <3>2. h \in [Cells -> AllStates \cup {"free"}]
        BY <3>1
      <3>3. heap' = [heap EXCEPT ![c] = "free"] \/ heap' = [h EXCEPT ![c] = "free"]
        BY <1>17 DEF UpdateProperty, Discard
      <3> HIDE DEF c, h
      <3> QED
        BY <3>1, <3>2, <3>3
    <2>6. text' \in [Cells -> {"none", "own", "freed", "freed twice"}]
      <3>1. text[Head(queue).cell] \in {"none", "own", "freed", "freed twice"}
        BY <2>1 DEF TypeInv, TypeOK
      <3>2. FreeText(text[Head(queue).cell]) \in {"none", "own", "freed", "freed twice"}
        BY <3>1 DEF FreeText
      <3>3. \/ text' = [text EXCEPT ![Head(queue).cell] = FreeText(@)]
            \/ \E x \in {"none", "freed"} :
                 text' = [text EXCEPT ![node[Head(queue).prop]] = x,
                                      ![Head(queue).cell] = FreeText(@)]
        BY <1>17 DEF UpdateProperty, Discard
      <3> QED
        BY <3>2, <3>3 DEF TypeInv, TypeOK, FreeText
    <2>4. blocked' \subseteq Servers
      BY <1>17 DEF UpdateProperty, Wake, TypeInv, TypeOK
    <2>5. UNCHANGED <<vector, call, nested, rebuilds, node, preview>>
      BY <1>17 DEF UpdateProperty, busVars, loopVars, guiVars
    <2> QED
      BY <1>9, <2>1, <2>2, <2>3, <2>4, <2>5, <2>6 DEF TypeInv, TypeOK
  <1>18. CASE DeleteProperty
    <2>1. /\ queue' \in Seq(Event)
          /\ Head(queue).cell \in Cells /\ Head(queue).prop \in Props
      BY <1>18, TakeTypes DEF DeleteProperty, TypeInv, Kinds, PropertyKinds, Deletions,
                              AllSweeps, PreviewKinds
    <2>2. message' \in [Cells -> {"none", "live", "freed", "freed twice"}]
      BY <1>18, <2>1 DEF DeleteProperty, ForgetMessage, TypeInv, TypeOK
    <2>3. heap' \in [Cells -> AllStates \cup {"free"}] /\ node' \in [Props -> Pointer]
      BY <1>18, <2>1 DEF DeleteProperty, TypeInv, TypeOK, Pointer
    <2>4. UNCHANGED <<vector, call, blocked, nested, rebuilds, preview>>
      BY <1>18 DEF DeleteProperty, busVars, loopVars
    <2>5. text' \in [Cells -> {"none", "own", "freed", "freed twice"}]
      BY <1>18 DEF DeleteProperty, FreeText, TypeInv, TypeOK
    <2> QED
      BY <1>9, <2>1, <2>2, <2>3, <2>4, <2>5 DEF TypeInv, TypeOK
  <1>19. ASSUME NEW p \in Blobs, BeginRebuild(p) \/ ContinueRebuild(p)
         PROVE  TypeInv'
    <2>1. rebuilds' \in Seq(Rebuild)
      BY <1>19, RebuildTypes DEF TypeInv
    <2>2. preview' \in [Props -> {"none", "fresh", "obsolete", "rebuilt"}]
      BY <1>19, RebuildTypes DEF TypeInv
    <2>3. UNCHANGED <<vector, call, blocked, queue, nested, heap, text, message, node>>
      BY <1>19 DEF BeginRebuild, ContinueRebuild, busVars, copyVars
    <2> QED
      BY <1>9, <2>1, <2>2, <2>3 DEF TypeInv, TypeOK
  <1>20. CASE EndRebuild
    <2>1. rebuilds' \in Seq(Rebuild)
      BY <1>20, FrontElement DEF EndRebuild, InRebuild, TypeInv, TypeOK
    <2>2. preview' \in [Props -> {"none", "fresh", "obsolete", "rebuilt"}]
      BY <1>20, StoredTypes DEF EndRebuild, TypeInv
    <2>3. UNCHANGED <<vector, call, blocked, queue, nested, heap, text, message, node>>
      BY <1>20 DEF EndRebuild, busVars, copyVars
    <2> QED
      BY <1>9, <2>1, <2>2, <2>3 DEF TypeInv, TypeOK
  <1>21. CASE UNCHANGED vars
    BY <1>9, <1>21 DEF vars, TypeInv, TypeOK
  <1> QED
    BY <1>1, <1>2, <1>3, <1>4, <1>5, <1>6, <1>7, <1>8, <1>10, <1>11, <1>12,
       <1>13, <1>14, <1>15, <1>16, <1>17, <1>18, <1>19, <1>20, <1>21
       DEF Next, BusCall, BusStep, Handle, OnRemovePreview, OnNoPreview, RebuildPreviews

\* The type invariant and its strengthening hold in every run.
LEMMA SpecTypeInv == Spec => []TypeInv
  BY InitTypeInv, NextTypeInv, PTL DEF Spec

\* Every state of every run has the types of TypeOK: the copies, the events
\* and the calls in progress are what the callbacks and slots expect.
THEOREM TypeCorrect == Spec => []TypeOK
  BY SpecTypeInv, PTL DEF TypeInv

-----------------------------------------------------------------------------
(* Ownership of the copies.  The invariant is CopyOwnership with the three *)
(* kinds of holders, an event, a call and a node, kept apart.              *)

\* Event i of queue q is responsible for the copy in cell c.
Carries(q, i, c) == i \in DOMAIN q /\ q[i].kind \in Owning /\ q[i].cell = c

\* The call of t is.
Keeps(t, c) == HoldsCopy(t) /\ call[t].cell = c

Held(c) == \/ \E i \in DOMAIN queue : Carries(queue, i, c)
           \/ \E t \in Servers : Keeps(t, c)
           \/ \E p \in Props : node[p] = c

HeldOnce(c) ==
    /\ \A i, j \in DOMAIN queue :
         Carries(queue, i, c) /\ Carries(queue, j, c) => i = j
    /\ \A t, u \in Servers : Keeps(t, c) /\ Keeps(u, c) => t = u
    /\ \A p, q \in Props : node[p] = c /\ node[q] = c => p = q
    /\ \A i \in DOMAIN queue, t \in Servers : ~(Carries(queue, i, c) /\ Keeps(t, c))
    /\ \A i \in DOMAIN queue, p \in Props : ~(Carries(queue, i, c) /\ node[p] = c)
    /\ \A t \in Servers, p \in Props : ~(Keeps(t, c) /\ node[p] = c)

\* The cell is allocated exactly while something is responsible for it.
HeldRight(c) == (heap[c] # "free" <=> Held(c)) /\ HeldOnce(c)

OwnershipInv == \A c \in Cells : HeldRight(c)

\* What appending an event changes: the copies the event is responsible for.
LEMMA CarriesAppend ==
    ASSUME NEW q \in Seq(Event), NEW e \in Event, NEW i, NEW c
    PROVE  Carries(Append(q, e), i, c) <=>
             \/ Carries(q, i, c)
             \/ i = Len(q) + 1 /\ e.kind \in Owning /\ e.cell = c
  <1> DEFINE a == Append(q, e)
  <1>1. DOMAIN q = 1 .. Len(q) /\ Len(q) \in Nat
    BY SeqDomain
  <1>2. DOMAIN a = 1 .. Len(q) + 1 /\ a[Len(q) + 1] = e
    BY AppendElement
  <1>3. \A k \in DOMAIN q : a[k] = q[k]
    BY AppendElement
  <1>4. CASE i \in DOMAIN q
    BY <1>1, <1>2, <1>3, <1>4 DEF Carries
  <1>5. CASE i = Len(q) + 1
    BY <1>1, <1>2, <1>5 DEF Carries
  <1>6. CASE i \notin DOMAIN q /\ i # Len(q) + 1
    <2>1. i \notin DOMAIN a
      BY <1>1, <1>2, <1>6
    <2> QED
      BY <2>1, <1>6 DEF Carries
  <1> QED
    BY <1>4, <1>5, <1>6

\* What taking the head changes: the others move one place forward.
LEMMA CarriesTail ==
    ASSUME NEW q \in Seq(Event), q # <<>>, NEW c
    PROVE  /\ \A i \in DOMAIN Tail(q) : /\ i \in Nat
                                        /\ i + 1 \in DOMAIN q
                                        /\ i + 1 # 1
                                        /\ (Carries(Tail(q), i, c) <=> Carries(q, i + 1, c))
           /\ \A i \in DOMAIN q : i # 1 => /\ i - 1 \in DOMAIN Tail(q)
                                           /\ i = (i - 1) + 1
           /\ (Carries(q, 1, c) <=> (Head(q).kind \in Owning /\ Head(q).cell = c))
  <1>1. /\ DOMAIN q = 1 .. Len(q) /\ Len(q) \in Nat
        /\ DOMAIN Tail(q) = 1 .. Len(q) - 1
        /\ Head(q) = q[1] /\ 1 \in DOMAIN q
        /\ \A i \in DOMAIN Tail(q) : i + 1 \in DOMAIN q /\ Tail(q)[i] = q[i + 1]
    BY SeqDomain, TailElement
  <1> QED
    BY <1>1 DEF Carries

\* The calls that keep a copy are those at their second receiver; a change of
\* another call, or of a call from and to another step, changes nothing.
LEMMA KeepsSame ==
    ASSUME TypeInv, NEW t \in Servers, NEW d \in Call \cup {Resting},
           call' = [call EXCEPT ![t] = d],
           ~HoldsCopy(t), d = Resting \/ d.step # "second"
    PROVE  \A u \in Servers, c \in Cells : Keeps(u, c)' <=> Keeps(u, c)
  <1>1. \A u \in Servers : u # t => call'[u] = call[u]
    BY DEF TypeInv, TypeOK
  <1>2. call'[t] = d
    BY DEF TypeInv, TypeOK
  <1>3. ~HoldsCopy(t)'
    BY <1>2 DEF HoldsCopy, Idle
  <1> QED
    BY <1>1, <1>3 DEF Keeps, HoldsCopy, Idle

\* A cell whose holders stay what they are, in a step that takes no event.
LEMMA SameHolders ==
    ASSUME NEW c \in Cells, HeldRight(c),
           \A i : Carries(queue', i, c) <=> Carries(queue, i, c),
           \A u \in Servers : Keeps(u, c)' <=> Keeps(u, c),
           \A p \in Props : node'[p] = c <=> node[p] = c,
           heap'[c] = "free" <=> heap[c] = "free"
    PROVE  HeldRight(c)'
  <1>1. \A i : Carries(queue', i, c) => i \in DOMAIN queue' /\ i \in DOMAIN queue
    BY DEF Carries
  <1>2. Held(c)' <=> Held(c)
    BY <1>1 DEF Held, Carries
  <1>3. HeldOnce(c)'
    BY <1>1 DEF HeldOnce, HeldRight
  <1> QED
    BY <1>2, <1>3 DEF HeldRight

\* A cell whose holders stay what they are, when an event is taken.
LEMMA SameHoldersTail ==
    ASSUME TypeInv, NEW c \in Cells, HeldRight(c),
           queue # <<>>, queue' = Tail(queue), ~Carries(queue, 1, c),
           \A u \in Servers : Keeps(u, c)' <=> Keeps(u, c),
           \A p \in Props : node'[p] = c <=> node[p] = c,
           heap'[c] = "free" <=> heap[c] = "free"
    PROVE  HeldRight(c)'
  <1>1. /\ \A i \in DOMAIN queue' : /\ i \in Nat /\ i + 1 \in DOMAIN queue
                                    /\ (Carries(queue', i, c) <=> Carries(queue, i + 1, c))
        /\ \A i \in DOMAIN queue : i # 1 => i - 1 \in DOMAIN queue' /\ i = (i - 1) + 1
    BY CarriesTail DEF TypeInv, TypeOK
  <1>2. Held(c)' <=> Held(c)
    BY <1>1 DEF Held
  <1>3. HeldOnce(c)'
    BY <1>1 DEF HeldOnce, HeldRight
  <1> QED
    BY <1>2, <1>3 DEF HeldRight

\* The copy of the event that is taken has no other holder.
LEMMA OnlyHead ==
    ASSUME TypeInv, NEW c \in Cells, HeldRight(c),
           queue # <<>>, queue' = Tail(queue), Carries(queue, 1, c)
    PROVE  /\ \A i \in DOMAIN queue' : ~Carries(queue', i, c)
           /\ \A u \in Servers : ~Keeps(u, c)
           /\ \A p \in Props : node[p] # c
           /\ heap[c] # "free"
  <1>1. /\ \A i \in DOMAIN queue' : /\ i + 1 \in DOMAIN queue /\ i + 1 # 1
                                    /\ (Carries(queue', i, c) <=> Carries(queue, i + 1, c))
    BY CarriesTail DEF TypeInv, TypeOK
  <1>2. 1 \in DOMAIN queue
    BY TailElement DEF TypeInv, TypeOK
  <1> QED
    BY <1>1, <1>2 DEF HeldRight, HeldOnce, Held

\* A cell that is free has no holder.
LEMMA FreeUnheld ==
    ASSUME NEW c \in Cells, HeldRight(c), heap[c] = "free"
    PROVE  /\ \A i : ~Carries(queue, i, c)
           /\ \A u \in Servers : ~Keeps(u, c)
           /\ \A p \in Props : node[p] # c
    BY DEF HeldRight, Held, Carries

\* A cell that loses its last holder is free.
LEMMA Released ==
    ASSUME NEW c \in Cells,
           \A i \in DOMAIN queue' : ~Carries(queue', i, c),
           \A u \in Servers : ~Keeps(u, c)',
           \A p \in Props : node'[p] # c,
           heap'[c] = "free"
    PROVE  HeldRight(c)'
    BY DEF HeldRight, Held, HeldOnce

\* A callback that enters, returns or emits its preview holds no copy and
\* changes no holder.
LEMMA CallMovesNothing ==
    ASSUME TypeInv, OwnershipInv, NEW t \in Servers,
           \/ \E p \in Props : \E op, step : /\ step \in {"preview", "first", "message"}
                                             /\ Enter(t, op, p, step)
           \/ EmitPreview(t)
           \/ Return(t)
    PROVE  OwnershipInv'
  <1> SUFFICES ASSUME NEW c \in Cells PROVE HeldRight(c)'
    BY DEF OwnershipInv
  <1>1. HeldRight(c)
    BY DEF OwnershipInv
  <1>2. UNCHANGED <<heap, node>>
    BY DEF Enter, EmitPreview, Return, copyVars, guiVars
  <1>3. ~HoldsCopy(t)
    BY DEF Enter, EmitPreview, Return, Running, HoldsCopy
  <1>4. \A u \in Servers : Keeps(u, c)' <=> Keeps(u, c)
    <2>1. \A u \in Servers : u # t => call'[u] = call[u]
      BY DEF Enter, EmitPreview, Return, TypeInv, TypeOK
    <2>2. ~HoldsCopy(t)'
      <3>1. CASE EmitPreview(t)
        <4>1. call[t] \in Call
          BY <3>1, RunningCall DEF EmitPreview
        <4>2. call'[t] = [call[t] EXCEPT !.step = "first"]
          BY <3>1 DEF EmitPreview, TypeInv, TypeOK
        <4>3. call'[t].step = "first"
          BY <4>1, <4>2 DEF Call
        <4> QED
          BY <4>3 DEF HoldsCopy
      <3>2. CASE Return(t)
        BY <3>2 DEF Return, HoldsCopy, Idle, TypeInv, TypeOK
      <3>3. CASE \E p \in Props : \E op, step : /\ step \in {"preview", "first", "message"}
                                                /\ Enter(t, op, p, step)
        <4>1. PICK p \in Props : \E op, step :
                /\ step \in {"preview", "first", "message"}
                /\ Enter(t, op, p, step)
          BY <3>3
        <4>2. PICK op, step : /\ step \in {"preview", "first", "message"}
                              /\ Enter(t, op, p, step)
          BY <4>1
        <4>3. call'[t].step = step
          BY <4>2 DEF Enter, TypeInv, TypeOK
        <4> QED
          BY <4>2, <4>3 DEF HoldsCopy
      <3> QED
        BY <3>1, <3>2, <3>3
    <2> QED
      BY <1>3, <2>1, <2>2 DEF Keeps, HoldsCopy, Idle
  <1>5. \A i : Carries(queue', i, c) <=> Carries(queue, i, c)
    <2>1. CASE EmitPreview(t)
      <3> DEFINE k == PreviewKind(call[t].op, vector[call[t].prop])
                 e == [kind |-> k, thread |-> t, prop |-> call[t].prop, cell |-> NoCell]
      <3>1. k \in PreviewKinds /\ k \notin Owning
        BY DEF PreviewKind, PreviewKinds, Owning, PropertyKinds, Deletions, AllSweeps
      <3>2. call[t].prop \in Props
        BY <2>1, RunningCall DEF EmitPreview
      <3>3. e \in Event
        BY <3>1, <3>2 DEF Event
      <3>4. queue' = Append(queue, e) /\ queue \in Seq(Event)
        BY <2>1 DEF EmitPreview, Post, TypeInv, TypeOK
      <3>5. \A i : Carries(Append(queue, e), i, c) <=> Carries(queue, i, c)
        BY <3>1, <3>3, <3>4, CarriesAppend
      <3> QED
        BY <3>4, <3>5
    <2>2. CASE ~EmitPreview(t)
      BY <2>2 DEF Enter, Return
    <2> QED
      BY <2>1, <2>2
  <1> QED
    BY <1>1, <1>2, <1>4, <1>5, SameHolders

\* The copy moves from the heap to the call that has made it.
LEMMA EmitFirstOwns ==
    ASSUME TypeInv, OwnershipInv, NEW t \in Servers, EmitFirst(t)
    PROVE  OwnershipInv'
  <1>1. /\ call[t] \in Call /\ call[t].step = "first" /\ call[t].prop \in Props
        /\ call[t].op \in PropertyKinds /\ vector[call[t].prop] \in AllStates
    BY RunningCall DEF EmitFirst
  <1>2. PICK d \in Cells, withMessage \in Messages,
             withText \in TextOf(call[t].op, call[t].prop) :
          /\ Allocate(d, vector[call[t].prop], withText, withMessage)
          /\ Post(t, "log", d)
          /\ call' = [call EXCEPT ![t].step = "second", ![t].cell = d]
    BY DEF EmitFirst, Receivers
  <1> DEFINE e == [kind |-> "log", thread |-> t, prop |-> call[t].prop, cell |-> d]
  <1>3. /\ queue \in Seq(Event) /\ e \in Event /\ e.kind \notin Owning
        /\ queue' = Append(queue, e)
    BY <1>1, <1>2 DEF Post, TypeInv, TypeOK, Event, Kinds, PreviewKinds, Owning,
                      PropertyKinds, Deletions, AllSweeps
  <1>4. \A c, i : Carries(queue', i, c) <=> Carries(queue, i, c)
    <2>1. \A c, i : Carries(Append(queue, e), i, c) <=> Carries(queue, i, c)
      BY <1>3, CarriesAppend
    <2> QED
      BY <1>3, <2>1
  <1>5. /\ node' = node
        /\ \A c \in Cells : c # d => heap'[c] = heap[c]
        /\ heap[d] = "free" /\ heap'[d] # "free"
    BY ZenonT(60), <1>1, <1>2, PipelineAssumption
       DEF EmitFirst, guiVars, Allocate, TypeInv, TypeOK, AllStates
  <1>6. /\ \A u \in Servers : u # t => call'[u] = call[u]
        /\ call'[t] = [call[t] EXCEPT !.step = "second", !.cell = d]
    BY <1>2 DEF TypeInv, TypeOK
  <1>7. ~HoldsCopy(t) /\ Keeps(t, d)' /\ call'[t].cell = d
    <2>1. call'[t] # Resting /\ call'[t].step = "second" /\ call'[t].cell = d
      BY <1>1, <1>6 DEF Call, Resting, PropertyKinds
    <2> QED
      BY <1>1, <2>1 DEF HoldsCopy, Keeps, Idle
  <1>8. \A c \in Cells, u \in Servers :
          Keeps(u, c)' <=> Keeps(u, c) \/ (u = t /\ c = d)
    BY <1>6, <1>7 DEF Keeps, HoldsCopy, Idle
  <1> SUFFICES ASSUME NEW c \in Cells PROVE HeldRight(c)'
    BY DEF OwnershipInv
  <1>9. HeldRight(c)
    BY DEF OwnershipInv
  <1>10. CASE c # d
    BY <1>4, <1>5, <1>8, <1>9, <1>10, SameHolders
  <1>11. CASE c = d
    <2>1. /\ \A i : ~Carries(queue', i, c)
          /\ \A u \in Servers : Keeps(u, c)' <=> u = t
          /\ \A p \in Props : node'[p] # c
      BY <1>4, <1>5, <1>8, <1>9, <1>11, FreeUnheld
    <2> QED
      BY <1>5, <1>11, <2>1 DEF HeldRight, Held, HeldOnce
  <1> QED
    BY <1>10, <1>11

\* The copy moves from the call to the event for the slot of PropertyModel.
LEMMA EmitSecondOwns ==
    ASSUME TypeInv, OwnershipInv, NEW t \in Servers, EmitSecond(t)
    PROVE  OwnershipInv'
  <1> DEFINE d == call[t].cell
             e == [kind |-> call[t].op, thread |-> t, prop |-> call[t].prop, cell |-> d]
  <1>1. /\ call[t] \in Call /\ call[t].step = "second" /\ call[t].prop \in Props
        /\ call[t].op \in PropertyKinds /\ d \in Cells
    BY RunningCall DEF EmitSecond
  <1>2. /\ queue \in Seq(Event) /\ e \in Event /\ e.kind \in Owning /\ e.cell = d
        /\ queue' = Append(queue, e)
    BY <1>1 DEF EmitSecond, Receivers, Post, TypeInv, TypeOK, Event, Kinds,
                PreviewKinds, Owning, PropertyKinds, Deletions, AllSweeps
  <1>3. \A c, i : Carries(queue', i, c) <=>
                    Carries(queue, i, c) \/ (i = Len(queue) + 1 /\ c = d)
    <2>1. \A c, i : Carries(Append(queue, e), i, c) <=>
                      Carries(queue, i, c) \/ (i = Len(queue) + 1 /\ c = d)
      BY <1>2, CarriesAppend
    <2> QED
      BY <1>2, <2>1
  <1>4. UNCHANGED <<heap, node>>
    BY DEF EmitSecond, copyVars, guiVars
  <1>5. /\ \A u \in Servers : u # t => call'[u] = call[u]
        /\ call'[t] = [call[t] EXCEPT !.step = "return", !.cell = NoCell]
    BY DEF EmitSecond, TypeInv, TypeOK
  <1>6. Keeps(t, d) /\ ~HoldsCopy(t)'
    <2>1. Keeps(t, d)
      BY <1>1 DEF Keeps, HoldsCopy, EmitSecond, Running
    <2>2. call'[t].step = "return"
      BY <1>1, <1>5 DEF Call
    <2> QED
      BY <2>1, <2>2 DEF HoldsCopy
  <1>7. \A c \in Cells, u \in Servers : Keeps(u, c)' <=> Keeps(u, c) /\ u # t
    BY <1>5, <1>6 DEF Keeps, HoldsCopy, Idle
  <1> SUFFICES ASSUME NEW c \in Cells PROVE HeldRight(c)'
    BY DEF OwnershipInv
  <1>8. HeldRight(c)
    BY DEF OwnershipInv
  <1>9. CASE c # d
    <2>1. ~Keeps(t, c)
      BY <1>9 DEF Keeps
    <2> QED
      BY <1>3, <1>4, <1>7, <1>8, <1>9, <2>1, SameHolders
  <1>10. CASE c = d
    <2>1. /\ \A i : ~Carries(queue, i, c)
          /\ \A u \in Servers : u # t => ~Keeps(u, c)
          /\ \A p \in Props : node[p] # c
          /\ heap[c] # "free"
      BY <1>6, <1>8, <1>10 DEF HeldRight, HeldOnce, Held, Carries
    <2>2. /\ \A i : Carries(queue', i, c) <=> i = Len(queue) + 1
          /\ \A u \in Servers : ~Keeps(u, c)'
          /\ \A p \in Props : node'[p] # c
          /\ heap'[c] # "free"
      BY <1>3, <1>4, <1>7, <1>10, <2>1
    <2>3. Len(queue) + 1 \in DOMAIN queue'
      BY <2>2 DEF Carries
    <2> QED
      BY <2>2, <2>3 DEF HeldRight, Held, HeldOnce
  <1> QED
    BY <1>9, <1>10

\* The copy of a message moves from the heap to the event.
LEMMA EmitMessageOwns ==
    ASSUME TypeInv, OwnershipInv, NEW t \in Servers, EmitMessage(t)
    PROVE  OwnershipInv'
  <1>1. /\ call[t] \in Call /\ call[t].step = "message" /\ call[t].prop \in Props
        /\ vector[call[t].prop] \in AllStates
    BY RunningCall DEF EmitMessage
  <1>2. PICK d \in Cells : /\ Allocate(d, vector[call[t].prop], "none", TRUE)
                           /\ Post(t, "message", d)
    BY DEF EmitMessage
  <1> DEFINE e == [kind |-> "message", thread |-> t, prop |-> call[t].prop, cell |-> d]
  <1>3. /\ queue \in Seq(Event) /\ e \in Event /\ e.kind \in Owning /\ e.cell = d
        /\ queue' = Append(queue, e)
    BY <1>1, <1>2 DEF Post, TypeInv, TypeOK, Event, Kinds, PreviewKinds, Owning
  <1>4. \A c, i : Carries(queue', i, c) <=>
                    Carries(queue, i, c) \/ (i = Len(queue) + 1 /\ c = d)
    <2>1. \A c, i : Carries(Append(queue, e), i, c) <=>
                      Carries(queue, i, c) \/ (i = Len(queue) + 1 /\ c = d)
      BY <1>3, CarriesAppend
    <2> QED
      BY <1>3, <2>1
  <1>5. /\ node' = node
        /\ \A c \in Cells : c # d => heap'[c] = heap[c]
        /\ heap[d] = "free" /\ heap'[d] # "free"
    <2>1. "free" \notin AllStates
      BY DEF AllStates
    <2>2. /\ heap \in [Cells -> AllStates \cup {"free"}]
          /\ heap[d] = "free" /\ heap' = [heap EXCEPT ![d] = vector[call[t].prop]]
      BY <1>2 DEF Allocate, TypeInv, TypeOK
    <2> QED
      BY <1>1, <2>1, <2>2 DEF EmitMessage, guiVars
  <1>6. \A c \in Cells, u \in Servers : Keeps(u, c)' <=> Keeps(u, c)
    <2>1. /\ \A u \in Servers : u # t => call'[u] = call[u]
          /\ call'[t] = [call[t] EXCEPT !.step = "return"]
      BY DEF EmitMessage, TypeInv, TypeOK
    <2>2. ~HoldsCopy(t) /\ ~HoldsCopy(t)'
      BY <1>1, <2>1 DEF HoldsCopy, Call
    <2> QED
      BY <2>1, <2>2 DEF Keeps, HoldsCopy, Idle
  <1> SUFFICES ASSUME NEW c \in Cells PROVE HeldRight(c)'
    BY DEF OwnershipInv
  <1>7. HeldRight(c)
    BY DEF OwnershipInv
  <1>8. CASE c # d
    BY <1>4, <1>5, <1>6, <1>7, <1>8, SameHolders
  <1>9. CASE c = d
    <2>1. /\ \A i : Carries(queue', i, c) <=> i = Len(queue) + 1
          /\ \A u \in Servers : ~Keeps(u, c)'
          /\ \A p \in Props : node'[p] # c
          /\ heap'[c] # "free"
      BY <1>4, <1>5, <1>6, <1>7, <1>9, FreeUnheld
    <2>2. Len(queue) + 1 \in DOMAIN queue'
      BY <2>1 DEF Carries
    <2> QED
      BY <2>1, <2>2 DEF HeldRight, Held, HeldOnce
  <1> QED
    BY <1>8, <1>9

\* Every slot leaves the bus threads alone.
LEMMA SlotKeeps ==
    ASSUME UNCHANGED call
    PROVE  \A c \in Cells : \A u \in Servers : Keeps(u, c)' <=> Keeps(u, c)
    BY DEF Keeps, HoldsCopy, Idle

\* The slots of the preview cache and the log handle events without a copy of
\* their own to release.
LEMMA BorrowingSlots ==
    ASSUME TypeInv, OwnershipInv,
           \/ OnMessageSent
           \/ OnCreatePreview
           \/ OnObsoletePreview
           \/ RemovePreview("remove")
           \/ RemovePreview("no")
    PROVE  OwnershipInv'
  <1>1. /\ queue # <<>> /\ queue' = Tail(queue) /\ Head(queue).kind \notin Owning
        /\ UNCHANGED <<call, heap, node>>
    BY DEF OnMessageSent, OnCreatePreview, OnObsoletePreview, RemovePreview, Take,
           Owning, PropertyKinds, Deletions, AllSweeps, busVars, copyVars, guiVars
  <1> SUFFICES ASSUME NEW c \in Cells PROVE HeldRight(c)'
    BY DEF OwnershipInv
  <1>2. HeldRight(c) /\ ~Carries(queue, 1, c)
    BY <1>1, CarriesTail DEF OwnershipInv, TypeInv, TypeOK
  <1> QED
    BY <1>1, <1>2, SlotKeeps, SameHoldersTail

\* What the slots that take a copy over start from: the event is the only
\* holder of its copy, and the other copies keep their holders.
LEMMA OwningEvent ==
    ASSUME TypeInv, OwnershipInv, NEW kind \in Owning, Take(kind), UNCHANGED call
    PROVE  /\ Head(queue).cell \in Cells /\ Head(queue).prop \in Props
           /\ heap[Head(queue).cell] # "free"
           /\ \A i \in DOMAIN queue' : ~Carries(queue', i, Head(queue).cell)
           /\ \A u \in Servers : ~Keeps(u, Head(queue).cell)
           /\ \A p \in Props : node[p] # Head(queue).cell
           /\ \A c \in Cells :
                /\ c # Head(queue).cell
                /\ \A p \in Props : node'[p] = c <=> node[p] = c
                /\ heap'[c] = "free" <=> heap[c] = "free"
                => HeldRight(c)'
  <1> DEFINE d == Head(queue).cell
  <1>1. /\ queue # <<>> /\ queue' = Tail(queue) /\ Head(queue).kind \in Owning
        /\ d \in Cells /\ Head(queue).prop \in Props
    BY TakeTypes DEF Take, Owning, PropertyKinds, Deletions, AllSweeps, Kinds,
                     PreviewKinds, TypeInv
  <1>2. \A c \in Cells : HeldRight(c) /\ (Carries(queue, 1, c) <=> c = d)
    BY <1>1, CarriesTail DEF OwnershipInv, TypeInv, TypeOK
  <1>3. /\ \A i \in DOMAIN queue' : ~Carries(queue', i, d)
        /\ \A u \in Servers : ~Keeps(u, d)
        /\ \A p \in Props : node[p] # d
        /\ heap[d] # "free"
    BY <1>1, <1>2, OnlyHead
  <1>4. ASSUME NEW c \in Cells, c # d,
               \A p \in Props : node'[p] = c <=> node[p] = c,
               heap'[c] = "free" <=> heap[c] = "free"
        PROVE  HeldRight(c)'
    BY <1>1, <1>2, <1>4, SlotKeeps, SameHoldersTail
  <1> QED
    BY <1>1, <1>3, <1>4

\* A message, a property that is defined again, and an update of a property
\* that is not in the tree: the slot releases the copy of the event.
LEMMA ReleasingSlots ==
    ASSUME TypeInv, OwnershipInv, NEW kind \in Owning, Take(kind),
           UNCHANGED <<call, node>>, heap'[Head(queue).cell] = "free",
           \A c \in Cells : c # Head(queue).cell =>
              (heap'[c] = "free" <=> heap[c] = "free")
    PROVE  OwnershipInv'
  <1> DEFINE d == Head(queue).cell
  <1> SUFFICES ASSUME NEW c \in Cells PROVE HeldRight(c)'
    BY DEF OwnershipInv
  <1>1. CASE c # d
    BY <1>1, OwningEvent
  <1>2. CASE c = d
    <2>1. /\ \A i \in DOMAIN queue' : ~Carries(queue', i, c)
          /\ \A u \in Servers : ~Keeps(u, c)'
          /\ \A p \in Props : node'[p] # c
      BY <1>2, OwningEvent, SlotKeeps
    <2> QED
      BY <1>2, <2>1, Released
  <1> QED
    BY <1>1, <1>2

\* A new node takes the copy over.
LEMMA DefineOwns ==
    ASSUME TypeInv, OwnershipInv, DefineProperty
    PROVE  OwnershipInv'
  <1> DEFINE e == Head(queue)
  <1>1. /\ Take("define") /\ "define" \in Owning /\ UNCHANGED call
        /\ e.cell \in Cells /\ e.prop \in Props
    BY OwningEvent DEF DefineProperty, busVars, Owning, PropertyKinds
  <1>2. CASE node[e.prop] # NoCell
    <2>1. UNCHANGED node /\ heap' = [heap EXCEPT ![e.cell] = "free"]
      BY <1>2 DEF DefineProperty, Discard
    <2> QED
      BY <1>1, <2>1, ReleasingSlots DEF TypeInv, TypeOK
  <1>3. CASE node[e.prop] = NoCell
    <2>1. /\ UNCHANGED heap
          /\ \A p \in Props : node'[p] = IF p = e.prop THEN e.cell ELSE node[p]
      BY <1>1, <1>3 DEF DefineProperty, TypeInv, TypeOK
    <2> SUFFICES ASSUME NEW c \in Cells PROVE HeldRight(c)'
      BY DEF OwnershipInv
    <2>2. CASE c # e.cell
      <3>1. \A p \in Props : node'[p] = c <=> node[p] = c
        BY <1>3, <2>1, <2>2, PipelineAssumption
      <3> QED
        BY <1>1, <2>1, <2>2, <3>1, OwningEvent
    <2>3. CASE c = e.cell
      <3>1. /\ \A i \in DOMAIN queue' : ~Carries(queue', i, c)
            /\ \A u \in Servers : ~Keeps(u, c)'
            /\ \A p \in Props : node[p] # c
            /\ heap'[c] # "free"
        BY <1>1, <2>1, <2>3, OwningEvent, SlotKeeps
      <3>2. \A p \in Props : node'[p] = c <=> p = e.prop
        BY <2>1, <2>3, <3>1
      <3> QED
        BY <1>1, <3>1, <3>2 DEF HeldRight, Held, HeldOnce
    <2> QED
      BY <2>2, <2>3
  <1> QED
    BY <1>2, <1>3

\* The contents move into the node's copy, the event's is released.
LEMMA UpdateOwns ==
    ASSUME TypeInv, OwnershipInv, UpdateProperty
    PROVE  OwnershipInv'
  <1> DEFINE e == Head(queue)
  <1>1. /\ Take("update") /\ "update" \in Owning /\ UNCHANGED <<call, node>>
        /\ e.cell \in Cells /\ e.prop \in Props /\ heap[e.cell] # "free"
        /\ \A p \in Props : node[p] # e.cell
    BY OwningEvent DEF UpdateProperty, busVars, guiVars, Owning, PropertyKinds
  <1>2. CASE node[e.prop] = NoCell
    <2>1. heap' = [heap EXCEPT ![e.cell] = "free"]
      BY <1>2 DEF UpdateProperty, Discard
    <2> QED
      BY <1>1, <2>1, ReleasingSlots DEF TypeInv, TypeOK
  <1>3. CASE node[e.prop] # NoCell
    <2>1. node[e.prop] \in Cells /\ heap[node[e.prop]] # "free"
      BY <1>1, <1>3 DEF TypeInv, TypeOK, Pointer, OwnershipInv, HeldRight, Held
    <2>2. heap' = [heap EXCEPT ![node[e.prop]] = heap[e.cell], ![e.cell] = "free"]
      BY <1>3 DEF UpdateProperty
    <2>3. heap'[e.cell] = "free"
      BY <1>1, <2>2 DEF TypeInv, TypeOK
    <2>4. \A c \in Cells : c # e.cell => (heap'[c] = "free" <=> heap[c] = "free")
      BY <1>1, <2>1, <2>2 DEF TypeInv, TypeOK
    <2> QED
      BY <1>1, <2>3, <2>4, ReleasingSlots
  <1> QED
    BY <1>2, <1>3

\* A deletion releases the copies of the nodes it takes away and the event's.
LEMMA DeleteOwns ==
    ASSUME TypeInv, OwnershipInv, DeleteProperty
    PROVE  OwnershipInv'
  <1> DEFINE e == Head(queue)
             taken == Taken(e.kind, e.prop)
             released == {node[p] : p \in taken}
  <1>1. PICK kind \in Owning : Take(kind)
    BY DEF DeleteProperty, Owning, PropertyKinds
  <1>2. UNCHANGED call /\ e.cell \in Cells /\ e.prop \in Props
    BY <1>1, OwningEvent DEF DeleteProperty, busVars
  <1>3. /\ \A c \in Cells : heap'[c] = IF c \in released \cup {e.cell} THEN "free" ELSE heap[c]
        /\ \A p \in Props : node'[p] = IF p \in taken THEN NoCell ELSE node[p]
        /\ \A c : c \in released <=> \E p \in taken : node[p] = c
        /\ \A p \in taken : p \in Props
    BY DEF DeleteProperty, Taken
  <1> HIDE DEF released, taken
  <1> SUFFICES ASSUME NEW c \in Cells PROVE HeldRight(c)'
    BY DEF OwnershipInv
  <1>4. CASE c \notin released \cup {e.cell}
    <2>1. \A p \in Props : node'[p] = c <=> node[p] = c
      BY <1>3, <1>4, PipelineAssumption
    <2> QED
      BY <1>1, <1>2, <1>3, <1>4, <2>1, OwningEvent
  <1>5. CASE c = e.cell
    <2>1. /\ \A i \in DOMAIN queue' : ~Carries(queue', i, c)
          /\ \A u \in Servers : ~Keeps(u, c)'
          /\ \A p \in Props : node[p] # c
      BY <1>1, <1>2, <1>5, OwningEvent, SlotKeeps
    <2>2. heap'[c] = "free" /\ \A p \in Props : node'[p] # c
      BY <1>3, <1>5, <2>1, PipelineAssumption
    <2> QED
      BY <2>1, <2>2, Released
  <1>6. CASE c \in released /\ c # e.cell
    <2>1. PICK n \in taken : n \in Props /\ node[n] = c
      BY <1>3, <1>6
    <2>2. /\ \A i \in DOMAIN queue : ~Carries(queue, i, c)
          /\ \A u \in Servers : ~Keeps(u, c)
          /\ \A p \in Props : node[p] = c => p = n
      BY <2>1 DEF OwnershipInv, HeldRight, HeldOnce
    <2>3. \A i \in DOMAIN queue' : ~Carries(queue', i, c)
      <3>1. queue # <<>> /\ queue' = Tail(queue)
        BY <1>1 DEF Take
      <3>2. \A i \in DOMAIN queue' : /\ i + 1 \in DOMAIN queue
                                     /\ (Carries(queue', i, c) <=> Carries(queue, i + 1, c))
        BY <3>1, CarriesTail DEF TypeInv, TypeOK
      <3> QED
        BY <2>2, <3>2
    <2>4. \A u \in Servers : ~Keeps(u, c)'
      BY <1>2, <2>2, SlotKeeps
    <2>5. heap'[c] = "free" /\ \A p \in Props : node'[p] # c
      BY <1>3, <1>6, <2>1, <2>2, PipelineAssumption
    <2> QED
      BY <2>3, <2>4, <2>5, Released
  <1> QED
    BY <1>4, <1>5, <1>6

\* Init allocates nothing.
LEMMA InitOwnership == Init => OwnershipInv
  <1> SUFFICES ASSUME Init, NEW c \in Cells PROVE HeldRight(c)
    BY DEF OwnershipInv
  <1>1. \A i \in DOMAIN queue : FALSE
    BY DEF Init
  <1>2. \A t \in Servers : ~Keeps(t, c)
    BY DEF Init, Keeps, HoldsCopy, Idle
  <1>3. \A p \in Props : node[p] # c
    BY PipelineAssumption DEF Init
  <1>4. heap[c] = "free"
    BY DEF Init
  <1> QED
    BY <1>1, <1>2, <1>3, <1>4 DEF HeldRight, Held, HeldOnce

\* Every step of the pipeline preserves ownership.
LEMMA NextOwnership == TypeInv /\ OwnershipInv /\ [Next]_vars => OwnershipInv'
  <1> SUFFICES ASSUME TypeInv, OwnershipInv, [Next]_vars PROVE OwnershipInv'
    OBVIOUS
  <1>1. ASSUME NEW t \in Servers, BusCall(t)
        PROVE  OwnershipInv'
    <2>1. \E p \in Props : \E op, step : /\ step \in {"preview", "first", "message"}
                                         /\ Enter(t, op, p, step)
      BY <1>1 DEF BusCall, ClientDefineProperty, ClientUpdateProperty,
                  ClientDeleteProperty, ClientReceiveMessage, FirstStep
    <2> QED
      BY <2>1, CallMovesNothing
  <1>2. ASSUME NEW t \in Servers, BusStep(t)
        PROVE  OwnershipInv'
    BY <1>2, CallMovesNothing, EmitFirstOwns, EmitSecondOwns, EmitMessageOwns
       DEF BusStep
  <1>3. CASE OnMessageReceived
    <2>1. /\ Take("message") /\ "message" \in Owning /\ UNCHANGED <<call, node>>
          /\ heap' = [heap EXCEPT ![Head(queue).cell] = "free"]
      BY <1>3 DEF OnMessageReceived, busVars, guiVars, Owning
    <2>2. Head(queue).cell \in Cells
      BY <2>1, OwningEvent
    <2> QED
      BY <2>1, <2>2, ReleasingSlots DEF TypeInv, TypeOK
  <1>4. CASE Handle
    BY <1>3, <1>4, BorrowingSlots, DefineOwns, UpdateOwns, DeleteOwns
       DEF Handle, OnRemovePreview, OnNoPreview
  <1>5. ASSUME NEW t \in Servers, FinishCreatePreview(t)
        PROVE  OwnershipInv'
    <2>1. UNCHANGED <<call, queue, heap, node>>
      BY <1>5 DEF FinishCreatePreview, busVars, copyVars
    <2> QED
      BY <2>1 DEF OwnershipInv, HeldRight, Held, HeldOnce, Carries, Keeps,
                  HoldsCopy, Idle
  <1>6. CASE RebuildPreviews
    <2>1. UNCHANGED <<call, queue, heap, node>>
      BY <1>6 DEF RebuildPreviews, BeginRebuild, ContinueRebuild, EndRebuild, busVars,
                  copyVars
    <2> QED
      BY <2>1 DEF OwnershipInv, HeldRight, Held, HeldOnce, Carries, Keeps,
                  HoldsCopy, Idle
  <1>7. CASE UNCHANGED vars
    BY <1>7 DEF vars, OwnershipInv, HeldRight, Held, HeldOnce, Carries, Keeps,
                HoldsCopy, Idle
  <1> QED
    BY <1>1, <1>2, <1>4, <1>5, <1>6, <1>7 DEF Next

-----------------------------------------------------------------------------
(* The long texts.  One that belongs to its copy is on its way with a      *)
(* definition or an update of a text vector, or in a node; one that is     *)
(* freed while it is pointed to is in a node.                              *)

\* A definition or an update of a text vector, which may carry a long text.
Carrier(op, p) == op \in {"define", "update"} /\ p \in LongTexts

TextInNode(c) ==
    /\ text[c] = "own" => heap[c] # "free"
    /\ text[c] = "freed" => \E p \in LongTexts : node[p] = c

TextOnItsWay(c) ==
    /\ \A i \in DOMAIN queue : Carries(queue, i, c) /\ text[c] = "own" =>
         Carrier(queue[i].kind, queue[i].prop)
    /\ \A t \in Servers : Keeps(t, c) /\ text[c] = "own" =>
         Carrier(call[t].op, call[t].prop)

TextInv == \A c \in Cells : TextInNode(c) /\ TextOnItsWay(c)

\* The text of a copy is where it was, in a step that takes no event and moves
\* no copy.
LEMMA TextSame ==
    ASSUME NEW c \in Cells, TextInNode(c), TextOnItsWay(c),
           text'[c] = text[c], heap'[c] = "free" <=> heap[c] = "free", node' = node,
           \A i \in DOMAIN queue' : Carries(queue', i, c) =>
              \/ i \in DOMAIN queue /\ queue'[i] = queue[i]
              \/ Carrier(queue'[i].kind, queue'[i].prop)
              \/ \E t \in Servers : /\ Keeps(t, c) /\ queue'[i].kind = call[t].op
                                    /\ queue'[i].prop = call[t].prop,
           \A t \in Servers : Keeps(t, c)' =>
              /\ Keeps(t, c)
              /\ call'[t].op = call[t].op /\ call'[t].prop = call[t].prop
    PROVE  TextInNode(c)' /\ TextOnItsWay(c)'
  <1>1. TextInNode(c)'
    BY DEF TextInNode
  <1>2. ASSUME NEW i \in DOMAIN queue', Carries(queue', i, c), text'[c] = "own"
        PROVE  Carrier(queue'[i].kind, queue'[i].prop)
    BY <1>2 DEF TextOnItsWay, Carries
  <1>3. ASSUME NEW t \in Servers, Keeps(t, c)', text'[c] = "own"
        PROVE  Carrier(call'[t].op, call'[t].prop)
    BY <1>3 DEF TextOnItsWay
  <1> QED
    BY <1>1, <1>2, <1>3 DEF TextOnItsWay, Carrier

\* The copy of the event that is posted, if it has one, comes from a call.
LEMMA PostedTexts ==
    ASSUME TypeInv, NEW e \in Event, queue' = Append(queue, e), NEW c \in Cells
    PROVE  \A i \in DOMAIN queue' : Carries(queue', i, c) =>
              \/ i \in DOMAIN queue /\ queue'[i] = queue[i]
              \/ queue'[i] = e /\ e.kind \in Owning /\ e.cell = c
  <1>1. queue \in Seq(Event)
    BY DEF TypeInv, TypeOK
  <1>2. /\ DOMAIN queue = 1 .. Len(queue) /\ Len(queue) \in Nat
        /\ DOMAIN queue' = 1 .. Len(queue) + 1 /\ queue'[Len(queue) + 1] = e
        /\ \A i \in DOMAIN queue : queue'[i] = queue[i]
    BY <1>1, SeqDomain, AppendElement
  <1> QED
    BY <1>2 DEF Carries

\* The event that is taken carries its copy.
LEMMA HeadCarries ==
    ASSUME TypeInv, NEW kind \in Owning, Take(kind)
    PROVE  /\ 1 \in DOMAIN queue /\ queue[1] = Head(queue) /\ Head(queue).kind = kind
           /\ Carries(queue, 1, Head(queue).cell)
  <1>1. queue \in Seq(Event) /\ queue # <<>>
    BY DEF Take, TypeInv, TypeOK
  <1> QED
    BY <1>1, TailElement DEF Take, Carries

\* The texts when an event is taken: those of the copies behind it are left
\* alone, and what becomes of its own copy's is for the slot to say.
LEMMA TextsTaken ==
    ASSUME TypeInv, TextInv, queue # <<>>, queue' = Tail(queue), UNCHANGED call,
           NEW c \in Cells, TextInNode(c)', text'[c] = "own" => text[c] = "own"
    PROVE  TextInNode(c)' /\ TextOnItsWay(c)'
  <1>1. \A i \in DOMAIN queue' : /\ i + 1 \in DOMAIN queue /\ queue'[i] = queue[i + 1]
                                 /\ (Carries(queue', i, c) <=> Carries(queue, i + 1, c))
    <2>1. queue \in Seq(Event)
      BY DEF TypeInv, TypeOK
    <2>2. \A i \in DOMAIN Tail(queue) : i + 1 \in DOMAIN queue
                                       /\ Tail(queue)[i] = queue[i + 1]
      BY <2>1, TailElement
    <2> QED
      BY <2>1, <2>2, CarriesTail
  <1>2. ASSUME NEW i \in DOMAIN queue', Carries(queue', i, c), text'[c] = "own"
        PROVE  Carrier(queue'[i].kind, queue'[i].prop)
    BY <1>1, <1>2 DEF TextInv, TextOnItsWay
  <1>3. ASSUME NEW t \in Servers, Keeps(t, c)', text'[c] = "own"
        PROVE  Carrier(call'[t].op, call'[t].prop)
    BY <1>3, SlotKeeps DEF TextInv, TextOnItsWay
  <1> QED
    BY <1>2, <1>3 DEF TextOnItsWay, Carrier

\* The slot releases the copy of the event, and the text with it.
LEMMA TextDiscarded ==
    ASSUME TypeInv, TextInv, NEW kind \in Owning, Take(kind), UNCHANGED <<call, node>>,
           Discard(Head(queue).cell)
    PROVE  TextInv'
  <1> DEFINE d == Head(queue).cell
  <1> SUFFICES ASSUME NEW c \in Cells PROVE TextInNode(c)' /\ TextOnItsWay(c)'
    BY DEF TextInv
  <1>1. /\ heap' = [heap EXCEPT ![d] = "free"] /\ text' = [text EXCEPT ![d] = FreeText(@)]
        /\ heap \in [Cells -> AllStates \cup {"free"}]
        /\ text \in [Cells -> {"none", "own", "freed", "freed twice"}]
    BY DEF Discard, TypeInv, TypeOK
  <1>2. TextInNode(c)' /\ (text'[c] = "own" => text[c] = "own")
    <2>1. CASE c = d
      <3>1. text'[c] = FreeText(text[c])
        BY <1>1, <2>1
      <3>2. text'[c] # "own" /\ text'[c] # "freed"
        BY <1>1, <3>1 DEF FreeText
      <3> QED
        BY <3>2 DEF TextInNode
    <2>2. CASE c # d
      <3>1. text'[c] = text[c] /\ heap'[c] = heap[c]
        BY <1>1, <2>2
      <3> QED
        BY <3>1 DEF TextInNode, TextInv
    <2> QED
      BY <2>1, <2>2
  <1> QED
    BY <1>2, TextsTaken DEF Take

\* A new node takes over what is whole.
LEMMA DefineTexts ==
    ASSUME TypeInv, OwnershipInv, TextInv, DefineProperty
    PROVE  TextInv'
  <1> DEFINE e == Head(queue)
  <1>1. Take("define") /\ "define" \in Owning /\ UNCHANGED call
    BY DEF DefineProperty, busVars, Owning, PropertyKinds
  <1>2. CASE node[e.prop] # NoCell
    BY <1>1, <1>2, TextDiscarded DEF DefineProperty
  <1>3. CASE node[e.prop] = NoCell
    <2>1. UNCHANGED <<heap, text>> /\ node' = [node EXCEPT ![e.prop] = e.cell]
      BY <1>3 DEF DefineProperty
    <2> SUFFICES ASSUME NEW c \in Cells PROVE TextInNode(c)' /\ TextOnItsWay(c)'
      BY DEF TextInv
    <2>2. \A p \in Props : node[p] = c => node'[p] = c
      <3>1. node \in [Props -> Pointer] /\ c # NoCell
        BY PipelineAssumption DEF TypeInv, TypeOK
      <3> QED
        BY <1>3, <2>1, <3>1
    <2>3. TextInNode(c)'
      BY <2>1, <2>2, PipelineAssumption DEF TextInNode, TextInv
    <2> QED
      BY <1>1, <2>1, <2>3, TextsTaken DEF Take
  <1> QED
    BY <1>2, <1>3

\* An update leaves the node with a freed text if it came with one, and the
\* node is that of a text vector.
LEMMA UpdateTexts ==
    ASSUME TypeInv, OwnershipInv, TextInv, UpdateProperty
    PROVE  TextInv'
  <1> DEFINE e == Head(queue)
             d == node[e.prop]
  <1>1. /\ Take("update") /\ "update" \in Owning /\ UNCHANGED <<call, node>>
        /\ e.cell \in Cells /\ e.prop \in Props
    BY OwningEvent DEF UpdateProperty, busVars, guiVars, Owning, PropertyKinds
  <1>2. CASE d = NoCell
    BY <1>1, <1>2, TextDiscarded DEF UpdateProperty
  <1>3. CASE d # NoCell
    <2>1. d \in Cells /\ d # e.cell
      BY <1>1, <1>3, OwningEvent DEF TypeInv, TypeOK, Pointer
    <2>2. text[e.cell] = "own" => e.prop \in LongTexts
      <3>1. 1 \in DOMAIN queue /\ queue[1] = e /\ Carries(queue, 1, e.cell)
        BY <1>1, HeadCarries
      <3> QED
        BY <1>1, <3>1 DEF TextInv, TextOnItsWay, Carrier
    <2> PICK x \in {"none", "freed"} : /\ text[e.cell] = "own" <=> x = "freed"
                                       /\ x = IF text[e.cell] = "own" THEN "freed" ELSE "none"
      OBVIOUS
    <2>3. /\ heap' = [heap EXCEPT ![d] = heap[e.cell], ![e.cell] = "free"]
          /\ text' = [text EXCEPT ![d] = x, ![e.cell] = FreeText(@)]
      BY <1>3 DEF UpdateProperty
    <2>4. /\ heap \in [Cells -> AllStates \cup {"free"}]
          /\ text \in [Cells -> {"none", "own", "freed", "freed twice"}]
      BY DEF TypeInv, TypeOK
    <2> SUFFICES ASSUME NEW c \in Cells PROVE TextInNode(c)' /\ TextOnItsWay(c)'
      BY DEF TextInv
    <2>5. TextInNode(c)' /\ (text'[c] = "own" => text[c] = "own")
      <3>1. CASE c = e.cell
        <4>1. text'[c] = FreeText(text[c])
          BY <1>1, <2>1, <2>3, <2>4, <3>1
        <4>2. text'[c] # "own" /\ text'[c] # "freed"
          BY <2>4, <4>1 DEF FreeText
        <4> QED
          BY <4>2 DEF TextInNode
      <3>2. CASE c = d
        <4>1. text'[c] = x
          BY <2>1, <2>3, <2>4, <3>2
        <4>2. text'[c] # "own" /\ (text'[c] = "freed" => e.prop \in LongTexts)
          BY <2>2, <4>1
        <4>3. node'[e.prop] = c
          BY <1>1, <3>2
        <4> QED
          BY <4>2, <4>3 DEF TextInNode
      <3>3. CASE c # e.cell /\ c # d
        <4>1. text'[c] = text[c] /\ heap'[c] = heap[c]
          BY <2>3, <2>4, <3>3
        <4> QED
          BY <1>1, <4>1 DEF TextInNode, TextInv
      <3> QED
        BY <3>1, <3>2, <3>3
    <2> QED
      BY <1>1, <2>5, TextsTaken DEF Take
  <1> QED
    BY <1>2, <1>3

\* A deletion frees the texts of the nodes it takes away; its own copy has none.
LEMMA DeleteTexts ==
    ASSUME TypeInv, OwnershipInv, TextInv, DeleteProperty
    PROVE  TextInv'
  <1> DEFINE e == Head(queue)
             taken == Taken(e.kind, e.prop)
             released == {node[p] : p \in taken}
  <1>1. PICK kind \in Deletions : Take(kind)
    BY DEF DeleteProperty
  <1>2. /\ UNCHANGED call /\ e.cell \in Cells /\ kind \in Owning /\ kind = e.kind
        /\ kind \notin {"define", "update"}
    BY <1>1, OwningEvent DEF DeleteProperty, busVars, Owning, PropertyKinds, Deletions,
                             AllSweeps, Take
  <1>3. text[e.cell] # "own"
    <2>1. 1 \in DOMAIN queue /\ queue[1] = e /\ Carries(queue, 1, e.cell)
      BY <1>1, <1>2, HeadCarries
    <2> QED
      BY <1>2, <2>1 DEF TextInv, TextOnItsWay, Carrier
  <1>4. /\ \A c \in Cells : heap'[c] = IF c \in released \cup {e.cell} THEN "free" ELSE heap[c]
        /\ \A c \in Cells : text'[c] = IF c \in released THEN FreeText(text[c]) ELSE text[c]
        /\ \A p \in Props : node'[p] = IF p \in taken THEN NoCell ELSE node[p]
        /\ \A p \in taken : node[p] \in released
    BY DEF DeleteProperty
  <1> HIDE DEF released, taken
  <1> SUFFICES ASSUME NEW c \in Cells PROVE TextInNode(c)' /\ TextOnItsWay(c)'
    BY DEF TextInv
  <1>5. TextInNode(c)' /\ (text'[c] = "own" => text[c] = "own")
    <2>1. CASE c \in released
      <3>1. text'[c] = FreeText(text[c])
        BY <1>4, <2>1
      <3>2. text'[c] # "own" /\ text'[c] # "freed"
        BY <3>1 DEF FreeText
      <3> QED
        BY <3>2 DEF TextInNode
    <2>2. CASE c \notin released
      <3>1. text'[c] = text[c] /\ (heap'[c] = "free" => heap[c] = "free" \/ c = e.cell)
        BY <1>4, <2>2
      <3>2. \A p \in Props : node[p] = c => node'[p] = c
        BY <1>4, <2>2
      <3> QED
        BY <1>3, <3>1, <3>2, PipelineAssumption DEF TextInNode, TextInv
    <2> QED
      BY <2>1, <2>2
  <1> QED
    BY <1>1, <1>2, <1>5, TextsTaken DEF Take

\* A signal with a new copy: its text is its own, if it has one.
LEMMA TextAllocated ==
    ASSUME TypeInv, OwnershipInv, TextInv, NEW d \in Cells, NEW withText, NEW s, NEW m,
           Allocate(d, s, withText, m), withText \in {"none", "own"}, s # "free",
           UNCHANGED node, NEW e \in Event, queue' = Append(queue, e),
           e.kind \in Owning => withText = "none" /\ e.cell = d,
           \A t \in Servers, c \in Cells : Keeps(t, c)' =>
              \/ /\ Keeps(t, c)
                 /\ call'[t].op = call[t].op /\ call'[t].prop = call[t].prop
              \/ /\ c = d
                 /\ withText = "own" => Carrier(call'[t].op, call'[t].prop)
    PROVE  TextInv'
  <1> SUFFICES ASSUME NEW c \in Cells PROVE TextInNode(c)' /\ TextOnItsWay(c)'
    BY DEF TextInv
  <1>1. /\ heap[d] = "free" /\ heap' = [heap EXCEPT ![d] = s]
        /\ text' = [text EXCEPT ![d] = withText]
        /\ heap \in [Cells -> AllStates \cup {"free"}]
        /\ text \in [Cells -> {"none", "own", "freed", "freed twice"}]
    BY DEF Allocate, TypeInv, TypeOK
  <1>2. \A i \in DOMAIN queue' : Carries(queue', i, c) =>
           \/ i \in DOMAIN queue /\ queue'[i] = queue[i]
           \/ queue'[i] = e /\ e.kind \in Owning /\ e.cell = c
    BY PostedTexts
  <1>3. CASE c = d
    <2>1. text'[c] = withText /\ heap'[c] # "free"
      BY <1>1, <1>3
    <2>2. TextInNode(c)'
      BY <2>1 DEF TextInNode
    <2>3. (\A i : ~Carries(queue, i, c)) /\ \A t \in Servers : ~Keeps(t, c)
      BY <1>1, <1>3, FreeUnheld DEF OwnershipInv
    <2>4. ASSUME NEW i \in DOMAIN queue', Carries(queue', i, c), text'[c] = "own"
          PROVE  FALSE
      BY <1>2, <2>1, <2>3, <2>4 DEF Carries
    <2>5. ASSUME NEW t \in Servers, Keeps(t, c)', text'[c] = "own"
          PROVE  Carrier(call'[t].op, call'[t].prop)
      BY <2>1, <2>3, <2>5
    <2> QED
      BY <2>2, <2>4, <2>5 DEF TextOnItsWay, Carrier
  <1>4. CASE c # d
    <2>1. text'[c] = text[c] /\ heap'[c] = heap[c]
      BY <1>1, <1>4
    <2>2. TextInNode(c)'
      BY <2>1 DEF TextInNode, TextInv
    <2>3. ASSUME NEW i \in DOMAIN queue', Carries(queue', i, c), text'[c] = "own"
          PROVE  Carrier(queue'[i].kind, queue'[i].prop)
      <3>1. CASE i \in DOMAIN queue /\ queue'[i] = queue[i]
        BY <2>1, <2>3, <3>1 DEF TextInv, TextOnItsWay, Carries
      <3> QED
        BY <1>2, <1>4, <2>3, <3>1
    <2>4. ASSUME NEW t \in Servers, Keeps(t, c)', text'[c] = "own"
          PROVE  Carrier(call'[t].op, call'[t].prop)
      BY <1>4, <2>1, <2>4 DEF TextInv, TextOnItsWay
    <2> QED
      BY <2>2, <2>3, <2>4 DEF TextOnItsWay, Carrier
  <1> QED
    BY <1>3, <1>4

\* A callback emits its signals.
LEMMA EmitTexts ==
    ASSUME TypeInv, OwnershipInv, TextInv, NEW t \in Servers,
           EmitPreview(t) \/ EmitFirst(t) \/ EmitSecond(t) \/ EmitMessage(t)
    PROVE  TextInv'
  <1>1. /\ call[t] \in Call /\ call[t].prop \in Props
        /\ vector[call[t].prop] \in AllStates /\ vector[call[t].prop] # "free"
    <2>1. PICK step \in {"preview", "first", "second", "message"} : Running(t, step)
      BY DEF EmitPreview, EmitFirst, EmitSecond, EmitMessage
    <2> QED
      BY <2>1, RunningCall DEF AllStates
  <1>2. \A u \in Servers, c \in Cells : u # t /\ Keeps(u, c)' =>
           /\ Keeps(u, c)
           /\ call'[u].op = call[u].op /\ call'[u].prop = call[u].prop
    <2>1. \A u \in Servers : u # t => call'[u] = call[u]
      BY DEF EmitPreview, EmitFirst, EmitSecond, EmitMessage, TypeInv, TypeOK
    <2> QED
      BY <2>1 DEF Keeps, HoldsCopy, Idle
  <1>3. ASSUME EmitPreview(t) PROVE TextInv'
    <2> DEFINE k == PreviewKind(call[t].op, vector[call[t].prop])
               e == [kind |-> k, thread |-> t, prop |-> call[t].prop, cell |-> NoCell]
    <2>1. k \in PreviewKinds /\ k \notin Owning
      BY DEF PreviewKind, PreviewKinds, Owning, PropertyKinds, Deletions, AllSweeps
    <2>2. e \in Event /\ e.kind \notin Owning /\ queue' = Append(queue, e)
          /\ UNCHANGED <<heap, text, node>>
      BY <1>1, <1>3, <2>1 DEF EmitPreview, Post, Event, copyVars, guiVars
    <2>3. ~HoldsCopy(t)'
      <3>1. call'[t] = [call[t] EXCEPT !.step = "first"]
        BY <1>3 DEF EmitPreview, TypeInv, TypeOK
      <3>2. call'[t].step = "first"
        BY <1>1, <3>1 DEF Call
      <3> QED
        BY <3>2 DEF HoldsCopy
    <2> HIDE DEF e
    <2>4. ASSUME NEW c \in Cells PROVE TextInNode(c)' /\ TextOnItsWay(c)'
      <3>1. \A u \in Servers : Keeps(u, c)' =>
               /\ Keeps(u, c)
               /\ call'[u].op = call[u].op /\ call'[u].prop = call[u].prop
        BY <1>2, <2>3 DEF Keeps
      <3>2. \A i \in DOMAIN queue' : Carries(queue', i, c) =>
               i \in DOMAIN queue /\ queue'[i] = queue[i]
        BY <2>2, PostedTexts
      <3> QED
        BY <2>2, <3>1, <3>2, TextSame DEF TextInv
    <2> QED
      BY <2>4 DEF TextInv
  <1>4. ASSUME EmitFirst(t) PROVE TextInv'
    <2>1. PICK d \in Cells, withMessage \in Messages,
               withText \in TextOf(call[t].op, call[t].prop) :
            /\ Allocate(d, vector[call[t].prop], withText, withMessage)
            /\ Post(t, "log", d)
            /\ call' = [call EXCEPT ![t].step = "second", ![t].cell = d]
      BY <1>4 DEF EmitFirst, Receivers
    <2> DEFINE e == [kind |-> "log", thread |-> t, prop |-> call[t].prop, cell |-> d]
    <2>2. e \in Event /\ e.kind \notin Owning /\ queue' = Append(queue, e)
      BY <1>1, <2>1 DEF Post, Event, Kinds, PreviewKinds, Owning, PropertyKinds,
                        Deletions, AllSweeps
    <2>3. /\ withText \in {"none", "own"}
          /\ withText = "own" => Carrier(call[t].op, call[t].prop)
      BY DEF TextOf, Carrier
    <2>4. call'[t] = [call[t] EXCEPT !.step = "second", !.cell = d]
      BY <2>1 DEF TypeInv, TypeOK
    <2>5. /\ call'[t].cell = d /\ call'[t].op = call[t].op
          /\ call'[t].prop = call[t].prop
      BY <1>1, <2>4 DEF Call
    <2>6. \A u \in Servers, c \in Cells : Keeps(u, c)' =>
             \/ /\ Keeps(u, c)
                /\ call'[u].op = call[u].op /\ call'[u].prop = call[u].prop
             \/ /\ c = d
                /\ withText = "own" => Carrier(call'[u].op, call'[u].prop)
      <3>1. ASSUME NEW c \in Cells, Keeps(t, c)' PROVE c = d
        BY <2>5, <3>1 DEF Keeps
      <3>2. withText = "own" => Carrier(call'[t].op, call'[t].prop)
        BY <2>3, <2>5 DEF Carrier
      <3> QED
        BY <1>2, <3>1, <3>2
    <2>7. UNCHANGED node
      BY <1>4 DEF EmitFirst, guiVars
    <2> HIDE DEF e
    <2> QED
      <3>1. PICK v : v = vector[call[t].prop]
        OBVIOUS
      <3>2. Allocate(d, v, withText, withMessage) /\ v # "free"
        BY <1>1, <2>1, <3>1
      <3>3. e.kind \in Owning => withText = "none" /\ e.cell = d
        BY <2>2
      <3> QED
        BY <2>2, <2>3, <2>6, <2>7, <3>2, <3>3, TextAllocated
  <1>5. ASSUME EmitSecond(t) PROVE TextInv'
    <2> DEFINE e == [kind |-> call[t].op, thread |-> t, prop |-> call[t].prop,
                     cell |-> call[t].cell]
    <2>1. call[t].op \in PropertyKinds /\ call[t].cell \in Cells /\ HoldsCopy(t)
      BY <1>5, RunningCall DEF EmitSecond, Running, HoldsCopy
    <2>2. e \in Event /\ queue' = Append(queue, e) /\ UNCHANGED <<heap, text, node>>
      BY <1>1, <1>5, <2>1 DEF EmitSecond, Receivers, Post, Event, Kinds, PreviewKinds,
         PropertyKinds, Deletions, AllSweeps, copyVars, guiVars
    <2>3. ~HoldsCopy(t)'
      <3>1. call'[t] = [call[t] EXCEPT !.step = "return", !.cell = NoCell]
        BY <1>5 DEF EmitSecond, TypeInv, TypeOK
      <3>2. call'[t].step = "return"
        BY <1>1, <3>1 DEF Call
      <3> QED
        BY <3>2 DEF HoldsCopy
    <2>4. e.kind = call[t].op /\ e.prop = call[t].prop /\ e.cell = call[t].cell
      OBVIOUS
    <2> HIDE DEF e
    <2>5. ASSUME NEW c \in Cells PROVE TextInNode(c)' /\ TextOnItsWay(c)'
      <3>1. \A u \in Servers : Keeps(u, c)' =>
               /\ Keeps(u, c)
               /\ call'[u].op = call[u].op /\ call'[u].prop = call[u].prop
        BY <1>2, <2>3 DEF Keeps
      <3>2. \A i \in DOMAIN queue' : Carries(queue', i, c) =>
               \/ i \in DOMAIN queue /\ queue'[i] = queue[i]
               \/ /\ Keeps(t, c) /\ queue'[i].kind = call[t].op
                  /\ queue'[i].prop = call[t].prop
        BY <2>1, <2>2, <2>4, PostedTexts DEF Keeps
      <3> QED
        BY <2>2, <3>1, <3>2, TextSame DEF TextInv
    <2> QED
      BY <2>5 DEF TextInv
  <1>6. ASSUME EmitMessage(t) PROVE TextInv'
    <2>1. PICK d \in Cells : /\ Allocate(d, vector[call[t].prop], "none", TRUE)
                             /\ Post(t, "message", d)
      BY <1>6 DEF EmitMessage
    <2> DEFINE e == [kind |-> "message", thread |-> t, prop |-> call[t].prop, cell |-> d]
    <2>2. e \in Event /\ e.cell = d /\ queue' = Append(queue, e)
      BY <1>1, <2>1 DEF Post, Event, Kinds, PreviewKinds
    <2>3. ~HoldsCopy(t)'
      <3>1. call'[t] = [call[t] EXCEPT !.step = "return"]
        BY <1>6 DEF EmitMessage, TypeInv, TypeOK
      <3>2. call'[t].step = "return"
        BY <1>1, <3>1 DEF Call
      <3> QED
        BY <3>2 DEF HoldsCopy
    <2>4. \A u \in Servers, c \in Cells : Keeps(u, c)' =>
             /\ Keeps(u, c)
             /\ call'[u].op = call[u].op /\ call'[u].prop = call[u].prop
      BY <1>2, <2>3 DEF Keeps
    <2>5. UNCHANGED node
      BY <1>6 DEF EmitMessage, guiVars
    <2> HIDE DEF e
    <2> QED
      BY <1>1, <2>1, <2>2, <2>4, <2>5, TextAllocated
  <1> QED
    BY <1>3, <1>4, <1>5, <1>6

\* A step that leaves the copies, the nodes and the queue alone, and starts or
\* ends a callback at most.
LEMMA TextsUnmoved ==
    ASSUME TextInv, UNCHANGED <<heap, text, node, queue>>,
           \A u \in Servers : HoldsCopy(u)' => call'[u] = call[u]
    PROVE  TextInv'
  <1> SUFFICES ASSUME NEW c \in Cells PROVE TextInNode(c)' /\ TextOnItsWay(c)'
    BY DEF TextInv
  <1>1. \A u \in Servers : Keeps(u, c)' =>
           /\ Keeps(u, c)
           /\ call'[u].op = call[u].op /\ call'[u].prop = call[u].prop
    BY DEF Keeps, HoldsCopy, Idle
  <1>2. \A i \in DOMAIN queue' : i \in DOMAIN queue /\ queue'[i] = queue[i]
    OBVIOUS
  <1> QED
    BY <1>1, <1>2, TextSame DEF TextInv

\* Every step of the pipeline keeps the texts where they belong.
LEMMA NextTextInv ==
    TypeInv /\ OwnershipInv /\ TextInv /\ [Next]_vars => TextInv'
  <1> SUFFICES ASSUME TypeInv, OwnershipInv, TextInv, [Next]_vars PROVE TextInv'
    OBVIOUS
  <1>1. ASSUME NEW t \in Servers, BusCall(t)
        PROVE  TextInv'
    <2>1. PICK p \in Props : \E op, step : /\ step \in {"preview", "first", "message"}
                                           /\ Enter(t, op, p, step)
      BY <1>1 DEF BusCall, ClientDefineProperty, ClientUpdateProperty,
                  ClientDeleteProperty, ClientReceiveMessage, FirstStep
    <2>2. PICK op, step : step \in {"preview", "first", "message"} /\ Enter(t, op, p, step)
      BY <2>1
    <2>3. /\ UNCHANGED <<heap, text, node, queue>> /\ call'[t].step = step
          /\ \A u \in Servers : u # t => call'[u] = call[u]
      BY <2>2 DEF Enter, copyVars, guiVars, TypeInv, TypeOK
    <2>4. ~HoldsCopy(t)'
      BY <2>2, <2>3 DEF HoldsCopy
    <2> QED
      BY <2>3, <2>4, TextsUnmoved
  <1>2. ASSUME NEW t \in Servers, Return(t)
        PROVE  TextInv'
    <2>1. /\ UNCHANGED <<heap, text, node, queue>> /\ call'[t] = Resting
          /\ \A u \in Servers : u # t => call'[u] = call[u]
      BY <1>2 DEF Return, copyVars, guiVars, TypeInv, TypeOK
    <2>2. ~HoldsCopy(t)'
      BY <2>1 DEF HoldsCopy, Idle
    <2> QED
      BY <2>1, <2>2, TextsUnmoved
  <1>3. CASE \/ OnMessageSent \/ OnCreatePreview \/ OnObsoletePreview
             \/ OnRemovePreview \/ OnNoPreview
    <2>1. /\ queue # <<>> /\ queue' = Tail(queue) /\ UNCHANGED <<call, heap, text, node>>
      BY <1>3 DEF OnMessageSent, OnCreatePreview, OnObsoletePreview, OnRemovePreview,
         OnNoPreview, RemovePreview, Take, busVars, copyVars, guiVars
    <2>2. ASSUME NEW c \in Cells PROVE TextInNode(c)' /\ TextOnItsWay(c)'
      <3>1. TextInNode(c)'
        BY <2>1 DEF TextInNode, TextInv
      <3> QED
        BY <2>1, <3>1, TextsTaken
    <2> QED
      BY <2>2 DEF TextInv
  <1>4. CASE OnMessageReceived
    <2> DEFINE d == Head(queue).cell
    <2>1. /\ Take("message") /\ "message" \in Owning /\ UNCHANGED <<call, text, node>>
          /\ heap' = [heap EXCEPT ![d] = "free"]
      BY <1>4 DEF OnMessageReceived, busVars, guiVars, Owning
    <2>2. d \in Cells /\ text[d] # "own"
      <3>1. /\ 1 \in DOMAIN queue /\ queue[1].kind = "message" /\ Carries(queue, 1, d)
            /\ d \in Cells
        BY <2>1, HeadCarries, OwningEvent
      <3> QED
        BY <3>1 DEF TextInv, TextOnItsWay, Carrier
    <2>3. ASSUME NEW c \in Cells PROVE TextInNode(c)' /\ TextOnItsWay(c)'
      <3>1. c # d => heap'[c] = heap[c]
        BY <2>1 DEF TypeInv, TypeOK
      <3>2. TextInNode(c)'
        BY <2>1, <2>2, <3>1 DEF TextInNode, TextInv
      <3> QED
        BY <2>1, <3>2, TextsTaken DEF Take
    <2> QED
      BY <2>3 DEF TextInv
  <1>5. CASE Handle
    BY <1>3, <1>4, <1>5, DefineTexts, UpdateTexts, DeleteTexts DEF Handle
  <1>6. ASSUME \/ \E t \in Servers : FinishCreatePreview(t)
               \/ RebuildPreviews
               \/ UNCHANGED vars
        PROVE  TextInv'
    <2>1. UNCHANGED <<heap, text, node, queue, call>>
      BY <1>6 DEF FinishCreatePreview, RebuildPreviews, BeginRebuild, ContinueRebuild,
         EndRebuild, busVars, copyVars, vars
    <2> QED
      BY <2>1, TextsUnmoved
  <1> QED
    BY <1>1, <1>2, <1>5, <1>6, EmitTexts DEF Next, BusStep

\* The three kinds of holders kept apart give CopyOwnership.
LEMMA OwnershipInvImplies == OwnershipInv /\ TextInv => CopyOwnership
  <1> SUFFICES ASSUME OwnershipInv, TextInv, NEW c \in Cells
               PROVE  /\ heap[c] = "free" <=> Holders(c) = {}
                      /\ \A h, g \in Holders(c) : h = g
                      /\ TextInNode(c)
    BY DEF CopyOwnership, TextInNode
  <1>1. HeldRight(c) /\ TextInNode(c)
    BY DEF OwnershipInv, TextInv
  <1>2. \A h : h \in Holders(c) <=>
          \/ \E i \in DOMAIN queue : Carries(queue, i, c) /\ h = <<"queue", i>>
          \/ \E t \in Servers : Keeps(t, c) /\ h = <<"call", t>>
          \/ \E p \in Props : node[p] = c /\ h = <<"node", p>>
    BY DEF Holders, Carries, Keeps
  <1>3. Holders(c) = {} <=> ~Held(c)
    BY <1>2 DEF Held
  <1>4. \A h, g \in Holders(c) : h = g
    BY <1>1, <1>2 DEF HeldRight, HeldOnce
  <1> QED
    BY <1>1, <1>3, <1>4 DEF HeldRight

\* In every run each copy of a property has exactly one holder while it is
\* allocated: no callback or slot leaks a copy, releases it twice or keeps a
\* released one, whatever a deletion takes away.  A long text is freed no later
\* than its copy, and what points to a freed one is the node of a text vector,
\* which an update has left so.
THEOREM CopiesOwned == Spec => []CopyOwnership
  <1>1. Init => TypeInv /\ OwnershipInv /\ TextInv
    <2>1. Init => TextInv
      <3> SUFFICES ASSUME Init, NEW c \in Cells PROVE TextInNode(c) /\ TextOnItsWay(c)
        BY DEF TextInv
      <3>1. text[c] = "none"
        BY DEF Init
      <3> QED
        BY <3>1 DEF TextInNode, TextOnItsWay
    <2> QED
      BY <2>1, InitTypeInv, InitOwnership
  <1>2. /\ TypeInv /\ OwnershipInv /\ TextInv /\ [Next]_vars
        => (TypeInv /\ OwnershipInv /\ TextInv)'
    BY NextTypeInv, NextOwnership, NextTextInv
  <1>3. TypeInv /\ OwnershipInv /\ TextInv => CopyOwnership
    BY OwnershipInvImplies
  <1> QED
    BY <1>1, <1>2, <1>3, PTL DEF Spec

-----------------------------------------------------------------------------
(* The log reads live copies.  A copy that is still to be logged is kept   *)
(* by the call that has made it, or carried by an event behind the log's.  *)

LogFirst ==
    \A i \in DOMAIN queue : queue[i].kind = "log" =>
      \/ \E j \in DOMAIN queue : i < j /\ Carries(queue, j, queue[i].cell)
      \/ \E t \in Servers : Keeps(t, queue[i].cell)

\* A step that leaves the queue and the calls' copies alone.
LEMMA LogFirstSame ==
    ASSUME LogFirst, UNCHANGED queue,
           \A u \in Servers : HoldsCopy(u) => HoldsCopy(u)' /\ call'[u].cell = call[u].cell
    PROVE  LogFirst'
  <1> SUFFICES ASSUME NEW i \in DOMAIN queue, queue[i].kind = "log"
               PROVE  \/ \E j \in DOMAIN queue : /\ i < j
                                                 /\ queue[j].kind \in Owning
                                                 /\ queue[j].cell = queue[i].cell
                      \/ \E t \in Servers : HoldsCopy(t)' /\ call'[t].cell = queue[i].cell
    BY DEF LogFirst, Carries, Keeps
  <1>1. CASE \E j \in DOMAIN queue : i < j /\ Carries(queue, j, queue[i].cell)
    BY <1>1 DEF Carries
  <1>2. CASE \E t \in Servers : Keeps(t, queue[i].cell)
    <2>1. PICK t \in Servers : HoldsCopy(t) /\ call[t].cell = queue[i].cell
      BY <1>2 DEF Keeps
    <2>2. HoldsCopy(t)' /\ call'[t].cell = queue[i].cell
      BY <2>1
    <2> QED
      BY <2>2
  <1> QED
    BY <1>1, <1>2 DEF LogFirst

\* A step that appends an event, other than to the log, for calls that keep
\* what they have or hand it to the event.
LEMMA LogFirstAppend ==
    ASSUME TypeInv, LogFirst, NEW e \in Event, queue' = Append(queue, e),
           \A c \in Cells : \A u \in Servers : Keeps(u, c) =>
              Keeps(u, c)' \/ (e.kind \in Owning /\ e.cell = c),
           e.kind = "log" => \E u \in Servers : HoldsCopy(u)' /\ call'[u].cell = e.cell
    PROVE  LogFirst'
  <1>0. queue \in Seq(Event)
    BY DEF TypeInv, TypeOK
  <1>1. /\ DOMAIN queue = 1 .. Len(queue)
        /\ Len(queue) \in Nat
        /\ \A i \in DOMAIN queue : queue[i] \in Event
        /\ DOMAIN queue' = 1 .. Len(queue) + 1
        /\ \A i \in DOMAIN queue : queue'[i] = queue[i]
        /\ queue'[Len(queue) + 1] = e
    <2>1. /\ DOMAIN queue = 1 .. Len(queue) /\ Len(queue) \in Nat
          /\ \A i \in DOMAIN queue : queue[i] \in Event
      BY <1>0, SeqDomain
    <2>2. /\ DOMAIN queue' = 1 .. Len(queue) + 1
          /\ \A i \in DOMAIN queue : queue'[i] = queue[i]
          /\ queue'[Len(queue) + 1] = e
      BY <1>0, AppendElement
    <2> QED
      BY <2>1, <2>2
  <1> SUFFICES ASSUME NEW i \in DOMAIN queue', queue'[i].kind = "log"
               PROVE  \/ \E j \in DOMAIN queue' : /\ i < j
                                                  /\ queue'[j].kind \in Owning
                                                  /\ queue'[j].cell = queue'[i].cell
                      \/ \E t \in Servers : HoldsCopy(t)' /\ call'[t].cell = queue'[i].cell
    BY DEF LogFirst, Carries, Keeps
  <1>2. CASE i = Len(queue) + 1
    BY <1>1, <1>2
  <1>3. CASE i \in DOMAIN queue
    <2> DEFINE c == queue[i].cell
    <2>1. queue'[i] = queue[i] /\ c \in Cells
      BY <1>1, <1>3 DEF Event, PreviewKinds
    <2>2. CASE \E j \in DOMAIN queue : i < j /\ Carries(queue, j, c)
      BY <1>1, <2>1, <2>2 DEF Carries
    <2>3. CASE \E t \in Servers : Keeps(t, c)
      <3>1. CASE e.kind \in Owning /\ e.cell = c
        <4>1. i < Len(queue) + 1 /\ Len(queue) + 1 \in DOMAIN queue'
          BY <1>1, <1>3
        <4> QED
          BY <1>1, <2>1, <3>1, <4>1
      <3>2. CASE ~(e.kind \in Owning /\ e.cell = c)
        <4>1. PICK t \in Servers : Keeps(t, c)'
          BY <2>1, <2>3, <3>2
        <4>2. \A d : d = c => (Keeps(t, d)' <=> HoldsCopy(t)' /\ call'[t].cell = d)
          BY DEF Keeps
        <4> QED
          BY <2>1, <4>1, <4>2
      <3> QED
        BY <3>1, <3>2
    <2> QED
      BY <1>3, <2>1, <2>2, <2>3 DEF LogFirst
  <1> QED
    BY <1>1, <1>2, <1>3

\* Taking an event leaves the events behind it in their order.
LEMMA LogFirstTail ==
    ASSUME TypeInv, LogFirst, queue # <<>>, queue' = Tail(queue), UNCHANGED call
    PROVE  LogFirst'
  <1>1. /\ queue \in Seq(Event) /\ DOMAIN queue = 1 .. Len(queue)
        /\ Len(queue) \in Nat
        /\ DOMAIN queue' = 1 .. Len(queue) - 1
        /\ \A i \in DOMAIN queue' : i + 1 \in DOMAIN queue /\ queue'[i] = queue[i + 1]
    BY SeqDomain, TailElement DEF TypeInv, TypeOK
  <1> SUFFICES ASSUME NEW i \in DOMAIN queue', queue'[i].kind = "log"
               PROVE  \/ \E j \in DOMAIN queue' : /\ i < j
                                                  /\ queue'[j].kind \in Owning
                                                  /\ queue'[j].cell = queue'[i].cell
                      \/ \E t \in Servers : HoldsCopy(t)' /\ call'[t].cell = queue'[i].cell
    BY DEF LogFirst, Carries, Keeps
  <1>2. i + 1 \in DOMAIN queue /\ queue'[i] = queue[i + 1]
    BY <1>1
  <1>3. CASE \E j \in DOMAIN queue : i + 1 < j /\ Carries(queue, j, queue[i + 1].cell)
    <2>1. PICK j \in DOMAIN queue : i + 1 < j /\ Carries(queue, j, queue[i + 1].cell)
      BY <1>3
    <2>2. j - 1 \in DOMAIN queue' /\ queue'[j - 1] = queue[j] /\ i < j - 1
      BY <1>1, <2>1
    <2> QED
      BY <1>2, <2>1, <2>2 DEF Carries
  <1>4. CASE \E t \in Servers : Keeps(t, queue[i + 1].cell)
    BY <1>2, <1>4 DEF Keeps, HoldsCopy, Idle
  <1> QED
    BY <1>2, <1>3, <1>4 DEF LogFirst

\* Every step keeps each log event in front of what owns its copy.
LEMMA NextLogFirst == TypeInv /\ LogFirst /\ [Next]_vars => LogFirst'
  <1> SUFFICES ASSUME TypeInv, LogFirst, [Next]_vars PROVE LogFirst'
    OBVIOUS
  <1>1. ASSUME NEW t \in Servers, BusCall(t)
        PROVE  LogFirst'
    <2>1. \E p \in Props : \E op, step : Enter(t, op, p, step)
      BY <1>1 DEF BusCall, ClientDefineProperty, ClientUpdateProperty,
                  ClientDeleteProperty, ClientReceiveMessage
    <2>2. /\ UNCHANGED queue /\ ~HoldsCopy(t)
          /\ \A u \in Servers : u # t => call'[u] = call[u]
      BY <2>1 DEF Enter, HoldsCopy, TypeInv, TypeOK
    <2> QED
      BY <2>2, LogFirstSame DEF HoldsCopy, Idle
  <1>2. ASSUME NEW t \in Servers, Return(t)
        PROVE  LogFirst'
    <2>1. /\ UNCHANGED queue /\ ~HoldsCopy(t)
          /\ \A u \in Servers : u # t => call'[u] = call[u]
      BY <1>2 DEF Return, Running, HoldsCopy, TypeInv, TypeOK
    <2> QED
      BY <2>1, LogFirstSame DEF HoldsCopy, Idle
  <1>3. ASSUME NEW t \in Servers, EmitPreview(t)
        PROVE  LogFirst'
    <2> DEFINE k == PreviewKind(call[t].op, vector[call[t].prop])
               e == [kind |-> k, thread |-> t, prop |-> call[t].prop, cell |-> NoCell]
    <2>1. k \in PreviewKinds /\ call[t].prop \in Props
      BY <1>3, RunningCall DEF EmitPreview, PreviewKind, PreviewKinds
    <2>2. e \in Event /\ e.kind # "log" /\ queue' = Append(queue, e)
      BY <1>3, <2>1 DEF EmitPreview, Post, Event, PreviewKinds
    <2>3. /\ ~HoldsCopy(t)
          /\ \A u \in Servers : u # t => call'[u] = call[u]
      BY <1>3 DEF EmitPreview, Running, HoldsCopy, TypeInv, TypeOK
    <2>4. \A c \in Cells : \A u \in Servers : Keeps(u, c) => Keeps(u, c)'
      BY <2>3 DEF Keeps, HoldsCopy, Idle
    <2> QED
      BY <2>2, <2>4, LogFirstAppend
  <1>4. ASSUME NEW t \in Servers, EmitFirst(t)
        PROVE  LogFirst'
    <2>1. call[t] \in Call /\ call[t].step = "first" /\ call[t].prop \in Props
      BY <1>4, RunningCall DEF EmitFirst
    <2>2. PICK d \in Cells : /\ Post(t, "log", d)
                             /\ call' = [call EXCEPT ![t].step = "second", ![t].cell = d]
      BY <1>4 DEF EmitFirst, Receivers
    <2> DEFINE e == [kind |-> "log", thread |-> t, prop |-> call[t].prop, cell |-> d]
    <2>3. e \in Event /\ queue' = Append(queue, e)
      BY <2>1, <2>2 DEF Post, Event, Kinds, PreviewKinds
    <2>4. /\ ~HoldsCopy(t)
          /\ \A u \in Servers : u # t => call'[u] = call[u]
          /\ call'[t] = [call[t] EXCEPT !.step = "second", !.cell = d]
      BY <2>1, <2>2 DEF HoldsCopy, TypeInv, TypeOK
    <2>5. HoldsCopy(t)' /\ call'[t].cell = d
      <3>1. call'[t].op \in PropertyKinds /\ call'[t].step = "second" /\ call'[t].cell = d
        BY <2>1, <2>4 DEF Call
      <3>2. call'[t] # Resting
        BY <2>1, <2>4 DEF Call, Resting
      <3> QED
        BY <3>1, <3>2 DEF HoldsCopy, Idle
    <2>6. \A c \in Cells : \A u \in Servers : Keeps(u, c) => Keeps(u, c)'
      BY <2>4 DEF Keeps, HoldsCopy, Idle
    <2> QED
      BY <2>3, <2>5, <2>6, LogFirstAppend
  <1>5. ASSUME NEW t \in Servers, EmitSecond(t)
        PROVE  LogFirst'
    <2> DEFINE d == call[t].cell
               e == [kind |-> call[t].op, thread |-> t, prop |-> call[t].prop, cell |-> d]
    <2>1. /\ call[t].op \in PropertyKinds /\ d \in Cells /\ call[t].prop \in Props
      BY <1>5, RunningCall DEF EmitSecond
    <2>2. /\ e \in Event /\ e.kind \in Owning /\ e.kind # "log" /\ e.cell = d
          /\ queue' = Append(queue, e)
      BY <1>5, <2>1 DEF EmitSecond, Receivers, Post, Event, Kinds, PreviewKinds,
                        Owning, PropertyKinds, Deletions, AllSweeps
    <2>3. \A u \in Servers : u # t => call'[u] = call[u]
      BY <1>5 DEF EmitSecond, TypeInv, TypeOK
    <2>4. \A c \in Cells : \A u \in Servers : Keeps(u, c) =>
             Keeps(u, c)' \/ (e.kind \in Owning /\ e.cell = c)
      BY <2>2, <2>3 DEF Keeps, HoldsCopy, Idle
    <2> QED
      BY <2>2, <2>4, LogFirstAppend
  <1>6. ASSUME NEW t \in Servers, EmitMessage(t)
        PROVE  LogFirst'
    <2>1. call[t].prop \in Props
      BY <1>6, RunningCall DEF EmitMessage
    <2>2. PICK d \in Cells : Post(t, "message", d)
      BY <1>6 DEF EmitMessage
    <2> DEFINE e == [kind |-> "message", thread |-> t, prop |-> call[t].prop, cell |-> d]
    <2>3. e \in Event /\ e.kind # "log" /\ queue' = Append(queue, e)
      BY <2>1, <2>2 DEF Post, Event, Kinds, PreviewKinds
    <2>4. /\ ~HoldsCopy(t)
          /\ \A u \in Servers : u # t => call'[u] = call[u]
      BY <1>6 DEF EmitMessage, Running, HoldsCopy, TypeInv, TypeOK
    <2>5. \A c \in Cells : \A u \in Servers : Keeps(u, c) => Keeps(u, c)'
      BY <2>4 DEF Keeps, HoldsCopy, Idle
    <2> QED
      BY <2>3, <2>5, LogFirstAppend
  <1>7. CASE Handle
    <2>1. queue # <<>> /\ queue' = Tail(queue) /\ UNCHANGED call
      BY <1>7 DEF Handle, OnMessageSent, OnMessageReceived, OnCreatePreview,
                  OnObsoletePreview, OnRemovePreview, OnNoPreview, RemovePreview,
                  DefineProperty, UpdateProperty, DeleteProperty, Take, busVars
    <2> QED
      BY <2>1, LogFirstTail
  <1>8. ASSUME NEW t \in Servers, FinishCreatePreview(t)
        PROVE  LogFirst'
    BY <1>8, LogFirstSame DEF FinishCreatePreview, busVars, HoldsCopy, Idle
  <1>9. CASE RebuildPreviews
    BY <1>9, LogFirstSame DEF RebuildPreviews, BeginRebuild, ContinueRebuild, EndRebuild,
                              busVars, HoldsCopy, Idle
  <1>10. CASE UNCHANGED vars
    BY <1>10, LogFirstSame DEF vars, HoldsCopy, Idle
  <1> QED
    BY <1>1, <1>2, <1>3, <1>4, <1>5, <1>6, <1>7, <1>8, <1>9, <1>10 DEF Next, BusStep

\* What is logged in front of its owner is owned, hence allocated.
LEMMA LogFirstImplies == TypeInv /\ OwnershipInv /\ LogFirst => LogReadsLiveCopy
  <1> SUFFICES ASSUME TypeInv, OwnershipInv, LogFirst,
                      NEW i \in DOMAIN queue, queue[i].kind = "log"
               PROVE  heap[queue[i].cell] # "free"
    BY DEF LogReadsLiveCopy
  <1>1. queue[i] \in Event
    BY SeqDomain DEF TypeInv, TypeOK
  <1>2. queue[i].cell \in Cells
    BY <1>1 DEF Event, PreviewKinds
  <1> QED
    BY <1>2 DEF LogFirst, OwnershipInv, HeldRight, Held

\* In every run the log reads a copy that is still allocated: the slot of
\* PropertyModel that releases it runs after BrowserWindow::on_message_sent.
THEOREM LogIsSafe == Spec => []LogReadsLiveCopy
  <1>1. Init => TypeInv /\ OwnershipInv /\ LogFirst
    BY InitTypeInv, InitOwnership DEF Init, LogFirst
  <1>2. /\ TypeInv /\ OwnershipInv /\ LogFirst /\ [Next]_vars
        => (TypeInv /\ OwnershipInv /\ LogFirst)'
    BY NextTypeInv, NextOwnership, NextLogFirst
  <1>3. TypeInv /\ OwnershipInv /\ LogFirst => LogReadsLiveCopy
    BY LogFirstImplies
  <1> QED
    BY <1>1, <1>2, <1>3, PTL DEF Spec

=============================================================================
