------------------------ MODULE PropertyPreviewProofs ------------------------
(***************************************************************************)
(* Theorems about the preview signals of PropertyPipeline: how deep the    *)
(* event loops nest, that the bus's own vectors outlive the signals that   *)
(* carry them, and what the previews show in the end.  They rest on one    *)
(* fact, Sleeping: a signal a thread sleeps on is the last it has posted.  *)
(* With the ownership of the copies it also shows that the pipeline        *)
(* implements PropertyMirror.                                              *)
(***************************************************************************)
EXTENDS PropertyPipelineProofs, FiniteSetTheorems

-----------------------------------------------------------------------------
(* The steps, as far as the preview signals see them.                      *)

PreviewQuiet == UNCHANGED <<vector, nested, preview>>

\* The thread of t enters a callback about its vector p.
Entered(t, p) ==
    /\ Owner[p] = t /\ Idle(t) /\ UNCHANGED <<queue, blocked, nested, preview>>
    /\ call'[t] # Resting /\ call'[t].prop = p
    /\ call'[t].step = "preview" => p \in Blobs
    /\ call'[t].op = "message" => UNCHANGED vector
    /\ call'[t].step = "preview" => call'[t].op \notin AllSweeps
    /\ call'[t].op # "message" => call'[t].step = FirstStep(call'[t].op, p)
    /\ call'[t].op \in Deletions => UNCHANGED vector
    /\ \A u \in Servers : u # t => call'[u] = call[u]
    /\ \A q \in Props : q # p => vector'[q] = vector[q]
    /\ vector'[p] \notin Gone

\* The thread of t posts e about its vector p.
PostedBy(t, p, e) ==
    /\ ~Idle(t) /\ t \notin blocked /\ call[t].prop = p /\ Owner[p] = t
    /\ e \in Event /\ e.thread = t /\ e.prop = p /\ queue' = Append(queue, e)
    /\ blocked' = IF e.kind \in Blocking THEN blocked \cup {t} ELSE blocked
    /\ call'[t] # Resting /\ call'[t].step # "preview"
    /\ call'[t].op = call[t].op /\ call'[t].prop = p
    /\ \A u \in Servers : u # t => call'[u] = call[u]
    /\ e.kind \in PreviewKinds <=> call[t].step = "preview"
    /\ e.kind \in PreviewKinds => e.kind = PreviewKind(call[t].op, vector[p])
    /\ call'[t].step = "return" /\ call[t].op # "message" => e.kind = call[t].op
    /\ PreviewQuiet

\* A call of the bus is about a vector of its own server.
LEMMA BusCallEnters ==
    ASSUME TypeInv, NEW t \in Servers, BusCall(t)
    PROVE  \E p \in Props : Entered(t, p)
  <1>1. PICK p \in Props : \/ \E s \in States[p] : ClientDefineProperty(t, p, s)
                           \/ \E s \in States[p] : ClientUpdateProperty(t, p, s)
                           \/ \E op \in {"delete"} \cup Sweeps : ClientDeleteProperty(t, op, p)
                           \/ ClientReceiveMessage(t, p)
    BY DEF BusCall
  <1>2. ASSUME NEW op, NEW step, Enter(t, op, p, step),
               \/ op # "message" /\ step = FirstStep(op, p)
               \/ op = "message" /\ step = "message",
               op \in {"message"} \cup Deletions => UNCHANGED vector,
               \A q \in Props : q # p => vector'[q] = vector[q],
               vector'[p] \notin Gone
        PROVE  Entered(t, p)
    <2> DEFINE c == [op |-> op, prop |-> p, step |-> step, cell |-> NoCell]
    <2>1. call' = [call EXCEPT ![t] = c] /\ Owner[p] = t /\ Idle(t)
          /\ UNCHANGED <<queue, blocked, nested, preview>>
      BY <1>2 DEF Enter, guiVars, loopVars
    <2>2. call'[t] = c /\ \A u \in Servers : u # t => call'[u] = call[u]
      BY <2>1 DEF TypeInv, TypeOK
    <2>3. c # Resting /\ c.op = op /\ c.prop = p /\ c.step = step
      BY DEF Resting
    <2>4. step = "preview" => p \in Blobs /\ op \notin AllSweeps
      BY <1>2 DEF FirstStep
    <2> QED
      BY <1>2, <2>1, <2>2, <2>3, <2>4 DEF Entered
  <1>3. /\ vector \in [Props -> AllStates \cup Gone]
        /\ \A s \in States[p] : s \in AllStates /\ s \notin Gone
    BY PipelineAssumption DEF TypeInv, TypeOK, AllStates, Gone
  <1>4. CASE \E s \in States[p] : ClientDefineProperty(t, p, s) \/ ClientUpdateProperty(t, p, s)
    <2>1. PICK s \in States[p], op \in {"define", "update"} :
            Enter(t, op, p, FirstStep(op, p)) /\ vector' = [vector EXCEPT ![p] = s]
      BY <1>4 DEF ClientDefineProperty, ClientUpdateProperty
    <2>2. op # "message" /\ op \notin Deletions
      BY DEF Deletions, AllSweeps
    <2>3. vector'[p] \notin Gone /\ \A q \in Props : q # p => vector'[q] = vector[q]
      BY <1>3, <2>1
    <2> QED
      BY <1>2, <2>1, <2>2, <2>3
  <1>5. CASE \E op \in {"delete"} \cup Sweeps : ClientDeleteProperty(t, op, p)
    <2>1. PICK op \in Deletions : ClientDeleteProperty(t, op, p)
      BY <1>5, PipelineAssumption DEF Deletions
    <2>2. op # "message"
      BY DEF Deletions, AllSweeps
    <2> QED
      BY <1>2, <2>1, <2>2 DEF ClientDeleteProperty
  <1>6. CASE ClientReceiveMessage(t, p)
    BY <1>2, <1>6 DEF ClientReceiveMessage
  <1> QED
    BY <1>1, <1>4, <1>5, <1>6

\* A callback that goes on to its next step.
LEMMA MovedCall ==
    ASSUME TypeInv, NEW t \in Servers, call[t] \in Call, NEW x, NEW y,
           \/ call' = [call EXCEPT ![t].step = x]
           \/ call' = [call EXCEPT ![t].step = x, ![t].cell = y]
    PROVE  /\ call'[t].step = x /\ call'[t].op = call[t].op /\ call'[t].prop = call[t].prop
           /\ \A u \in Servers : u # t => call'[u] = call[u]
  <1>1. \A u \in Servers : u # t => call'[u] = call[u]
    BY DEF TypeInv, TypeOK
  <1>2. CASE call' = [call EXCEPT ![t].step = x]
    <2>1. call'[t] = [call[t] EXCEPT !.step = x]
      BY <1>2 DEF TypeInv, TypeOK
    <2> QED
      BY <1>1, <2>1 DEF Call
  <1>3. CASE call' = [call EXCEPT ![t].step = x, ![t].cell = y]
    <2>1. call'[t] = [call[t] EXCEPT !.step = x, !.cell = y]
      BY <1>3 DEF TypeInv, TypeOK
    <2> QED
      BY <1>1, <2>1 DEF Call
  <1> QED
    BY <1>2, <1>3

\* A signal of a callback is about the callback's vector.
LEMMA EmitPosts ==
    ASSUME TypeInv, NEW t \in Servers,
           EmitPreview(t) \/ EmitFirst(t) \/ EmitSecond(t) \/ EmitMessage(t)
    PROVE  \E p \in Props, e \in Event : PostedBy(t, p, e)
  <1> DEFINE p == call[t].prop
  <1>1. PICK step \in {"preview", "first", "second", "message"} : Running(t, step)
    BY DEF EmitPreview, EmitFirst, EmitSecond, EmitMessage
  <1>2. /\ call[t] \in Call /\ p \in Props /\ call[t].step = step
        /\ step = "second" => call[t].cell \in Cells
        /\ step \in {"preview", "first", "second"} => call[t].op \in PropertyKinds
        /\ ~Idle(t) /\ t \notin blocked /\ Owner[p] = t
    BY <1>1, RunningCall DEF Running, TypeInv, CallsAboutOwnVector
  <1>3. PICK kind, cell :
          /\ Post(t, kind, cell)
          /\ \/ kind \in PreviewKinds /\ cell = NoCell /\ step = "preview"
                /\ kind = PreviewKind(call[t].op, vector[p])
             \/ kind \in Kinds \ PreviewKinds /\ cell \in Cells /\ step # "preview"
          /\ step = "second" => kind = call[t].op
    <2>1. CASE EmitPreview(t)
      BY <1>1, <1>2, <2>1 DEF EmitPreview, Running, PreviewKind, PreviewKinds
    <2>2. CASE EmitFirst(t)
      BY <1>1, <1>2, <2>2 DEF EmitFirst, Running, Receivers, Kinds, PreviewKinds
    <2>3. CASE EmitSecond(t)
      BY <1>1, <1>2, <2>3 DEF EmitSecond, Running, Receivers, Kinds, PreviewKinds, PropertyKinds,
           Deletions, AllSweeps
    <2>4. CASE EmitMessage(t)
      BY <1>1, <1>2, <2>4 DEF EmitMessage, Running, Kinds, PreviewKinds
    <2> QED
      BY <2>1, <2>2, <2>3, <2>4
  <1> DEFINE e == [kind |-> kind, thread |-> t, prop |-> p, cell |-> cell]
  <1>4. e \in Event
    BY <1>2, <1>3 DEF Event
  <1>5. queue' = Append(queue, e)
        /\ blocked' = IF kind \in Blocking THEN blocked \cup {t} ELSE blocked
    BY <1>3 DEF Post
  <1>6. /\ \/ call' = [call EXCEPT ![t].step = "first"]
           \/ \E c \in Cells : call' = [call EXCEPT ![t].step = "second", ![t].cell = c]
           \/ call' = [call EXCEPT ![t].step = "return", ![t].cell = NoCell]
           \/ call' = [call EXCEPT ![t].step = "return"]
        /\ PreviewQuiet
    BY DEF EmitPreview, EmitFirst, EmitSecond, EmitMessage, PreviewQuiet, guiVars, loopVars
  <1>7. /\ call'[t].step # "preview" /\ call'[t].op = call[t].op /\ call'[t].prop = p
        /\ \A u \in Servers : u # t => call'[u] = call[u]
    <2>1. \E x : x # "preview" /\ \/ call' = [call EXCEPT ![t].step = x]
                                  \/ \E y : call' = [call EXCEPT ![t].step = x, ![t].cell = y]
      <3>1. CASE call' = [call EXCEPT ![t].step = "first"]
        BY <3>1
      <3>2. CASE \E c \in Cells : call' = [call EXCEPT ![t].step = "second", ![t].cell = c]
        BY <3>2
      <3>3. CASE call' = [call EXCEPT ![t].step = "return", ![t].cell = NoCell]
        BY <3>3
      <3>4. CASE call' = [call EXCEPT ![t].step = "return"]
        BY <3>4
      <3> QED
        BY <1>6, <3>1, <3>2, <3>3, <3>4
    <2> QED
      BY <1>2, <2>1, MovedCall
  <1>8. call'[t] # Resting
    <2>1. call[t].op # "none"
      BY <1>2 DEF Call, PropertyKinds, Deletions, AllSweeps
    <2> QED
      BY <1>7, <2>1 DEF Resting
  <1>9. e.kind = kind /\ e.thread = t /\ e.prop = p
    OBVIOUS
  <1>10. call'[t].step = "return" /\ call[t].op # "message" => kind = call[t].op
    <2>1. CASE EmitPreview(t)
      BY <1>2, <2>1, MovedCall DEF EmitPreview
    <2>2. CASE EmitFirst(t)
      <3>1. PICK c \in Cells : call' = [call EXCEPT ![t].step = "second", ![t].cell = c]
        BY <2>2 DEF EmitFirst
      <3>2. call'[t].step = "second"
        BY <1>2, <3>1, MovedCall
      <3> QED
        BY <3>2
    <2>3. CASE EmitSecond(t)
      BY <1>2, <1>3, <2>3 DEF EmitSecond, Running
    <2>4. CASE EmitMessage(t)
      BY <2>4, RunningCall DEF EmitMessage
    <2> QED
      BY <2>1, <2>2, <2>3, <2>4
  <1> HIDE DEF e
  <1> QED
    BY <1>2, <1>3, <1>4, <1>5, <1>6, <1>7, <1>8, <1>9, <1>10 DEF PostedBy

\* The GUI thread handles e.
Handled(e) ==
    /\ queue # <<>> /\ e = Head(queue) /\ queue' = Tail(queue)
    /\ UNCHANGED <<vector, call>>
    /\ e.kind = "create" =>
         /\ nested' = Append(nested, e) /\ UNCHANGED blocked
         /\ preview' = [preview EXCEPT ![e.prop] = "none"]
    /\ e.kind # "create" =>
         /\ UNCHANGED nested
         /\ blocked' = IF e.kind \in Blocking THEN blocked \ {e.thread} ELSE blocked
    /\ e.kind = "obsolete" =>
         preview' = [preview EXCEPT ![e.prop] = IF @ = "none" THEN @ ELSE "obsolete"]
    /\ e.kind \in {"remove", "no"} => preview' = [preview EXCEPT ![e.prop] = "none"]
    /\ e.kind \notin PreviewKinds => UNCHANGED preview

\* What a slot does to the previews and the sleeping threads.
LEMMA HandleIs ==
    ASSUME TypeInv, Handle
    PROVE  \E e \in Event : Handled(e)
  <1> DEFINE e == Head(queue)
  <1>1. queue # <<>> /\ queue' = Tail(queue)
    BY DEF Handle, OnMessageSent, OnMessageReceived, OnCreatePreview, OnObsoletePreview,
           OnRemovePreview, OnNoPreview, RemovePreview, DefineProperty, UpdateProperty,
           DeleteProperty, Take
  <1>2. e \in Event
    BY <1>1, TailElement DEF TypeInv, TypeOK
  <1>3. CASE OnMessageSent \/ OnMessageReceived \/ DeleteProperty
    <2>1. UNCHANGED <<vector, call, blocked, nested, preview>>
      BY <1>3 DEF OnMessageSent, OnMessageReceived, DeleteProperty, busVars, guiVars, loopVars
    <2>2. e.kind \in Deletions \cup {"log", "message"}
      BY <1>3 DEF OnMessageSent, OnMessageReceived, DeleteProperty, Take
    <2>3. e.kind \notin PreviewKinds /\ e.kind \notin Blocking
      BY <2>2 DEF Deletions, AllSweeps, PreviewKinds, Blocking
    <2> HIDE DEF e
    <2> QED
      BY <1>1, <1>2, <2>1, <2>3 DEF Handled, e, PreviewKinds
  <1>4. CASE DefineProperty \/ UpdateProperty
    BY <1>1, <1>2, <1>4 DEF DefineProperty, UpdateProperty, Take, Handled, Wake,
         busVars, guiVars, loopVars, Blocking, PreviewKinds
  <1>5. CASE OnCreatePreview
    BY <1>1, <1>2, <1>5 DEF OnCreatePreview, Take, Handled, busVars, PreviewKinds
  <1>6. CASE OnObsoletePreview
    BY <1>1, <1>2, <1>6 DEF OnObsoletePreview, Take, Handled, Wake, busVars,
         loopVars, Blocking, PreviewKinds
  <1>7. CASE OnRemovePreview \/ OnNoPreview
    BY <1>1, <1>2, <1>7 DEF OnRemovePreview, OnNoPreview, RemovePreview, Take, Handled,
         busVars, loopVars, Blocking, PreviewKinds
  <1> QED
    BY <1>3, <1>4, <1>5, <1>6, <1>7 DEF Handle

\* The queue behind a signal that is posted, and in front of one.
LEMMA Behind ==
    ASSUME TypeInv, NEW e \in Event, queue' = Append(queue, e)
    PROVE  /\ Len(queue) \in Nat /\ DOMAIN queue = 1 .. Len(queue)
           /\ DOMAIN queue' = 1 .. Len(queue) + 1 /\ queue'[Len(queue) + 1] = e
           /\ \A i \in DOMAIN queue : queue'[i] = queue[i] /\ queue[i] \in Event
  <1>1. queue \in Seq(Event)
    BY DEF TypeInv, TypeOK
  <1> QED
    BY <1>1, AppendElement, SeqDomain

LEMMA Shifted ==
    ASSUME TypeInv, NEW e, Handled(e)
    PROVE  /\ Len(queue) \in Nat /\ DOMAIN queue = 1 .. Len(queue)
           /\ 1 \in DOMAIN queue /\ queue[1] = e
           /\ DOMAIN queue' = 1 .. Len(queue) - 1
           /\ \A i \in DOMAIN queue' : i + 1 \in DOMAIN queue /\ queue'[i] = queue[i + 1]
           /\ \A i \in DOMAIN queue : queue[i] \in Event
  <1>1. queue \in Seq(Event)
    BY DEF TypeInv, TypeOK
  <1> QED
    BY <1>1, TailElement, SeqDomain DEF Handled

LEMMA Begun ==
    ASSUME TypeInv, NEW e \in Event, nested' = Append(nested, e)
    PROVE  /\ Len(nested) \in Nat /\ DOMAIN nested = 1 .. Len(nested)
           /\ DOMAIN nested' = 1 .. Len(nested) + 1 /\ nested'[Len(nested) + 1] = e
           /\ \A i \in DOMAIN nested : nested'[i] = nested[i] /\ nested[i] \in Event
  <1>1. nested \in Seq(Event)
    BY DEF TypeInv, TypeOK
  <1> QED
    BY <1>1, AppendElement, SeqDomain

LEMMA Ended ==
    ASSUME TypeInv, NEW t \in Servers, FinishCreatePreview(t)
    PROVE  /\ Len(nested) \in Nat /\ DOMAIN nested = 1 .. Len(nested)
           /\ Len(nested) \in DOMAIN nested /\ nested[Len(nested)].thread = t
           /\ DOMAIN nested' = 1 .. Len(nested) - 1
           /\ \A i \in DOMAIN nested' : i \in DOMAIN nested /\ nested'[i] = nested[i]
           /\ UNCHANGED <<vector, call, queue>> /\ blocked' = blocked \ {t}
           /\ \A p \in Props : /\ p # nested[Len(nested)].prop => preview'[p] = preview[p]
                               /\ preview'[p] \in {preview[p], "fresh"}
  <1>1. nested \in Seq(Event)
    BY DEF TypeInv, TypeOK
  <1>2. /\ nested # <<>> /\ nested' = SubSeq(nested, 1, Len(nested) - 1)
        /\ nested[Len(nested)].thread = t
        /\ UNCHANGED <<vector, call, queue>> /\ blocked' = blocked \ {t}
    BY DEF FinishCreatePreview, InCreation, Last, Wake, busVars
  <1>3. \A p \in Props : /\ p # nested[Len(nested)].prop => preview'[p] = preview[p]
                         /\ preview'[p] \in {preview[p], "fresh"}
    <2> DEFINE q == nested[Len(nested)].prop
    <2>1. preview' = preview \/ preview' = [preview EXCEPT ![q] = "fresh"]
      BY DEF FinishCreatePreview, Last, Stored
    <2>2. preview \in [Props -> {"none", "fresh", "obsolete", "rebuilt"}]
      BY DEF TypeInv, TypeOK
    <2> HIDE DEF q
    <2>3. \A p \in Props : /\ p # q => preview'[p] = preview[p]
                           /\ preview'[p] \in {preview[p], "fresh"}
      BY <2>1, <2>2
    <2> QED
      BY <2>3 DEF q
  <1> QED
    BY <1>1, <1>2, <1>3, FrontElement, SeqDomain

\* A step of a rebuild clears the preview of a BLOB vector, or stores one of it.
LEMMA Rebuilt ==
    ASSUME TypeInv, RebuildPreviews
    PROVE  /\ UNCHANGED <<vector, call, blocked, queue, nested, heap, node>>
           /\ \A p \in Props : /\ preview'[p] \in {preview[p], "none", "rebuilt"}
                               /\ p \notin Blobs => preview'[p] = preview[p]
  <1>1. preview \in [Props -> {"none", "fresh", "obsolete", "rebuilt"}]
    BY DEF TypeInv, TypeOK
  <1>2. InRebuild => Last(rebuilds).prop \in Blobs
    <2>1. rebuilds \in Seq(Rebuild)
      BY DEF TypeInv, TypeOK
    <2>2. rebuilds # <<>> => Last(rebuilds) \in Rebuild
      BY <2>1 DEF Last
    <2> QED
      BY <2>2 DEF InRebuild, Rebuild
  <1>3. ASSUME NEW q \in Blobs, NEW f \in Stored(q, "rebuilt")
        PROVE  /\ f \in [Props -> {"none", "fresh", "obsolete", "rebuilt"}]
               /\ \A p \in Props : /\ f[p] \in {preview[p], "rebuilt"}
                                   /\ p \notin Blobs => f[p] = preview[p]
    <2>1. f = preview \/ f = [preview EXCEPT ![q] = "rebuilt"]
      BY DEF Stored
    <2> QED
      BY <1>1, <2>1
  <1>4. CASE \E q \in Blobs : BeginRebuild(q)
    BY <1>1, <1>4 DEF BeginRebuild, busVars, copyVars
  <1>5. CASE \E q \in Blobs : ContinueRebuild(q)
    <2>1. PICK q \in Blobs : ContinueRebuild(q)
      BY <1>5
    <2>2. PICK stored \in Stored(Last(rebuilds).prop, "rebuilt") :
            preview' = [stored EXCEPT ![q] = "none"]
      BY <2>1 DEF ContinueRebuild
    <2>3. Last(rebuilds).prop \in Blobs
      BY <1>2, <2>1 DEF ContinueRebuild
    <2>4. /\ stored \in [Props -> {"none", "fresh", "obsolete", "rebuilt"}]
          /\ \A p \in Props : /\ stored[p] \in {preview[p], "rebuilt"}
                              /\ p \notin Blobs => stored[p] = preview[p]
      BY <1>3, <2>2, <2>3
    <2>5. UNCHANGED <<vector, call, blocked, queue, nested, heap, node>>
      BY <2>1 DEF ContinueRebuild, busVars, copyVars
    <2> QED
      BY <2>2, <2>4, <2>5
  <1>6. CASE EndRebuild
    <2>1. Last(rebuilds).prop \in Blobs /\ preview' \in Stored(Last(rebuilds).prop, "rebuilt")
      BY <1>2, <1>6 DEF EndRebuild
    <2>2. UNCHANGED <<vector, call, blocked, queue, nested, heap, node>>
      BY <1>6 DEF EndRebuild, busVars, copyVars
    <2> QED
      BY <1>3, <2>1, <2>2
  <1> QED
    BY <1>4, <1>5, <1>6 DEF RebuildPreviews

-----------------------------------------------------------------------------
(* A signal a thread sleeps on is the last it has posted, and a creation   *)
(* that is being handled is its only one.                                  *)

BlockingIsLast ==
    \A i \in DOMAIN queue :
      /\ Owner[queue[i].prop] = queue[i].thread
      /\ queue[i].kind \in PreviewKinds => queue[i].prop \in Blobs
      /\ queue[i].kind \in Blocking =>
           /\ queue[i].thread \in blocked
           /\ \A j \in DOMAIN queue : queue[j].thread = queue[i].thread => j <= i

NestedAlone ==
    \A i \in DOMAIN nested :
      /\ Owner[nested[i].prop] = nested[i].thread /\ nested[i].prop \in Blobs
      /\ nested[i].thread \in blocked
      /\ \A j \in DOMAIN queue : queue[j].thread # nested[i].thread
      /\ \A j \in DOMAIN nested : nested[j].thread = nested[i].thread => i = j

CallsAsleep ==
    \A t \in Servers :
      /\ t \in blocked => ~Idle(t) /\ call[t].step # "preview"
      /\ ~Idle(t) /\ call[t].step = "preview" =>
           call[t].prop \in Blobs /\ call[t].op \notin AllSweeps

Sleeping == BlockingIsLast /\ NestedAlone /\ CallsAsleep

LEMMA InitSleeping == Init => Sleeping
    BY DEF Init, Sleeping, BlockingIsLast, NestedAlone, CallsAsleep, Idle

LEMMA NextSleeping == TypeInv /\ Sleeping /\ [Next]_vars => Sleeping'
  <1> SUFFICES ASSUME TypeInv, Sleeping, [Next]_vars PROVE Sleeping'
    OBVIOUS
  <1> USE DEF Sleeping
  <1>1. ASSUME NEW t \in Servers, NEW p \in Props, Entered(t, p)
        PROVE  Sleeping'
    <2>1. BlockingIsLast' /\ NestedAlone'
      BY <1>1 DEF Entered, BlockingIsLast, NestedAlone
    <2>2. CallsAsleep'
      BY <1>1 DEF Entered, CallsAsleep, Idle
    <2> QED
      BY <2>1, <2>2
  <1>2. ASSUME NEW t \in Servers, NEW p \in Props, NEW e \in Event, PostedBy(t, p, e)
        PROVE  Sleeping'
    <2>1. /\ Len(queue) \in Nat /\ DOMAIN queue = 1 .. Len(queue)
          /\ DOMAIN queue' = 1 .. Len(queue) + 1 /\ queue'[Len(queue) + 1] = e
          /\ \A i \in DOMAIN queue : queue'[i] = queue[i] /\ queue[i] \in Event
      BY <1>2, Behind DEF PostedBy
    <2>2. /\ t \notin blocked /\ e.thread = t /\ e.prop = p /\ Owner[p] = t
          /\ e.kind \in PreviewKinds => p \in Blobs
          /\ blocked' = IF e.kind \in Blocking THEN blocked \cup {t} ELSE blocked
          /\ UNCHANGED nested
      BY <1>2 DEF PostedBy, CallsAsleep, PreviewQuiet
    <2>3. BlockingIsLast'
      BY <2>1, <2>2 DEF BlockingIsLast
    <2>4. NestedAlone'
      BY <2>1, <2>2 DEF NestedAlone
    <2>5. CallsAsleep'
      BY <1>2 DEF PostedBy, CallsAsleep, Idle
    <2> QED
      BY <2>3, <2>4, <2>5
  <1>3. ASSUME NEW t \in Servers, Return(t)
        PROVE  Sleeping'
    <2>1. /\ UNCHANGED <<queue, blocked, nested>> /\ t \notin blocked
          /\ call' = [call EXCEPT ![t] = Resting]
      BY <1>3 DEF Return, Running, guiVars, loopVars
    <2>2. CallsAsleep'
      BY <2>1 DEF CallsAsleep, Idle, TypeInv, TypeOK
    <2> QED
      BY <2>1, <2>2 DEF BlockingIsLast, NestedAlone
  <1>4. ASSUME NEW e \in Event, Handled(e)
        PROVE  Sleeping'
    <2>1. /\ Len(queue) \in Nat /\ DOMAIN queue = 1 .. Len(queue)
          /\ 1 \in DOMAIN queue /\ queue[1] = e
          /\ DOMAIN queue' = 1 .. Len(queue) - 1
          /\ \A i \in DOMAIN queue' : i + 1 \in DOMAIN queue /\ queue'[i] = queue[i + 1]
      BY <1>4, Shifted
    <2>2. e.kind \in Blocking => \A i \in DOMAIN queue' : queue'[i].thread # e.thread
      BY <2>1 DEF BlockingIsLast
    <2>3. e.kind \in Blocking => \A i \in DOMAIN nested : nested[i].thread # e.thread
      BY <2>1 DEF NestedAlone
    <2>4. UNCHANGED call /\ blocked' \subseteq blocked
      BY <1>4 DEF Handled
    <2>5. CallsAsleep'
      BY <2>4 DEF CallsAsleep, Idle
    <2>6. CASE e.kind = "create"
      <3>1. nested' = Append(nested, e) /\ UNCHANGED blocked /\ e.kind \in Blocking
        BY <1>4, <2>6 DEF Handled, Blocking
      <3>2. /\ Len(nested) \in Nat /\ DOMAIN nested = 1 .. Len(nested)
            /\ DOMAIN nested' = 1 .. Len(nested) + 1 /\ nested'[Len(nested) + 1] = e
            /\ \A i \in DOMAIN nested : nested'[i] = nested[i]
        BY <3>1, Begun
      <3>3. BlockingIsLast'
        BY <2>1, <3>1 DEF BlockingIsLast
      <3>4. e.thread \in blocked /\ Owner[e.prop] = e.thread /\ e.prop \in Blobs
        BY <2>1, <2>6, <3>1 DEF BlockingIsLast, PreviewKinds
      <3>5. NestedAlone'
        BY <2>1, <2>2, <2>3, <3>1, <3>2, <3>4 DEF NestedAlone
      <3> QED
        BY <2>5, <3>3, <3>5
    <2>7. CASE e.kind # "create"
      <3>1. /\ UNCHANGED nested
            /\ blocked' = IF e.kind \in Blocking THEN blocked \ {e.thread} ELSE blocked
        BY <1>4, <2>7 DEF Handled
      <3>2. BlockingIsLast'
        BY <2>1, <2>2, <3>1 DEF BlockingIsLast
      <3>3. NestedAlone'
        BY <2>1, <2>3, <3>1 DEF NestedAlone
      <3> QED
        BY <2>5, <3>2, <3>3
    <2> QED
      BY <2>6, <2>7
  <1>5. ASSUME NEW t \in Servers, FinishCreatePreview(t)
        PROVE  Sleeping'
    <2>1. /\ Len(nested) \in Nat /\ DOMAIN nested = 1 .. Len(nested)
          /\ Len(nested) \in DOMAIN nested /\ nested[Len(nested)].thread = t
          /\ DOMAIN nested' = 1 .. Len(nested) - 1
          /\ \A i \in DOMAIN nested' : i \in DOMAIN nested /\ nested'[i] = nested[i]
          /\ UNCHANGED <<vector, call, queue>> /\ blocked' = blocked \ {t}
      BY <1>5, Ended
    <2>2. \A i \in DOMAIN queue : queue[i].thread # t
      BY <2>1 DEF NestedAlone
    <2>3. \A i \in DOMAIN nested' : nested'[i].thread # t
      BY <2>1 DEF NestedAlone
    <2>4. BlockingIsLast'
      BY <2>1, <2>2 DEF BlockingIsLast
    <2>5. NestedAlone'
      BY <2>1, <2>2, <2>3 DEF NestedAlone
    <2>6. CallsAsleep'
      BY <2>1 DEF CallsAsleep, Idle
    <2> QED
      BY <2>4, <2>5, <2>6
  <1>6. CASE UNCHANGED <<call, blocked, queue, nested>>
    BY <1>6 DEF BlockingIsLast, NestedAlone, CallsAsleep, Idle
  <1>7. UNCHANGED vars \/ RebuildPreviews => UNCHANGED <<call, blocked, queue, nested>>
    BY Rebuilt DEF vars
  <1> QED
    BY <1>1, <1>2, <1>3, <1>4, <1>5, <1>6, <1>7, BusCallEnters, EmitPosts, HandleIs
       DEF Next, BusStep

\* The creations for bus threads are for different ones, each asleep, so that
\* their number is bounded by that of the servers.
LEMMA SleepingBounds == TypeInv /\ Sleeping => NestingBounded
  <1> SUFFICES ASSUME TypeInv, Sleeping PROVE NestingBounded
    OBVIOUS
  <1>1. /\ DOMAIN nested = 1 .. Len(nested) /\ Len(nested) \in Nat
        /\ \A i \in DOMAIN nested : nested[i].thread \in Servers
    <2>1. nested \in Seq(Event)
      BY DEF TypeInv, TypeOK
    <2>2. /\ DOMAIN nested = 1 .. Len(nested) /\ Len(nested) \in Nat
          /\ \A i \in DOMAIN nested : nested[i] \in Event
      BY <2>1, SeqDomain
    <2> QED
      BY <2>2 DEF Event
  <1>2. \A i, j \in DOMAIN nested : /\ nested[i].thread \in blocked
                                    /\ nested[i].thread = nested[j].thread => i = j
    BY DEF Sleeping, NestedAlone
  <1> DEFINE f == [i \in 1 .. Len(nested) |-> nested[i].thread]
  <1>3. f \in Injection(1 .. Len(nested), Servers)
    <2>1. f \in [1 .. Len(nested) -> Servers]
      BY <1>1
    <2>2. \A i, j \in 1 .. Len(nested) : f[i] = f[j] => i = j
      BY <1>1, <1>2
    <2> QED
      BY <2>1, <2>2 DEF Injection, IsInjective
  <1>4. IsFiniteSet(Servers)
    BY PipelineAssumption
  <1> HIDE DEF f
  <1>5. Cardinality(1 .. Len(nested)) <= Cardinality(Servers)
    BY <1>3, <1>4, FS_Injection
  <1>6. Cardinality(1 .. Len(nested)) = Len(nested)
    <2>1. 1 \in Int /\ Len(nested) \in Int
      BY <1>1
    <2>2. Cardinality(1 .. Len(nested)) = IF 1 > Len(nested) THEN 0 ELSE Len(nested) - 1 + 1
      BY <2>1, FS_Interval
    <2> QED
      BY <1>1, <2>2
  <1> QED
    BY <1>2, <1>5, <1>6 DEF NestingBounded

\* The creations for bus threads nest no deeper than there are servers, each for
\* another thread that sleeps, whatever is rebuilt in the event loops between
\* them.  The rebuilds themselves nest as deep as the user makes them.
THEOREM NestingIsBounded == Spec => []NestingBounded
  <1>1. Init => TypeInv /\ Sleeping
    BY InitTypeInv, InitSleeping
  <1>2. TypeInv /\ Sleeping /\ [Next]_vars => TypeInv' /\ Sleeping'
    BY NextTypeInv, NextSleeping
  <1> QED
    BY <1>1, <1>2, SleepingBounds, PTL DEF Spec

-----------------------------------------------------------------------------
(* The bus's own vectors.  A preview signal of p is on the queue only while *)
(* the thread of p is in the callback that posted it, and asleep once that  *)
(* callback deletes p or is about to return.                                *)

Deleting(p) ==
    LET c == call[Owner[p]] IN
    c # Resting /\ c.op = "delete" /\ c.prop = p /\ c.step # "preview"

\* The thread of p is in a callback that has a preview signal of p.
Telling(p) ==
    LET c == call[Owner[p]] IN
    /\ c # Resting /\ c.prop = p /\ c.op \in {"define", "update", "delete"}
    /\ c.op = "delete" \/ c.step = "return" => Owner[p] \in blocked

\* Signal i of the queue carries the vector of p.
About(i, p) == queue[i].kind \in PreviewKinds /\ queue[i].prop = p

VectorsAlive ==
    /\ \A i \in DOMAIN queue : \A p \in Props : About(i, p) =>
         vector[p] \notin Gone /\ Telling(p)
    /\ \A i \in DOMAIN nested : vector[nested[i].prop] \notin Gone

LEMMA NextVectorsAlive ==
    ASSUME TypeInv, Sleeping, VectorsAlive, [Next]_vars
    PROVE  VectorsAlive'
  <1> USE DEF VectorsAlive
  <1>0. /\ Owner \in [Props -> Servers]
        /\ queue \in Seq(Event) /\ nested \in Seq(Event)
        /\ \A i \in DOMAIN nested : nested[i].prop \in Props
    <2>1. queue \in Seq(Event) /\ nested \in Seq(Event)
      BY DEF TypeInv, TypeOK
    <2>2. \A i \in DOMAIN nested : nested[i].prop \in Props
      BY <2>1, SeqDomain DEF Event
    <2> QED
      BY <2>1, <2>2, PipelineAssumption
  <1>1. ASSUME NEW t \in Servers, UNCHANGED <<queue, nested, blocked>>,
               \A u \in Servers : u # t => call'[u] = call[u],
               \A q \in Props : Owner[q] # t => vector'[q] = vector[q],
               \A i \in DOMAIN queue : \A q \in Props : About(i, q) => Owner[q] # t,
               \A i \in DOMAIN nested : Owner[nested[i].prop] # t
        PROVE  VectorsAlive'
    <2>1. \A q \in Props : Owner[q] # t => (Telling(q) <=> Telling(q)')
      BY <1>0, <1>1 DEF Telling
    <2>2. \A i \in DOMAIN queue, q \in Props : About(i, q)' <=> About(i, q)
      BY <1>1 DEF About
    <2> QED
      BY <1>0, <1>1, <2>1, <2>2
  <1>2. ASSUME NEW t \in Servers, NEW p \in Props, Entered(t, p)
        PROVE  VectorsAlive'
    <2>1. \A i \in DOMAIN queue : \A q \in Props : About(i, q) => Owner[q] # t
      BY <1>2 DEF Entered, Idle, Telling
    <2>2. \A i \in DOMAIN nested : Owner[nested[i].prop] # t
      BY <1>2 DEF Entered, Sleeping, NestedAlone, CallsAsleep
    <2> QED
      BY <1>1, <1>2, <2>1, <2>2 DEF Entered
  <1>3. ASSUME NEW t \in Servers, Return(t)
        PROVE  VectorsAlive'
    <2>1. /\ UNCHANGED <<queue, nested, blocked>> /\ t \notin blocked
          /\ call[t] # Resting /\ call[t].step = "return"
          /\ call' = [call EXCEPT ![t] = Resting]
      BY <1>3 DEF Return, Running, guiVars, loopVars, Idle
    <2>2. \A u \in Servers : u # t => call'[u] = call[u]
      BY <2>1 DEF TypeInv, TypeOK
    <2>3. \A q \in Props : Owner[q] # t => vector'[q] = vector[q]
      <3>1. call[t].prop \in Props /\ Owner[call[t].prop] = t
        BY <1>3, RunningCall DEF Return, Running, TypeInv, CallsAboutOwnVector
      <3> QED
        BY <1>3, <3>1, ReturnFrees
    <2>4. \A i \in DOMAIN queue : \A q \in Props : About(i, q) => Owner[q] # t
      BY <2>1 DEF Telling
    <2>5. \A i \in DOMAIN nested : Owner[nested[i].prop] # t
      BY <2>1 DEF Sleeping, NestedAlone
    <2> QED
      BY <1>1, <2>1, <2>2, <2>3, <2>4, <2>5
  <1>4. ASSUME NEW t \in Servers, NEW p \in Props, NEW e \in Event, PostedBy(t, p, e)
        PROVE  VectorsAlive'
    <2>1. /\ Len(queue) \in Nat /\ DOMAIN queue = 1 .. Len(queue)
          /\ DOMAIN queue' = 1 .. Len(queue) + 1 /\ queue'[Len(queue) + 1] = e
          /\ \A i \in DOMAIN queue : queue'[i] = queue[i] /\ queue[i] \in Event
      BY <1>4, Behind DEF PostedBy
    <2>2. /\ t \notin blocked /\ call[t] # Resting /\ call[t].prop = p /\ Owner[p] = t
          /\ e.prop = p /\ blocked \subseteq blocked' /\ UNCHANGED <<vector, nested>>
          /\ call'[t] # Resting /\ call'[t].op = call[t].op /\ call'[t].prop = p
          /\ \A u \in Servers : u # t => call'[u] = call[u]
          /\ e.kind \in Blocking => t \in blocked'
      BY <1>4 DEF PostedBy, PreviewQuiet, Idle
    <2>3. vector[p] \notin Gone
      BY <2>2 DEF TypeInv, CallsAboutOwnVector, Idle
    <2>4. \A q \in Props : q # p => (Telling(q) => Telling(q)')
      BY <1>0, <2>2 DEF Telling
    <2>5. call[t].op \in {"define", "update"} => Telling(p)'
      <3>1. call[t].op \in {"define", "update"} /\ call'[t].step = "return"
              => e.kind \in Blocking
        BY <1>4 DEF PostedBy, Blocking
      <3> QED
        BY <2>2, <3>1 DEF Telling
    <2>6. ASSUME e.kind \in PreviewKinds PROVE Telling(p)'
      <3>1. /\ call[t].step = "preview" /\ e.kind = PreviewKind(call[t].op, vector[p])
        BY <1>4, <2>6 DEF PostedBy
      <3>2. call[t].op \in {"define", "update", "delete"}
        <4>1. call[t] \in Call /\ call[t].op \notin AllSweeps
          BY <2>2, <3>1 DEF TypeInv, TypeOK, Sleeping, CallsAsleep, Idle
        <4> QED
          BY <3>1, <4>1 DEF Call, PropertyKinds, Deletions
      <3>3. call[t].op = "delete" => t \in blocked'
        BY <2>2, <3>1 DEF PreviewKind, Blocking
      <3> QED
        BY <2>2, <2>5, <3>2, <3>3 DEF Telling
    <2>7. Telling(p) => Telling(p)'
      BY <2>2, <2>5 DEF Telling
    <2>8. ASSUME NEW i \in DOMAIN queue', NEW q \in Props, About(i, q)'
          PROVE  vector'[q] \notin Gone /\ Telling(q)'
      <3>1. CASE i = Len(queue) + 1
        <4>1. q = p /\ e.kind \in PreviewKinds
          BY <2>1, <2>2, <2>8, <3>1 DEF About
        <4> QED
          BY <2>2, <2>3, <2>6, <4>1
      <3>2. CASE i \in DOMAIN queue
        <4>1. About(i, q)
          BY <2>1, <2>8, <3>2 DEF About
        <4> QED
          BY <2>2, <2>4, <2>7, <3>2, <4>1
      <3> QED
        BY <2>1, <3>1, <3>2
    <2> QED
      BY <2>2, <2>8
  <1>5. ASSUME NEW e \in Event, Handled(e)
        PROVE  VectorsAlive'
    <2>1. /\ Len(queue) \in Nat /\ DOMAIN queue = 1 .. Len(queue)
          /\ 1 \in DOMAIN queue /\ queue[1] = e
          /\ DOMAIN queue' = 1 .. Len(queue) - 1
          /\ \A i \in DOMAIN queue' : i + 1 \in DOMAIN queue /\ queue'[i] = queue[i + 1]
      BY <1>5, Shifted
    <2>2. e.kind \in Blocking => \A i \in DOMAIN queue' : queue'[i].thread # e.thread
      BY <2>1 DEF Sleeping, BlockingIsLast
    <2>3. /\ UNCHANGED <<vector, call>>
          /\ \/ blocked' = blocked
             \/ e.kind \in Blocking /\ blocked' = blocked \ {e.thread}
      BY <1>5 DEF Handled
    <2>4. \A q \in Props : Owner[q] \in blocked' \/ Owner[q] \notin blocked
                             => (Telling(q) => Telling(q)')
      BY <2>3 DEF Telling
    <2>5. \A i \in DOMAIN queue' : \A q \in Props :
            About(i, q)' => i + 1 \in DOMAIN queue /\ About(i + 1, q) /\ queue'[i].thread = Owner[q]
      BY <2>1 DEF About, Sleeping, BlockingIsLast
    <2>6. \A i \in DOMAIN queue' : \A q \in Props : About(i, q)' =>
            vector'[q] \notin Gone /\ Telling(q)'
      BY <2>2, <2>3, <2>4, <2>5
    <2>7. \A i \in DOMAIN nested' : vector'[nested'[i].prop] \notin Gone
      <3>1. CASE e.kind = "create"
        <4>1. nested' = Append(nested, e)
          BY <1>5, <3>1 DEF Handled
        <4>2. /\ Len(nested) \in Nat /\ DOMAIN nested = 1 .. Len(nested)
              /\ DOMAIN nested' = 1 .. Len(nested) + 1 /\ nested'[Len(nested) + 1] = e
              /\ \A i \in DOMAIN nested : nested'[i] = nested[i]
          BY <4>1, Begun
        <4>3. About(1, e.prop) /\ e.prop \in Props
          BY <2>1, <3>1 DEF About, PreviewKinds, Event
        <4> QED
          BY <2>1, <2>3, <4>2, <4>3
      <3>2. CASE e.kind # "create"
        BY <1>5, <2>3, <3>2 DEF Handled
      <3> QED
        BY <3>1, <3>2
    <2> QED
      BY <2>6, <2>7
  <1>6. ASSUME NEW t \in Servers, FinishCreatePreview(t)
        PROVE  VectorsAlive'
    <2>1. /\ Len(nested) \in DOMAIN nested /\ nested[Len(nested)].thread = t
          /\ \A i \in DOMAIN nested' : i \in DOMAIN nested /\ nested'[i] = nested[i]
          /\ UNCHANGED <<vector, call, queue>> /\ blocked' = blocked \ {t}
      BY <1>6, Ended
    <2>2. \A i \in DOMAIN queue : queue[i].thread # t
      BY <2>1 DEF Sleeping, NestedAlone
    <2>3. \A i \in DOMAIN queue : \A q \in Props : About(i, q)' =>
            About(i, q) /\ queue[i].thread = Owner[q]
      BY <2>1 DEF About, Sleeping, BlockingIsLast
    <2>4. \A q \in Props : Owner[q] # t => (Telling(q)' <=> Telling(q))
      BY <2>1 DEF Telling
    <2> QED
      BY <2>1, <2>2, <2>3, <2>4
  <1>7. CASE UNCHANGED <<vector, call, blocked, queue, nested>>
    BY <1>7 DEF About, Telling
  <1>8. UNCHANGED vars \/ RebuildPreviews => UNCHANGED <<vector, call, blocked, queue, nested>>
    BY Rebuilt DEF vars
  <1> QED
    BY <1>2, <1>3, <1>4, <1>5, <1>6, <1>7, <1>8, BusCallEnters, EmitPosts, HandleIs
       DEF Next, BusStep

LEMMA InitVectorsAlive == Init => VectorsAlive
    BY DEF Init, VectorsAlive

\* A preview signal, waited for or not, never reaches the GUI thread after
\* the bus has freed the vector it carries.
THEOREM RawVectorsAlive == Spec => []RawVectorAlive
  <1>1. Init => TypeInv /\ Sleeping /\ VectorsAlive
    BY InitTypeInv, InitSleeping, InitVectorsAlive
  <1>2. TypeInv /\ Sleeping /\ VectorsAlive /\ [Next]_vars
          => TypeInv' /\ Sleeping' /\ VectorsAlive'
    BY NextTypeInv, NextSleeping, NextVectorsAlive
  <1>3. TypeInv /\ VectorsAlive => RawVectorAlive
    <2> SUFFICES ASSUME TypeInv, VectorsAlive PROVE RawVectorAlive
      OBVIOUS
    <2>1. queue \in Seq(Event)
      BY DEF TypeInv, TypeOK
    <2>2. \A i \in DOMAIN queue : queue[i].prop \in Props
      BY <2>1, SeqDomain DEF Event
    <2> QED
      BY <2>2 DEF VectorsAlive, RawVectorAlive, About
  <1> QED
    BY <1>1, <1>2, <1>3, PTL DEF Spec

-----------------------------------------------------------------------------
(* What the previews show.  The last signal of p on the queue fits the     *)
(* state reported last; without one the preview itself does.  Between the  *)
(* report and its signal nothing is promised, nor of a vector that was     *)
(* swept away, nor of a preview that a rebuild has made.                   *)

AtPreview(p) ==
    LET c == call[Owner[p]] IN c # Resting /\ c.step = "preview" /\ c.prop = p

May(p, s) == vector[p] = s /\ ~Deleting(p)

Fits(kind, p) == /\ kind = "create" => May(p, "ok")
                 /\ kind = "obsolete" => May(p, "busy")

Shown(p) == \/ vector[p] = "swept"
            \/ /\ preview[p] = "fresh" => May(p, "ok")
               /\ preview[p] = "obsolete" => May(p, "busy")

LastAbout(i, p) == About(i, p) /\ \A j \in DOMAIN queue : About(j, p) => j <= i

QueueFits(p) == \A i \in DOMAIN queue : LastAbout(i, p) => Fits(queue[i].kind, p)
NoneAbout(p) == \A i \in DOMAIN queue : ~About(i, p)
NestedFits(p) == \A i \in DOMAIN nested :
                   nested[i].prop = p =>
                     May(p, "ok") /\ preview[p] \in {"none", "rebuilt"}

Agrees(p) ==
    /\ ~AtPreview(p) => QueueFits(p) /\ (NoneAbout(p) => Shown(p))
    /\ NestedFits(p)
    /\ p \notin Blobs => preview[p] = "none"

PreviewsAgree == \A p \in Props : Agrees(p)

\* A step after which the bus says of p what it said before.
LEMMA SameWord ==
    ASSUME NEW p \in Props, vector'[p] = vector[p], call'[Owner[p]] = call[Owner[p]]
    PROVE  /\ Deleting(p) <=> Deleting(p)'
           /\ AtPreview(p) <=> AtPreview(p)'
           /\ \A s : May(p, s) <=> May(p, s)'
    BY DEF Deleting, AtPreview, May

LEMMA EnteredAgree ==
    ASSUME TypeInv, Sleeping, PreviewsAgree,
           NEW t \in Servers, NEW p \in Props, Entered(t, p), NEW q \in Props
    PROVE  Agrees(q)'
  <1>0. Owner \in [Props -> Servers] /\ nested \in Seq(Event) /\ queue \in Seq(Event)
    BY PipelineAssumption DEF TypeInv, TypeOK
  <1>1. Owner[p] = t /\ call[t] = Resting /\ UNCHANGED <<queue, nested, preview>>
        /\ call'[t] # Resting /\ call'[t].prop = p
    BY DEF Entered, Idle
  <1>2. Agrees(q)
    BY DEF PreviewsAgree
  <1>3. CASE Owner[q] # t
    <2>1. vector'[q] = vector[q] /\ call'[Owner[q]] = call[Owner[q]]
      BY <1>0, <1>1, <1>3 DEF Entered
    <2>2. /\ AtPreview(q) <=> AtPreview(q)'
          /\ \A s : May(q, s) <=> May(q, s)'
      BY <2>1, SameWord
    <2>3. QueueFits(q) => QueueFits(q)'
      BY <1>1, <2>2 DEF QueueFits, LastAbout, About, Fits
    <2>4. NoneAbout(q)' => NoneAbout(q)
      BY <1>1 DEF NoneAbout, About
    <2>5. (Shown(q) => Shown(q)') /\ (NestedFits(q) => NestedFits(q)')
      BY <1>1, <2>1, <2>2 DEF Shown, NestedFits
    <2> QED
      BY <1>1, <1>2, <2>2, <2>3, <2>4, <2>5 DEF Agrees
  <1>4. CASE Owner[q] = t
    <2>1. ~AtPreview(q) /\ ~Deleting(q)
      BY <1>1, <1>4 DEF AtPreview, Deleting
    <2>2. \A i \in DOMAIN nested : nested[i].prop # q
      BY <1>1, <1>4 DEF Sleeping, NestedAlone, CallsAsleep, Idle
    <2>3. NestedFits(q)'
      BY <1>1, <2>2 DEF NestedFits
    <2>4. CASE q = p /\ p \in Blobs /\ call'[t].op \notin {"message"} \cup AllSweeps
      <3>1. call'[t].step = FirstStep(call'[t].op, p)
        BY <2>4 DEF Entered
      <3>2. AtPreview(q)'
        BY <1>1, <1>4, <2>4, <3>1 DEF AtPreview, FirstStep
      <3> QED
        BY <2>3, <2>4, <3>2 DEF Agrees
    <2>5. CASE q \notin Blobs
      <3>1. NoneAbout(q)
        BY <2>5 DEF NoneAbout, About, Sleeping, BlockingIsLast
      <3>2. preview[q] = "none"
        BY <1>2, <2>5 DEF Agrees
      <3>3. NoneAbout(q)' /\ preview'[q] = "none"
        BY <1>1, <3>1, <3>2 DEF NoneAbout, About
      <3> QED
        BY <2>3, <3>3 DEF Agrees, QueueFits, LastAbout, NoneAbout, Shown
    <2>6. CASE q \in Blobs /\ (q # p \/ call'[t].op \in {"message"} \cup AllSweeps)
      <3>1. vector'[q] = vector[q]
        BY <2>6 DEF Entered, Deletions
      <3>2. ~Deleting(q)'
        BY <1>1, <1>4, <2>6 DEF Deleting, AllSweeps
      <3>3. \A s : May(q, s) <=> May(q, s)'
        BY <2>1, <3>1, <3>2 DEF May
      <3> QED
        BY <1>1, <1>2, <2>1, <2>3, <2>6, <3>1, <3>3
           DEF Agrees, QueueFits, NoneAbout, LastAbout, About, Fits, Shown
    <2> QED
      BY <2>4, <2>5, <2>6
  <1> QED
    BY <1>3, <1>4

LEMMA PostedAgree ==
    ASSUME TypeInv, Sleeping, PreviewsAgree,
           NEW t \in Servers, NEW p \in Props, NEW e \in Event, PostedBy(t, p, e),
           NEW q \in Props
    PROVE  Agrees(q)'
  <1>0. Owner \in [Props -> Servers]
    BY PipelineAssumption
  <1>1. PICK n \in Nat : /\ DOMAIN queue = 1 .. n - 1 /\ n > 0
                         /\ DOMAIN queue' = 1 .. n /\ queue'[n] = e
                         /\ \A i \in DOMAIN queue : queue'[i] = queue[i]
    <2>1. /\ Len(queue) \in Nat /\ DOMAIN queue = 1 .. Len(queue)
          /\ DOMAIN queue' = 1 .. Len(queue) + 1 /\ queue'[Len(queue) + 1] = e
          /\ \A i \in DOMAIN queue : queue'[i] = queue[i]
      BY Behind DEF PostedBy
    <2>2. Len(queue) + 1 \in Nat /\ Len(queue) + 1 - 1 = Len(queue) /\ Len(queue) + 1 > 0
      BY <2>1
    <2> QED
      BY <2>1, <2>2
  <1>2. /\ t \notin blocked /\ call[t] # Resting /\ call[t].prop = p /\ Owner[p] = t
        /\ e.prop = p /\ UNCHANGED <<vector, nested, preview>>
        /\ call'[t] # Resting /\ call'[t].step # "preview"
        /\ call'[t].op = call[t].op /\ call'[t].prop = p
        /\ \A u \in Servers : u # t => call'[u] = call[u]
    BY DEF PostedBy, PreviewQuiet, Idle
  <1>3. Agrees(q)
    BY DEF PreviewsAgree
  <1>4. ASSUME ~(q = p /\ call[t].step = "preview")
        PROVE  Agrees(q)'
    <2>1. \A i \in DOMAIN queue : About(i, q) <=> About(i, q)'
      BY <1>1 DEF About
    <2>2. ~About(n, q)'
      BY <1>1, <1>2, <1>4 DEF About, PostedBy
    <2>3. Deleting(q) <=> Deleting(q)'
      BY <1>0, <1>2, <1>4 DEF Deleting
    <2>4. (~AtPreview(q) /\ ~AtPreview(q)') \/ (AtPreview(q) <=> AtPreview(q)')
      BY <1>0, <1>2, <1>4 DEF AtPreview
    <2>5. \A s : May(q, s) <=> May(q, s)'
      BY <1>2, <2>3 DEF May
    <2>6. \A i \in DOMAIN queue' : LastAbout(i, q)' => i \in DOMAIN queue /\ LastAbout(i, q)
      BY <1>1, <2>1, <2>2 DEF LastAbout
    <2>7. QueueFits(q) => QueueFits(q)'
      BY <1>1, <2>5, <2>6 DEF QueueFits, Fits
    <2>8. NoneAbout(q)' => NoneAbout(q)
      BY <1>1, <2>1 DEF NoneAbout
    <2>9. Shown(q) => Shown(q)'
      BY <1>2, <2>5 DEF Shown
    <2>10. NestedFits(q) => NestedFits(q)'
      BY <1>2, <2>5 DEF NestedFits
    <2> QED
      BY <1>2, <1>3, <2>4, <2>7, <2>8, <2>9, <2>10 DEF Agrees
  <1>5. ASSUME q = p, call[t].step = "preview"
        PROVE  Agrees(q)'
    <2>1. e.kind \in PreviewKinds /\ e.kind = PreviewKind(call[t].op, vector[p])
      BY <1>5 DEF PostedBy
    <2>2. About(n, p)'
      BY <1>1, <1>2, <2>1 DEF About
    <2>3. \A i \in DOMAIN queue' : LastAbout(i, p)' => i = n
      BY <1>1, <2>2 DEF LastAbout
    <2>4. call[t].op = "delete" <=> Deleting(p)'
      BY <1>2 DEF Deleting
    <2>5. Fits(e.kind, p)'
      BY <1>2, <2>1, <2>4 DEF Fits, May, PreviewKind
    <2>6. QueueFits(p)'
      BY <1>1, <2>3, <2>5 DEF QueueFits, Fits, May
    <2>7. ~NoneAbout(p)'
      BY <1>1, <2>2 DEF NoneAbout
    <2>8. \A i \in DOMAIN nested : nested[i].prop # p
      BY <1>2 DEF Sleeping, NestedAlone
    <2>9. NestedFits(p)'
      BY <1>2, <2>8 DEF NestedFits
    <2> QED
      BY <1>2, <1>3, <1>5, <2>6, <2>7, <2>9 DEF Agrees
  <1> QED
    BY <1>4, <1>5

LEMMA ReturnAgrees ==
    ASSUME TypeInv, Sleeping, VectorsAlive, PreviewsAgree, NEW t \in Servers, Return(t),
           NEW q \in Props
    PROVE  Agrees(q)'
  <1>0. /\ Owner \in [Props -> Servers]
        /\ call \in [Servers -> Call \cup {Resting}]
    BY PipelineAssumption DEF TypeInv, TypeOK
  <1>1. /\ UNCHANGED <<queue, nested, preview>> /\ t \notin blocked
        /\ call[t] # Resting /\ call[t].step = "return"
        /\ call' = [call EXCEPT ![t] = Resting]
    BY DEF Return, Running, guiVars, loopVars, Idle
  <1>2. call[t].prop \in Props /\ Owner[call[t].prop] = t
    BY RunningCall DEF Return, Running, TypeInv, CallsAboutOwnVector
  <1>3. Agrees(q)
    BY DEF PreviewsAgree
  <1>4. ~AtPreview(q) <=> ~AtPreview(q)'
    BY <1>0, <1>1 DEF AtPreview
  <1>5. Deleting(q)' => Deleting(q)
    BY <1>0, <1>1 DEF Deleting
  <1>6. /\ Owner[q] # t => vector'[q] = vector[q]
        /\ \/ vector'[q] = vector[q]
           \/ call[t].op = "delete" /\ q = call[t].prop
           \/ vector'[q] = "swept"
    BY <1>2, ReturnFrees
  <1>7. (\A s : May(q, s) => May(q, s)') \/ vector'[q] = "swept"
    <2>1. CASE q = call[t].prop /\ call[t].op = "delete"
      <3>1. Deleting(q)
        BY <1>1, <1>2, <2>1 DEF Deleting
      <3> QED
        BY <3>1 DEF May
    <2>2. CASE vector'[q] = vector[q]
      BY <1>5, <2>2 DEF May
    <2> QED
      BY <1>6, <2>1, <2>2
  <1>8. Owner[q] = t => NoneAbout(q) /\ \A i \in DOMAIN nested : nested[i].prop # q
    BY <1>1 DEF NoneAbout, VectorsAlive, Telling, Sleeping, NestedAlone
  <1>9. NoneAbout(q)' <=> NoneAbout(q)
    BY <1>1 DEF NoneAbout, About
  <1>10. Shown(q) => Shown(q)'
    <2>1. vector[q] = "swept" => vector'[q] = "swept"
      <3>1. call[t].op = "delete" /\ q = call[t].prop => vector[q] # "swept"
        BY <1>1 DEF TypeInv, CallsAboutOwnVector, Idle, Gone
      <3> QED
        BY <1>6, <3>1
    <2> QED
      BY <1>1, <1>7, <2>1 DEF Shown
  <1>11. QueueFits(q) => QueueFits(q)'
    <2>1. CASE Owner[q] = t
      BY <1>8, <1>9, <2>1 DEF QueueFits, NoneAbout, LastAbout
    <2>2. CASE Owner[q] # t
      <3>1. \A s : May(q, s) => May(q, s)'
        BY <1>5, <1>6, <2>2 DEF May
      <3> QED
        BY <1>1, <3>1 DEF QueueFits, LastAbout, About, Fits
    <2> QED
      BY <2>1, <2>2
  <1>12. NestedFits(q) => NestedFits(q)'
    <2>1. CASE Owner[q] = t
      BY <1>1, <1>8, <2>1 DEF NestedFits
    <2>2. CASE Owner[q] # t
      BY <1>1, <1>5, <1>6, <2>2 DEF NestedFits, May
    <2> QED
      BY <2>1, <2>2
  <1> QED
    BY <1>1, <1>3, <1>4, <1>9, <1>10, <1>11, <1>12 DEF Agrees

LEMMA HandledAgree ==
    ASSUME TypeInv, Sleeping, PreviewsAgree, NEW e \in Event, Handled(e), NEW q \in Props
    PROVE  Agrees(q)'
  <1>1. /\ Len(queue) \in Nat /\ DOMAIN queue = 1 .. Len(queue)
        /\ 1 \in DOMAIN queue /\ queue[1] = e
        /\ DOMAIN queue' = 1 .. Len(queue) - 1
        /\ \A i \in DOMAIN queue' : i + 1 \in DOMAIN queue /\ queue'[i] = queue[i + 1]
    BY Shifted
  <1>2. /\ Deleting(q) <=> Deleting(q)'
        /\ AtPreview(q) <=> AtPreview(q)'
        /\ \A s : May(q, s) <=> May(q, s)'
        /\ vector'[q] = vector[q]
    BY SameWord DEF Handled
  <1>3. Agrees(q)
    BY DEF PreviewsAgree
  <1>4. \A i \in DOMAIN queue' : About(i, q)' <=> About(i + 1, q)
    BY <1>1 DEF About
  <1>5. \A i \in DOMAIN queue' : LastAbout(i, q)' => LastAbout(i + 1, q)
    <2> SUFFICES ASSUME NEW i \in DOMAIN queue', LastAbout(i, q)',
                        NEW j \in DOMAIN queue, About(j, q)
                 PROVE  About(i + 1, q) /\ j <= i + 1
      BY <1>1, <1>4 DEF LastAbout
    <2>1. About(i + 1, q) /\ i \in Nat
      BY <1>1, <1>4 DEF LastAbout
    <2>2. CASE j = 1
      BY <2>1, <2>2
    <2>3. CASE j # 1
      <3>1. j - 1 \in DOMAIN queue' /\ (j - 1) + 1 = j
        BY <1>1, <2>3
      <3>2. About(j - 1, q)'
        BY <1>4, <3>1
      <3>3. j - 1 <= i
        BY <3>1, <3>2 DEF LastAbout
      <3> QED
        BY <1>1, <2>1, <3>3
    <2> QED
      BY <2>1, <2>2, <2>3
  <1>6. QueueFits(q) => QueueFits(q)'
    BY <1>1, <1>2, <1>5 DEF QueueFits, Fits
  <1>7. CASE ~About(1, q)
    <2>1. NoneAbout(q)' => NoneAbout(q)
      <3> SUFFICES ASSUME NoneAbout(q)', NEW j \in DOMAIN queue, About(j, q) PROVE FALSE
        BY DEF NoneAbout
      <3>1. j - 1 \in DOMAIN queue' /\ (j - 1) + 1 = j
        BY <1>1, <1>7
      <3>2. About(j - 1, q)'
        BY <1>4, <3>1
      <3> QED
        BY <3>1, <3>2 DEF NoneAbout
    <2>2. preview'[q] = preview[q]
      <3>1. e.kind \notin PreviewKinds \/ e.prop # q
        BY <1>1, <1>7 DEF About
      <3>2. e.kind \notin PreviewKinds \/ \E x : preview' = [preview EXCEPT ![e.prop] = x]
        BY DEF Handled, PreviewKinds
      <3>3. e.kind \notin PreviewKinds => UNCHANGED preview
        BY DEF Handled
      <3>4. preview \in [Props -> {"none", "fresh", "obsolete", "rebuilt"}]
        BY DEF TypeInv, TypeOK
      <3> QED
        BY <3>1, <3>2, <3>3, <3>4
    <2>3. NestedFits(q)'
      <3>1. CASE e.kind = "create"
        <4>1. nested' = Append(nested, e)
          BY <3>1 DEF Handled
        <4>2. /\ Len(nested) \in Nat /\ DOMAIN nested = 1 .. Len(nested)
              /\ DOMAIN nested' = 1 .. Len(nested) + 1 /\ nested'[Len(nested) + 1] = e
              /\ \A i \in DOMAIN nested : nested'[i] = nested[i]
          BY <4>1, Begun
        <4>3. e.prop # q
          BY <1>1, <1>7, <3>1 DEF About, PreviewKinds
        <4> QED
          BY <1>2, <1>3, <2>2, <4>2, <4>3 DEF Agrees, NestedFits
      <3>2. CASE e.kind # "create"
        BY <1>2, <1>3, <2>2, <3>2 DEF Handled, Agrees, NestedFits
      <3> QED
        BY <3>1, <3>2
    <2>4. Shown(q) => Shown(q)'
      BY <1>2, <2>2 DEF Shown
    <2> QED
      BY <1>2, <1>3, <1>6, <2>1, <2>2, <2>3, <2>4 DEF Agrees
  <1>8. CASE About(1, q)
    <2>1. /\ e.kind \in PreviewKinds /\ e.prop = q /\ q \in Blobs /\ Owner[q] = e.thread
          /\ e.thread \in Servers
      BY <1>1, <1>8 DEF About, Sleeping, BlockingIsLast, Event
    <2>2. CASE e.kind \in {"remove", "no"}
      <3>1. preview'[q] = "none" /\ UNCHANGED nested
        BY <2>1, <2>2 DEF Handled, TypeInv, TypeOK
      <3> QED
        BY <1>2, <1>3, <1>6, <2>1, <3>1 DEF Agrees, NestedFits, Shown
    <2>3. CASE e.kind \in {"create", "obsolete"}
      <3>1. e.thread \in blocked /\ \A j \in DOMAIN queue : queue[j].thread = e.thread => j <= 1
        BY <1>1, <2>3 DEF Sleeping, BlockingIsLast, Blocking
      <3>2. ~AtPreview(q)
        BY <2>1, <3>1 DEF AtPreview, Sleeping, CallsAsleep
      <3>3. LastAbout(1, q)
        BY <1>8, <2>1, <3>1 DEF LastAbout, About, Sleeping, BlockingIsLast
      <3>4. Fits(e.kind, q)
        BY <1>1, <1>3, <3>2, <3>3 DEF Agrees, QueueFits
      <3>5. \A i \in DOMAIN nested : nested[i].prop # q
        BY <1>1, <2>1 DEF Sleeping, NestedAlone
      <3>6. CASE e.kind = "create"
        <4>1. preview'[q] = "none" /\ nested' = Append(nested, e)
          BY <2>1, <3>6 DEF Handled, TypeInv, TypeOK
        <4>2. May(q, "ok")'
          BY <1>2, <3>4, <3>6 DEF Fits
        <4> QED
          BY <1>2, <1>3, <1>6, <2>1, <4>1, <4>2 DEF Agrees, NestedFits, Shown
      <3>7. CASE e.kind = "obsolete"
        <4>1. preview'[q] \in {"none", "obsolete"} /\ UNCHANGED nested
          BY <2>1, <3>7 DEF Handled, TypeInv, TypeOK
        <4>2. May(q, "busy")'
          BY <1>2, <3>4, <3>7 DEF Fits
        <4>3. NestedFits(q)'
          BY <3>5, <4>1 DEF NestedFits
        <4> QED
          BY <1>2, <1>3, <1>6, <2>1, <4>1, <4>2, <4>3 DEF Agrees, Shown
      <3> QED
        BY <2>3, <3>6, <3>7
    <2> QED
      BY <2>1, <2>2, <2>3 DEF PreviewKinds
  <1> QED
    BY <1>7, <1>8

LEMMA FinishAgrees ==
    ASSUME TypeInv, Sleeping, PreviewsAgree, NEW t \in Servers, FinishCreatePreview(t),
           NEW q \in Props
    PROVE  Agrees(q)'
  <1>1. PICK n \in DOMAIN nested :
          /\ \A i \in DOMAIN nested' : /\ i \in DOMAIN nested /\ nested'[i] = nested[i]
                                       /\ i # n
          /\ UNCHANGED <<vector, call, queue>>
          /\ \A p \in Props : /\ p # nested[n].prop => preview'[p] = preview[p]
                              /\ preview'[p] \in {preview[p], "fresh"}
    <2>1. /\ Len(nested) \in Nat /\ Len(nested) \in DOMAIN nested
          /\ DOMAIN nested' = 1 .. Len(nested) - 1
          /\ \A i \in DOMAIN nested' : i \in DOMAIN nested /\ nested'[i] = nested[i]
          /\ UNCHANGED <<vector, call, queue>>
          /\ \A p \in Props : /\ p # nested[Len(nested)].prop => preview'[p] = preview[p]
                              /\ preview'[p] \in {preview[p], "fresh"}
      BY Ended
    <2> QED
      BY <2>1
  <1>2. /\ Deleting(q) <=> Deleting(q)'
        /\ AtPreview(q) <=> AtPreview(q)'
        /\ \A s : May(q, s) <=> May(q, s)'
        /\ vector'[q] = vector[q]
    BY <1>1, SameWord
  <1>3. Agrees(q)
    BY DEF PreviewsAgree
  <1>4. QueueFits(q) => QueueFits(q)'
    BY <1>1, <1>2 DEF QueueFits, LastAbout, About, Fits
  <1>5. NoneAbout(q)' => NoneAbout(q)
    BY <1>1 DEF NoneAbout, About
  <1>6. CASE q # nested[n].prop
    <2>1. preview'[q] = preview[q]
      BY <1>1, <1>6
    <2> QED
      BY <1>1, <1>2, <1>3, <1>4, <1>5, <2>1 DEF Agrees, NestedFits, Shown
  <1>7. CASE q = nested[n].prop
    <2>1. May(q, "ok") /\ preview[q] \in {"none", "rebuilt"}
      BY <1>3, <1>7 DEF Agrees, NestedFits
    <2>2. preview'[q] \in {"none", "rebuilt", "fresh"}
      BY <1>1, <2>1
    <2>3. q \in Blobs /\ \A i \in DOMAIN nested : nested[i].prop = q => i = n
      BY <1>7 DEF Sleeping, NestedAlone
    <2>4. NestedFits(q)'
      BY <1>1, <2>3 DEF NestedFits
    <2>5. Shown(q)'
      BY <1>2, <2>1, <2>2 DEF Shown
    <2> QED
      BY <1>2, <1>3, <1>4, <2>3, <2>4, <2>5 DEF Agrees
  <1> QED
    BY <1>6, <1>7

\* What a rebuild makes is neither fresh nor obsolete.
LEMMA RebuildAgrees ==
    ASSUME TypeInv, PreviewsAgree, RebuildPreviews, NEW q \in Props
    PROVE  Agrees(q)'
  <1>1. /\ UNCHANGED <<vector, call, blocked, queue, nested>>
        /\ preview'[q] \in {preview[q], "none", "rebuilt"}
        /\ q \notin Blobs => preview'[q] = preview[q]
    BY Rebuilt
  <1>2. /\ Deleting(q) <=> Deleting(q)'
        /\ AtPreview(q) <=> AtPreview(q)'
        /\ \A s : May(q, s) <=> May(q, s)'
    BY <1>1, SameWord
  <1>3. Agrees(q)
    BY DEF PreviewsAgree
  <1>4. QueueFits(q) => QueueFits(q)'
    BY <1>1, <1>2 DEF QueueFits, LastAbout, About, Fits
  <1>5. NoneAbout(q)' => NoneAbout(q)
    BY <1>1 DEF NoneAbout, About
  <1>6. Shown(q) => Shown(q)'
    BY <1>1, <1>2 DEF Shown
  <1>7. NestedFits(q) => NestedFits(q)'
    BY <1>1, <1>2 DEF NestedFits
  <1> QED
    BY <1>1, <1>2, <1>3, <1>4, <1>5, <1>6, <1>7 DEF Agrees

LEMMA NextPreviewsAgree ==
    ASSUME TypeInv, Sleeping, VectorsAlive, PreviewsAgree, [Next]_vars
    PROVE  PreviewsAgree'
  <1>1. CASE UNCHANGED vars
    BY <1>1 DEF vars, PreviewsAgree, Agrees, QueueFits, NoneAbout, NestedFits, LastAbout,
                About, Fits, Shown, May, AtPreview, Deleting
  <1>2. CASE Next
    BY <1>2, BusCallEnters, EmitPosts, HandleIs,
       EnteredAgree, PostedAgree, ReturnAgrees, HandledAgree, FinishAgrees,
       RebuildAgrees
       DEF Next, BusStep, PreviewsAgree
  <1> QED
    BY <1>1, <1>2

LEMMA InitPreviewsAgree == Init => PreviewsAgree
    BY DEF Init, PreviewsAgree, Agrees, QueueFits, NoneAbout, NestedFits, LastAbout,
           About, Shown

\* Once the signals about a vector are handled, the preview the bus had made of it
\* agrees with the state reported last, for any number of servers, and none is
\* left of a vector deleted by itself.  It says nothing of a vector swept away
\* with its group or device, nor of a preview the user's rebuild has made.
THEOREM PreviewsMatchState == Spec => []PreviewMatchesState
  <1>1. Init => TypeInv /\ Sleeping /\ VectorsAlive /\ PreviewsAgree
    BY InitTypeInv, InitSleeping, InitVectorsAlive, InitPreviewsAgree
  <1>2. TypeInv /\ Sleeping /\ VectorsAlive /\ PreviewsAgree /\ [Next]_vars
          => TypeInv' /\ Sleeping' /\ VectorsAlive' /\ PreviewsAgree'
    BY NextTypeInv, NextSleeping, NextVectorsAlive, NextPreviewsAgree
  <1>3. PreviewsAgree => PreviewMatchesState
    <2> SUFFICES ASSUME PreviewsAgree, NEW p \in Props, PreviewSettled(p),
                        vector[p] # "swept"
                 PROVE  /\ preview[p] = "fresh" => vector[p] = "ok"
                        /\ preview[p] = "obsolete" => vector[p] = "busy"
      BY DEF PreviewMatchesState
    <2>1. NoneAbout(p)
      BY DEF PreviewSettled, NoneAbout, About
    <2>2. Owner[p] \in Servers
      BY PipelineAssumption
    <2>3. ~AtPreview(p)
      BY <2>2 DEF PreviewSettled, AtPreview, Idle
    <2> QED
      BY <2>1, <2>3 DEF PreviewsAgree, Agrees, Shown, May
  <1> QED
    BY <1>1, <1>2, <1>3, PTL DEF Spec

-----------------------------------------------------------------------------
(* Sets of places in the queue, and what is found there in order.  These    *)
(* lemmas speak of any set of places; the refinement below needs them for   *)
(* the reports of one server among the signals of all.                      *)

\* How many places of S are not behind i.
Rank(S, i) == Cardinality({j \in S : j <= i})

\* Sets of places in the queue.
Places(S) == S \subseteq Nat \ {0} /\ IsFiniteSet(S)

\* The rank grows from 1 to the number of places.
LEMMA RankRises ==
    ASSUME NEW S, Places(S), NEW i \in S
    PROVE  /\ Cardinality(S) \in Nat /\ Rank(S, i) \in 1 .. Cardinality(S)
           /\ \A j \in S : i < j => Rank(S, i) < Rank(S, j)
  <1> DEFINE U(k) == {j \in S : j <= k}
  <1>1. ASSUME NEW k \in S
        PROVE  /\ IsFiniteSet(U(k)) /\ Cardinality(U(k)) \in Nat
               /\ Cardinality(U(k)) <= Cardinality(S) /\ Cardinality(S) \in Nat
    BY FS_Subset, FS_CardinalityType DEF Places
  <1>2. Cardinality(U(i)) # 0
    <2>1. i \in U(i)
      BY DEF Places
    <2> QED
      BY <1>1, <2>1, FS_EmptySet
  <1>3. ASSUME NEW j \in S, i < j
        PROVE  Cardinality(U(i)) < Cardinality(U(j))
    <2>1. \A k \in S : k \in Nat
      BY DEF Places
    <2>2. \A k \in U(i) : k \in U(j)
      BY <1>3, <2>1
    <2>3. j \in U(j) /\ j \notin U(i)
      BY <1>3, <2>1
    <2>4. U(i) # U(j)
      BY <2>3
    <2>5. Cardinality(U(i)) <= Cardinality(U(j)) /\ Cardinality(U(i)) # Cardinality(U(j))
      BY <1>1, <2>2, <2>4, FS_Subset
    <2> QED
      BY <1>1, <2>5
  <1> QED
    BY <1>1, <1>2, <1>3 DEF Rank

\* Nth finds the place of each rank, and only that.
LEMMA NthOfRank ==
    ASSUME NEW S, Places(S)
    PROVE  /\ Cardinality(S) \in Nat
           /\ \A i \in S : Rank(S, i) \in 1 .. Cardinality(S) /\ Nth(S, Rank(S, i)) = i
           /\ \A k \in 1 .. Cardinality(S) : Nth(S, k) \in S /\ Rank(S, Nth(S, k)) = k
  <1> DEFINE n == Cardinality(S)
             f == [i \in S |-> Rank(S, i)]
  <1>1. n \in Nat
    BY FS_CardinalityType DEF Places
  <1>2. \A i \in S : Rank(S, i) \in 1 .. n
    BY RankRises
  <1>3. \A i, j \in S : Rank(S, i) = Rank(S, j) => i = j
    <2>1. \A i, j \in S : i < j => Rank(S, i) < Rank(S, j)
      BY RankRises
    <2>2. \A i \in S : i \in Nat /\ Rank(S, i) \in Nat
      BY <1>1, <1>2 DEF Places
    <2> QED
      BY <2>1, <2>2
  <1>4. f \in Injection(S, 1 .. n)
    BY <1>2, <1>3 DEF Injection, IsInjective
  <1>5. IsFiniteSet(1 .. n) /\ Cardinality(1 .. n) = n
    BY <1>1, FS_Interval
  <1>6. f \in Surjection(S, 1 .. n)
    BY <1>4, <1>5, FS_Injection
  <1>7. ASSUME NEW k \in 1 .. n
        PROVE  \E i \in S : Rank(S, i) = k
    BY <1>6, <1>7 DEF Surjection
  <1>8. ASSUME NEW k \in 1 .. n
        PROVE  Nth(S, k) \in S /\ Rank(S, Nth(S, k)) = k
    BY <1>7, <1>8 DEF Nth, Rank
  <1>9. ASSUME NEW i \in S
        PROVE  Nth(S, Rank(S, i)) = i
    <2>1. Nth(S, Rank(S, i)) \in S /\ Rank(S, Nth(S, Rank(S, i))) = Rank(S, i)
      BY <1>2, <1>8
    <2> QED
      BY <1>3, <2>1
  <1> QED
    BY <1>1, <1>2, <1>8, <1>9

\* A place behind all others.
LEMMA NthAppended ==
    ASSUME NEW S, Places(S), NEW n \in Nat, \A i \in S : i <= n
    PROVE  /\ Places(S \cup {n + 1}) /\ Cardinality(S \cup {n + 1}) = Cardinality(S) + 1
           /\ \A k \in 1 .. Cardinality(S) : Nth(S \cup {n + 1}, k) = Nth(S, k)
           /\ Nth(S \cup {n + 1}, Cardinality(S) + 1) = n + 1
  <1> DEFINE T == S \cup {n + 1}
  <1>1. n + 1 \notin S
    BY DEF Places
  <1>2. Places(T) /\ Cardinality(T) = Cardinality(S) + 1 /\ Cardinality(S) \in Nat
    BY <1>1, FS_AddElement, FS_CardinalityType DEF Places
  <1>3. ASSUME NEW i \in S PROVE Rank(T, i) = Rank(S, i)
    <2>1. {j \in T : j <= i} = {j \in S : j <= i}
      BY DEF Places
    <2> QED
      BY <2>1 DEF Rank
  <1>4. Rank(T, n + 1) = Cardinality(T)
    <2>1. \A j \in T : j <= n + 1
      BY DEF Places
    <2> QED
      BY <2>1 DEF Rank
  <1>5. n + 1 \in T /\ \A i \in S : i \in T
    OBVIOUS
  <1> HIDE DEF T
  <1>6. Nth(T, Cardinality(S) + 1) = n + 1
    BY <1>2, <1>4, <1>5, NthOfRank
  <1>7. ASSUME NEW k \in 1 .. Cardinality(S) PROVE Nth(T, k) = Nth(S, k)
    <2>1. Nth(S, k) \in S /\ Rank(S, Nth(S, k)) = k
      BY NthOfRank
    <2>2. Nth(S, k) \in T /\ Rank(T, Nth(S, k)) = k
      BY <1>3, <1>5, <2>1
    <2> QED
      BY <1>2, <2>2, NthOfRank
  <1> QED
    BY <1>2, <1>6, <1>7 DEF T

\* The places when the queue moves one forward; the first place, if it is
\* one of them, is gone.
Forward(S) == {i \in Nat \ {0} : i + 1 \in S}

\* Moving the places moves none into another.
LEMMA MovedSameSize ==
    ASSUME NEW A \in SUBSET Nat, NEW B, IsFiniteSet(B), B = {i + 1 : i \in A}
    PROVE  IsFiniteSet(A) /\ Cardinality(A) = Cardinality(B)
  <1> DEFINE g == [i \in A |-> i + 1]
  <1>1. g \in [A -> B]
    OBVIOUS
  <1>2. \A i, j \in A : g[i] = g[j] => i = j
    OBVIOUS
  <1>3. \A b \in B : \E i \in A : g[i] = b
    OBVIOUS
  <1> HIDE DEF g
  <1>4. g \in Injection(A, B) /\ g \in Surjection(A, B)
    BY <1>1, <1>2, <1>3 DEF Injection, Surjection, IsInjective
  <1> QED
    BY <1>4, FS_Injection

\* Moving forward keeps the order; without the first place all ranks fall by one.
LEMMA NthForward ==
    ASSUME NEW S, Places(S)
    PROVE  /\ Places(Forward(S))
           /\ 1 \notin S =>
                /\ Cardinality(Forward(S)) = Cardinality(S)
                /\ \A k \in 1 .. Cardinality(S) : Nth(S, k) = Nth(Forward(S), k) + 1
           /\ 1 \in S =>
                /\ Cardinality(S) = Cardinality(Forward(S)) + 1
                /\ Nth(S, 1) = 1
                /\ \A k \in 1 .. Cardinality(Forward(S)) :
                     Nth(S, k + 1) = Nth(Forward(S), k) + 1
  <1> DEFINE T == Forward(S)
             R == S \ {1}
             d == IF 1 \in S THEN 1 ELSE 0
  <1>1. IsFiniteSet(R) /\ Cardinality(S) = Cardinality(R) + d
        /\ Cardinality(R) \in Nat /\ Cardinality(S) \in Nat
    <2>1. IsFiniteSet(S)
      BY DEF Places
    <2>2. /\ IsFiniteSet(R)
          /\ Cardinality(R) = IF 1 \in S THEN Cardinality(S) - 1 ELSE Cardinality(S)
      BY <2>1, FS_RemoveElement
    <2>3. Cardinality(R) \in Nat /\ Cardinality(S) \in Nat
      BY <2>1, <2>2, FS_CardinalityType
    <2> QED
      BY <2>2, <2>3
  <1>2. T \subseteq Nat \ {0} /\ R = {i + 1 : i \in T}
    <2>1. ASSUME NEW r \in R PROVE \E i \in T : r = i + 1
      <3>1. r \in Nat /\ r # 0 /\ r # 1 /\ r \in S
        BY DEF Places
      <3>2. r - 1 \in Nat \ {0} /\ (r - 1) + 1 = r
        BY <3>1
      <3>3. r - 1 \in T
        BY <3>1, <3>2 DEF Forward
      <3> QED
        BY <3>2, <3>3
    <2>2. ASSUME NEW i \in T PROVE i + 1 \in R /\ i \in Nat \ {0}
      BY DEF Forward
    <2> QED
      BY <2>1, <2>2
  <1>3. IsFiniteSet(T) /\ Cardinality(T) = Cardinality(R) /\ Places(T)
    BY <1>1, <1>2, MovedSameSize DEF Places
  <1>4. ASSUME NEW i \in T PROVE i + 1 \in S /\ Rank(S, i + 1) = Rank(T, i) + d
    <2> DEFINE A == {j \in T : j <= i}
               B == {j \in R : j <= i + 1}
               C == {j \in S : j <= i + 1}
    <2>1. B = {j + 1 : j \in A} /\ A \subseteq Nat \ {0}
      BY <1>2
    <2>2. IsFiniteSet(B) /\ IsFiniteSet(C)
      BY <1>1, FS_Subset DEF Places
    <2>3. Cardinality(A) = Cardinality(B)
      BY <2>1, <2>2, MovedSameSize
    <2>4. B = C \ {1} /\ (1 \in C <=> 1 \in S)
      BY <1>2
    <2>5. Cardinality(C) = Cardinality(B) + d
      <3>1. /\ Cardinality(B) = IF 1 \in C THEN Cardinality(C) - 1 ELSE Cardinality(C)
            /\ Cardinality(C) \in Nat
        BY <2>2, <2>4, FS_RemoveElement, FS_CardinalityType
      <3> QED
        BY <2>4, <3>1
    <2> QED
      BY <2>3, <2>5 DEF Rank, Forward
  <1>5. ASSUME NEW k \in 1 .. Cardinality(T)
        PROVE  Nth(S, k + d) = Nth(T, k) + 1
    <2>1. Nth(T, k) \in T /\ Rank(T, Nth(T, k)) = k
      BY <1>3, NthOfRank
    <2>2. Nth(T, k) + 1 \in S /\ Rank(S, Nth(T, k) + 1) = k + d
      BY <1>4, <2>1
    <2> HIDE DEF T, d
    <2> QED
      BY <2>2, NthOfRank
  <1>6. ASSUME 1 \in S PROVE Nth(S, 1) = 1
    <2>1. {j \in S : j <= 1} = {1}
      <3>1. \A j \in S : j \in Nat /\ j # 0
        BY DEF Places
      <3>2. \A j \in S : j <= 1 <=> j = 1
        BY <3>1
      <3> QED
        BY <1>6, <3>2
    <2>2. Rank(S, 1) = 1
      BY <2>1, FS_Singleton DEF Rank
    <2> QED
      BY <1>6, <2>2, NthOfRank
  <1>7. CASE 1 \in S
    BY <1>1, <1>3, <1>5, <1>6, <1>7
  <1>8. CASE 1 \notin S
    <2>1. d = 0 /\ \A k \in 1 .. Cardinality(T) : k + d = k
      BY <1>8
    <2>2. Cardinality(T) = Cardinality(S)
      BY <1>1, <1>3, <2>1
    <2> QED
      BY <1>3, <1>5, <1>8, <2>1, <2>2
  <1> QED
    BY <1>7, <1>8

\* What is found at the places S of F, in order.
Listing(S, F) == [k \in 1 .. Cardinality(S) |-> F[Nth(S, k)]]

\* A sequence is the function of its elements.
LEMMA SeqFunction ==
    ASSUME NEW S, NEW s \in Seq(S)
    PROVE  s = [i \in DOMAIN s |-> s[i]]
    OBVIOUS

\* A listing is a sequence of what is found at the places, and of nothing else.
LEMMA ListingType ==
    ASSUME NEW S, Places(S), NEW R, NEW F, \A i \in S : F[i] \in R
    PROVE  Listing(S, F) \in Seq(R)
BY NthOfRank DEF Listing

LEMMA ListingSame ==
    ASSUME NEW S, Places(S), NEW F, NEW G, \A i \in S : G[i] = F[i]
    PROVE  Listing(S, G) = Listing(S, F)
BY NthOfRank DEF Listing

\* The places T are the places S and, behind them, m.
Extends(T, S, m) ==
    /\ Cardinality(T) = Cardinality(S) + 1
    /\ \A k \in 1 .. Cardinality(S) : Nth(T, k) = Nth(S, k)
    /\ Nth(T, Cardinality(S) + 1) = m

\* A place behind all others appends what is found there.
LEMMA ListingAppended ==
    ASSUME NEW S, Places(S), NEW T, NEW m, Extends(T, S, m),
           NEW F, NEW G, \A i \in S : G[i] = F[i]
    PROVE  Listing(T, G) = Append(Listing(S, F), G[m])
  <1> DEFINE R == {F[i] : i \in S} \cup {G[m]}
  <1>0. G[m] \in R /\ \A i \in S : F[i] \in R
    OBVIOUS
  <1> HIDE DEF R
  <1> DEFINE c == Cardinality(S)
             p == Listing(S, F)
             q == Listing(T, G)
  <1>1. /\ c \in Nat /\ Cardinality(T) = c + 1
        /\ \A k \in 1 .. c : Nth(T, k) = Nth(S, k) /\ Nth(S, k) \in S
        /\ Nth(T, c + 1) = m
    BY NthOfRank DEF Extends
  <1>2. q = [k \in 1 .. c + 1 |-> G[Nth(T, k)]] /\ p = [k \in 1 .. c |-> F[Nth(S, k)]]
    BY <1>1 DEF Listing
  <1>3. p \in Seq(R) /\ Len(p) = c
    BY <1>0, <1>1, <1>2
  <1> HIDE DEF c
  <1>4. \A k \in 1 .. c : q[k] = p[k]
    BY <1>1, <1>2
  <1>5. q[c + 1] = G[m] /\ DOMAIN q = 1 .. c + 1
    BY <1>1, <1>2
  <1> DEFINE a == Append(p, G[m])
  <1>6. /\ DOMAIN a = 1 .. c + 1 /\ a[c + 1] = G[m]
        /\ \A k \in 1 .. c : a[k] = p[k]
        /\ a = [k \in DOMAIN a |-> a[k]]
    BY <1>0, <1>1, <1>3
  <1> HIDE DEF a, p
  <1>7. q = [k \in DOMAIN q |-> q[k]]
    BY <1>2
  <1> HIDE DEF q
  <1>8. \A k \in 1 .. c + 1 : q[k] = a[k]
    BY <1>1, <1>4, <1>5, <1>6
  <1>9. q = a
    BY <1>5, <1>6, <1>7, <1>8
  <1> QED
    BY <1>9 DEF a, p, q

\* Moving forward takes what is found at the first place off the listing.
LEMMA ListingForward ==
    ASSUME NEW S, Places(S), NEW F, NEW G, \A i \in Forward(S) : G[i] = F[i + 1]
    PROVE  /\ 1 \notin S => Listing(Forward(S), G) = Listing(S, F)
           /\ 1 \in S => /\ Listing(S, F) # <<>> /\ Head(Listing(S, F)) = F[1]
                         /\ Listing(Forward(S), G) = Tail(Listing(S, F))
  <1> DEFINE R == {F[i] : i \in S}
  <1>0. \A i \in S : F[i] \in R
    OBVIOUS
  <1> HIDE DEF R
  <1> DEFINE T == Forward(S)
             c == Cardinality(T)
             p == Listing(S, F)
             q == Listing(T, G)
  <1>1. Places(T) /\ c \in Nat /\ \A k \in 1 .. c : Nth(T, k) \in T
    BY NthForward, NthOfRank
  <1>2. CASE 1 \notin S
    <2>1. Cardinality(S) = c /\ \A k \in 1 .. c : Nth(S, k) = Nth(T, k) + 1
      BY <1>2, NthForward
    <2>2. \A k \in 1 .. c : G[Nth(T, k)] = F[Nth(S, k)]
      BY <1>1, <2>1
    <2> HIDE DEF T, c
    <2>3. q = [k \in 1 .. c |-> G[Nth(T, k)]] /\ p = [k \in 1 .. c |-> F[Nth(S, k)]]
      BY <2>1 DEF Listing, c
    <2>4. q = p
      BY <2>2, <2>3
    <2> QED
      BY <1>2, <2>4 DEF T
  <1>3. CASE 1 \in S
    <2>1. /\ Cardinality(S) = c + 1 /\ Nth(S, 1) = 1
          /\ \A k \in 1 .. c : Nth(S, k + 1) = Nth(T, k) + 1
      BY <1>3, NthForward
    <2>2. \A k \in 1 .. c : G[Nth(T, k)] = F[Nth(S, k + 1)]
      BY <1>1, <2>1
    <2>3. p = [k \in 1 .. c + 1 |-> F[Nth(S, k)]]
      BY <2>1 DEF Listing
    <2>4. q = [k \in 1 .. c |-> G[Nth(T, k)]]
      BY DEF Listing
    <2>5. p \in Seq(R)
      BY <1>0, ListingType
    <2> HIDE DEF T, c, p, q
    <2>6. Len(p) = c + 1 /\ p # <<>> /\ Head(p) = F[1]
      BY SMTT(60), <1>1, <2>1, <2>3, <2>5
    <2> DEFINE b == Tail(p)
    <2>7. DOMAIN b = 1 .. c /\ \A k \in 1 .. c : b[k] = p[k + 1]
      BY <1>1, <2>5, <2>6, TailElement
    <2>8. b = [k \in DOMAIN b |-> b[k]]
      BY <2>5, <2>6, TailElement, SeqFunction
    <2> HIDE DEF b
    <2>9. \A k \in 1 .. c : k + 1 \in 1 .. c + 1
      BY <1>1
    <2>10. \A k \in 1 .. c : q[k] = b[k]
      BY <2>2, <2>3, <2>4, <2>7, <2>9
    <2>11. DOMAIN q = 1 .. c /\ q = [k \in DOMAIN q |-> q[k]]
      BY <2>4
    <2>12. q = b
      BY <2>7, <2>8, <2>10, <2>11
    <2> QED
      BY <1>3, <2>6, <2>12 DEF T, p, q, b
  <1> QED
    BY <1>2, <1>3

-----------------------------------------------------------------------------
(* The pipeline implements PropertyMirror: the tree applies what each       *)
(* server reports once and in the order it was reported.                    *)

Reports == [i \in DOMAIN queue |-> ReportAt(i)]

\* A report waits in the queue with the copy it holds: its state is one of a
\* property's, it is about a vector of its server, and only the last report of
\* a server may be one that the server waits for.
ReportsWait(t) ==
    /\ Places(ReportsOf(t)) /\ \A i \in ReportsOf(t) : i <= Len(queue)
    /\ \A i \in ReportsOf(t) :
         /\ Reports[i] = [op |-> queue[i].kind, prop |-> queue[i].prop,
                          state |-> heap[queue[i].cell]]
         /\ Reports[i] \in Mirror!Report
         /\ t \notin blocked => Reports[i].op \notin {"define", "update"}
    /\ Posted(t) = Listing(ReportsOf(t), Reports)
    /\ Posted(t) \in Seq(Mirror!Report)

LEMMA ReportsFit ==
    TypeInv /\ OwnershipInv /\ Sleeping => \A t \in Servers : ReportsWait(t)
  <1> SUFFICES ASSUME TypeInv, OwnershipInv, Sleeping, NEW t \in Servers
               PROVE  ReportsWait(t)
    OBVIOUS
  <1>1. /\ DOMAIN queue = 1 .. Len(queue) /\ Len(queue) \in Nat
        /\ \A i \in DOMAIN queue : queue[i] \in Event
    BY SeqDomain DEF TypeInv, TypeOK
  <1>2. Places(ReportsOf(t)) /\ \A i \in ReportsOf(t) : i <= Len(queue)
    <2>1. IsFiniteSet(1 .. Len(queue))
      BY <1>1, FS_Interval
    <2>2. IsFiniteSet(ReportsOf(t))
      BY <1>1, <2>1, FS_Subset DEF ReportsOf
    <2> QED
      BY <1>1, <2>2 DEF ReportsOf, Places
  <1>3. ASSUME NEW i \in ReportsOf(t)
        PROVE  /\ Reports[i] = ReportAt(i) /\ Reports[i] \in Mirror!Report
               /\ t \notin blocked => Reports[i].op \notin {"define", "update"}
    <2>1. /\ i \in DOMAIN queue /\ queue[i] \in Event /\ queue[i].kind \in PropertyKinds
          /\ queue[i].thread = t
      BY <1>1 DEF ReportsOf
    <2>2. queue[i].cell \in Cells /\ queue[i].prop \in Props
      BY <2>1 DEF Event, PreviewKinds, PropertyKinds, Deletions, AllSweeps
    <2>3. heap[queue[i].cell] # "free"
      BY <2>1, <2>2 DEF OwnershipInv, HeldRight, Held, Carries, Owning
    <2>4. heap[queue[i].cell] \in AllStates
      BY <2>2, <2>3 DEF TypeInv, TypeOK
    <2>5. Reports[i] = ReportAt(i) /\ ReportAt(i).op = queue[i].kind
      BY <2>1 DEF Reports, ReportAt
    <2>6. ReportAt(i) \in Mirror!Report
      BY <2>1, <2>2, <2>4 DEF ReportAt, Mirror!Report, PropertyKinds, Deletions, AllSweeps
    <2>7. t \notin blocked => queue[i].kind \notin Blocking
      BY <2>1 DEF Sleeping, BlockingIsLast
    <2> QED
      BY <2>1, <2>5, <2>6, <2>7 DEF Blocking
  <1>4. Posted(t) = Listing(ReportsOf(t), Reports)
    <2>1. \A k \in 1 .. Cardinality(ReportsOf(t)) : Nth(ReportsOf(t), k) \in ReportsOf(t)
      BY <1>2, NthOfRank
    <2> QED
      BY <1>3, <2>1 DEF Posted, Listing
  <1>5. Posted(t) \in Seq(Mirror!Report)
    BY <1>2, <1>3, <1>4, ListingType
  <1> QED
    BY <1>2, <1>3, <1>4, <1>5 DEF ReportsWait, ReportAt

LEMMA ReportsFitNext ==
    (TypeInv /\ OwnershipInv /\ Sleeping)' => (\A t \in Servers : ReportsWait(t))'
  BY ReportsFit, PTL

\* What reports hold stays what it was while they wait.
StatesKept ==
    \A i \in DOMAIN queue' : queue'[i].kind \in PropertyKinds =>
      heap'[queue'[i].cell] = heap[queue'[i].cell]

\* What a sequence holds at its end is of the sequence's kind.
LEMMA LastAppended ==
    ASSUME NEW R, NEW s \in Seq(R), NEW r, Append(s, r) \in Seq(R)
    PROVE  r \in R
  <1>1. Append(s, r)[Len(s) + 1] = r /\ Len(s) + 1 \in DOMAIN Append(s, r)
    OBVIOUS
  <1> QED
    BY <1>1

\* A signal that is posted adds a report if it is the second of a callback.
LEMMA ReportsAppended ==
    ASSUME TypeInv, OwnershipInv, Sleeping, TypeInv', OwnershipInv', Sleeping',
           NEW e \in Event, queue' = Append(queue, e), StatesKept, NEW t \in Servers
    PROVE  /\ e.thread = t /\ e.kind \in PropertyKinds =>
                Posted(t)' = Append(Posted(t), [op |-> e.kind, prop |-> e.prop,
                                                state |-> heap[e.cell]])
           /\ ~(e.thread = t /\ e.kind \in PropertyKinds) => Posted(t)' = Posted(t)
  <1> DEFINE n == Len(queue)
             S == ReportsOf(t)
             T == ReportsOf(t)'
  <1>1. /\ n \in Nat /\ DOMAIN queue = 1 .. n /\ DOMAIN queue' = 1 .. n + 1
        /\ queue'[n + 1] = e /\ \A i \in DOMAIN queue : queue'[i] = queue[i]
    BY Behind
  <1>2. /\ Places(S) /\ \A i \in S : i <= n
        /\ \A i \in S : /\ Reports[i] \in Mirror!Report
                        /\ Reports[i] = [op |-> queue[i].kind, prop |-> queue[i].prop,
                                         state |-> heap[queue[i].cell]]
        /\ Posted(t) = Listing(S, Reports)
    BY ReportsFit DEF ReportsWait
  <1>3. /\ Places(T) /\ Posted(t)' = Listing(T, Reports')
        /\ \A i \in T : /\ Reports'[i] \in Mirror!Report
                        /\ Reports'[i] = [op |-> queue'[i].kind, prop |-> queue'[i].prop,
                                          state |-> heap'[queue'[i].cell]]
    BY ReportsFitNext DEF ReportsWait
  <1>4. T = IF e.thread = t /\ e.kind \in PropertyKinds THEN S \cup {n + 1} ELSE S
    BY <1>1 DEF ReportsOf
  <1>5. ASSUME NEW i \in S PROVE Reports'[i] = Reports[i]
    <2>1. i \in DOMAIN queue /\ queue'[i] = queue[i] /\ i \in DOMAIN queue' /\ i \in T
      BY <1>1, <1>4 DEF ReportsOf
    <2>2. heap'[queue[i].cell] = heap[queue[i].cell]
      BY <2>1 DEF StatesKept, ReportsOf
    <2>3. Reports[i] = [op |-> queue[i].kind, prop |-> queue[i].prop,
                        state |-> heap[queue[i].cell]]
      BY <1>2
    <2>4. Reports'[i] = [op |-> queue'[i].kind, prop |-> queue'[i].prop,
                         state |-> heap'[queue'[i].cell]]
      BY <1>3, <2>1
    <2> QED
      BY <2>1, <2>2, <2>3, <2>4
  <1>6. CASE e.thread = t /\ e.kind \in PropertyKinds
    <2>1. n + 1 \in T /\ T = S \cup {n + 1}
      BY <1>4, <1>6
    <2>2. Reports'[n + 1] = [op |-> e.kind, prop |-> e.prop, state |-> heap[e.cell]]
      <3>1. n + 1 \in DOMAIN queue' /\ queue'[n + 1] = e
        BY <1>1
      <3>2. heap'[e.cell] = heap[e.cell]
        BY <1>6, <3>1 DEF StatesKept
      <3>3. Reports'[n + 1] = [op |-> queue'[n + 1].kind, prop |-> queue'[n + 1].prop,
                               state |-> heap'[queue'[n + 1].cell]]
        BY <1>3, <2>1
      <3> QED
        BY <3>1, <3>2, <3>3
    <2> HIDE DEF S, T, n
    <2>3. Listing(T, Reports') = Append(Listing(S, Reports), Reports'[n + 1])
      <3>1. Places(S) /\ Extends(T, S, n + 1)
        BY <1>1, <1>2, <2>1, NthAppended DEF Extends
      <3>2. \A i \in S : Reports'[i] = Reports[i]
        BY <1>5
      <3> QED
        BY <3>1, <3>2, ListingAppended
    <2> QED
      BY <1>2, <1>3, <1>6, <2>2, <2>3
  <1>7. CASE ~(e.thread = t /\ e.kind \in PropertyKinds)
    <2> HIDE DEF S
    <2>1. Listing(S, Reports') = Listing(S, Reports)
      BY <1>2, <1>5, ListingSame
    <2> QED
      BY <1>2, <1>3, <1>4, <1>7, <2>1
  <1> QED
    BY <1>6, <1>7

\* A signal that is handled takes its report off.
LEMMA ReportsTaken ==
    ASSUME TypeInv, OwnershipInv, Sleeping, TypeInv', OwnershipInv', Sleeping',
           queue # <<>>, queue' = Tail(queue), StatesKept, NEW t \in Servers
    PROVE  /\ Head(queue).thread = t /\ Head(queue).kind \in PropertyKinds =>
                /\ Posted(t) # <<>> /\ Head(Posted(t)) = ReportAt(1)
                /\ Posted(t)' = Tail(Posted(t))
           /\ ~(Head(queue).thread = t /\ Head(queue).kind \in PropertyKinds) =>
                Posted(t)' = Posted(t)
  <1> DEFINE S == ReportsOf(t)
             T == ReportsOf(t)'
  <1>1. /\ Len(queue) \in Nat /\ DOMAIN queue = 1 .. Len(queue)
        /\ 1 \in DOMAIN queue /\ queue[1] = Head(queue)
        /\ DOMAIN queue' = 1 .. Len(queue) - 1
        /\ \A i \in DOMAIN queue' : i + 1 \in DOMAIN queue /\ queue'[i] = queue[i + 1]
    <2>1. queue \in Seq(Event)
      BY DEF TypeInv, TypeOK
    <2>2. Len(queue) \in Nat /\ DOMAIN queue = 1 .. Len(queue)
      BY <2>1, SeqDomain
    <2>3. /\ Tail(queue) \in Seq(Event) /\ Len(Tail(queue)) = Len(queue) - 1
          /\ Len(queue) >= 1 /\ queue[1] = Head(queue)
      BY <2>1
    <2>4. DOMAIN queue' = 1 .. Len(queue) - 1
      BY <2>3, SeqDomain
    <2>5. \A i \in DOMAIN queue' : i + 1 \in DOMAIN queue
      BY <2>2, <2>3, <2>4
    <2>6. \A i \in DOMAIN queue' : queue'[i] = queue[i + 1]
      BY <2>1, <2>3, <2>4, TailElement
    <2> QED
      BY <2>2, <2>3, <2>4, <2>5, <2>6
  <1>2. /\ Places(S)
        /\ \A i \in S : /\ Reports[i] \in Mirror!Report
                        /\ Reports[i] = [op |-> queue[i].kind, prop |-> queue[i].prop,
                                         state |-> heap[queue[i].cell]]
        /\ Posted(t) = Listing(S, Reports)
    BY ReportsFit DEF ReportsWait
  <1>3. /\ Posted(t)' = Listing(T, Reports')
        /\ \A i \in T : Reports'[i] = [op |-> queue'[i].kind, prop |-> queue'[i].prop,
                                        state |-> heap'[queue'[i].cell]]
    BY ReportsFitNext DEF ReportsWait
  <1>4. T = Forward(S)
    <2>1. ASSUME NEW i \in Nat \ {0} PROVE i \in DOMAIN queue' <=> i + 1 \in DOMAIN queue
      BY <1>1
    <2>2. ASSUME NEW i \in T PROVE i \in Forward(S)
      BY <1>1, <2>1 DEF ReportsOf, Forward
    <2>3. ASSUME NEW i \in Forward(S) PROVE i \in T
      BY <1>1, <2>1 DEF ReportsOf, Forward
    <2> QED
      BY <2>2, <2>3
  <1>5. ASSUME NEW i \in Forward(S) PROVE Reports'[i] = Reports[i + 1]
    <2>1. /\ i \in T /\ i \in DOMAIN queue' /\ queue'[i] = queue[i + 1] /\ i + 1 \in S
          /\ queue'[i].kind \in PropertyKinds
      BY <1>1, <1>4 DEF ReportsOf, Forward
    <2>2. heap'[queue[i + 1].cell] = heap[queue[i + 1].cell]
      BY <2>1 DEF StatesKept
    <2>3. Reports[i + 1] = [op |-> queue[i + 1].kind, prop |-> queue[i + 1].prop,
                            state |-> heap[queue[i + 1].cell]]
      BY <1>2, <2>1
    <2>4. Reports'[i] = [op |-> queue'[i].kind, prop |-> queue'[i].prop,
                         state |-> heap'[queue'[i].cell]]
      BY <1>3, <2>1
    <2> QED
      BY <2>1, <2>2, <2>3, <2>4
  <1>6. 1 \in S <=> Head(queue).thread = t /\ Head(queue).kind \in PropertyKinds
    BY <1>1 DEF ReportsOf
  <1> HIDE DEF S, T
  <1>7. /\ 1 \notin S => Listing(Forward(S), Reports') = Listing(S, Reports)
        /\ 1 \in S => /\ Listing(S, Reports) # <<>> /\ Head(Listing(S, Reports)) = Reports[1]
                      /\ Listing(Forward(S), Reports') = Tail(Listing(S, Reports))
    <2>1. \A i \in Forward(S) : Reports'[i] = Reports[i + 1]
      BY <1>5
    <2> QED
      BY <1>2, <2>1, ListingForward
  <1>8. CASE 1 \in S
    <2>1. Reports[1] = ReportAt(1)
      BY <1>2, <1>8 DEF ReportAt
    <2> QED
      BY <1>2, <1>3, <1>4, <1>6, <1>7, <1>8, <2>1
  <1>9. CASE 1 \notin S
    BY <1>2, <1>3, <1>4, <1>6, <1>7, <1>9
  <1> QED
    BY <1>8, <1>9

\* What the tree shows of p.
View(p) == IF node[p] = NoCell THEN "absent" ELSE heap[node[p]]

LEMMA SameMirror ==
    ASSUME \A t \in Servers : Posted(t)' = Posted(t), \A p \in Props : View(p)' = View(p)
    PROVE  UNCHANGED Mirror!mirrorVars
  BY DEF Mirror!mirrorVars, View

LEMMA IssueMirrored ==
    ASSUME NEW t \in Servers, NEW r \in Mirror!Report, Owner[r.prop] = t,
           Posted(t) \in Seq(Mirror!Report),
           \A i \in DOMAIN Posted(t) : Posted(t)[i].op \notin {"define", "update"},
           Posted(t)' = Append(Posted(t), r),
           \A u \in Servers : u # t => Posted(u)' = Posted(u),
           \A p \in Props : View(p)' = View(p)
    PROVE  Mirror!MirrorNext
  <1>1. Mirror!Issue(t, r)
    BY DEF Mirror!Issue, View
  <1>2. Posted(t)' # Posted(t)
    <2>1. Len(Append(Posted(t), r)) = Len(Posted(t)) + 1 /\ Len(Posted(t)) \in Nat
      OBVIOUS
    <2> QED
      BY <2>1
  <1>3. [u \in Servers |-> Posted(u)]' # [u \in Servers |-> Posted(u)]
    BY <1>2
  <1> QED
    BY <1>1, <1>3 DEF Mirror!MirrorNext

\* Taking the head off a sequence changes it.
LEMMA TailDiffers ==
    ASSUME NEW S, NEW s \in Seq(S), s # <<>>
    PROVE  Tail(s) # s
  <1> DEFINE x == Tail(s)
  <1>1. Len(x) = Len(s) - 1 /\ Len(s) \in Nat
    OBVIOUS
  <1> HIDE DEF x
  <1>2. x # s
    BY <1>1
  <1> QED
    BY <1>2 DEF x

LEMMA ApplyMirrored ==
    ASSUME NEW t \in Servers, NEW r, Posted(t) \in Seq(Mirror!Report), Posted(t) # <<>>,
           Head(Posted(t)) = r, Posted(t)' = Tail(Posted(t)),
           \A u \in Servers : u # t => Posted(u)' = Posted(u),
           \A p \in Props : View(p)' = IF p \in Mirror!Concerned(r)
                                       THEN Mirror!Shown(r, View(p)) ELSE View(p)
    PROVE  Mirror!MirrorNext
  <1>1. Mirror!Apply(t)
    BY ZenonT(60) DEF Mirror!Apply, View
  <1>2. Posted(t)' # Posted(t)
    <2>1. Tail(Posted(t)) # Posted(t)
      BY TailDiffers
    <2> QED
      BY <2>1
  <1>3. [u \in Servers |-> Posted(u)]' # [u \in Servers |-> Posted(u)]
    BY <1>2
  <1> QED
    BY <1>1, <1>3 DEF Mirror!MirrorNext

\* The copies in the queue keep their state unless a step writes to one.
LEMMA CopiesKept ==
    ASSUME TypeInv', OwnershipInv',
           \A c \in Cells : \/ heap'[c] = heap[c]
                            \/ heap'[c] = "free"
                            \/ \A i \in DOMAIN queue' : queue'[i].kind \in PropertyKinds =>
                                 queue'[i].cell # c
    PROVE  StatesKept
  <1> SUFFICES ASSUME NEW i \in DOMAIN queue', queue'[i].kind \in PropertyKinds
               PROVE  heap'[queue'[i].cell] = heap[queue'[i].cell]
    BY DEF StatesKept
  <1> DEFINE c == queue'[i].cell
  <1>1. queue'[i] \in Event
    <2>1. queue' \in Seq(Event)
      BY DEF TypeInv, TypeOK
    <2> QED
      BY <2>1, SeqDomain
  <1>2. c \in Cells
    BY <1>1 DEF Event, PreviewKinds, PropertyKinds, Deletions, AllSweeps
  <1>3. Carries(queue', i, c)
    BY DEF Carries, Owning
  <1>4. heap'[c] # "free"
    BY <1>2, <1>3 DEF OwnershipInv, HeldRight, Held
  <1> QED
    BY <1>2, <1>4

\* A new copy is put into a cell nothing points to.
LEMMA Allocated ==
    ASSUME TypeInv, OwnershipInv, TypeInv', OwnershipInv', NEW c \in Cells,
           heap[c] = "free", \A d \in Cells : d # c => heap'[d] = heap[d],
           NEW e \in Event, queue' = Append(queue, e), e.kind \notin PropertyKinds,
           UNCHANGED node
    PROVE  StatesKept /\ \A p \in Props : View(p)' = View(p)
  <1>1. (\A i : ~Carries(queue, i, c)) /\ \A p \in Props : node[p] # c
    BY FreeUnheld DEF OwnershipInv
  <1>2. ASSUME NEW i \in DOMAIN queue', queue'[i].kind \in PropertyKinds
        PROVE  queue'[i].cell # c
    <2>1. i \in DOMAIN queue /\ queue'[i] = queue[i]
      BY <1>2, Behind
    <2> QED
      BY <1>1, <1>2, <2>1 DEF Carries, Owning
  <1>3. StatesKept
    BY <1>2, CopiesKept
  <1>4. \A p \in Props : node[p] \in Pointer
    BY DEF TypeInv, TypeOK
  <1> QED
    BY <1>1, <1>3, <1>4 DEF View, Pointer

\* A callback posts its report, and nothing else the mirror sees.
LEMMA EmitMirrored ==
    ASSUME TypeInv, OwnershipInv, Sleeping, TypeInv', OwnershipInv', Sleeping',
           NEW t \in Servers,
           EmitPreview(t) \/ EmitFirst(t) \/ EmitSecond(t) \/ EmitMessage(t)
    PROVE  \/ UNCHANGED Mirror!mirrorVars
           \/ Mirror!MirrorNext
  <1>1. PICK q \in Props, e \in Event : PostedBy(t, q, e)
    BY EmitPosts
  <1>2. /\ e.thread = t /\ e.prop = q /\ Owner[q] = t /\ t \notin blocked
        /\ queue' = Append(queue, e)
    BY <1>1 DEF PostedBy
  <1>3. StatesKept /\ \A p \in Props : View(p)' = View(p)
    <2>1. CASE EmitPreview(t) \/ EmitSecond(t)
      <3>1. UNCHANGED <<heap, node>>
        BY <2>1 DEF EmitPreview, EmitSecond, copyVars, guiVars
      <3> QED
        BY <3>1 DEF StatesKept, View
    <2>2. CASE EmitFirst(t)
      <3>1. PICK c \in Cells, withMessage \in Messages,
                 withText \in TextOf(call[t].op, call[t].prop) :
              /\ Allocate(c, vector[call[t].prop], withText, withMessage)
              /\ Post(t, Receivers(call[t].op)[1], c)
        BY <2>2 DEF EmitFirst
      <3>2. heap[c] = "free" /\ (\A d \in Cells : d # c => heap'[d] = heap[d])
        BY ZenonT(60), <3>1 DEF Allocate, TypeInv, TypeOK
      <3>3. UNCHANGED node
        BY <2>2 DEF EmitFirst, guiVars
      <3>4. queue' = Append(queue, [kind |-> "log", thread |-> t,
                                    prop |-> call[t].prop, cell |-> c])
        BY <3>1 DEF Post, Receivers
      <3>5. [kind |-> "log", thread |-> t, prop |-> call[t].prop, cell |-> c] \in Event
        BY <1>1 DEF PostedBy, Event, Kinds, PreviewKinds
      <3> QED
        BY <3>2, <3>3, <3>4, <3>5, Allocated DEF PropertyKinds, Deletions, AllSweeps
    <2>3. CASE EmitMessage(t)
      <3>1. PICK c \in Cells :
              /\ Allocate(c, vector[call[t].prop], "none", TRUE)
              /\ Post(t, "message", c)
        BY <2>3 DEF EmitMessage
      <3>2. heap[c] = "free" /\ (\A d \in Cells : d # c => heap'[d] = heap[d])
        BY ZenonT(60), <3>1 DEF Allocate, TypeInv, TypeOK
      <3>3. UNCHANGED node
        BY <2>3 DEF EmitMessage, guiVars
      <3>4. queue' = Append(queue, [kind |-> "message", thread |-> t,
                                    prop |-> call[t].prop, cell |-> c])
        BY <3>1 DEF Post
      <3>5. [kind |-> "message", thread |-> t, prop |-> call[t].prop, cell |-> c] \in Event
        BY <1>1 DEF PostedBy, Event, Kinds, PreviewKinds
      <3> QED
        BY <3>2, <3>3, <3>4, <3>5, Allocated DEF PropertyKinds, Deletions, AllSweeps
    <2> QED
      BY <2>1, <2>2, <2>3
  <1>4. CASE e.kind \in PropertyKinds
    <2> DEFINE r == [op |-> e.kind, prop |-> e.prop, state |-> heap[e.cell]]
    <2>1. Posted(t)' = Append(Posted(t), r)
      BY <1>2, <1>3, <1>4, ReportsAppended
    <2>2. \A u \in Servers : u # t => Posted(u)' = Posted(u)
      BY <1>2, <1>3, ReportsAppended
    <2>3. Posted(t) \in Seq(Mirror!Report) /\ Posted(t)' \in Seq(Mirror!Report)
      BY ReportsFit, ReportsFitNext DEF ReportsWait
    <2>4. r \in Mirror!Report
      BY <2>1, <2>3, LastAppended
    <2>5. \A i \in DOMAIN Posted(t) : Posted(t)[i].op \notin {"define", "update"}
      <3>1. /\ Places(ReportsOf(t)) /\ Posted(t) = Listing(ReportsOf(t), Reports)
            /\ \A i \in ReportsOf(t) : Reports[i].op \notin {"define", "update"}
        BY <1>2, ReportsFit DEF ReportsWait
      <3>2. \A k \in 1 .. Cardinality(ReportsOf(t)) : Nth(ReportsOf(t), k) \in ReportsOf(t)
        BY <3>1, NthOfRank
      <3> QED
        BY <3>1, <3>2 DEF Listing
    <2>6. Owner[r.prop] = t
      BY <1>2
    <2> HIDE DEF r
    <2> QED
      BY <1>3, <2>1, <2>2, <2>3, <2>4, <2>5, <2>6, IssueMirrored
  <1>5. CASE e.kind \notin PropertyKinds
    BY <1>2, <1>3, <1>5, ReportsAppended, SameMirror
  <1> QED
    BY <1>4, <1>5

\* A slot of PropertyModel applies the report of its event to the tree.
LEMMA ReportApplied ==
    ASSUME TypeInv, OwnershipInv, Sleeping, TypeInv', OwnershipInv', Sleeping',
           NEW kind \in PropertyKinds, Take(kind), StatesKept,
           \A p \in Props :
             View(p)' = IF p \in Mirror!Concerned(ReportAt(1))
                        THEN Mirror!Shown(ReportAt(1), View(p)) ELSE View(p)
    PROVE  Mirror!MirrorNext
  <1>1. /\ queue # <<>> /\ queue' = Tail(queue) /\ Head(queue).kind \in PropertyKinds
        /\ Head(queue).thread \in Servers
    BY TakeTypes DEF Take, TypeInv
  <1>2. PICK t \in Servers : t = Head(queue).thread
    BY <1>1
  <1>3. PICK r : r = ReportAt(1)
    OBVIOUS
  <1>4. Posted(t) # <<>> /\ Head(Posted(t)) = r /\ Posted(t)' = Tail(Posted(t))
    BY <1>1, <1>2, <1>3, ReportsTaken
  <1>5. \A u \in Servers : u # t => Posted(u)' = Posted(u)
    BY <1>1, <1>2, ReportsTaken
  <1>6. \A p \in Props : View(p)' = IF p \in Mirror!Concerned(r)
                                   THEN Mirror!Shown(r, View(p)) ELSE View(p)
    BY <1>3
  <1>7. Posted(t) \in Seq(Mirror!Report)
    BY ReportsFit DEF ReportsWait
  <1> QED
    BY <1>4, <1>5, <1>6, <1>7, ApplyMirrored

\* What a report means to the mirror.
LEMMA ReportMeans ==
    ASSUME NEW r, NEW op, NEW p \in Props, NEW s, r = [op |-> op, prop |-> p, state |-> s]
    PROVE  /\ op \in {"define", "update"} => Mirror!Concerned(r) = {p}
           /\ \A old : /\ op = "define" =>
                          Mirror!Shown(r, old) = IF old = "absent" THEN s ELSE old
                       /\ op = "update" =>
                          Mirror!Shown(r, old) = IF old = "absent" THEN old ELSE s
           /\ op \in Deletions =>
                /\ \A old : Mirror!Shown(r, old) = "absent"
                /\ \A q \in Props : q \in Mirror!Concerned(r) <=> q \in Taken(op, p)
  <1>1. r.op = op /\ r.prop = p /\ r.state = s
    OBVIOUS
  <1>2. op \in {"define", "update"} => Mirror!Concerned(r) = {p}
    BY <1>1 DEF Mirror!Concerned
  <1>3. ASSUME NEW old
        PROVE  /\ op = "define" => Mirror!Shown(r, old) = IF old = "absent" THEN s ELSE old
               /\ op = "update" => Mirror!Shown(r, old) = IF old = "absent" THEN old ELSE s
               /\ op \in Deletions => Mirror!Shown(r, old) = "absent"
    BY <1>1 DEF Mirror!Shown, Deletions, AllSweeps
  <1>4. ASSUME op \in Deletions, NEW q \in Props
        PROVE  q \in Mirror!Concerned(r) <=> q \in Taken(op, p)
    <2>1. CASE op = "delete"
      BY <1>1, <2>1 DEF Mirror!Concerned, Taken
    <2>2. CASE op = "delete group"
      BY <1>1, <2>2 DEF Mirror!Concerned, Taken
    <2>3. CASE op = "delete device"
      BY <1>1, <2>3 DEF Mirror!Concerned, Taken
    <2> QED
      BY <1>4, <2>1, <2>2, <2>3 DEF Deletions, AllSweeps
  <1> QED
    BY <1>2, <1>3, <1>4

\* What a slot of PropertyModel finds: the report of its event, and a node's
\* copy that is shown as it is.
LEMMA SlotFinds ==
    ASSUME TypeInv, OwnershipInv, NEW kind \in PropertyKinds, Take(kind), UNCHANGED call
    PROVE  /\ Head(queue).prop \in Props /\ Head(queue).cell \in Cells
           /\ Head(queue).cell # NoCell
           /\ ReportAt(1) = [op |-> kind, prop |-> Head(queue).prop,
                             state |-> heap[Head(queue).cell]]
           /\ \A p \in Props : /\ node[p] # Head(queue).cell
                               /\ View(p) = "absent" <=> node[p] = NoCell
                               /\ node[p] # NoCell => node[p] \in Cells
  <1>1. /\ Head(queue) = queue[1] /\ Head(queue).kind = kind
    BY TailElement DEF Take, TypeInv, TypeOK
  <1>2. kind \in Owning
    BY DEF Owning
  <1>3. /\ Head(queue).prop \in Props /\ Head(queue).cell \in Cells
        /\ \A p \in Props : node[p] # Head(queue).cell
    BY <1>2, OwningEvent
  <1>4. \A c \in Cells : heap[c] # "absent"
    BY PipelineAssumption DEF TypeInv, TypeOK, AllStates
  <1>5. \A p \in Props : node[p] # NoCell => node[p] \in Cells
    BY DEF TypeInv, TypeOK, Pointer
  <1>6. ReportAt(1) = [op |-> kind, prop |-> Head(queue).prop,
                       state |-> heap[Head(queue).cell]]
    BY <1>1 DEF ReportAt
  <1> QED
    BY <1>3, <1>4, <1>5, <1>6, PipelineAssumption DEF View

LEMMA DefineMirrored ==
    ASSUME TypeInv, OwnershipInv, Sleeping, TypeInv', OwnershipInv', Sleeping',
           DefineProperty
    PROVE  Mirror!MirrorNext
  <1> DEFINE e == Head(queue)
  <1>1. Take("define") /\ "define" \in PropertyKinds /\ UNCHANGED call
    BY DEF DefineProperty, busVars, PropertyKinds
  <1>2. /\ e.prop \in Props /\ e.cell \in Cells /\ e.cell # NoCell
        /\ ReportAt(1) = [op |-> "define", prop |-> e.prop, state |-> heap[e.cell]]
        /\ \A p \in Props : /\ node[p] # e.cell
                            /\ View(p) = "absent" <=> node[p] = NoCell
                            /\ node[p] # NoCell => node[p] \in Cells
    BY <1>1, SlotFinds
  <1>3. /\ Mirror!Shown(ReportAt(1), View(e.prop)) =
             IF node[e.prop] = NoCell THEN heap[e.cell] ELSE View(e.prop)
        /\ Mirror!Concerned(ReportAt(1)) = {e.prop}
    BY <1>2, ReportMeans
  <1>4. CASE node[e.prop] = NoCell
    <2>1. UNCHANGED heap /\ node' = [node EXCEPT ![e.prop] = e.cell]
      BY <1>4 DEF DefineProperty
    <2>2. StatesKept
      BY <2>1 DEF StatesKept
    <2>3. \A p \in Props : node'[p] = IF p = e.prop THEN e.cell ELSE node[p]
      BY <1>2, <2>1 DEF TypeInv, TypeOK
    <2>4. \A p \in Props : View(p)' = IF p = e.prop THEN Mirror!Shown(ReportAt(1), View(p))
                                      ELSE View(p)
      BY <1>2, <1>3, <1>4, <2>1, <2>3 DEF View
    <2> QED
      BY <1>1, <1>3, <2>2, <2>4, ReportApplied
  <1>5. CASE node[e.prop] # NoCell
    <2>1. UNCHANGED node /\ heap' = [heap EXCEPT ![e.cell] = "free"]
      BY <1>5 DEF DefineProperty, Discard
    <2>2. \A c \in Cells : heap'[c] = IF c = e.cell THEN "free" ELSE heap[c]
      BY ZenonT(60), <1>2, <2>1 DEF TypeInv, TypeOK
    <2>3. StatesKept
      BY <2>2, CopiesKept
    <2>4. \A p \in Props : View(p)' = IF p = e.prop THEN Mirror!Shown(ReportAt(1), View(p))
                                      ELSE View(p)
      BY <1>2, <1>3, <1>5, <2>1, <2>2 DEF View
    <2> QED
      BY <1>1, <1>3, <2>3, <2>4, ReportApplied
  <1> QED
    BY <1>4, <1>5

LEMMA UpdateMirrored ==
    ASSUME TypeInv, OwnershipInv, Sleeping, TypeInv', OwnershipInv', Sleeping',
           UpdateProperty
    PROVE  Mirror!MirrorNext
  <1> DEFINE e == Head(queue)
             d == node[e.prop]
  <1>1. /\ Take("update") /\ "update" \in PropertyKinds /\ UNCHANGED call
        /\ UNCHANGED node
    BY DEF UpdateProperty, busVars, guiVars, PropertyKinds
  <1>2. /\ e.prop \in Props /\ e.cell \in Cells /\ e.cell # NoCell
        /\ ReportAt(1) = [op |-> "update", prop |-> e.prop, state |-> heap[e.cell]]
        /\ \A p \in Props : /\ node[p] # e.cell
                            /\ View(p) = "absent" <=> node[p] = NoCell
                            /\ node[p] # NoCell => node[p] \in Cells
    BY <1>1, SlotFinds
  <1>3. /\ Mirror!Shown(ReportAt(1), View(e.prop)) =
             IF node[e.prop] = NoCell THEN View(e.prop) ELSE heap[e.cell]
        /\ Mirror!Concerned(ReportAt(1)) = {e.prop}
    BY <1>2, ReportMeans
  <1>4. CASE d = NoCell
    <2>1. heap' = [heap EXCEPT ![e.cell] = "free"]
      BY <1>4 DEF UpdateProperty, Discard
    <2>2. \A c \in Cells : heap'[c] = IF c = e.cell THEN "free" ELSE heap[c]
      BY ZenonT(60), <1>2, <2>1 DEF TypeInv, TypeOK
    <2>3. StatesKept
      BY <2>2, CopiesKept
    <2>4. \A p \in Props : View(p)' = IF p = e.prop THEN Mirror!Shown(ReportAt(1), View(p))
                                      ELSE View(p)
      BY <1>1, <1>2, <1>3, <1>4, <2>2 DEF View
    <2> QED
      BY <1>1, <1>3, <2>3, <2>4, ReportApplied
  <1>5. CASE d # NoCell
    <2>1. heap' = [heap EXCEPT ![d] = heap[e.cell], ![e.cell] = "free"]
      BY <1>5 DEF UpdateProperty
    <2>2. \A c \in Cells : heap'[c] = IF c = e.cell THEN "free"
                                      ELSE IF c = d THEN heap[e.cell] ELSE heap[c]
      BY ZenonT(60), <1>2, <1>5, <2>1 DEF TypeInv, TypeOK
    <2>3. \A i \in DOMAIN queue' : queue'[i].kind \in PropertyKinds => queue'[i].cell # d
      BY <1>1, <1>2, <1>5 DEF OwnershipInv, HeldRight, HeldOnce, Carries, Owning
    <2>4. StatesKept
      BY <2>2, <2>3, CopiesKept
    <2>5. \A p \in Props : p # e.prop /\ node[p] # NoCell => node[p] # d
      BY <1>2, <1>5 DEF OwnershipInv, HeldRight, HeldOnce
    <2>6. \A p \in Props : View(p)' = IF p = e.prop THEN Mirror!Shown(ReportAt(1), View(p))
                                      ELSE View(p)
      BY <1>1, <1>2, <1>3, <1>5, <2>2, <2>5 DEF View
    <2> QED
      BY <1>1, <1>3, <2>4, <2>6, ReportApplied
  <1> QED
    BY <1>4, <1>5

LEMMA DeleteMirrored ==
    ASSUME TypeInv, OwnershipInv, Sleeping, TypeInv', OwnershipInv', Sleeping',
           DeleteProperty
    PROVE  Mirror!MirrorNext
  <1> DEFINE e == Head(queue)
             taken == Taken(e.kind, e.prop)
  <1>1. PICK kind \in Deletions : Take(kind)
    BY DEF DeleteProperty
  <1>2. kind \in PropertyKinds /\ UNCHANGED call /\ e.kind = kind
    BY <1>1 DEF DeleteProperty, busVars, PropertyKinds, Take
  <1>3. /\ e.prop \in Props /\ e.cell \in Cells
        /\ ReportAt(1) = [op |-> kind, prop |-> e.prop, state |-> heap[e.cell]]
        /\ \A p \in Props : /\ node[p] # e.cell
                            /\ node[p] # NoCell => node[p] \in Cells
    BY <1>1, <1>2, SlotFinds
  <1>4. /\ \A p \in Props : Mirror!Shown(ReportAt(1), View(p)) = "absent"
        /\ \A p \in Props : p \in Mirror!Concerned(ReportAt(1)) <=> p \in taken
    BY <1>2, <1>3, ReportMeans
  <1>5. \A p \in Props : node'[p] = IF p \in taken THEN NoCell ELSE node[p]
    BY DEF DeleteProperty
  <1>6. \A c \in Cells :
          heap'[c] = IF c \in {node[q] : q \in taken} \cup {e.cell} THEN "free" ELSE heap[c]
    BY DEF DeleteProperty
  <1>7. taken \subseteq Props
    BY DEF Taken
  <1>8. StatesKept
    BY <1>6, CopiesKept
  <1> HIDE DEF e, taken
  <1>9. \A p, q \in Props : p # q /\ node[p] # NoCell => node[p] # node[q]
    BY <1>3 DEF OwnershipInv, HeldRight, HeldOnce
  <1>10. ASSUME NEW p \in Props, p \notin taken, node[p] # NoCell
         PROVE  heap'[node[p]] = heap[node[p]]
    <2>1. node[p] \in Cells /\ node[p] # e.cell
      BY <1>3, <1>10
    <2>2. \A q \in taken : node[p] # node[q]
      BY <1>7, <1>9, <1>10
    <2> QED
      BY <1>6, <2>1, <2>2
  <1>11. \A p \in Props : View(p)' = IF p \in taken THEN "absent" ELSE View(p)
    BY <1>5, <1>10 DEF View
  <1>12. \A p \in Props : View(p)' = IF p \in Mirror!Concerned(ReportAt(1))
                                     THEN Mirror!Shown(ReportAt(1), View(p)) ELSE View(p)
    BY <1>4, <1>11
  <1> QED
    BY <1>1, <1>2, <1>8, <1>12, ReportApplied

\* The other slots apply no report.
LEMMA OthersMirrored ==
    ASSUME TypeInv, OwnershipInv, Sleeping, TypeInv', OwnershipInv', Sleeping',
           NEW kind, kind \notin PropertyKinds, Take(kind), UNCHANGED node,
           heap' = heap \/ heap' = [heap EXCEPT ![Head(queue).cell] = "free"],
           \A p \in Props : heap' # heap => node[p] # Head(queue).cell
    PROVE  UNCHANGED Mirror!mirrorVars
  <1>1. \A c \in Cells : /\ heap'[c] = heap[c] \/ heap'[c] = "free"
                         /\ c # Head(queue).cell => heap'[c] = heap[c]
    BY ZenonT(60) DEF TypeInv, TypeOK
  <1>2. StatesKept
    BY <1>1, CopiesKept
  <1>3. \A t \in Servers : Posted(t)' = Posted(t)
    BY <1>2, ReportsTaken DEF Take
  <1>4. \A p \in Props : node[p] # NoCell => node[p] \in Cells
    BY DEF TypeInv, TypeOK, Pointer
  <1>5. \A p \in Props : View(p)' = View(p)
    BY <1>1, <1>4 DEF View
  <1> QED
    BY <1>3, <1>5, SameMirror

\* The GUI thread applies one report, or does what the mirror does not see.
LEMMA HandleMirrored ==
    ASSUME TypeInv, OwnershipInv, Sleeping, TypeInv', OwnershipInv', Sleeping', Handle
    PROVE  \/ UNCHANGED Mirror!mirrorVars
           \/ Mirror!MirrorNext
  <1>1. CASE \/ OnMessageSent \/ OnCreatePreview \/ OnObsoletePreview
             \/ OnRemovePreview \/ OnNoPreview
    <2>1. UNCHANGED <<heap, node>> /\ \E kind : kind \notin PropertyKinds /\ Take(kind)
      BY <1>1 DEF OnMessageSent, OnCreatePreview, OnObsoletePreview, OnRemovePreview,
           OnNoPreview, RemovePreview, guiVars, copyVars, PropertyKinds, Deletions, AllSweeps
    <2> QED
      BY <2>1, OthersMirrored
  <1>2. CASE OnMessageReceived
    <2>1. /\ Take("message") /\ UNCHANGED <<call, node>>
          /\ heap' = [heap EXCEPT ![Head(queue).cell] = "free"]
      BY <1>2 DEF OnMessageReceived, busVars, guiVars
    <2>2. "message" \in Owning /\ "message" \notin PropertyKinds
      BY DEF Owning, PropertyKinds, Deletions, AllSweeps
    <2>3. \A p \in Props : node[p] # Head(queue).cell
      BY <2>1, <2>2, OwningEvent
    <2> QED
      BY <2>1, <2>2, <2>3, OthersMirrored
  <1> QED
    BY <1>1, <1>2, DefineMirrored, UpdateMirrored, DeleteMirrored DEF Handle

LEMMA InitMirrored ==
    Init /\ TypeInv /\ OwnershipInv /\ Sleeping => Mirror!MirrorInit
  <1> SUFFICES ASSUME Init, TypeInv, OwnershipInv, Sleeping PROVE Mirror!MirrorInit
    OBVIOUS
  <1>1. ASSUME NEW t \in Servers PROVE Posted(t) = <<>>
    <2>1. ReportsOf(t) = {}
      BY DEF Init, ReportsOf
    <2>2. Cardinality(ReportsOf(t)) = 0
      BY <2>1, FS_EmptySet
    <2>3. Posted(t) \in Seq(Mirror!Report) /\ DOMAIN Posted(t) = 1 .. 0
      BY <2>2, ReportsFit DEF ReportsWait, Posted
    <2> HIDE DEF Posted
    <2>4. Len(Posted(t)) = 0
      BY <2>3
    <2> QED
      BY <2>3, <2>4
  <1>2. \A p \in Props : View(p) = "absent"
    BY DEF Init, View
  <1> QED
    BY <1>1, <1>2 DEF Mirror!MirrorInit, View

LEMMA NextMirrored ==
    /\ TypeInv /\ OwnershipInv /\ Sleeping
    /\ (TypeInv /\ OwnershipInv /\ Sleeping)'
    /\ [Next]_vars
    => [Mirror!MirrorNext]_(Mirror!mirrorVars)
  <1> SUFFICES ASSUME TypeInv, OwnershipInv, Sleeping,
                      TypeInv', OwnershipInv', Sleeping', [Next]_vars
               PROVE  Mirror!MirrorNext \/ UNCHANGED Mirror!mirrorVars
    OBVIOUS
  <1>1. ASSUME UNCHANGED <<queue, heap, node>> PROVE UNCHANGED Mirror!mirrorVars
    <2>1. \A p \in Props : View(p)' = View(p)
      BY <1>1 DEF View
    <2>2. \A t \in Servers : Posted(t)' = Posted(t)
      BY <1>1 DEF Posted, ReportsOf, ReportAt
    <2> QED
      BY <2>1, <2>2, SameMirror
  <1>2. CASE UNCHANGED vars
    BY <1>1, <1>2 DEF vars
  <1>3. ASSUME NEW t \in Servers, BusCall(t) \/ Return(t) \/ FinishCreatePreview(t)
        PROVE  UNCHANGED Mirror!mirrorVars
    <2>1. UNCHANGED <<queue, heap, node>>
      BY <1>3 DEF BusCall, ClientDefineProperty, ClientUpdateProperty,
           ClientDeleteProperty, ClientReceiveMessage, Enter, Return,
           FinishCreatePreview, copyVars, guiVars, busVars
    <2> QED
      BY <1>1, <2>1
  <1>4. ASSUME NEW t \in Servers, BusStep(t)
        PROVE  Mirror!MirrorNext \/ UNCHANGED Mirror!mirrorVars
    BY <1>3, <1>4, EmitMirrored DEF BusStep
  <1>5. ASSUME Handle PROVE Mirror!MirrorNext \/ UNCHANGED Mirror!mirrorVars
    BY <1>5, HandleMirrored
  <1>6. CASE RebuildPreviews
    BY <1>1, <1>6, Rebuilt
  <1> QED
    BY <1>2, <1>3, <1>4, <1>5, <1>6 DEF Next

\* The tree applies what each server reports once and in the order it was
\* reported: IndigoClient's callbacks, the Qt connections and the three slots of
\* PropertyModel implement PropertyMirror, however the servers share the queue
\* and the previews nest in it.
THEOREM MirrorImplemented == Spec => AppliesInOrder
  <1>1. Init => TypeInv /\ OwnershipInv /\ Sleeping
    BY InitTypeInv, InitOwnership, InitSleeping
  <1>2. TypeInv /\ OwnershipInv /\ Sleeping /\ [Next]_vars
        => (TypeInv /\ OwnershipInv /\ Sleeping)'
    BY NextTypeInv, NextOwnership, NextSleeping
  <1>3. Init => Mirror!MirrorInit
    BY <1>1, InitMirrored
  <1> QED
    BY <1>1, <1>2, <1>3, NextMirrored, PTL DEF Spec, AppliesInOrder, Mirror!MirrorSpec

=============================================================================
