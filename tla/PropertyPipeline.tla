-------------------------- MODULE PropertyPipeline --------------------------
(***************************************************************************)
(* How a property travels from the INDIGO bus to the GUI thread.           *)
(*                                                                         *)
(* Every connected server has a reader thread that runs the callbacks of   *)
(* IndigoClient (indigoclient.cpp).  A callback emits Qt signals; each     *)
(* signal is posted on the one event queue of the GUI thread, and the      *)
(* thread sleeps until the handler has returned when the connection is a   *)
(* BlockingQueuedConnection (browserwindow.cpp:268-281).  Property signals *)
(* carry a deep copy that the receivers must release; preview signals      *)
(* carry the bus's own vector.  Creating a preview spins a nested event    *)
(* loop (QCoreApplication::processEvents), so handlers run inside it, and  *)
(* so does the user, who may have every preview rebuilt.                   *)
(***************************************************************************)
EXTENDS Naturals, Sequences, FiniteSets

CONSTANTS
    Servers,    \* the connected servers, one reader thread each
    Props,      \* the property vectors of all servers
    Owner,      \* Owner[p]: the server whose thread reports p
    Device,     \* Device[p]: the device p belongs to
    Group,      \* Group[p]: the group of that device p is in
    Blobs,      \* the BLOB vectors
    LongTexts,  \* the text vectors whose items may carry a long_value
    States,     \* States[p]: the states p is reported in, some of AllStates
    Sweeps,     \* the deletions of more than one property in use
    Messages,   \* whether a callback can come with a message: {FALSE}, BOOLEAN
    Decodes,    \* whether decoding an image can succeed: {FALSE}, BOOLEAN
    MaxRebuilds,\* bound: rebuilds of the previews under way at a time
    Cells,      \* heap cells for the copies (bounds the calls in flight)
    NoCell      \* a null pointer to a copy

\* The states of a property.  "write-only" is state OK of a vector with
\* INDIGO_WO_PERM, of which no image may be shown; in its other states it is
\* treated as one in state ALERT.
AllStates == {"idle", "ok", "busy", "alert", "write-only"}

\* A deletion that names no property, and one that names no group either.
AllSweeps == {"delete group", "delete device"}

ASSUME PipelineAssumption ==
    /\ IsFiniteSet(Servers)
    /\ Owner \in [Props -> Servers]
    /\ \A p, q \in Props : /\ Device[p] = Device[q] => Owner[p] = Owner[q]
                           /\ Group[p] = Group[q] => Device[p] = Device[q]
    /\ Blobs \subseteq Props
    /\ LongTexts \subseteq Props \ Blobs
    /\ States \in [Props -> SUBSET AllStates]
    /\ Sweeps \subseteq AllSweeps
    /\ Messages \subseteq BOOLEAN
    /\ Decodes \subseteq BOOLEAN
    /\ MaxRebuilds \in Nat
    /\ NoCell \notin Cells

VARIABLES
    vector,   \* the bus's own vectors: a state, or how it went, see Gone
    call,     \* call[t]: the bus callback the thread of t is running
    blocked,  \* the threads asleep in a BlockingQueuedConnection
    queue,    \* the GUI thread's event queue
    nested,   \* the preview creations for bus threads the GUI thread is inside of
    rebuilds, \* the rebuilds of the previews it is inside of
    heap,     \* the copies: the state a live copy holds, or "free"
    text,     \* the long text of the copy in a cell: its own, or a freed one
    message,  \* the malloc'd message that travels with the copy in a cell
    node,     \* node[p]: the copy the PropertyNode of p owns
    preview   \* the blob preview cache

vars == <<vector, call, blocked, queue, nested, rebuilds, heap, text, message,
          node, preview>>

busVars == <<vector, call>>
copyVars == <<heap, text, message>>
loopVars == <<nested, rebuilds>>
guiVars == <<loopVars, node, preview>>
-----------------------------------------------------------------------------
PreviewKinds == {"create", "obsolete", "remove", "no"}
Deletions == {"delete"} \cup AllSweeps
PropertyKinds == {"define", "update"} \cup Deletions
Kinds == PreviewKinds \cup PropertyKinds \cup {"log", "message"}

\* Mutations of Blocking: remove_preview, create_preview or property_changed
\* connected with Qt::QueuedConnection.
BlockingButRemove == {"create", "obsolete", "define", "update"}
BlockingButCreate == {"obsolete", "remove", "define", "update"}
BlockingButUpdate == {"create", "obsolete", "remove", "define"}

\* Signals whose receiver is connected with Qt::BlockingQueuedConnection.
Blocking == {"create", "obsolete", "remove", "define", "update"}

\* Signals whose (last) receiver releases the copy they carry.
Owning == PropertyKinds \cup {"message"}

Pointer == Cells \cup {NoCell}

Event == [kind: PreviewKinds, thread: Servers, prop: Props, cell: {NoCell}]
         \cup [kind: Kinds \ PreviewKinds, thread: Servers, prop: Props, cell: Cells]

\* The vector was never defined or was deleted by itself; or it was swept away
\* with its group or its device.
Gone == {"absent", "swept"}

\* A walk of rebuild_blob_previews: the vector it is at, and how many creations
\* for bus threads it was started inside of.
Rebuild == [prop: Blobs, inside: Nat]

\* The steps of a callback: the preview signal of a BLOB vector, then the
\* receivers of the property signal in the order they were connected.
Call == [op: PropertyKinds, prop: Props, step: {"preview", "first", "return"},
         cell: {NoCell}]
        \cup [op: PropertyKinds, prop: Props, step: {"second"}, cell: Cells]
        \cup [op: {"message"}, prop: Props, step: {"message", "return"},
              cell: {NoCell}]

Resting == [op |-> "none"]

Idle(t) == call[t] = Resting

TypeOK ==
    /\ vector \in [Props -> AllStates \cup Gone]
    /\ call \in [Servers -> Call \cup {Resting}]
    /\ blocked \subseteq Servers
    /\ queue \in Seq(Event)
    /\ nested \in Seq(Event)
    /\ rebuilds \in Seq(Rebuild)
    /\ heap \in [Cells -> AllStates \cup {"free"}]
    /\ text \in [Cells -> {"none", "own", "freed", "freed twice"}]
    /\ message \in [Cells -> {"none", "live", "freed", "freed twice"}]
    /\ node \in [Props -> Pointer]
    /\ preview \in [Props -> {"none", "fresh", "obsolete", "rebuilt"}]

Init ==
    /\ vector = [p \in Props |-> "absent"]
    /\ call = [t \in Servers |-> Resting]
    /\ blocked = {}
    /\ queue = <<>>
    /\ nested = <<>>
    /\ rebuilds = <<>>
    /\ heap = [c \in Cells |-> "free"]
    /\ text = [c \in Cells |-> "none"]
    /\ message = [c \in Cells |-> "none"]
    /\ node = [p \in Props |-> NoCell]
    /\ preview = [p \in Props |-> "none"]
-----------------------------------------------------------------------------
(* The bus threads.                                                        *)

\* The thread of t enters a callback for its vector p.
Enter(t, op, p, step) ==
    /\ Idle(t)
    /\ Owner[p] = t
    /\ call' = [call EXCEPT ![t] =
                  [op |-> op, prop |-> p, step |-> step, cell |-> NoCell]]
    /\ UNCHANGED <<blocked, queue, copyVars, guiVars>>

\* What a deletion that is reported as one of p takes away.
Taken(op, p) ==
    {q \in Props : \/ op = "delete" /\ q = p
                   \/ op = "delete group" /\ Group[q] = Group[p]
                   \/ op = "delete device" /\ Device[q] = Device[p]}

\* What a sweep reports is not a BLOB vector, whatever it takes away.
FirstStep(op, p) ==
    IF p \in Blobs /\ op \notin AllSweeps THEN "preview" ELSE "first"

\* A property is defined, or defined again while it already is.
ClientDefineProperty(t, p, s) ==
    /\ Enter(t, "define", p, FirstStep("define", p))
    /\ vector' = [vector EXCEPT ![p] = s]

\* A property is updated; the update may precede the definition.
ClientUpdateProperty(t, p, s) ==
    /\ Enter(t, "update", p, FirstStep("update", p))
    /\ vector' = [vector EXCEPT ![p] = s]

\* The bus deletes p, the group of p or the device of p.
ClientDeleteProperty(t, op, p) ==
    /\ vector[p] \notin Gone
    /\ Enter(t, op, p, FirstStep(op, p))
    /\ UNCHANGED vector

\* A message without a property, or about one.
ClientReceiveMessage(t, p) ==
    /\ TRUE \in Messages
    /\ vector[p] \notin Gone
    /\ Enter(t, "message", p, "message")
    /\ UNCHANGED vector

Running(t, step) ==
    /\ ~Idle(t)
    /\ t \notin blocked
    /\ call[t].step = step

\* Mutation: the permission of the vector is not looked at.
PermissionIgnored(op, s) ==
    IF op = "delete" THEN "remove"
    ELSE IF s \in {"ok", "write-only"} THEN "create"
    ELSE IF s = "busy" THEN "obsolete"
    ELSE "no"

\* The preview signal a callback emits for a BLOB vector.
PreviewKind(op, s) ==
    IF op = "delete" THEN "remove"
    ELSE IF s = "ok" THEN "create"
    ELSE IF s = "busy" THEN "obsolete"
    ELSE "no"

\* Emit a signal of the callback of t: post it, and sleep on it if blocking.
Post(t, kind, cell) ==
    /\ queue' = Append(queue, [kind |-> kind, thread |-> t,
                               prop |-> call[t].prop, cell |-> cell])
    /\ blocked' = IF kind \in Blocking THEN blocked \cup {t} ELSE blocked

EmitPreview(t) ==
    /\ Running(t, "preview")
    /\ Post(t, PreviewKind(call[t].op, vector[call[t].prop]), NoCell)
    /\ call' = [call EXCEPT ![t].step = "first"]
    /\ UNCHANGED <<vector, copyVars, guiVars>>

\* The long texts a copy may be made with; a deletion carries no items.
TextOf(op, p) ==
    IF p \in LongTexts /\ op \in {"define", "update"} THEN {"none", "own"}
    ELSE {"none"}

\* Deep-copy the property, its long text and the message, if there is one.
Allocate(c, s, withText, withMessage) ==
    /\ heap[c] = "free"
    /\ heap' = [heap EXCEPT ![c] = s]
    /\ text' = [text EXCEPT ![c] = withText]
    /\ message' = [message EXCEPT ![c] = IF withMessage THEN "live" ELSE "none"]

\* Mutation: the slots of PropertyModel are connected before the log.
SlotsFirst(op) == <<op, "log">>

\* The receivers of property_defined, _changed and _deleted: first
\* BrowserWindow::on_message_sent, then the slot of PropertyModel.
Receivers(op) == <<"log", op>>

\* Mutation: the thread loses the copy between the two receivers.
EmitFirstLosesCopy(t) ==
    /\ Running(t, "first")
    /\ \E c \in Cells, withMessage \in Messages,
          withText \in TextOf(call[t].op, call[t].prop) :
         /\ Allocate(c, vector[call[t].prop], withText, withMessage)
         /\ Post(t, Receivers(call[t].op)[1], c)
    /\ call' = [call EXCEPT ![t].step = "second"]
    /\ UNCHANGED <<vector, guiVars>>

EmitFirst(t) ==
    /\ Running(t, "first")
    /\ \E c \in Cells, withMessage \in Messages,
          withText \in TextOf(call[t].op, call[t].prop) :
         /\ Allocate(c, vector[call[t].prop], withText, withMessage)
         /\ Post(t, Receivers(call[t].op)[1], c)
         /\ call' = [call EXCEPT ![t].step = "second", ![t].cell = c]
    /\ UNCHANGED <<vector, guiVars>>

EmitSecond(t) ==
    /\ Running(t, "second")
    /\ Post(t, Receivers(call[t].op)[2], call[t].cell)
    /\ call' = [call EXCEPT ![t].step = "return", ![t].cell = NoCell]
    /\ UNCHANGED <<vector, copyVars, guiVars>>

EmitMessage(t) ==
    /\ Running(t, "message")
    /\ \E c \in Cells :
         /\ Allocate(c, vector[call[t].prop], "none", TRUE)
         /\ Post(t, "message", c)
    /\ call' = [call EXCEPT ![t].step = "return"]
    /\ UNCHANGED <<vector, guiVars>>

\* The callback returns; after a deletion the bus frees what it took away.
Return(t) ==
    /\ Running(t, "return")
    /\ call' = [call EXCEPT ![t] = Resting]
    /\ LET op == call[t].op IN
         vector' = [q \in Props |->
                      IF q \in Taken(op, call[t].prop) /\ vector[q] \notin Gone
                      THEN IF op = "delete" THEN "absent" ELSE "swept"
                      ELSE vector[q]]
    /\ UNCHANGED <<blocked, queue, copyVars, guiVars>>
-----------------------------------------------------------------------------
(* The GUI thread.                                                         *)

\* The GUI thread takes the next event, which is of this kind.
Take(kind) ==
    /\ queue # <<>>
    /\ Head(queue).kind = kind
    /\ queue' = Tail(queue)

\* The handler returns and wakes the thread that sleeps on it.
Wake(e) == blocked' = blocked \ {e.thread}

\* free(message); a null message is "none".
FreeMessage(m) ==
    CASE m = "live" -> "freed"
      [] m = "freed" -> "freed twice"
      [] OTHER -> m

\* indigo_release_property frees the long text its copy points to.
FreeText(x) ==
    CASE x = "own" -> "none"
      [] x = "freed" -> "freed twice"
      [] OTHER -> x

\* A slot that does not free the message forgets it when it returns.
ForgetMessage(m) == IF m = "freed" THEN "none" ELSE m

\* BrowserWindow::on_message_sent logs the property and frees the message.
OnMessageSent ==
    /\ Take("log")
    /\ message' = [message EXCEPT ![Head(queue).cell] = FreeMessage(@)]
    /\ UNCHANGED <<busVars, blocked, heap, text, guiVars>>

\* BrowserWindow::on_message_received logs the message and frees its copies.
OnMessageReceived ==
    /\ Take("message")
    /\ heap' = [heap EXCEPT ![Head(queue).cell] = "free"]
    /\ message' = [message EXCEPT ![Head(queue).cell] =
                     ForgetMessage(FreeMessage(@))]
    /\ UNCHANGED <<busVars, blocked, text, guiVars>>

\* blob_preview_cache::create drops the old preview, then decodes the image,
\* during which nested event loops run.
OnCreatePreview ==
    /\ Take("create")
    /\ nested' = Append(nested, Head(queue))
    /\ preview' = [preview EXCEPT ![Head(queue).prop] = "none"]
    /\ UNCHANGED <<busVars, blocked, rebuilds, copyVars, node>>

Last(s) == s[Len(s)]

\* The innermost event loop is that of the last creation for a bus thread, or
\* that of the last rebuild.
InCreation == nested # <<>> /\ (rebuilds # <<>> => Last(rebuilds).inside < Len(nested))
InRebuild == rebuilds # <<>> /\ Last(rebuilds).inside = Len(nested)

\* What the cache may hold after a creation for p, which stores the image unless
\* decoding failed.
Stored(p, image) ==
    {preview} \cup
    (IF TRUE \in Decodes THEN {[preview EXCEPT ![p] = image]} ELSE {})

\* The innermost creation ends, that of thread t.
FinishCreatePreview(t) ==
    /\ InCreation
    /\ Last(nested).thread = t
    /\ nested' = SubSeq(nested, 1, Len(nested) - 1)
    /\ preview' \in Stored(Last(nested).prop, "fresh")
    /\ Wake(Last(nested))
    /\ UNCHANGED <<busVars, queue, rebuilds, copyVars, node>>

\* PropertyModel::rebuild_blob_previews creates the previews of every BLOB
\* vector whose copy in the tree is in state OK, a write-only one included.
Rebuildable(p) ==
    p \in Blobs /\ node[p] # NoCell /\ heap[node[p]] \in {"ok", "write-only"}

\* The user sets another stretch level, perhaps inside a nested event loop, and
\* the walk over the tree comes to a first vector.
BeginRebuild(p) ==
    /\ Len(rebuilds) < MaxRebuilds
    /\ Rebuildable(p)
    /\ rebuilds' = Append(rebuilds, [prop |-> p, inside |-> Len(nested)])
    /\ preview' = [preview EXCEPT ![p] = "none"]
    /\ UNCHANGED <<busVars, blocked, queue, nested, copyVars, node>>

\* The walk stores the preview of the vector it is at, which the tree may have
\* lost meanwhile, and comes to p.  Its indices are those of the tree as it is
\* now, so the model lets it come to any vector of the tree.
ContinueRebuild(p) ==
    /\ InRebuild
    /\ Rebuildable(p)
    /\ rebuilds' = [rebuilds EXCEPT ![Len(rebuilds)].prop = p]
    /\ \E stored \in Stored(Last(rebuilds).prop, "rebuilt") :
         preview' = [stored EXCEPT ![p] = "none"]
    /\ UNCHANGED <<busVars, blocked, queue, nested, copyVars, node>>

EndRebuild ==
    /\ InRebuild
    /\ rebuilds' = SubSeq(rebuilds, 1, Len(rebuilds) - 1)
    /\ preview' \in Stored(Last(rebuilds).prop, "rebuilt")
    /\ UNCHANGED <<busVars, blocked, queue, nested, copyVars, node>>

\* blob_preview_cache::obsolete paints "Busy..." over the preview.
OnObsoletePreview ==
    /\ Take("obsolete")
    /\ preview' = [preview EXCEPT ![Head(queue).prop] =
                     IF @ = "none" THEN @ ELSE "obsolete"]
    /\ Wake(Head(queue))
    /\ UNCHANGED <<busVars, loopVars, copyVars, node>>

\* Mutation: the thread that waits for remove_preview is never woken.
RemovePreviewSleeps(kind) ==
    /\ Take(kind)
    /\ preview' = [preview EXCEPT ![Head(queue).prop] = "none"]
    /\ UNCHANGED <<busVars, blocked, loopVars, copyVars, node>>

\* blob_preview_cache::remove, for remove_preview (blocking) and no_preview.
RemovePreview(kind) ==
    /\ Take(kind)
    /\ preview' = [preview EXCEPT ![Head(queue).prop] = "none"]
    /\ blocked' = IF kind \in Blocking THEN blocked \ {Head(queue).thread}
                  ELSE blocked
    /\ UNCHANGED <<busVars, loopVars, copyVars, node>>

OnRemovePreview == RemovePreview("remove")
OnNoPreview == RemovePreview("no")

\* Mutation: the copy of a property that is defined again is not released.
DefinePropertyLeaks ==
    /\ Take("define")
    /\ LET e == Head(queue) IN
         /\ \/ /\ node[e.prop] = NoCell
               /\ node' = [node EXCEPT ![e.prop] = e.cell]
               /\ message' = [message EXCEPT ![e.cell] = ForgetMessage(@)]
            \/ /\ node[e.prop] # NoCell
               /\ message' = [message EXCEPT ![e.cell] = FreeMessage(@)]
               /\ UNCHANGED node
         /\ Wake(e)
    /\ UNCHANGED <<busVars, heap, text, loopVars, preview>>

\* indigo_release_property and free(message) on a copy nobody has taken over.
Discard(c) ==
    /\ heap' = [heap EXCEPT ![c] = "free"]
    /\ text' = [text EXCEPT ![c] = FreeText(@)]
    /\ message' = [message EXCEPT ![c] = FreeMessage(@)]

\* PropertyModel::define_property: a new node takes the copy over; a property
\* that is defined again keeps the copy it has.
DefineProperty ==
    /\ Take("define")
    /\ LET e == Head(queue) IN
         /\ \/ /\ node[e.prop] = NoCell
               /\ node' = [node EXCEPT ![e.prop] = e.cell]
               /\ message' = [message EXCEPT ![e.cell] = ForgetMessage(@)]
               /\ UNCHANGED <<heap, text>>
            \/ /\ node[e.prop] # NoCell
               /\ Discard(e.cell)
               /\ UNCHANGED node
         /\ Wake(e)
    /\ UNCHANGED <<busVars, loopVars, preview>>

\* PropertyModel::update_property: the items of the event's copy are copied over
\* those of the node's, pointers and all, and then it is released.  A long text
\* the node had of its own is lost, unfreed; one that came with the update is
\* freed with the event's copy, and the node goes on pointing to it.
UpdateProperty ==
    /\ Take("update")
    /\ LET e == Head(queue) IN
         /\ \/ node[e.prop] = NoCell /\ Discard(e.cell)
            \/ /\ node[e.prop] # NoCell
               /\ heap' = [heap EXCEPT ![node[e.prop]] = heap[e.cell],
                                       ![e.cell] = "free"]
               /\ text' = [text EXCEPT
                             ![node[e.prop]] =
                               IF text[e.cell] = "own" THEN "freed" ELSE "none",
                             ![e.cell] = FreeText(@)]
               /\ message' = [message EXCEPT ![e.cell] = ForgetMessage(@)]
         /\ Wake(e)
    /\ UNCHANGED <<busVars, guiVars>>

\* Mutation: the report is released, the node stays with its copy.
DeletePropertyKeepsNode ==
    /\ queue # <<>> /\ Head(queue).kind \in Deletions
    /\ queue' = Tail(queue)
    /\ LET e == Head(queue) IN
         /\ heap' = [heap EXCEPT ![e.cell] = "free"]
         /\ message' = [message EXCEPT ![e.cell] = ForgetMessage(@)]
    /\ UNCHANGED <<busVars, blocked, text, node, loopVars, preview>>

\* PropertyModel::delete_property of a property, a group or a device: releases
\* the copies of the nodes it takes away, and the event's.
DeleteProperty ==
    /\ \E kind \in Deletions : Take(kind)
    /\ LET e == Head(queue)
           taken == Taken(e.kind, e.prop)
           released == {node[q] : q \in taken}
       IN  /\ heap' = [c \in Cells |-> IF c \in released \cup {e.cell}
                                       THEN "free" ELSE heap[c]]
           /\ text' = [c \in Cells |-> IF c \in released THEN FreeText(text[c])
                                       ELSE text[c]]
           /\ node' = [q \in Props |-> IF q \in taken THEN NoCell ELSE node[q]]
           /\ message' = [message EXCEPT ![e.cell] = ForgetMessage(@)]
    /\ UNCHANGED <<busVars, blocked, loopVars, preview>>
-----------------------------------------------------------------------------
BusStep(t) ==
    \/ EmitPreview(t)
    \/ EmitFirst(t)
    \/ EmitSecond(t)
    \/ EmitMessage(t)
    \/ Return(t)

BusCall(t) ==
    \E p \in Props :
      \/ \E s \in States[p] : ClientDefineProperty(t, p, s)
      \/ \E s \in States[p] : ClientUpdateProperty(t, p, s)
      \/ \E op \in {"delete"} \cup Sweeps : ClientDeleteProperty(t, op, p)
      \/ ClientReceiveMessage(t, p)

Handle ==
    \/ OnMessageSent
    \/ OnMessageReceived
    \/ OnCreatePreview
    \/ OnObsoletePreview
    \/ OnRemovePreview
    \/ OnNoPreview
    \/ DefineProperty
    \/ UpdateProperty
    \/ DeleteProperty

RebuildPreviews ==
    \/ \E p \in Blobs : BeginRebuild(p) \/ ContinueRebuild(p)
    \/ EndRebuild

Next ==
    \/ \E t \in Servers : BusCall(t) \/ BusStep(t)
    \/ Handle
    \/ \E t \in Servers : FinishCreatePreview(t)
    \/ RebuildPreviews

Spec == Init /\ [][Next]_vars

\* The threads run and the GUI thread handles what is posted.  A creation ends
\* if it is the innermost one again and again: an image has finitely many rows,
\* and each spins the event loop once (imagepreview.cpp:501-502).  So does the
\* n-th rebuild, whose indices only grow; the user starts them as he likes.
Fairness ==
    /\ \A t \in Servers : WF_vars(BusStep(t))
    /\ WF_vars(Handle)
    /\ \A t \in Servers : SF_vars(FinishCreatePreview(t))
    /\ \A n \in 1 .. MaxRebuilds : SF_vars(Len(rebuilds) = n /\ EndRebuild)

FairSpec == Spec /\ Fairness
-----------------------------------------------------------------------------
(* Properties.                                                             *)

\* The thread of t holds the copy it has made and not posted yet.
HoldsCopy(t) == ~Idle(t) /\ call[t].step = "second"

\* Everything that is responsible for releasing the copy in cell c.
Holders(c) ==
    { <<"queue", i>> : i \in { j \in DOMAIN queue :
                               queue[j].kind \in Owning /\ queue[j].cell = c } }
    \cup { <<"call", t>> : t \in { u \in Servers :
                                   HoldsCopy(u) /\ call[u].cell = c } }
    \cup { <<"node", p>> : p \in { q \in Props : node[q] = c } }

\* Every copy of a property - the structure with its items - has exactly one
\* holder for as long as it is allocated, and none once it is released: the
\* slots of PropertyModel neither leak one, nor release one twice, nor keep one
\* they have released.  A long text is freed no later than its copy, and a copy
\* points to a freed one only in a node, where an update has put it: what the
\* bus posts and what define_property takes over is whole.  Nothing is claimed
\* of the long texts of a node that has been updated (see UpdateProperty).
CopyOwnership ==
    \A c \in Cells :
      /\ heap[c] = "free" <=> Holders(c) = {}
      /\ \A h, g \in Holders(c) : h = g
      /\ text[c] = "own" => heap[c] # "free"
      /\ text[c] = "freed" => \E p \in LongTexts : node[p] = c

\* When a message is logged the copy it is about is still allocated: the log
\* is connected before the slots that release the copy (browserwindow.cpp:267).
LogReadsLiveCopy ==
    \A i \in DOMAIN queue : queue[i].kind = "log" => heap[queue[i].cell] # "free"

\* The preview signals carry the bus's own vector.  It is still allocated when
\* the GUI thread reads it, no_preview included, which nobody waits for: the
\* blocking remove_preview of the deletion comes behind it in the queue.
RawVectorAlive ==
    /\ \A i \in DOMAIN queue :
         queue[i].kind \in PreviewKinds => vector[queue[i].prop] \notin Gone
    /\ \A i \in DOMAIN nested : vector[nested[i].prop] \notin Gone

\* Each of the creations for the bus that nest is for a different thread, which
\* sleeps until its own has ended, so there are never more of them than servers,
\* whatever the user rebuilds between them.  Of the rebuilds themselves, which
\* nobody waits for, nothing is claimed: the user may start one in another.
NestingBounded ==
    /\ Len(nested) <= Cardinality(Servers)
    /\ \A i, j \in DOMAIN nested :
         /\ nested[i].thread \in blocked
         /\ nested[i].thread = nested[j].thread => i = j

\* No preview signal of p is on its way.
PreviewSettled(p) ==
    /\ \A i \in DOMAIN queue :
         ~(queue[i].prop = p /\ queue[i].kind \in PreviewKinds)
    /\ \A i \in DOMAIN nested : nested[i].prop # p
    /\ \A t \in Servers :
         ~Idle(t) => ~(call[t].prop = p /\ call[t].step = "preview")

\* Once its signals are handled, the preview the bus had made of a vector agrees
\* with the state last reported: an image only in state OK, a "Busy..." image
\* only in state BUSY, and none for a vector that was deleted by itself or that
\* has no image to show.  Two kinds of preview are excepted: those of a vector
\* swept away with its group or device, which nothing removes, and those that a
\* rebuild made, of the copy the tree held then.
PreviewMatchesState ==
    \A p \in Props : PreviewSettled(p) /\ vector[p] # "swept" =>
      /\ preview[p] = "fresh" => vector[p] = "ok"
      /\ preview[p] = "obsolete" => vector[p] = "busy"

\* The comment of PropertyModel::update_property: a copy it cannot route, and
\* its message, have "no other receiver downstream" (propertymodel.cpp:228-232),
\* so that each message is freed once.
MessageFreedOnce == \A c \in Cells : message[c] # "freed twice"

\* A thread that sleeps in a signal is woken up: every callback of the bus
\* returns, whatever the other servers report and however previews nest.
ThreadsWake == \A t \in Servers : t \in blocked ~> t \notin blocked

\* The reports of server t that are posted and not yet applied, in the order of
\* their places in the queue.
ReportsOf(t) ==
    {i \in DOMAIN queue : queue[i].thread = t /\ queue[i].kind \in PropertyKinds}

ReportAt(i) ==
    [op |-> queue[i].kind, prop |-> queue[i].prop, state |-> heap[queue[i].cell]]

Nth(S, k) == CHOOSE i \in S : Cardinality({j \in S : j <= i}) = k

Posted(t) ==
    LET places == ReportsOf(t)
    IN  [k \in 1 .. Cardinality(places) |-> ReportAt(Nth(places, k))]

Mirror == INSTANCE PropertyMirror WITH
    States <- AllStates,
    pending <- [t \in Servers |-> Posted(t)],
    view <- [p \in Props |-> IF node[p] = NoCell THEN "absent" ELSE heap[node[p]]]

\* The tree applies what each server reports once and in the order it was
\* reported, although the servers share one queue and previews nest in it.
AppliesInOrder == Mirror!MirrorSpec

\* Moreover everything that is reported is applied in the end.
ImplementsMirror == Mirror!MirrorFairSpec
=============================================================================
