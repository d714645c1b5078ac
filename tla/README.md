# INDIGO Control Panel: TLA+ models and proofs

The repository holds two Qt programs for the INDIGO astronomy bus:

- `indigo_control_panel`, which connects to INDIGO servers, mirrors their
  properties in a tree and lets the user edit them and look at images;
- `indigo_server_manager`, a window that starts and stops one `indigo_server`.

This directory models their concurrent and stateful core in TLA+, checks the
models with TLC and proves their main safety properties with TLAPS.  All
definitions are translated from the C++ source; `PROJECT.json` maps each to
its lines.  Paths below are relative to `src/`.

## 1. Inventory

| Component | State | Operations | Modelled by |
|---|---|---|---|
| bus callbacks and pipeline (`indigo_control_panel_src/indigoclient.*`) | the deep copies, their long texts and messages in flight | `client_define_property`, `client_update_property`, `client_delete_property`, `client_receive_message` | `PropertyPipeline` |
| property tree (`propertymodel.*`) | sorted lists of device, group and property nodes; each property node owns one copy | `define_property`, `update_property`, `delete_property`, `enable_blobs`, `rebuild_blob_previews` | `OrderedList`, `PropertyWindow`, `PropertyPipeline` (partly) |
| browser window (`browserwindow.*`) | `current_path`, the forms on show, options | slots for the model's signals, selection, repaint | `PropertyWindow` (partly) |
| preview cache (`blobpreview.*`) | map from item to image | `create`, `obsolete`, `remove`, `get`; rebuilt by the tree on the user's wish | `PropertyPipeline` (partly) |
| forms and item widgets (`qindigoproperty.cpp`, `qindigotext.cpp`, ...) | edited values, dirty marks | update, apply, reset, set | `PropertyForm` (texts, numbers, switches); `PropertyWindow` (which forms exist) |
| service model and dialog (`qservicemodel.*`, `qindigoservice.*`, `qindigoservers.cpp`) | known servers, connections, what the dialog lists | discovery callbacks, timer, connect, disconnect, add, remove, save, load | `ServiceModel` |
| image decoding, stretching, debayering (`imagepreview.cpp`, `stretcher.cpp`) | none between calls | pure functions that spin nested event loops | `PreviewImage`; the nested loops in `PropertyPipeline` |
| FITS reader (`fits/fits.c`) | a parser's state | header and data conversion | `FitsReader`, `PreviewImage` (partly) |
| logger, options, utilities (`logger.h`, `main.cpp`, `conf.h`, `utils.cpp`) | a file of options | read, write, format | not modelled |
| server manager (`indigo_server_manager_src/IndigoManagerWindow.*`) | `serverRunning`, button, LED, widgets, a `QProcess` | start, stop, close, help, process notices | `ServerManager` |
| `libjpeg`, `external/indigo_sdk`, `qdarkstyle`, `resource`, `debian`, `windows`, `scripts` | third party, assets, packaging | | not modelled |

How they interact.  Every connected server has a reader thread that runs the
bus callbacks.  A callback emits Qt signals to the GUI thread; most of the
connections are `Qt::BlockingQueuedConnection`, so the thread sleeps until the
handler has returned; `property_deleted`, `no_preview` and `message_received`
are merely queued (`browserwindow.cpp:268-281`).  Each property signal has two
receivers, the log and the tree, which share one deep copy and one message.
The tree announces changes to the window by direct signals.  Creating a
preview spins nested event loops, so that handlers of other servers run before
it returns, and so do the user's clicks, one of which has all previews rebuilt.  Forms change properties on pool threads (`QtConcurrent::run`).
Service discovery runs on a thread of its own and calls into the service model
directly.

What is hard here: who frees what, and when, as copies pass between threads;
order when some signals wait and others do not; handlers nested in handlers;
raw pointers kept across events (the selection, forms, preview signals);
timeouts (server start and stop, connection); lists shared without a lock.
`PROJECT.json` lists each of these hazards at its line, with the property that
covers it or the reason that none does yet.

## 2. Plan

The modules, in the order in which they were written:

1. `PropertyPipeline` with its abstraction `PropertyMirror`: the heart of the
   program, and the place where memory errors and deadlocks would start.
2. `PropertyWindow`: tree, selection and forms on the GUI thread.
3. `ServerManager`: the second program.
4. `ServiceModel` with the service dialog: discovery thread, timer, manual
   services, reconnection, the file and restarts.
5. `PropertyForm`: dirty values, confirmation, requests on the pool, deletion.
6. `PreviewImage`: rows shared among threads, borders of the debayer.
7. `OrderedList`, which `PropertyWindow` extends, and `FitsReader`, which
   `PreviewImage` extends.

`MCPropertyPipeline`, `MCPropertyWindow` and `MCPropertyForm` give constants
their values; each `...Proofs` module extends the module it is about
(`PropertyPreviewProofs` builds on `PropertyPipelineProofs`, and
`PropertyWindowProofs` on `OrderedListProofs`).

Left of the plan: the upload and saving of BLOBs.  Every safety and action
property that a passing run checks is proved.

## 3. PropertyPipeline

*State.*  `vector` is what the bus itself holds; `call[t]` is the callback the
reader thread of server `t` is in and how far it has come; `blocked` are the
threads asleep in a blocking signal; `queue` is the event queue of the GUI
thread; `nested` the stack of preview creations for bus threads it is inside
of, and `rebuilds` the walks of `rebuild_blob_previews()` it is inside of, each
with the vector it has come to and how deep it was started; `heap`, `text` and
`message` the copies with their long texts and the messages that go with them;
`node` the copy each property node owns; `preview` the cache.

*Actions.*  `ClientDefineProperty`, `ClientUpdateProperty`,
`ClientDeleteProperty` (of a property, a group or a device) and
`ClientReceiveMessage` enter a callback; `EmitPreview`, `EmitFirst`,
`EmitSecond`, `EmitMessage` and `Return` are its steps, cut where the thread may
sleep.  On the GUI thread one action is one slot (`OnMessageSent`,
`DefineProperty`, `UpdateProperty`, ...), except that a preview creation has a
beginning and an end between which any other slot may run, and the user may act
(`imagepreview.cpp:502`, `stretcher.cpp:96`).  What the user can do there that
matters here is to set another stretch level (`browserwindow.cpp:658-685`):
`BeginRebuild`, `ContinueRebuild` and `EndRebuild` are the walk, which nobody
waits for and which may be inside a creation, around one or inside another walk.

*Abstraction.*  A property's data is its state; "write-only" is state OK with a
permission that forbids to show the image.  A copy is a cell, and of its items
only the buffer of a long text is seen: its own, one that has been freed, or one
freed twice.  What `indigo_release_property()` does with the contents of a BLOB
is inside the library and left out.  The several items of a vector are one.
A group or a device is deleted with all vectors in it in one step of the bus and
one of the tree; which list entries go is the subject of `PropertyWindow`.  The
walk of a rebuild is not followed by its indices, which are those of a tree that
changes under it: it may come to any BLOB vector of the tree that is in state OK
in any order.  `PropertyMirror` is the promise: per server, reports are applied
one at a time, in order, none lost or repeated.

| Run | Instance | Shows |
|---|---|---|
| `pipeline_servers` | two servers with a BLOB vector each, a rebuild at any time, fair | `TypeOK`; `NestingBounded`: creations for bus threads nest no deeper than there are servers, whatever is rebuilt between them; `ImplementsMirror`: the pipeline implements `PropertyMirror`, and everything is applied in the end; `ThreadsWake`: no reader thread sleeps for ever |
| `pipeline_states` | one server, a BLOB vector in states ok, busy, alert and write-only, a text vector with long texts, with and without messages, images that can be decoded or not, deletions of all three kinds, a rebuild at any time | `CopyOwnership`, `LogReadsLiveCopy`, `RawVectorAlive`, `PreviewMatchesState`, `AppliesInOrder` |
| `pipeline_message` | one server with messages | violated: a message is freed twice (finding) |

*Bounds.*  Three cells: a server can have one report in hand and any number of
deletions queued, so with two vectors the cells hold both nodes and a further
report; a thread that finds no free cell waits, which only cuts queues of
deletions short.  Two servers are enough for a preview to nest in another and
for events of two threads to mix in every order.  `MaxRebuilds` = 1: one walk
can already lie around, between and inside the creations of both threads; a
second one differs only in whose image is stored last.  In `pipeline_states` the
device has two groups with a vector each, so that a sweep of the group leaves
the other vector and a sweep of the device takes both.  Cells are symmetric
there; the fair run uses no symmetry and, to be finished in minutes (some
150 000 states; the other has 1.2 million), leaves out what its properties do
not look at: messages, the image that is stored, long texts, sweeps.

*Fairness.*  Threads that are awake go on (`WF`), and so does the GUI thread.
The innermost creation ends if it is innermost again and again (`SF`): an image
has finitely many rows and each spins the loop once, so no stream of events
can keep it for ever.  The same is assumed of the rebuild that is n-th on the
stack: its walk goes forward only, through lists that are finite.  The user
may start rebuilds for ever, and callbacks need not occur.

*What the properties except.*  They say what the code does, which is less than
one might wish; the model takes all of these steps, and no text of the
repository excludes them.

- An applied update copies the items with `memcpy` (`propertymodel.cpp:257`) and
  releases the copy they came from (line 276).  The node's former long text is
  never freed; its new one is freed at once, and the node keeps the pointer; when
  the node is deleted it is freed again (`text` is "freed twice").  `CopyOwnership`
  therefore claims of long texts only that those posted and those newly taken
  over are whole, and that only nodes of text vectors point to freed ones.
- `client_delete_property` emits `remove_preview` for the property it is told of
  (`indigoclient.cpp:162`).  When a whole group or device goes, the previews of
  its BLOB vectors stay: `PreviewMatchesState` excepts swept vectors.
- A rebuild makes an image of the copy the tree holds: of a vector the bus has
  deleted already, or of one that is write-only.  `PreviewMatchesState` speaks of
  the previews made for the bus's signals, and the model tells the two apart
  ("fresh", "rebuilt").  A creation that ends over a preview that was stored
  inside it replaces it in the hash without deleting the image.
- Rebuilds nest in each other as deep as the user clicks; `NestingBounded`
  counts only the creations that bus threads sleep on.
- After a nested loop the walk reads `property->count` of a property that may
  have been released (`propertymodel.cpp:686`): undefined, and not modelled.

*Finding.*  `on_message_sent` frees the message that
`PropertyModel::update_property` and the redefinition branch of
`define_property` free again, although the comment at `propertymodel.cpp:230`
claims that no other receiver exists.

### Proofs (`PropertyPipelineProofs`)

For all properties, states and cells and any finite set of servers (only
`PipelineAssumption` is assumed, which TLC evaluates in the runs):

- `TypeCorrect`: `Spec => []TypeOK`.  Inductive with the addition that a call
  is about a vector of its own thread (`TypeInv`).
- `CopiesOwned`: `Spec => []CopyOwnership`.  The property counts holders as a
  set, which is awkward to induct on; `OwnershipInv` says the same per cell as
  three facts: a holder's cell is allocated, an allocated cell has a holder,
  and two holders of a cell are the same (`HeldRight`).  `TextInv` says of the
  long texts where a pointer to a freed one can be (in a node) and which copies
  on their way may carry one at all (`Carrier`).  The lemmas on `Append`
  and `Tail` say which positions of the queue carry a cell before and after.
- `LogIsSafe`: `Spec => []LogReadsLiveCopy`.  The strengthening `LogFirst`
  says where the copy's holder is while its log event waits: in the thread
  that still has to post the second event, or in a queue position behind it.

### Proofs (`PropertyPreviewProofs`)

All four rest on `Sleeping`: a blocking signal is the last its thread has
posted, a thread inside a nested creation has nothing else in the queue, and
threads that sleep are past the preview step of their callback.

- `NestingIsBounded`: `Spec => []NestingBounded`.  Each creation for a bus thread
  is of a different sleeping thread, so the map from depth to thread is
  injective; rebuilds touch neither the stack nor the threads (`Rebuilt`).
- `RawVectorsAlive`: `Spec => []RawVectorAlive`.  `VectorsAlive` adds that while
  a vector is being told of or deleted its signals wait only as long as the
  thread sleeps (`Telling`), so that none is left when a deletion, of whatever
  kind, returns and the bus lets go of what it took.
- `PreviewsMatchState`: `Spec => []PreviewMatchesState`.  The property speaks of
  settled previews only, which no step preserves.  `PreviewsAgree` says of
  every moment that the last signal of a vector fits the state it reported
  last and, if there is none, the preview itself does; a swept vector fits
  everything, and a rebuild stores nothing that must fit (`RebuildAgrees`).

- `MirrorImplemented`: `Spec => AppliesInOrder`, that is
  `Spec => Mirror!MirrorSpec`, the refinement without fairness.  The pending
  reports of a server are its property events in the queue, in order
  (`Posted`); what is shown of a property is the state of the copy its node
  owns (`View`).  The step of a callback that posts a property event is
  `Issue`, the slot that takes it `Apply`, and everything else stutters.
  Three facts carry it: `OwnershipInv` (a slot that frees or overwrites a copy
  touches no other node and no other report), `Sleeping` (a thread that posts a
  report has at most deletions pending, since definitions and updates block) and
  the lemmas on `Nth`, which lists the places of a server's events: a new event
  adds a last place, and the event taken leaves the first one and moves the
  others forward.

Liveness (`ThreadsWake`, `ImplementsMirror`) stays with TLC: fairness and
ENABLED are out of the prover's reach.

## 4. PropertyWindow

*State.*  `root`, `groupsOf` and `propsOf` are the lists of the root, of each
device and of each group, every one an `OrderedList`: an array that doubles
when it is full, into which a node is inserted before the first label that
comes after its own, and from which it is taken by shifting the rest down.
`tree` maps the properties present to their contents; `path` is `current_path` with the node it
points to (null, live in the tree, or a dead wrapper that was taken out but is
never freed, `propertymodel.cpp:102`); `forms` are the forms on show, each with
the property it points to; `crashed` records that a form was built from null.

*Actions.*  The three slots of the model, deletion in its three forms
(property, group, device), each with the repaint that
`BrowserWindow::property_define_delete` makes in the same call; the selection
of any node; the options that repaint the selection.

*Details kept.*  A property that is defined again changes nothing.  Row
removals make the Qt view select another row, but `no_repaint_flag` makes the
handler ignore that.  Deleting a whole group never removes its device.  A
selected device shows its group "Main" when it has one, and the selection then
becomes that group.

| Run | Shows |
|---|---|
| `window_all` | with every kind of deletion: `FormsCurrent` (no form on a released property, none out of date), `SelectionShown`, `SelectionInTree`, `DeviceFollowsConnection`, `NoEmptyNodes`, `TreeInOrder` (no node lost, repeated or out of order as arrays grow and shift), `SingleDeletionsTidy`, `OtherDevicesKeepWindow` |
| `window_stale` | violated: a selected group that is emptied and filled again is not shown (finding) |

*Bounds.*  Two devices, the first with "Main" (three properties, two of the same
label) and another group, the second with a property of the same name: enough
for every branch of the name comparisons, for a group and a device to become
empty independently, and for an array to grow twice with insertions at its
front, middle and end.  `window_all` may stop: a form built from null ends the program.

*Known defects seen.*  Deleting a whole group or device that is selected can
build a form from a null pointer.  `SingleDeletionsTidy` shows that deletions
of single properties never do, nor prepare for it.

### Proofs (`OrderedListProofs`, `PropertyWindowProofs`)

For any properties, names, labels and contents (`WindowAssumption`, evaluated
by the runs):

- `EnsureKeepsOrder`, `WithoutKeepsOrder`: find-or-create and find-and-take keep
  a list within its array, without repetition and in order, and add or remove
  just that node.  `FirstInFits` finds the first index by the well-foundedness
  of `<` on the naturals, without induction.
- `TreeStaysInOrder`, `NoNodeIsEmpty`, `IconIsRight`: from `TreeInv`, which each
  kind of definition and deletion preserves level by level.
- `TypeCorrect`, `FormsStayCurrent`, `SelectionIsShown`, `SelectionStaysInTree`:
  from `WindowInv` on top of it.  A handler first changes the tree and then
  repaints, so `Good` is stated for any selection, forms and tree: between the
  two it need not hold, and `PropertyDefineDelete` restores it.
- `OthersKeepWindow`: `Spec => OtherDevicesKeepWindow`, an action property, case
  by case over what the bus reports.

- `SingleDeletionsAreTidy`: `Spec => SingleDeletionsTidy`.  A device loses its
  last group only with its last property, and then goes too (`NoDeviceEmptied`);
  and whatever the repaints after a single deletion do with a path that was
  harmless, it stays so (`RepaintHarmless`).

## 5. ServerManager

*State.*  What the window shows (`serverRunning`, `text`, `controls`, `help`,
`led`), what Qt knows of the process (`state`), the process (`os`, `asked`,
`killed`, and `late` when the window gave up waiting for its start), and
`frames`, the handlers that are under way: `startStopServer()` and
`closeEvent()` call `processEvents()`, in which other handlers run.

*Actions.*  `StartServer` ... `StartReturns`, `StopServer` ... `StopReturns`,
`CloseEvent` ... `CloseReturns`, `Destroy` ... `DestroyReturns`, cut where the
thread waits or processes events; `EventsProcessed`, `Finished`, `TimedOut`
are `stopServerGracefully()` for the three callers;
`HandleProcessStateChanged` is the handler wherever Qt may run it;
`ServerProcess` is the process itself (external).

| Run | Shows |
|---|---|
| `manager_all` | fair, handlers nested three deep, servers that start late or never, ignore SIGTERM or exit on their own: `TypeOK`, `FlagMatchesProcess`, `WindowMatchesFlag`, `RunningIsKnown`, `GreenMeansRunning`, `ServerStops`, `ClosingEnds` |
| `manager_result` | violated: `stopServerGracefully()` returns false for a server that has exited (finding) |

*Bounds.*  `MaxDepth` = 3 bounds handlers nested in handlers (a start in a stop in
a close); the handlers nest through the same three calls at every depth.  The
program ends when its window is closed, so deadlock is not checked.

*Fairness.*  Blocking waits end, by the event or by their timeout.
`processEvents()` returns, at each depth, whatever ran in it: it handles the
events there are (`SF` per depth).  A killed process dies.  The user need not
do anything; a question about closing that nobody answers may hold up a stop,
and `ServerStops` says so.

*Observations.*  A start that fails leaves the help button disabled.  A click
inside the stop's event processing can start a server that the outer stop then
terminates.  A click on "Start Server" before Qt has noticed the end of a
killed process starts nothing.  A server that starts after
`waitForStarted(1000)` runs while the button says "Start Server".

### Proofs (`ServerManagerProofs`)

For any `MaxDepth`, that is, for handlers nested as deep as one likes:
`ManagerTyped`, `FlagIsRight`, `RunningServerKnown`, `WindowIsRight` and
`LedIsRight` prove the five invariants of `manager_all`.  The properties are
not inductive alone, since a handler may go on after any other has run inside
it.  `ManagerInv` adds what a suspended handler can still rely on: `StackInv`
(only handlers that process events or are about to close lie below another,
and the destructor runs alone), `ProcessInv` (Qt still says "starting" only
inside a start or after one was given up; a stop that goes on with a positive
result has seen the process end), `WindowInv` and `LedInv`.

## 6. ServiceModel

*State.*  `services` is the model's list by name, each with its entry in the
library's table and what the timer reported last; `link` is the library's
connection thread of each service (external: none, trying, open with a handle,
up) and `stopping` the ones told to end; `dialog` is the list the user sees,
`queue` the browser's signals on their way to the GUI thread; `gui` and
`browser` say where the two threads are; `file` is the services file, `conf`
the option it starts with.

*Actions.*  The user's requests (`UserChecks`, `UserUnchecks`, `UserAdds`,
`UserRemoves`, `UserCloses`, `BonjourChanges`), each ending in a wait inside
`QIndigoService::connect()` or `disconnect()` and a second action for what
follows it; `OnTimer`; the delivery of a signal; `NetworkAdds` and
`NetworkRemoves` on the browser's thread with `addServicePreferLocalhost()` and
`removeServiceKeepLocalhost()`; the start of the program line by line of the
file; `Crash` and `Quit`.

*Abstraction.*  The code between two waits is one step, so the lists are never
changed by two threads at the same instant (they are not locked in the code).
A line the user types is its name, host and port.

| Run | Instance | Shows |
|---|---|---|
| `services_all` | one manual and one discovered name, fair, up to three acts of user, network and system | `TypeOK`, `ManualSaved`, `ItemsCurrent`, `ManualListed`, `NoLostConnection`, `AutoConnectByUser`, `ManualShown` |
| `services_shown` | one discovered name | violated: a service that stays connected can be shown as disconnected for good (finding) |

*Bounds.*  `MaxEvents` counts acts of the user, the network and the system;
timer ticks, the library and the ends of waits are free.  Three of them are
enough to add, change and restart, or to announce by one address, by the other
and remove, with the timer and the waits anywhere between.  Services of
different names meet only in the two threads' places and in the queue, so one
of each origin suffices.

*Fairness.*  The event loop comes to its timer and its signals; waits in
`connect()` and `disconnect()` are bounded by half a second and two seconds.
Nothing is assumed of the user, the network and the library.

*Finding.*  `onServiceAdded()` emits `serviceAdded` after its wait, when the
timer may already have reported the connection to a dialog that does not list
the service yet.  Nothing reports it again while the connection lasts.

*Observations.*  A name both typed and announced (`Shared`) is left out of
`ItemsCurrent` and, with all that the network announces, of `ManualListed` and
`NoLostConnection`: the user's request and the browser's thread can wait for the
same service at once, one disconnecting what the other connects.  A service on
a changed port is ignored as a duplicate.  A check mark set on a server that
cannot be reached stays.

### Proofs (`ServiceModelProofs`)

For any names, ports, handles and number of events (`ServiceAssumption`,
evaluated by the runs):

- `ServiceTyped`: `Spec => []TypeOK`, with `Where`: the service that the GUI
  thread adds, loads or disconnects is still in the list when its wait ends, the
  lines still to be read are in the file, and the browser's thread waits only
  for names that the network announces.
- `ManualIsSaved`, `ManualIsListed`, `NoConnectionLost`.  Each holds between two
  handlers only; `SavedInv`, `ListedInv` and `LinkInv` say for each place where
  the GUI thread can wait what holds already (a line still to be read, a
  service not yet in the dialog, a connection told to stop).  `NetworkFrame`
  says what the browser's thread leaves alone, so that it is one case in each.
- `ItemsAreCurrent`: `Spec => []ItemsCurrent`.  `ItemsInv` sees the address of
  a name in three places: the dialog, the `added` signals in the queue and the
  service list.  `Settled` says that between any two of them that differ a
  `removed` signal of that name stands, in the order in which they will meet
  (`ShownHere`, `ShownSent`, `SentHere`, `SentSent`); with an empty queue only
  agreement is left.  `Believed` says that what is listed or announced is
  known, except for the service being removed; `NetOnly` and `OwnOnly` that the
  two threads add different names.  The property speaks of names that are either
  typed or announced; for `Shared` ones it does not hold (see above).
- `OnlyUserStops`: `Spec => AutoConnectByUser`, over all steps.

`ManualShown`, a liveness property, is model-checked only.

## 7. PropertyForm

*State.*  The property as the tree owns it (`value`, and `target` of a number);
the editors (`text`, `dirty`, `focus`); `question`, the confirmation that is
open; `pending` and `orphans`, requests that wait for a pool thread, the latter
of forms already deleted; `broken` when a deleted form was used.

*Actions.*  `PropertyUpdate` is the model's update with `update()` of every
control; `Closes`, `Opens` and `Rebuilt` are the window's (see
`PropertyWindow`); `Focuses`, `Types`, `SetClicked`, `ResetClicked`,
`SwitchClicked` and the answers to a question are the user's; `Runs` is a
request on the pool.  A question spins an event loop, so everything but further
input can happen while it is open.  A click on a button may take the focus away
or not (keyboard shortcut), so both are tried.

*Abstraction.*  A number's text is `Format` of its target: any idempotent
function, since formatting loses digits.

| Run | Shows |
|---|---|
| `form_all` | text, number and switch properties, with and without a question: `TypeOK`, `SwitchesConsistent`, `CleanTextsCurrent`, `EditsSurvive` |
| `form_clean` | violated: Set changes a number the user has not edited (finding) |

*Bounds.*  Two items tell "this one" from "another" (the code treats each item
alone but for the rule of switches); three values give a text that differs from
both old and new and a digit to lose; one request is enough for a form to be
deleted while it waits.  A form used after it was deleted ends the run, so
deadlock is not checked.

*Finding.*  `QIndigoNumber::apply()` takes over every number, edited or not,
although the comment says "Apply all dirty controls".  An editor with the focus
misses updates, so Set can ask for an outdated target.

*Observations.*  A question can return into a form that was deleted meanwhile
and a request can read one, or contents that an update has put back
(`broken`).  Reset by keyboard leaves the text of the number with the focus.  A
group rebuilt because another property appears drops its edits.

### Proofs (`PropertyFormProofs`)

For any items, values, format and bound (`FormAssumption`, evaluated by the
runs):

- `FormTyped`: `Spec => []TypeOK`.  Inductive with `Bounded` (requests of all
  forms together) and `AskedOf` (only editors ask before they set).
- `SwitchesShown` and `TextsShown`: `Spec => []SwitchesConsistent` and
  `Spec => []CleanTextsCurrent`.  Both are inductive given the types; the
  lemmas `Followed`, `ResetShown` and `ApplyShown` say what an update, a Reset
  and a Set leave in the controls.
- `EditsAreKept`: `Spec => EditsSurvive`, an action property.  An update leaves
  alone every text that is held because it is dirty (`UpdateKeepsEdits`); the
  other steps that change texts are the ones the property names.

## 8. PreviewImage and FitsReader

*State.*  `cards` are the lines of a FITS header read so far, `header` what the
parser has made of them and `fits_size` the length of the file; `blob` is the
layout and size of the pixels; `raw` the preview's own
copy of the pixels (`m_raw_data`), `pixels` the vector that the stretch writes
and `image` the preview; `params` the samples behind the stretch parameters;
`ranks`, `next`, `wrote` and `collected` are the loop under way: its threads,
how far each has come, and how many the GUI thread has waited for.

*Actions.*  `CreateFitsPreview`, `ReadLine`, `TakeFits` and `RefuseFits` read a
FITS file line by line with the parser of `FitsReader`; `CreateRawPreview` takes
a RAW header.  `CopyRaw` and `StartDebayer` begin, `Work(rank)` is a row of a
thread, `Collect` the `join()` or `get()` of the next thread in order,
`Debayered` and `Stretched` go on when all are collected.  `Refuse` is a size
out of range or memory that cannot be had.

*Abstraction.*  A line of a header is its keyword and value; values of keywords
that do not bear on layout are any; among the lines that mean nothing where
they stand, one kind stands for all.  Files without `END` and sizes of 2^31 and
more are left out.  A value is the set of samples it is computed from, so that
order, planes, colours and borders are seen and arithmetic on values is not.
The buffers belong to one preview, so events handled meanwhile do not appear
(they do in `PropertyPipeline`).  A mosaic too small to be shared is debayered
by one rank.

| Run | Shows |
|---|---|
| `image_all` | `TypeOK`; `FitsAsWritten`: the reader goes on exactly while each line is what the standard has there, and a file that is taken is shown with the size, planes or mosaic of its header, its data inside the file from the first block after the header; `RowsShared`: threads never write the same row, and all rows are written when all threads are collected; `PreviewShowsBlob`: every pixel of a finished preview comes from the nearest samples of each colour |

*Bounds.*  Three columns and five rows have every border, corner and interior
case of `debayer()`; three threads on one to five rows include threads without
rows and a short last chunk.  `MinParallel` = 6 gives both ways to debayer.
Sides 0 and 6 are refused (`MaxSide` = 5).  Nine lines in blocks of four let
headers end before, at and after the end of a block, with optional lines in any
order; files one byte too short, exact and one too long are tried.

*Observations.*  A red pixel at the corners of the last column takes a sample
beyond the border for its blue (`imagepreview.cpp:86`, `:89`), and images with
one row or column read beyond the data; `Regular` excludes both.  A blue pixel
on the left border takes one of two red neighbours (`imagepreview.cpp:150`).  A
cube with fewer than three planes is shown as if it had three, from beyond its
data: `create_fits_preview()` looks at the number of axes only
(`imagepreview.cpp:376`, `:380`).

### Proofs (`PreviewImageProofs`)

For any sizes, line and block lengths, core counts and thresholds
(`FitsAssumption` and `ImageAssumption`, evaluated by the run):

- `FilesReadRight`: `Spec => []FitsAsWritten`.  In `FileInv`, `Reads` says what
  `header` is of `cards`: the state follows from their number and the axes, and
  what it has kept is what the last such line says.
- `RowsAlwaysShared`: `Spec => []RowsShared`.  The property speaks of sets of
  rows, which no step preserves alone; `RowsInv` says that a thread has written
  exactly the rows from its start to `next`, no further than its chunk.
  `ChunkHolds`, `Apart` and `RowHasThread` are the arithmetic: rounding up holds
  all rows, chunks lie apart, and each row is in one.
- `ImageTyped`: `Spec => []TypeOK`, where `ParamInv` keeps the samples of the
  statistics inside the raw data, in their own channel, for any size and step.

- `PreviewsShowTheirBlob`: `Spec => []PreviewShowsBlob`.  `PictureInv` says of
  each stage what the covered rows hold (`Covered`: written by some thread):
  `Made` in the debayered samples, `Finished` in the pixels; rows not covered
  may hold anything.  `RowsShared` then covers every row when the last thread is
  collected, so that a stage starts from complete data whatever the order of
  the threads.  That `Made` is right is arithmetic: `NearestSets` finds the
  nearest samples of each colour (beside, above and below, at the corners) from
  the phases of row and column, and `PixelNearest` compares them with what
  `debayer()` takes inside, at the borders and at the corners, for every size.

## 9. What is not covered

*Model-checked only.*  Liveness (`ThreadsWake`, `ServerStops`, `ClosingEnds`,
`ManualShown`) and `ImplementsMirror`, since fairness and ENABLED are out of the
prover's reach (the safety part of the mirror is proved);
the five runs that end in a violation.  Induction over data and RECURSIVE
operators are out of its reach too; the modules use neither.

*Not modelled.*

- The indices that `rebuild_blob_previews()` keeps across nested event loops, and
  its read of a property that was released there (section 3).
- `enable_blobs()` (`propertymodel.cpp:644`): it hands raw property pointers to
  pool threads; the effect is inside the external library.
- The upload, view and saving of BLOBs (`qindigoblob.cpp`): files and dialogs.
- Shutdown (`browserwindow.cpp:299-311`) beyond what `ServiceModel` needs: which
  locks are held is decided inside the external library.
- JPEG and the formats of Qt, histograms, the transfer function of the stretch,
  scaling and byte order of FITS values: arithmetic on values, or libraries.
- Logger, options on disk, number and name formatting, menus, item delegates,
  style: they keep no state that other parts depend on.
- Third-party code: most of the repository's lines of C are `src/libjpeg`, a
  vendored library, and of the INDIGO library only headers are present.  The
  map covers about a third of the two programs' own code (some 8 600 lines in
  `indigo_control_panel_src` and `indigo_server_manager_src`), but a small part
  of all C files counted together.
