---------------------------- MODULE ServiceModel ----------------------------
(* The services the control panel knows, their connections and the dialog  *)
(* that lists them (qservicemodel.cpp, qindigoservice.cpp,                 *)
(* qindigoservers.cpp).                                                    *)
(*                                                                         *)
(* Two threads call the model without a lock: the GUI thread and the       *)
(* thread of the service browser.  Either may wait in                      *)
(* QIndigoService::connect() for half a second or in disconnect() for two, *)
(* while the other runs; the section between two waits is one step here.   *)
(* What the browser's thread emits is queued for the GUI thread.  A        *)
(* connection is the work of a third thread, of the INDIGO library, which  *)
(* opens a handle, then sets the status, and tries again when it is lost.  *)
(* The program may crash or be closed, and starts again from its file.     *)
EXTENDS Naturals, SequencesExt

CONSTANTS
    Typed,       \* names of services the user may add
    Announced,   \* names of services the network may announce
    Ports,
    Absent,      \* no service of that name
    Handles,     \* the library's connection handles
    MaxEvents    \* bound: acts of the user, the network and the system

Names  == Typed \cup Announced
Shared == Typed \cap Announced
Hosts  == {"remote", "localhost"}

VARIABLES
    services,       \* m_services, by name
    m_auto_connect, \* connect to what is discovered?
    link,           \* the library's connection thread of each service
    stopping,       \* the services it was told to disconnect from
    dialog,         \* m_server_list
    queue,          \* signals on their way to the GUI thread
    gui,            \* where the GUI thread is
    browser,        \* where the service browser's thread is
    file,           \* the services file
    conf,           \* conf.auto_connect in the configuration file
    events          \* events so far

lib  == <<link, stopping>>
disk == <<file, conf>>
vars == <<services, m_auto_connect, lib, dialog, queue, gui, browser, disk, events>>

Service == [host : Hosts, port : Ports, auto : BOOLEAN, auto_connect : BOOLEAN,
            entry : BOOLEAN, prev_handle : Handles \cup {0},
            prev_connected : BOOLEAN]
Line    == [host : Hosts, port : Ports, auto : BOOLEAN, auto_connect : BOOLEAN]
Link    == [status : {"none", "trying"}, handle : {0}]
           \cup [status : {"open", "up"}, handle : Handles]
Item    == [name : Names, host : Hosts, port : Ports, checked : BOOLEAN]
Signal  == [kind : {"added"}, item : Item] \cup [kind : {"removed"}, name : Names]
Waiting == {"connect", "add", "disconnect", "remove"}
Gui     == [at : {"down", "started", "idle"}]
           \cup [at : Waiting, name : Names]
           \cup [at : {"loading"}, left : SUBSET Names]
           \cup [at : {"load"}, name : Names, left : SUBSET Names]
Browser == [at : {"idle"}] \cup [at : {"connect", "gone"}, name : Names]
           \cup [at : {"swap"}, name : Names, port : Ports]

ASSUME ServiceAssumption ==
    /\ Ports # {} /\ Handles # {} /\ 0 \notin Handles
    /\ Absent \notin Service /\ Absent \notin Line
    /\ MaxEvents \in Nat

NoLink == [status |-> "none", handle |-> 0]

NewService(host, port, connect, manual) ==
    [host |-> host, port |-> port, auto |-> ~manual, auto_connect |-> connect,
     entry |-> FALSE, prev_handle |-> 0, prev_connected |-> FALSE]

Known(n)     == services[n] # Absent
Connected(n) == Known(n) /\ services[n].entry /\ link[n].status = "up"

Nothing == [n \in Names |-> Absent]

Init ==
    /\ services = Nothing /\ m_auto_connect = TRUE
    /\ link = [n \in Names |-> NoLink] /\ stopping = {}
    /\ dialog = <<>> /\ queue = <<>>
    /\ gui = [at |-> "started"] /\ browser = [at |-> "idle"]
    /\ file = Nothing /\ conf \in BOOLEAN
    /\ events = 0

Event == events < MaxEvents /\ events' = events + 1

---------------------------------------------------------------------------
(* The library's connection thread. *)

Opens(n) ==
    /\ link[n].status = "trying" /\ n \notin stopping
    /\ \E h \in Handles :
         link' = [link EXCEPT ![n] = [status |-> "open", handle |-> h]]
    /\ UNCHANGED stopping

(* Mutant: the status is set before the handle. *)
ComesUpEarly(n) ==
    /\ link[n].status \in {"trying", "open"} /\ n \notin stopping
    /\ link' = [link EXCEPT ![n].status = "up"]
    /\ UNCHANGED stopping

ComesUp(n) ==
    /\ link[n].status = "open" /\ n \notin stopping
    /\ link' = [link EXCEPT ![n].status = "up"]
    /\ UNCHANGED stopping

Drops(n) ==
    /\ link[n].status \in {"open", "up"} /\ n \notin stopping
    /\ link' = [link EXCEPT ![n] = [status |-> "trying", handle |-> 0]]
    /\ UNCHANGED stopping

Ends(n) ==
    /\ n \in stopping
    /\ link' = [link EXCEPT ![n] = NoLink]
    /\ stopping' = stopping \ {n}

Library ==
    /\ \E n \in Names : Opens(n) \/ ComesUp(n) \/ Drops(n) \/ Ends(n)
    /\ UNCHANGED <<services, m_auto_connect, dialog, queue, gui, browser, disk, events>>

---------------------------------------------------------------------------
(* QIndigoService.  The library refuses a second thread for a service. *)

Connecting(s) == [s EXCEPT !.prev_handle = 0, !.entry = TRUE]

ConnectServer(n) ==
    /\ link' = IF link[n].status = "none"
               THEN [link EXCEPT ![n].status = "trying"] ELSE link
    /\ UNCHANGED stopping

DisconnectServer(n) ==
    /\ stopping' = IF link[n].status = "none" THEN stopping ELSE stopping \cup {n}
    /\ UNCHANGED link

Disconnected(s) == [s EXCEPT !.entry = FALSE]

---------------------------------------------------------------------------
(* The dialog. *)

ItemOf(n, s, checked) ==
    [name |-> n, host |-> s.host, port |-> s.port, checked |-> checked]

SameText(i, j) == i.name = j.name /\ i.host = j.host /\ i.port = j.port

OnAddService(list, item) ==
    IF \E i \in DOMAIN list : SameText(list[i], item) THEN list
    ELSE Append(list, item)

FirstOf(list, n) == SelectInSeq(list, LAMBDA i : i.name = n)

OnRemoveService(list, n) ==
    IF FirstOf(list, n) = 0 THEN list ELSE RemoveAt(list, FirstOf(list, n))

(* The list's signals are blocked: showing a state requests nothing. *)
OnConnectionChange(list, reported) ==
    [i \in DOMAIN list |->
       IF list[i].name \in reported /\ i = FirstOf(list, list[i].name)
       THEN [list[i] EXCEPT !.checked = Connected(list[i].name)] ELSE list[i]]

---------------------------------------------------------------------------
(* The services file. *)

LineOf(s) == [host |-> s.host, port |-> s.port, auto |-> s.auto,
              auto_connect |-> s.auto_connect]

Saved(all) == [n \in Names |-> IF all[n] = Absent THEN Absent ELSE LineOf(all[n])]

SaveManualServices == file' = Saved(services) /\ UNCHANGED conf

---------------------------------------------------------------------------
(* The GUI thread: requests of the dialog. *)

Idle == gui.at = "idle"

ConnectService(n) ==
    IF Known(n)
    THEN /\ services' = [services EXCEPT ![n] = Connecting([@ EXCEPT !.auto_connect = TRUE])]
         /\ ConnectServer(n)
         /\ gui' = [at |-> "connect", name |-> n]
    ELSE UNCHANGED <<services, lib, gui>>

DisconnectService(n) ==
    IF Known(n)
    THEN /\ services' = [services EXCEPT ![n].auto_connect = FALSE]
         /\ IF services[n].entry
            THEN DisconnectServer(n) /\ gui' = [at |-> "disconnect", name |-> n]
            ELSE UNCHANGED <<lib, gui>>
    ELSE UNCHANGED <<services, lib, gui>>

UserChecks(n) ==
    /\ Idle /\ Event
    /\ \E i \in DOMAIN dialog :
         /\ dialog[i].name = n /\ ~dialog[i].checked
         /\ dialog' = [dialog EXCEPT ![i].checked = TRUE]
    /\ ConnectService(n)
    /\ UNCHANGED <<m_auto_connect, queue, browser, disk>>

UserUnchecks(n) ==
    /\ Idle /\ Event
    /\ \E i \in DOMAIN dialog :
         /\ dialog[i].name = n /\ dialog[i].checked
         /\ dialog' = [dialog EXCEPT ![i].checked = FALSE]
    /\ DisconnectService(n)
    /\ UNCHANGED <<m_auto_connect, queue, browser, disk>>

(* The wait of connect() ends with the connection or after half a second. *)
GuiConnectReturns ==
    /\ gui.at = "connect"
    /\ gui' = [at |-> "idle"]
    /\ UNCHANGED <<services, m_auto_connect, lib, dialog, queue, browser, disk, events>>

(* That of disconnect() without the connection or after two seconds. *)
GuiDisconnectReturns ==
    /\ gui.at = "disconnect"
    /\ services' = [services EXCEPT ![gui.name] = Disconnected(@)]
    /\ gui' = [at |-> "idle"]
    /\ UNCHANGED <<m_auto_connect, lib, dialog, queue, browser, disk, events>>

UserAdds(n) ==
    /\ Idle /\ Event /\ ~Known(n)
    /\ \E host \in Hosts, port \in Ports :
         services' = [services EXCEPT ![n] = Connecting(NewService(host, port, TRUE, TRUE))]
    /\ ConnectServer(n)
    /\ gui' = [at |-> "add", name |-> n]
    /\ UNCHANGED <<m_auto_connect, dialog, queue, browser, disk>>

AddReturns ==
    /\ gui.at = "add"
    /\ dialog' = OnAddService(dialog, ItemOf(gui.name, services[gui.name], Connected(gui.name)))
    /\ SaveManualServices
    /\ gui' = [at |-> "idle"]
    /\ UNCHANGED <<services, m_auto_connect, lib, queue, browser, events>>

(* Mutant: the service is removed without being disconnected. *)
UserRemovesConnected(n) ==
    /\ Idle /\ Event
    /\ FirstOf(dialog, n) # 0
    /\ Known(n) /\ ~services[n].auto
    /\ services' = [services EXCEPT ![n] = Absent]
    /\ gui' = [at |-> "remove", name |-> n]
    /\ UNCHANGED <<m_auto_connect, lib, dialog, queue, browser, disk>>

(* Only a manual service is removed; it leaves the list before the wait. *)
UserRemoves(n) ==
    /\ Idle /\ Event
    /\ FirstOf(dialog, n) # 0
    /\ Known(n) /\ ~services[n].auto
    /\ services' = [services EXCEPT ![n] = Absent]
    /\ IF services[n].entry THEN DisconnectServer(n) ELSE UNCHANGED lib
    /\ gui' = [at |-> "remove", name |-> n]
    /\ UNCHANGED <<m_auto_connect, dialog, queue, browser, disk>>

(* Mutant: the removal is not saved. *)
RemoveReturnsUnsaved ==
    /\ gui.at = "remove"
    /\ dialog' = OnRemoveService(dialog, gui.name)
    /\ IF gui.name \in stopping THEN Ends(gui.name) ELSE UNCHANGED lib
    /\ gui' = [at |-> "idle"]
    /\ UNCHANGED <<services, m_auto_connect, queue, browser, disk, events>>

(* The service is deleted: what becomes of its connection is not seen. *)
RemoveReturns ==
    /\ gui.at = "remove"
    /\ dialog' = OnRemoveService(dialog, gui.name)
    /\ SaveManualServices
    /\ IF gui.name \in stopping THEN Ends(gui.name) ELSE UNCHANGED lib
    /\ gui' = [at |-> "idle"]
    /\ UNCHANGED <<services, m_auto_connect, queue, browser, events>>

UserCloses ==
    /\ Idle
    /\ SaveManualServices
    /\ UNCHANGED <<services, m_auto_connect, lib, dialog, queue, gui, browser, events>>

BonjourChanges ==
    /\ Idle /\ Event
    /\ conf' = ~conf /\ m_auto_connect' = ~conf
    /\ UNCHANGED <<services, lib, dialog, queue, gui, browser, file>>

---------------------------------------------------------------------------
(* The GUI thread: the timer and the browser's signals. *)

(* Mutant: only the handle is compared. *)
ReportedByHandle(n) ==
    /\ Known(n) /\ services[n].entry
    /\ link[n].handle # services[n].prev_handle

Reported(n) ==
    /\ Known(n) /\ services[n].entry
    /\ \/ link[n].handle # services[n].prev_handle
       \/ Connected(n) # services[n].prev_connected

(* Mutant: the dialog feeds a lost connection back as a request. *)
TickedFeedback(n) ==
    IF Reported(n)
    THEN [services[n] EXCEPT !.prev_handle = link[n].handle,
                             !.prev_connected = Connected(n),
                             !.auto_connect = @ /\ Connected(n)]
    ELSE services[n]

Ticked(n) ==
    IF Reported(n)
    THEN [services[n] EXCEPT !.prev_handle = link[n].handle,
                             !.prev_connected = Connected(n)]
    ELSE services[n]

OnTimer ==
    /\ Idle
    /\ services' = [n \in Names |-> Ticked(n)]
    /\ dialog' = OnConnectionChange(dialog, {n \in Names : Reported(n)})
    /\ UNCHANGED <<m_auto_connect, lib, queue, gui, browser, disk, events>>

Deliver ==
    /\ Idle /\ queue # <<>>
    /\ queue' = Tail(queue)
    /\ dialog' = LET signal == Head(queue) IN
                 IF signal.kind = "added" THEN OnAddService(dialog, signal.item)
                 ELSE OnRemoveService(dialog, signal.name)
    /\ UNCHANGED <<services, m_auto_connect, lib, gui, browser, disk, events>>

---------------------------------------------------------------------------
(* The browser's thread. *)

Running == gui.at # "down"

(* Signals are connected after the browser has been started. *)
Emit(q, signal) == IF gui.at = "started" THEN q ELSE Append(q, signal)

Removed(n) == [kind |-> "removed", name |-> n]
Added(n)   == [kind |-> "added", item |-> ItemOf(n, services[n], Connected(n))]

Rediscovered(s, host) ==
    IF host = "localhost" THEN [s EXCEPT !.host = host] ELSE s

(* onServiceAdded(): a known service must be the same, or be it on this    *)
(* computer.  q is the queue so far, all the services.                     *)
OnServiceAdded(n, host, port, all, q) ==
    LET fresh == NewService(host, port, m_auto_connect, FALSE)
        same  == /\ all[n].port = port
                 /\ host \in {all[n].host, "localhost"}
        stored == IF all[n] = Absent THEN fresh ELSE Rediscovered(all[n], host)
    IN IF all[n] # Absent /\ ~same
       THEN services' = all /\ queue' = q /\ browser' = [at |-> "idle"] /\ UNCHANGED lib
       ELSE /\ queue' = q
            /\ browser' = [at |-> "connect", name |-> n]
            /\ IF stored.auto_connect
               THEN services' = [all EXCEPT ![n] = Connecting(stored)] /\ ConnectServer(n)
               ELSE services' = [all EXCEPT ![n] = stored] /\ UNCHANGED lib

(* connect() has returned, or was not called: serviceAdded is emitted. *)
BrowserConnectReturns ==
    /\ browser.at = "connect"
    /\ queue' = IF Known(browser.name) THEN Emit(queue, Added(browser.name)) ELSE queue
    /\ browser' = [at |-> "idle"]
    /\ UNCHANGED <<services, m_auto_connect, lib, dialog, gui, disk, events>>

(* Mutant: the other address is not removed first. *)
NeverSwapped(n, host) == FALSE

(* addServicePreferLocalhost(): the service is first removed where it is   *)
(* known by another address than localhost.                                *)
Swapped(n, host) == host = "localhost" /\ Known(n) /\ services[n].host # "localhost"

NetworkAdds(n, host, port) ==
    /\ Running /\ browser.at = "idle" /\ Event
    /\ IF ~Swapped(n, host) THEN OnServiceAdded(n, host, port, services, queue)
       ELSE IF Connected(n)
       THEN /\ DisconnectServer(n)
            /\ browser' = [at |-> "swap", name |-> n, port |-> port]
            /\ UNCHANGED <<services, queue>>
       ELSE OnServiceAdded(n, host, port, services, Emit(queue, Removed(n)))
    /\ UNCHANGED <<m_auto_connect, dialog, gui, disk>>

(* removeServiceKeepLocalhost(): the record stays in the list. *)
NetworkRemoves(n, loopback) ==
    /\ Running /\ browser.at = "idle" /\ Event
    /\ Known(n) /\ (services[n].host = "localhost" => loopback)
    /\ IF Connected(n)
       THEN /\ DisconnectServer(n)
            /\ browser' = [at |-> "gone", name |-> n]
            /\ UNCHANGED queue
       ELSE queue' = Emit(queue, Removed(n)) /\ UNCHANGED <<lib, browser>>
    /\ UNCHANGED <<services, m_auto_connect, dialog, gui, disk>>

(* The record may have been deleted by the GUI thread during the wait. *)
AfterWait(n) == [services EXCEPT ![n] = IF @ = Absent THEN @ ELSE Disconnected(@)]

BrowserDisconnectReturns ==
    /\ LET n == browser.name
           q == Emit(queue, Removed(n))
       IN \/ /\ browser.at = "gone"
             /\ services' = AfterWait(n) /\ queue' = q
             /\ browser' = [at |-> "idle"] /\ UNCHANGED lib
          \/ /\ browser.at = "swap"
             /\ OnServiceAdded(n, "localhost", browser.port, AfterWait(n), q)
    /\ UNCHANGED <<m_auto_connect, dialog, gui, disk, events>>

Network ==
    \E n \in Announced :
       \/ \E host \in Hosts, port \in Ports : NetworkAdds(n, host, port)
       \/ \E loopback \in BOOLEAN : NetworkRemoves(n, loopback)

---------------------------------------------------------------------------
(* Starting and ending the program. *)

(* enable_auto_connect() and the connects, up to loadManualServices(). *)
Wire ==
    /\ gui.at = "started"
    /\ m_auto_connect' = conf
    /\ gui' = [at |-> "loading", left |-> {n \in Names : file[n] # Absent}]
    /\ UNCHANGED <<services, lib, dialog, queue, browser, disk, events>>

LoadLine(n) ==
    /\ gui.at = "loading" /\ n \in gui.left
    /\ LET line == file[n]
           new  == NewService(line.host, line.port, line.auto_connect, ~line.auto)
           left == gui.left \ {n}
       IN \/ /\ Known(n)
             /\ gui' = [gui EXCEPT !.left = left]
             /\ UNCHANGED <<services, lib>>
          \/ /\ ~Known(n) /\ line.auto
             /\ services' = [services EXCEPT ![n] = new]
             /\ gui' = [gui EXCEPT !.left = left]
             /\ UNCHANGED lib
          \/ /\ ~Known(n) /\ ~line.auto
             /\ gui' = [at |-> "load", name |-> n, left |-> left]
             /\ IF line.auto_connect
                THEN services' = [services EXCEPT ![n] = Connecting(new)] /\ ConnectServer(n)
                ELSE services' = [services EXCEPT ![n] = new] /\ UNCHANGED lib
    /\ UNCHANGED <<m_auto_connect, dialog, queue, browser, disk, events>>

(* Mutant: a loaded service is not announced to the dialog. *)
LoadReturnsUnlisted ==
    /\ gui.at = "load"
    /\ gui' = [at |-> "loading", left |-> gui.left]
    /\ UNCHANGED <<services, m_auto_connect, lib, dialog, queue, browser, disk, events>>

LoadReturns ==
    /\ gui.at = "load"
    /\ dialog' = OnAddService(dialog, ItemOf(gui.name, services[gui.name], Connected(gui.name)))
    /\ gui' = [at |-> "loading", left |-> gui.left]
    /\ UNCHANGED <<services, m_auto_connect, lib, queue, browser, disk, events>>

Loaded ==
    /\ gui.at = "loading" /\ gui.left = {}
    /\ gui' = [at |-> "idle"]
    /\ UNCHANGED <<services, m_auto_connect, lib, dialog, queue, browser, disk, events>>

Vanish ==
    /\ services' = Nothing /\ link' = [n \in Names |-> NoLink] /\ stopping' = {}
    /\ dialog' = <<>> /\ queue' = <<>>
    /\ gui' = [at |-> "down"] /\ browser' = [at |-> "idle"]
    /\ UNCHANGED m_auto_connect

Crash == Running /\ Event /\ Vanish /\ UNCHANGED disk

Quit == Idle /\ Event /\ Vanish /\ SaveManualServices

Start ==
    /\ gui.at = "down"
    /\ gui' = [at |-> "started"] /\ m_auto_connect' = TRUE
    /\ UNCHANGED <<services, lib, dialog, queue, browser, disk, events>>

---------------------------------------------------------------------------
GuiStep ==
    \/ GuiConnectReturns \/ GuiDisconnectReturns \/ AddReturns \/ RemoveReturns
    \/ OnTimer \/ Deliver \/ Wire \/ LoadReturns \/ Loaded
    \/ \E n \in Names : LoadLine(n)

User ==
    \/ \E n \in Names : UserChecks(n) \/ UserUnchecks(n) \/ UserRemoves(n)
    \/ \E n \in Typed : UserAdds(n)
    \/ UserCloses \/ BonjourChanges

Next ==
    \/ GuiStep \/ User \/ Network \/ Library
    \/ BrowserConnectReturns \/ BrowserDisconnectReturns
    \/ Crash \/ Quit \/ Start

Spec == Init /\ [][Next]_vars

(* The event loop gets round to its timer and its signals and every wait   *)
(* in connect() and disconnect() is bounded; the user, the network and the *)
(* connections owe nothing.                                                *)
FairSpec ==
    /\ Spec
    /\ WF_vars(GuiConnectReturns) /\ WF_vars(GuiDisconnectReturns)
    /\ WF_vars(AddReturns) /\ WF_vars(RemoveReturns)
    /\ WF_vars(OnTimer) /\ WF_vars(Deliver)
    /\ WF_vars(Wire) /\ WF_vars(LoadReturns) /\ WF_vars(Loaded)
    /\ WF_vars(\E n \in Names : LoadLine(n))
    /\ WF_vars(BrowserConnectReturns) /\ WF_vars(BrowserDisconnectReturns)

---------------------------------------------------------------------------
(* Properties. *)

(* Every variable keeps its type. *)
TypeOK ==
    /\ services \in [Names -> Service \cup {Absent}]
    /\ m_auto_connect \in BOOLEAN
    /\ link \in [Names -> Link] /\ stopping \subseteq Names
    /\ dialog \in Seq(Item) /\ queue \in Seq(Signal)
    /\ gui \in Gui /\ browser \in Browser
    /\ file \in [Names -> Line \cup {Absent}] /\ conf \in BOOLEAN
    /\ events \in 0..MaxEvents

(* Only the user stops a service from being connected again: no dropped    *)
(* connection, timer, announcement or answer clears auto_connect           *)
(* (QIndigoServers::onConnectionChange()).                                 *)
AutoConnectByUser ==
    [][\A n \in Names :
         /\ services[n] # Absent /\ services'[n] # Absent
         /\ services[n].auto_connect /\ ~services'[n].auto_connect
         => UserUnchecks(n)]_vars

(* A crash between two requests loses no manual service, and none the user *)
(* removed comes back (saveManualServices() after every change).  A name   *)
(* that the network announces too may be in the list before it is loaded.  *)
ManualSaved ==
    Idle => \A n \in Names :
              /\ Known(n) /\ ~services[n].auto
                 => file[n] # Absent /\ ~file[n].auto
              /\ n \notin Announced /\ file[n] # Absent => Known(n)

(* The dialog lists no service twice, and once the browser's signals have  *)
(* been delivered it shows it where the model has it, whatever order the   *)
(* remote and the local address are announced in                           *)
(* (addServicePreferLocalhost()).                                          *)
ItemsCurrent ==
    \A n \in Names \ Shared :
      LET items == {i \in DOMAIN dialog : dialog[i].name = n} IN
      /\ \A i, j \in items : i = j
      /\ Idle /\ queue = <<>> /\ browser.at = "idle"
         => \A i \in items : Known(n) /\ dialog[i].host = services[n].host

(* Every manual service can be operated from the dialog, so that it can be *)
(* removed (addService(), loadManualServices()).                           *)
ManualListed ==
    Idle => \A n \in Names \ Announced : Known(n) => FirstOf(dialog, n) # 0

(* A connection that runs belongs to a service of the list, which can end  *)
(* it (removeService(), disconnect()).  A service of the network may be    *)
(* connected by the user while the browser's thread disconnects it.        *)
NoLostConnection ==
    Idle => \A n \in Names \ Announced :
              link[n].status # "none" /\ n \notin stopping
              => Known(n) /\ services[n].entry

ShownDisconnected(n) ==
    /\ Connected(n) /\ FirstOf(dialog, n) # 0
    /\ ~dialog[FirstOf(dialog, n)].checked

(* A manual service that stays connected is not shown as disconnected for  *)
(* good (onTimer()).                                                       *)
ManualShown == \A n \in Names \ Announced : []<>~ShownDisconnected(n)

(* The same of every service: the comment of onTimer() has it that a tick  *)
(* at the wrong moment does not report "disconnected" for good.            *)
ConnectedShown == \A n \in Names : []<>~ShownDisconnected(n)

=============================================================================
