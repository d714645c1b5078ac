------------------------- MODULE ServiceModelProofs -------------------------
(* Proofs about the service model: types, and what the program promises of *)
(* the services that only the user adds.  The network's thread never       *)
(* touches those, so that each promise is about the GUI thread, its waits, *)
(* the library's connections and the file.  The last part is about both:   *)
(* the dialog shows a service where the model has it.                      *)
EXTENDS ServiceModel, WellFoundedInduction, TLAPS

---------------------------------------------------------------------------
(* Lists.                                                                  *)

(* A set of positions has a least one.                                     *)
LEMMA LeastExists ==
  ASSUME NEW S, S \subseteq Nat, S # {}
  PROVE  Min(S) \in S
<1>1. PICK i \in S : \A j \in S : ~ (<<j, i>> \in OpToRel(<, Nat))
  BY NatLessThanWellFounded, WFMin
<1>2. ASSUME NEW j \in S, j < i PROVE <<j, i>> \in OpToRel(<, Nat)
  BY <1>2 DEF OpToRel
<1>3. ASSUME NEW j \in S PROVE i <= j
  <2>1. ~(j < i)
    BY <1>1, <1>2
  <2>2. QED
    BY <2>1
<1>4. QED
  BY <1>3 DEF Min

(* FirstOf() is 0 or a place where the name is.                            *)
LEMMA FirstFound ==
  ASSUME NEW list \in Seq(Item), NEW n
  PROVE  /\ FirstOf(list, n) = 0 <=> \A i \in DOMAIN list : list[i].name # n
         /\ FirstOf(list, n) # 0 => FirstOf(list, n) \in DOMAIN list
                                    /\ list[FirstOf(list, n)].name = n
<1> DEFINE places == {i \in 1..Len(list) : list[i].name = n}
<1>1. FirstOf(list, n) = IF places # {} THEN Min(places) ELSE 0
  BY DEF FirstOf, SelectInSeq
<1>2. places # {} => Min(places) \in places
  BY LeastExists
<1>3. DOMAIN list = 1..Len(list)
  OBVIOUS
<1>4. 0 \notin places
  OBVIOUS
<1>5. QED
  BY <1>1, <1>2, <1>3, <1>4

(* Taking one item out loses no other.                                     *)
LEMMA RemovedOne ==
  ASSUME NEW list \in Seq(Item), NEW k \in DOMAIN list
  PROVE  /\ RemoveAt(list, k) \in Seq(Item)
         /\ \A i \in DOMAIN list : i # k =>
              \E j \in DOMAIN RemoveAt(list, k) : RemoveAt(list, k)[j] = list[i]
<1> DEFINE a == SubSeq(list, 1, k - 1)
           b == SubSeq(list, k + 1, Len(list))
<1>1. k \in 1..Len(list) /\ Len(list) \in Nat
  OBVIOUS
<1>2. /\ a \in Seq(Item) /\ Len(a) = k - 1
      /\ \A i \in 1..(k - 1) : a[i] = list[i]
  BY <1>1
<1>3. /\ b \in Seq(Item) /\ Len(b) = Len(list) - k
      /\ \A i \in 1..(Len(list) - k) : b[i] = list[i + k]
  BY <1>1
<1>4. RemoveAt(list, k) = a \o b
  BY DEF RemoveAt
<1> HIDE DEF a, b
<1>5. a \o b \in Seq(Item) /\ Len(a \o b) = Len(list) - 1
  BY <1>1, <1>2, <1>3
<1>6. \A i \in 1..(k - 1) : (a \o b)[i] = list[i]
  BY <1>1, <1>2, <1>3
<1>7. \A i \in (k + 1)..Len(list) : (a \o b)[i - 1] = list[i]
  BY SMTT(60), <1>1, <1>2, <1>3
<1>8. ASSUME NEW i \in DOMAIN list, i # k
      PROVE  \E j \in DOMAIN (a \o b) : (a \o b)[j] = list[i]
  <2>1. CASE i < k
    <3>1. i \in 1..(k - 1) /\ i \in DOMAIN (a \o b)
      BY <1>1, <1>5, <2>1
    <3>2. QED
      BY <1>6, <3>1
  <2>2. CASE i > k
    <3>1. i - 1 \in DOMAIN (a \o b)
      BY <1>1, <1>5, <2>2
    <3>2. QED
      BY <1>1, <1>7, <2>2, <3>1
  <2>3. QED
    BY <1>1, <1>8, <2>1, <2>2
<1>9. QED
  BY <1>4, <1>5, <1>8

---------------------------------------------------------------------------
(* The operators keep their types.                                         *)

LEMMA RecordTypes ==
  ASSUME NEW s \in Service, NEW n \in Names, NEW b \in BOOLEAN
  PROVE  /\ Connecting(s) \in Service /\ Disconnected(s) \in Service
         /\ LineOf(s) \in Line /\ ItemOf(n, s, b) \in Item
         /\ [s EXCEPT !.auto_connect = b] \in Service
         /\ \A host \in Hosts : Rediscovered(s, host) \in Service
BY DEF Service, Line, Item, Connecting, Disconnected, LineOf, ItemOf, Rediscovered

LEMMA NewTypes ==
  ASSUME NEW host \in Hosts, NEW port \in Ports, NEW c \in BOOLEAN, NEW m \in BOOLEAN
  PROVE  NewService(host, port, c, m) \in Service
BY DEF NewService, Service

LEMMA DialogTypes ==
  ASSUME NEW list \in Seq(Item), NEW item \in Item, NEW n
  PROVE  /\ OnAddService(list, item) \in Seq(Item)
         /\ OnRemoveService(list, n) \in Seq(Item)
<1>1. OnAddService(list, item) \in Seq(Item)
  BY DEF OnAddService
<1>2. OnRemoveService(list, n) \in Seq(Item)
  BY FirstFound, RemovedOne DEF OnRemoveService
<1>3. QED
  BY <1>1, <1>2

LEMMA ShownTypes ==
  ASSUME NEW list \in Seq(Item), NEW reported
  PROVE  OnConnectionChange(list, reported) \in Seq(Item)
<1>1. ASSUME NEW item \in Item, NEW b \in BOOLEAN
      PROVE  [item EXCEPT !.checked = b] \in Item
  BY DEF Item
<1>2. \A n : Connected(n) \in BOOLEAN
  BY DEF Connected
<1>3. \A i \in 1..Len(list) : OnConnectionChange(list, reported)[i] \in Item
  BY SMTT(60), <1>1, <1>2 DEF OnConnectionChange
<1>4. DOMAIN OnConnectionChange(list, reported) = 1..Len(list)
  BY DEF OnConnectionChange
<1>5. OnConnectionChange(list, reported)
        = [i \in 1..Len(list) |-> OnConnectionChange(list, reported)[i]]
  BY <1>4 DEF OnConnectionChange
<1>6. QED
  BY <1>3, <1>5

LEMMA SavedTypes ==
  ASSUME services \in [Names -> Service \cup {Absent}]
  PROVE  Saved(services) \in [Names -> Line \cup {Absent}]
<1>1. \A s \in Service : LineOf(s) \in Line
  BY DEF Service, Line, LineOf
<1>2. QED
  BY <1>1 DEF Saved

LinksOK == link \in [Names -> Link] /\ stopping \subseteq Names

LEMMA LinkTypes ==
  ASSUME LinksOK, NEW n \in Names,
         ConnectServer(n) \/ DisconnectServer(n) \/ Opens(n) \/ ComesUp(n)
         \/ Drops(n) \/ Ends(n) \/ UNCHANGED lib
  PROVE  LinksOK'
<1> USE DEF LinksOK
<1>1. link[n] \in Link
  OBVIOUS
<1>2. CASE ConnectServer(n)
  <2>1. link[n].status = "none" => [link[n] EXCEPT !.status = "trying"] \in Link
    BY <1>1 DEF Link
  <2>2. QED
    BY <1>2, <2>1 DEF ConnectServer
<1>3. CASE DisconnectServer(n)
  BY <1>3 DEF DisconnectServer
<1>4. CASE Opens(n)
  BY <1>4 DEF Opens, Link
<1>5. CASE ComesUp(n)
  <2>1. link[n].status = "open" => [link[n] EXCEPT !.status = "up"] \in Link
    BY <1>1 DEF Link
  <2>2. QED
    BY <1>5, <2>1 DEF ComesUp
<1>6. CASE Drops(n)
  BY <1>6 DEF Drops, Link
<1>7. CASE Ends(n)
  BY <1>7 DEF Ends, NoLink, Link
<1>8. CASE UNCHANGED lib
  BY <1>8 DEF lib
<1>9. QED
  BY <1>2, <1>3, <1>4, <1>5, <1>6, <1>7, <1>8

(* What the threads' places say about names.                               *)
LEMMA Places ==
  /\ \A g \in Gui : /\ g.at \in Waiting => g.name \in Names
                    /\ g.at = "loading" => g.left \in SUBSET Names
                                           /\ g = [at |-> "loading", left |-> g.left]
                    /\ g.at = "load" => g.name \in Names /\ g.left \in SUBSET Names
  /\ \A b \in Browser : /\ b.at # "idle" => b.name \in Names
                        /\ b.at = "swap" => b.port \in Ports
BY DEF Gui, Browser, Waiting

---------------------------------------------------------------------------
(* Where the threads are: what they wait for is still there.               *)
Where ==
    /\ gui.at \in {"add", "load", "disconnect"} => Known(gui.name)
    /\ gui.at \in {"loading", "load"} => \A n \in gui.left : file[n] # Absent
    /\ browser.at # "idle" => browser.name \in Announced

ServicesOK == services \in [Names -> Service \cup {Absent}]
FileOK     == file \in [Names -> Line \cup {Absent}]

(* A change of one service, seen from all.                                 *)
LEMMA OneService ==
  ASSUME NEW all \in [Names -> Service \cup {Absent}], NEW n \in Names,
         NEW s \in Service \cup {Absent}, services' = [all EXCEPT ![n] = s]
  PROVE  ServicesOK' /\ services'[n] = s /\ \A k \in Names : k # n => services'[k] = all[k]
BY DEF ServicesOK

LEMMA ConnectTypes ==
  ASSUME TypeOK, NEW n \in Names, ConnectService(n) \/ DisconnectService(n)
  PROVE  /\ ServicesOK' /\ LinksOK' /\ gui' \in Gui
         /\ \A k \in Names : services'[k] = Absent <=> services[k] = Absent
         /\ UNCHANGED gui \/ (gui'.at \in {"connect", "disconnect"} /\ gui'.name = n /\ Known(n))
<1>1. services \in [Names -> Service \cup {Absent}] /\ LinksOK /\ gui \in Gui
  BY DEF TypeOK, LinksOK
<1>2. CASE ~Known(n)
  <2>1. UNCHANGED <<services, lib, gui>>
    BY <1>2 DEF ConnectService, DisconnectService
  <2>2. QED
    BY <1>1, <2>1 DEF ServicesOK, LinksOK, lib
<1>3. CASE Known(n) /\ ConnectService(n)
  <2>1. services[n] \in Service
    BY <1>1, <1>3 DEF Known
  <2>2. [services[n] EXCEPT !.auto_connect = TRUE] \in Service
    BY <2>1, RecordTypes
  <2>3. Connecting([services[n] EXCEPT !.auto_connect = TRUE]) \in Service
    BY <2>2, RecordTypes
  <2>4. services' = [services EXCEPT ![n] = Connecting([services[n] EXCEPT !.auto_connect = TRUE])]
        /\ ConnectServer(n) /\ gui' = [at |-> "connect", name |-> n]
    BY <1>3 DEF ConnectService
  <2>5. ServicesOK' /\ services'[n] \in Service /\ \A k \in Names : k # n => services'[k] = services[k]
    BY <1>1, <2>3, <2>4, OneService
  <2>6. gui' \in Gui /\ gui'.at = "connect" /\ gui'.name = n
    BY <2>4 DEF Gui, Waiting
  <2>7. LinksOK'
    BY <1>1, <2>4, LinkTypes
  <2>8. QED
    BY <1>3, <2>1, <2>5, <2>6, <2>7, ServiceAssumption
<1>4. CASE Known(n) /\ DisconnectService(n)
  <2>1. services[n] \in Service
    BY <1>1, <1>4 DEF Known
  <2>2. [services[n] EXCEPT !.auto_connect = FALSE] \in Service
    BY <2>1, RecordTypes
  <2>3. services' = [services EXCEPT ![n] = [services[n] EXCEPT !.auto_connect = FALSE]]
        /\ \/ DisconnectServer(n) /\ gui' = [at |-> "disconnect", name |-> n]
           \/ UNCHANGED <<lib, gui>>
    BY <1>4 DEF DisconnectService
  <2>4. ServicesOK' /\ services'[n] \in Service /\ \A k \in Names : k # n => services'[k] = services[k]
    BY <1>1, <2>2, <2>3, OneService
  <2>5. CASE DisconnectServer(n) /\ gui' = [at |-> "disconnect", name |-> n]
    <3>1. gui' \in Gui /\ gui'.at = "disconnect" /\ gui'.name = n
      BY <2>5 DEF Gui, Waiting
    <3>2. LinksOK'
      BY <1>1, <2>5, LinkTypes
    <3>3. QED
      BY <1>4, <2>1, <2>4, <3>1, <3>2, ServiceAssumption
  <2>6. CASE UNCHANGED <<lib, gui>>
    BY <1>1, <2>1, <2>4, <2>6, LinkTypes, ServiceAssumption
  <2>7. QED
    BY <2>3, <2>5, <2>6
<1>5. QED
  BY <1>2, <1>3, <1>4

LEMMA FoundTypes ==
  ASSUME TypeOK, NEW n \in Announced, NEW host \in Hosts, NEW port \in Ports,
         NEW all \in [Names -> Service \cup {Absent}], NEW q \in Seq(Signal),
         OnServiceAdded(n, host, port, all, q)
  PROVE  /\ ServicesOK' /\ LinksOK' /\ queue' = q
         /\ browser' \in Browser /\ (browser'.at # "idle" => browser'.name = n)
         /\ \A k \in Names : all[k] # Absent => services'[k] # Absent
         /\ \A k \in Names : k # n => services'[k] = all[k]
         /\ services'[n] # Absent => services'[n].auto = (all[n] = Absent \/ all[n].auto)
         /\ all[n] # Absent /\ all[n].auto_connect => services'[n].auto_connect
         /\ UNCHANGED lib \/ ConnectServer(n)
<1> DEFINE fresh == NewService(host, port, m_auto_connect, FALSE)
           same  == all[n].port = port /\ host \in {all[n].host, "localhost"}
           stored == IF all[n] = Absent THEN fresh ELSE Rediscovered(all[n], host)
<1>1. n \in Names /\ LinksOK /\ m_auto_connect \in BOOLEAN
  BY DEF TypeOK, LinksOK, Names
<1>2. stored \in Service
  BY <1>1, NewTypes, RecordTypes
<1>3. /\ Connecting(stored) \in Service
      /\ Connecting(stored).auto = stored.auto
      /\ Connecting(stored).auto_connect = stored.auto_connect
  BY ZenonT(60), <1>2, RecordTypes DEF Connecting, Service
<1>4. stored.auto = (all[n] = Absent \/ all[n].auto)
  <2>1. fresh.auto = TRUE
    BY DEF NewService
  <2>2. all[n] # Absent => Rediscovered(all[n], host).auto = all[n].auto
    BY <1>1 DEF Rediscovered, Service
  <2>3. all[n] # Absent => all[n].auto \in BOOLEAN
    BY <1>1 DEF Service
  <2>4. QED
    BY <2>1, <2>2, <2>3
<1>5. all[n] # Absent => stored.auto_connect = all[n].auto_connect
  BY <1>1 DEF Rediscovered, Service
<1>6. CASE all[n] # Absent /\ ~same
  <2>1. services' = all /\ queue' = q /\ browser' = [at |-> "idle"] /\ UNCHANGED lib
    BY <1>6 DEF OnServiceAdded
  <2>2. browser' \in Browser /\ browser'.at = "idle"
    BY <2>1 DEF Browser
  <2>3. services'[n].auto = (all[n] = Absent \/ all[n].auto)
    BY <1>1, <1>6, <2>1 DEF Service
  <2>4. LinksOK'
    BY <1>1, <2>1, LinkTypes
  <2>5. QED
    BY <2>1, <2>2, <2>3, <2>4 DEF ServicesOK
<1>7. CASE ~(all[n] # Absent /\ ~same)
  <2>1. /\ queue' = q /\ browser' = [at |-> "connect", name |-> n]
        /\ \/ services' = [all EXCEPT ![n] = Connecting(stored)] /\ ConnectServer(n)
           \/ services' = [all EXCEPT ![n] = stored] /\ UNCHANGED lib
    BY <1>7 DEF OnServiceAdded
  <2>2. browser' \in Browser /\ browser'.name = n
    BY <1>1, <2>1 DEF Browser
  <2>3. LinksOK'
    BY <1>1, <2>1, LinkTypes
  <2> HIDE DEF stored
  <2>4. ServicesOK' /\ services'[n] \in Service
        /\ services'[n].auto = stored.auto /\ services'[n].auto_connect = stored.auto_connect
        /\ \A k \in Names : k # n => services'[k] = all[k]
    <3>1. CASE services' = [all EXCEPT ![n] = Connecting(stored)]
      BY <1>1, <1>3, <3>1, OneService
    <3>2. CASE services' = [all EXCEPT ![n] = stored]
      BY <1>1, <1>2, <3>2, OneService
    <3>3. QED
      BY <2>1, <3>1, <3>2
  <2>5. QED
    BY <1>4, <1>5, <2>1, <2>2, <2>3, <2>4, ServiceAssumption
<1>8. QED
  BY <1>6, <1>7

---------------------------------------------------------------------------
(* Every step keeps the types and the places.                              *)

TypesPlaces == TypeOK /\ Where

LEMMA ChangedItem ==
  ASSUME NEW list \in Seq(Item), NEW i \in DOMAIN list, NEW b \in BOOLEAN
  PROVE  [list EXCEPT ![i].checked = b] \in Seq(Item)
<1>1. list[i] \in Item
  OBVIOUS
<1>2. [list[i] EXCEPT !.checked = b] \in Item
  BY <1>1 DEF Item
<1>3. [list EXCEPT ![i] = [list[i] EXCEPT !.checked = b]] \in Seq(Item)
  BY <1>2
<1>4. QED
  BY <1>3

LEMMA Sent ==
  ASSUME TypeOK, NEW n \in Names
  PROVE  /\ Emit(queue, Removed(n)) \in Seq(Signal)
         /\ Known(n) => Emit(queue, Added(n)) \in Seq(Signal)
<1>1. queue \in Seq(Signal) /\ ServicesOK
  BY DEF TypeOK, ServicesOK
<1>2. Removed(n) \in Signal
  BY DEF Removed, Signal
<1>3. Connected(n) \in BOOLEAN
  BY DEF Connected
<1>4. ASSUME Known(n) PROVE Added(n) \in Signal
  <2>1. services[n] \in Service
    BY <1>1, <1>4 DEF Known, ServicesOK
  <2>2. ItemOf(n, services[n], Connected(n)) \in Item
    BY <1>3, <2>1, RecordTypes
  <2>3. QED
    BY <2>2 DEF Added, Signal
<1>5. QED
  BY <1>1, <1>2, <1>4 DEF Emit

LEMMA WaitEnded ==
  ASSUME ServicesOK, NEW n \in Names
  PROVE  /\ AfterWait(n) \in [Names -> Service \cup {Absent}]
         /\ \A k \in Names : /\ k # n => AfterWait(n)[k] = services[k]
                             /\ services[k] = Absent <=> AfterWait(n)[k] = Absent
         /\ services[n] # Absent => AfterWait(n)[n] = Disconnected(services[n])
<1>1. services[n] # Absent => Disconnected(services[n]) \in Service
  BY RecordTypes DEF ServicesOK
<1>2. QED
  BY <1>1, ServiceAssumption DEF AfterWait, ServicesOK

LEMMA TickTypes ==
  ASSUME ServicesOK, LinksOK, NEW n \in Names
  PROVE  /\ Ticked(n) \in Service \cup {Absent}
         /\ Ticked(n) = Absent <=> services[n] = Absent
         /\ services[n] # Absent =>
              /\ Ticked(n).auto = services[n].auto
              /\ Ticked(n).entry = services[n].entry
              /\ Ticked(n).auto_connect = services[n].auto_connect
<1>1. link[n].handle \in Handles \cup {0}
  BY DEF LinksOK, Link
<1>2. Connected(n) \in BOOLEAN
  BY DEF Connected
<1>3. CASE Reported(n)
  <2>1. services[n] \in Service
    BY <1>3 DEF Reported, Known, ServicesOK
  <2>2. Ticked(n) = [services[n] EXCEPT !.prev_handle = link[n].handle,
                                        !.prev_connected = Connected(n)]
    BY <1>3 DEF Ticked
  <2>3. Ticked(n) \in Service /\ Ticked(n).auto = services[n].auto
        /\ Ticked(n).entry = services[n].entry
        /\ Ticked(n).auto_connect = services[n].auto_connect
    BY <1>1, <1>2, <2>1, <2>2 DEF Service
  <2>4. QED
    BY <2>1, <2>3, ServiceAssumption
<1>4. CASE ~Reported(n)
  BY <1>4 DEF Ticked, ServicesOK
<1>5. QED
  BY <1>3, <1>4

LEMMA UserTypes ==
  ASSUME TypesPlaces, User
  PROVE  TypesPlaces'
<1>1. TypeOK /\ Where /\ ServicesOK /\ LinksOK
  BY DEF TypesPlaces, TypeOK, ServicesOK, LinksOK
<1>2. Event => events' \in 0..MaxEvents
  BY <1>1, ServiceAssumption DEF Event, TypeOK
<1>3. ASSUME NEW n \in Names, UserChecks(n) \/ UserUnchecks(n)
      PROVE  TypesPlaces'
  <2>1. /\ Idle /\ Event /\ dialog' \in Seq(Item)
        /\ ConnectService(n) \/ DisconnectService(n)
        /\ UNCHANGED <<m_auto_connect, queue, browser, disk>>
    <3>1. dialog \in Seq(Item)
      BY <1>1 DEF TypeOK
    <3>2. QED
      BY <1>3, <3>1, ChangedItem DEF UserChecks, UserUnchecks
  <2>2. /\ ServicesOK' /\ LinksOK' /\ gui' \in Gui
        /\ \A k \in Names : services'[k] = Absent <=> services[k] = Absent
        /\ UNCHANGED gui \/ (gui'.at \in {"connect", "disconnect"} /\ gui'.name = n /\ Known(n))
    BY <1>1, <1>3, <2>1, ConnectTypes
  <2>3. TypeOK'
    BY <1>1, <1>2, <2>1, <2>2 DEF TypeOK, ServicesOK, LinksOK, disk
  <2>4. Where'
    <3>1. UNCHANGED browser /\ gui.at = "idle"
      BY <2>1 DEF Idle
    <3>2. Known(n) => Known(n)'
      BY <2>2 DEF Known
    <3>3. QED
      BY <1>1, <2>2, <3>1, <3>2 DEF Where
  <2>5. QED
    BY <2>3, <2>4 DEF TypesPlaces
<1>4. ASSUME NEW n \in Typed, UserAdds(n)
      PROVE  TypesPlaces'
  <2>1. n \in Names
    BY DEF Names
  <2>2. PICK host \in Hosts, port \in Ports :
          services' = [services EXCEPT ![n] = Connecting(NewService(host, port, TRUE, TRUE))]
    BY <1>4 DEF UserAdds
  <2>3. Connecting(NewService(host, port, TRUE, TRUE)) \in Service
    BY NewTypes, RecordTypes, <2>1
  <2>4. ServicesOK' /\ services'[n] # Absent
    BY <1>1, <2>1, <2>2, <2>3, OneService, ServiceAssumption DEF ServicesOK
  <2>5. LinksOK'
    BY <1>1, <1>4, <2>1, LinkTypes DEF UserAdds
  <2>6. gui' = [at |-> "add", name |-> n] /\ gui' \in Gui
    BY <1>4, <2>1 DEF UserAdds, Gui, Waiting
  <2>7. Event /\ UNCHANGED <<m_auto_connect, dialog, queue, browser, file, conf>>
    BY <1>4 DEF UserAdds, disk
  <2>8. TypeOK'
    BY <1>1, <1>2, <2>4, <2>5, <2>6, <2>7 DEF TypeOK, ServicesOK, LinksOK
  <2>9. Where'
    BY <1>1, <2>4, <2>6, <2>7 DEF Where, Known
  <2>10. QED
    BY <2>8, <2>9 DEF TypesPlaces
<1>5. ASSUME NEW n \in Names, UserRemoves(n)
      PROVE  TypesPlaces'
  <2>1. services' = [services EXCEPT ![n] = Absent]
    BY <1>5 DEF UserRemoves
  <2>2. ServicesOK'
    BY <1>1, <2>1 DEF ServicesOK
  <2>3. LinksOK'
    BY <1>1, <1>5, LinkTypes DEF UserRemoves
  <2>4. gui' = [at |-> "remove", name |-> n] /\ gui' \in Gui
    BY <1>5 DEF UserRemoves, Gui, Waiting
  <2>5. Event /\ UNCHANGED <<m_auto_connect, dialog, queue, browser, file, conf>>
    BY <1>5 DEF UserRemoves, disk
  <2>6. TypeOK'
    BY <1>1, <1>2, <2>2, <2>3, <2>4, <2>5 DEF TypeOK, ServicesOK, LinksOK
  <2>7. Where'
    BY <1>1, <2>4, <2>5 DEF Where
  <2>8. QED
    BY <2>6, <2>7 DEF TypesPlaces
<1>6. CASE UserCloses
  <2>1. file' = Saved(services) /\ gui.at = "idle"
        /\ UNCHANGED <<services, m_auto_connect, link, stopping, dialog, queue, gui,
                       browser, conf, events>>
    BY <1>6 DEF UserCloses, SaveManualServices, lib, Idle
  <2>2. file' \in [Names -> Line \cup {Absent}]
    BY <1>1, <2>1, SavedTypes DEF TypeOK
  <2>3. TypeOK'
    BY <1>1, <2>1, <2>2 DEF TypeOK
  <2>4. Where'
    BY <1>1, <2>1 DEF Where
  <2>5. QED
    BY <2>3, <2>4 DEF TypesPlaces
<1>7. CASE BonjourChanges
  <2>1. Event /\ conf' \in BOOLEAN /\ m_auto_connect' \in BOOLEAN
        /\ UNCHANGED <<services, link, stopping, dialog, queue, gui, browser, file>>
    BY <1>1, <1>7 DEF BonjourChanges, lib, TypeOK
  <2>2. TypeOK'
    BY <1>1, <1>2, <2>1 DEF TypeOK
  <2>3. Where'
    BY <1>1, <2>1 DEF Where, Known
  <2>4. QED
    BY <2>2, <2>3 DEF TypesPlaces
<1>8. QED
  BY <1>3, <1>4, <1>5, <1>6, <1>7 DEF User

LEMMA WaitTypes ==
  ASSUME TypesPlaces,
         GuiConnectReturns \/ GuiDisconnectReturns \/ AddReturns \/ RemoveReturns
         \/ OnTimer \/ Deliver
  PROVE  TypesPlaces'
<1>1. TypeOK /\ Where /\ ServicesOK /\ LinksOK /\ dialog \in Seq(Item) /\ gui \in Gui
  BY DEF TypesPlaces, TypeOK, ServicesOK, LinksOK
<1>2. [at |-> "idle"] \in Gui
  BY DEF Gui
<1>3. gui.at \in Waiting => gui.name \in Names
  BY <1>1, Places
<1>4. CASE GuiConnectReturns
  <2>1. gui' = [at |-> "idle"]
        /\ UNCHANGED <<services, m_auto_connect, link, stopping, dialog, queue, browser,
                       file, conf, events>>
    BY <1>4 DEF GuiConnectReturns, lib, disk
  <2>2. TypeOK'
    BY <1>1, <1>2, <2>1 DEF TypeOK
  <2>3. QED
    BY <1>1, <2>1, <2>2 DEF TypesPlaces, Where
<1>5. CASE GuiDisconnectReturns
  <2>1. gui' = [at |-> "idle"]
        /\ UNCHANGED <<m_auto_connect, link, stopping, dialog, queue, browser, file, conf, events>>
        /\ services' = [services EXCEPT ![gui.name] = Disconnected(@)]
        /\ gui.at = "disconnect"
    BY <1>5 DEF GuiDisconnectReturns, lib, disk
  <2>2. gui.name \in Names /\ services[gui.name] \in Service
    BY <1>1, <1>3, <2>1 DEF Where, Known, Waiting, ServicesOK
  <2>3. Disconnected(services[gui.name]) \in Service
    BY <2>2, RecordTypes
  <2>4. ServicesOK'
    BY <1>1, <2>1, <2>2, <2>3 DEF ServicesOK
  <2>5. TypeOK'
    BY <1>1, <1>2, <2>1, <2>4 DEF TypeOK, ServicesOK
  <2>6. QED
    BY <1>1, <2>1, <2>5 DEF TypesPlaces, Where
<1>6. CASE AddReturns
  <2>1. gui' = [at |-> "idle"] /\ file' = Saved(services) /\ gui.at = "add"
        /\ UNCHANGED <<services, m_auto_connect, link, stopping, queue, browser, conf, events>>
        /\ dialog' = OnAddService(dialog, ItemOf(gui.name, services[gui.name], Connected(gui.name)))
    BY <1>6 DEF AddReturns, lib, SaveManualServices
  <2>2. gui.name \in Names /\ services[gui.name] \in Service
    BY <1>1, <1>3, <2>1 DEF Where, Known, Waiting, ServicesOK
  <2>3. ItemOf(gui.name, services[gui.name], Connected(gui.name)) \in Item
    BY <2>2, RecordTypes DEF Connected
  <2>4. dialog' \in Seq(Item)
    BY <1>1, <2>1, <2>3, DialogTypes
  <2>5. file' \in [Names -> Line \cup {Absent}]
    BY <1>1, <2>1, SavedTypes DEF TypeOK
  <2>6. TypeOK'
    BY <1>1, <1>2, <2>1, <2>4, <2>5 DEF TypeOK
  <2>7. QED
    BY <1>1, <2>1, <2>6 DEF TypesPlaces, Where
<1>7. CASE RemoveReturns
  <2>1. gui' = [at |-> "idle"] /\ file' = Saved(services) /\ gui.at = "remove"
        /\ UNCHANGED <<services, m_auto_connect, queue, browser, conf, events>>
        /\ dialog' = OnRemoveService(dialog, gui.name)
        /\ (Ends(gui.name) \/ UNCHANGED lib)
    BY <1>7 DEF RemoveReturns, SaveManualServices
  <2>2. LinksOK'
    BY <1>1, <1>3, <2>1, LinkTypes DEF Waiting
  <2>3. file' \in [Names -> Line \cup {Absent}]
    BY <1>1, <2>1, SavedTypes DEF TypeOK
  <2>4. dialog' \in Seq(Item)
    BY <1>1, <2>1, FirstFound, RemovedOne DEF OnRemoveService
  <2>5. TypeOK'
    BY <1>1, <1>2, <2>1, <2>2, <2>3, <2>4 DEF TypeOK, LinksOK
  <2>6. QED
    BY <1>1, <2>1, <2>5 DEF TypesPlaces, Where
<1>8. CASE OnTimer
  <2>1. gui.at = "idle" /\ services' = [n \in Names |-> Ticked(n)]
        /\ UNCHANGED <<m_auto_connect, link, stopping, queue, gui, browser, file, conf, events>>
    BY <1>8 DEF OnTimer, lib, disk, Idle
  <2>2. dialog' \in Seq(Item)
    BY <1>1, <1>8, ShownTypes DEF OnTimer
  <2>3. ServicesOK'
    BY <1>1, <2>1, TickTypes DEF ServicesOK
  <2>4. TypeOK'
    BY <1>1, <2>1, <2>2, <2>3 DEF TypeOK, ServicesOK
  <2>5. QED
    BY <1>1, <2>1, <2>4 DEF TypesPlaces, Where
<1>9. CASE Deliver
  <2>1. gui.at = "idle" /\ queue' = Tail(queue) /\ queue # <<>>
        /\ UNCHANGED <<services, m_auto_connect, link, stopping, gui, browser, file, conf, events>>
    BY <1>9 DEF Deliver, lib, disk, Idle
  <2>2. Head(queue) \in Signal /\ Tail(queue) \in Seq(Signal)
    BY <1>1, <2>1 DEF TypeOK
  <2>3. /\ Head(queue).kind = "added" => Head(queue).item \in Item
        /\ dialog' = IF Head(queue).kind = "added" THEN OnAddService(dialog, Head(queue).item)
                     ELSE OnRemoveService(dialog, Head(queue).name)
    BY <1>9, <2>2 DEF Deliver, Signal
  <2>4. dialog' \in Seq(Item)
    <3>1. CASE Head(queue).kind = "added"
      BY <1>1, <2>3, <3>1, DialogTypes
    <3>2. CASE Head(queue).kind # "added"
      BY <1>1, <2>3, <3>2, FirstFound, RemovedOne DEF OnRemoveService
    <3>3. QED
      BY <3>1, <3>2
  <2>5. TypeOK'
    BY <1>1, <2>1, <2>2, <2>4 DEF TypeOK
  <2>6. QED
    BY <1>1, <2>1, <2>5 DEF TypesPlaces, Where
<1>10. QED
  BY <1>4, <1>5, <1>6, <1>7, <1>8, <1>9

LEMMA NetworkTypes ==
  ASSUME TypesPlaces, Network \/ BrowserConnectReturns \/ BrowserDisconnectReturns
  PROVE  TypesPlaces'
<1>1. /\ TypeOK /\ Where /\ ServicesOK /\ LinksOK /\ gui \in Gui /\ browser \in Browser
      /\ queue \in Seq(Signal)
  BY DEF TypesPlaces, TypeOK, ServicesOK, LinksOK
<1>2. Event => events' \in 0..MaxEvents
  BY <1>1, ServiceAssumption DEF Event, TypeOK
<1>3. ASSUME NEW n \in Announced, NEW host \in Hosts, NEW port \in Ports,
             NetworkAdds(n, host, port)
      PROVE  TypesPlaces'
  <2>1. Event /\ n \in Names /\ UNCHANGED <<m_auto_connect, dialog, gui, file, conf>>
    BY <1>3 DEF NetworkAdds, disk, Names
  <2>2. /\ ServicesOK' /\ LinksOK' /\ queue' \in Seq(Signal) /\ browser' \in Browser
        /\ browser'.at # "idle" => browser'.name = n
        /\ \A k \in Names : Known(k) => Known(k)'
    <3>1. CASE OnServiceAdded(n, host, port, services, queue)
      BY <1>1, <3>1, FoundTypes DEF ServicesOK, Known
    <3>2. CASE OnServiceAdded(n, host, port, services, Emit(queue, Removed(n)))
      BY <1>1, <2>1, <3>2, Sent, FoundTypes DEF ServicesOK, Known
    <3>3. CASE /\ DisconnectServer(n)
               /\ browser' = [at |-> "swap", name |-> n, port |-> port]
               /\ UNCHANGED <<services, queue>>
      <4>1. LinksOK'
        BY <1>1, <2>1, <3>3, LinkTypes
      <4>2. browser' \in Browser
        BY <2>1, <3>3 DEF Browser
      <4>3. QED
        BY <1>1, <3>3, <4>1, <4>2 DEF ServicesOK, Known
    <3>4. QED
      BY <1>3, <3>1, <3>2, <3>3 DEF NetworkAdds
  <2>3. TypeOK'
    BY <1>1, <1>2, <2>1, <2>2 DEF TypeOK, ServicesOK, LinksOK
  <2>4. Where'
    BY <1>1, <2>1, <2>2, Places DEF Where, Waiting, Gui
  <2>5. QED
    BY <2>3, <2>4 DEF TypesPlaces
<1>4. ASSUME NEW n \in Announced, NEW loopback \in BOOLEAN, NetworkRemoves(n, loopback)
      PROVE  TypesPlaces'
  <2>1. Event /\ n \in Names /\ UNCHANGED <<services, m_auto_connect, dialog, gui, file, conf>>
    BY <1>4 DEF NetworkRemoves, disk, Names
  <2>2. /\ LinksOK' /\ queue' \in Seq(Signal) /\ browser' \in Browser
        /\ browser'.at # "idle" => browser'.name \in Announced
    <3>1. CASE /\ DisconnectServer(n)
               /\ browser' = [at |-> "gone", name |-> n]
               /\ UNCHANGED queue
      <4>1. LinksOK'
        BY <1>1, <2>1, <3>1, LinkTypes
      <4>2. browser' \in Browser
        BY <2>1, <3>1 DEF Browser
      <4>3. QED
        BY <1>1, <3>1, <4>1, <4>2
    <3>2. CASE queue' = Emit(queue, Removed(n)) /\ UNCHANGED <<lib, browser>>
      <4>1. LinksOK'
        BY <1>1, <2>1, <3>2, LinkTypes
      <4>2. QED
        BY <1>1, <2>1, <3>2, <4>1, Sent DEF Where
    <3>3. QED
      BY <1>4, <3>1, <3>2 DEF NetworkRemoves
  <2>3. TypeOK'
    BY <1>1, <1>2, <2>1, <2>2 DEF TypeOK, LinksOK
  <2>4. Where'
    BY <1>1, <2>1, <2>2 DEF Where, Known
  <2>5. QED
    BY <2>3, <2>4 DEF TypesPlaces
<1>5. CASE BrowserConnectReturns
  <2>1. /\ browser.at = "connect" /\ browser' = [at |-> "idle"]
        /\ queue' = IF Known(browser.name) THEN Emit(queue, Added(browser.name)) ELSE queue
        /\ UNCHANGED <<services, m_auto_connect, link, stopping, dialog, gui, file, conf, events>>
    BY <1>5 DEF BrowserConnectReturns, lib, disk
  <2>2. queue' \in Seq(Signal) /\ browser' \in Browser
    BY <1>1, <2>1, Sent, Places DEF Browser
  <2>3. TypeOK'
    BY <1>1, <2>1, <2>2 DEF TypeOK
  <2>4. QED
    BY <1>1, <2>1, <2>3 DEF Where, Known, TypesPlaces
<1>6. CASE BrowserDisconnectReturns
  <2> DEFINE n == browser.name
  <2>1. UNCHANGED <<m_auto_connect, dialog, gui, file, conf, events>> /\ browser.at # "idle"
    BY <1>6 DEF BrowserDisconnectReturns, disk
  <2>2. n \in Names /\ n \in Announced
    BY <1>1, <2>1, Places DEF Where
  <2>3. /\ AfterWait(n) \in [Names -> Service \cup {Absent}]
        /\ \A k \in Names : services[k] = Absent <=> AfterWait(n)[k] = Absent
    BY <1>1, <2>2, WaitEnded
  <2>4. Emit(queue, Removed(n)) \in Seq(Signal)
    BY <1>1, <2>2, Sent
  <2>5. /\ ServicesOK' /\ LinksOK' /\ queue' \in Seq(Signal) /\ browser' \in Browser
        /\ browser'.at # "idle" => browser'.name = n
        /\ \A k \in Names : Known(k) => Known(k)'
    <3>1. CASE /\ services' = AfterWait(n) /\ queue' = Emit(queue, Removed(n))
               /\ browser' = [at |-> "idle"] /\ UNCHANGED lib
      <4>1. LinksOK'
        BY <1>1, <2>2, <3>1, LinkTypes
      <4>2. QED
        BY <2>3, <2>4, <3>1, <4>1 DEF ServicesOK, Known, Browser
    <3>2. CASE /\ browser.at = "swap"
               /\ OnServiceAdded(n, "localhost", browser.port, AfterWait(n), Emit(queue, Removed(n)))
      <4>1. browser.port \in Ports /\ "localhost" \in Hosts
        BY <1>1, <3>2, Places DEF Hosts
      <4>2. /\ ServicesOK' /\ LinksOK' /\ queue' = Emit(queue, Removed(n))
            /\ browser' \in Browser /\ (browser'.at # "idle" => browser'.name = n)
            /\ \A k \in Names : AfterWait(n)[k] # Absent => services'[k] # Absent
        BY <1>1, <2>2, <2>3, <2>4, <3>2, <4>1, FoundTypes
      <4>3. QED
        BY <2>3, <2>4, <4>2 DEF Known
    <3>3. QED
      BY <1>6, <3>1, <3>2 DEF BrowserDisconnectReturns
  <2>6. TypeOK'
    BY <1>1, <2>1, <2>5 DEF TypeOK, ServicesOK, LinksOK
  <2>7. Where'
    BY <1>1, <2>1, <2>2, <2>5, Places DEF Where, Waiting, Gui
  <2>8. QED
    BY <2>6, <2>7 DEF TypesPlaces
<1>7. QED
  BY <1>3, <1>4, <1>5, <1>6 DEF Network

LEMMA StartTypes ==
  ASSUME TypesPlaces,
         \/ Wire \/ LoadReturns \/ Loaded \/ \E n \in Names : LoadLine(n)
         \/ Library \/ Crash \/ Quit \/ Start
  PROVE  TypesPlaces'
<1>1. /\ TypeOK /\ Where /\ ServicesOK /\ LinksOK /\ FileOK /\ gui \in Gui
      /\ dialog \in Seq(Item)
  BY DEF TypesPlaces, TypeOK, ServicesOK, LinksOK, FileOK
<1>2. Event => events' \in 0..MaxEvents
  BY <1>1, ServiceAssumption DEF Event, TypeOK
<1>3. CASE Wire
  <2>1. /\ m_auto_connect' = conf
        /\ gui' = [at |-> "loading", left |-> {n \in Names : file[n] # Absent}]
        /\ UNCHANGED <<services, link, stopping, dialog, queue, browser, file, conf, events>>
    BY <1>3 DEF Wire, lib, disk
  <2>2. gui' \in Gui
    BY <2>1 DEF Gui
  <2>3. TypeOK'
    BY <1>1, <2>1, <2>2 DEF TypeOK
  <2>4. QED
    BY <1>1, <2>1, <2>3 DEF TypesPlaces, Where
<1>4. CASE LoadReturns
  <2>1. /\ gui.at = "load" /\ gui' = [at |-> "loading", left |-> gui.left]
        /\ dialog' = OnAddService(dialog, ItemOf(gui.name, services[gui.name], Connected(gui.name)))
        /\ UNCHANGED <<services, m_auto_connect, link, stopping, queue, browser, file, conf, events>>
    BY <1>4 DEF LoadReturns, lib, disk
  <2>2. gui.name \in Names /\ gui.left \in SUBSET Names /\ services[gui.name] \in Service
    BY <1>1, <2>1, Places DEF Where, Known, ServicesOK
  <2>3. ItemOf(gui.name, services[gui.name], Connected(gui.name)) \in Item
    BY <2>2, RecordTypes DEF Connected
  <2>4. dialog' \in Seq(Item) /\ gui' \in Gui
    BY <1>1, <2>1, <2>2, <2>3, DialogTypes DEF Gui
  <2>5. TypeOK'
    BY <1>1, <2>1, <2>4 DEF TypeOK
  <2>6. QED
    BY <1>1, <2>1, <2>5 DEF TypesPlaces, Where
<1>5. CASE Loaded
  <2>1. /\ gui' = [at |-> "idle"] /\ gui' \in Gui
        /\ UNCHANGED <<services, m_auto_connect, link, stopping, dialog, queue, browser,
                       file, conf, events>>
    BY <1>5 DEF Loaded, lib, disk, Gui
  <2>2. TypeOK'
    BY <1>1, <2>1 DEF TypeOK
  <2>3. QED
    BY <1>1, <2>1, <2>2 DEF TypesPlaces, Where
<1>6. ASSUME NEW n \in Names, LoadLine(n)
      PROVE  TypesPlaces'
  <2> DEFINE line == file[n]
             new  == NewService(line.host, line.port, line.auto_connect, ~line.auto)
             left == gui.left \ {n}
  <2>1. /\ gui.at = "loading" /\ n \in gui.left
        /\ UNCHANGED <<m_auto_connect, dialog, queue, browser, file, conf, events>>
    BY <1>6 DEF LoadLine, disk
  <2>2. left \in SUBSET Names /\ file[n] \in Line
    BY <1>1, <2>1, Places DEF Where, FileOK
  <2>3. /\ file[n].host \in Hosts /\ file[n].port \in Ports
        /\ file[n].auto \in BOOLEAN /\ file[n].auto_connect \in BOOLEAN
    BY <2>2 DEF Line
  <2>4. new \in Service /\ Connecting(new) \in Service
    BY <2>3, NewTypes, RecordTypes
  <2> HIDE DEF new
  <2>4a. [gui EXCEPT !.left = left] = [at |-> "loading", left |-> left]
    <3>1. gui = [at |-> "loading", left |-> gui.left]
      BY <1>1, <2>1, Places
    <3>2. \A x, y : [[at |-> "loading", left |-> x] EXCEPT !.left = y] = [at |-> "loading", left |-> y]
      OBVIOUS
    <3>3. QED
      BY <3>1, <3>2, Zenon
  <2>5. CASE UNCHANGED <<services, lib>> /\ gui' = [gui EXCEPT !.left = left]
    <3>1. gui' = [at |-> "loading", left |-> left]
      BY <2>5, <2>4a
    <3>2. gui' \in Gui
      BY <2>2, <3>1 DEF Gui
    <3>3. TypeOK'
      BY <1>1, <2>1, <2>5, <3>2 DEF TypeOK, lib
    <3>4. Where'
      BY <1>1, <2>1, <2>5, <3>1 DEF Where, Known
    <3>5. QED
      BY <3>3, <3>4 DEF TypesPlaces
  <2>6. CASE services' = [services EXCEPT ![n] = new] /\ gui' = [gui EXCEPT !.left = left]
             /\ UNCHANGED lib
    <3>1. gui' = [at |-> "loading", left |-> left]
      BY <2>6, <2>4a
    <3>1a. ServicesOK'
      BY <1>1, <2>4, <2>6, OneService DEF ServicesOK
    <3>2. gui' \in Gui /\ ServicesOK'
      BY <2>2, <3>1, <3>1a DEF Gui
    <3>3. TypeOK'
      BY <1>1, <2>1, <2>6, <3>2 DEF TypeOK, lib, ServicesOK
    <3>4. Where'
      BY <1>1, <2>1, <3>1 DEF Where
    <3>5. QED
      BY <3>3, <3>4 DEF TypesPlaces
  <2>7. CASE /\ gui' = [at |-> "load", name |-> n, left |-> left]
             /\ \/ services' = [services EXCEPT ![n] = Connecting(new)] /\ ConnectServer(n)
                \/ services' = [services EXCEPT ![n] = new] /\ UNCHANGED lib
    <3>1. gui' \in Gui
      BY <2>2, <2>7 DEF Gui
    <3>2. ServicesOK' /\ services'[n] # Absent
      <4>1. CASE services' = [services EXCEPT ![n] = Connecting(new)]
        BY <1>1, <2>4, <4>1, OneService, ServiceAssumption DEF ServicesOK
      <4>2. CASE services' = [services EXCEPT ![n] = new]
        BY <1>1, <2>4, <4>2, OneService, ServiceAssumption DEF ServicesOK
      <4>3. QED
        BY <2>7, <4>1, <4>2
    <3>3. LinksOK'
      BY <1>1, <2>7, LinkTypes
    <3>4. TypeOK'
      BY <1>1, <2>1, <3>1, <3>2, <3>3 DEF TypeOK, ServicesOK, LinksOK
    <3>5. Where'
      BY <1>1, <2>1, <2>7, <3>2 DEF Where, Known
    <3>6. QED
      BY <3>4, <3>5 DEF TypesPlaces
  <2>8. QED
    BY <1>6, <2>5, <2>6, <2>7 DEF LoadLine, new
<1>7. CASE Library
  <2>1. PICK n \in Names : Opens(n) \/ ComesUp(n) \/ Drops(n) \/ Ends(n)
    BY <1>7 DEF Library
  <2>2. LinksOK'
    BY <1>1, <2>1, LinkTypes
  <2>3. UNCHANGED <<services, m_auto_connect, dialog, queue, gui, browser, file, conf, events>>
    BY <1>7 DEF Library, disk
  <2>4. TypeOK'
    BY <1>1, <2>2, <2>3 DEF TypeOK, LinksOK
  <2>5. QED
    BY <1>1, <2>3, <2>4 DEF TypesPlaces, Where, Known
<1>8. ASSUME Vanish, Event, UNCHANGED disk \/ SaveManualServices
      PROVE  TypesPlaces'
  <2>1. /\ services' = Nothing /\ link' = [n \in Names |-> NoLink] /\ stopping' = {}
        /\ dialog' = <<>> /\ queue' = <<>>
        /\ gui' = [at |-> "down"] /\ browser' = [at |-> "idle"]
        /\ UNCHANGED m_auto_connect
    BY <1>8 DEF Vanish
  <2>2. services' \in [Names -> Service \cup {Absent}]
    BY <2>1 DEF Nothing
  <2>3. link' \in [Names -> Link]
    BY <2>1 DEF NoLink, Link
  <2>4. gui' \in Gui /\ browser' \in Browser /\ dialog' \in Seq(Item) /\ queue' \in Seq(Signal)
    BY <2>1 DEF Gui, Browser
  <2>5. file' \in [Names -> Line \cup {Absent}] /\ conf' \in BOOLEAN
    BY <1>1, <1>8, SavedTypes DEF TypeOK, disk, SaveManualServices
  <2>6. TypeOK'
    BY <1>1, <1>2, <1>8, <2>1, <2>2, <2>3, <2>4, <2>5 DEF TypeOK
  <2>7. QED
    BY <2>1, <2>6 DEF TypesPlaces, Where
<1>9. CASE Start
  <2>1. /\ gui' = [at |-> "started"] /\ m_auto_connect' = TRUE /\ gui' \in Gui
        /\ UNCHANGED <<services, link, stopping, dialog, queue, browser, file, conf, events>>
    BY <1>9 DEF Start, lib, disk, Gui
  <2>2. TypeOK'
    BY <1>1, <2>1 DEF TypeOK
  <2>3. QED
    BY <1>1, <2>1, <2>2 DEF TypesPlaces, Where
<1>10. QED
  BY <1>3, <1>4, <1>5, <1>6, <1>7, <1>8, <1>9 DEF Crash, Quit

LEMMA TypesInit == Init => TypesPlaces
<1> SUFFICES ASSUME Init PROVE TypesPlaces
  OBVIOUS
<1>1. services \in [Names -> Service \cup {Absent}] /\ file \in [Names -> Line \cup {Absent}]
  BY DEF Init, Nothing
<1>2. link \in [Names -> Link]
  BY DEF Init, NoLink, Link
<1>3. gui \in Gui /\ browser \in Browser /\ dialog \in Seq(Item) /\ queue \in Seq(Signal)
  BY DEF Init, Gui, Browser
<1>4. TypeOK
  BY <1>1, <1>2, <1>3, ServiceAssumption DEF Init, TypeOK
<1>5. QED
  BY <1>4 DEF Init, TypesPlaces, Where

LEMMA TypesStep == TypesPlaces /\ [Next]_vars => TypesPlaces'
<1> SUFFICES ASSUME TypesPlaces, [Next]_vars PROVE TypesPlaces'
  OBVIOUS
<1>1. CASE UNCHANGED vars
  BY <1>1 DEF vars, lib, disk, TypesPlaces, TypeOK, Where, Known
<1>2. CASE Next
  BY <1>2, UserTypes, WaitTypes, NetworkTypes, StartTypes DEF Next, GuiStep
<1>3. QED
  BY <1>1, <1>2

(* Every variable keeps its type, whatever the threads do at whatever      *)
(* moment.                                                                 *)
THEOREM ServiceTyped == Spec => []TypeOK
<1>1. TypesPlaces => TypeOK
  BY DEF TypesPlaces
<1>2. QED
  BY <1>1, TypesInit, TypesStep, PTL DEF Spec

---------------------------------------------------------------------------
(* What the network's thread leaves alone.                                 *)

RemovedAnnounced(q) ==
    \A i \in DOMAIN q : q[i].kind = "removed" => q[i].name \in Announced

(* What the program decides for a service stays as it was.                 *)
Same(n) == /\ services'[n].auto = services[n].auto
           /\ services[n].auto_connect => services'[n].auto_connect

LEMMA Queued ==
  ASSUME TypeOK, RemovedAnnounced(queue), NEW n \in Announced
  PROVE  /\ RemovedAnnounced(Emit(queue, Removed(n)))
         /\ RemovedAnnounced(Emit(queue, Added(n)))
<1>1. queue \in Seq(Signal)
  BY DEF TypeOK
<1>2. ASSUME NEW m, m.kind = "removed" => m.name \in Announced
      PROVE  RemovedAnnounced(Append(queue, m))
  BY <1>1, <1>2 DEF RemovedAnnounced
<1>3. Added(n).kind # "removed" /\ Removed(n).name \in Announced
  BY DEF Added, Removed
<1>4. QED
  BY <1>2, <1>3 DEF Emit

(* The network's thread changes only services the network announces; it    *)
(* makes none a manual one and stops none from being connected again.      *)
LEMMA NetworkFrame ==
  ASSUME TypesPlaces, RemovedAnnounced(queue),
         Network \/ BrowserConnectReturns \/ BrowserDisconnectReturns
  PROVE  /\ UNCHANGED <<dialog, gui, file>>
         /\ RemovedAnnounced(queue)'
         /\ \A n \in Names \ Announced : /\ services'[n] = services[n]
                                         /\ link'[n] = link[n]
                                         /\ n \in stopping' <=> n \in stopping
         /\ \A n \in Names : /\ Known(n) => Known(n)' /\ Same(n)
                             /\ ~Known(n) /\ Known(n)' => services'[n].auto
<1>1. /\ TypeOK /\ Where /\ ServicesOK /\ LinksOK /\ browser \in Browser
  BY DEF TypesPlaces, TypeOK, ServicesOK, LinksOK
<1>2. ASSUME NEW n \in Names, ConnectServer(n) \/ DisconnectServer(n) \/ UNCHANGED lib
      PROVE  \A k \in Names : k # n => link'[k] = link[k] /\ (k \in stopping' <=> k \in stopping)
  BY <1>1, <1>2 DEF ConnectServer, DisconnectServer, lib, LinksOK
<1>3. ASSUME NEW n \in Announced, NEW host \in Hosts, NEW port \in Ports,
             NEW all \in [Names -> Service \cup {Absent}], NEW q \in Seq(Signal),
             \A k \in Names : /\ k # n => all[k] = services[k]
                              /\ all[k] = Absent <=> services[k] = Absent
             , services[n] # Absent => /\ all[n].auto = services[n].auto
                                       /\ all[n].auto_connect = services[n].auto_connect
             , OnServiceAdded(n, host, port, all, q)
      PROVE  /\ \A k \in Names : k # n => /\ services'[k] = services[k] /\ link'[k] = link[k]
                                          /\ k \in stopping' <=> k \in stopping
             /\ \A k \in Names : /\ Known(k) => Known(k)' /\ Same(k)
                                 /\ ~Known(k) /\ Known(k)' => services'[k].auto
             /\ queue' = q
  <2>1. n \in Names
    BY DEF Names
  <2>2. /\ ServicesOK' /\ queue' = q
        /\ \A k \in Names : all[k] # Absent => services'[k] # Absent
        /\ \A k \in Names : k # n => services'[k] = all[k]
        /\ services'[n] # Absent => services'[n].auto = (all[n] = Absent \/ all[n].auto)
        /\ all[n] # Absent /\ all[n].auto_connect => services'[n].auto_connect
        /\ UNCHANGED lib \/ ConnectServer(n)
    BY <1>1, <1>3, FoundTypes
  <2>3. \A k \in Names : k # n => link'[k] = link[k] /\ (k \in stopping' <=> k \in stopping)
    BY <1>2, <2>1, <2>2
  <2>4. services[n] # Absent => services[n].auto \in BOOLEAN
    BY <1>1, <2>1 DEF ServicesOK, Service
  <2>5. Known(n) => Known(n)' /\ Same(n)
    BY <1>3, <2>1, <2>2, <2>4 DEF Known, Same
  <2>6. ~Known(n) /\ Known(n)' => services'[n].auto
    BY <1>3, <2>1, <2>2 DEF Known
  <2>7. \A k \in Names : k # n => services'[k] = services[k]
    BY <1>3, <2>2
  <2>8. \A k \in Names : k # n => Same(k) /\ (Known(k) <=> Known(k)')
    BY <2>7 DEF Same, Known
  <2>9. QED
    BY <2>2, <2>3, <2>5, <2>6, <2>7, <2>8
<1>4. ASSUME NEW n \in Announced, NEW host \in Hosts, NEW port \in Ports,
             NetworkAdds(n, host, port)
      PROVE  /\ RemovedAnnounced(queue)'
             /\ \A k \in Names : k # n => /\ services'[k] = services[k] /\ link'[k] = link[k]
                                          /\ k \in stopping' <=> k \in stopping
             /\ \A k \in Names : /\ Known(k) => Known(k)' /\ Same(k)
                                 /\ ~Known(k) /\ Known(k)' => services'[k].auto
  <2>1. n \in Names /\ queue \in Seq(Signal)
    BY <1>1 DEF Names, TypeOK
  <2>2. CASE OnServiceAdded(n, host, port, services, queue)
    BY <1>1, <1>3, <2>1, <2>2 DEF ServicesOK, RemovedAnnounced
  <2>3. CASE OnServiceAdded(n, host, port, services, Emit(queue, Removed(n)))
    <3>1. Emit(queue, Removed(n)) \in Seq(Signal) /\ RemovedAnnounced(Emit(queue, Removed(n)))
      BY <1>1, <2>1, Sent, Queued
    <3>2. queue' = Emit(queue, Removed(n))
      BY <1>1, <1>3, <2>3, <3>1 DEF ServicesOK
    <3>3. RemovedAnnounced(queue)'
      BY <3>1, <3>2 DEF RemovedAnnounced
    <3>4. QED
      BY <1>1, <1>3, <2>3, <3>1, <3>3 DEF ServicesOK
  <2>4. CASE DisconnectServer(n) /\ UNCHANGED <<services, queue>>
    <3>1. \A k \in Names : k # n => link'[k] = link[k] /\ (k \in stopping' <=> k \in stopping)
      BY <1>2, <2>1, <2>4
    <3>2. QED
      BY <2>4, <3>1 DEF RemovedAnnounced, Known, Same
  <2>5. QED
    BY <1>4, <2>2, <2>3, <2>4 DEF NetworkAdds
<1>5. ASSUME NEW n \in Announced, NEW loopback \in BOOLEAN, NetworkRemoves(n, loopback)
      PROVE  /\ RemovedAnnounced(queue)' /\ UNCHANGED services
             /\ \A k \in Names : k # n => /\ link'[k] = link[k]
                                          /\ k \in stopping' <=> k \in stopping
  <2>1. /\ n \in Names /\ UNCHANGED services
        /\ \/ DisconnectServer(n) /\ UNCHANGED queue
           \/ queue' = Emit(queue, Removed(n)) /\ UNCHANGED lib
    BY <1>5 DEF NetworkRemoves, Names
  <2>2. \A k \in Names : k # n => link'[k] = link[k] /\ (k \in stopping' <=> k \in stopping)
    BY <1>2, <2>1
  <2>3. RemovedAnnounced(queue)'
    BY <1>1, <2>1, Queued DEF RemovedAnnounced
  <2>4. QED
    BY <2>1, <2>2, <2>3
<1>6. CASE Network
  <2>1. UNCHANGED <<dialog, gui, file>>
    BY <1>6 DEF Network, NetworkAdds, NetworkRemoves, disk
  <2>2. CASE \E n \in Announced, host \in Hosts, port \in Ports : NetworkAdds(n, host, port)
    BY <1>4, <2>1, <2>2
  <2>3. CASE \E n \in Announced, loopback \in BOOLEAN : NetworkRemoves(n, loopback)
    BY <1>5, <2>1, <2>3 DEF Known, Same
  <2>4. QED
    BY <1>6, <2>2, <2>3 DEF Network
<1>7. CASE BrowserConnectReturns
  <2>1. /\ UNCHANGED <<dialog, gui, file, services, link, stopping>>
        /\ browser.name \in Announced
        /\ queue' = queue \/ queue' = Emit(queue, Added(browser.name))
    BY <1>1, <1>7 DEF BrowserConnectReturns, lib, disk, Where
  <2>2. RemovedAnnounced(queue)'
    BY <1>1, <2>1, Queued DEF RemovedAnnounced
  <2>3. QED
    BY <2>1, <2>2 DEF Known, Same
<1>8. CASE BrowserDisconnectReturns
  <2> DEFINE n == browser.name
  <2>1. UNCHANGED <<dialog, gui, file>> /\ browser.at # "idle"
    BY <1>8 DEF BrowserDisconnectReturns, disk
  <2>2. n \in Names /\ n \in Announced
    BY <1>1, <2>1, Places DEF Where
  <2>3. /\ AfterWait(n) \in [Names -> Service \cup {Absent}]
        /\ \A k \in Names : /\ k # n => AfterWait(n)[k] = services[k]
                            /\ services[k] = Absent <=> AfterWait(n)[k] = Absent
        /\ services[n] # Absent => AfterWait(n)[n] = Disconnected(services[n])
    BY <1>1, <2>2, WaitEnded
  <2>4. services[n] # Absent => /\ AfterWait(n)[n].auto = services[n].auto
                                /\ AfterWait(n)[n].auto_connect = services[n].auto_connect
    BY <1>1, <2>2, <2>3 DEF Disconnected, ServicesOK, Service
  <2>5. Emit(queue, Removed(n)) \in Seq(Signal) /\ RemovedAnnounced(Emit(queue, Removed(n)))
    BY <1>1, <2>2, Sent, Queued
  <2>6. CASE services' = AfterWait(n) /\ queue' = Emit(queue, Removed(n)) /\ UNCHANGED lib
    <3>1. RemovedAnnounced(queue)'
      BY <2>5, <2>6 DEF RemovedAnnounced
    <3>2. \A k \in Names : k # n => services'[k] = services[k]
      BY <2>3, <2>6
    <3>3. \A k \in Names : (Known(k) <=> Known(k)') /\ (Known(k) => Same(k))
      BY <2>3, <2>4, <2>6 DEF Known, Same
    <3>4. QED
      BY <2>1, <2>2, <2>6, <3>1, <3>2, <3>3 DEF lib
  <2>7. CASE /\ browser.at = "swap"
             /\ OnServiceAdded(n, "localhost", browser.port, AfterWait(n), Emit(queue, Removed(n)))
    <3>1. browser.port \in Ports /\ "localhost" \in Hosts
      BY <1>1, <2>7, Places DEF Hosts
    <3>2. queue' = Emit(queue, Removed(n))
      BY <1>3, <2>2, <2>3, <2>4, <2>5, <2>7, <3>1
    <3>3. RemovedAnnounced(queue)'
      BY <2>5, <3>2 DEF RemovedAnnounced
    <3>4. QED
      BY <1>3, <2>1, <2>2, <2>3, <2>4, <2>5, <2>7, <3>1, <3>3
  <2>8. QED
    BY <1>8, <2>6, <2>7 DEF BrowserDisconnectReturns
<1>9. QED
  BY <1>6, <1>7, <1>8

---------------------------------------------------------------------------
(* What the user added.  Each promise is about the services the network    *)
(* does not announce, wherever the GUI thread waits:                       *)
(*   - the file holds the manual services and no other, but for those of   *)
(*     the request in hand and for the lines still to be read;             *)
(*   - a service is in the dialog, but for the one being added;            *)
(*   - a connection that is not told to stop belongs to a service that     *)
(*     knows it; the one being disconnected from has been told to.         *)
OwnNames == Names \ Announced

Kept(n)   == Known(n) /\ ~services[n].auto => file[n] # Absent /\ ~file[n].auto
Live(n)   == link[n].status # "none" /\ n \notin stopping
Listed(n) == \E i \in DOMAIN dialog : dialog[i].name = n

SavedInv ==
    /\ gui.at \notin {"add", "remove"} => \A n \in Names : Kept(n)
    /\ gui.at \in {"idle", "connect", "disconnect"} =>
         \A n \in OwnNames : file[n] # Absent => Known(n)
    /\ gui.at \in {"loading", "load"} =>
         \A n \in OwnNames \ gui.left : file[n] # Absent => Known(n)

ListedInv ==
    /\ \A n \in OwnNames :
         /\ Known(n) => /\ ~services[n].auto
                        /\ Listed(n) \/ (gui.at \in {"add", "load"} /\ gui.name = n)
         /\ file[n] # Absent => ~file[n].auto
    /\ gui.at = "remove" => gui.name \in Announced \/ ~Known(gui.name)
    /\ RemovedAnnounced(queue)

LinkInv ==
    /\ \A n \in OwnNames : Live(n) => Known(n) /\ services[n].entry
    /\ gui.at = "disconnect" => gui.name \in Announced \/ ~Live(gui.name)

OwnInv == TypesPlaces /\ SavedInv /\ ListedInv /\ LinkInv

(* Writing the file makes it hold what the model holds.                    *)
LEMMA WrittenIs ==
  ASSUME ServicesOK, SaveManualServices, NEW n \in Names
  PROVE  /\ file'[n] # Absent <=> Known(n)
         /\ Known(n) => file'[n].auto = services[n].auto
<1>1. file'[n] = IF services[n] = Absent THEN Absent ELSE LineOf(services[n])
  BY DEF SaveManualServices, Saved
<1>2. Known(n) => LineOf(services[n]) \in Line
  BY RecordTypes DEF Known, ServicesOK
<1>3. LineOf(services[n]).auto = services[n].auto
  BY DEF LineOf
<1>4. QED
  BY <1>1, <1>2, <1>3, ServiceAssumption DEF Known

(* Adding an item keeps the others and lists its name.                     *)
LEMMA AddListed ==
  ASSUME NEW list \in Seq(Item), NEW item \in Item
  PROVE  /\ \E j \in DOMAIN OnAddService(list, item) : OnAddService(list, item)[j].name = item.name
         /\ \A i \in DOMAIN list : \E j \in DOMAIN OnAddService(list, item) :
              OnAddService(list, item)[j] = list[i]
<1>1. CASE \E i \in DOMAIN list : SameText(list[i], item)
  BY <1>1 DEF OnAddService, SameText
<1>2. CASE ~\E i \in DOMAIN list : SameText(list[i], item)
  <2>1. OnAddService(list, item) = Append(list, item)
    BY <1>2 DEF OnAddService
  <2>2. /\ DOMAIN Append(list, item) = 1..(Len(list) + 1)
        /\ Append(list, item)[Len(list) + 1] = item
        /\ \A i \in DOMAIN list : i \in 1..(Len(list) + 1) /\ Append(list, item)[i] = list[i]
    OBVIOUS
  <2>3. Len(list) + 1 \in 1..(Len(list) + 1)
    OBVIOUS
  <2>4. QED
    BY <2>1, <2>2, <2>3
<1>3. QED
  BY <1>1, <1>2

(* Taking a name out keeps the items of the others.                        *)
LEMMA RemoveListed ==
  ASSUME NEW list \in Seq(Item), NEW n
  PROVE  \A i \in DOMAIN list : list[i].name # n =>
           \E j \in DOMAIN OnRemoveService(list, n) : OnRemoveService(list, n)[j] = list[i]
<1>1. CASE FirstOf(list, n) = 0
  BY <1>1 DEF OnRemoveService
<1>2. CASE FirstOf(list, n) # 0
  <2>1. FirstOf(list, n) \in DOMAIN list /\ list[FirstOf(list, n)].name = n
    BY <1>2, FirstFound
  <2>2. OnRemoveService(list, n) = RemoveAt(list, FirstOf(list, n))
    BY <1>2 DEF OnRemoveService
  <2>3. QED
    BY SMTT(60), <2>1, <2>2, RemovedOne
<1>3. QED
  BY <1>1, <1>2

(* A dialog that only shows other states lists the same names.             *)
LEMMA ShownListed ==
  ASSUME dialog \in Seq(Item), NEW reported
  PROVE  /\ DOMAIN OnConnectionChange(dialog, reported) = DOMAIN dialog
         /\ \A i \in DOMAIN dialog : OnConnectionChange(dialog, reported)[i].name = dialog[i].name
<1>1. \A i \in DOMAIN dialog : dialog[i] \in Item
  OBVIOUS
<1>2. QED
  BY <1>1 DEF OnConnectionChange, Item

(* A service the user checks or unchecks.                                  *)
LEMMA OwnRequest ==
  ASSUME OwnInv, NEW n \in Names, UserChecks(n) \/ UserUnchecks(n)
  PROVE  SavedInv' /\ ListedInv' /\ LinkInv'
<1>1. /\ TypeOK /\ Where /\ ServicesOK /\ LinksOK /\ dialog \in Seq(Item)
      /\ SavedInv /\ ListedInv /\ LinkInv
  BY DEF OwnInv, TypesPlaces, TypeOK, ServicesOK, LinksOK
<1>2. /\ gui.at = "idle" /\ UNCHANGED <<queue, file>>
      /\ ConnectService(n) \/ DisconnectService(n)
  BY DEF UserChecks, UserUnchecks, Idle, disk
<1>3. \A k \in Names : Listed(k) => Listed(k)'
  <2>1. PICK i \in DOMAIN dialog : \E b \in BOOLEAN : dialog' = [dialog EXCEPT ![i].checked = b]
    BY DEF UserChecks, UserUnchecks
  <2>2. /\ DOMAIN dialog' = DOMAIN dialog
        /\ \A j \in DOMAIN dialog : dialog[j] \in Item
    BY <1>1, <2>1
  <2>3. \A j \in DOMAIN dialog : dialog'[j].name = dialog[j].name
    BY <2>1, <2>2 DEF Item
  <2>4. QED
    BY <2>2, <2>3 DEF Listed
<1>4. gui' = gui \/ gui'.at = "connect" \/ (gui'.at = "disconnect" /\ gui'.name = n)
  BY <1>2 DEF ConnectService, DisconnectService
<1>5. \A k \in Names : /\ Known(k) <=> Known(k)'
                       /\ Known(k) => services'[k].auto = services[k].auto
  <2>1. services[n] # Absent => services[n] \in Service
    BY <1>1 DEF ServicesOK
  <2>2. \A s \in Service : /\ Connecting([s EXCEPT !.auto_connect = TRUE]).auto = s.auto
                           /\ [s EXCEPT !.auto_connect = FALSE].auto = s.auto
    BY DEF Service, Connecting
  <2>3. \A k \in Names : Known(k) <=> Known(k)'
    BY <1>1, <1>2, ConnectTypes DEF Known
  <2>4. \A k \in Names : k # n => services'[k] = services[k]
    BY <1>1, <1>2 DEF ConnectService, DisconnectService, ServicesOK
  <2>5. Known(n) => services'[n].auto = services[n].auto
    BY <1>1, <1>2, <2>1, <2>2 DEF ConnectService, DisconnectService, ServicesOK, Known
  <2>6. QED
    BY <2>3, <2>4, <2>5
<1>6. SavedInv'
  BY <1>1, <1>2, <1>4, <1>5 DEF SavedInv, Kept, OwnNames
<1>7. ListedInv'
  <2>1. RemovedAnnounced(queue)'
    BY <1>1, <1>2 DEF ListedInv, RemovedAnnounced
  <2>2. QED
    BY <1>1, <1>2, <1>3, <1>4, <1>5, <2>1 DEF ListedInv, OwnNames
<1>8. LinkInv'
  <2>1. CASE ~Known(n)
    <3>1. UNCHANGED <<services, link, stopping, gui>>
      BY <1>2, <2>1 DEF ConnectService, DisconnectService, lib
    <3>2. QED
      BY <1>1, <3>1 DEF LinkInv, Live, Known
  <2>2. CASE Known(n) /\ ConnectService(n)
    <3>1. services[n] \in Service
      BY <1>1, <2>2 DEF ServicesOK, Known
    <3>2. /\ services' = [services EXCEPT ![n] = Connecting([services[n] EXCEPT !.auto_connect = TRUE])]
          /\ ConnectServer(n) /\ gui' = [at |-> "connect", name |-> n]
      BY <2>2 DEF ConnectService
    <3>3. services'[n].entry
      <4>1. \A s \in Service : Connecting([s EXCEPT !.auto_connect = TRUE]).entry
        BY DEF Service, Connecting
      <4>2. QED
        BY <1>1, <3>1, <3>2, <4>1 DEF ServicesOK
    <3>4. \A k \in Names : k # n => services'[k] = services[k]
      BY <1>1, <3>2 DEF ServicesOK
    <3>5. \A k \in Names : k # n => (Live(k) <=> Live(k)')
      BY <1>1, <3>2 DEF ConnectServer, Live, LinksOK
    <3>6. QED
      BY <1>1, <1>5, <2>2, <3>2, <3>3, <3>4, <3>5 DEF LinkInv, OwnNames
  <2>3. CASE Known(n) /\ DisconnectService(n)
    <3>1. services[n] \in Service
      BY <1>1, <2>3 DEF ServicesOK, Known
    <3>2. /\ services' = [services EXCEPT ![n] = [services[n] EXCEPT !.auto_connect = FALSE]]
          /\ IF services[n].entry
             THEN DisconnectServer(n) /\ gui' = [at |-> "disconnect", name |-> n]
             ELSE UNCHANGED <<lib, gui>>
      BY <2>3 DEF DisconnectService
    <3>3. \A k \in Names : services'[k] # Absent => services'[k].entry = services[k].entry
      <4>1. \A s \in Service : [s EXCEPT !.auto_connect = FALSE].entry = s.entry
        BY DEF Service
      <4>2. QED
        BY <1>1, <3>1, <3>2, <4>1 DEF ServicesOK
    <3>4. \A k \in Names : Live(k)' => Live(k)
      BY <1>1, <3>2 DEF DisconnectServer, Live, LinksOK, lib
    <3>5. gui'.at = "disconnect" => gui'.name = n /\ ~Live(n)'
      BY <1>1, <1>2, <3>2 DEF DisconnectServer, Live, LinksOK, lib
    <3>6. QED
      BY <1>1, <1>5, <3>3, <3>4, <3>5 DEF LinkInv, OwnNames, Known
  <2>4. QED
    BY <1>2, <2>1, <2>2, <2>3
<1>9. QED
  BY <1>6, <1>7, <1>8

(* A service the user adds or removes.                                     *)
LEMMA OwnAddRemove ==
  ASSUME OwnInv, NEW n \in Names, UserAdds(n) \/ UserRemoves(n)
  PROVE  SavedInv' /\ ListedInv' /\ LinkInv'
<1>1. /\ TypeOK /\ Where /\ ServicesOK /\ LinksOK /\ dialog \in Seq(Item)
      /\ SavedInv /\ ListedInv /\ LinkInv
  BY DEF OwnInv, TypesPlaces, TypeOK, ServicesOK, LinksOK
<1>2. gui.at = "idle" /\ UNCHANGED <<queue, file, dialog>>
  BY DEF UserAdds, UserRemoves, Idle, disk
<1>3. gui' = [at |-> "add", name |-> n] \/ gui' = [at |-> "remove", name |-> n]
  BY DEF UserAdds, UserRemoves
<1>4. SavedInv'
  BY <1>3 DEF SavedInv
<1>5. RemovedAnnounced(queue)' /\ \A k \in Names : Listed(k) <=> Listed(k)'
  BY <1>1, <1>2 DEF ListedInv, RemovedAnnounced, Listed
<1>6. CASE UserAdds(n)
  <2>1. PICK host \in Hosts, port \in Ports :
          services' = [services EXCEPT ![n] = Connecting(NewService(host, port, TRUE, TRUE))]
    BY <1>6 DEF UserAdds
  <2>2. Connecting(NewService(host, port, TRUE, TRUE)) \in Service
    BY NewTypes, RecordTypes
  <2>3. /\ Connecting(NewService(host, port, TRUE, TRUE)).auto = FALSE
        /\ Connecting(NewService(host, port, TRUE, TRUE)).entry = TRUE
    BY DEF NewService, Connecting
  <2>4. /\ services'[n] \in Service /\ ~services'[n].auto /\ services'[n].entry
        /\ \A k \in Names : k # n => services'[k] = services[k]
    BY <1>1, <2>1, <2>2, <2>3, OneService DEF ServicesOK
  <2>5. services'[n] # Absent
    BY <2>4, ServiceAssumption
  <2>6. \A k \in Names : k # n => (Live(k) <=> Live(k)')
    BY <1>1, <1>6 DEF UserAdds, ConnectServer, Live, LinksOK
  <2>7. gui' = [at |-> "add", name |-> n]
    BY <1>6 DEF UserAdds
  <2>8. ListedInv'
    BY <1>1, <1>2, <1>5, <2>4, <2>5, <2>7 DEF ListedInv, OwnNames, Known
  <2>9. LinkInv'
    BY <1>1, <2>4, <2>5, <2>6, <2>7 DEF LinkInv, OwnNames, Known
  <2>10. QED
    BY <1>4, <2>8, <2>9
<1>7. CASE UserRemoves(n)
  <2>1. /\ services' = [services EXCEPT ![n] = Absent] /\ Known(n)
        /\ IF services[n].entry THEN DisconnectServer(n) ELSE UNCHANGED lib
        /\ gui' = [at |-> "remove", name |-> n]
    BY <1>7 DEF UserRemoves
  <2>2. services'[n] = Absent /\ \A k \in Names : k # n => services'[k] = services[k]
    BY <1>1, <2>1 DEF ServicesOK
  <2>3. \A k \in Names : Live(k)' => Live(k)
    BY <1>1, <2>1 DEF DisconnectServer, Live, LinksOK, lib
  <2>4. n \in OwnNames => ~Live(n)'
    BY <1>1, <2>1, <2>3 DEF LinkInv, DisconnectServer, Live, LinksOK
  <2>5. ListedInv'
    BY <1>1, <1>2, <1>5, <2>1, <2>2 DEF ListedInv, OwnNames, Known
  <2>6. LinkInv'
    BY <1>1, <2>1, <2>2, <2>3, <2>4 DEF LinkInv, OwnNames, Known
  <2>7. QED
    BY <1>4, <2>5, <2>6
<1>8. QED
  BY <1>6, <1>7

(* Delivering a signal keeps the others.                                   *)
LEMMA RemovedTail ==
  ASSUME NEW q \in Seq(Signal), q # <<>>, RemovedAnnounced(q)
  PROVE  RemovedAnnounced(Tail(q))
<1>1. /\ DOMAIN Tail(q) = 1..(Len(q) - 1) /\ DOMAIN q = 1..Len(q) /\ Len(q) \in Nat
      /\ \A i \in 1..(Len(q) - 1) : Tail(q)[i] = q[i + 1]
  OBVIOUS
<1>2. QED
  BY <1>1 DEF RemovedAnnounced

(* A step that leaves services, connections and file alone, and only adds  *)
(* to what is listed.                                                      *)
LEMMA OwnLists ==
  ASSUME SavedInv, ListedInv, LinkInv,
         UNCHANGED <<services, link, stopping, gui, file>>,
         \A k \in OwnNames : Listed(k) => Listed(k)', RemovedAnnounced(queue)'
  PROVE  SavedInv' /\ ListedInv' /\ LinkInv'
<1>1. SavedInv'
  BY DEF SavedInv, Kept, Known
<1>2. ListedInv'
  BY DEF ListedInv, Known
<1>3. LinkInv'
  BY DEF LinkInv, Live, Known
<1>4. QED
  BY <1>1, <1>2, <1>3

(* The ends of the GUI thread's waits, the timer and the browser's signals. *)
LEMMA OwnReturn ==
  ASSUME OwnInv,
         GuiConnectReturns \/ GuiDisconnectReturns \/ AddReturns \/ RemoveReturns
         \/ OnTimer \/ Deliver
  PROVE  SavedInv' /\ ListedInv' /\ LinkInv'
<1>1. /\ TypeOK /\ Where /\ ServicesOK /\ LinksOK /\ dialog \in Seq(Item)
      /\ queue \in Seq(Signal) /\ gui \in Gui
      /\ SavedInv /\ ListedInv /\ LinkInv
  BY DEF OwnInv, TypesPlaces, TypeOK, ServicesOK, LinksOK
<1>2. gui.at \in Waiting => gui.name \in Names
  BY <1>1, Places
<1>3. CASE GuiConnectReturns
  <2>1. /\ gui.at = "connect" /\ gui' = [at |-> "idle"]
        /\ UNCHANGED <<services, link, stopping, dialog, queue, file>>
    BY <1>3 DEF GuiConnectReturns, lib, disk
  <2>2. SavedInv'
    BY <1>1, <2>1 DEF SavedInv, Kept, Known
  <2>3. ListedInv'
    BY <1>1, <2>1 DEF ListedInv, Listed, Known, RemovedAnnounced
  <2>4. LinkInv'
    BY <1>1, <2>1 DEF LinkInv, Live, Known
  <2>5. QED
    BY <2>2, <2>3, <2>4
<1>4. CASE GuiDisconnectReturns
  <2>1. /\ gui.at = "disconnect" /\ gui' = [at |-> "idle"]
        /\ UNCHANGED <<link, stopping, dialog, queue, file>>
        /\ services' = [services EXCEPT ![gui.name] = Disconnected(@)]
    BY <1>4 DEF GuiDisconnectReturns, lib, disk
  <2>2. gui.name \in Names /\ services[gui.name] \in Service
    BY <1>1, <1>2, <2>1 DEF Where, Known, Waiting, ServicesOK
  <2>3. /\ Disconnected(services[gui.name]) \in Service
        /\ Disconnected(services[gui.name]).auto = services[gui.name].auto
    BY <2>2, RecordTypes DEF Disconnected, Service
  <2>4. \A k \in Names : k # gui.name => services'[k] = services[k]
    BY <1>1, <2>1 DEF ServicesOK
  <2>5. services'[gui.name] = Disconnected(services[gui.name])
    BY <1>1, <2>1, <2>2 DEF ServicesOK
  <2>6. \A k \in Names : /\ Known(k) <=> Known(k)'
                         /\ Known(k) => services'[k].auto = services[k].auto
    BY <2>2, <2>3, <2>4, <2>5, ServiceAssumption DEF Known
  <2>7. SavedInv'
    BY <1>1, <2>1, <2>6 DEF SavedInv, Kept, OwnNames
  <2>8. ListedInv'
    BY <1>1, <2>1, <2>6 DEF ListedInv, Listed, RemovedAnnounced, OwnNames
  <2>9. LinkInv'
    BY <1>1, <2>1, <2>4, <2>6 DEF LinkInv, Live, OwnNames
  <2>10. QED
    BY <2>7, <2>8, <2>9
<1>5. CASE AddReturns
  <2> DEFINE item == ItemOf(gui.name, services[gui.name], Connected(gui.name))
  <2>1. /\ gui.at = "add" /\ gui' = [at |-> "idle"] /\ SaveManualServices
        /\ UNCHANGED <<services, link, stopping, queue>>
        /\ dialog' = OnAddService(dialog, item)
    BY <1>5 DEF AddReturns, lib
  <2>2. gui.name \in Names /\ services[gui.name] \in Service
    BY <1>1, <1>2, <2>1 DEF Where, Known, Waiting, ServicesOK
  <2>3. item \in Item /\ item.name = gui.name
    BY <2>2, RecordTypes DEF Connected, ItemOf
  <2> HIDE DEF item
  <2>4. \A k \in Names : k = gui.name \/ Listed(k) => Listed(k)'
    BY <1>1, <2>1, <2>3, AddListed DEF Listed
  <2>5. \A k \in Names : /\ file'[k] # Absent <=> Known(k)
                         /\ Known(k) => file'[k].auto = services[k].auto
    BY <1>1, <2>1, WrittenIs
  <2>6. SavedInv'
    BY <2>1, <2>5 DEF SavedInv, Kept, Known, OwnNames
  <2>7. ListedInv'
    BY <1>1, <2>1, <2>4, <2>5 DEF ListedInv, Known, OwnNames, RemovedAnnounced
  <2>8. LinkInv'
    BY <1>1, <2>1 DEF LinkInv, Live, Known
  <2>9. QED
    BY <2>6, <2>7, <2>8
<1>6. CASE RemoveReturns
  <2>1. /\ gui.at = "remove" /\ gui' = [at |-> "idle"] /\ SaveManualServices
        /\ UNCHANGED <<services, queue>>
        /\ dialog' = OnRemoveService(dialog, gui.name)
        /\ Ends(gui.name) \/ UNCHANGED lib
    BY <1>6 DEF RemoveReturns
  <2>2. \A k \in Names : k # gui.name /\ Listed(k) => Listed(k)'
    BY <1>1, <2>1, RemoveListed DEF Listed
  <2>3. \A k \in Names : /\ file'[k] # Absent <=> Known(k)
                         /\ Known(k) => file'[k].auto = services[k].auto
    BY <1>1, <2>1, WrittenIs
  <2>4. gui.name \in Names
    BY <1>2, <2>1 DEF Waiting
  <2>5. \A k \in Names : Live(k)' => Live(k)
    BY <1>1, <2>1, <2>4 DEF Live, Ends, NoLink, LinksOK, lib
  <2>6. SavedInv'
    BY <2>1, <2>3 DEF SavedInv, Kept, Known, OwnNames
  <2>7. ListedInv'
    BY <1>1, <2>1, <2>2, <2>3 DEF ListedInv, Known, OwnNames, RemovedAnnounced
  <2>8. LinkInv'
    BY <1>1, <2>1, <2>5 DEF LinkInv, Known, OwnNames
  <2>9. QED
    BY <2>6, <2>7, <2>8
<1>7. CASE OnTimer
  <2>1. /\ gui.at = "idle" /\ UNCHANGED <<link, stopping, queue, gui, file>>
        /\ services' = [k \in Names |-> Ticked(k)]
        /\ dialog' = OnConnectionChange(dialog, {k \in Names : Reported(k)})
    BY <1>7 DEF OnTimer, lib, disk, Idle
  <2>2. \A k \in Names : /\ Known(k) <=> Known(k)'
                         /\ Known(k) => /\ services'[k].auto = services[k].auto
                                        /\ services'[k].entry = services[k].entry
    BY <1>1, <2>1, TickTypes DEF Known
  <2>3. \A k \in Names : Listed(k) <=> Listed(k)'
    BY <1>1, <2>1, ShownListed DEF Listed
  <2>4. SavedInv'
    BY <1>1, <2>1, <2>2 DEF SavedInv, Kept, OwnNames
  <2>5. ListedInv'
    BY <1>1, <2>1, <2>2, <2>3 DEF ListedInv, OwnNames, RemovedAnnounced
  <2>6. LinkInv'
    BY <1>1, <2>1, <2>2 DEF LinkInv, Live, OwnNames
  <2>7. QED
    BY <2>4, <2>5, <2>6
<1>8. CASE Deliver
  <2>1. /\ gui.at = "idle" /\ queue # <<>> /\ queue' = Tail(queue)
        /\ UNCHANGED <<services, link, stopping, gui, file>>
    BY <1>8 DEF Deliver, lib, disk, Idle
  <2>2. Head(queue) \in Signal /\ Head(queue) = queue[1] /\ 1 \in DOMAIN queue
    BY <1>1, <2>1
  <2>3. CASE Head(queue).kind = "added"
    <3>1. Head(queue).item \in Item /\ dialog' = OnAddService(dialog, Head(queue).item)
      BY <1>8, <2>2, <2>3 DEF Deliver, Signal
    <3>2. QED
      <4>1. \A k \in OwnNames : Listed(k) => Listed(k)'
        BY <1>1, <3>1, AddListed DEF Listed
      <4>2. RemovedAnnounced(Tail(queue))
        BY <1>1, <2>1, RemovedTail DEF ListedInv
      <4>3. RemovedAnnounced(queue)'
        BY <2>1, <4>2 DEF RemovedAnnounced
      <4>4. QED
        BY <1>1, <2>1, <4>1, <4>3, OwnLists
  <2>4. CASE Head(queue).kind # "added"
    <3>1. /\ dialog' = OnRemoveService(dialog, Head(queue).name)
          /\ Head(queue).name \in Announced
      BY <1>1, <1>8, <2>2, <2>4 DEF Deliver, Signal, ListedInv, RemovedAnnounced
    <3>2. \A k \in OwnNames : Listed(k) => Listed(k)'
      BY <1>1, <3>1, RemoveListed DEF Listed, OwnNames
    <3>3. QED
      <4>1. RemovedAnnounced(Tail(queue))
        BY <1>1, <2>1, RemovedTail DEF ListedInv
      <4>2. RemovedAnnounced(queue)'
        BY <2>1, <4>1 DEF RemovedAnnounced
      <4>3. QED
        BY <1>1, <2>1, <3>2, <4>2, OwnLists
  <2>5. QED
    BY <2>3, <2>4
<1>9. QED
  BY <1>3, <1>4, <1>5, <1>6, <1>7, <1>8

(* The file is read when the program starts.                               *)
LEMMA OwnStart ==
  ASSUME OwnInv, Wire \/ LoadReturns \/ Loaded \/ \E n \in Names : LoadLine(n)
  PROVE  SavedInv' /\ ListedInv' /\ LinkInv'
<1>1. /\ TypeOK /\ Where /\ ServicesOK /\ LinksOK /\ FileOK /\ dialog \in Seq(Item)
      /\ gui \in Gui /\ SavedInv /\ ListedInv /\ LinkInv
  BY DEF OwnInv, TypesPlaces, TypeOK, ServicesOK, LinksOK, FileOK
<1>2. CASE Wire
  <2>1. /\ gui.at = "started"
        /\ gui' = [at |-> "loading", left |-> {n \in Names : file[n] # Absent}]
        /\ UNCHANGED <<services, link, stopping, dialog, queue, file>>
    BY <1>2 DEF Wire, lib, disk
  <2>2. SavedInv'
    BY <1>1, <2>1 DEF SavedInv, Kept, Known, OwnNames
  <2>3. ListedInv'
    BY <1>1, <2>1 DEF ListedInv, Listed, Known, RemovedAnnounced
  <2>4. LinkInv'
    BY <1>1, <2>1 DEF LinkInv, Live, Known
  <2>5. QED
    BY <2>2, <2>3, <2>4
<1>3. CASE LoadReturns
  <2> DEFINE item == ItemOf(gui.name, services[gui.name], Connected(gui.name))
  <2>1. /\ gui.at = "load" /\ gui' = [at |-> "loading", left |-> gui.left]
        /\ UNCHANGED <<services, link, stopping, queue, file>>
        /\ dialog' = OnAddService(dialog, item)
    BY <1>3 DEF LoadReturns, lib, disk
  <2>2. gui.name \in Names /\ services[gui.name] \in Service
    BY <1>1, <2>1, Places DEF Where, Known, ServicesOK
  <2>3. item \in Item /\ item.name = gui.name
    BY <2>2, RecordTypes DEF Connected, ItemOf
  <2> HIDE DEF item
  <2>4. \A k \in Names : k = gui.name \/ Listed(k) => Listed(k)'
    BY <1>1, <2>1, <2>3, AddListed DEF Listed
  <2>5. SavedInv'
    BY <1>1, <2>1 DEF SavedInv, Kept, Known
  <2>6. ListedInv'
    BY <1>1, <2>1, <2>4 DEF ListedInv, Known, OwnNames, RemovedAnnounced
  <2>7. LinkInv'
    BY <1>1, <2>1 DEF LinkInv, Live, Known
  <2>8. QED
    BY <2>5, <2>6, <2>7
<1>4. CASE Loaded
  <2>1. /\ gui.at = "loading" /\ gui.left = {} /\ gui' = [at |-> "idle"]
        /\ UNCHANGED <<services, link, stopping, dialog, queue, file>>
    BY <1>4 DEF Loaded, lib, disk
  <2>2. SavedInv'
    BY <1>1, <2>1 DEF SavedInv, Kept, Known
  <2>3. ListedInv'
    BY <1>1, <2>1 DEF ListedInv, Listed, Known, RemovedAnnounced
  <2>4. LinkInv'
    BY <1>1, <2>1 DEF LinkInv, Live, Known
  <2>5. QED
    BY <2>2, <2>3, <2>4
<1>5. ASSUME NEW n \in Names, LoadLine(n)
      PROVE  SavedInv' /\ ListedInv' /\ LinkInv'
  <2> DEFINE line == file[n]
             new  == NewService(line.host, line.port, line.auto_connect, ~line.auto)
             left == gui.left \ {n}
  <2>1. gui.at = "loading" /\ n \in gui.left /\ UNCHANGED <<dialog, queue, file>>
    BY <1>5 DEF LoadLine, disk
  <2>2. line \in Line
    BY <1>1, <2>1 DEF Where, FileOK
  <2>3. /\ line.host \in Hosts /\ line.port \in Ports
        /\ line.auto \in BOOLEAN /\ line.auto_connect \in BOOLEAN
    BY <2>2 DEF Line
  <2>4. /\ new \in Service /\ new.auto = line.auto
        /\ Connecting(new) \in Service /\ Connecting(new).auto = line.auto
        /\ Connecting(new).entry = TRUE
    <3>1. new \in Service
      BY <2>3, NewTypes
    <3>2. Connecting(new) \in Service
      BY <3>1, RecordTypes
    <3>3. new.auto = ~~line.auto
      BY DEF NewService
    <3>4. \A s \in Service : Connecting(s).auto = s.auto /\ Connecting(s).entry = TRUE
      BY DEF Connecting, Service
    <3>5. QED
      BY <2>3, <3>1, <3>2, <3>3, <3>4
  <2> HIDE DEF new
  <2>5. [gui EXCEPT !.left = left] = [at |-> "loading", left |-> left]
    <3>1. gui = [at |-> "loading", left |-> gui.left]
      BY <1>1, <2>1, Places
    <3>2. \A x, y : [[at |-> "loading", left |-> x] EXCEPT !.left = y] = [at |-> "loading", left |-> y]
      OBVIOUS
    <3>3. QED
      BY <3>1, <3>2, Zenon
  <2>6. RemovedAnnounced(queue)' /\ \A k \in Names : Listed(k) <=> Listed(k)'
    BY <1>1, <2>1 DEF ListedInv, RemovedAnnounced, Listed
  <2>7. CASE Known(n) /\ UNCHANGED <<services, lib>> /\ gui' = [gui EXCEPT !.left = left]
    <3>1. gui' = [at |-> "loading", left |-> left] /\ UNCHANGED <<services, link, stopping>>
      BY <2>5, <2>7 DEF lib
    <3>2. SavedInv'
      BY <1>1, <2>1, <2>7, <3>1 DEF SavedInv, Kept, Known
    <3>3. ListedInv'
      BY <1>1, <2>1, <2>6, <3>1 DEF ListedInv, Known, OwnNames
    <3>4. LinkInv'
      BY <1>1, <2>1, <3>1 DEF LinkInv, Live, Known
    <3>5. QED
      BY <3>2, <3>3, <3>4
  <2>8. CASE /\ ~Known(n) /\ line.auto
             /\ services' = [services EXCEPT ![n] = new] /\ UNCHANGED lib
             /\ gui' = [gui EXCEPT !.left = left]
    <3>1. gui' = [at |-> "loading", left |-> left] /\ UNCHANGED <<link, stopping>>
      BY <2>5, <2>8 DEF lib
    <3>2. services'[n] = new /\ \A k \in Names : k # n => services'[k] = services[k]
      BY <1>1, <2>4, <2>8, OneService DEF ServicesOK
    <3>3. services'[n] # Absent /\ n \notin OwnNames
      BY <1>1, <2>1, <2>4, <2>8, <3>2, ServiceAssumption DEF ListedInv, Where
    <3>4. SavedInv'
      BY ZenonT(60), <1>1, <2>1, <2>4, <2>8, <3>1, <3>2, <3>3 DEF SavedInv, Kept, Known, OwnNames
    <3>5. ListedInv'
      BY <1>1, <2>1, <2>6, <3>1, <3>2, <3>3 DEF ListedInv, Known, OwnNames
    <3>6. LinkInv'
      BY <1>1, <2>1, <3>1, <3>2, <3>3 DEF LinkInv, Live, Known, OwnNames
    <3>7. QED
      BY <3>4, <3>5, <3>6
  <2>9. CASE /\ ~Known(n) /\ ~line.auto
             /\ gui' = [at |-> "load", name |-> n, left |-> left]
             /\ \/ services' = [services EXCEPT ![n] = Connecting(new)] /\ ConnectServer(n)
                \/ services' = [services EXCEPT ![n] = new] /\ UNCHANGED lib
    <3>1. /\ services'[n] \in Service /\ services'[n].auto = line.auto
          /\ \A k \in Names : k # n => services'[k] = services[k]
          /\ services'[n].entry \/ UNCHANGED lib
      <4>1. CASE services' = [services EXCEPT ![n] = Connecting(new)]
        BY <1>1, <2>4, <4>1, OneService DEF ServicesOK
      <4>2. CASE services' = [services EXCEPT ![n] = new] /\ UNCHANGED lib
        BY <1>1, <2>4, <4>2, OneService DEF ServicesOK
      <4>3. QED
        BY <2>9, <4>1, <4>2
    <3>2. services'[n] # Absent
      BY <3>1, ServiceAssumption
    <3>3. \A k \in Names : k # n => (Live(k) <=> Live(k)')
      BY <1>1, <2>9 DEF ConnectServer, Live, LinksOK, lib
    <3>4. n \in OwnNames /\ Live(n)' => services'[n].entry
      BY <1>1, <2>9, <3>1 DEF LinkInv, Live, lib
    <3>5. file[n] # Absent
      BY <1>1, <2>1 DEF Where
    <3>6. SavedInv'
      BY <1>1, <2>1, <2>9, <3>1, <3>2, <3>5 DEF SavedInv, Kept, Known, OwnNames
    <3>7. ListedInv'
      BY <1>1, <2>1, <2>6, <2>9, <3>1, <3>2 DEF ListedInv, Known, OwnNames
    <3>8. LinkInv'
      BY <1>1, <2>1, <2>9, <3>1, <3>2, <3>3, <3>4 DEF LinkInv, Known, OwnNames
    <3>9. QED
      BY <3>6, <3>7, <3>8
  <2>10. QED
    BY <1>5, <2>7, <2>8, <2>9 DEF LoadLine, new
<1>6. QED
  BY <1>2, <1>3, <1>4, <1>5

(* The network, the library's connections, and the program's end and start. *)
LEMMA OwnRest ==
  ASSUME OwnInv,
         \/ Network \/ BrowserConnectReturns \/ BrowserDisconnectReturns
         \/ Library \/ Crash \/ Quit \/ Start \/ UserCloses \/ BonjourChanges
  PROVE  SavedInv' /\ ListedInv' /\ LinkInv'
<1>1. /\ TypesPlaces /\ ServicesOK /\ LinksOK /\ SavedInv /\ ListedInv /\ LinkInv
  BY DEF OwnInv, TypesPlaces, TypeOK, ServicesOK, LinksOK
<1>2. CASE Network \/ BrowserConnectReturns \/ BrowserDisconnectReturns
  <2>1. RemovedAnnounced(queue)
    BY <1>1 DEF ListedInv
  <2>2. /\ UNCHANGED <<dialog, gui, file>>
        /\ RemovedAnnounced(queue)'
        /\ \A n \in Names \ Announced : /\ services'[n] = services[n]
                                        /\ link'[n] = link[n]
                                        /\ n \in stopping' <=> n \in stopping
        /\ \A n \in Names : /\ Known(n) => Known(n)' /\ Same(n)
                            /\ ~Known(n) /\ Known(n)' => services'[n].auto
    BY <1>1, <1>2, <2>1, NetworkFrame
  <2>3. \A n \in OwnNames : Known(n) <=> Known(n)'
    BY <2>2 DEF Known, OwnNames
  <2>4. SavedInv'
    BY <1>1, <2>2, <2>3 DEF SavedInv, Kept, Same, OwnNames
  <2>5. \A n \in OwnNames : (Listed(n) <=> Listed(n)') /\ (Live(n) <=> Live(n)')
    BY <2>2 DEF Listed, Live, OwnNames
  <2>6. gui.at \in Waiting => gui.name \in Names
    BY <1>1, Places DEF TypesPlaces, TypeOK
  <2>7. ListedInv'
    BY <1>1, <2>2, <2>3, <2>5, <2>6 DEF ListedInv, OwnNames, Waiting
  <2>8. LinkInv'
    BY <1>1, <2>2, <2>3, <2>5, <2>6 DEF LinkInv, OwnNames, Waiting
  <2>9. QED
    BY <2>4, <2>7, <2>8
<1>3. CASE Library
  <2>1. PICK n \in Names : Opens(n) \/ ComesUp(n) \/ Drops(n) \/ Ends(n)
    BY <1>3 DEF Library
  <2>2. UNCHANGED <<services, dialog, queue, gui, file>>
    BY <1>3 DEF Library, disk
  <2>3. \A k \in Names : Live(k)' => Live(k)
    BY <1>1, <2>1 DEF Opens, ComesUp, Drops, Ends, NoLink, Live, LinksOK
  <2>4. SavedInv'
    BY <1>1, <2>2 DEF SavedInv, Kept, Known
  <2>5. ListedInv'
    BY <1>1, <2>2 DEF ListedInv, Listed, Known, RemovedAnnounced
  <2>6. gui.at \in Waiting => gui.name \in Names
    BY <1>1, Places DEF TypesPlaces, TypeOK
  <2>7. LinkInv'
    BY <1>1, <2>2, <2>3, <2>6 DEF LinkInv, Known, OwnNames, Waiting
  <2>8. QED
    BY <2>4, <2>5, <2>7
<1>4. ASSUME Vanish, UNCHANGED disk \/ (gui.at = "idle" /\ SaveManualServices)
      PROVE  SavedInv' /\ ListedInv' /\ LinkInv'
  <2>1. /\ services' = Nothing /\ link' = [n \in Names |-> NoLink]
        /\ dialog' = <<>> /\ queue' = <<>> /\ gui' = [at |-> "down"]
    BY <1>4 DEF Vanish
  <2>2. \A n \in Names : services'[n] = Absent /\ link'[n].status = "none"
    BY <2>1 DEF Nothing, NoLink
  <2>3. SavedInv'
    BY <2>1, <2>2 DEF SavedInv, Kept, Known
  <2>4. \A n \in OwnNames : file'[n] # Absent => ~file'[n].auto
    BY <1>1, <1>4, WrittenIs DEF disk, ListedInv, OwnNames
  <2>5. RemovedAnnounced(queue)'
    BY <2>1 DEF RemovedAnnounced
  <2>6. ListedInv'
    BY <2>1, <2>2, <2>4, <2>5 DEF ListedInv, Known, OwnNames
  <2>7. LinkInv'
    BY <2>1, <2>2 DEF LinkInv, Live, OwnNames
  <2>8. QED
    BY <2>3, <2>6, <2>7
<1>5. CASE Start
  <2>1. /\ gui.at = "down" /\ gui' = [at |-> "started"]
        /\ UNCHANGED <<services, link, stopping, dialog, queue, file>>
    BY <1>5 DEF Start, lib, disk
  <2>2. SavedInv'
    BY <1>1, <2>1 DEF SavedInv, Kept, Known
  <2>3. ListedInv'
    BY <1>1, <2>1 DEF ListedInv, Listed, Known, RemovedAnnounced
  <2>4. LinkInv'
    BY <1>1, <2>1 DEF LinkInv, Live, Known
  <2>5. QED
    BY <2>2, <2>3, <2>4
<1>6. CASE UserCloses
  <2>1. /\ gui.at = "idle" /\ SaveManualServices
        /\ UNCHANGED <<services, link, stopping, dialog, queue, gui>>
    BY <1>6 DEF UserCloses, lib, Idle
  <2>2. \A n \in Names : /\ file'[n] # Absent <=> Known(n)
                         /\ Known(n) => file'[n].auto = services[n].auto
    BY <1>1, <2>1, WrittenIs
  <2>3. SavedInv'
    BY <2>1, <2>2 DEF SavedInv, Kept, Known, OwnNames
  <2>4. ListedInv'
    BY <1>1, <2>1, <2>2 DEF ListedInv, Listed, Known, OwnNames, RemovedAnnounced
  <2>5. LinkInv'
    BY <1>1, <2>1 DEF LinkInv, Live, Known
  <2>6. QED
    BY <2>3, <2>4, <2>5
<1>7. CASE BonjourChanges
  <2>1. UNCHANGED <<services, link, stopping, dialog, queue, gui, file>>
    BY <1>7 DEF BonjourChanges, lib
  <2>2. SavedInv' /\ LinkInv'
    BY <1>1, <2>1 DEF SavedInv, Kept, Known, LinkInv, Live
  <2>3. ListedInv'
    BY <1>1, <2>1 DEF ListedInv, Listed, Known, RemovedAnnounced
  <2>4. QED
    BY <2>2, <2>3
<1>8. QED
  BY <1>2, <1>3, <1>4, <1>5, <1>6, <1>7 DEF Crash, Quit, Idle

LEMMA OwnInit == Init => OwnInv
<1> SUFFICES ASSUME Init PROVE OwnInv
  OBVIOUS
<1>1. TypesPlaces
  BY TypesInit
<1>2. /\ gui.at = "started" /\ queue = <<>>
      /\ \A n \in Names : services[n] = Absent /\ file[n] = Absent /\ link[n].status = "none"
  BY DEF Init, Nothing, NoLink
<1>3. SavedInv
  BY <1>2 DEF SavedInv, Kept, Known
<1>4. ListedInv
  BY <1>2 DEF ListedInv, Known, OwnNames, RemovedAnnounced
<1>5. LinkInv
  BY <1>2 DEF LinkInv, Live, OwnNames
<1>6. QED
  BY <1>1, <1>3, <1>4, <1>5 DEF OwnInv

LEMMA OwnStep == OwnInv /\ [Next]_vars => OwnInv'
<1> SUFFICES ASSUME OwnInv, [Next]_vars PROVE OwnInv'
  OBVIOUS
<1>1. TypesPlaces'
  BY TypesStep DEF OwnInv
<1>2. CASE UNCHANGED vars
  <2>1. UNCHANGED <<services, link, stopping, dialog, queue, gui, file>>
    BY <1>2 DEF vars, lib, disk
  <2>2. SavedInv' /\ LinkInv'
    BY <2>1 DEF OwnInv, SavedInv, Kept, Known, LinkInv, Live
  <2>3. ListedInv'
    BY <2>1 DEF OwnInv, ListedInv, Listed, Known, RemovedAnnounced
  <2>4. QED
    BY <1>1, <2>2, <2>3 DEF OwnInv
<1>3. CASE Next
  <2>1. CASE \E n \in Names : UserChecks(n) \/ UserUnchecks(n)
    BY <1>1, <2>1, OwnRequest DEF OwnInv
  <2>2. CASE \E n \in Names : UserAdds(n) \/ UserRemoves(n)
    BY <1>1, <2>2, OwnAddRemove DEF OwnInv
  <2>3. QED
    BY <1>1, <1>3, <2>1, <2>2, OwnReturn, OwnStart, OwnRest
       DEF OwnInv, Next, GuiStep, User, Names
<1>4. QED
  BY <1>2, <1>3

(* A crash between two requests loses no manual service, and none that the *)
(* user removed comes back.                                                *)
THEOREM ManualIsSaved == Spec => []ManualSaved
<1>1. OwnInv => ManualSaved
  BY DEF OwnInv, SavedInv, ManualSaved, Kept, Idle, OwnNames
<1>2. QED
  BY <1>1, OwnInit, OwnStep, PTL DEF Spec

(* Every service only the user adds can be operated from the dialog.       *)
THEOREM ManualIsListed == Spec => []ManualListed
<1>1. OwnInv => ManualListed
  <2> SUFFICES ASSUME OwnInv PROVE ManualListed
    OBVIOUS
  <2>1. dialog \in Seq(Item)
    BY DEF OwnInv, TypesPlaces, TypeOK
  <2>2. QED
    BY <2>1, FirstFound DEF OwnInv, ListedInv, ManualListed, Listed, Idle, OwnNames
<1>2. QED
  BY <1>1, OwnInit, OwnStep, PTL DEF Spec

(* A connection that runs belongs to a service that can end it.            *)
THEOREM NoConnectionLost == Spec => []NoLostConnection
<1>1. OwnInv => NoLostConnection
  BY DEF OwnInv, LinkInv, NoLostConnection, Live, OwnNames
<1>2. QED
  BY <1>1, OwnInit, OwnStep, PTL DEF Spec

---------------------------------------------------------------------------
(* No step but the user's clears auto_connect of a service that stays.     *)
StopsOnlyByUser ==
    \A n \in Names :
      /\ services[n] # Absent /\ services'[n] # Absent
      /\ services[n].auto_connect /\ ~services'[n].auto_connect
      => UserUnchecks(n)

LEMMA StopStep ==
  ASSUME OwnInv, Next
  PROVE  StopsOnlyByUser
<1>1. /\ TypeOK /\ Where /\ ServicesOK /\ LinksOK /\ gui \in Gui
      /\ TypesPlaces /\ RemovedAnnounced(queue)
  BY DEF OwnInv, ListedInv, TypesPlaces, TypeOK, ServicesOK, LinksOK
<1>2. ASSUME UNCHANGED services
      PROVE  StopsOnlyByUser
  BY <1>2 DEF StopsOnlyByUser
<1>3. ASSUME NEW n \in Names, NEW s,
             services' = [services EXCEPT ![n] = s],
             \/ s = Absent \/ services[n] = Absent
             \/ services[n].auto_connect => s.auto_connect
      PROVE  StopsOnlyByUser
  <2>1. services'[n] = s /\ \A k \in Names : k # n => services'[k] = services[k]
    BY <1>1, <1>3 DEF ServicesOK
  <2>2. QED
    BY <1>3, <2>1 DEF StopsOnlyByUser
<1>4. ASSUME NEW n \in Names, UserChecks(n)
      PROVE  StopsOnlyByUser
  <2>1. CASE ~Known(n)
    BY <1>2, <1>4, <2>1 DEF UserChecks, ConnectService
  <2>2. CASE Known(n)
    <3>1. /\ services' = [services EXCEPT ![n] = Connecting([services[n] EXCEPT !.auto_connect = TRUE])]
          /\ services[n] \in Service
      BY <1>1, <1>4, <2>2 DEF UserChecks, ConnectService, Known, ServicesOK
    <3>2. Connecting([services[n] EXCEPT !.auto_connect = TRUE]).auto_connect
      BY <3>1 DEF Connecting, Service
    <3>3. QED
      BY <1>3, <3>1, <3>2
  <2>3. QED
    BY <2>1, <2>2
<1>5. ASSUME NEW n \in Names, UserUnchecks(n)
      PROVE  StopsOnlyByUser
  <2>1. \A k \in Names : k # n => services'[k] = services[k]
    BY <1>1, <1>5 DEF UserUnchecks, DisconnectService, ServicesOK
  <2>2. QED
    BY <1>5, <2>1 DEF StopsOnlyByUser
<1>6. ASSUME NEW n \in Names, UserRemoves(n)
      PROVE  StopsOnlyByUser
  BY <1>3, <1>6 DEF UserRemoves
<1>7. ASSUME NEW n \in Typed, UserAdds(n)
      PROVE  StopsOnlyByUser
  <2>1. services[n] = Absent /\ n \in Names
    BY <1>7 DEF UserAdds, Known, Names
  <2>2. QED
    BY <1>3, <1>7, <2>1 DEF UserAdds
<1>8. CASE GuiDisconnectReturns
  <2>1. /\ gui.at = "disconnect"
        /\ services' = [services EXCEPT ![gui.name] = Disconnected(services[gui.name])]
    BY <1>8 DEF GuiDisconnectReturns
  <2>2. gui.name \in Names /\ services[gui.name] \in Service
    BY <1>1, <2>1, Places DEF Where, Known, Waiting, ServicesOK
  <2>3. Disconnected(services[gui.name]).auto_connect = services[gui.name].auto_connect
    BY <2>2 DEF Disconnected, Service
  <2>4. QED
    BY <1>3, <2>1, <2>2, <2>3
<1>9. CASE OnTimer
  BY <1>1, <1>9, TickTypes DEF OnTimer, StopsOnlyByUser
<1>10. ASSUME NEW n \in Names, LoadLine(n)
       PROVE  StopsOnlyByUser
  <2>1. CASE Known(n)
    BY <1>2, <1>10, <2>1 DEF LoadLine
  <2>2. CASE ~Known(n)
    <3>1. \E s : services' = [services EXCEPT ![n] = s]
      BY <1>10, <2>2 DEF LoadLine
    <3>2. QED
      BY <1>3, <2>2, <3>1 DEF Known
  <2>3. QED
    BY <2>1, <2>2
<1>11. CASE Crash \/ Quit
  BY <1>11 DEF Crash, Quit, Vanish, Nothing, StopsOnlyByUser
<1>12. CASE Network \/ BrowserConnectReturns \/ BrowserDisconnectReturns
  <2>1. \A n \in Names : Known(n) => Same(n)
    BY <1>1, <1>12, NetworkFrame
  <2>2. QED
    BY <2>1 DEF StopsOnlyByUser, Known, Same
<1>13. CASE \/ GuiConnectReturns \/ AddReturns \/ RemoveReturns \/ Deliver \/ Wire
            \/ LoadReturns \/ Loaded \/ UserCloses \/ BonjourChanges \/ Library \/ Start
  BY <1>2, <1>13 DEF GuiConnectReturns, AddReturns, RemoveReturns, Deliver, Wire,
                     LoadReturns, Loaded, UserCloses, BonjourChanges, Library, Start
<1>14. QED
  BY <1>4, <1>5, <1>6, <1>7, <1>8, <1>9, <1>10, <1>11, <1>12, <1>13
     DEF Next, GuiStep, User

(* Only the user stops a service from being connected again.               *)
THEOREM OnlyUserStops == Spec => AutoConnectByUser
<1>1. OwnInv /\ [Next]_vars =>
        [\A n \in Names :
           /\ services[n] # Absent /\ services'[n] # Absent
           /\ services[n].auto_connect /\ ~services'[n].auto_connect
           => UserUnchecks(n)]_vars
  BY StopStep DEF StopsOnlyByUser
<1>2. QED
  BY <1>1, OwnInit, OwnStep, PTL DEF Spec, AutoConnectByUser

---------------------------------------------------------------------------
(* What the dialog shows, of the services only the user adds and of those  *)
(* only the network announces.  The signals on their way tell what it will *)
(* show: where the address of a service differs between two of the dialog, *)
(* the signals and the model, a removal stands between them.               *)
NetNames == Announced \ Typed

SameAddress(x, y) == x.host = y.host /\ x.port = y.port

Once(list, n) ==
    \A i, j \in DOMAIN list : list[i].name = n /\ list[j].name = n => i = j

Shows(i, n)   == dialog[i].name = n
Adds(k, n)    == queue[k].kind = "added" /\ queue[k].item.name = n
Revokes(k, n) == queue[k].kind = "removed" /\ queue[k].name = n

ShownHere(n) ==
    \A i \in DOMAIN dialog :
      Shows(i, n) /\ Known(n) /\ ~SameAddress(dialog[i], services[n])
      => \E m \in DOMAIN queue : Revokes(m, n)

ShownSent(n) ==
    \A i \in DOMAIN dialog, k \in DOMAIN queue :
      Shows(i, n) /\ Adds(k, n) /\ ~SameAddress(dialog[i], queue[k].item)
      => \E m \in DOMAIN queue : m < k /\ Revokes(m, n)

SentHere(n) ==
    \A k \in DOMAIN queue :
      Adds(k, n) /\ Known(n) /\ ~SameAddress(queue[k].item, services[n])
      => \E m \in DOMAIN queue : k < m /\ Revokes(m, n)

SentSent(n) ==
    \A j, k \in DOMAIN queue :
      j < k /\ Adds(j, n) /\ Adds(k, n) /\ ~SameAddress(queue[j].item, queue[k].item)
      => \E m \in DOMAIN queue : j < m /\ m < k /\ Revokes(m, n)

Settled(n) ==
    Once(dialog, n) /\ ShownHere(n) /\ ShownSent(n) /\ SentHere(n) /\ SentSent(n)

(* What is listed or announced is known, but for the one being removed.    *)
Removing(n) == gui.at = "remove" /\ gui.name = n

Believed(n) ==
    Listed(n) \/ (\E k \in DOMAIN queue : Adds(k, n)) => Known(n) \/ Removing(n)

NetOnly(n) ==
    /\ Known(n) => services[n].auto
    /\ file[n] # Absent => file[n].auto
    /\ gui.at \in {"add", "load", "remove"} => gui.name # n

OwnOnly(n) ==
    /\ \A k \in DOMAIN queue : ~Adds(k, n)
    /\ gui.at \in {"add", "load"} /\ gui.name = n => ~Listed(n)

Silent == /\ gui.at \in {"started", "down"} => dialog = <<>> /\ queue = <<>>
          /\ gui.at = "down" => browser.at = "idle"

ItemsInv ==
    /\ \A n \in NetNames \cup OwnNames : Settled(n) /\ Believed(n)
    /\ \A n \in NetNames : NetOnly(n)
    /\ \A n \in OwnNames : OwnOnly(n)
    /\ Silent

LEMMA ItemsInit == Init => ItemsInv
<1> SUFFICES ASSUME Init PROVE ItemsInv
  OBVIOUS
<1>1. /\ dialog = <<>> /\ queue = <<>> /\ gui = [at |-> "started"]
      /\ \A n \in Names : services[n] = Absent /\ file[n] = Absent
  BY DEF Init, Nothing
<1>2. DOMAIN dialog = {} /\ DOMAIN queue = {}
  BY <1>1
<1>3. \A n : Settled(n) /\ Believed(n)
  BY <1>2 DEF Settled, Once, ShownHere, ShownSent, SentHere, SentSent, Believed, Listed
<1>4. \A n \in NetNames : NetOnly(n)
  BY <1>1 DEF NetOnly, NetNames, Names, Known
<1>5. \A n \in OwnNames : OwnOnly(n)
  BY <1>1, <1>2 DEF OwnOnly
<1>6. QED
  BY <1>1, <1>3, <1>4, <1>5 DEF ItemsInv, Silent

(* Taking one item out closes the gap.                                     *)
LEMMA RemovedPlace ==
  ASSUME NEW list \in Seq(Item), NEW k \in DOMAIN list
  PROVE  /\ DOMAIN RemoveAt(list, k) = 1..(Len(list) - 1)
         /\ \A j \in 1..(Len(list) - 1) :
              RemoveAt(list, k)[j] = list[IF j < k THEN j ELSE j + 1]
<1> DEFINE a == SubSeq(list, 1, k - 1)
           b == SubSeq(list, k + 1, Len(list))
<1>1. k \in 1..Len(list) /\ Len(list) \in Nat
  OBVIOUS
<1>2. /\ a \in Seq(Item) /\ Len(a) = k - 1
      /\ \A i \in 1..(k - 1) : a[i] = list[i]
  BY <1>1
<1>3. /\ b \in Seq(Item) /\ Len(b) = Len(list) - k
      /\ \A i \in 1..(Len(list) - k) : b[i] = list[i + k]
  BY <1>1
<1>4. RemoveAt(list, k) = a \o b
  BY DEF RemoveAt
<1> HIDE DEF a, b
<1>5. DOMAIN (a \o b) = 1..(Len(list) - 1)
  BY <1>1, <1>2, <1>3
<1>6. ASSUME NEW j \in 1..(Len(list) - 1)
      PROVE  (a \o b)[j] = list[IF j < k THEN j ELSE j + 1]
  <2>1. CASE j < k
    <3>1. j \in 1..(k - 1)
      BY <1>1, <2>1
    <3>2. (a \o b)[j] = a[j]
      BY <1>2, <1>3, <3>1
    <3>3. QED
      BY <1>2, <2>1, <3>1, <3>2
  <2>2. CASE ~(j < k)
    <3>1. (a \o b)[j] = b[j - (k - 1)]
      BY SMTT(60), <1>1, <1>2, <1>3, <2>2
    <3>2. j - (k - 1) \in 1..(Len(list) - k) /\ (j - (k - 1)) + k = j + 1
      BY <1>1, <2>2
    <3>3. QED
      BY <1>3, <2>2, <3>1, <3>2
  <2>3. QED
    BY <2>1, <2>2
<1>7. QED
  BY <1>4, <1>5, <1>6

(* A name that is taken out, and the items it leaves.                      *)
LEMMA RemovedItems ==
  ASSUME NEW list \in Seq(Item), NEW n
  PROVE  /\ \A j \in DOMAIN OnRemoveService(list, n) :
              \E i \in DOMAIN list : OnRemoveService(list, n)[j] = list[i]
         /\ \A k : Once(list, k) => Once(OnRemoveService(list, n), k)
         /\ Once(list, n) => \A j \in DOMAIN OnRemoveService(list, n) :
                               OnRemoveService(list, n)[j].name # n
<1> DEFINE p == FirstOf(list, n)
           new == OnRemoveService(list, n)
<1>1. CASE p = 0
  <2>1. new = list /\ \A i \in DOMAIN list : list[i].name # n
    BY <1>1, FirstFound DEF OnRemoveService
  <2>2. QED
    BY <2>1
<1>2. CASE p # 0
  <2>1. p \in DOMAIN list /\ list[p].name = n /\ new = RemoveAt(list, p)
    BY <1>2, FirstFound DEF OnRemoveService
  <2> HIDE DEF p, new
  <2> DEFINE at(j) == IF j < p THEN j ELSE j + 1
  <2>2. /\ DOMAIN RemoveAt(list, p) = 1..(Len(list) - 1)
        /\ \A j \in 1..(Len(list) - 1) : RemoveAt(list, p)[j] = list[at(j)]
    BY <2>1, RemovedPlace
  <2>3. /\ DOMAIN new = 1..(Len(list) - 1) /\ DOMAIN list = 1..Len(list)
        /\ Len(list) \in Nat /\ p \in Nat
        /\ \A j \in DOMAIN new : new[j] = list[at(j)]
    <3> HIDE DEF at
    <3>1. DOMAIN list = 1..Len(list) /\ Len(list) \in Nat
      OBVIOUS
    <3>2. QED
      BY <2>1, <2>2, <3>1
  <2>4. \A j \in DOMAIN new : at(j) \in DOMAIN list /\ at(j) # p
    BY <2>3
  <2>5. \A i, j \in DOMAIN new : at(i) = at(j) => i = j
    BY <2>3
  <2> HIDE DEF at
  <2>6. \A k : Once(list, k) => Once(new, k)
    BY <2>3, <2>4, <2>5 DEF Once
  <2>7. Once(list, n) => \A j \in DOMAIN new : new[j].name # n
    BY <2>1, <2>3, <2>4 DEF Once
  <2>8. \A j \in DOMAIN new : \E i \in DOMAIN list : new[j] = list[i]
    BY <2>3, <2>4
  <2>9. QED
    BY <2>6, <2>7, <2>8 DEF new
<1>3. QED
  BY <1>1, <1>2

(* An item that is added, unless the list has it.                          *)
LEMMA AddedItems ==
  ASSUME NEW list \in Seq(Item), NEW item \in Item
  PROVE  /\ \A j \in DOMAIN OnAddService(list, item) :
              \/ \E i \in DOMAIN list : OnAddService(list, item)[j] = list[i]
              \/ OnAddService(list, item)[j] = item
         /\ \A k : k # item.name /\ Once(list, k) => Once(OnAddService(list, item), k)
         /\ Once(list, item.name)
            /\ (\A i \in DOMAIN list : list[i].name = item.name => SameAddress(list[i], item))
            => Once(OnAddService(list, item), item.name)
<1>1. CASE \E i \in DOMAIN list : SameText(list[i], item)
  BY <1>1 DEF OnAddService
<1>2. CASE ~\E i \in DOMAIN list : SameText(list[i], item)
  <2> DEFINE new == Append(list, item)
  <2>1. /\ OnAddService(list, item) = new
        /\ DOMAIN new = 1..(Len(list) + 1) /\ DOMAIN list = 1..Len(list)
        /\ Len(list) \in Nat /\ new[Len(list) + 1] = item
        /\ \A i \in DOMAIN list : new[i] = list[i]
    BY <1>2 DEF OnAddService
  <2> HIDE DEF new
  <2>2. \A j \in DOMAIN new : j \in DOMAIN list \/ j = Len(list) + 1
    BY <2>1
  <2>3. ASSUME NEW k, k # item.name, Once(list, k) PROVE Once(new, k)
    BY <2>1, <2>2, <2>3 DEF Once
  <2>4. ASSUME \A i \in DOMAIN list : list[i].name = item.name => SameAddress(list[i], item)
        PROVE  Once(new, item.name)
    <3>1. \A i \in DOMAIN list : list[i].name # item.name
      BY <1>2, <2>4 DEF SameText, SameAddress
    <3>2. QED
      BY <2>1, <2>2, <3>1 DEF Once
  <2>5. QED
    BY <2>1, <2>2, <2>3, <2>4
<1>3. QED
  BY <1>1, <1>2

(* A step that leaves the queue and what the dialog shows alone, where     *)
(* nothing that is listed or announced gets another address.               *)
Mentioned(n) == Listed(n) \/ \E k \in DOMAIN queue : Adds(k, n)

SameItems ==
    /\ DOMAIN dialog' = DOMAIN dialog
    /\ \A i \in DOMAIN dialog : /\ dialog'[i].name = dialog[i].name
                                /\ SameAddress(dialog'[i], dialog[i])

Carried(n) ==
    /\ Known(n)' /\ Mentioned(n) => Known(n) /\ SameAddress(services'[n], services[n])
    /\ Known(n) => Known(n)' \/ Removing(n)'
    /\ Removing(n) => Removing(n)'

LEMMA CarriedSettled ==
  ASSUME NEW n, UNCHANGED queue, SameItems, Carried(n), Settled(n)
  PROVE  Settled(n)'
<1>1. Once(dialog', n)
  BY DEF Settled, Once, SameItems
<1>2. \A i \in DOMAIN dialog' :
         /\ i \in DOMAIN dialog /\ (Shows(i, n)' <=> Shows(i, n))
         /\ SameAddress(dialog'[i], dialog[i])
  BY DEF SameItems, Shows
<1>3. /\ DOMAIN queue' = DOMAIN queue /\ \A k : queue'[k] = queue[k]
      /\ \A k : (Adds(k, n)' <=> Adds(k, n)) /\ (Revokes(k, n)' <=> Revokes(k, n))
  BY DEF Adds, Revokes
<1>4. ShownHere(n)'
  <2>1. \A i \in DOMAIN dialog : Shows(i, n) => Mentioned(n)
    BY DEF Mentioned, Listed, Shows
  <2>2. QED
    BY <1>2, <1>3, <2>1 DEF Settled, ShownHere, Carried, SameAddress
<1>5. ShownSent(n)'
  BY <1>2, <1>3 DEF Settled, ShownSent, SameAddress
<1>6. SentHere(n)'
  <2>1. \A k \in DOMAIN queue : Adds(k, n) => Mentioned(n)
    BY DEF Mentioned
  <2>2. QED
    BY <1>3, <2>1 DEF Settled, SentHere, Carried, SameAddress
<1>7. SentSent(n)'
  BY <1>3 DEF Settled, SentSent
<1>8. Once(dialog, n)'
  BY <1>1 DEF Once
<1>9. QED
  BY <1>4, <1>5, <1>6, <1>7, <1>8 DEF Settled

LEMMA CarriedItems ==
  ASSUME ItemsInv, UNCHANGED queue, SameItems,
         \A n \in NetNames \cup OwnNames : Carried(n),
         \A n \in NetNames : NetOnly(n)',
         \A n \in OwnNames : gui'.at \in {"add", "load"} /\ gui'.name = n => ~Listed(n),
         Silent'
  PROVE  ItemsInv'
<1>1. \A n : /\ Listed(n)' <=> Listed(n)
             /\ \A k \in DOMAIN queue : Adds(k, n)' <=> Adds(k, n)
  BY DEF SameItems, Listed, Adds
<1>2. \A n \in NetNames \cup OwnNames : Settled(n)'
  BY CarriedSettled DEF ItemsInv
<1>3. \A n \in NetNames \cup OwnNames : Believed(n)'
  BY <1>1 DEF ItemsInv, Believed, Carried
<1>4. \A n \in OwnNames : OwnOnly(n)'
  BY <1>1 DEF ItemsInv, OwnOnly
<1>5. QED
  BY <1>2, <1>3, <1>4 DEF ItemsInv

(* The same, where every service stays and the GUI thread adds and removes *)
(* none.                                                                   *)
Stays(n) ==
    /\ Known(n)' <=> Known(n)
    /\ Known(n) => /\ services'[n].auto = services[n].auto
                   /\ SameAddress(services'[n], services[n])

LEMMA StaysItems ==
  ASSUME ItemsInv, UNCHANGED queue, SameItems, \A n \in Names : Stays(n),
         \A n \in NetNames : file'[n] # Absent => file'[n].auto,
         \/ gui.at # "remove" /\ gui'.at \in {"idle", "connect", "disconnect", "loading"}
         \/ UNCHANGED gui /\ (gui.at \in {"started", "down"} => UNCHANGED <<dialog, browser>>)
  PROVE  ItemsInv'
<1>1. NetNames \subseteq Names /\ OwnNames \subseteq Names
  BY DEF NetNames, OwnNames, Names
<1>2. \A n \in Names : Carried(n)
  BY DEF Stays, Carried, Removing
<1>3. \A n \in NetNames : NetOnly(n)'
  BY <1>1 DEF ItemsInv, NetOnly, Stays
<1>4. \A n \in OwnNames : gui'.at \in {"add", "load"} /\ gui'.name = n => ~Listed(n)
  BY DEF ItemsInv, OwnOnly
<1>5. Silent'
  BY DEF ItemsInv, Silent
<1>6. QED
  BY <1>1, <1>2, <1>3, <1>4, <1>5, CarriedItems

LEMMA SameDialog == UNCHANGED dialog => SameItems
BY DEF SameItems, SameAddress

(* Steps of the GUI thread, the library and the browser that keep the      *)
(* services and what is on its way.                                        *)
LEMMA ItemsAsked ==
  ASSUME OwnInv, ItemsInv, NEW n \in Names, UserChecks(n) \/ UserUnchecks(n)
  PROVE  ItemsInv'
<1>1. /\ TypeOK /\ ServicesOK /\ dialog \in Seq(Item)
  BY DEF OwnInv, TypesPlaces, TypeOK, ServicesOK
<1>2. /\ gui.at = "idle" /\ UNCHANGED <<queue, file, browser>>
      /\ ConnectService(n) \/ DisconnectService(n)
  BY DEF UserChecks, UserUnchecks, Idle, disk
<1>3. SameItems
  <2>1. PICK i \in DOMAIN dialog : \E b \in BOOLEAN : dialog' = [dialog EXCEPT ![i].checked = b]
    BY DEF UserChecks, UserUnchecks
  <2>2. /\ DOMAIN dialog' = DOMAIN dialog
        /\ \A j \in DOMAIN dialog : dialog[j] \in Item
    BY <1>1, <2>1
  <2>3. \A j \in DOMAIN dialog : /\ dialog'[j].name = dialog[j].name
                                 /\ dialog'[j].host = dialog[j].host
                                 /\ dialog'[j].port = dialog[j].port
    BY <2>1, <2>2 DEF Item
  <2>4. QED
    BY <2>2, <2>3 DEF SameItems, SameAddress
<1>4. \A k \in Names : Stays(k)
  <2>1. \A k \in Names : Known(k) <=> Known(k)'
    BY <1>1, <1>2, ConnectTypes DEF Known
  <2>2. \A k \in Names : k # n => services'[k] = services[k]
    BY <1>1, <1>2 DEF ConnectService, DisconnectService, ServicesOK
  <2>3. ASSUME Known(n)
        PROVE  services'[n].auto = services[n].auto /\ SameAddress(services'[n], services[n])
    <3>1. services[n] \in Service
      BY <1>1, <2>3 DEF ServicesOK, Known
    <3>2. \A s \in Service :
            /\ Connecting([s EXCEPT !.auto_connect = TRUE]).auto = s.auto
            /\ Connecting([s EXCEPT !.auto_connect = TRUE]).host = s.host
            /\ Connecting([s EXCEPT !.auto_connect = TRUE]).port = s.port
            /\ [s EXCEPT !.auto_connect = FALSE].auto = s.auto
            /\ [s EXCEPT !.auto_connect = FALSE].host = s.host
            /\ [s EXCEPT !.auto_connect = FALSE].port = s.port
      BY DEF Service, Connecting
    <3>3. \/ services'[n] = Connecting([services[n] EXCEPT !.auto_connect = TRUE])
          \/ services'[n] = [services[n] EXCEPT !.auto_connect = FALSE]
      BY <1>1, <1>2, <2>3 DEF ConnectService, DisconnectService, ServicesOK
    <3>4. QED
      BY <3>1, <3>2, <3>3 DEF SameAddress
  <2>4. QED
    BY <2>1, <2>2, <2>3 DEF Stays, SameAddress
<1>5. gui' = gui \/ gui'.at \in {"connect", "disconnect"}
  BY <1>2 DEF ConnectService, DisconnectService
<1>6. \A k \in NetNames : file'[k] # Absent => file'[k].auto
  BY <1>2 DEF ItemsInv, NetOnly
<1>7. QED
  BY <1>2, <1>3, <1>4, <1>5, <1>6, StaysItems

LEMMA ItemsTimer ==
  ASSUME OwnInv, ItemsInv, OnTimer
  PROVE  ItemsInv'
<1>1. /\ ServicesOK /\ LinksOK /\ dialog \in Seq(Item)
  BY DEF OwnInv, TypesPlaces, TypeOK, ServicesOK, LinksOK
<1>2. /\ gui.at = "idle" /\ UNCHANGED <<queue, file, gui>>
      /\ services' = [k \in Names |-> Ticked(k)]
      /\ dialog' = OnConnectionChange(dialog, {k \in Names : Reported(k)})
  BY DEF OnTimer, Idle, disk
<1>3. SameItems
  <2>1. \A i \in DOMAIN dialog : dialog[i] \in Item
    BY <1>1
  <2> DEFINE reported == {k \in Names : Reported(k)}
  <2>2. dialog' = OnConnectionChange(dialog, reported)
    BY <1>2
  <2> HIDE DEF reported
  <2>3. QED
    BY <2>1, <2>2 DEF OnConnectionChange, Item, SameItems, SameAddress
<1>4. ASSUME NEW k \in Names PROVE Stays(k)
  <2>1. /\ Ticked(k) = Absent <=> services[k] = Absent
        /\ services[k] # Absent => Ticked(k).auto = services[k].auto
    BY <1>1, TickTypes
  <2>2. services'[k] = Ticked(k)
    BY <1>2
  <2>3. services[k] # Absent => /\ Ticked(k).host = services[k].host
                                /\ Ticked(k).port = services[k].port
    BY <1>1 DEF Ticked, ServicesOK, Service
  <2>4. QED
    BY <2>1, <2>2, <2>3 DEF Stays, Known, SameAddress
<1>5. \A k \in NetNames : file'[k] # Absent => file'[k].auto
  BY <1>2 DEF ItemsInv, NetOnly
<1>6. QED
  BY <1>2, <1>3, <1>4, <1>5, StaysItems

LEMMA ItemsKept ==
  ASSUME OwnInv, ItemsInv,
         \/ GuiConnectReturns \/ GuiDisconnectReturns \/ UserCloses \/ BonjourChanges
         \/ Library \/ Wire \/ Loaded \/ UNCHANGED vars
  PROVE  ItemsInv'
<1>1. /\ ServicesOK /\ Where /\ gui \in Gui /\ NetNames \subseteq Names
  BY DEF OwnInv, TypesPlaces, TypeOK, ServicesOK, NetNames, Names
<1>2. SameItems /\ UNCHANGED <<dialog, queue, browser>>
  <2>1. UNCHANGED <<dialog, queue, browser>>
    BY DEF GuiConnectReturns, GuiDisconnectReturns, UserCloses, BonjourChanges,
           Library, Wire, Loaded, vars
  <2>2. QED
    BY <2>1, SameDialog
<1>3. ASSUME UNCHANGED services PROVE \A n \in Names : Stays(n)
  BY <1>3 DEF Stays, Known, SameAddress
<1>4. \A n \in NetNames : file[n] # Absent => file[n].auto
  BY DEF ItemsInv, NetOnly
<1>5. CASE GuiDisconnectReturns
  <2>1. gui.at = "disconnect" /\ gui'.at = "idle" /\ UNCHANGED file
        /\ services' = [services EXCEPT ![gui.name] = Disconnected(services[gui.name])]
    BY <1>5 DEF GuiDisconnectReturns, disk
  <2>2. PICK m \in Names : m = gui.name /\ Known(gui.name)
    BY <1>1, <2>1, Places DEF Where, Waiting
  <2>3. services[m] \in Service /\ Known(m)
    BY <1>1, <2>2 DEF ServicesOK, Known
  <2>4. /\ Disconnected(services[m]) \in Service
        /\ Disconnected(services[m]).auto = services[m].auto
        /\ SameAddress(Disconnected(services[m]), services[m])
    BY <2>3 DEF Disconnected, Service, SameAddress
  <2>5. \A n \in Names : n # m => services'[n] = services[n]
    BY <1>1, <2>1, <2>2 DEF ServicesOK
  <2>6. services'[m] = Disconnected(services[m])
    BY <1>1, <2>1, <2>2 DEF ServicesOK
  <2>7. \A n \in Names : Stays(n)
    BY <2>3, <2>4, <2>5, <2>6, ServiceAssumption DEF Stays, Known, SameAddress
  <2>8. QED
    BY <1>2, <1>4, <2>1, <2>7, StaysItems
<1>6. CASE UserCloses
  <2>1. UNCHANGED <<services, gui>> /\ SaveManualServices
    BY <1>6 DEF UserCloses
  <2>2. \A n \in NetNames : file'[n] # Absent => file'[n].auto
    BY <1>1, <2>1, WrittenIs DEF ItemsInv, NetOnly
  <2>3. gui.at = "idle"
    BY <1>6 DEF UserCloses, Idle
  <2>4. QED
    BY <1>2, <1>3, <2>1, <2>2, <2>3, StaysItems
<1>7. CASE GuiConnectReturns \/ BonjourChanges \/ Library \/ Wire \/ Loaded \/ UNCHANGED vars
  <2>1. /\ UNCHANGED <<services, file>>
        /\ \/ gui.at # "remove" /\ gui'.at \in {"idle", "connect", "disconnect", "loading"}
           \/ UNCHANGED gui
    BY <1>7 DEF GuiConnectReturns, BonjourChanges, Library, Wire, Loaded, vars, disk
  <2>2. QED
    BY <1>2, <1>3, <1>4, <2>1, StaysItems
<1>8. QED
  BY <1>5, <1>6, <1>7

(* A service the user adds or removes, or a line that is read: nothing is  *)
(* listed or announced of a service that appears.                          *)
LEMMA ItemsAppear ==
  ASSUME OwnInv, ItemsInv, NEW n \in Names, UserAdds(n) \/ UserRemoves(n) \/ LoadLine(n),
         UserAdds(n) => n \in Typed
  PROVE  ItemsInv'
<1>1. /\ ServicesOK /\ Where /\ FileOK /\ gui \in Gui
  BY DEF OwnInv, TypesPlaces, TypeOK, ServicesOK, FileOK
<1>2. /\ SameItems /\ UNCHANGED <<dialog, queue, browser, file>>
      /\ NetNames \subseteq Names /\ OwnNames \subseteq Names
  <2>1. UNCHANGED <<dialog, queue, browser, file>>
    BY DEF UserAdds, UserRemoves, LoadLine, disk
  <2>2. QED
    BY <2>1, SameDialog DEF NetNames, OwnNames, Names
<1>3. \A k \in Names : k # n => services'[k] = services[k]
  BY <1>1 DEF UserAdds, UserRemoves, LoadLine, ServicesOK
<1>4. \A k \in NetNames : file[k] # Absent => file[k].auto
  BY DEF ItemsInv, NetOnly
<1>5. Silent'
  <2>1. gui'.at \in {"add", "remove", "loading", "load"}
    <3>1. CASE UserAdds(n) \/ UserRemoves(n)
      <4>1. gui' = [at |-> "add", name |-> n] \/ gui' = [at |-> "remove", name |-> n]
        BY <3>1 DEF UserAdds, UserRemoves
      <4>2. QED
        BY <4>1
    <3>2. CASE LoadLine(n)
      <4>1. gui = [at |-> "loading", left |-> gui.left]
        BY <1>1, <3>2, Places DEF LoadLine
      <4>2. \/ gui' = [gui EXCEPT !.left = gui.left \ {n}]
            \/ gui' = [at |-> "load", name |-> n, left |-> gui.left \ {n}]
        BY <3>2 DEF LoadLine
      <4>3. QED
        BY <4>1, <4>2
    <3>3. QED
      BY <3>1, <3>2
  <2>2. QED
    BY <2>1 DEF Silent
<1>6. ASSUME gui.at # "remove", ~Known(n), Known(n)', n \in NetNames => services'[n].auto,
             gui'.at # "remove",
             gui'.at \in {"add", "load"} => n \notin NetNames /\ gui'.name = n
      PROVE  ItemsInv'
  <2>1. n \in NetNames \cup OwnNames => ~Mentioned(n)
    BY <1>6 DEF ItemsInv, Believed, Mentioned, Removing
  <2>2. \A k \in NetNames \cup OwnNames : Carried(k)
    BY <1>2, <1>3, <1>6, <2>1 DEF Carried, Removing, SameAddress, Known
  <2>3. \A k \in NetNames : NetOnly(k)'
    BY <1>2, <1>3, <1>4, <1>6 DEF ItemsInv, NetOnly, Known
  <2>4. \A k \in OwnNames : gui'.at \in {"add", "load"} /\ gui'.name = k => ~Listed(k)
    BY <1>6, <2>1 DEF Mentioned
  <2>5. QED
    BY <1>2, <1>5, <2>2, <2>3, <2>4, CarriedItems
<1>7. CASE UserAdds(n)
  <2>1. PICK host \in Hosts, port \in Ports :
          services' = [services EXCEPT ![n] = Connecting(NewService(host, port, TRUE, TRUE))]
    BY <1>7 DEF UserAdds
  <2>2. Connecting(NewService(host, port, TRUE, TRUE)) \in Service
    BY NewTypes, RecordTypes
  <2>3. Known(n)'
    BY <1>1, <2>1, <2>2, OneService, ServiceAssumption DEF Known, ServicesOK
  <2>4. gui.at = "idle" /\ ~Known(n) /\ gui' = [at |-> "add", name |-> n] /\ n \notin NetNames
    BY <1>7 DEF UserAdds, Idle, NetNames
  <2>5. QED
    BY <1>6, <2>3, <2>4
<1>8. CASE UserRemoves(n)
  <2>1. /\ Known(n) /\ ~services[n].auto /\ gui.at = "idle"
        /\ services' = [services EXCEPT ![n] = Absent] /\ gui' = [at |-> "remove", name |-> n]
    BY <1>8 DEF UserRemoves, Idle
  <2>2. n \notin NetNames /\ ~Known(n)'
    BY <1>1, <2>1 DEF ItemsInv, NetOnly, ServicesOK, Known
  <2>3. \A k \in NetNames \cup OwnNames : Carried(k)
    BY <1>2, <1>3, <2>1, <2>2 DEF Carried, Removing, SameAddress, Known
  <2>4. \A k \in NetNames : NetOnly(k)'
    BY <1>2, <1>3, <1>4, <2>1, <2>2 DEF ItemsInv, NetOnly, Known
  <2>5. QED
    BY <1>2, <1>5, <2>1, <2>3, <2>4, CarriedItems
<1>9. CASE LoadLine(n)
  <2> DEFINE line == file[n]
             new == NewService(line.host, line.port, line.auto_connect, ~line.auto)
  <2>1. gui.at = "loading" /\ n \in gui.left
    BY <1>9 DEF LoadLine
  <2>2. file[n] \in Line /\ file[n] # Absent
    BY <1>1, <2>1 DEF Where, FileOK
  <2>3. new \in Service /\ Connecting(new) \in Service /\ new.auto = line.auto
    <3>1. line.host \in Hosts /\ line.port \in Ports /\ line.auto_connect \in BOOLEAN
          /\ line.auto \in BOOLEAN
      BY <2>2 DEF Line
    <3>2. new \in Service
      BY <3>1, NewTypes
    <3>3. new.auto = line.auto
      BY <3>1 DEF NewService
    <3>4. QED
      BY <3>2, <3>3, RecordTypes
  <2> HIDE DEF new
  <2>4. CASE Known(n) /\ gui' = [gui EXCEPT !.left = gui.left \ {n}] /\ UNCHANGED services
    <3>1. gui'.at = "loading"
      BY <1>1, <2>1, <2>4, Places
    <3>2. \A k \in Names : Stays(k)
      BY <2>4 DEF Stays, Known, SameAddress
    <3>3. QED
      BY <1>2, <1>4, <2>1, <3>1, <3>2, StaysItems
  <2>5. CASE /\ ~Known(n) /\ line.auto /\ services' = [services EXCEPT ![n] = new]
             /\ gui' = [gui EXCEPT !.left = gui.left \ {n}]
    <3>1. gui'.at = "loading"
      BY <1>1, <2>1, <2>5, Places
    <3>2. services'[n] = new /\ Known(n)'
      BY <1>1, <2>3, <2>5, ServiceAssumption DEF ServicesOK, Known
    <3>3. QED
      BY <1>6, <2>1, <2>3, <2>5, <3>1, <3>2
  <2>6. CASE /\ ~Known(n) /\ ~line.auto
             /\ gui' = [at |-> "load", name |-> n, left |-> gui.left \ {n}]
             /\ \/ services' = [services EXCEPT ![n] = Connecting(new)]
                \/ services' = [services EXCEPT ![n] = new]
    <3>1. services'[n] \in Service /\ Known(n)'
      BY <1>1, <2>3, <2>6, ServiceAssumption DEF ServicesOK, Known
    <3>2. n \notin NetNames
      BY <1>4, <2>2, <2>6
    <3>3. QED
      BY <1>6, <2>1, <2>6, <3>1, <3>2
  <2>7. QED
    BY <1>9, <2>4, <2>5, <2>6 DEF LoadLine, new
<1>10. QED
  BY <1>7, <1>8, <1>9

(* An item comes into the dialog, or leaves it, at the end of a wait of    *)
(* the GUI thread.                                                         *)
LEMMA ListSettled ==
  ASSUME NEW n, UNCHANGED <<queue, services>>, Settled(n), Once(dialog', n),
         \A j \in DOMAIN dialog' : dialog'[j].name = n =>
           \/ \E i \in DOMAIN dialog : dialog'[j] = dialog[i]
           \/ /\ SameAddress(dialog'[j], services[n])
              /\ \A k \in DOMAIN queue : ~Adds(k, n)
  PROVE  Settled(n)'
<1>1. /\ DOMAIN queue' = DOMAIN queue /\ \A k : queue'[k] = queue[k]
      /\ \A k : (Adds(k, n)' <=> Adds(k, n)) /\ (Revokes(k, n)' <=> Revokes(k, n))
      /\ services'[n] = services[n] /\ (Known(n)' <=> Known(n))
  BY DEF Adds, Revokes, Known
<1>2. \A j \in DOMAIN dialog' : Shows(j, n)' =>
        \/ \E i \in DOMAIN dialog : Shows(i, n) /\ dialog'[j] = dialog[i]
        \/ /\ SameAddress(dialog'[j], services[n])
           /\ \A k \in DOMAIN queue : ~Adds(k, n)
  BY DEF Shows
<1>3. ShownHere(n)'
  BY <1>1, <1>2 DEF Settled, ShownHere
<1>4. ShownSent(n)'
  BY <1>1, <1>2 DEF Settled, ShownSent
<1>5. SentHere(n)'
  BY <1>1 DEF Settled, SentHere
<1>6. SentSent(n)'
  BY <1>1 DEF Settled, SentSent
<1>7. Once(dialog, n)'
  BY DEF Once
<1>8. QED
  BY <1>3, <1>4, <1>5, <1>6, <1>7 DEF Settled

LEMMA ItemsReturn ==
  ASSUME OwnInv, ItemsInv, AddReturns \/ LoadReturns \/ RemoveReturns
  PROVE  ItemsInv'
<1>1. /\ ServicesOK /\ Where /\ gui \in Gui /\ dialog \in Seq(Item)
      /\ NetNames \subseteq Names /\ OwnNames \subseteq Names
  BY DEF OwnInv, TypesPlaces, TypeOK, ServicesOK, NetNames, OwnNames, Names
<1>2. /\ gui.at \in {"add", "load", "remove"} /\ UNCHANGED <<services, queue, browser>>
      /\ gui'.at \in {"idle", "loading"}
  BY DEF AddReturns, LoadReturns, RemoveReturns
<1>3. PICK m \in Names : m = gui.name
  BY <1>1, <1>2, Places DEF Waiting
<1>4. m \notin NetNames
  BY <1>2, <1>3 DEF ItemsInv, NetOnly
<1>5. m \in OwnNames => \A k \in DOMAIN queue : ~Adds(k, m)
  BY DEF ItemsInv, OwnOnly
<1>6. \A k \in NetNames : NetOnly(k)'
  <2>1. \A k \in NetNames : Known(k)' => services'[k].auto
    BY <1>2 DEF ItemsInv, NetOnly, Known
  <2>2. CASE LoadReturns
    BY <1>2, <2>1, <2>2 DEF LoadReturns, disk, ItemsInv, NetOnly
  <2>3. CASE AddReturns \/ RemoveReturns
    <3>1. \A k \in NetNames : file'[k] # Absent => file'[k].auto
      BY <1>1, <2>3, WrittenIs DEF AddReturns, RemoveReturns, ItemsInv, NetOnly
    <3>2. QED
      BY <1>2, <2>1, <3>1 DEF NetOnly
  <2>4. QED
    BY <2>2, <2>3
<1>7. \A k \in OwnNames : OwnOnly(k)'
  <2>1. \A k \in OwnNames : \A i \in DOMAIN queue' : ~Adds(i, k)'
    BY <1>2 DEF ItemsInv, OwnOnly, Adds
  <2>2. QED
    BY <1>2, <2>1 DEF OwnOnly
<1>8. Silent'
  BY <1>2 DEF Silent
<1>9. SUFFICES ASSUME NEW n \in NetNames \cup OwnNames PROVE Settled(n)' /\ Believed(n)'
  BY <1>6, <1>7, <1>8 DEF ItemsInv
<1>10. Settled(n) /\ Believed(n) /\ (Removing(n) => n = m)
  BY <1>3 DEF ItemsInv, Removing
<1>11. (\E k \in DOMAIN queue' : Adds(k, n)') <=> (\E k \in DOMAIN queue : Adds(k, n))
  BY <1>2 DEF Adds
<1>12. CASE AddReturns \/ LoadReturns
  <2>1. gui.at \in {"add", "load"} /\ Known(m)
    BY <1>1, <1>3, <1>12 DEF AddReturns, LoadReturns, Where
  <2>2. PICK item : /\ item = ItemOf(gui.name, services[gui.name], Connected(gui.name))
                    /\ dialog' = OnAddService(dialog, item)
    BY <1>12 DEF AddReturns, LoadReturns
  <2>3. services[m] \in Service
    BY <1>1, <2>1 DEF ServicesOK, Known
  <2>4. item \in Item /\ item.name = m /\ SameAddress(item, services[m])
    <3>1. Connected(m) \in BOOLEAN
      BY DEF Connected
    <3>2. item = ItemOf(m, services[m], Connected(m))
      BY <1>3, <2>2
    <3>3. QED
      BY <2>3, <3>1, <3>2, RecordTypes DEF ItemOf, SameAddress
  <2>5. /\ \A j \in DOMAIN dialog' : (\E i \in DOMAIN dialog : dialog'[j] = dialog[i])
                                     \/ dialog'[j] = item
        /\ \A k : k # m /\ Once(dialog, k) => Once(dialog', k)
        /\ Once(dialog, m) /\ (\A i \in DOMAIN dialog : dialog[i].name = m => SameAddress(dialog[i], item))
           => Once(dialog', m)
    BY <1>1, <2>2, <2>4, AddedItems
  <2>6. m \in OwnNames => ~Listed(m)
    BY <1>3, <2>1 DEF ItemsInv, OwnOnly
  <2>7. Once(dialog', n)
    BY <1>4, <1>10, <2>5, <2>6 DEF Settled, Listed
  <2>8. \A j \in DOMAIN dialog' : dialog'[j].name = n =>
           \/ \E i \in DOMAIN dialog : dialog'[j] = dialog[i]
           \/ /\ SameAddress(dialog'[j], services[n])
              /\ \A k \in DOMAIN queue : ~Adds(k, n)
    BY <1>4, <1>5, <2>4, <2>5
  <2>9. Settled(n)'
    BY <1>2, <1>10, <2>7, <2>8, ListSettled
  <2>10. Listed(n)' => Listed(n) \/ Known(n)
    BY <2>1, <2>4, <2>5 DEF Listed
  <2>11. ~Removing(n)
    BY <2>1 DEF Removing
  <2>12. Known(n)' <=> Known(n)
    BY <1>2 DEF Known
  <2>13. QED
    BY <1>10, <1>11, <2>9, <2>10, <2>11, <2>12 DEF Believed
<1>13. CASE RemoveReturns
  <2>1. dialog' = OnRemoveService(dialog, m)
    BY <1>3, <1>13 DEF RemoveReturns
  <2>2. /\ \A j \in DOMAIN dialog' : \E i \in DOMAIN dialog : dialog'[j] = dialog[i]
        /\ \A k : Once(dialog, k) => Once(dialog', k)
        /\ Once(dialog, m) => \A j \in DOMAIN dialog' : dialog'[j].name # m
    BY <1>1, <2>1, RemovedItems
  <2>3. Settled(n)'
    BY <1>2, <1>10, <2>2, ListSettled DEF Settled
  <2>4. Listed(n)' => Listed(n)
    BY <2>2 DEF Listed
  <2>5. n = m => ~Listed(n)' /\ ~\E k \in DOMAIN queue : Adds(k, n)
    BY <1>4, <1>5, <1>10, <2>2 DEF Settled, Listed
  <2>6. Known(n)' <=> Known(n)
    BY <1>2 DEF Known
  <2>7. QED
    BY <1>10, <1>11, <2>3, <2>4, <2>5, <2>6 DEF Believed
<1>14. QED
  BY <1>12, <1>13

(* The first signal is delivered.                                          *)
LEMMA TailSettled ==
  ASSUME NEW n, queue \in Seq(Signal), queue # <<>>, queue' = Tail(queue),
         services'[n] = services[n], Settled(n), Once(dialog', n),
         \A j \in DOMAIN dialog' : dialog'[j].name = n =>
           /\ ~Revokes(1, n)
           /\ \/ \E i \in DOMAIN dialog : dialog'[j] = dialog[i]
              \/ Adds(1, n) /\ dialog'[j] = queue[1].item
  PROVE  Settled(n)'
<1>1. /\ DOMAIN queue' = 1..(Len(queue) - 1) /\ DOMAIN queue = 1..Len(queue) /\ Len(queue) \in Nat
      /\ \A i \in 1..(Len(queue) - 1) : queue'[i] = queue[i + 1]
  OBVIOUS
<1>2. 1 \in DOMAIN queue
  BY <1>1
<1>3. \A k \in DOMAIN queue' : /\ k + 1 \in DOMAIN queue /\ 1 < k + 1
                               /\ queue'[k] = queue[k + 1]
                               /\ Adds(k, n)' <=> Adds(k + 1, n)
                               /\ Revokes(k, n)' <=> Revokes(k + 1, n)
  BY <1>1 DEF Adds, Revokes
<1>4. \A m \in DOMAIN queue : m = 1 \/ (m - 1 \in DOMAIN queue' /\ (m - 1) + 1 = m)
  BY <1>1
<1>5. \A m \in DOMAIN queue : Revokes(m, n) /\ m # 1 =>
        m - 1 \in DOMAIN queue' /\ Revokes(m - 1, n)'
  BY <1>3, <1>4
<1>6. \A j \in DOMAIN dialog' : Shows(j, n)' =>
        /\ ~Revokes(1, n)
        /\ \/ \E i \in DOMAIN dialog : Shows(i, n) /\ dialog'[j] = dialog[i]
           \/ Adds(1, n) /\ dialog'[j] = queue[1].item
  BY DEF Shows
<1>7. Known(n)' <=> Known(n)
  BY DEF Known
<1>8. ShownHere(n)'
  <2> SUFFICES ASSUME NEW j \in DOMAIN dialog', Shows(j, n)', Known(n)',
                      ~SameAddress(dialog'[j], services'[n])
               PROVE  \E m \in DOMAIN queue' : Revokes(m, n)'
    BY DEF ShownHere
  <2>1. \E m \in DOMAIN queue : Revokes(m, n)
    BY <1>2, <1>6, <1>7 DEF Settled, ShownHere, SentHere
  <2>2. QED
    BY <1>5, <1>6, <2>1
<1>9. ShownSent(n)'
  <2> SUFFICES ASSUME NEW j \in DOMAIN dialog', NEW k \in DOMAIN queue', Shows(j, n)',
                      Adds(k, n)', ~SameAddress(dialog'[j], queue'[k].item)
               PROVE  \E m \in DOMAIN queue' : m < k /\ Revokes(m, n)'
    BY DEF ShownSent
  <2>1. PICK l \in DOMAIN queue : l = k + 1 /\ 1 < l /\ Adds(l, n) /\ queue'[k] = queue[l]
    BY <1>3
  <2>2. PICK m \in DOMAIN queue : m < l /\ Revokes(m, n)
    BY <1>2, <1>6, <2>1 DEF Settled, ShownSent, SentSent
  <2>3. m # 1 /\ m - 1 < k
    BY <1>1, <1>6, <2>1, <2>2
  <2>4. QED
    BY <1>5, <2>2, <2>3
<1>10. SentHere(n)'
  <2> SUFFICES ASSUME NEW k \in DOMAIN queue', Adds(k, n)', Known(n)',
                      ~SameAddress(queue'[k].item, services'[n])
               PROVE  \E m \in DOMAIN queue' : k < m /\ Revokes(m, n)'
    BY DEF SentHere
  <2>1. PICK l \in DOMAIN queue : l = k + 1 /\ 1 < l /\ Adds(l, n) /\ queue'[k] = queue[l]
    BY <1>3
  <2>2. PICK m \in DOMAIN queue : l < m /\ Revokes(m, n)
    BY <1>7, <2>1 DEF Settled, SentHere
  <2>3. m # 1 /\ k < m - 1
    BY <1>1, <2>1, <2>2
  <2>4. QED
    BY <1>5, <2>2, <2>3
<1>11. SentSent(n)'
  <2> SUFFICES ASSUME NEW j \in DOMAIN queue', NEW k \in DOMAIN queue', j < k,
                      Adds(j, n)', Adds(k, n)', ~SameAddress(queue'[j].item, queue'[k].item)
               PROVE  \E m \in DOMAIN queue' : j < m /\ m < k /\ Revokes(m, n)'
    BY DEF SentSent
  <2>1. PICK l \in DOMAIN queue : l = k + 1 /\ Adds(l, n) /\ queue'[k] = queue[l]
    BY <1>3
  <2>2. PICK i \in DOMAIN queue : i = j + 1 /\ 1 < i /\ Adds(i, n) /\ queue'[j] = queue[i]
    BY <1>3
  <2>3. i < l
    BY <1>1, <2>1, <2>2
  <2>4. PICK m \in DOMAIN queue : i < m /\ m < l /\ Revokes(m, n)
    BY <2>1, <2>2, <2>3 DEF Settled, SentSent
  <2>5. m # 1 /\ j < m - 1 /\ m - 1 < k
    BY <1>1, <2>1, <2>2, <2>4
  <2>6. QED
    BY <1>5, <2>4, <2>5
<1>12. Once(dialog, n)'
  BY DEF Once
<1>13. QED
  BY <1>8, <1>9, <1>10, <1>11, <1>12 DEF Settled

LEMMA ItemsDelivered ==
  ASSUME OwnInv, ItemsInv, Deliver
  PROVE  ItemsInv'
<1>1. /\ dialog \in Seq(Item) /\ queue \in Seq(Signal) /\ queue # <<>>
      /\ NetNames \subseteq Names /\ OwnNames \subseteq Names
  BY DEF OwnInv, TypesPlaces, TypeOK, NetNames, OwnNames, Names, Deliver
<1>2. /\ gui.at = "idle" /\ UNCHANGED <<services, gui, browser, file>> /\ queue' = Tail(queue)
      /\ dialog' = IF Head(queue).kind = "added" THEN OnAddService(dialog, Head(queue).item)
                   ELSE OnRemoveService(dialog, Head(queue).name)
  BY DEF Deliver, Idle, disk
<1>3. /\ DOMAIN queue' = 1..(Len(queue) - 1) /\ DOMAIN queue = 1..Len(queue) /\ Len(queue) \in Nat
      /\ \A i \in 1..(Len(queue) - 1) : queue'[i] = queue[i + 1]
      /\ Head(queue) = queue[1]
  BY <1>1, <1>2
<1>4. 1 \in DOMAIN queue /\ queue[1] \in Signal
  BY <1>1, <1>3
<1>5. \A k \in NetNames : NetOnly(k)'
  BY <1>2 DEF ItemsInv, NetOnly, Known
<1>6. \A n : (\E k \in DOMAIN queue' : Adds(k, n)') => (\E k \in DOMAIN queue : Adds(k, n))
  <2>1. \A k \in DOMAIN queue' : k + 1 \in DOMAIN queue /\ queue'[k] = queue[k + 1]
    BY <1>3
  <2>2. QED
    BY <2>1 DEF Adds
<1>7. \A k \in OwnNames : OwnOnly(k)'
  BY <1>2, <1>6 DEF ItemsInv, OwnOnly
<1>8. Silent'
  BY <1>2 DEF Silent
<1>9. SUFFICES ASSUME NEW n \in NetNames \cup OwnNames PROVE Settled(n)' /\ Believed(n)'
  BY <1>5, <1>7, <1>8 DEF ItemsInv
<1>10. Settled(n) /\ Believed(n) /\ services'[n] = services[n] /\ (Known(n)' <=> Known(n))
  BY <1>2 DEF ItemsInv, Known
<1>11. ~Removing(n) /\ (Removing(n)' <=> Removing(n))
  BY <1>2 DEF Removing
<1>12. CASE queue[1].kind = "added"
  <2>1. queue[1].item \in Item
    BY <1>4, <1>12 DEF Signal
  <2>2. dialog' = OnAddService(dialog, queue[1].item)
    BY <1>2, <1>3, <1>12
  <2>3. /\ \A j \in DOMAIN dialog' : (\E i \in DOMAIN dialog : dialog'[j] = dialog[i])
                                     \/ dialog'[j] = queue[1].item
        /\ \A k : k # queue[1].item.name /\ Once(dialog, k) => Once(dialog', k)
        /\ Once(dialog, queue[1].item.name)
           /\ (\A i \in DOMAIN dialog : dialog[i].name = queue[1].item.name
                                        => SameAddress(dialog[i], queue[1].item))
           => Once(dialog', queue[1].item.name)
    BY <1>1, <2>1, <2>2, AddedItems
  <2>4. ~Revokes(1, n)
    BY <1>12 DEF Revokes
  <2>5. ASSUME queue[1].item.name = n
        PROVE  \A i \in DOMAIN dialog : dialog[i].name = n => SameAddress(dialog[i], queue[1].item)
    <3>1. Adds(1, n) /\ ~\E m \in DOMAIN queue : m < 1
      BY <1>3, <1>12, <2>5 DEF Adds
    <3>2. QED
      BY <1>4, <1>10, <3>1 DEF Settled, ShownSent, Shows
  <2>6. Once(dialog', n)
    BY <1>10, <2>3, <2>5 DEF Settled
  <2>7. \A j \in DOMAIN dialog' : dialog'[j].name = n =>
          \/ \E i \in DOMAIN dialog : dialog'[j] = dialog[i]
          \/ Adds(1, n) /\ dialog'[j] = queue[1].item
    BY <1>12, <2>3 DEF Adds
  <2>8. Settled(n)'
    BY <1>1, <1>2, <1>10, <2>4, <2>6, <2>7, TailSettled
  <2>9. Listed(n)' => Listed(n) \/ \E k \in DOMAIN queue : Adds(k, n)
    BY <1>4, <2>7 DEF Listed
  <2>10. QED
    BY <1>6, <1>10, <1>11, <2>8, <2>9 DEF Believed
<1>13. CASE queue[1].kind # "added"
  <2>1. queue[1].kind = "removed"
    BY <1>4, <1>13 DEF Signal
  <2>2. dialog' = OnRemoveService(dialog, queue[1].name)
    BY <1>2, <1>3, <1>13
  <2>3. /\ \A j \in DOMAIN dialog' : \E i \in DOMAIN dialog : dialog'[j] = dialog[i]
        /\ \A k : Once(dialog, k) => Once(dialog', k)
        /\ Once(dialog, queue[1].name) => \A j \in DOMAIN dialog' : dialog'[j].name # queue[1].name
    BY <1>1, <2>2, RemovedItems
  <2>4. Once(dialog', n)
    BY <1>10, <2>3 DEF Settled
  <2>5. \A j \in DOMAIN dialog' : dialog'[j].name = n =>
          ~Revokes(1, n) /\ \E i \in DOMAIN dialog : dialog'[j] = dialog[i]
    BY <1>10, <2>3 DEF Settled, Revokes
  <2>6. Settled(n)'
    BY <1>1, <1>2, <1>10, <2>4, <2>5, TailSettled
  <2>7. Listed(n)' => Listed(n)
    BY <2>5 DEF Listed
  <2>8. QED
    BY <1>6, <1>10, <1>11, <2>6, <2>7 DEF Believed
<1>14. QED
  BY <1>12, <1>13

(* A signal joins the queue: it is about another service, it revokes the   *)
(* service, or it announces it as it is.                                   *)
LEMMA JoinedSettled ==
  ASSUME NEW n, NEW x, queue \in Seq(Signal), queue' = Append(queue, x),
         UNCHANGED dialog, Settled(n),
         \/ /\ services'[n] = services[n]
            /\ ~(x.kind = "added" /\ x.item.name = n)
         \/ x.kind = "removed" /\ x.name = n
         \/ /\ x.kind = "added" /\ x.item.name = n
            /\ Known(n) /\ services'[n] = services[n] /\ SameAddress(x.item, services[n])
  PROVE  Settled(n)'
<1>1. PICK last \in Nat : last = Len(queue) + 1
  OBVIOUS
<1>2. /\ DOMAIN queue' = 1..last /\ DOMAIN queue = 1..Len(queue) /\ Len(queue) \in Nat
      /\ \A i \in 1..Len(queue) : queue'[i] = queue[i]
      /\ queue'[last] = x
  BY <1>1
<1>3. /\ last \in DOMAIN queue'
      /\ \A k \in DOMAIN queue : k \in DOMAIN queue' /\ k < last /\ queue'[k] = queue[k]
      /\ \A k \in DOMAIN queue' : k \in DOMAIN queue \/ k = last
  BY <1>2, <1>1
<1>4. /\ \A k \in DOMAIN queue : (Adds(k, n)' <=> Adds(k, n)) /\ (Revokes(k, n)' <=> Revokes(k, n))
      /\ Adds(last, n)' <=> x.kind = "added" /\ x.item.name = n
      /\ Revokes(last, n)' <=> x.kind = "removed" /\ x.name = n
  BY <1>2, <1>3 DEF Adds, Revokes
<1>5. \A i : Shows(i, n)' <=> Shows(i, n)
  BY DEF Shows
<1>6. CASE x.kind = "removed" /\ x.name = n
  <2>1. Revokes(last, n)' /\ ~Adds(last, n)'
    BY <1>4, <1>6
  <2>2. ShownHere(n)'
    BY <1>3, <2>1 DEF ShownHere
  <2>3. ShownSent(n)'
    BY <1>3, <1>4, <1>5, <2>1 DEF Settled, ShownSent
  <2>4. SentHere(n)'
    BY <1>3, <1>4, <2>1 DEF SentHere
  <2>5. SentSent(n)'
    BY <1>3, <1>4, <2>1 DEF Settled, SentSent
  <2>6. QED
    BY <2>2, <2>3, <2>4, <2>5 DEF Settled, Once
<1>7. CASE /\ services'[n] = services[n]
           /\ ~(x.kind = "added" /\ x.item.name = n)
  <2>1. ~Adds(last, n)' /\ (Known(n)' <=> Known(n))
    BY <1>4, <1>7 DEF Known
  <2>2. ShownHere(n)'
    BY <1>3, <1>4, <1>5, <1>7, <2>1 DEF Settled, ShownHere
  <2>3. ShownSent(n)'
    BY <1>3, <1>4, <1>5, <2>1 DEF Settled, ShownSent
  <2>4. SentHere(n)'
    BY <1>3, <1>4, <1>7, <2>1 DEF Settled, SentHere
  <2>5. SentSent(n)'
    BY <1>3, <1>4, <2>1 DEF Settled, SentSent
  <2>6. QED
    BY <2>2, <2>3, <2>4, <2>5 DEF Settled, Once
<1>8. CASE /\ x.kind = "added" /\ x.item.name = n
           /\ Known(n) /\ services'[n] = services[n] /\ SameAddress(x.item, services[n])
  <2>1. queue'[last].item = x.item /\ (Known(n)' <=> Known(n))
    BY <1>2, <1>8 DEF Known
  <2>2. ShownHere(n)'
    BY <1>3, <1>4, <1>5, <1>8 DEF Settled, ShownHere
  <2>3. ShownSent(n)'
    <3> SUFFICES ASSUME NEW i \in DOMAIN dialog, NEW k \in DOMAIN queue', Shows(i, n),
                        Adds(k, n)', ~SameAddress(dialog[i], queue'[k].item)
                 PROVE  \E m \in DOMAIN queue' : m < k /\ Revokes(m, n)'
      BY <1>5 DEF ShownSent
    <3>1. CASE k \in DOMAIN queue
      BY <1>3, <1>4, <3>1 DEF Settled, ShownSent
    <3>2. CASE k = last
      <4>1. ~SameAddress(dialog[i], services[n])
        BY <1>8, <2>1, <3>2 DEF SameAddress
      <4>2. \E m \in DOMAIN queue : Revokes(m, n)
        BY <1>8, <4>1 DEF Settled, ShownHere
      <4>3. QED
        BY <1>3, <1>4, <3>2, <4>2
    <3>3. QED
      BY <1>3, <3>1, <3>2
  <2>4. SentHere(n)'
    <3> SUFFICES ASSUME NEW k \in DOMAIN queue', Adds(k, n)',
                        ~SameAddress(queue'[k].item, services[n])
                 PROVE  \E m \in DOMAIN queue' : k < m /\ Revokes(m, n)'
      BY <1>8 DEF SentHere
    <3>1. k # last
      BY <1>8, <2>1
    <3>2. QED
      BY <1>3, <1>4, <1>8, <3>1 DEF Settled, SentHere
  <2>5. SentSent(n)'
    <3> SUFFICES ASSUME NEW j \in DOMAIN queue', NEW k \in DOMAIN queue', j < k,
                        Adds(j, n)', Adds(k, n)', ~SameAddress(queue'[j].item, queue'[k].item)
                 PROVE  \E m \in DOMAIN queue' : j < m /\ m < k /\ Revokes(m, n)'
      BY DEF SentSent
    <3>1. j \in DOMAIN queue
      BY <1>2, <1>3, <1>1
    <3>2. CASE k \in DOMAIN queue
      BY <1>3, <1>4, <3>1, <3>2 DEF Settled, SentSent
    <3>3. CASE k = last
      <4>1. ~SameAddress(queue[j].item, services[n])
        BY <1>3, <1>8, <2>1, <3>1, <3>3 DEF SameAddress
      <4>2. \E m \in DOMAIN queue : j < m /\ Revokes(m, n)
        BY <1>4, <1>8, <3>1, <4>1 DEF Settled, SentHere
      <4>3. QED
        BY <1>3, <1>4, <3>3, <4>2
    <3>4. QED
      BY <1>3, <3>2, <3>3
  <2>6. QED
    BY <2>2, <2>3, <2>4, <2>5 DEF Settled, Once
<1>9. QED
  BY <1>6, <1>7, <1>8

(* What the browser's thread does and says of a service in one step: it    *)
(* keeps its address, or revokes it, or announces it as it is.             *)
Says(n) ==
    /\ \A k \in Names : k # n => services'[k] = services[k]
    /\ \/ UNCHANGED queue /\ (Known(n) => SameAddress(services'[n], services[n]))
       \/ queue' = Emit(queue, Removed(n))
       \/ queue' = Emit(queue, Added(n)) /\ Known(n) /\ services'[n] = services[n]

LEMMA FoundSame ==
  ASSUME ServicesOK, NEW n \in Names, NEW host \in Hosts, NEW port \in Ports, NEW q,
         ~Swapped(n, host), OnServiceAdded(n, host, port, services, q), Known(n)
  PROVE  SameAddress(services'[n], services[n])
<1>1. services[n] \in Service
  BY DEF Known, ServicesOK
<1>2. host = "localhost" => services[n].host = "localhost"
  BY DEF Swapped
<1>3. /\ Rediscovered(services[n], host) \in Service
      /\ SameAddress(Rediscovered(services[n], host), services[n])
  BY <1>1, <1>2 DEF Rediscovered, SameAddress, Service, Hosts
<1>4. \A s \in Service : SameAddress(Connecting(s), s)
  BY DEF Connecting, SameAddress, Service
<1>5. \/ services'[n] = services[n]
      \/ services'[n] = Rediscovered(services[n], host)
      \/ services'[n] = Connecting(Rediscovered(services[n], host))
  BY DEF OnServiceAdded, ServicesOK, Known
<1>6. QED
  BY <1>3, <1>4, <1>5 DEF SameAddress

LEMMA NetworkSays ==
  ASSUME TypesPlaces, Network \/ BrowserConnectReturns \/ BrowserDisconnectReturns
  PROVE  \E n \in Announced : Says(n)
<1>1. /\ TypeOK /\ Where /\ ServicesOK /\ queue \in Seq(Signal) /\ browser \in Browser
  BY DEF TypesPlaces, TypeOK, ServicesOK
<1>2. ASSUME NEW n \in Announced, NEW host \in Hosts, NEW port \in Ports,
             NetworkAdds(n, host, port)
      PROVE  Says(n)
  <2>1. n \in Names
    BY DEF Names
  <2>2. CASE ~Swapped(n, host) /\ OnServiceAdded(n, host, port, services, queue)
    <3>1. UNCHANGED queue /\ \A k \in Names : k # n => services'[k] = services[k]
      BY <1>1, <2>2, FoundTypes DEF ServicesOK
    <3>2. QED
      BY <1>1, <2>1, <2>2, <3>1, FoundSame DEF Says
  <2>3. CASE OnServiceAdded(n, host, port, services, Emit(queue, Removed(n)))
    <3>1. Emit(queue, Removed(n)) \in Seq(Signal)
      BY <1>1, <2>1, Sent
    <3>2. /\ queue' = Emit(queue, Removed(n))
          /\ \A k \in Names : k # n => services'[k] = services[k]
      BY <1>1, <2>3, <3>1, FoundTypes DEF ServicesOK
    <3>3. QED
      BY <3>2 DEF Says
  <2>4. CASE UNCHANGED <<services, queue>>
    BY <2>4 DEF Says, SameAddress
  <2>5. QED
    BY <1>2, <2>2, <2>3, <2>4 DEF NetworkAdds
<1>3. ASSUME NEW n \in Announced, NEW loopback \in BOOLEAN, NetworkRemoves(n, loopback)
      PROVE  Says(n)
  BY <1>3 DEF NetworkRemoves, Says, SameAddress
<1>4. CASE BrowserConnectReturns
  <2>1. PICK n \in Announced : n = browser.name
    BY <1>1, <1>4 DEF BrowserConnectReturns, Where
  <2>2. UNCHANGED services /\ queue' = IF Known(n) THEN Emit(queue, Added(n)) ELSE queue
    BY <1>4, <2>1 DEF BrowserConnectReturns
  <2>3. Says(n)
    BY <2>2 DEF Says, SameAddress
  <2>4. QED
    BY <2>3
<1>5. CASE BrowserDisconnectReturns
  <2>1. PICK n \in Announced : n = browser.name
    BY <1>1, <1>5 DEF BrowserDisconnectReturns, Where
  <2>2. n \in Names
    BY DEF Names
  <2>3. /\ AfterWait(n) \in [Names -> Service \cup {Absent}]
        /\ \A k \in Names : k # n => AfterWait(n)[k] = services[k]
    BY <1>1, <2>2, WaitEnded
  <2>4. Emit(queue, Removed(n)) \in Seq(Signal)
    BY <1>1, <2>2, Sent
  <2>5. CASE services' = AfterWait(n) /\ queue' = Emit(queue, Removed(n))
    BY <2>3, <2>5 DEF Says
  <2>6. CASE /\ browser.at = "swap"
             /\ OnServiceAdded(n, "localhost", browser.port, AfterWait(n), Emit(queue, Removed(n)))
    <3>1. browser.port \in Ports /\ "localhost" \in Hosts
      BY <1>1, <2>6, Places DEF Hosts
    <3>2. /\ queue' = Emit(queue, Removed(n))
          /\ \A k \in Names : k # n => services'[k] = AfterWait(n)[k]
      BY <1>1, <2>3, <2>4, <2>6, <3>1, FoundTypes
    <3>3. QED
      BY <2>3, <3>2 DEF Says
  <2>7. QED
    BY <1>5, <2>1, <2>5, <2>6 DEF BrowserDisconnectReturns
<1>6. QED
  BY <1>2, <1>3, <1>4, <1>5 DEF Network

LEMMA ItemsSaid ==
  ASSUME OwnInv, ItemsInv, Network \/ BrowserConnectReturns \/ BrowserDisconnectReturns
  PROVE  ItemsInv'
<1>1. /\ TypesPlaces /\ TypeOK /\ ServicesOK /\ queue \in Seq(Signal) /\ RemovedAnnounced(queue)
      /\ NetNames \subseteq Names /\ OwnNames \subseteq Names
  BY DEF OwnInv, TypesPlaces, TypeOK, ServicesOK, ListedInv, NetNames, OwnNames, Names
<1>2. /\ UNCHANGED <<dialog, gui, file>>
      /\ \A n \in Names \ Announced : services'[n] = services[n]
      /\ \A n \in Names : /\ Known(n) => Known(n)' /\ Same(n)
                          /\ ~Known(n) /\ Known(n)' => services'[n].auto
  BY <1>1, NetworkFrame
<1>3. PICK m \in Announced : Says(m)
  BY <1>1, NetworkSays
<1>4. gui.at # "down"
  BY DEF Network, NetworkAdds, NetworkRemoves, Running, BrowserConnectReturns,
         BrowserDisconnectReturns, ItemsInv, Silent
<1>5. \A n \in NetNames : NetOnly(n)'
  BY <1>1, <1>2 DEF ItemsInv, NetOnly, Same
<1>6. CASE UNCHANGED queue /\ (Known(m) => SameAddress(services'[m], services[m]))
  <2>1. SameItems
    BY <1>2, SameDialog
  <2>2. ASSUME NEW n \in NetNames \cup OwnNames PROVE Carried(n)
    <3>1. Mentioned(n) /\ ~Removing(n) => Known(n)
      BY <2>2 DEF ItemsInv, Believed, Mentioned
    <3>2. n \in NetNames => ~Removing(n)
      BY DEF ItemsInv, NetOnly, Removing
    <3>3. n \in OwnNames => services'[n] = services[n]
      BY <1>2 DEF OwnNames
    <3>4. Removing(n)' <=> Removing(n)
      BY <1>2 DEF Removing
    <3>5. n = m \/ services'[n] = services[n]
      BY <1>1, <1>3 DEF Says
    <3>6. QED
      BY <1>1, <1>2, <1>6, <3>1, <3>2, <3>3, <3>4, <3>5 DEF Carried, Known, SameAddress
  <2>3. \A n \in OwnNames : gui'.at \in {"add", "load"} /\ gui'.name = n => ~Listed(n)
    BY <1>2 DEF ItemsInv, OwnOnly
  <2>4. Silent'
    BY <1>2, <1>4, <1>6 DEF ItemsInv, Silent
  <2>5. QED
    BY <1>5, <1>6, <2>1, <2>2, <2>3, <2>4, CarriedItems
<1>7. CASE gui.at = "started" /\ UNCHANGED queue
  <2>1. DOMAIN dialog' = {} /\ DOMAIN queue' = {} /\ dialog' = <<>> /\ queue' = <<>>
    BY <1>2, <1>7 DEF ItemsInv, Silent
  <2>2. \A n : Settled(n)' /\ Believed(n)' /\ ~Listed(n)'
    BY <2>1 DEF Settled, Once, ShownHere, ShownSent, SentHere, SentSent, Believed, Listed
  <2>3. \A n \in OwnNames : OwnOnly(n)'
    BY <2>1, <2>2 DEF OwnOnly
  <2>4. Silent'
    BY <1>2, <1>4, <2>1 DEF Silent
  <2>5. QED
    BY <1>5, <2>2, <2>3, <2>4 DEF ItemsInv
<1>8. ASSUME gui.at # "started", NEW x, queue' = Append(queue, x),
             \/ x = Removed(m)
             \/ x = Added(m) /\ Known(m) /\ services'[m] = services[m]
      PROVE  ItemsInv'
  <2>1. /\ DOMAIN queue' = 1..(Len(queue) + 1) /\ DOMAIN queue = 1..Len(queue)
        /\ Len(queue) \in Nat
        /\ \A i \in 1..Len(queue) : queue'[i] = queue[i]
        /\ queue'[Len(queue) + 1] = x
    BY <1>1, <1>8
  <2>2. \/ x.kind = "removed" /\ x.name = m
        \/ /\ x.kind = "added" /\ x.item.name = m
           /\ Known(m) /\ services'[m] = services[m] /\ SameAddress(x.item, services[m])
    BY <1>8 DEF Removed, Added, ItemOf, SameAddress
  <2>3. \A n : (\E k \in DOMAIN queue' : Adds(k, n)')
               => (\E k \in DOMAIN queue : Adds(k, n)) \/ (n = m /\ Known(m))
    <3>1. \A k \in DOMAIN queue' : (k \in DOMAIN queue /\ queue'[k] = queue[k]) \/ queue'[k] = x
      BY <2>1
    <3>2. x.kind = "added" => x.item.name = m /\ Known(m)
      BY <2>2
    <3>3. QED
      BY <3>1, <3>2 DEF Adds
  <2>4. \A n : Listed(n)' <=> Listed(n)
    BY <1>2 DEF Listed
  <2>5. ASSUME NEW n \in NetNames \cup OwnNames PROVE Settled(n)'
    <3>1. Settled(n)
      BY DEF ItemsInv
    <3>2. n # m => services'[n] = services[n] /\ ~(x.kind = "added" /\ x.item.name = n)
      BY <1>1, <1>3, <2>2 DEF Says
    <3>3. QED
      BY <1>1, <1>2, <1>8, <2>2, <3>1, <3>2, JoinedSettled
  <2>6. \A n \in NetNames \cup OwnNames : Believed(n)'
    BY <1>1, <1>2, <2>3, <2>4 DEF ItemsInv, Believed, Removing
  <2>7. \A n \in OwnNames : OwnOnly(n)'
    <3>1. \A n \in OwnNames : n # m
      BY DEF OwnNames
    <3>2. QED
      BY <1>2, <2>3, <2>4, <3>1 DEF ItemsInv, OwnOnly
  <2>8. Silent'
    BY <1>2, <1>4, <1>8 DEF Silent
  <2>9. QED
    BY <1>5, <2>5, <2>6, <2>7, <2>8 DEF ItemsInv
<1>9. QED
  BY <1>3, <1>6, <1>7, <1>8 DEF Says, Emit

(* Ending the program, and starting it again.                              *)
LEMMA ItemsRestart ==
  ASSUME OwnInv, ItemsInv, Crash \/ Quit \/ Start
  PROVE  ItemsInv'
<1>1. ServicesOK /\ NetNames \subseteq Names /\ OwnNames \subseteq Names
  BY DEF OwnInv, TypesPlaces, TypeOK, ServicesOK, NetNames, OwnNames, Names
<1>2. dialog' = <<>> /\ queue' = <<>> /\ gui'.at \in {"down", "started"} /\ browser'.at = "idle"
  BY DEF Crash, Quit, Vanish, Start, ItemsInv, Silent
<1>3. DOMAIN dialog' = {} /\ DOMAIN queue' = {}
  BY <1>2
<1>4. \A n : Settled(n)' /\ Believed(n)'
  BY <1>3 DEF Settled, Once, ShownHere, ShownSent, SentHere, SentSent, Believed, Listed
<1>5. \A n \in OwnNames : OwnOnly(n)'
  BY <1>2, <1>3 DEF OwnOnly
<1>6. Silent'
  BY <1>2 DEF Silent
<1>7. \A n \in NetNames : file'[n] # Absent => file'[n].auto
  <2>1. CASE Quit
    BY <1>1, <2>1, WrittenIs DEF Quit, ItemsInv, NetOnly
  <2>2. CASE Crash \/ Start
    BY <2>2 DEF Crash, Start, disk, ItemsInv, NetOnly
  <2>3. QED
    BY <2>1, <2>2
<1>8. \A n \in NetNames : Known(n)' => services'[n].auto
  <2>1. CASE Crash \/ Quit
    BY <1>1, <2>1 DEF Crash, Quit, Vanish, Nothing, Known
  <2>2. CASE Start
    BY <2>2 DEF Start, Known, ItemsInv, NetOnly
  <2>3. QED
    BY <2>1, <2>2
<1>9. \A n \in NetNames : NetOnly(n)'
  BY <1>2, <1>7, <1>8 DEF NetOnly
<1>10. QED
  BY <1>4, <1>5, <1>6, <1>9 DEF ItemsInv

LEMMA ItemsStep == OwnInv /\ ItemsInv /\ [Next]_vars => ItemsInv'
<1> SUFFICES ASSUME OwnInv, ItemsInv, [Next]_vars PROVE ItemsInv'
  OBVIOUS
<1>1. CASE UNCHANGED vars
  BY <1>1, ItemsKept
<1>2. CASE GuiStep
  <2>1. CASE \E n \in Names : LoadLine(n)
    <3>1. PICK n \in Names : LoadLine(n)
      BY <2>1
    <3>2. ~UserAdds(n)
      BY <3>1 DEF LoadLine, UserAdds, Idle
    <3>3. QED
      BY <3>1, <3>2, ItemsAppear
  <2>2. QED
    BY <1>2, <2>1, ItemsKept, ItemsTimer, ItemsReturn, ItemsDelivered DEF GuiStep
<1>3. CASE User
  <2>1. CASE \E n \in Names : UserChecks(n) \/ UserUnchecks(n)
    BY <2>1, ItemsAsked
  <2>2. CASE \E n \in Names : UserRemoves(n)
    <3>1. PICK n \in Names : UserRemoves(n)
      BY <2>2
    <3>2. ~UserAdds(n)
      BY <3>1 DEF UserRemoves, UserAdds
    <3>3. QED
      BY <3>1, <3>2, ItemsAppear
  <2>3. CASE \E n \in Typed : UserAdds(n)
    BY <2>3, ItemsAppear DEF Names
  <2>4. QED
    BY <1>3, <2>1, <2>2, <2>3, ItemsKept DEF User
<1>4. CASE Network \/ BrowserConnectReturns \/ BrowserDisconnectReturns
  BY <1>4, ItemsSaid
<1>5. CASE Library
  BY <1>5, ItemsKept
<1>6. CASE Crash \/ Quit \/ Start
  BY <1>6, ItemsRestart
<1>7. QED
  BY <1>1, <1>2, <1>3, <1>4, <1>5, <1>6 DEF Next

(* The dialog lists no service twice, and once the browser's signals have  *)
(* been delivered it shows it where the model has it, in whatever order    *)
(* the remote and the local address are announced and the waits end.       *)
THEOREM ItemsAreCurrent == Spec => []ItemsCurrent
<1>1. OwnInv /\ ItemsInv => ItemsCurrent
  <2> SUFFICES ASSUME ItemsInv, NEW n \in Names \ Shared
               PROVE  LET items == {i \in DOMAIN dialog : dialog[i].name = n} IN
                      /\ \A i, j \in items : i = j
                      /\ Idle /\ queue = <<>> /\ browser.at = "idle"
                         => \A i \in items : Known(n) /\ dialog[i].host = services[n].host
    BY DEF ItemsCurrent
  <2>1. Settled(n) /\ Believed(n)
    BY DEF ItemsInv, NetNames, OwnNames, Names, Shared
  <2>2. \A i, j \in {i \in DOMAIN dialog : dialog[i].name = n} : i = j
    BY <2>1 DEF Settled, Once
  <2>3. ASSUME Idle, queue = <<>>, NEW i \in DOMAIN dialog, dialog[i].name = n
        PROVE  Known(n) /\ dialog[i].host = services[n].host
    <3>1. DOMAIN queue = {} /\ ~Removing(n)
      BY <2>3 DEF Idle, Removing
    <3>2. Known(n)
      BY <2>1, <2>3, <3>1 DEF Believed, Listed
    <3>3. QED
      BY <2>1, <2>3, <3>1, <3>2 DEF Settled, ShownHere, Shows, SameAddress
  <2>4. QED
    BY <2>2, <2>3
<1>2. QED
  BY <1>1, OwnInit, OwnStep, ItemsInit, ItemsStep, PTL DEF Spec

=============================================================================
