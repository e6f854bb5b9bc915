------------------------------- MODULE Inventory -------------------------------
(***************************************************************************)
(* How the UniFi checks read a list that comes in pages                    *)
(* (watchpost/checks/apps.py: unifi_list_all, UniFiNetworkCheck): one      *)
(* request after the other, of a console whose devices come and go and     *)
(* change between two of them, and which returns what it likes in a page.  *)
(***************************************************************************)
EXTENDS Apps

CONSTANTS Names,     \* of devices
          Limit      \* how many the check asks for in one request

ASSUME InventoryAssumption == Limit \in Nat \ {0}

VARIABLES
  devices,    \* the devices of the site as they are, oldest first
  style,      \* how the console answers: pages with or without the total, or a bare array
  asking,     \* a poll is reading the list
  offset,     \* where the next page begins
  read,       \* what was read so far
  found,      \* the verdict of the last poll, None before it
  throughout, \* for the property: what was down ever since the first request
  slips       \* for the property: devices that were forgotten before the page edge

inventoryVars == <<devices, style, asking, offset, read, found, throughout, slips>>

\* The monitor: all devices of the only site, any of them down is a problem.
AllDevices == [type |-> "unifi", mode |-> "devices", ignore |-> {}, th |-> None]

Listed(name, state) == [name |-> name, state |-> state]

DownNow == {d.name : d \in Down(AllDevices, devices)}

-----------------------------------------------------------------------------
(* The console *)

\* A device is adopted, or gets another state.
Adopt(name) ==
  /\ \A d \in Range(devices) : d.name # name
  /\ \E state \in {"ONLINE", "OFFLINE"} : devices' = Append(devices, Listed(name, state))
  /\ UNCHANGED <<throughout, slips>>

Change(i) ==
  /\ \E state \in {"ONLINE", "OFFLINE"} : devices' = [devices EXCEPT ![i].state = state]
  /\ throughout' = throughout \intersect DownNow'
  /\ slips' = slips

\* A device leaves the list, and those behind it move up: if the poll is past it, the
\* first of the next page is then where the poll has been already.
Forget(i) ==
  /\ devices' = RemoveAt(devices, i)
  /\ throughout' = throughout \ {devices[i].name}
  /\ slips' = IF i <= offset THEN slips + 1 ELSE slips

Console ==
  /\ \/ \E name \in Names : Adopt(name)
     \/ \E i \in DOMAIN devices : Change(i) \/ Forget(i)
  /\ UNCHANGED <<style, asking, offset, read, found>>

-----------------------------------------------------------------------------
(* The poll *)

Concluded(r) ==
  /\ asking' = FALSE
  /\ found' = UniFi(AllDevices, r)
  /\ offset' = 0 /\ read' = <<>>

\* site_id: no site is configured, so there must be exactly one.
Sites ==
  /\ ~ asking
  /\ \/ /\ asking' = TRUE /\ throughout' = DownNow /\ slips' = 0
        /\ UNCHANGED <<offset, read, found>>
     \/ Concluded(None) /\ UNCHANGED <<throughout, slips>>
  /\ UNCHANGED <<devices, style>>

\* What the console returns when it is ready to return `most': a bare array is whole.
Page(most) ==
  IF style = "array" THEN devices
  ELSE SubSeq(devices, offset + 1, Min({offset + most, Len(devices)}))

\* Faulty variant: the next page begins where a full one would have ended.
NextPage_Limit(page) == offset + Limit

\* Where the next page begins.
NextPage(page) == offset + Len(page)

\* unifi_list_all has all there is: a bare array, an empty page, no total, or as many
\* as the total.
Complete(page) ==
  \/ style # "total"
  \/ page = <<>>
  \/ Len(read \o page) >= Len(devices)

\* One request. A console may return less than it was asked for, but something.
Request ==
  /\ asking
  /\ \E most \in 1..Limit :
       LET page == Page(most)
       IN  IF Complete(page)
           THEN Concluded(read \o page)
           ELSE /\ read' = read \o page /\ offset' = NextPage(page)
                /\ UNCHANGED <<asking, found>>
  /\ UNCHANGED <<devices, style, throughout, slips>>

\* A request fails, or is refused.
NoReply == asking /\ Concluded(None) /\ UNCHANGED <<devices, style, throughout, slips>>

InventoryInit ==
  /\ devices = <<>> /\ throughout = {} /\ slips = 0
  /\ style \in {"total", "pages", "array"}
  /\ asking = FALSE /\ offset = 0 /\ read = <<>> /\ found = None

InventoryNext == Sites \/ Request \/ NoReply \/ Console

InventorySpec == InventoryInit /\ [][InventoryNext]_inventoryVars

-----------------------------------------------------------------------------
\* Of the devices that are down, and listed, from the first request to the last, a poll
\* misses no more than one for each device that was forgotten before the page edge
\* meanwhile: if there are more of them, it reports a problem, however many pages the
\* console makes of the list and whatever is adopted or changes. The one that moves over
\* the edge is missed although "every page" is read. Without the total only the first
\* page is. (apps.py:136-160)
DownThroughoutIsReported ==
  [][asking /\ ~asking' /\ style # "pages" /\ Cardinality(throughout) > slips
       => found'.result = "fail"]_inventoryVars
=============================================================================
